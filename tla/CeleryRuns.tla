---------------------------- MODULE CeleryRuns -----------------------------
(* The runs of simulations: a row that a route inserts as 'queued' and a   *)
(* Celery task, or the route itself, takes to 'done' or 'failed'           *)
(* (routes/simulation.py, simulation_v2.py, economics.py, optimization.py  *)
(* and tasks/).  Every UPDATE is committed on its own; the answer of the   *)
(* route comes last.  A message is acknowledged after the task             *)
(* (task_acks_late), also where the child that ran it was lost, for        *)
(* task_reject_on_worker_lost is not set: it is delivered again where the  *)
(* whole worker dies.                                                      *)
EXTENDS Naturals

CONSTANTS Runs,
          Kinds,       \* kinds of runs that are submitted
          Faults,      \* what may go wrong
          MaxCrashes   \* bound: workers and API processes that die
(* What the constants must satisfy.                                        *)
CeleryConstants ==
  /\ Kinds \subseteq {"rigorous", "study", "economic", "sync", "sweep"}
  /\ Faults \subseteq {"broker", "engine", "sql", "store", "limit", "child"} /\ MaxCrashes \in Nat

VARIABLES run,      \* rows: kind, status, result, and what the route answered
          msg,      \* the message of a run at the broker
          step,     \* how far the process that works on a run is
          crashes
vars == <<run, msg, step, crashes>>

InRoute == {"sync", "sweep"}                \* computed by the route itself
WithCursor == {"study", "sweep"}            \* the engine is given the connection
Ended == {"done", "failed"}
New == [kind |-> "none", status |-> "none", result |-> "none", answer |-> "none"]

Init == /\ run = [r \in Runs |-> New] /\ msg = [r \in Runs |-> "none"]
        /\ step = [r \in Runs |-> "none"] /\ crashes = 0

At(r, s) == step[r] = s
To(r, s) == step' = [step EXCEPT ![r] = s]
Set(r, status, result) == run' = [run EXCEPT ![r].status = status, ![r].result = result]
Answer(r, a) == run' = [run EXCEPT ![r].answer = a]

(* A rigorous run computed by the route is never marked as running. *)
Submit(r) == \E k \in Kinds :
  /\ run[r] = New
  /\ run' = [run EXCEPT ![r].kind = k, ![r].status = "queued"]
  /\ To(r, IF k = "sync" THEN "started" ELSE IF k = "sweep" THEN "taken" ELSE "dispatch")
  /\ UNCHANGED <<msg, crashes>>

(* delay(): where the broker is not reached the studies log it and answer   *)
(* as ever, the others fail.                                               *)
Dispatch(r) ==
  /\ At(r, "dispatch") /\ To(r, "none")
  /\ \/ msg' = [msg EXCEPT ![r] = "queued"] /\ Answer(r, "queued")
     \/ /\ "broker" \in Faults
        /\ Answer(r, IF run[r].kind = "study" THEN "queued" ELSE "error")
        /\ UNCHANGED msg
  /\ UNCHANGED crashes

Take(r) == /\ msg[r] = "queued" /\ msg' = [msg EXCEPT ![r] = "taken"] /\ To(r, "taken")
           /\ UNCHANGED <<run, crashes>>

(* The status the row has is not asked for. *)
Start(r) == /\ At(r, "taken") /\ To(r, "started")
            /\ Set(r, "running", run[r].result)
            /\ UNCHANGED <<msg, crashes>>

(* An SQL error of the engine leaves the transaction aborted, also where    *)
(* the engine or the sweep catches it.                                     *)
Compute(r) ==
  /\ At(r, "started")
  /\ \/ To(r, "computed")
     \/ "engine" \in Faults /\ To(r, "raised")
     \/ "sql" \in Faults /\ run[r].kind \in WithCursor /\ To(r, "aborted")
  /\ UNCHANGED <<run, msg, crashes>>

Store(r) ==
  /\ At(r, "computed")
  /\ \/ To(r, "stored") /\ Set(r, "done", "answer")
     \/ "store" \in Faults /\ To(r, "aborted") /\ UNCHANGED run
  /\ UNCHANGED <<msg, crashes>>

(* The except clause, on the same connection: in an aborted transaction its *)
(* UPDATE raises as well.  A rigorous run of the route has no such clause.  *)
Fail(r) ==
  /\ \/ At(r, "raised") /\ run[r].kind # "sync" /\ To(r, "stored") /\ Set(r, "failed", "error")
     \/ At(r, "raised") /\ run[r].kind = "sync" /\ To(r, "left") /\ UNCHANGED run
     \/ At(r, "aborted") /\ To(r, "left") /\ UNCHANGED run
  /\ UNCHANGED <<msg, crashes>>

(* Failed tasks are acknowledged too. *)
Ack(r) ==
  /\ step[r] \in {"stored", "left"} /\ run[r].kind \notin InRoute /\ To(r, "none")
  /\ msg' = [msg EXCEPT ![r] = "none"]
  /\ UNCHANGED <<run, crashes>>

(* The route of the sweep, on another connection: WHERE status NOT IN       *)
(* ('done', 'failed').                                                     *)
Recover(r) ==
  /\ At(r, "left") /\ run[r].kind = "sweep" /\ To(r, "stored")
  /\ IF run[r].status \in Ended THEN UNCHANGED run ELSE Set(r, "failed", run[r].result)
  /\ UNCHANGED <<msg, crashes>>
(* The sweep answers the status it reads again, the rigorous run its own. *)
AnswerHere(r) ==
  /\ run[r].kind \in InRoute /\ run[r].answer = "none" /\ To(r, "none")
  /\ \/ At(r, "stored") /\ Answer(r, run[r].status)
     \/ At(r, "left") /\ run[r].kind = "sync" /\ Answer(r, "error")
  /\ UNCHANGED <<msg, crashes>>

(* The hard time limit of the economic task is below the soft one: the      *)
(* process is killed without an exception, the message is acknowledged.     *)
TimeLimit(r) ==
  /\ "limit" \in Faults /\ run[r].kind = "economic" /\ At(r, "started")
  /\ To(r, "none") /\ msg' = [msg EXCEPT ![r] = "none"]
  /\ UNCHANGED <<run, crashes>>
(* The worker loses the child at work: the message is acknowledged, nobody  *)
(* tells the row.                                                          *)
ChildLost(r) ==
  /\ "child" \in Faults /\ msg[r] = "taken" /\ step[r] \notin {"none", "dispatch"}
  /\ To(r, "none") /\ msg' = [msg EXCEPT ![r] = "none"]
  /\ UNCHANGED <<run, crashes>>
(* The whole process dies: a worker has acknowledged nothing, the message   *)
(* is delivered again; a route never answers.                              *)
ProcessDies(r) ==
  /\ crashes < MaxCrashes /\ step[r] # "none" /\ To(r, "none")
  /\ crashes' = crashes + 1
  /\ msg' = [msg EXCEPT ![r] = IF @ = "taken" THEN "queued" ELSE @]
  /\ run' = [run EXCEPT ![r].answer = IF @ = "none" THEN "error" ELSE @]

Work(r) == \/ Dispatch(r) \/ Take(r) \/ Start(r) \/ Compute(r) \/ Store(r)
           \/ Fail(r) \/ Ack(r) \/ Recover(r) \/ AnswerHere(r)
Next == \E r \in Runs : Submit(r) \/ Work(r) \/ TimeLimit(r) \/ ChildLost(r) \/ ProcessDies(r)
(* Workers and routes go on; nobody has to submit, and nothing has to fail. *)
Fairness == \A r \in Runs : WF_vars(Work(r))
Spec == Init /\ [][Next]_vars /\ Fairness

-----------------------------------------------------------------------------
(* Rows, and a message that is taken for each task at work. *)
TypeOK ==
  /\ \A r \in Runs :
       /\ run[r].kind \in Kinds \cup {"none"} /\ run[r].status \in Ended \cup {"none", "queued", "running"}
       /\ step[r] \notin {"none", "dispatch"} => (run[r].kind \in InRoute) # (msg[r] = "taken")
  /\ crashes \in 0..MaxCrashes

(* A run that is done has the results of its engine and one that failed    *)
(* has not: a poll that sees 'done' gets an answer.                        *)
DoneHasResult == \A r \in Runs : /\ run[r].status = "done" => run[r].result = "answer"
                                 /\ run[r].status = "failed" => run[r].result # "answer"

(* A run that has ended keeps its status and results, whatever fails and    *)
(* whichever children are lost, until a process dies: a task that has       *)
(* stored its result and is delivered again starts over.                   *)
EndedStays == crashes = 0 => \A r \in Runs : run[r].status \in Ended =>
                run'[r].status = run[r].status /\ run'[r].result = run[r].result

(* A run whose submission was answered with 'queued' ends, so that polling  *)
(* its address comes to an end ("Poll GET ... for results").               *)
Waits(r) == run[r].answer = "queued" /\ run[r].status \notin Ended

(* A sweep is over when its route answers, whatever failed in between      *)
(* (routes/optimization.py: "we guarantee the job reaches a terminal state  *)
(* before the response returns").                                          *)
AnsweredIsOver == \A r \in Runs : run[r].kind = "sweep" /\ run[r].answer \notin {"none", "error"} =>
                    run[r].status \in Ended /\ run[r].answer = run[r].status
=============================================================================
