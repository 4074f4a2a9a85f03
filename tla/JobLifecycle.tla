---------------------------- MODULE JobLifecycle ----------------------------
(***************************************************************************)
(* What the job API promises to the client that polls it: a job moves      *)
(* forward only, from queued to running to one terminal status, or from    *)
(* queued straight to cancelled; a job that is done has its result, and a  *)
(* cancelled one never leaves any behind.  No workers, owners, heartbeats  *)
(* or transactions here: JobQueue implements this with them.               *)
(***************************************************************************)
CONSTANT Job

VARIABLES
  status,         \* what GET /jobs/{id} shows ("absent": 404)
  result          \* whether the job's result can be read

vars == <<status, result>>

Terminal == {"success", "failed", "cancelled"}

Init ==
  /\ status = [j \in Job |-> "absent"]
  /\ result = [j \in Job |-> FALSE]

Move(j, from, to) ==
  /\ status[j] = from
  /\ status' = [status EXCEPT ![j] = to]

Submit(j) == Move(j, "absent", "queued") /\ result' = [result EXCEPT ![j] = FALSE]

Start(j) == ~result[j] /\ Move(j, "queued", "running") /\ UNCHANGED result

Withdraw(j) == ~result[j] /\ Move(j, "queued", "cancelled") /\ UNCHANGED result

Complete(j) == result[j] /\ Move(j, "running", "success") /\ UNCHANGED result

Abandon(j) == ~result[j] /\ Move(j, "running", "cancelled") /\ UNCHANGED result

\* The failure of several jobs at once; they may have a result already.
Fail(S) ==
  /\ \A j \in S : status[j] = "running"
  /\ status' = [j \in Job |-> IF j \in S THEN "failed" ELSE status[j]]
  /\ UNCHANGED result

\* A result appears for a job that is running, or that failed (or failed and
\* was forgotten) under a worker that did not notice.
Produce(j) ==
  /\ status[j] \in {"running", "failed", "absent"}
  /\ result' = [result EXCEPT ![j] = TRUE]
  /\ UNCHANGED status

\* Old jobs are deleted, some of the results with them.
Forget(S) ==
  /\ \A j \in S : status[j] \in Terminal
  /\ status' = [j \in Job |-> IF j \in S THEN "absent" ELSE status[j]]
  /\ \E T \in SUBSET S : result' = [j \in Job |-> IF j \in T THEN FALSE ELSE result[j]]

Next ==
  \/ \E j \in Job :
        \/ Submit(j)
        \/ Start(j)
        \/ Withdraw(j)
        \/ Complete(j)
        \/ Abandon(j)
        \/ Produce(j)
  \/ \E S \in SUBSET Job : Fail(S) \/ Forget(S)

Spec == Init /\ [][Next]_vars
=============================================================================
