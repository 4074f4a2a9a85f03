------------------------------ MODULE JobRetry ------------------------------
(***************************************************************************)
(* POST tasks/failed/{id}/retry (backend/routes/tasks.py) over the jobs    *)
(* table: the failed row, its payload and the insert of the new job are    *)
(* three transactions, while workers end jobs, the retention deletes them  *)
(* and other users retry the same task.  JobQueue says how a job gets from *)
(* one status to the next; here it just does.                              *)
(***************************************************************************)
EXTENDS Naturals

CONSTANTS
  Job,            \* row identities, never reused: numbers, in order of creation
  Request,        \* retry requests under way
  Purging         \* whether the retention runs

(* What the constants must satisfy.                                        *)
RetryAssumption == Job \subseteq Nat \ {0} /\ Purging \in BOOLEAN

VARIABLES
  jobs,           \* the rows
  request,        \* the task each request retries, and what it has read
  failedOnce      \* history: the jobs that have been failed

vars == <<jobs, request, failedOnce>>

Terminal == {"success", "failed", "cancelled"}
Status == {"unborn", "queued", "running", "purged"} \cup Terminal
None == 0

\* payload: whose data the job computes with (its own first submission, or the
\* one it copies), None for {}.
Row == [status : Status, payload : Job \cup {None}, retry_of : Job \cup {None}]

Unborn == [status |-> "unborn", payload |-> None, retry_of |-> None]
Free == [pc |-> "idle", task |-> None, payload |-> None]

TypeOK ==
  /\ jobs \in [Job -> Row]
  /\ request \in [Request -> [pc : {"idle", "payload", "submit"}, task : Job \cup {None},
                              payload : Job \cup {None}]]
  /\ failedOnce \subseteq Job

Init ==
  /\ jobs = [j \in Job |-> Unborn]
  /\ request = [r \in Request |-> Free]
  /\ failedOnce = {}

Fresh(j) == jobs[j].status = "unborn" /\ \A i \in Job : i < j => jobs[i].status # "unborn"
Insert(j, payload, task) ==
  /\ Fresh(j)
  /\ jobs' = [jobs EXCEPT ![j] = [status |-> "queued", payload |-> payload,
                                  retry_of |-> task]]

\* submit_job from another route.
Submit(j) == Insert(j, j, None) /\ UNCHANGED <<request, failedOnce>>

\* What workers and cancels do to a job.
Move(j, s) ==
  /\ \/ jobs[j].status = "queued" /\ s \in {"running", "cancelled"}
     \/ jobs[j].status = "running" /\ s \in Terminal
  /\ jobs' = [jobs EXCEPT ![j].status = s]
  /\ failedOnce' = IF s = "failed" THEN failedOnce \cup {j} ELSE failedOnce
  /\ UNCHANGED request

\* purge_old.
Purge(j) ==
  /\ Purging
  /\ jobs[j].status \in Terminal
  /\ jobs' = [jobs EXCEPT ![j] = [@ EXCEPT !.status = "purged", !.payload = None]]
  /\ UNCHANGED <<request, failedOnce>>

\* get_job_by_id: 404 without a row, 400 unless it failed.
ReadTask(r, j) ==
  /\ request[r].pc = "idle"
  /\ jobs[j].status = "failed"
  /\ request' = [request EXCEPT ![r] = [Free EXCEPT !.pc = "payload", !.task = j]]
  /\ UNCHANGED <<jobs, failedOnce>>

\* get_payload(task_id) or {}.
ReadPayload(r) ==
  /\ request[r].pc = "payload"
  /\ request' = [request EXCEPT ![r].pc = "submit", ![r].payload = jobs[request[r].task].payload]
  /\ UNCHANGED <<jobs, failedOnce>>

\* submit_job with the kind of the row and the payload, retry_of added.
SubmitRetry(r, j) ==
  /\ request[r].pc = "submit"
  /\ Insert(j, request[r].payload, request[r].task)
  /\ request' = [request EXCEPT ![r] = Free]
  /\ UNCHANGED failedOnce

Next ==
  \/ \E j \in Job : Submit(j)
  \/ \E j \in Job : Purge(j) \/ \E s \in Status : Move(j, s)
  \/ \E r \in Request :
        \/ \E j \in Job : ReadTask(r, j)
        \/ ReadPayload(r)
        \/ \E j \in Job : SubmitRetry(r, j)

Spec == Init /\ [][Next]_vars
-----------------------------------------------------------------------------
\* "Only failed tasks can be retried": whatever happens between its three
\* transactions, a retry is of an older job that has failed (and may be gone).
RetryOfFailed ==
  \A j \in Job : jobs[j].retry_of # None =>
    jobs[j].retry_of \in failedOnce /\ jobs[j].retry_of < j

\* "Re-queue a failed job using its stored payload": a retry computes with what
\* the job it retries was submitted with, through any number of retries.
RetryKeepsPayload ==
  \A j \in Job : jobs[j].retry_of # None /\ jobs[j].status # "purged" =>
    /\ jobs[j].payload # None
    /\ LET t == jobs[j].retry_of IN
       jobs[t].status # "purged" => jobs[j].payload = jobs[t].payload
=============================================================================
