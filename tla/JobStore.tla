------------------------------ MODULE JobStore ------------------------------
(***************************************************************************)
(* The jobs and job_artifacts tables and the SQL repository over them      *)
(* (backend/jobs/repo.py).  Every operator below is one function of the    *)
(* repository: one committed transaction.  The module has no next-state    *)
(* relation of its own; JobQueue composes these transactions with the      *)
(* worker processes and the HTTP routes that call them.                    *)
(***************************************************************************)
EXTENDS Naturals

CONSTANTS
  Job,            \* row identities (a slot is reused once its row is gone)
  Worker,         \* worker incarnations: one fresh uuid per loop.run()
  NoWorker,       \* NULL in jobs.worker_id
  Kind,           \* jobs.kind
  ArtifactKind,   \* the kinds whose handler writes job_artifacts (the others
                  \* write simulation_runs_v2)
  Percent         \* the progress values handlers report

ASSUME StoreAssumption ==
  /\ NoWorker \notin Worker
  /\ Kind # {}
  /\ ArtifactKind \subseteq Kind
  /\ Percent \subseteq 0 .. 100

VARIABLES
  jobs,           \* the jobs table
  older,          \* <<i, j>> when created_at of row i is before that of row j
  output          \* what the handler of a job wrote on its own connection

storeVars == <<jobs, older, output>>

Terminal == {"success", "failed", "cancelled"}
Status == {"queued", "running"} \cup Terminal

(***************************************************************************)
(* "absent" is the row that does not exist; stale stands for               *)
(* last_heartbeat_at IS NULL or older than the zombie timeout.             *)
(* result_ref is written by set_terminal_success alone, in the update that *)
(* sets the status, so it is NOT NULL exactly when the status is success.  *)
(***************************************************************************)
Row == [status : Status \cup {"absent"}, owner : Worker \cup {NoWorker},
        cancel : BOOLEAN, stale : BOOLEAN, progress : 0 .. 100, kind : Kind]

NewRow(s, k) == [status |-> s, owner |-> NoWorker, cancel |-> FALSE,
                 stale |-> FALSE, progress |-> 0, kind |-> k]

HasStatus(s) == {j \in Job : jobs[j].status = s}
Present == {j \in Job : jobs[j].status # "absent"}

StoreTypeOK ==
  /\ jobs \in [Job -> Row]
  /\ older \subseteq Job \X Job
  /\ output \in [Job -> {"none", "pending", "committed"}]

StoreInit ==
  /\ jobs = [j \in Job |-> NewRow("absent", CHOOSE k \in Kind : TRUE)]
  /\ older = {}
  /\ output = [j \in Job |-> "none"]

\* The guard every write of a worker carries:
\* WHERE id = ... AND worker_id = ... AND status = 'running'.
Owns(w, j) == jobs[j].status = "running" /\ jobs[j].owner = w

\* insert_job: a queued row, younger than every row there is.
InsertJob(j, k) ==
  /\ jobs[j].status = "absent"
  /\ jobs' = [jobs EXCEPT ![j] = NewRow("queued", k)]
  /\ older' = older \cup {<<i, j>> : i \in Present}
  /\ output' = [output EXCEPT ![j] = "none"]

\* Variants of pickup_one that a property must notice: ORDER BY created_at
\* DESC, and last_heartbeat_at left NULL.
PickupNewest(w, j) ==
  /\ jobs[j].status = "queued"
  /\ \A i \in HasStatus("queued") : <<j, i>> \notin older
  /\ jobs' = [jobs EXCEPT ![j] =
                [@ EXCEPT !.status = "running", !.owner = w, !.stale = FALSE]]
  /\ UNCHANGED <<older, output>>

PickupWithoutHeartbeat(w, j) ==
  /\ jobs[j].status = "queued"
  /\ \A i \in HasStatus("queued") : <<i, j>> \notin older
  /\ jobs' = [jobs EXCEPT ![j] =
                [@ EXCEPT !.status = "running", !.owner = w, !.stale = TRUE]]
  /\ UNCHANGED <<older, output>>

\* pickup_one: the oldest queued row becomes running, owned by w, with a
\* heartbeat of now.
PickupOne(w, j) ==
  /\ jobs[j].status = "queued"
  /\ \A i \in HasStatus("queued") : <<i, j>> \notin older
  /\ jobs' = [jobs EXCEPT ![j] =
                [@ EXCEPT !.status = "running", !.owner = w, !.stale = FALSE]]
  /\ UNCHANGED <<older, output>>

\* Variant: the WHERE of report_progress is on the id alone.
ReportProgressUnguarded(w, j, p) ==
  /\ jobs' = [jobs EXCEPT ![j] = [@ EXCEPT !.progress = p]]
  /\ UNCHANGED <<older, output>>

\* report_progress: dropped unless w still owns the row.
ReportProgress(w, j, p) ==
  /\ jobs' = IF Owns(w, j) THEN [jobs EXCEPT ![j] = [@ EXCEPT !.progress = p]]
                           ELSE jobs
  /\ UNCHANGED <<older, output>>

Close(j, s, p) ==
  [jobs EXCEPT ![j] = [@ EXCEPT !.status = s, !.owner = NoWorker, !.progress = p]]

\* Variants of the terminal writes: no guard, a status outside the CHECK, the
\* guard of another function.
SetTerminalSuccessUnguarded(w, j) ==
  jobs' = Close(j, "success", 100) /\ UNCHANGED <<older, output>>

MarkFailedAsError(w, j) ==
  /\ jobs' = IF Owns(w, j) THEN Close(j, "error", jobs[j].progress) ELSE jobs
  /\ UNCHANGED <<older, output>>

MarkCancelledIfQueued(w, j) ==
  /\ jobs' = IF jobs[j].status = "queued"
             THEN Close(j, "cancelled", jobs[j].progress) ELSE jobs
  /\ UNCHANGED <<older, output>>

SetTerminalSuccess(w, j) ==
  /\ jobs' = IF Owns(w, j) THEN Close(j, "success", 100) ELSE jobs
  /\ UNCHANGED <<older, output>>

MarkFailed(w, j) ==
  /\ jobs' = IF Owns(w, j) THEN Close(j, "failed", jobs[j].progress) ELSE jobs
  /\ UNCHANGED <<older, output>>

MarkCancelled(w, j) ==
  /\ jobs' = IF Owns(w, j) THEN Close(j, "cancelled", jobs[j].progress) ELSE jobs
  /\ UNCHANGED <<older, output>>

\* Variant: the query keeps only queued rows.
IsCancelRequestedIfQueued(j) == jobs[j].status = "queued" /\ jobs[j].cancel

\* is_cancel_requested: FALSE when the row is gone.
IsCancelRequested(j) == jobs[j].status # "absent" /\ jobs[j].cancel

\* request_cancel: flags a job that is not over.
RequestCancel(j) ==
  /\ jobs[j].status \in {"queued", "running"}
  /\ jobs' = [jobs EXCEPT ![j] = [@ EXCEPT !.cancel = TRUE]]
  /\ UNCHANGED <<older, output>>

(***************************************************************************)
(* The uncommitted INSERT of an artifact holds FOR KEY SHARE on the job    *)
(* row it references: SELECT ... FOR UPDATE and DELETE wait for it, the    *)
(* plain UPDATEs above do not.                                             *)
(***************************************************************************)
KeyLocked(j) == output[j] = "pending" /\ jobs[j].kind \in ArtifactKind

\* Variant: running rows are cancelled on the spot.
CancelJobAtOnce(j) ==
  /\ ~KeyLocked(j)
  /\ jobs[j].status \in {"queued", "running"}
  /\ jobs' = Close(j, "cancelled", jobs[j].progress)
  /\ UNCHANGED <<older, output>>

\* cancel_job_if_pending: queued rows are cancelled, running ones flagged,
\* the others left as they are.
CancelJobIfPending(j) ==
  /\ ~KeyLocked(j)
  /\ \/ /\ jobs[j].status = "queued"
        /\ jobs' = Close(j, "cancelled", jobs[j].progress)
     \/ /\ jobs[j].status = "running"
        /\ jobs' = [jobs EXCEPT ![j] = [@ EXCEPT !.cancel = TRUE]]
  /\ UNCHANGED <<older, output>>

\* heartbeat, and the same UPDATE in the heartbeat thread.
Heartbeat(w) ==
  /\ jobs' = [j \in Job |-> IF Owns(w, j) THEN [jobs[j] EXCEPT !.stale = FALSE]
                                          ELSE jobs[j]]
  /\ UNCHANGED <<older, output>>

Zombies == {j \in HasStatus("running") : jobs[j].stale}

\* Variant: zombies are put back in the queue.
RequeueZombies ==
  /\ jobs' = [j \in Job |->
                IF j \in Zombies
                THEN [jobs[j] EXCEPT !.status = "queued", !.owner = NoWorker]
                ELSE jobs[j]]
  /\ UNCHANGED <<older, output>>

\* reap_zombies: every running row with a stale heartbeat fails, disowned.
ReapZombies ==
  /\ jobs' = [j \in Job |->
                IF j \in Zombies
                THEN [jobs[j] EXCEPT !.status = "failed", !.owner = NoWorker]
                ELSE jobs[j]]
  /\ UNCHANGED <<older, output>>

\* purge_old: deletes the terminal rows S that are past the retention; their
\* artifacts go with them (ON DELETE CASCADE), their simulation runs stay.
PurgeOld(S) ==
  /\ \A j \in S : jobs[j].status \in Terminal /\ ~KeyLocked(j)
  /\ jobs' = [j \in Job |-> IF j \in S THEN NewRow("absent", jobs[j].kind) ELSE jobs[j]]
  /\ older' = {p \in older : p[1] \notin S /\ p[2] \notin S}
  /\ output' = [j \in Job |-> IF j \in S /\ jobs[j].kind \in ArtifactKind
                              THEN "none" ELSE output[j]]

\* Time passes: the heartbeat of a running row becomes older than the timeout.
HeartbeatExpires(j) ==
  /\ jobs[j].status = "running"
  /\ jobs' = [jobs EXCEPT ![j] = [@ EXCEPT !.stale = TRUE]]
  /\ UNCHANGED <<older, output>>
=============================================================================
