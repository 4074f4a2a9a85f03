------------------------------ MODULE JobQueue ------------------------------
(***************************************************************************)
(* The asynchronous job subsystem: worker processes (backend/worker) and   *)
(* the HTTP routes (backend/routes/jobs.py) over the shared tables of      *)
(* JobStore.  A worker is one run of loop.run(): its main thread is the    *)
(* program counter pc, its heartbeat thread the flag beating, SIGTERM the  *)
(* flag stopping.  Every step that touches the database is one transaction *)
(* of JobStore; between two of them any other process may run.             *)
(***************************************************************************)
EXTENDS JobStore, TLC

CONSTANTS
  NoJob,
  Registered,     \* kinds the worker's registry has a handler for
  Malformed,      \* kinds whose handler returns an invalid result_ref
  DbFaults,       \* whether heartbeats, their connection and reaps can fail
  Purging,        \* whether purge_old is ever called (no caller in backend/)
  Immortal        \* workers that are neither killed nor told to stop

ASSUME QueueAssumption ==
  /\ NoJob \notin Job
  /\ Registered \subseteq Kind
  /\ Malformed \subseteq Kind
  /\ DbFaults \in BOOLEAN
  /\ Purging \in BOOLEAN
  /\ Immortal \subseteq Worker

VARIABLES
  pc,             \* main thread
  held,           \* the job _process_one_job works on
  stopping,       \* stop_event
  beating,        \* the heartbeat thread is running
  cache,          \* JobContext's cached cancel flag: expired, or clear
  reapDue         \* reaper_interval_seconds have passed since last_reap

workerVars == <<pc, held, stopping, beating, cache, reapDue>>
vars == <<jobs, older, output, pc, held, stopping, beating, cache, reapDue>>

\* Where the main thread is inside _process_one_job.
Working == {"picked", "handler", "checked", "wrote", "committed",
            "failing", "cancelling"}
Up == {"loop", "wait"} \cup Working
PC == {"off", "exited", "dead"} \cup Up

TypeOK ==
  /\ StoreTypeOK
  /\ pc \in [Worker -> PC]
  /\ held \in [Worker -> Job \cup {NoJob}]
  /\ stopping \in [Worker -> BOOLEAN]
  /\ beating \in [Worker -> BOOLEAN]
  /\ cache \in [Worker -> {"expired", "clear"}]
  /\ reapDue \in [Worker -> BOOLEAN]

Init ==
  /\ StoreInit
  /\ pc = [w \in Worker |-> "off"]
  /\ held = [w \in Worker |-> NoJob]
  /\ stopping = [w \in Worker |-> FALSE]
  /\ beating = [w \in Worker |-> FALSE]
  /\ cache = [w \in Worker |-> "expired"]
  /\ reapDue = [w \in Worker |-> FALSE]

Goto(w, from, to) == pc[w] = from /\ pc' = [pc EXCEPT ![w] = to]

Release(w) ==
  /\ held' = [held EXCEPT ![w] = NoJob]
  /\ cache' = [cache EXCEPT ![w] = "expired"]
-----------------------------------------------------------------------------
(* The loop of run(). *)

\* The startup sweep, whose errors are swallowed, then the heartbeat thread:
\* if its first connection fails it ends at once, for good and unnoticed.
Boot(w) ==
  /\ Goto(w, "off", "loop")
  /\ ReapZombies \/ (DbFaults /\ UNCHANGED storeVars)
  /\ \E connects \in BOOLEAN :
       /\ connects \/ DbFaults
       /\ beating' = [beating EXCEPT ![w] = connects]
  /\ UNCHANGED <<held, stopping, cache, reapDue>>

Pickup(w, j) ==
  /\ ~stopping[w]
  /\ Goto(w, "loop", "picked")
  /\ PickupOne(w, j)
  /\ held' = [held EXCEPT ![w] = j]
  /\ UNCHANGED <<stopping, beating, cache, reapDue>>

\* Variant: the loop no longer looks at stop_event.
PickupNothingIgnoringStop(w) ==
  /\ HasStatus("queued") = {}
  /\ Goto(w, "loop", "wait")
  /\ UNCHANGED <<storeVars, held, stopping, beating, cache, reapDue>>

\* pickup_one returned None: wait for NOTIFY or the poll timeout.
PickupNothing(w) ==
  /\ ~stopping[w]
  /\ HasStatus("queued") = {}
  /\ Goto(w, "loop", "wait")
  /\ UNCHANGED <<storeVars, held, stopping, beating, cache, reapDue>>

\* Variant: only the startup sweep reaps.
WakeUpWithoutReaping(w) ==
  /\ Goto(w, "wait", "loop")
  /\ reapDue' = [reapDue EXCEPT ![w] = FALSE]
  /\ UNCHANGED <<storeVars, held, stopping, beating, cache>>

\* Only here, after an empty pickup and the wait, does the loop look at the
\* reaper's schedule.
WakeUp(w) ==
  /\ Goto(w, "wait", "loop")
  /\ IF reapDue[w]
     THEN ReapZombies \/ (DbFaults /\ UNCHANGED storeVars)
     ELSE UNCHANGED storeVars
  /\ reapDue' = [reapDue EXCEPT ![w] = FALSE]
  /\ UNCHANGED <<held, stopping, beating, cache>>

ReapTimerElapses(w) ==
  /\ pc[w] \in Up
  /\ ~reapDue[w]
  /\ reapDue' = [reapDue EXCEPT ![w] = TRUE]
  /\ UNCHANGED <<storeVars, pc, held, stopping, beating, cache>>

ExitLoop(w) ==
  /\ stopping[w]
  /\ Goto(w, "loop", "exited")
  /\ reapDue' = [reapDue EXCEPT ![w] = FALSE]
  /\ UNCHANGED <<storeVars, held, stopping, beating, cache>>
-----------------------------------------------------------------------------
(* _process_one_job. *)

\* The pre-handler check and the registry lookup.
PreCheck(w) ==
  /\ pc[w] = "picked"
  /\ pc' = [pc EXCEPT ![w] =
              IF IsCancelRequested(held[w]) THEN "cancelling"
              ELSE IF jobs[held[w]].kind \in Registered THEN "handler"
              ELSE "failing"]
  /\ UNCHANGED <<storeVars, held, stopping, beating, cache, reapDue>>

HandlerProgress(w) ==
  /\ pc[w] = "handler"
  /\ \E p \in Percent : ReportProgress(w, held[w], p)
  /\ UNCHANGED workerVars

\* A check_cancelled() that goes to the database: the cached value is old.
CheckCancelled(w) ==
  /\ pc[w] = "handler"
  /\ cache[w] = "expired"
  /\ IF IsCancelRequested(held[w])
     THEN /\ pc' = [pc EXCEPT ![w] = "cancelling"]
          /\ UNCHANGED cache
     ELSE /\ cache' = [cache EXCEPT ![w] = "clear"]
          /\ UNCHANGED pc
  /\ UNCHANGED <<storeVars, held, stopping, beating, reapDue>>

CacheExpires(w) ==
  /\ pc[w] = "handler"
  /\ cache[w] = "clear"
  /\ cache' = [cache EXCEPT ![w] = "expired"]
  /\ UNCHANGED <<storeVars, pc, held, stopping, beating, reapDue>>

\* The compute functions end with a check_cancelled(), answered from the
\* cache when that is not yet expired.
FinalCheck(w) ==
  /\ pc[w] = "handler"
  /\ pc' = [pc EXCEPT ![w] =
              IF cache[w] = "expired" /\ IsCancelRequested(held[w])
              THEN "cancelling" ELSE "checked"]
  /\ UNCHANGED <<storeVars, held, stopping, beating, cache, reapDue>>

\* Variant: job_artifacts without its foreign key.
InsertOutputWithoutJob(w) ==
  /\ Goto(w, "checked", "wrote")
  /\ output' = [output EXCEPT ![held[w]] = "pending"]
  /\ UNCHANGED <<jobs, older, held, stopping, beating, cache, reapDue>>

\* The handler inserts its result on the runner's connection.  An artifact
\* needs its job row (the foreign key), a simulation run does not.
InsertOutput(w) ==
  /\ Goto(w, "checked", "wrote")
  /\ \/ jobs[held[w]].status # "absent"
     \/ jobs[held[w]].kind \notin ArtifactKind
  /\ output' = [output EXCEPT ![held[w]] = "pending"]
  /\ UNCHANGED <<jobs, older, held, stopping, beating, cache, reapDue>>

\* Variant: the commit after the handler is forgotten.
ForgetCommit(w) ==
  /\ Goto(w, "wrote", "committed")
  /\ UNCHANGED <<storeVars, held, stopping, beating, cache, reapDue>>

CommitOutput(w) ==
  /\ Goto(w, "wrote", "committed")
  /\ output' = [output EXCEPT ![held[w]] = "committed"]
  /\ UNCHANGED <<jobs, older, held, stopping, beating, cache, reapDue>>

\* The uncommitted output of a handler that raises, or dies, is rolled back.
RollBack(w) == output' = IF pc[w] = "wrote"
                         THEN [output EXCEPT ![held[w]] = "none"]
                         ELSE output

\* Variant: the except branch does not roll the connection back.
HandlerRaisesKeepingOutput(w) ==
  /\ pc[w] \in {"handler", "checked", "wrote"}
  /\ pc' = [pc EXCEPT ![w] = "failing"]
  /\ UNCHANGED <<storeVars, held, stopping, beating, cache, reapDue>>

\* Any exception of the handler, its INSERT or the commit.
HandlerRaises(w) ==
  /\ pc[w] \in {"handler", "checked", "wrote"}
  /\ pc' = [pc EXCEPT ![w] = "failing"]
  /\ RollBack(w)
  /\ UNCHANGED <<jobs, older, held, stopping, beating, cache, reapDue>>

\* The terminal writes: one transaction each, after what decided them.
WriteSuccess(w) ==
  /\ Goto(w, "committed", "loop")
  /\ jobs[held[w]].kind \notin Malformed
  /\ SetTerminalSuccess(w, held[w])
  /\ Release(w)
  /\ UNCHANGED <<stopping, beating, reapDue>>

RejectResult(w) ==
  /\ Goto(w, "committed", "loop")
  /\ jobs[held[w]].kind \in Malformed
  /\ MarkFailed(w, held[w])
  /\ Release(w)
  /\ UNCHANGED <<stopping, beating, reapDue>>

WriteFailed(w) ==
  /\ Goto(w, "failing", "loop")
  /\ MarkFailed(w, held[w])
  /\ Release(w)
  /\ UNCHANGED <<stopping, beating, reapDue>>

WriteCancelled(w) ==
  /\ Goto(w, "cancelling", "loop")
  /\ MarkCancelled(w, held[w])
  /\ Release(w)
  /\ UNCHANGED <<stopping, beating, reapDue>>
-----------------------------------------------------------------------------
(* The heartbeat thread, signals, crashes. *)

Beat(w) ==
  /\ beating[w]
  /\ Heartbeat(w)
  /\ UNCHANGED workerVars

\* while not stop_event.wait(interval): a thread that got its connection ends
\* as soon as the event is set, whatever the main thread is still doing.
HeartbeatThreadEnds(w) ==
  /\ beating[w]
  /\ stopping[w]
  /\ beating' = [beating EXCEPT ![w] = FALSE]
  /\ UNCHANGED <<storeVars, pc, held, stopping, cache, reapDue>>

StopSignal(w) ==
  /\ w \notin Immortal
  /\ pc[w] \in Up
  /\ ~stopping[w]
  /\ stopping' = [stopping EXCEPT ![w] = TRUE]
  /\ UNCHANGED <<storeVars, pc, held, beating, cache, reapDue>>

\* The process is killed, or a database error outside the handler's try block
\* ends run(): the connection closes, which rolls its transaction back.
Crash(w) ==
  /\ w \notin Immortal
  /\ pc[w] \in Up
  /\ pc' = [pc EXCEPT ![w] = "dead"]
  /\ RollBack(w)
  /\ Release(w)
  /\ beating' = [beating EXCEPT ![w] = FALSE]
  /\ stopping' = [stopping EXCEPT ![w] = FALSE]
  /\ reapDue' = [reapDue EXCEPT ![w] = FALSE]
  /\ UNCHANGED <<jobs, older>>
-----------------------------------------------------------------------------
(* The HTTP routes, the administrator and the clock. *)

\* submit_job.  A slot is taken again only when nothing refers to the row
\* that had it: identifiers are fresh uuids.
Submit(j, k) ==
  /\ \A w \in Worker : held[w] # j
  /\ InsertJob(j, k)
  /\ UNCHANGED workerVars

Cancel(j) == CancelJobIfPending(j) /\ UNCHANGED workerVars

FlagCancel(j) == RequestCancel(j) /\ UNCHANGED workerVars

Purge(S) == Purging /\ S # {} /\ PurgeOld(S) /\ UNCHANGED workerVars

\* Without faults, a heartbeat grows old only when no thread refreshes it.
Expire(j) ==
  /\ ~jobs[j].stale
  /\ jobs[j].status = "running"
  /\ DbFaults \/ ~beating[jobs[j].owner]
  /\ HeartbeatExpires(j)
  /\ UNCHANGED workerVars

\* The steps of the main thread but the start and the handler's own.
Runner(w) ==
  \/ \E j \in Job : Pickup(w, j)
  \/ PickupNothing(w)
  \/ WakeUp(w)
  \/ ExitLoop(w)
  \/ PreCheck(w)
  \/ InsertOutput(w)
  \/ CommitOutput(w)
  \/ WriteSuccess(w)
  \/ RejectResult(w)
  \/ WriteFailed(w)
  \/ WriteCancelled(w)

Next ==
  \/ \E w \in Worker :
        \/ Boot(w)
        \/ Runner(w)
        \/ HandlerProgress(w)
        \/ CheckCancelled(w)
        \/ CacheExpires(w)
        \/ FinalCheck(w)
        \/ HandlerRaises(w)
        \/ ReapTimerElapses(w)
        \/ Beat(w)
        \/ HeartbeatThreadEnds(w)
        \/ StopSignal(w)
        \/ Crash(w)
  \/ \E j \in Job :
        \/ \E k \in Kind : Submit(j, k)
        \/ Cancel(j)
        \/ FlagCancel(j)
        \/ Expire(j)
  \/ \E S \in SUBSET Job : Purge(S)

Spec == Init /\ [][Next]_vars

(***************************************************************************)
(* Fairness.  A thread that can take a step takes it, timers elapse, and   *)
(* time passes over a heartbeat nobody refreshes.  The operator starts the *)
(* immortal workers; nothing else starts.  No request, signal, crash,      *)
(* exception or purge is ever bound to happen.                             *)
(***************************************************************************)
Scheduling ==
  /\ \A w \in Immortal : WF_vars(Boot(w))
  /\ \A w \in Worker : /\ WF_vars(Runner(w))
                       /\ WF_vars(ReapTimerElapses(w))
                       /\ WF_vars(HeartbeatThreadEnds(w))
  /\ \A j \in Job : WF_vars(Expire(j))

\* Handlers come to their end ...
FairSpec == Spec /\ Scheduling /\ \A w \in Worker : WF_vars(FinalCheck(w))

\* ... or never do, but keep calling check_cancelled().
EndlessHandlerSpec ==
  /\ Spec
  /\ Scheduling
  /\ \A w \in Worker : WF_vars(CheckCancelled(w)) /\ WF_vars(CacheExpires(w))
-----------------------------------------------------------------------------
(* Safety. *)

\* A job in the hands of a worker is in the hands of that worker alone, and
\* either the worker owns the row or the row was reaped (or reaped and purged)
\* under it: no two workers ever execute one job, and the guards on worker_id
\* tell the rightful worker from a late one.
SingleExecution ==
  \A w \in Worker : held[w] # NoJob =>
    /\ \A x \in Worker \ {w} : held[x] # held[w]
    /\ Owns(w, held[w]) \/ jobs[held[w]].status \in {"failed", "absent"}

\* A running row belongs to a worker that works on it, or that died with it.
RunningIsHeld ==
  \A j \in HasStatus("running") :
    \E w \in Worker : jobs[j].owner = w /\ (held[w] = j \/ pc[w] = "dead")

\* The result a successful job points at is committed: set_terminal_success
\* comes after the commit of the handler's connection.
SuccessHasOutput == \A j \in HasStatus("success") : output[j] = "committed"

\* A cancelled job leaves nothing behind, whichever of the API, the pre-check
\* and the handler cancelled it, and nothing arrives later.
CancelledLeavesNothing == \A j \in HasStatus("cancelled") : output[j] = "none"

\* An artifact never outlives its job, even when the row is purged while a
\* worker it was reaped from is still writing.
ArtifactHasJob ==
  \A j \in Job : output[j] = "committed" /\ jobs[j].kind \in ArtifactKind =>
                 jobs[j].status # "absent"

\* A terminal row is final: late progress, heartbeats, terminal writes, cancels
\* and reaps leave all of it alone; it can only be purged.
TerminalIsFinal ==
  [][\A j \in Job : jobs[j].status \in Terminal =>
       jobs'[j] = jobs[j] \/ jobs'[j].status = "absent"]_vars

\* Where the heartbeat thread gets its first connection and no refresh is lost,
\* a worker that still works on a job loses it to the reaper only after it was
\* told to stop.
ReapedWhileStopping ==
  \A w \in Worker : held[w] # NoJob /\ ~Owns(w, held[w]) => stopping[w]

\* The abstract specification of the API.
Lifecycle == INSTANCE JobLifecycle WITH
  status <- [j \in Job |-> jobs[j].status],
  result <- [j \in Job |-> output[j] = "committed"]

\* Every job's observable history is one that the API promises.
ImplementsLifecycle == Lifecycle!Spec
-----------------------------------------------------------------------------
(***************************************************************************)
(* The inductive invariant behind the safety properties, one named part    *)
(* per fact that the steps hand on to each other.                          *)
(***************************************************************************)

\* The main thread holds a job exactly inside _process_one_job, and the row is
\* still its own, or was reaped, or was reaped and purged.
HoldersHold ==
  \A w \in Worker :
    /\ held[w] # NoJob <=> pc[w] \in Working
    /\ held[w] # NoJob =>
         Owns(w, held[w]) \/ jobs[held[w]].status \in {"failed", "absent"}

HoldersDiffer ==
  \A w, x \in Worker : held[w] # NoJob /\ held[w] = held[x] => w = x

\* worker_id IS NOT NULL exactly while the row is running.
OwnersOwn ==
  \A j \in Job :
    /\ jobs[j].status = "running" <=> jobs[j].owner # NoWorker
    /\ jobs[j].status = "running" =>
         held[jobs[j].owner] = j \/ pc[jobs[j].owner] = "dead"

\* What a worker's position says about the output of the job it holds: none
\* before the INSERT and after a rollback, pending between INSERT and commit,
\* committed after it (an artifact may be purged with its row by then).
OutputFollowsPosition ==
  \A w \in Worker :
    /\ pc[w] \in {"picked", "handler", "checked", "failing", "cancelling"} =>
         output[held[w]] = "none"
    /\ pc[w] = "wrote" =>
         /\ output[held[w]] = "pending"
         /\ jobs[held[w]].kind \in ArtifactKind => jobs[held[w]].status # "absent"
    /\ pc[w] = "committed" /\ Owns(w, held[w]) => output[held[w]] = "committed"

\* What a row's status says about its output.
OutputFollowsStatus ==
  \A j \in Job :
    /\ jobs[j].status \in {"queued", "cancelled"} => output[j] = "none"
    /\ jobs[j].status = "success" => output[j] = "committed"
    /\ output[j] = "committed" /\ jobs[j].kind \in ArtifactKind =>
         jobs[j].status # "absent"

IInv ==
  /\ TypeOK
  /\ HoldersHold
  /\ HoldersDiffer
  /\ OwnersOwn
  /\ OutputFollowsPosition
  /\ OutputFollowsStatus

\* What ReapedWhileStopping needs besides: without faults the heartbeat thread
\* runs until the worker is told to stop, and no row that it refreshes is stale.
BeatsUntilStopped ==
  \A w \in Worker : pc[w] \in Up => beating[w] \/ stopping[w]

StaleIsDeserted ==
  \A j \in Job : jobs[j].status = "running" /\ jobs[j].stale => ~beating[jobs[j].owner]

BeatInv == BeatsUntilStopped /\ StaleIsDeserted /\ ReapedWhileStopping
-----------------------------------------------------------------------------
(* Liveness. *)

\* Every job that was accepted comes to an end, whoever dies, as long as one
\* worker survives and submissions end: a survivor reaps what the dead left.
EveryJobEnds ==
  \A j \in Job : jobs[j].status \in {"queued", "running"} ~>
                 jobs[j].status \in Terminal

\* Under endless submissions, a queued job still gets its turn.
QueuedGetsItsTurn ==
  \A j \in Job : jobs[j].status = "queued" ~> jobs[j].status # "queued"

\* SIGTERM leads to the exit of the process.
ShutdownCompletes ==
  \A w \in Worker : stopping[w] ~> pc[w] \in {"exited", "dead"}

\* A cancel of a running job takes effect even if the computation would never
\* end, as long as it keeps asking.
CancelTakesEffect ==
  \A j \in Job : (jobs[j].status = "running" /\ jobs[j].cancel) ~>
                 jobs[j].status # "running"
-----------------------------------------------------------------------------
\* Jobs and workers are interchangeable (for TLC); kinds and immortal workers are not.
Symmetry == Permutations(Job) \cup Permutations(Worker)

-----------------------------------------------------------------------------
(* Claims of the source that the code does not keep. *)

\* worker/loop.py: "guaranteeing handler writes are atomic with the terminal
\* status decision".  A job that ended otherwise has no committed output.
HandlerWritesAreAtomic ==
  \A j \in Job : jobs[j].status = "failed" => output[j] # "committed"

\* jobs/repo.py: the error of a reaped job says "worker died".
ReapedWorkerDied ==
  \A w \in Worker : held[w] # NoJob => jobs[held[w]].status # "failed"

\* worker/loop.py: "Every reaper_interval_seconds, run reap_zombies."
ReaperKeepsItsInterval ==
  \A w \in Immortal : reapDue[w] ~> ~reapDue[w]
=============================================================================
