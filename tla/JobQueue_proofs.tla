-------------------------- MODULE JobQueue_proofs --------------------------
(***************************************************************************)
(* Proofs of the safety invariants of JobQueue, for every set of jobs,     *)
(* workers and kinds.  Three layers: what each transaction of the          *)
(* repository does to the rows (the Effect lemmas), what each kind of step *)
(* of the processes does to the inductive invariant (the Step lemmas), and *)
(* the theorems.  At the end, on the same invariant: a terminal row is     *)
(* final, JobLifecycle allows every behaviour of the queue, and without    *)
(* faults a worker loses its job to the reaper only while it stops.        *)
(***************************************************************************)
EXTENDS JobQueue, TLAPS

\* Nothing of row i that the invariant looks at changes.
SameRow(i) ==
  /\ jobs'[i].status = jobs[i].status
  /\ jobs'[i].owner = jobs[i].owner
  /\ jobs'[i].kind = jobs[i].kind

\* Row i is failed and disowned by the reaper.
ReapedRow(i) ==
  /\ jobs[i].status = "running"
  /\ jobs'[i].status = "failed"
  /\ jobs'[i].owner = NoWorker
  /\ jobs'[i].kind = jobs[i].kind

\* The moves of a main thread that change no row.
Advance(from, to) ==
  \/ /\ from \in {"picked", "handler", "checked"}
     /\ to \in {"handler", "checked", "failing", "cancelling"}
  \/ /\ from \in {"off", "loop", "wait"}
     /\ to \in {"loop", "wait", "exited"}

\* The updates of the repository keep a row in its type.
LEMMA RowUpdates ==
  ASSUME NEW r \in Row
  PROVE  /\ \A s \in Status, o \in Worker \cup {NoWorker} :
              [r EXCEPT !.status = s, !.owner = o] \in Row
         /\ \A s \in Status, o \in Worker \cup {NoWorker}, b \in BOOLEAN :
              [r EXCEPT !.status = s, !.owner = o, !.stale = b] \in Row
         /\ \A s \in Status, o \in Worker \cup {NoWorker}, p \in 0 .. 100 :
              [r EXCEPT !.status = s, !.owner = o, !.progress = p] \in Row
         /\ \A b \in BOOLEAN : [r EXCEPT !.cancel = b] \in Row
         /\ \A b \in BOOLEAN : [r EXCEPT !.stale = b] \in Row
         /\ \A p \in 0 .. 100 : [r EXCEPT !.progress = p] \in Row
  <1>1. ASSUME NEW s \in Status, NEW o \in Worker \cup {NoWorker}
        PROVE  [r EXCEPT !.status = s, !.owner = o] \in Row
    BY DEF Row
  <1>2. ASSUME NEW s \in Status, NEW o \in Worker \cup {NoWorker}, NEW b \in BOOLEAN
        PROVE  [r EXCEPT !.status = s, !.owner = o, !.stale = b] \in Row
    BY DEF Row
  <1>3. ASSUME NEW s \in Status, NEW o \in Worker \cup {NoWorker}, NEW p \in 0 .. 100
        PROVE  [r EXCEPT !.status = s, !.owner = o, !.progress = p] \in Row
    BY DEF Row
  <1>4. ASSUME NEW b \in BOOLEAN
        PROVE  [r EXCEPT !.cancel = b] \in Row /\ [r EXCEPT !.stale = b] \in Row
    BY DEF Row
  <1>5. ASSUME NEW p \in 0 .. 100
        PROVE  [r EXCEPT !.progress = p] \in Row
    BY DEF Row
  <1>6. QED
    BY <1>1, <1>2, <1>3, <1>4, <1>5

\* The values of the CHECK on jobs.status.
LEMMA Statuses ==
  {"queued", "running", "success", "failed", "cancelled"} \subseteq Status
  BY DEF Status, Terminal

\* A fresh row (insert_job, purge_old) is a row, without owner.
LEMMA NewRowType ==
  ASSUME NEW s \in Status \cup {"absent"}, NEW k \in Kind
  PROVE  /\ NewRow(s, k) \in Row
         /\ NewRow(s, k).status = s
         /\ NewRow(s, k).owner = NoWorker
         /\ NewRow(s, k).kind = k
  BY DEF NewRow, Row

\* pickup_one moves one queued row to running, under its new owner.
LEMMA PickupOneEffect ==
  ASSUME StoreTypeOK, NEW w \in Worker, NEW j \in Job, PickupOne(w, j)
  PROVE  /\ StoreTypeOK'
         /\ jobs[j].status = "queued"
         /\ jobs'[j].status = "running" /\ jobs'[j].owner = w /\ jobs'[j].kind = jobs[j].kind
         /\ \A i \in Job \ {j} : SameRow(i)
         /\ output' = output
  <1>1. [jobs[j] EXCEPT !.status = "running", !.owner = w, !.stale = FALSE] \in Row
    BY RowUpdates, Statuses DEF StoreTypeOK
  <1>2. StoreTypeOK'
    BY <1>1 DEF StoreTypeOK, PickupOne
  <1>3. QED
    BY <1>2 DEF StoreTypeOK, PickupOne, Row, SameRow

\* The terminal updates move one row and clear its owner.
LEMMA CloseEffect ==
  ASSUME StoreTypeOK, NEW j \in Job, NEW s \in Status, NEW p \in 0 .. 100,
         jobs' = Close(j, s, p), UNCHANGED <<older, output>>
  PROVE  /\ StoreTypeOK'
         /\ jobs'[j].status = s /\ jobs'[j].owner = NoWorker /\ jobs'[j].kind = jobs[j].kind
         /\ \A i \in Job \ {j} : SameRow(i)
         /\ output' = output
  <1>1. [jobs[j] EXCEPT !.status = s, !.owner = NoWorker, !.progress = p] \in Row
    BY RowUpdates DEF StoreTypeOK
  <1>2. StoreTypeOK'
    BY <1>1 DEF StoreTypeOK, Close
  <1>3. QED
    BY <1>2 DEF StoreTypeOK, Close, Row, SameRow

\* reap_zombies fails some running rows and leaves the others.
LEMMA ReapEffect ==
  ASSUME StoreTypeOK, ReapZombies
  PROVE  /\ StoreTypeOK'
         /\ \A i \in Job : SameRow(i) \/ ReapedRow(i)
         /\ output' = output
  <1>1. \A i \in Job : [jobs[i] EXCEPT !.status = "failed", !.owner = NoWorker] \in Row
    BY RowUpdates, Statuses DEF StoreTypeOK
  <1>2. StoreTypeOK'
    BY <1>1 DEF StoreTypeOK, ReapZombies
  <1>3. QED
    BY <1>2 DEF StoreTypeOK, ReapZombies, Row, SameRow, ReapedRow, Zombies,
                  HasStatus

\* insert_job adds one queued row, without output.
LEMMA InsertJobEffect ==
  ASSUME StoreTypeOK, NEW j \in Job, NEW k \in Kind, InsertJob(j, k)
  PROVE  /\ StoreTypeOK'
         /\ jobs'[j].status = "queued" /\ jobs'[j].owner = NoWorker
         /\ \A i \in Job \ {j} : SameRow(i)
         /\ output' = [output EXCEPT ![j] = "none"]
  <1>1. NewRow("queued", k) \in Row
    BY NewRowType, Statuses
  <1>2. StoreTypeOK'
    BY <1>1 DEF StoreTypeOK, InsertJob, Present
  <1>3. QED
    BY <1>2, NewRowType, Statuses DEF StoreTypeOK, InsertJob, SameRow

\* purge_old removes terminal rows with their artifacts.
LEMMA PurgeOldEffect ==
  ASSUME StoreTypeOK, NEW S \in SUBSET Job, PurgeOld(S)
  PROVE  /\ StoreTypeOK'
         /\ \A i \in Job \ S : SameRow(i) /\ output'[i] = output[i]
         /\ \A i \in S : /\ jobs[i].status \in Terminal
                         /\ ~KeyLocked(i)
                         /\ jobs'[i].status = "absent" /\ jobs'[i].owner = NoWorker
                         /\ jobs'[i].kind = jobs[i].kind
                         /\ output'[i] = IF jobs[i].kind \in ArtifactKind
                                         THEN "none" ELSE output[i]
  <1>1. \A i \in Job : /\ jobs[i].kind \in Kind
                       /\ NewRow("absent", jobs[i].kind) \in Row
                       /\ NewRow("absent", jobs[i].kind).status = "absent"
                       /\ NewRow("absent", jobs[i].kind).owner = NoWorker
                       /\ NewRow("absent", jobs[i].kind).kind = jobs[i].kind
    <2>1. \A i \in Job : jobs[i].kind \in Kind
      BY DEF StoreTypeOK, Row
    <2>2. QED
      BY <2>1, NewRowType
  <1>2. StoreTypeOK'
    BY <1>1 DEF StoreTypeOK, PurgeOld
  <1>3. QED
    BY <1>1, <1>2 DEF StoreTypeOK, PurgeOld, SameRow

\* The updates that touch neither status, owner nor kind.
Flags(j, b) == jobs' = [jobs EXCEPT ![j] = [@ EXCEPT !.cancel = b]]
Ages(j, b) == jobs' = [jobs EXCEPT ![j] = [@ EXCEPT !.stale = b]]
Advances(j, p) == jobs' = [jobs EXCEPT ![j] = [@ EXCEPT !.progress = p]]
Refreshes(S) ==
  jobs' = [j \in Job |-> IF j \in S THEN [jobs[j] EXCEPT !.stale = FALSE] ELSE jobs[j]]

\* Flags, heartbeats and progress touch nothing the invariant looks at.
LEMMA TouchEffect ==
  ASSUME StoreTypeOK, UNCHANGED <<older, output>>,
         \/ \E j \in Job, b \in BOOLEAN : Flags(j, b)
         \/ \E j \in Job, b \in BOOLEAN : Ages(j, b)
         \/ \E j \in Job, p \in 0 .. 100 : Advances(j, p)
         \/ \E S \in SUBSET Job : Refreshes(S)
  PROVE  /\ StoreTypeOK'
         /\ \A i \in Job : SameRow(i)
         /\ output' = output
  <1>1. CASE \E j \in Job, b \in BOOLEAN : Flags(j, b)
    <2> PICK j \in Job, b \in BOOLEAN : Flags(j, b)
      BY <1>1
    <2>1. [jobs[j] EXCEPT !.cancel = b] \in Row
      BY RowUpdates DEF StoreTypeOK
    <2>2. QED
      BY <2>1 DEF StoreTypeOK, SameRow, Row, Flags, Ages, Advances
  <1>2. CASE \E j \in Job, b \in BOOLEAN : Ages(j, b)
    <2> PICK j \in Job, b \in BOOLEAN : Ages(j, b)
      BY <1>2
    <2>1. [jobs[j] EXCEPT !.stale = b] \in Row
      BY RowUpdates DEF StoreTypeOK
    <2>2. QED
      BY <2>1 DEF StoreTypeOK, SameRow, Row, Flags, Ages, Advances
  <1>3. CASE \E j \in Job, p \in 0 .. 100 : Advances(j, p)
    <2> PICK j \in Job, p \in 0 .. 100 : Advances(j, p)
      BY <1>3
    <2>1. [jobs[j] EXCEPT !.progress = p] \in Row
      BY RowUpdates DEF StoreTypeOK
    <2>2. QED
      BY <2>1 DEF StoreTypeOK, SameRow, Row, Flags, Ages, Advances
  <1>4. CASE \E S \in SUBSET Job : Refreshes(S)
    <2> PICK S \in SUBSET Job : Refreshes(S)
      BY <1>4
    <2>1. \A j \in Job : [jobs[j] EXCEPT !.stale = FALSE] \in Row
      BY RowUpdates DEF StoreTypeOK
    <2>2. StoreTypeOK'
      BY <2>1 DEF StoreTypeOK, Refreshes
    <2>3. ASSUME NEW i \in Job PROVE SameRow(i)
      <3>1. CASE i \in S
        <4>1. jobs[i] \in Row /\ jobs'[i] = [jobs[i] EXCEPT !.stale = FALSE]
          BY <3>1 DEF StoreTypeOK, Refreshes
        <4>2. QED
          BY <4>1 DEF SameRow, Row
      <3>2. CASE i \notin S
        BY <3>2 DEF SameRow, Refreshes
      <3>3. QED
        BY <3>1, <3>2
    <2>4. QED
      BY <2>2, <2>3
  <1>5. QED
    BY <1>1, <1>2, <1>3, <1>4

\* A terminal write closes the row of its owner and nothing else.
LEMMA TerminalWriteEffect ==
  ASSUME StoreTypeOK, NEW w \in Worker, NEW j \in Job, NEW s \in Terminal,
         NEW p \in 0 .. 100,
         jobs' = (IF Owns(w, j) THEN Close(j, s, p) ELSE jobs), UNCHANGED <<older, output>>
  PROVE  /\ StoreTypeOK'
         /\ \A i \in Job \ {j} : SameRow(i)
         /\ ~Owns(w, j) => SameRow(j)
         /\ Owns(w, j) => /\ jobs'[j].status = s
                          /\ jobs'[j].owner = NoWorker
                          /\ jobs'[j].kind = jobs[j].kind
         /\ output' = output
  <1>1. CASE ~Owns(w, j)
    BY <1>1 DEF SameRow, StoreTypeOK
  <1>2. CASE Owns(w, j)
    <2>1. jobs' = Close(j, s, p) /\ s \in Status
      BY <1>2 DEF Status
    <2>2. QED
      BY <1>2, <2>1, CloseEffect
  <1>3. QED
    BY <1>1, <1>2
-----------------------------------------------------------------------------

\* A step that changes no row, output or position preserves the invariant.
LEMMA QuietStep ==
  ASSUME IInv, TypeOK', \A i \in Job : SameRow(i), UNCHANGED <<output, held, pc>>
  PROVE  IInv'
  <1> USE DEF IInv, TypeOK, StoreTypeOK
  <1>1. HoldersHold'
    BY DEF HoldersHold, SameRow, Owns
  <1>2. HoldersDiffer'
    BY DEF HoldersDiffer
  <1>3. OwnersOwn'
    BY DEF OwnersOwn, SameRow
  <1>4. OutputFollowsPosition'
    BY DEF OutputFollowsPosition, SameRow, Owns, HoldersHold, Working
  <1>5. OutputFollowsStatus'
    BY DEF OutputFollowsStatus, SameRow
  <1>6. QED
    BY <1>1, <1>2, <1>3, <1>4, <1>5

\* So does one that only moves a main thread.
LEMMA MoveStep ==
  ASSUME IInv, TypeOK', NEW w \in Worker, NEW q \in PC,
         UNCHANGED <<output, held>>, \A i \in Job : SameRow(i), pc' = [pc EXCEPT ![w] = q],
         Advance(pc[w], q)
  PROVE  IInv'
  <1> USE DEF IInv, TypeOK, StoreTypeOK
  <1>1. HoldersHold'
    BY DEF HoldersHold, SameRow, Owns, Working, Advance
  <1>2. HoldersDiffer'
    BY DEF HoldersDiffer
  <1>3. OwnersOwn'
    BY DEF OwnersOwn, SameRow, Advance
  <1>4. OutputFollowsPosition'
    BY DEF OutputFollowsPosition, SameRow, Owns, HoldersHold, Working, Advance
  <1>5. OutputFollowsStatus'
    BY DEF OutputFollowsStatus, SameRow
  <1>6. QED
    BY <1>1, <1>2, <1>3, <1>4, <1>5

\* Reaping disowns rows whose worker may still hold them.
LEMMA ReapStep ==
  ASSUME IInv, TypeOK', NEW w \in Worker, ReapZombies, pc[w] \in {"off", "wait"},
         UNCHANGED held, pc' = [pc EXCEPT ![w] = "loop"]
  PROVE  IInv'
  <1> USE DEF IInv, TypeOK, StoreTypeOK
  <1>0. /\ \A i \in Job : SameRow(i) \/ ReapedRow(i)
        /\ output' = output
    BY ReapEffect
  <1>1. HoldersHold'
    BY <1>0, StoreAssumption DEF HoldersHold, SameRow, ReapedRow, Owns, Working
  <1>2. HoldersDiffer'
    BY DEF HoldersDiffer
  <1>3. OwnersOwn'
    BY <1>0 DEF OwnersOwn, SameRow, ReapedRow
  <1>4. OutputFollowsPosition'
    BY <1>0 DEF OutputFollowsPosition, SameRow, ReapedRow, Owns, HoldersHold, Working
  <1>5. OutputFollowsStatus'
    BY <1>0 DEF OutputFollowsStatus, SameRow, ReapedRow
  <1>6. QED
    BY <1>1, <1>2, <1>3, <1>4, <1>5

\* The new owner of a picked row holds nothing else, nobody else holds it, and it
\* has no output.
LEMMA PickupStep ==
  ASSUME IInv, TypeOK', NEW w \in Worker, NEW j \in Job, Pickup(w, j)
  PROVE  IInv'
  <1> USE StoreAssumption, QueueAssumption DEF IInv, TypeOK, StoreTypeOK
  <1>0. /\ jobs[j].status = "queued"
        /\ jobs'[j].status = "running" /\ jobs'[j].owner = w /\ jobs'[j].kind = jobs[j].kind
        /\ \A i \in Job \ {j} : SameRow(i)
        /\ output' = output
        /\ pc[w] = "loop" /\ pc' = [pc EXCEPT ![w] = "picked"]
        /\ held' = [held EXCEPT ![w] = j]
    BY PickupOneEffect DEF Pickup, Goto
  <1>1. HoldersHold'
    BY <1>0 DEF HoldersHold, SameRow, Owns, Working
  <1>2. HoldersDiffer'
    BY <1>0 DEF HoldersDiffer, HoldersHold, Owns
  <1>3. OwnersOwn'
    BY <1>0 DEF OwnersOwn, SameRow, HoldersHold, Owns, Working
  <1>4. OutputFollowsPosition'
    BY <1>0 DEF OutputFollowsPosition, OutputFollowsStatus, SameRow, Owns, HoldersHold,
                HoldersDiffer, Working
  <1>5. OutputFollowsStatus'
    BY <1>0 DEF OutputFollowsStatus, OutputFollowsPosition, SameRow, HoldersHold, Owns, Working
  <1>6. QED
    BY <1>1, <1>2, <1>3, <1>4, <1>5

\* The INSERT of an output: only the holder of the job is at that point.
LEMMA InsertOutputStep ==
  ASSUME IInv, TypeOK', NEW w \in Worker, InsertOutput(w)
  PROVE  IInv'
  <1> USE StoreAssumption, QueueAssumption DEF IInv, TypeOK, StoreTypeOK
  <1>0. /\ held[w] \in Job
        /\ \A i \in Job : SameRow(i)
        /\ output' = [output EXCEPT ![held[w]] = "pending"]
        /\ pc[w] = "checked" /\ pc' = [pc EXCEPT ![w] = "wrote"]
        /\ held' = held
        /\ jobs[held[w]].kind \in ArtifactKind => jobs[held[w]].status # "absent"
    BY DEF InsertOutput, Goto, SameRow, HoldersHold, Working
  <1>1. HoldersHold'
    BY <1>0 DEF HoldersHold, SameRow, Owns, Working
  <1>2. HoldersDiffer'
    BY <1>0 DEF HoldersDiffer, HoldersHold, Owns
  <1>3. OwnersOwn'
    BY <1>0 DEF OwnersOwn, SameRow, HoldersHold, Owns, Working
  <1>4. OutputFollowsPosition'
    BY <1>0 DEF OutputFollowsPosition, OutputFollowsStatus, SameRow, Owns, HoldersHold,
                HoldersDiffer, Working
  <1>5. OutputFollowsStatus'
    BY <1>0 DEF OutputFollowsStatus, OutputFollowsPosition, SameRow, HoldersHold, Owns, Working
  <1>6. QED
    BY <1>1, <1>2, <1>3, <1>4, <1>5

\* The commit: an artifact's job is still there, the row lock kept it.
LEMMA CommitOutputStep ==
  ASSUME IInv, TypeOK', NEW w \in Worker, CommitOutput(w)
  PROVE  IInv'
  <1> USE StoreAssumption, QueueAssumption DEF IInv, TypeOK, StoreTypeOK
  <1>0. /\ held[w] \in Job
        /\ \A i \in Job : SameRow(i)
        /\ output' = [output EXCEPT ![held[w]] = "committed"]
        /\ pc[w] = "wrote" /\ pc' = [pc EXCEPT ![w] = "committed"]
        /\ held' = held
    BY DEF CommitOutput, Goto, SameRow, HoldersHold, Working
  <1>1. HoldersHold'
    BY <1>0 DEF HoldersHold, SameRow, Owns, Working
  <1>2. HoldersDiffer'
    BY <1>0 DEF HoldersDiffer, HoldersHold, Owns
  <1>3. OwnersOwn'
    BY <1>0 DEF OwnersOwn, SameRow, HoldersHold, Owns, Working
  <1>4. OutputFollowsPosition'
    BY <1>0 DEF OutputFollowsPosition, OutputFollowsStatus, SameRow, Owns, HoldersHold,
                HoldersDiffer, Working
  <1>5. OutputFollowsStatus'
    BY <1>0 DEF OutputFollowsStatus, OutputFollowsPosition, SameRow, HoldersHold, Owns, Working
  <1>6. QED
    BY <1>1, <1>2, <1>3, <1>4, <1>5

\* An exception rolls the output back before mark_failed is called.
LEMMA HandlerRaisesStep ==
  ASSUME IInv, TypeOK', NEW w \in Worker, HandlerRaises(w)
  PROVE  IInv'
  <1> USE StoreAssumption, QueueAssumption DEF IInv, TypeOK, StoreTypeOK
  <1>0. /\ held[w] \in Job
        /\ \A i \in Job : SameRow(i)
        /\ \/ output' = output /\ pc[w] # "wrote"
           \/ output' = [output EXCEPT ![held[w]] = "none"] /\ pc[w] = "wrote"
        /\ pc[w] \in {"handler", "checked", "wrote"} /\ pc' = [pc EXCEPT ![w] = "failing"]
        /\ held' = held
    BY DEF HandlerRaises, RollBack, SameRow, HoldersHold, Working
  <1>1. HoldersHold'
    BY <1>0 DEF HoldersHold, SameRow, Owns, Working
  <1>2. HoldersDiffer'
    BY <1>0 DEF HoldersDiffer, HoldersHold, Owns
  <1>3. OwnersOwn'
    BY <1>0 DEF OwnersOwn, SameRow, HoldersHold, Owns, Working
  <1>4. OutputFollowsPosition'
    BY <1>0 DEF OutputFollowsPosition, OutputFollowsStatus, SameRow, Owns, HoldersHold,
                HoldersDiffer, Working
  <1>5. OutputFollowsStatus'
    BY <1>0 DEF OutputFollowsStatus, OutputFollowsPosition, SameRow, HoldersHold, Owns, Working
  <1>6. QED
    BY <1>1, <1>2, <1>3, <1>4, <1>5

\* A crash rolls it back as well; the row stays with its dead owner.
LEMMA CrashStep ==
  ASSUME IInv, TypeOK', NEW w \in Worker, Crash(w)
  PROVE  IInv'
  <1> USE StoreAssumption, QueueAssumption DEF IInv, TypeOK, StoreTypeOK
  <1>0. /\ \A i \in Job : SameRow(i)
        /\ \/ output' = output /\ pc[w] # "wrote"
           \/ held[w] \in Job /\ output' = [output EXCEPT ![held[w]] = "none"] /\ pc[w] = "wrote"
        /\ pc[w] \in Up /\ pc' = [pc EXCEPT ![w] = "dead"]
        /\ held' = [held EXCEPT ![w] = NoJob]
    BY DEF Crash, RollBack, Release, SameRow, HoldersHold, Working
  <1>1. HoldersHold'
    BY <1>0 DEF HoldersHold, SameRow, Owns, Working
  <1>2. HoldersDiffer'
    BY <1>0 DEF HoldersDiffer, HoldersHold, Owns
  <1>3. OwnersOwn'
    BY <1>0 DEF OwnersOwn, SameRow, HoldersHold, Owns, Working
  <1>4. OutputFollowsPosition'
    BY <1>0 DEF OutputFollowsPosition, OutputFollowsStatus, SameRow, Owns, HoldersHold,
                HoldersDiffer, Working
  <1>5. OutputFollowsStatus'
    BY <1>0 DEF OutputFollowsStatus, OutputFollowsPosition, SameRow, HoldersHold, Owns, Working
  <1>6. QED
    BY <1>1, <1>2, <1>3, <1>4, <1>5

\* The terminal writes: success only after the commit, cancellation only without
\* an output, and nothing at all for a worker that was reaped.
LEMMA TerminalWriteStep ==
  ASSUME IInv, NEW w \in Worker, NEW s \in Terminal, Release(w),
         UNCHANGED <<stopping, beating, reapDue>>,
         pc' = [pc EXCEPT ![w] = "loop"], held[w] \in Job,
         \/ SetTerminalSuccess(w, held[w]) /\ s = "success" /\ pc[w] = "committed"
         \/ MarkFailed(w, held[w]) /\ s = "failed" /\ pc[w] \in {"committed", "failing"}
         \/ MarkCancelled(w, held[w]) /\ s = "cancelled" /\ pc[w] = "cancelling"
  PROVE  IInv'
  <1>a. /\ StoreTypeOK'
        /\ \A i \in Job \ {held[w]} : SameRow(i)
        /\ ~Owns(w, held[w]) => SameRow(held[w])
        /\ Owns(w, held[w]) => /\ jobs'[held[w]].status = s
                               /\ jobs'[held[w]].owner = NoWorker
                               /\ jobs'[held[w]].kind = jobs[held[w]].kind
        /\ output' = output
    <2>1. StoreTypeOK
      BY DEF IInv, TypeOK
    <2> PICK j \in Job : j = held[w]
      OBVIOUS
    <2>2. PICK p \in 0 .. 100 : jobs' = IF Owns(w, j) THEN Close(j, s, p) ELSE jobs
      <3>1. jobs[j].progress \in 0 .. 100 /\ 100 \in 0 .. 100
        BY <2>1 DEF StoreTypeOK, Row
      <3>2. QED
        BY <3>1 DEF SetTerminalSuccess, MarkFailed, MarkCancelled, Owns, Close
    <2>3. /\ StoreTypeOK'
          /\ \A i \in Job \ {j} : SameRow(i)
          /\ ~Owns(w, j) => SameRow(j)
          /\ Owns(w, j) => /\ jobs'[j].status = s
                           /\ jobs'[j].owner = NoWorker
                           /\ jobs'[j].kind = jobs[j].kind
          /\ output' = output
      <3>1. UNCHANGED <<older, output>>
        BY DEF SetTerminalSuccess, MarkFailed, MarkCancelled
      <3>2. QED
        BY <2>1, <2>2, <3>1, TerminalWriteEffect, ZenonT(40)
    <2>4. QED
      BY <2>3 DEF Owns, SameRow
  <1>b. TypeOK'
    BY <1>a DEF IInv, TypeOK, Release, PC, Up
  <1> USE StoreAssumption, QueueAssumption DEF IInv, TypeOK, StoreTypeOK
  <1>0. /\ \A i \in Job \ {held[w]} : SameRow(i)
        /\ ~Owns(w, held[w]) => SameRow(held[w])
        /\ Owns(w, held[w]) => /\ jobs'[held[w]].status = s
                               /\ jobs'[held[w]].owner = NoWorker
                               /\ jobs'[held[w]].kind = jobs[held[w]].kind
        /\ output' = output
        /\ held' = [held EXCEPT ![w] = NoJob]
        /\ held[w] \in Job
        /\ s \in {"success", "failed", "cancelled"}
        /\ pc[w] \in Working /\ pc' = [pc EXCEPT ![w] = "loop"]
        /\ s = "success" => pc[w] = "committed"
        /\ s = "cancelled" => pc[w] = "cancelling"
    BY <1>a DEF Release, Terminal, Working
  <1>1. HoldersHold'
    BY <1>0 DEF HoldersHold, SameRow, Owns, Working
  <1>2. HoldersDiffer'
    BY <1>0 DEF HoldersDiffer, HoldersHold, Owns
  <1>3. OwnersOwn'
    BY <1>0 DEF OwnersOwn, SameRow, HoldersHold, Owns, Working
  <1>4. OutputFollowsPosition'
    BY <1>0 DEF OutputFollowsPosition, OutputFollowsStatus, SameRow, Owns, HoldersHold,
                HoldersDiffer, Working
  <1>5. OutputFollowsStatus'
    BY <1>0 DEF OutputFollowsStatus, OutputFollowsPosition, SameRow, HoldersHold, Owns, Working
  <1>6. QED
    BY <1>b, <1>1, <1>2, <1>3, <1>4, <1>5

\* A new row is held by nobody.
LEMMA SubmitStep ==
  ASSUME IInv, TypeOK', NEW j \in Job, NEW k \in Kind, Submit(j, k)
  PROVE  IInv'
  <1> USE StoreAssumption, QueueAssumption DEF IInv, TypeOK, StoreTypeOK
  <1>0. /\ jobs[j].status = "absent" /\ \A w \in Worker : held[w] # j
        /\ jobs'[j].status = "queued" /\ jobs'[j].owner = NoWorker
        /\ \A i \in Job \ {j} : SameRow(i)
        /\ output' = [output EXCEPT ![j] = "none"]
        /\ UNCHANGED <<held, pc>>
    BY InsertJobEffect DEF Submit, workerVars, InsertJob
  <1>1. HoldersHold'
    BY <1>0 DEF HoldersHold, SameRow, Owns, Working
  <1>2. HoldersDiffer'
    BY <1>0 DEF HoldersDiffer, HoldersHold, Owns
  <1>3. OwnersOwn'
    BY <1>0 DEF OwnersOwn, SameRow, HoldersHold, Owns, Working
  <1>4. OutputFollowsPosition'
    BY <1>0 DEF OutputFollowsPosition, OutputFollowsStatus, SameRow, Owns, HoldersHold,
                HoldersDiffer, Working
  <1>5. OutputFollowsStatus'
    BY <1>0 DEF OutputFollowsStatus, OutputFollowsPosition, SameRow, HoldersHold, Owns, Working
  <1>6. QED
    BY <1>1, <1>2, <1>3, <1>4, <1>5

\* A queued row has neither owner nor output, so cancelling it leaves nothing.
LEMMA WithdrawStep ==
  ASSUME IInv, TypeOK', NEW j \in Job, UNCHANGED workerVars, UNCHANGED <<older, output>>,
         jobs[j].status = "queued", jobs' = Close(j, "cancelled", jobs[j].progress)
  PROVE  IInv'
  <1> USE StoreAssumption, QueueAssumption DEF IInv, TypeOK, StoreTypeOK
  <1>a. jobs[j].progress \in 0 .. 100 /\ "cancelled" \in Status
    BY DEF Row, Status, Terminal
  <1>0. /\ jobs[j].status = "queued"
        /\ jobs'[j].status = "cancelled" /\ jobs'[j].owner = NoWorker /\ jobs'[j].kind = jobs[j].kind
        /\ \A i \in Job \ {j} : SameRow(i)
        /\ output' = output
        /\ UNCHANGED <<held, pc>>
    BY <1>a, CloseEffect DEF workerVars
  <1>1. HoldersHold'
    BY <1>0 DEF HoldersHold, SameRow, Owns, Working
  <1>2. HoldersDiffer'
    BY <1>0 DEF HoldersDiffer, HoldersHold, Owns
  <1>3. OwnersOwn'
    BY <1>0 DEF OwnersOwn, SameRow, HoldersHold, Owns, Working
  <1>4. OutputFollowsPosition'
    BY <1>0 DEF OutputFollowsPosition, OutputFollowsStatus, SameRow, Owns, HoldersHold,
                HoldersDiffer, Working
  <1>5. OutputFollowsStatus'
    BY <1>0 DEF OutputFollowsStatus, OutputFollowsPosition, SameRow, HoldersHold, Owns, Working
  <1>6. QED
    BY <1>1, <1>2, <1>3, <1>4, <1>5

\* A purged row may still be held by a worker it was reaped from; the row lock of
\* an uncommitted artifact forbids exactly the harmful purge.
LEMMA PurgeStep ==
  ASSUME IInv, TypeOK', NEW S \in SUBSET Job, PurgeOld(S), UNCHANGED workerVars
  PROVE  IInv'
  <1> USE StoreAssumption, QueueAssumption DEF IInv, TypeOK, StoreTypeOK
  <1>0. /\ \A i \in Job \ S : SameRow(i) /\ output'[i] = output[i]
        /\ \A i \in S : /\ jobs[i].status \in Terminal
                        /\ ~KeyLocked(i)
                        /\ jobs'[i].status = "absent" /\ jobs'[i].owner = NoWorker
                        /\ jobs'[i].kind = jobs[i].kind
                        /\ output'[i] = IF jobs[i].kind \in ArtifactKind
                                        THEN "none" ELSE output[i]
        /\ UNCHANGED <<held, pc>>
    BY PurgeOldEffect DEF workerVars
  <1>1. HoldersHold'
    BY <1>0 DEF HoldersHold, SameRow, Owns, Working, Terminal
  <1>2. HoldersDiffer'
    BY <1>0 DEF HoldersDiffer, HoldersHold, Owns
  <1>3. OwnersOwn'
    BY <1>0 DEF OwnersOwn, SameRow, HoldersHold, Owns, Working, Terminal
  <1>4. OutputFollowsPosition'
    BY <1>0 DEF OutputFollowsPosition, OutputFollowsStatus, SameRow, Owns, HoldersHold,
                HoldersDiffer, Working, KeyLocked, Terminal
  <1>5. OutputFollowsStatus'
    BY <1>0 DEF OutputFollowsStatus, OutputFollowsPosition, SameRow, HoldersHold, Owns,
                Working, KeyLocked, Terminal
  <1>6. QED
    BY <1>1, <1>2, <1>3, <1>4, <1>5

-----------------------------------------------------------------------------

\* Inside _process_one_job the main thread holds a job.
LEMMA HeldIsJob ==
  ASSUME IInv, NEW w \in Worker, pc[w] \in Working
  PROVE  held[w] \in Job
  BY DEF IInv, TypeOK, HoldersHold

\* The empty table and the workers that were not started satisfy the invariant.
LEMMA InitIInv == Init => IInv
  <1> SUFFICES ASSUME Init PROVE IInv
    OBVIOUS
  <1>1. PICK k \in Kind : jobs = [j \in Job |-> NewRow("absent", k)]
    BY StoreAssumption DEF Init, StoreInit
  <1>2. NewRow("absent", k) \in Row /\ NewRow("absent", k).status = "absent"
          /\ NewRow("absent", k).owner = NoWorker
    BY NewRowType
  <1>3. TypeOK
    BY <1>1, <1>2 DEF Init, StoreInit, TypeOK, StoreTypeOK, PC
  <1>4. HoldersHold /\ HoldersDiffer /\ OutputFollowsPosition
    BY DEF Init, HoldersHold, HoldersDiffer, OutputFollowsPosition, Working
  <1>5. OwnersOwn /\ OutputFollowsStatus
    BY <1>1, <1>2 DEF Init, StoreInit, OwnersOwn, OutputFollowsStatus
  <1>6. QED
    BY <1>3, <1>4, <1>5 DEF IInv

\* The startup sweep.
LEMMA BootStep ==
  ASSUME IInv, NEW w \in Worker, Boot(w)
  PROVE  IInv'
  <1>1. StoreTypeOK /\ pc[w] = "off" /\ UNCHANGED held /\ pc' = [pc EXCEPT ![w] = "loop"]
    BY DEF IInv, TypeOK, Boot, Goto
  <1>2. CASE ReapZombies
    <2>1. TypeOK'
      BY <1>1, <1>2, ReapEffect DEF IInv, TypeOK, Boot, PC, Up
    <2>2. QED
      BY <1>1, <1>2, <2>1, ReapStep
  <1>3. CASE UNCHANGED storeVars
    <2>1. TypeOK'
      BY <1>1, <1>3 DEF IInv, TypeOK, StoreTypeOK, storeVars, Boot, PC, Up
    <2>2. "loop" \in PC /\ \A i \in Job : SameRow(i)
      BY <1>3 DEF PC, Up, SameRow, storeVars
    <2>3. QED
      BY <1>1, <1>3, <2>1, <2>2, MoveStep DEF storeVars, Advance
  <1>4. QED
    BY <1>2, <1>3 DEF Boot

\* The periodic sweep.
LEMMA WakeUpStep ==
  ASSUME IInv, NEW w \in Worker, WakeUp(w)
  PROVE  IInv'
  <1>1. StoreTypeOK /\ pc[w] = "wait" /\ UNCHANGED held /\ pc' = [pc EXCEPT ![w] = "loop"]
    BY DEF IInv, TypeOK, WakeUp, Goto
  <1>2. CASE ReapZombies
    <2>1. TypeOK'
      BY <1>1, <1>2, ReapEffect DEF IInv, TypeOK, WakeUp, PC, Up
    <2>2. QED
      BY <1>1, <1>2, <2>1, ReapStep
  <1>3. CASE UNCHANGED storeVars
    <2>1. TypeOK'
      BY <1>1, <1>3 DEF IInv, TypeOK, StoreTypeOK, storeVars, WakeUp, PC, Up
    <2>2. "loop" \in PC /\ \A i \in Job : SameRow(i)
      BY <1>3 DEF PC, Up, SameRow, storeVars
    <2>3. QED
      BY <1>1, <1>3, <2>1, <2>2, MoveStep DEF storeVars, Advance
  <1>4. QED
    BY <1>2, <1>3 DEF WakeUp

\* The steps of the main thread that move it and touch no row.
LEMMA PositionSteps ==
  ASSUME IInv, NEW w \in Worker,
         PickupNothing(w) \/ ExitLoop(w) \/ PreCheck(w) \/ CheckCancelled(w) \/ FinalCheck(w)
  PROVE  IInv'
  <1>1. UNCHANGED <<jobs, older, output, held>> /\ \A i \in Job : SameRow(i)
    BY DEF PickupNothing, ExitLoop, PreCheck, CheckCancelled, FinalCheck, storeVars, SameRow
  <1>2. TypeOK'
    BY <1>1 DEF IInv, TypeOK, StoreTypeOK, PickupNothing, ExitLoop, PreCheck, CheckCancelled,
                FinalCheck, Goto, PC, Up, Working
  <1>3. \/ UNCHANGED pc
        \/ \E q \in PC :
             /\ pc' = [pc EXCEPT ![w] = q]
             /\ Advance(pc[w], q)
    BY DEF PickupNothing, ExitLoop, PreCheck, CheckCancelled, FinalCheck, Goto, Advance, PC, Up,
           Working
  <1>4. QED
    BY <1>1, <1>2, <1>3, QuietStep, MoveStep

\* The steps that leave every row's status, owner and kind, every output and
\* every position alone.
QuietAction ==
  \/ \E w \in Worker : \/ HandlerProgress(w) \/ CacheExpires(w) \/ ReapTimerElapses(w)
                        \/ Beat(w) \/ HeartbeatThreadEnds(w) \/ StopSignal(w)
  \/ \E j \in Job : \/ FlagCancel(j) \/ Expire(j)
                     \/ (Cancel(j) /\ jobs[j].status = "running")

\* They do.
LEMMA QuietEffect ==
  ASSUME IInv, QuietAction
  PROVE  /\ UNCHANGED <<held, pc, older, output>>
         /\ StoreTypeOK'
         /\ \A i \in Job : SameRow(i)
  <1>1. StoreTypeOK
    BY DEF IInv, TypeOK
  <1>2. UNCHANGED <<held, pc, older, output>>
    BY DEF QuietAction, HandlerProgress, CacheExpires, ReapTimerElapses, Beat, HeartbeatThreadEnds,
           StopSignal, FlagCancel, Expire, Cancel, workerVars, storeVars, ReportProgress,
           Heartbeat, RequestCancel, HeartbeatExpires, CancelJobIfPending
  <1>3. StoreTypeOK' /\ \A i \in Job : SameRow(i)
    <2>1. CASE UNCHANGED jobs
      BY <1>1, <1>2, <2>1 DEF StoreTypeOK, SameRow
    <2>2. CASE \E w \in Worker : HandlerProgress(w) /\ ~UNCHANGED jobs
      <3> PICK w \in Worker : HandlerProgress(w) /\ ~UNCHANGED jobs
        BY <2>2
      <3>1. held[w] \in Job
        BY HeldIsJob DEF HandlerProgress, Working
      <3>2. PICK p \in Percent : Advances(held[w], p)
        BY DEF HandlerProgress, ReportProgress, Advances
      <3>3. p \in 0 .. 100
        BY StoreAssumption
      <3>4. QED
        BY <1>1, <1>2, <3>1, <3>2, <3>3, TouchEffect
    <2>3. CASE \E w \in Worker : Beat(w)
      <3> PICK w \in Worker : Beat(w)
        BY <2>3
      <3>1. Refreshes({i \in Job : Owns(w, i)})
        BY DEF Beat, Heartbeat, Refreshes
      <3>2. QED
        BY <1>1, <1>2, <3>1, TouchEffect
    <2>4. CASE \E j \in Job : FlagCancel(j) \/ Expire(j)
                               \/ (Cancel(j) /\ jobs[j].status = "running")
      <3>1. PICK j \in Job : Flags(j, TRUE) \/ Ages(j, TRUE)
        BY <2>4 DEF FlagCancel, Expire, Cancel, RequestCancel, HeartbeatExpires,
                    CancelJobIfPending, Flags, Ages
      <3>2. QED
        BY <1>1, <1>2, <3>1, TouchEffect
    <2>5. QED
      BY <2>1, <2>2, <2>3, <2>4
         DEF QuietAction, CacheExpires, ReapTimerElapses, HeartbeatThreadEnds, StopSignal,
             storeVars
  <1>4. QED
    BY <1>2, <1>3

\* So they preserve the invariant.
LEMMA QuietSteps ==
  ASSUME IInv, QuietAction
  PROVE  IInv'
  <1>1. TypeOK'
    BY QuietEffect DEF QuietAction, IInv, TypeOK, HandlerProgress, CacheExpires,
                       ReapTimerElapses, Beat, HeartbeatThreadEnds, StopSignal, FlagCancel,
                       Expire, Cancel, workerVars
  <1>2. QED
    BY <1>1, QuietEffect, QuietStep

\* The four actions that end with a guarded terminal write.
LEMMA TerminalWriteSteps ==
  ASSUME IInv, NEW w \in Worker,
         WriteSuccess(w) \/ RejectResult(w) \/ WriteFailed(w) \/ WriteCancelled(w)
  PROVE  IInv'
  <1>1. /\ Release(w)
        /\ UNCHANGED <<stopping, beating, reapDue>>
        /\ pc' = [pc EXCEPT ![w] = "loop"]
        /\ pc[w] \in Working
    BY DEF WriteSuccess, RejectResult, WriteFailed, WriteCancelled, Goto, Working
  <1>2. held[w] \in Job
    BY <1>1, HeldIsJob
  <1>3. PICK s \in Terminal :
          \/ SetTerminalSuccess(w, held[w]) /\ s = "success" /\ pc[w] = "committed"
          \/ MarkFailed(w, held[w]) /\ s = "failed" /\ pc[w] \in {"committed", "failing"}
          \/ MarkCancelled(w, held[w]) /\ s = "cancelled" /\ pc[w] = "cancelling"
    BY DEF WriteSuccess, RejectResult, WriteFailed, WriteCancelled, Goto, Terminal
  <1>4. QED
    BY <1>1, <1>2, <1>3, TerminalWriteStep

\* The steps of the handler's connection and of crashes.
LEMMA OutputSteps ==
  ASSUME IInv, NEW w \in Worker,
         InsertOutput(w) \/ CommitOutput(w) \/ HandlerRaises(w) \/ Crash(w)
  PROVE  IInv'
  <1>1. pc[w] \in {"checked", "wrote", "handler"} => held[w] \in Job
    BY HeldIsJob DEF Working
  <1>2. TypeOK'
    BY <1>1 DEF IInv, TypeOK, StoreTypeOK, InsertOutput, CommitOutput, HandlerRaises, Crash,
                Release, RollBack, Goto, PC, Up, Working
  <1>3. QED
    BY <1>2, InsertOutputStep, CommitOutputStep, HandlerRaisesStep, CrashStep

\* The steps that add, remove, pick or withdraw rows.
LEMMA RowSteps ==
  ASSUME IInv,
         \/ \E w \in Worker, j \in Job : Pickup(w, j)
         \/ \E j \in Job, k \in Kind : Submit(j, k)
         \/ \E j \in Job : Cancel(j) /\ jobs[j].status = "queued"
         \/ \E S \in SUBSET Job : Purge(S)
  PROVE  IInv'
  <1>1. StoreTypeOK
    BY DEF IInv, TypeOK
  <1>2. CASE \E w \in Worker, j \in Job : Pickup(w, j)
    <2> PICK w \in Worker, j \in Job : Pickup(w, j)
      BY <1>2
    <2>1. TypeOK'
      BY <1>1, PickupOneEffect DEF IInv, TypeOK, Pickup, Goto, PC, Up, Working
    <2>2. QED
      BY <2>1, PickupStep
  <1>3. CASE \E j \in Job, k \in Kind : Submit(j, k)
    <2> PICK j \in Job, k \in Kind : Submit(j, k)
      BY <1>3
    <2>1. TypeOK'
      BY <1>1, InsertJobEffect DEF IInv, TypeOK, Submit, workerVars
    <2>2. QED
      BY <2>1, SubmitStep
  <1>4. CASE \E j \in Job : Cancel(j) /\ jobs[j].status = "queued"
    <2> PICK j \in Job : Cancel(j) /\ jobs[j].status = "queued"
      BY <1>4
    <2>1. jobs' = Close(j, "cancelled", jobs[j].progress) /\ UNCHANGED <<older, output>>
            /\ UNCHANGED workerVars
      BY DEF Cancel, CancelJobIfPending
    <2>2. jobs[j].progress \in 0 .. 100 /\ "cancelled" \in Status
      BY <1>1, Statuses DEF StoreTypeOK, Row
    <2>3. TypeOK'
      BY <1>1, <2>1, <2>2, CloseEffect DEF IInv, TypeOK, workerVars
    <2>4. QED
      BY <2>1, <2>3, WithdrawStep
  <1>5. CASE \E S \in SUBSET Job : Purge(S)
    <2> PICK S \in SUBSET Job : Purge(S)
      BY <1>5
    <2>1. TypeOK'
      BY <1>1, PurgeOldEffect DEF IInv, TypeOK, Purge, workerVars
    <2>2. QED
      BY <2>1, PurgeStep DEF Purge
  <1>6. QED
    BY <1>2, <1>3, <1>4, <1>5

\* Every step of the system preserves the inductive invariant.
LEMMA NextIInv == IInv /\ [Next]_vars => IInv'
  <1> SUFFICES ASSUME IInv, [Next]_vars PROVE IInv'
    OBVIOUS
  <1>1. CASE UNCHANGED vars
    <2>1. TypeOK' /\ \A i \in Job : SameRow(i)
      BY <1>1 DEF vars, IInv, TypeOK, StoreTypeOK, SameRow
    <2>2. QED
      BY <1>1, <2>1, QuietStep DEF vars
  <1>2. ASSUME NEW w \in Worker, Runner(w)
        PROVE  IInv'
    BY <1>2, RowSteps, PositionSteps, WakeUpStep, OutputSteps, TerminalWriteSteps DEF Runner
  <1>3. ASSUME NEW w \in Worker,
               \/ Boot(w) \/ HandlerProgress(w) \/ CheckCancelled(w) \/ CacheExpires(w)
               \/ FinalCheck(w) \/ HandlerRaises(w) \/ ReapTimerElapses(w) \/ Beat(w)
               \/ HeartbeatThreadEnds(w) \/ StopSignal(w) \/ Crash(w)
        PROVE  IInv'
    BY <1>3, BootStep, QuietSteps, PositionSteps, OutputSteps DEF QuietAction
  <1>4. ASSUME NEW j \in Job, \/ \E k \in Kind : Submit(j, k)
                              \/ Cancel(j) \/ FlagCancel(j) \/ Expire(j)
        PROVE  IInv'
    <2>1. Cancel(j) => jobs[j].status \in {"queued", "running"}
      BY DEF Cancel, CancelJobIfPending
    <2>2. QED
      BY <1>4, <2>1, RowSteps, QuietSteps DEF QuietAction
  <1>5. ASSUME NEW S \in SUBSET Job, Purge(S)
        PROVE  IInv'
    BY <1>5, RowSteps
  <1>6. QED
    BY <1>1, <1>2, <1>3, <1>4, <1>5 DEF Next
-----------------------------------------------------------------------------

\* In every reachable state of every instance, the inductive invariant holds.
THEOREM Invariance == Spec => []IInv
  BY InitIInv, NextIInv, PTL DEF Spec

\* The tables and the workers' state stay in their types (backend/jobs/repo.py
\* and backend/worker/loop.py never write a value outside them).
THEOREM TypeCorrect == Spec => []TypeOK
  <1>1. IInv => TypeOK
    BY DEF IInv
  <1>2. QED
    BY <1>1, Invariance, PTL

\* No job is ever executed by two workers (pickup_one, reap_zombies).
THEOREM ExecutionIsSingle == Spec => []SingleExecution
  <1>1. IInv => SingleExecution
    BY DEF IInv, SingleExecution, HoldersHold, HoldersDiffer
  <1>2. QED
    BY <1>1, Invariance, PTL

\* A running row has its worker (pickup_one and the terminal writes).
THEOREM RunningHeld == Spec => []RunningIsHeld
  <1>1. IInv => RunningIsHeld
    <2> SUFFICES ASSUME IInv, NEW j \in HasStatus("running")
                 PROVE  \E w \in Worker : jobs[j].owner = w /\ (held[w] = j \/ pc[w] = "dead")
      BY DEF RunningIsHeld
    <2>1. j \in Job /\ jobs[j].status = "running"
      BY DEF HasStatus
    <2>2. jobs[j].owner \in Worker
      BY <2>1 DEF IInv, TypeOK, StoreTypeOK, Row, OwnersOwn
    <2>3. QED
      BY <2>1, <2>2 DEF IInv, OwnersOwn
  <1>2. QED
    BY <1>1, Invariance, PTL

\* Success comes after the commit of the result (_process_one_job).
THEOREM SuccessIsBacked == Spec => []SuccessHasOutput
  <1>1. IInv => SuccessHasOutput
    BY DEF IInv, SuccessHasOutput, OutputFollowsStatus, HasStatus
  <1>2. QED
    BY <1>1, Invariance, PTL

\* Cancelled jobs leave nothing behind (_process_one_job, cancel_job_if_pending).
THEOREM CancelledIsClean == Spec => []CancelledLeavesNothing
  <1>1. IInv => CancelledLeavesNothing
    BY DEF IInv, CancelledLeavesNothing, OutputFollowsStatus, HasStatus
  <1>2. QED
    BY <1>1, Invariance, PTL

\* No artifact without its job (handle_ni43101_export, purge_old).
THEOREM ArtifactsHaveJobs == Spec => []ArtifactHasJob
  <1>1. IInv => ArtifactHasJob
    BY DEF IInv, ArtifactHasJob, OutputFollowsStatus
  <1>2. QED
    BY <1>1, Invariance, PTL

-----------------------------------------------------------------------------
(***************************************************************************)
(* What the steps of the queue do to rows that are over, and the abstract  *)
(* specification of the API: both rest on the invariant above.             *)
(***************************************************************************)
\* What a step may do to the rows that are over.
KeepsTerminalRows ==
  \A j \in Job : jobs[j].status \in Terminal =>
    jobs'[j] = jobs[j] \/ jobs'[j].status = "absent"

\* An update of one row that is not over keeps those that are.
LEMMA OneRowUpdate ==
  ASSUME StoreTypeOK, NEW j \in Job, NEW r, jobs[j].status \notin Terminal,
         jobs' = [jobs EXCEPT ![j] = r]
  PROVE  KeepsTerminalRows
  BY DEF KeepsTerminalRows, StoreTypeOK

\* The four guarded writes of the worker, and its heartbeat, keep them: the
\* guard asks for status = 'running'.
LEMMA GuardedWrites ==
  ASSUME StoreTypeOK, NEW w \in Worker, NEW j \in Job,
         \/ \E p \in Percent : ReportProgress(w, j, p)
         \/ SetTerminalSuccess(w, j)
         \/ MarkFailed(w, j)
         \/ MarkCancelled(w, j)
  PROVE  KeepsTerminalRows
  <1>1. Owns(w, j) => jobs[j].status \notin Terminal
    BY DEF Owns, Terminal
  <1>2. \/ UNCHANGED jobs
        \/ Owns(w, j) /\ \E r : jobs' = [jobs EXCEPT ![j] = r]
    BY DEF ReportProgress, SetTerminalSuccess, MarkFailed, MarkCancelled, Close
  <1>3. QED
    BY <1>1, <1>2, OneRowUpdate DEF KeepsTerminalRows

\* Every step of the system keeps the terminal rows or purges them.
LEMMA NextKeepsTerminalRows == IInv /\ [Next]_vars => KeepsTerminalRows
  <1> SUFFICES ASSUME IInv, [Next]_vars PROVE KeepsTerminalRows
    OBVIOUS
  <1>0. StoreTypeOK
    BY DEF IInv, TypeOK
  <1>1. CASE UNCHANGED jobs
    BY <1>1 DEF KeepsTerminalRows
  <1>2. ASSUME ReapZombies
        PROVE  KeepsTerminalRows
    BY <1>2 DEF ReapZombies, Zombies, HasStatus, KeepsTerminalRows, Terminal
  <1>3. ASSUME NEW w \in Worker, NEW j \in Job, Pickup(w, j)
        PROVE  KeepsTerminalRows
    <2>1. /\ jobs[j].status \notin Terminal
          /\ \E r : jobs' = [jobs EXCEPT ![j] = r]
      BY <1>3 DEF Pickup, PickupOne, Terminal
    <2>2. QED
      BY <1>0, <2>1, OneRowUpdate
  <1>4. ASSUME NEW w \in Worker,
               \/ HandlerProgress(w) \/ WriteSuccess(w) \/ RejectResult(w)
               \/ WriteFailed(w) \/ WriteCancelled(w)
        PROVE  KeepsTerminalRows
    <2>1. held[w] \in Job
      BY <1>4, HeldIsJob DEF HandlerProgress, WriteSuccess, RejectResult, WriteFailed,
                             WriteCancelled, Goto, Working
    <2>2. \/ \E p \in Percent : ReportProgress(w, held[w], p)
          \/ SetTerminalSuccess(w, held[w])
          \/ MarkFailed(w, held[w])
          \/ MarkCancelled(w, held[w])
      BY <1>4 DEF HandlerProgress, WriteSuccess, RejectResult, WriteFailed, WriteCancelled
    <2>3. QED
      BY <1>0, <2>1, <2>2, GuardedWrites
  <1>5. ASSUME NEW w \in Worker, Beat(w)
        PROVE  KeepsTerminalRows
    BY <1>5 DEF Beat, Heartbeat, Owns, KeepsTerminalRows, Terminal
  <1>6. ASSUME NEW j \in Job,
               \/ \E k \in Kind : Submit(j, k)
               \/ Cancel(j) \/ FlagCancel(j) \/ Expire(j)
        PROVE  KeepsTerminalRows
    <2>1. /\ jobs[j].status \notin Terminal
          /\ \E r : jobs' = [jobs EXCEPT ![j] = r]
      BY <1>6 DEF Submit, InsertJob, Cancel, CancelJobIfPending, Close, FlagCancel,
                  RequestCancel, Expire, HeartbeatExpires, Terminal
    <2>2. QED
      BY <1>0, <2>1, OneRowUpdate
  <1>7. ASSUME NEW S \in SUBSET Job, Purge(S)
        PROVE  KeepsTerminalRows
    BY <1>7 DEF Purge, PurgeOld, NewRow, KeepsTerminalRows
  <1>8. ASSUME NEW w \in Worker, Runner(w)
        PROVE  KeepsTerminalRows
    BY <1>1, <1>2, <1>3, <1>4, <1>8
       DEF Runner, PickupNothing, WakeUp, ExitLoop, PreCheck, InsertOutput, CommitOutput,
           storeVars
  <1>9. ASSUME NEW w \in Worker,
               \/ Boot(w) \/ CheckCancelled(w) \/ CacheExpires(w) \/ FinalCheck(w)
               \/ HandlerRaises(w) \/ ReapTimerElapses(w) \/ HeartbeatThreadEnds(w)
               \/ StopSignal(w) \/ Crash(w)
        PROVE  KeepsTerminalRows
    BY <1>1, <1>2, <1>9
       DEF Boot, CheckCancelled, CacheExpires, FinalCheck, HandlerRaises, ReapTimerElapses,
           HeartbeatThreadEnds, StopSignal, Crash, storeVars
  <1>10. QED
    BY <1>1, <1>4, <1>5, <1>6, <1>7, <1>8, <1>9 DEF Next, vars

\* A terminal row never changes again, it can only be purged: what the guards
\* WHERE worker_id = ... AND status = 'running' of backend/jobs/repo.py are for.
THEOREM TerminalRowsAreFinal == Spec => TerminalIsFinal
  <1>1. IInv /\ [Next]_vars => [KeepsTerminalRows]_vars
    BY NextKeepsTerminalRows
  <1>2. QED
    BY <1>1, Invariance, PTL DEF Spec, TerminalIsFinal, KeepsTerminalRows
-----------------------------------------------------------------------------
(* The refinement mapping, pointwise: statusBar and resultBar are what       *)
(* Lifecycle puts for JobLifecycle's variables.                              *)

statusBar == [j \in Job |-> jobs[j].status]
resultBar == [j \in Job |-> output[j] = "committed"]

\* A step that moves no status and commits or removes no output stutters.
LEMMA StutterStep ==
  ASSUME \A i \in Job : jobs'[i].status = jobs[i].status,
         \A i \in Job : output'[i] = "committed" <=> output[i] = "committed"
  PROVE  UNCHANGED Lifecycle!vars
  BY DEF Lifecycle!vars

\* A step that moves the status of one row alone is a Move of the abstract
\* specification.
LEMMA MoveRow ==
  ASSUME NEW j \in Job, NEW s,
         jobs'[j].status = s,
         \A i \in Job \ {j} : jobs'[i].status = jobs[i].status
  PROVE  Lifecycle!Move(j, jobs[j].status, s)
  BY DEF Lifecycle!Move

\* reap_zombies fails a set of running jobs.
LEMMA ReapFails ==
  ASSUME StoreTypeOK, ReapZombies
  PROVE  \E S \in SUBSET Job : Lifecycle!Fail(S)
  <1>1. Zombies \in SUBSET Job /\ \A i \in Zombies : jobs[i].status = "running"
    BY DEF Zombies, HasStatus
  <1>2. output' = output
    BY ReapEffect
  <1>3. \A i \in Job : jobs'[i].status = IF i \in Zombies THEN "failed" ELSE jobs[i].status
    BY DEF ReapZombies, StoreTypeOK, Row
  <1>4. Lifecycle!Fail(Zombies)
    BY <1>1, <1>2, <1>3 DEF Lifecycle!Fail
  <1>5. QED
    BY <1>1, <1>4 DEF Lifecycle!Fail

\* pickup_one starts a job that has no result.
LEMMA PickupStarts ==
  ASSUME IInv, NEW w \in Worker, NEW j \in Job, Pickup(w, j)
  PROVE  Lifecycle!Start(j)
  <1>1. /\ jobs[j].status = "queued" /\ jobs'[j].status = "running"
        /\ \A i \in Job \ {j} : jobs'[i].status = jobs[i].status
        /\ output' = output
    BY PickupOneEffect DEF Pickup, IInv, TypeOK, SameRow
  <1>2. output[j] # "committed"
    BY <1>1 DEF IInv, OutputFollowsStatus
  <1>3. QED
    BY <1>1, <1>2, MoveRow DEF Lifecycle!Start

\* submit_job accepts a job.
LEMMA SubmitSubmits ==
  ASSUME IInv, NEW j \in Job, NEW k \in Kind, Submit(j, k)
  PROVE  Lifecycle!Submit(j)
  <1>1. /\ jobs[j].status = "absent" /\ jobs'[j].status = "queued"
        /\ \A i \in Job \ {j} : jobs'[i].status = jobs[i].status
        /\ output' = [output EXCEPT ![j] = "none"]
        /\ output \in [Job -> {"none", "pending", "committed"}]
    BY InsertJobEffect DEF Submit, InsertJob, IInv, TypeOK, StoreTypeOK, SameRow
  <1>2. QED
    BY <1>1, MoveRow DEF Lifecycle!Submit

\* cancel_job_if_pending withdraws a queued job, which has no result.
LEMMA CancelWithdraws ==
  ASSUME IInv, NEW j \in Job, Cancel(j), jobs[j].status = "queued"
  PROVE  Lifecycle!Withdraw(j)
  <1>1. jobs' = Close(j, "cancelled", jobs[j].progress) /\ UNCHANGED <<older, output>>
    BY DEF Cancel, CancelJobIfPending
  <1>2. jobs[j].progress \in 0 .. 100 /\ "cancelled" \in Status
    BY Statuses DEF IInv, TypeOK, StoreTypeOK, Row
  <1>3. /\ jobs'[j].status = "cancelled"
        /\ \A i \in Job \ {j} : jobs'[i].status = jobs[i].status
    BY <1>1, <1>2, CloseEffect DEF IInv, TypeOK, SameRow
  <1>4. output[j] # "committed"
    BY DEF IInv, OutputFollowsStatus
  <1>5. QED
    BY <1>1, <1>3, <1>4, MoveRow DEF Lifecycle!Withdraw

\* The commit of the handler's connection produces the result of a job that is
\* running, or was reaped (and purged) under the worker.
LEMMA CommitProduces ==
  ASSUME IInv, NEW w \in Worker, CommitOutput(w)
  PROVE  Lifecycle!Produce(held[w])
  <1>1. /\ held[w] \in Job
        /\ jobs[held[w]].status \in {"running", "failed", "absent"}
    <2>1. pc[w] \in Working
      BY DEF CommitOutput, Goto, Working
    <2>2. held[w] \in Job
      BY <2>1, HeldIsJob
    <2>3. QED
      BY <2>2, QueueAssumption DEF IInv, HoldersHold, Owns
  <1>2. /\ jobs' = jobs
        /\ output' = [output EXCEPT ![held[w]] = "committed"]
        /\ output \in [Job -> {"none", "pending", "committed"}]
    BY DEF CommitOutput, IInv, TypeOK, StoreTypeOK
  <1>3. QED
    BY <1>1, <1>2 DEF Lifecycle!Produce

\* purge_old forgets terminal rows, and the results kept in job_artifacts.
LEMMA PurgeForgets ==
  ASSUME IInv, NEW S \in SUBSET Job, Purge(S)
  PROVE  Lifecycle!Forget(S)
  <1>1. /\ \A i \in Job \ S : SameRow(i) /\ output'[i] = output[i]
        /\ \A i \in S : /\ jobs[i].status \in Terminal
                        /\ jobs'[i].status = "absent"
                        /\ output'[i] = IF jobs[i].kind \in ArtifactKind
                                        THEN "none" ELSE output[i]
    BY PurgeOldEffect DEF IInv, TypeOK, Purge
  <1> DEFINE T == {i \in S : jobs[i].kind \in ArtifactKind}
  <1>2. \A i \in Job : (output'[i] = "committed") <=>
                         (i \notin T /\ output[i] = "committed")
    BY <1>1
  <1>3. resultBar' = [i \in Job |-> IF i \in T THEN FALSE ELSE resultBar[i]]
    BY <1>2 DEF resultBar
  <1>4. statusBar' = [i \in Job |-> IF i \in S THEN "absent" ELSE statusBar[i]]
    BY <1>1 DEF statusBar, SameRow
  <1>5. \A i \in S : statusBar[i] \in Lifecycle!Terminal
    BY <1>1 DEF statusBar, Terminal, Lifecycle!Terminal
  <1>6. T \in SUBSET S
    OBVIOUS
  <1>7. QED
    BY <1>3, <1>4, <1>5, <1>6 DEF Lifecycle!Forget, statusBar, resultBar

\* A guarded terminal write completes, fails or abandons the job; if the row is
\* no longer the worker's, nothing happens.
LEMMA TerminalWriteEnds ==
  ASSUME IInv, NEW w \in Worker,
         WriteSuccess(w) \/ RejectResult(w) \/ WriteFailed(w) \/ WriteCancelled(w)
  PROVE  [Lifecycle!Next]_(Lifecycle!vars)
  <1>1. pc[w] \in Working
    BY DEF WriteSuccess, RejectResult, WriteFailed, WriteCancelled, Goto, Working
  <1>2. PICK j \in Job : j = held[w]
    BY <1>1, HeldIsJob
  <1>3. PICK s \in Terminal, p \in 0 .. 100 :
          /\ jobs' = (IF Owns(w, j) THEN Close(j, s, p) ELSE jobs)
          /\ \/ s = "success" /\ pc[w] = "committed"
             \/ s = "failed"
             \/ s = "cancelled" /\ pc[w] = "cancelling"
    <2>1. jobs[j].progress \in 0 .. 100 /\ 100 \in 0 .. 100
      BY DEF IInv, TypeOK, StoreTypeOK, Row
    <2>2. QED
      BY <1>2, <2>1 DEF WriteSuccess, RejectResult, WriteFailed, WriteCancelled, Goto,
                        SetTerminalSuccess, MarkFailed, MarkCancelled, Terminal
  <1>4. UNCHANGED <<older, output>>
    BY DEF WriteSuccess, RejectResult, WriteFailed, WriteCancelled,
           SetTerminalSuccess, MarkFailed, MarkCancelled
  <1>5. CASE ~Owns(w, j)
    <2>1. jobs' = jobs
      BY <1>3, <1>5
    <2>2. QED
      BY <1>4, <2>1, StutterStep
  <1>6. CASE Owns(w, j)
    <2>1. /\ jobs[j].status = "running" /\ jobs'[j].status = s
          /\ \A i \in Job \ {j} : jobs'[i].status = jobs[i].status
      <3>1. StoreTypeOK
        BY DEF IInv, TypeOK
      <3>2. /\ \A i \in Job \ {j} : SameRow(i)
            /\ jobs'[j].status = s
        BY <1>3, <1>4, <1>6, <3>1, TerminalWriteEffect
      <3>3. QED
        BY <1>6, <3>2 DEF SameRow, Owns
    <2>2. CASE s = "success" /\ pc[w] = "committed"
      <3>1. output[j] = "committed"
        BY <1>2, <1>6, <2>2 DEF IInv, OutputFollowsPosition
      <3>2. Lifecycle!Complete(j)
        BY <1>4, <2>1, <2>2, <3>1, MoveRow DEF Lifecycle!Complete
      <3>3. QED
        BY <3>2 DEF Lifecycle!Next
    <2>3. CASE s = "failed"
      <3>1. Lifecycle!Fail({j})
        BY <1>4, <2>1, <2>3 DEF Lifecycle!Fail
      <3>2. QED
        BY <3>1 DEF Lifecycle!Next
    <2>4. CASE s = "cancelled" /\ pc[w] = "cancelling"
      <3>1. output[j] = "none"
        BY <1>2, <2>4 DEF IInv, OutputFollowsPosition
      <3>2. Lifecycle!Abandon(j)
        BY <1>4, <2>1, <2>4, <3>1, MoveRow DEF Lifecycle!Abandon
      <3>3. QED
        BY <3>2 DEF Lifecycle!Next
    <2>5. QED
      BY <1>3, <2>2, <2>3, <2>4
  <1>7. QED
    BY <1>5, <1>6

\* The INSERT of an output and its rollback are invisible to the client.
LEMMA HandlerStutters ==
  ASSUME IInv, NEW w \in Worker, InsertOutput(w) \/ HandlerRaises(w) \/ Crash(w)
  PROVE  UNCHANGED Lifecycle!vars
  <1>1. pc[w] \in {"checked", "wrote"} => held[w] \in Job
    BY HeldIsJob DEF Working
  <1>2. /\ pc[w] = "checked" => output[held[w]] = "none"
        /\ pc[w] = "wrote" => output[held[w]] = "pending"
        /\ output \in [Job -> {"none", "pending", "committed"}]
    BY DEF IInv, TypeOK, StoreTypeOK, OutputFollowsPosition
  <1>3. jobs' = jobs
    BY DEF InsertOutput, HandlerRaises, Crash
  <1>4. \A i \in Job : output'[i] = "committed" <=> output[i] = "committed"
    BY <1>1, <1>2 DEF InsertOutput, HandlerRaises, Crash, RollBack, Goto
  <1>5. QED
    BY <1>3, <1>4, StutterStep

\* Steps that leave every status and output alone stutter.
LEMMA OthersStutter ==
  ASSUME IInv, UNCHANGED <<jobs, output>> \/ QuietAction
  PROVE  UNCHANGED Lifecycle!vars
  <1>1. CASE UNCHANGED <<jobs, output>>
    BY <1>1, StutterStep
  <1>2. CASE QuietAction
    BY <1>2, QuietEffect, StutterStep DEF SameRow
  <1>3. QED
    BY <1>1, <1>2

\* Every step of the queue is a step of the abstract specification, or none.
LEMMA NextSimulates == IInv /\ [Next]_vars => [Lifecycle!Next]_(Lifecycle!vars)
  <1> SUFFICES ASSUME IInv, [Next]_vars PROVE [Lifecycle!Next]_(Lifecycle!vars)
    OBVIOUS
  <1>1. CASE UNCHANGED <<jobs, output>>
    BY <1>1, OthersStutter
  <1>2. ASSUME ReapZombies PROVE Lifecycle!Next
    BY <1>2, ReapFails DEF Lifecycle!Next, IInv, TypeOK
  <1>3. ASSUME NEW w \in Worker, Runner(w)
        PROVE  [Lifecycle!Next]_(Lifecycle!vars)
    <2>1. ASSUME NEW j \in Job, Pickup(w, j) PROVE Lifecycle!Next
      BY <2>1, PickupStarts DEF Lifecycle!Next
    <2>2. CASE WakeUp(w)
      BY <1>1, <1>2, <2>2 DEF WakeUp, storeVars
    <2>3. CASE PickupNothing(w) \/ ExitLoop(w) \/ PreCheck(w)
      BY <1>1, <2>3 DEF PickupNothing, ExitLoop, PreCheck, storeVars
    <2>4. CASE CommitOutput(w)
      <3>1. pc[w] \in Working
        BY <2>4 DEF CommitOutput, Goto, Working
      <3>2. PICK j \in Job : j = held[w]
        BY <3>1, HeldIsJob
      <3>3. Lifecycle!Produce(j)
        BY <2>4, <3>2, CommitProduces DEF Lifecycle!Produce
      <3>4. QED
        BY <3>3 DEF Lifecycle!Next
    <2>5. CASE InsertOutput(w)
      BY <2>5, HandlerStutters
    <2>6. CASE WriteSuccess(w) \/ RejectResult(w) \/ WriteFailed(w) \/ WriteCancelled(w)
      BY <2>6, TerminalWriteEnds
    <2>7. QED
      BY <1>3, <2>1, <2>2, <2>3, <2>4, <2>5, <2>6 DEF Runner
  <1>4. ASSUME NEW w \in Worker,
               \/ Boot(w) \/ HandlerProgress(w) \/ CheckCancelled(w) \/ CacheExpires(w)
               \/ FinalCheck(w) \/ HandlerRaises(w) \/ ReapTimerElapses(w) \/ Beat(w)
               \/ HeartbeatThreadEnds(w) \/ StopSignal(w) \/ Crash(w)
        PROVE  [Lifecycle!Next]_(Lifecycle!vars)
    <2>1. CASE Boot(w)
      BY <1>1, <1>2, <2>1 DEF Boot, storeVars
    <2>2. CASE HandlerProgress(w) \/ Beat(w)
      BY <2>2, OthersStutter DEF QuietAction
    <2>3. CASE HandlerRaises(w) \/ Crash(w)
      BY <2>3, HandlerStutters
    <2>4. CASE \/ CheckCancelled(w) \/ CacheExpires(w) \/ FinalCheck(w)
               \/ ReapTimerElapses(w) \/ HeartbeatThreadEnds(w) \/ StopSignal(w)
      BY <1>1, <2>4 DEF CheckCancelled, CacheExpires, FinalCheck, ReapTimerElapses,
                        HeartbeatThreadEnds, StopSignal, storeVars
    <2>5. QED
      BY <1>4, <2>1, <2>2, <2>3, <2>4
  <1>5. ASSUME NEW j \in Job, \/ \E k \in Kind : Submit(j, k)
                              \/ Cancel(j) \/ FlagCancel(j) \/ Expire(j)
        PROVE  [Lifecycle!Next]_(Lifecycle!vars)
    <2>1. CASE \E k \in Kind : Submit(j, k)
      BY <2>1, SubmitSubmits DEF Lifecycle!Next
    <2>2. CASE Cancel(j) /\ jobs[j].status = "queued"
      BY <2>2, CancelWithdraws DEF Lifecycle!Next
    <2>3. CASE \/ FlagCancel(j) \/ Expire(j)
               \/ (Cancel(j) /\ jobs[j].status = "running")
      BY <2>3, OthersStutter DEF QuietAction
    <2>4. Cancel(j) => jobs[j].status \in {"queued", "running"}
      BY DEF Cancel, CancelJobIfPending
    <2>5. QED
      BY <1>5, <2>1, <2>2, <2>3, <2>4
  <1>6. ASSUME NEW S \in SUBSET Job, Purge(S)
        PROVE  [Lifecycle!Next]_(Lifecycle!vars)
    BY <1>6, PurgeForgets DEF Lifecycle!Next
  <1>7. QED
    BY <1>1, <1>3, <1>4, <1>5, <1>6 DEF Next, vars

\* The initial state, no job, is the abstract one.
LEMMA InitSimulates == Init => Lifecycle!Init
  <1> SUFFICES ASSUME Init PROVE Lifecycle!Init
    OBVIOUS
  <1>1. \A j \in Job : jobs[j].status = "absent" /\ output[j] = "none"
    BY DEF Init, StoreInit, NewRow
  <1>2. QED
    BY <1>1 DEF Lifecycle!Init

\* The job subsystem (backend/worker, backend/jobs/repo.py, backend/routes/jobs.py)
\* implements the abstract API: forward-only statuses, a result behind every
\* success, none behind a cancellation.
THEOREM QueueImplementsLifecycle == Spec => ImplementsLifecycle
  BY InitSimulates, NextSimulates, Invariance, PTL
     DEF Spec, ImplementsLifecycle, Lifecycle!Spec
-----------------------------------------------------------------------------
(***************************************************************************)
(* Without faults of the database, a worker loses its job to the reaper    *)
(* only while it stops: what a step does to heartbeats and ownership, and  *)
(* what it does to the threads.                                            *)
(***************************************************************************)

\* A row is stale in a worker's hands because it was, or because time passed
\* over it when nobody refreshed it.
AgesAlone(i) ==
  jobs'[i].status = "running" /\ jobs'[i].stale =>
    /\ jobs[i].status = "running" /\ jobs'[i].owner = jobs[i].owner
    /\ jobs[i].stale \/ ~beating[jobs[i].owner]

\* A worker that still holds a row loses it to the reaper alone.
LostStale(i) ==
  \A w \in Worker : Owns(w, i) /\ held'[w] = i =>
    \/ jobs'[i].status = "running" /\ jobs'[i].owner = w
    \/ jobs[i].stale

\* An update that leaves status, owner and staleness of a row as they are.
SameBeat(i) == SameRow(i) /\ jobs'[i].stale = jobs[i].stale

\* Such an update neither ages a row nor takes it from its worker.
LEMMA SameBeatIsFine ==
  ASSUME NEW i \in Job, SameBeat(i)
  PROVE  AgesAlone(i) /\ LostStale(i)
  BY DEF SameBeat, SameRow, AgesAlone, LostStale, Owns

\* The sweep takes stale rows only.
LEMMA ReapBeat ==
  ASSUME StoreTypeOK, ReapZombies, NEW i \in Job
  PROVE  AgesAlone(i) /\ LostStale(i)
  <1>1. CASE i \in Zombies
    <2>1. jobs[i].stale /\ jobs'[i].status = "failed"
      BY <1>1 DEF ReapZombies, Zombies, StoreTypeOK, Row
    <2>2. QED
      BY <2>1 DEF AgesAlone, LostStale
  <1>2. CASE i \notin Zombies
    <2>1. SameBeat(i)
      BY <1>2 DEF ReapZombies, SameBeat, SameRow
    <2>2. QED
      BY <2>1, SameBeatIsFine
  <1>3. QED
    BY <1>1, <1>2

\* The worker's own writes: progress keeps the row, a terminal write comes with
\* its release, a heartbeat refreshes it.
LEMMA OwnWritesBeat ==
  ASSUME IInv, NEW w \in Worker, NEW i \in Job,
         \/ HandlerProgress(w) \/ WriteSuccess(w) \/ RejectResult(w) \/ WriteFailed(w)
         \/ WriteCancelled(w) \/ Beat(w)
  PROVE  AgesAlone(i) /\ LostStale(i)
  <1>0. StoreTypeOK /\ jobs[i] \in Row
    BY DEF IInv, TypeOK, StoreTypeOK
  <1>1. CASE HandlerProgress(w)
    <2>1. PICK p \in Percent : ReportProgress(w, held[w], p)
      BY <1>1 DEF HandlerProgress
    <2>2. SameBeat(i)
      BY <1>0, <2>1 DEF ReportProgress, SameBeat, SameRow, StoreTypeOK, Row
    <2>3. QED
      BY <2>2, SameBeatIsFine
  <1>2. CASE Beat(w)
    <2>1. /\ SameRow(i)
          /\ jobs'[i].stale => jobs[i].stale
      BY <1>0, <1>2 DEF Beat, Heartbeat, SameRow, Row
    <2>2. QED
      BY <2>1 DEF SameRow, AgesAlone, LostStale, Owns
  <1>3. CASE WriteSuccess(w) \/ RejectResult(w) \/ WriteFailed(w) \/ WriteCancelled(w)
    <2>1. held[w] \in Job /\ held' = [held EXCEPT ![w] = NoJob]
      BY <1>3, HeldIsJob DEF WriteSuccess, RejectResult, WriteFailed, WriteCancelled, Goto,
                             Working, Release
    <2>2. PICK s \in Terminal, p \in 0 .. 100 :
            jobs' = (IF Owns(w, held[w]) THEN Close(held[w], s, p) ELSE jobs)
      <3>1. jobs[held[w]].progress \in 0 .. 100 /\ 100 \in 0 .. 100
        BY <1>0, <2>1 DEF StoreTypeOK, Row
      <3>2. QED
        BY <1>3, <3>1 DEF WriteSuccess, RejectResult, WriteFailed, WriteCancelled,
                          SetTerminalSuccess, MarkFailed, MarkCancelled, Terminal
    <2>3. CASE i = held[w] /\ Owns(w, i)
      <3>1. jobs'[i].status = s
        BY <1>0, <2>2, <2>3 DEF Close, StoreTypeOK, Row
      <3>2. \A x \in Worker : Owns(x, i) => x = w
        BY <2>3 DEF Owns
      <3>3. held'[w] = NoJob /\ NoJob # i
        BY <2>1, QueueAssumption DEF IInv, TypeOK
      <3>4. QED
        BY <3>1, <3>2, <3>3 DEF AgesAlone, LostStale, Terminal
    <2>4. CASE ~(i = held[w] /\ Owns(w, i))
      <3>1. SameBeat(i)
        BY <1>0, <2>2, <2>4 DEF Close, SameBeat, SameRow, StoreTypeOK, Owns
      <3>2. QED
        BY <3>1, SameBeatIsFine
    <2>5. QED
      BY <2>3, <2>4
  <1>4. QED
    BY <1>1, <1>2, <1>3

\* The steps of requests, of the pickup and of the clock; time passes over a
\* refreshed row only where heartbeats fail.
LEMMA RequestsBeat ==
  ASSUME IInv, ~DbFaults, NEW i \in Job,
         \/ \E w \in Worker, j \in Job : Pickup(w, j)
         \/ \E j \in Job : \/ \E k \in Kind : Submit(j, k)
                           \/ Cancel(j) \/ FlagCancel(j) \/ Expire(j)
         \/ \E S \in SUBSET Job : Purge(S)
  PROVE  AgesAlone(i) /\ LostStale(i)
  <1>0. StoreTypeOK /\ jobs[i] \in Row
    BY DEF IInv, TypeOK, StoreTypeOK
  <1>1. ASSUME NEW j \in Job, NEW r, jobs' = [jobs EXCEPT ![j] = r],
               \/ r.status # "running" /\ jobs[j].status # "running"
               \/ r.stale = FALSE /\ r.status = "running" /\ jobs[j].status = "queued"
               \/ /\ r.status = jobs[j].status /\ r.owner = jobs[j].owner
                  /\ r.stale = jobs[j].stale \/ ~beating[jobs[j].owner]
        PROVE  AgesAlone(i) /\ LostStale(i)
    <2>1. CASE i = j
      BY <1>0, <1>1, <2>1 DEF AgesAlone, LostStale, Owns, StoreTypeOK
    <2>2. CASE i # j
      <3>1. jobs'[i] = jobs[i]
        BY <1>0, <1>1, <2>2 DEF StoreTypeOK
      <3>2. QED
        BY <3>1 DEF AgesAlone, LostStale, Owns
    <2>3. QED
      BY <2>1, <2>2
  <1>2. ASSUME NEW w \in Worker, NEW j \in Job, Pickup(w, j)
        PROVE  AgesAlone(i) /\ LostStale(i)
    <2>0. jobs[j] \in Row
      BY <1>0 DEF StoreTypeOK
    <2> DEFINE r == [jobs[j] EXCEPT !.status = "running", !.owner = w, !.stale = FALSE]
    <2>1. jobs' = [jobs EXCEPT ![j] = r] /\ jobs[j].status = "queued"
      BY <1>2 DEF Pickup, PickupOne
    <2>2. r.stale = FALSE /\ r.status = "running"
      BY <2>0 DEF Row
    <2> HIDE DEF r
    <2>3. QED
      BY <1>1, <2>1, <2>2
  <1>3. ASSUME NEW j \in Job, NEW k \in Kind, Submit(j, k)
        PROVE  AgesAlone(i) /\ LostStale(i)
    <2>1. jobs' = [jobs EXCEPT ![j] = NewRow("queued", k)] /\ jobs[j].status = "absent"
      BY <1>3 DEF Submit, InsertJob
    <2>2. NewRow("queued", k).status = "queued"
      BY NewRowType, Statuses
    <2>3. QED
      BY <1>1, <2>1, <2>2
  <1>4. ASSUME NEW j \in Job, Cancel(j) \/ FlagCancel(j)
        PROVE  AgesAlone(i) /\ LostStale(i)
    <2>0. jobs[j] \in Row
      BY <1>0 DEF StoreTypeOK
    <2>1. CASE jobs' = [jobs EXCEPT ![j] = [@ EXCEPT !.cancel = TRUE]]
      <3> DEFINE r == [jobs[j] EXCEPT !.cancel = TRUE]
      <3>1. r.status = jobs[j].status /\ r.owner = jobs[j].owner /\ r.stale = jobs[j].stale
        BY <2>0 DEF Row
      <3>2. jobs' = [jobs EXCEPT ![j] = r]
        BY <2>1
      <3> HIDE DEF r
      <3>3. QED
        BY <1>1, <3>1, <3>2
    <2>2. CASE jobs[j].status = "queued" /\ jobs' = Close(j, "cancelled", jobs[j].progress)
      <3> DEFINE r == [jobs[j] EXCEPT !.status = "cancelled", !.owner = NoWorker,
                                      !.progress = jobs[j].progress]
      <3>1. r.status = "cancelled"
        BY <2>0 DEF Row
      <3>2. jobs' = [jobs EXCEPT ![j] = r]
        BY <2>2 DEF Close
      <3> HIDE DEF r
      <3>3. QED
        BY <1>1, <2>2, <3>1, <3>2
    <2>3. QED
      BY <1>4, <2>1, <2>2 DEF Cancel, CancelJobIfPending, FlagCancel, RequestCancel
  <1>5. ASSUME NEW j \in Job, Expire(j)
        PROVE  AgesAlone(i) /\ LostStale(i)
    <2>0. jobs[j] \in Row
      BY <1>0 DEF StoreTypeOK
    <2> DEFINE r == [jobs[j] EXCEPT !.stale = TRUE]
    <2>1. r.status = jobs[j].status /\ r.owner = jobs[j].owner
      BY <2>0 DEF Row
    <2>2. jobs' = [jobs EXCEPT ![j] = r] /\ ~beating[jobs[j].owner]
      BY <1>5 DEF Expire, HeartbeatExpires
    <2> HIDE DEF r
    <2>3. QED
      BY <1>1, <2>1, <2>2
  <1>6. ASSUME NEW S \in SUBSET Job, Purge(S)
        PROVE  AgesAlone(i) /\ LostStale(i)
    <2>1. CASE i \in S
      <3>1. jobs'[i].status = "absent" /\ jobs[i].status \in Terminal
        BY <1>0, <1>6, <2>1, PurgeOldEffect DEF Purge
      <3>2. QED
        BY <3>1 DEF AgesAlone, LostStale, Owns, Terminal
    <2>2. CASE i \notin S
      <3>1. jobs'[i] = jobs[i]
        BY <1>6, <2>2 DEF Purge, PurgeOld
      <3>2. QED
        BY <3>1 DEF AgesAlone, LostStale, Owns
    <2>3. QED
      BY <2>1, <2>2
  <1>7. QED
    BY <1>2, <1>3, <1>4, <1>5, <1>6

\* Every step of the system.
LEMMA NextBeat ==
  ASSUME IInv, ~DbFaults, [Next]_vars, NEW i \in Job
  PROVE  AgesAlone(i) /\ LostStale(i)
  <1>0. StoreTypeOK
    BY DEF IInv, TypeOK
  <1>1. ASSUME UNCHANGED jobs
        PROVE  AgesAlone(i) /\ LostStale(i)
    BY <1>1 DEF AgesAlone, LostStale, Owns
  <1>2. ASSUME NEW w \in Worker, Boot(w) \/ WakeUp(w)
        PROVE  AgesAlone(i) /\ LostStale(i)
    BY <1>0, <1>1, <1>2, ReapBeat DEF Boot, WakeUp, storeVars
  <1>3. ASSUME NEW w \in Worker, Runner(w)
        PROVE  AgesAlone(i) /\ LostStale(i)
    BY <1>1, <1>2, <1>3, OwnWritesBeat, RequestsBeat
       DEF Runner, PickupNothing, ExitLoop, PreCheck, InsertOutput, CommitOutput, storeVars
  <1>4. ASSUME NEW w \in Worker,
               \/ HandlerProgress(w) \/ CheckCancelled(w) \/ CacheExpires(w) \/ FinalCheck(w)
               \/ HandlerRaises(w) \/ ReapTimerElapses(w) \/ Beat(w) \/ HeartbeatThreadEnds(w)
               \/ StopSignal(w) \/ Crash(w)
        PROVE  AgesAlone(i) /\ LostStale(i)
    BY <1>1, <1>4, OwnWritesBeat
       DEF CheckCancelled, CacheExpires, FinalCheck, HandlerRaises, ReapTimerElapses,
           HeartbeatThreadEnds, StopSignal, Crash, storeVars
  <1>5. CASE UNCHANGED vars
    BY <1>1, <1>5 DEF vars
  <1>6. QED
    BY <1>2, <1>3, <1>4, <1>5, RequestsBeat DEF Next

\* What a step does to the threads of a worker: the heartbeat thread starts
\* with the worker and ends when it stops, a stop is not withdrawn before the
\* worker has died, and a job comes into its hands as its own.
ThreadStep(w) ==
  /\ beating'[w] /\ ~beating[w] => pc[w] = "off"
  /\ pc'[w] \in Up => \/ pc[w] = "off" /\ beating'[w]
                      \/ pc[w] \in Up /\ (beating[w] => beating'[w] \/ stopping[w])
  /\ stopping[w] => stopping'[w] \/ (held'[w] = NoJob /\ pc'[w] = "dead")
  /\ held'[w] # NoJob => \/ held'[w] = held[w]
                         \/ jobs'[held'[w]].status = "running" /\ jobs'[held'[w]].owner = w

\* Without faults every step treats every worker so.
LEMMA NextThreads ==
  ASSUME IInv, ~DbFaults, [Next]_vars, NEW w \in Worker
  PROVE  ThreadStep(w)
  <1> USE DEF Up, Working, PC
  <1>0. /\ pc \in [Worker -> PC] /\ held \in [Worker -> Job \cup {NoJob}]
        /\ stopping \in [Worker -> BOOLEAN] /\ beating \in [Worker -> BOOLEAN]
    BY DEF IInv, TypeOK
  <1>1. ASSUME UNCHANGED workerVars
        PROVE  ThreadStep(w)
    BY <1>0, <1>1 DEF workerVars, ThreadStep
  <1>2. ASSUME NEW x \in Worker, NEW j \in Job, Pickup(x, j)
        PROVE  ThreadStep(w)
    <2>1. jobs'[j].status = "running" /\ jobs'[j].owner = x
      BY <1>2, PickupOneEffect DEF Pickup, IInv, TypeOK
    <2>2. QED
      BY <1>0, <1>2, <2>1 DEF Pickup, Goto, ThreadStep
  <1>3. ASSUME NEW x \in Worker,
               \/ PickupNothing(x) \/ WakeUp(x) \/ ExitLoop(x) \/ PreCheck(x)
               \/ InsertOutput(x) \/ CommitOutput(x)
        PROVE  ThreadStep(w)
    BY <1>0, <1>3 DEF PickupNothing, WakeUp, ExitLoop, PreCheck, InsertOutput, CommitOutput,
                      Goto, ThreadStep
  <1>4. ASSUME NEW x \in Worker,
               WriteSuccess(x) \/ RejectResult(x) \/ WriteFailed(x) \/ WriteCancelled(x)
        PROVE  ThreadStep(w)
    BY <1>0, <1>4 DEF WriteSuccess, RejectResult, WriteFailed, WriteCancelled, Release,
                      Goto, ThreadStep
  <1>5. ASSUME NEW x \in Worker,
               \/ Boot(x) \/ CheckCancelled(x) \/ FinalCheck(x) \/ HandlerRaises(x)
               \/ CacheExpires(x) \/ ReapTimerElapses(x)
        PROVE  ThreadStep(w)
    <2>1. CASE Boot(x)
      <3>1. /\ pc[x] = "off" /\ pc' = [pc EXCEPT ![x] = "loop"]
            /\ beating' = [beating EXCEPT ![x] = TRUE]
        BY <2>1 DEF Boot, Goto
      <3>2. UNCHANGED <<held, stopping>>
        BY <2>1 DEF Boot
      <3>3. QED
        BY <1>0, <3>1, <3>2 DEF ThreadStep
    <2>2. QED
      BY <1>0, <1>5, <2>1 DEF CheckCancelled, FinalCheck, HandlerRaises, CacheExpires,
                              ReapTimerElapses, Goto, ThreadStep
  <1>6. ASSUME NEW x \in Worker, HeartbeatThreadEnds(x) \/ StopSignal(x) \/ Crash(x)
        PROVE  ThreadStep(w)
    BY <1>0, <1>6 DEF HeartbeatThreadEnds, StopSignal, Crash, Release, ThreadStep
  <1>7. ASSUME NEW x \in Worker, HandlerProgress(x) \/ Beat(x)
        PROVE  ThreadStep(w)
    BY <1>1, <1>7 DEF HandlerProgress, Beat
  <1>8. CASE \/ \E j \in Job : \/ \E k \in Kind : Submit(j, k)
                               \/ Cancel(j) \/ FlagCancel(j) \/ Expire(j)
             \/ \E S \in SUBSET Job : Purge(S)
    BY <1>1, <1>8 DEF Submit, Cancel, FlagCancel, Expire, Purge
  <1>9. CASE UNCHANGED vars
    BY <1>1, <1>9 DEF vars, workerVars
  <1> HIDE DEF Up, Working, PC
  <1>10. QED
    BY <1>2, <1>3, <1>4, <1>5, <1>6, <1>7, <1>8, <1>9 DEF Next, Runner

\* So every step preserves the invariant.
LEMMA NextBeatInv ==
  ASSUME IInv, ~DbFaults, BeatInv, [Next]_vars
  PROVE  BeatInv'
  <1>0. IInv' /\ \A w \in Worker : ThreadStep(w)
    BY NextIInv, NextThreads
  <1>1. BeatsUntilStopped'
    <2> SUFFICES ASSUME NEW w \in Worker, pc'[w] \in Up
                 PROVE  beating'[w] \/ stopping'[w]
      BY DEF BeatsUntilStopped
    <2>1. ThreadStep(w) /\ "dead" \notin Up
      BY <1>0 DEF Up, Working
    <2>2. QED
      BY <2>1 DEF ThreadStep, BeatInv, BeatsUntilStopped
  <1>2. StaleIsDeserted'
    <2> SUFFICES ASSUME NEW i \in Job, jobs'[i].status = "running", jobs'[i].stale
                 PROVE  ~beating'[jobs'[i].owner]
      BY DEF StaleIsDeserted
    <2>1. /\ jobs[i].status = "running" /\ jobs'[i].owner = jobs[i].owner
          /\ jobs[i].stale \/ ~beating[jobs[i].owner]
      BY NextBeat DEF AgesAlone
    <2> DEFINE o == jobs[i].owner
    <2>2. ~beating[o]
      BY <2>1 DEF BeatInv, StaleIsDeserted
    <2>3. o \in Worker /\ pc[o] # "off"
      BY <2>1, QueueAssumption
         DEF IInv, TypeOK, StoreTypeOK, Row, OwnersOwn, HoldersHold, Working
    <2>4. QED
      BY <1>0, <2>1, <2>2, <2>3 DEF ThreadStep
  <1>3. ReapedWhileStopping'
    <2> SUFFICES ASSUME NEW w \in Worker, held'[w] # NoJob, ~Owns(w, held[w])'
                 PROVE  stopping'[w]
      BY DEF ReapedWhileStopping
    <2>0. ThreadStep(w) /\ held[w] \in Job \cup {NoJob}
      BY <1>0 DEF IInv, TypeOK
    <2>1. held'[w] = held[w] /\ held[w] \in Job
      BY <2>0 DEF ThreadStep, Owns
    <2>2. stopping[w]
      <3>1. CASE ~Owns(w, held[w])
        BY <2>1, <3>1 DEF BeatInv, ReapedWhileStopping
      <3>2. CASE Owns(w, held[w])
        <4>1. LostStale(held[w])
          BY <2>1, NextBeat
        <4>2. jobs[held[w]].stale
          BY <2>1, <3>2, <4>1 DEF LostStale, Owns
        <4>3. ~beating[w]
          BY <2>1, <3>2, <4>2 DEF BeatInv, StaleIsDeserted, Owns
        <4>4. pc[w] \in Up
          BY <2>1 DEF IInv, HoldersHold, Up
        <4>5. QED
          BY <4>3, <4>4 DEF BeatInv, BeatsUntilStopped
      <3>3. QED
        BY <3>1, <3>2
    <2>3. QED
      BY <1>0, <2>2 DEF ThreadStep
  <1>4. QED
    BY <1>1, <1>2, <1>3 DEF BeatInv

\* Where the database answers, a worker loses the job in its hands to the reaper
\* only after it was told to stop: reap_zombies takes what no heartbeat thread
\* refreshes, and the thread ends with the stop event alone (worker/loop.py,
\* worker/heartbeat.py).
THEOREM ReapedOnlyWhileStopping == ~DbFaults => (Spec => []ReapedWhileStopping)
  <1> SUFFICES ASSUME ~DbFaults PROVE Spec => []ReapedWhileStopping
    OBVIOUS
  <1>1. Init => BeatInv
    <2> SUFFICES ASSUME Init PROVE BeatInv
      OBVIOUS
    <2>1. PICK k \in Kind : jobs = [j \in Job |-> NewRow("absent", k)]
      BY StoreAssumption DEF Init, StoreInit
    <2>2. \A j \in Job : jobs[j].status = "absent"
      BY <2>1, NewRowType
    <2>3. QED
      BY <2>2 DEF Init, BeatInv, BeatsUntilStopped, StaleIsDeserted, ReapedWhileStopping, Up,
                  Working
  <1>2. IInv /\ BeatInv /\ [Next]_vars => BeatInv'
    BY NextBeatInv
  <1>3. BeatInv => ReapedWhileStopping
    BY DEF BeatInv
  <1>4. QED
    BY <1>1, <1>2, <1>3, Invariance, PTL DEF Spec
=============================================================================
