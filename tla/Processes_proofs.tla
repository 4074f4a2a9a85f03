-------------------------- MODULE Processes_proofs --------------------------
(***************************************************************************)
(* What MCProcesses checks on small instances, for every number of actors, *)
(* deaths, connections and jobs: its invariant ProcessesHold and its       *)
(* action property StepsKeep.  A section for each component; the last one  *)
(* puts them together.  Liveness stays with TLC.                           *)
(***************************************************************************)
EXTENDS MCProcesses, Sequences, SequenceTheorems, FiniteSetTheorems, TLAPS

bootData == <<at, todo, did, legacy, copies, lock, seeded, crashes, fails>>
poolData == <<pool, poolReq, restarts>>
taskData == <<run, msg, step, runCrashes>>
breakerData == <<state, failures, age, call>>
retryData == <<jobs, retry, failedOnce>>

\* A step is one of the part that runs, or changes nothing of its data.
LEMMA PartStep ==
  ASSUME [AllNext]_<<part, data>>
  PROVE  /\ part' = part
         /\ part = "boot" => [Boot!Next]_bootData
         /\ part = "pool" => [Pool!Next]_poolData
         /\ part = "full pool" => [FullPool!Next]_poolData
         /\ part = "tasks" => [Tasks!Next]_taskData
         /\ part = "faulty tasks" => [FaultyTasks!Next]_taskData
         /\ part = "breaker" => [Breaker!Next]_breakerData
         /\ part = "lone breaker" => [LoneBreaker!Next]_breakerData
         /\ part = "retries" => [Retries!Next]_retryData
  <1>1. CASE UNCHANGED <<part, data>>
    BY <1>1 DEF data, bootData, poolData, taskData, breakerData, retryData
  <1>2. CASE AllNext
    BY <1>2 DEF AllNext, BootStep, PoolStep, FullPoolStep, TaskStep, DyingTaskStep, FaultyTaskStep,
       BreakerStep, LoneBreakerStep, RetryStep, ActivationStep, EditStep,
       RegenerationStep, DashboardStep, Rest
  <1> QED BY <1>1, <1>2

-----------------------------------------------------------------------------
(* The start of the processes (Startup).                                   *)

BootPlaces == {"names", "rename", "tables", "create", "commit", "lock", "seed", "up", "down"}
BootTypes ==
  /\ at \in [Actor -> BootPlaces]
  /\ todo \in [Actor -> SUBSET {"rename", "create"}] /\ did \in [Actor -> SUBSET {"rename", "create"}]
  /\ legacy \in BOOLEAN /\ copies \in {0, 1}
\* What a process knows of the tables is true or held by its own transaction.
BootKnows(w) ==
  /\ "rename" \in did[w] => legacy /\ at[w] \in {"tables", "create", "commit"}
  /\ "create" \in did[w] => copies = 0 /\ at[w] = "commit"
  /\ at[w] = "rename" /\ legacy => "rename" \in todo[w]
  /\ at[w] \in {"tables", "create", "commit"} /\ legacy => "rename" \in did[w]
  /\ at[w] = "create" /\ copies = 0 => "create" \in todo[w]
  /\ at[w] = "commit" /\ copies = 0 => "create" \in did[w]
  /\ at[w] \in {"lock", "seed", "up"} => copies = 1 /\ ~legacy
BootInv ==
  /\ BootTypes
  /\ \A w \in Actor : BootKnows(w)
  /\ \A v, w \in Actor : v # w => did[v] \cap did[w] = {}

\* It holds before any process starts.
LEMMA BootStarts == ASSUME AllInit, part = "boot" PROVE BootInv
  BY DEF AllInit, Boot!Init, BootInv, BootTypes, BootPlaces, BootKnows

\* A process looks, changes or commits; the others hold what they held.
LEMMA BootRepairs ==
  ASSUME BootInv, NEW w \in Actor,
         Boot!LookNames(w) \/ Boot!Rename(w) \/ Boot!LookTables(w) \/ Boot!CreateTable(w) \/ Boot!Commit(w)
  PROVE  BootInv'
  <1>1. CASE Boot!LookNames(w)
    BY <1>1 DEF Boot!LookNames, Boot!Goes, BootInv, BootTypes, BootPlaces, BootKnows
  <1>2. CASE Boot!Rename(w)
    BY <1>2 DEF Boot!Rename, Boot!Goes, Boot!Held, BootInv, BootTypes, BootPlaces, BootKnows
  <1>3. CASE Boot!LookTables(w)
    BY <1>3 DEF Boot!LookTables, Boot!Goes, Boot!Detox, BootInv, BootTypes, BootPlaces, BootKnows
  <1>4. CASE Boot!CreateTable(w)
    BY <1>4 DEF Boot!CreateTable, Boot!Goes, Boot!Held, Boot!Detox, BootInv, BootTypes, BootPlaces, BootKnows
  <1>5. CASE Boot!Commit(w)
    <2>1. /\ at[w] = "commit" /\ at' = [at EXCEPT ![w] = "lock"] /\ did' = [did EXCEPT ![w] = {}] /\ todo' = todo
          /\ legacy' = (legacy /\ "rename" \notin did[w])
          /\ copies' = IF "create" \in did[w] THEN copies + 1 ELSE copies
      BY <1>5 DEF Boot!Commit, Boot!Goes
    <2>2. legacy' = FALSE /\ copies' = 1
      <3>1. /\ legacy \in BOOLEAN /\ copies \in {0, 1} /\ (legacy => "rename" \in did[w])
            /\ (copies = 0 => "create" \in did[w]) /\ ("create" \in did[w] => copies = 0)
        BY <2>1 DEF BootInv, BootTypes, BootKnows
      <3>2. legacy' = FALSE
        BY <2>1, <3>1, Zenon
      <3>3. copies' = 1
        BY <2>1, <3>1
      <3> QED BY <3>2, <3>3
    <2>3. BootTypes' /\ at'[w] = "lock" /\ did'[w] = {}
      BY <2>1, <2>2 DEF BootInv, BootTypes, BootPlaces
    <2>4. ASSUME NEW v \in Actor, v # w PROVE at'[v] = at[v] /\ did'[v] = did[v] /\ did[v] = {}
      <3>1. at'[v] = at[v] /\ did'[v] = did[v] /\ did[v] \subseteq {"rename", "create"} /\ did[v] \cap did[w] = {}
        BY <2>1, <2>4 DEF BootInv, BootTypes
      <3>2. "rename" \notin did[v]
        BY <2>1, <3>1 DEF BootInv, BootKnows
      <3>3. "create" \notin did[v]
        BY <2>1, <3>1 DEF BootInv, BootTypes, BootKnows
      <3> QED BY <3>1, <3>2, <3>3
    <2>5. ASSUME NEW v \in Actor PROVE BootKnows(v)'
      <3>1. did'[v] = {}
        BY <2>3, <2>4
      <3> QED BY <2>2, <3>1 DEF BootKnows
    <2>6. \A u, v \in Actor : u # v => did'[u] \cap did'[v] = {}
      BY <2>3, <2>4
    <2> QED BY <2>3, <2>5, <2>6 DEF BootInv
  <1> QED BY <1>1, <1>2, <1>3, <1>4, <1>5

\* It seeds, dies or starts again.
LEMMA BootSeeds ==
  ASSUME BootInv, NEW w \in Actor,
         Boot!TryLock(w) \/ Boot!Seed(w) \/ Boot!SeedFails(w) \/ Boot!Crash(w) \/ Boot!Restart(w)
  PROVE  BootInv'
  <1>1. CASE Boot!TryLock(w) \/ Boot!Seed(w) \/ Boot!SeedFails(w)
    BY <1>1 DEF Boot!TryLock, Boot!Seed, Boot!SeedFails, Boot!Goes, Boot!counts, BootInv, BootTypes, BootPlaces, BootKnows
  <1>2. CASE Boot!Crash(w)
    BY <1>2 DEF Boot!Crash, Boot!Goes, BootInv, BootTypes, BootPlaces, BootKnows
  <1>3. CASE Boot!Restart(w)
    BY <1>3 DEF Boot!Restart, Boot!Goes, BootInv, BootTypes, BootPlaces, BootKnows
  <1> QED BY <1>1, <1>2, <1>3

\* Every step keeps it.
LEMMA BootNext == ASSUME BootInv, [Boot!Next]_bootData PROVE BootInv'
  <1>1. CASE UNCHANGED bootData
    BY <1>1 DEF bootData, BootInv, BootTypes, BootKnows
  <1>2. CASE Boot!Next
    BY <1>2, BootRepairs, BootSeeds DEF Boot!Next, Boot!Start
  <1> QED BY <1>1, <1>2

\* So the rows are moved once and who is up finds the schema repaired.
LEMMA BootHolds == ASSUME BootInv PROVE Boot!MovedOnce /\ Boot!UpIsRepaired
  BY DEF BootInv, BootTypes, BootKnows, Boot!MovedOnce, Boot!UpIsRepaired, Boot!Detox

-----------------------------------------------------------------------------
(* The circuit breaker (CircuitBreaker), of many callers and of one.       *)

BreakerTypes ==
  /\ failures \in 0..2 /\ call \in [Actor -> {"none", "closed", "open", "half_open"}]
  /\ state \in {"closed", "open", "half_open"} /\ age \in 0..3
  /\ state = "closed" <=> failures < 2
  /\ state = "half_open" => age = 3
BreakerInv == BreakerTypes

\* Nothing has failed yet.
LEMMA BreakerStarts == ASSUME AllInit, part = "breaker" PROVE BreakerInv
  BY DEF AllInit, Breaker!Init, BreakerInv, BreakerTypes

\* Every step keeps it.
LEMMA BreakerNext == ASSUME BreakerInv, [Breaker!Next]_breakerData PROVE BreakerInv'
  <1>1. CASE UNCHANGED breakerData
    BY <1>1 DEF breakerData, BreakerInv, BreakerTypes
  <1>2. CASE Breaker!Tick
    BY <1>2 DEF Breaker!Tick, BreakerInv, BreakerTypes
  <1>3. ASSUME NEW c \in Actor, Breaker!Ask(c) PROVE BreakerInv'
    BY <1>3 DEF Breaker!Ask, Breaker!Seen, BreakerInv, BreakerTypes
  <1>4. ASSUME NEW c \in Actor, Breaker!Success(c) PROVE BreakerInv'
    BY <1>4 DEF Breaker!Success, BreakerInv, BreakerTypes
  <1>5. ASSUME NEW c \in Actor, Breaker!Failure(c) PROVE BreakerInv'
    BY <1>5 DEF Breaker!Failure, Breaker!Counted, BreakerInv, BreakerTypes
  <1> QED BY <1>1, <1>2, <1>3, <1>4, <1>5 DEF Breaker!Next

\* What was let through half open ends in a closed or an open breaker, and an
\* open one is closed before its time only by a call that succeeds late.
LEMMA BreakerDecides ==
  ASSUME BreakerInv, [Breaker!Next]_breakerData
  PROVE  Breaker!OnlyLateSuccess /\ Breaker!ProbeDecides
  <1>1. CASE UNCHANGED breakerData \/ Breaker!Tick
    BY <1>1 DEF breakerData, Breaker!Tick, Breaker!OnlyLateSuccess, Breaker!ProbeDecides
  <1>2. ASSUME NEW c \in Actor, Breaker!Ask(c) PROVE Breaker!OnlyLateSuccess /\ Breaker!ProbeDecides
    BY <1>2 DEF Breaker!Ask, Breaker!Seen, BreakerInv, BreakerTypes, Breaker!OnlyLateSuccess, Breaker!ProbeDecides
  <1>3. ASSUME NEW c \in Actor, Breaker!Success(c) PROVE Breaker!OnlyLateSuccess /\ Breaker!ProbeDecides
    BY <1>3 DEF Breaker!Success, BreakerInv, BreakerTypes, Breaker!OnlyLateSuccess, Breaker!ProbeDecides
  <1>4. ASSUME NEW c \in Actor, Breaker!Failure(c) PROVE Breaker!OnlyLateSuccess /\ Breaker!ProbeDecides
    BY <1>4 DEF Breaker!Failure, Breaker!Counted, BreakerInv, BreakerTypes, Breaker!OnlyLateSuccess, Breaker!ProbeDecides
  <1> QED BY <1>1, <1>2, <1>3, <1>4 DEF Breaker!Next

\* So it is open or half open only after enough failures in a row.
LEMMA BreakerHolds == ASSUME BreakerInv PROVE Breaker!TypeOK
  BY DEF BreakerInv, BreakerTypes, Breaker!TypeOK

\* With one caller: a call under way was let through in the state that the
\* breaker still has.
LoneInv ==
  /\ failures \in 0..5 /\ call \in [{x1} -> {"none", "closed", "open", "half_open"}]
  /\ state \in {"closed", "open", "half_open"} /\ age \in 0..20
  /\ state = "closed" <=> failures < 5
  /\ call[x1] \in {"none", state} /\ call[x1] # "open"

\* Nothing has failed yet.
LEMMA LoneFromInit == ASSUME LoneBreaker!Init PROVE LoneInv
  BY DEF LoneBreaker!Init, LoneInv

\* So it is when the part starts.
LEMMA LoneStarts == ASSUME AllInit, part = "lone breaker" PROVE LoneInv
  <1>1. LoneBreaker!Init
    BY Zenon DEF AllInit
  <1> QED BY <1>1, LoneFromInit, Zenon

\* Every step keeps it, and an open breaker blocks for its time.
LEMMA LoneNext ==
  ASSUME LoneInv, [LoneBreaker!Next]_breakerData
  PROVE  LoneInv' /\ LoneBreaker!BlockedSince
  <1> USE DEF LoneBreaker!BlockedSince
  <1>1. CASE UNCHANGED breakerData
    BY <1>1 DEF breakerData, LoneInv
  <1>2. CASE LoneBreaker!Tick
    BY <1>2 DEF LoneBreaker!Tick, LoneInv
  <1>3. CASE LoneBreaker!Ask(x1)
    BY <1>3 DEF LoneBreaker!Ask, LoneBreaker!Seen, LoneInv
  <1>4. CASE LoneBreaker!Success(x1)
    BY <1>4 DEF LoneBreaker!Success, LoneInv
  <1>5. CASE LoneBreaker!Failure(x1)
    BY <1>5 DEF LoneBreaker!Failure, LoneBreaker!Counted, LoneInv
  <1> QED BY <1>1, <1>2, <1>3, <1>4, <1>5 DEF LoneBreaker!Next

-----------------------------------------------------------------------------
(* Retries of failed jobs (JobRetry).                                      *)

RetryInv ==
  /\ Retries!TypeOK
  /\ \A r \in Couple : retry[r].pc # "idle" => retry[r].task \in failedOnce
  /\ \A j \in failedOnce : jobs[j].status # "unborn"
  /\ \A j \in Jobs : jobs[j].status = "failed" => j \in failedOnce
  /\ \A i, j \in Jobs : i < j /\ jobs[j].status # "unborn" => jobs[i].status # "unborn"
  /\ \A j \in Jobs : jobs[j].status = "unborn" => jobs[j].retry_of = 0
  /\ Retries!RetryOfFailed

\* No job yet.
LEMMA RetryStarts == ASSUME AllInit PROVE RetryInv
  BY DEF AllInit, Retries!Init, Retries!Unborn, Retries!Free, RetryInv, Retries!TypeOK, Retries!RetryOfFailed,
     Retries!Row, Retries!Status, Retries!Terminal, Retries!None

\* A new row is younger than all the others.
LEMMA RetryInserts ==
  ASSUME RetryInv, NEW j \in Jobs, NEW d \in Jobs \cup {0}, NEW t \in Jobs \cup {0}, Retries!Insert(j, d, t),
         t # 0 => t \in failedOnce, UNCHANGED failedOnce,
         retry' \in [Couple -> [pc : {"idle", "payload", "submit"}, task : Jobs \cup {0}, payload : Jobs \cup {0}]],
         \A r \in Couple : retry'[r].pc # "idle" => retry'[r].task \in failedOnce
  PROVE  RetryInv'
  <1>0. Jobs \subseteq Nat \ {0} /\ failedOnce \subseteq Jobs /\ jobs \in [Jobs -> Retries!Row]
    BY ProcessConstants DEF ProcessConstants, Retries!RetryAssumption, RetryInv, Retries!TypeOK
  <1>1. jobs[j].status = "unborn" /\ \A i \in Jobs : i < j => jobs[i].status # "unborn"
    BY DEF Retries!Insert, Retries!Fresh
  <1>2. PICK row : row = [status |-> "queued", payload |-> d, retry_of |-> t]
    OBVIOUS
  <1>3. row \in Retries!Row /\ row.status = "queued" /\ row.retry_of = t /\ jobs' = [jobs EXCEPT ![j] = row]
    BY <1>2 DEF Retries!Insert, Retries!Row, Retries!Status, Retries!None
  <1>4. jobs' \in [Jobs -> Retries!Row] /\ jobs'[j] = row /\ \A i \in Jobs : i # j => jobs'[i] = jobs[i]
    BY <1>0, <1>3
  <1>5. Retries!TypeOK'
    BY <1>4, <1>0 DEF Retries!TypeOK, Retries!None
  <1>6. t # 0 => t < j
    <2>1. SUFFICES ASSUME t # 0 PROVE t < j
      OBVIOUS
    <2>2. t \in Jobs /\ jobs[t].status # "unborn" /\ t # j
      BY <1>0, <1>1, <2>1 DEF RetryInv
    <2>3. ~(j < t)
      BY <1>1, <2>2 DEF RetryInv
    <2> QED BY <1>0, <2>2, <2>3
  <1>7. \A i \in failedOnce' : jobs'[i].status # "unborn"
    BY <1>0, <1>3, <1>4 DEF RetryInv
  <1>7a. \A i \in Jobs : jobs'[i].status = "failed" => i \in failedOnce'
    BY <1>0, <1>3, <1>4 DEF RetryInv
  <1>8. \A i, k \in Jobs : i < k /\ jobs'[k].status # "unborn" => jobs'[i].status # "unborn"
    BY <1>0, <1>1, <1>3, <1>4 DEF RetryInv
  <1>9. \A i \in Jobs : jobs'[i].status = "unborn" => jobs'[i].retry_of = 0
    BY <1>3, <1>4 DEF RetryInv
  <1>10. Retries!RetryOfFailed'
    BY <1>0, <1>3, <1>4, <1>6 DEF RetryInv, Retries!RetryOfFailed, Retries!None
  <1> QED BY <1>5, <1>7, <1>7a, <1>8, <1>9, <1>10 DEF RetryInv

\* A row that is there changes its status, or its payload goes.
LEMMA RetryMoves ==
  ASSUME RetryInv, NEW j \in Jobs, Retries!Purge(j) \/ \E s \in Retries!Status : Retries!Move(j, s)
  PROVE  RetryInv'
  <1>0. Jobs \subseteq Nat \ {0} /\ failedOnce \subseteq Jobs /\ jobs \in [Jobs -> Retries!Row]
    BY ProcessConstants DEF ProcessConstants, Retries!RetryAssumption, RetryInv, Retries!TypeOK
  <1>1. PICK row : /\ jobs' = [jobs EXCEPT ![j] = row] /\ row \in Retries!Row
                   /\ row.status # "unborn" /\ row.retry_of = jobs[j].retry_of
                   /\ row.status = "failed" => j \in failedOnce'
    <2>0. jobs[j] \in Retries!Row
      BY <1>0
    <2>1. CASE Retries!Purge(j)
      <3>1. PICK row : row = [jobs[j] EXCEPT !.status = "purged", !.payload = 0]
        OBVIOUS
      <3>2. row \in Retries!Row /\ row.status = "purged" /\ row.retry_of = jobs[j].retry_of
        BY <2>0, <3>1 DEF Retries!Row, Retries!Status, Retries!None
      <3>3. jobs' = [jobs EXCEPT ![j] = row]
        BY <2>1, <3>1 DEF Retries!Purge, Retries!None
      <3> QED BY <3>2, <3>3
    <2>2. CASE \E s \in Retries!Status : Retries!Move(j, s)
      <3>1. PICK s \in Retries!Status : Retries!Move(j, s)
        BY <2>2
      <3>2. PICK row : row = [jobs[j] EXCEPT !.status = s]
        OBVIOUS
      <3>3. s # "unborn" /\ jobs' = [jobs EXCEPT ![j] = row]
        BY <1>0, <3>1, <3>2 DEF Retries!Move, Retries!Terminal
      <3>4. row \in Retries!Row /\ row.status = s /\ row.retry_of = jobs[j].retry_of
        BY <2>0, <3>2 DEF Retries!Row
      <3>5. s = "failed" => j \in failedOnce'
        BY <3>1 DEF Retries!Move
      <3> QED BY <3>3, <3>4, <3>5
    <2> QED BY <2>1, <2>2
  <1>2. jobs' \in [Jobs -> Retries!Row] /\ jobs'[j] = row /\ \A i \in Jobs : i # j => jobs'[i] = jobs[i]
    BY <1>0, <1>1
  <1>3. retry' = retry /\ failedOnce \subseteq failedOnce' /\ failedOnce' \subseteq failedOnce \cup {j}
    BY DEF Retries!Purge, Retries!Move
  <1>4. jobs[j].status # "unborn"
    BY DEF Retries!Purge, Retries!Move, Retries!Terminal
  <1>5. Retries!TypeOK'
    BY <1>0, <1>2, <1>3 DEF RetryInv, Retries!TypeOK
  <1>6. Retries!RetryOfFailed'
    BY <1>0, <1>1, <1>2, <1>3 DEF RetryInv, Retries!RetryOfFailed, Retries!None
  <1>7. \A i \in Jobs : jobs'[i].status = "unborn" <=> jobs[i].status = "unborn"
    BY <1>1, <1>2, <1>4
  <1>8. \A i \in Jobs : jobs'[i].retry_of = jobs[i].retry_of
    BY <1>1, <1>2
  <1>9. \A i \in Jobs : jobs'[i].status = "failed" => i \in failedOnce'
    BY <1>1, <1>2, <1>3 DEF RetryInv
  <1> QED BY <1>0, <1>3, <1>4, <1>5, <1>6, <1>7, <1>8, <1>9 DEF RetryInv

\* A request reads the task and its payload.
LEMMA RetryReads ==
  ASSUME RetryInv, NEW r \in Couple, Retries!ReadPayload(r) \/ \E j \in Jobs : Retries!ReadTask(r, j)
  PROVE  RetryInv'
  <1>0. /\ retry \in [Couple -> [pc : {"idle", "payload", "submit"}, task : Jobs \cup {0}, payload : Jobs \cup {0}]]
        /\ jobs \in [Jobs -> Retries!Row] /\ failedOnce \subseteq Jobs
    BY DEF RetryInv, Retries!TypeOK, Retries!None
  <1>1. UNCHANGED <<jobs, failedOnce>>
    BY DEF Retries!ReadPayload, Retries!ReadTask
  <1>2. PICK q : /\ retry' = [retry EXCEPT ![r] = q] /\ q.task \in failedOnce
                 /\ q \in [pc : {"idle", "payload", "submit"}, task : Jobs \cup {0}, payload : Jobs \cup {0}]
    <2>1. CASE Retries!ReadPayload(r)
      <3>1. retry[r].task \in failedOnce /\ retry[r].pc = "payload"
        BY <2>1 DEF Retries!ReadPayload, RetryInv
      <3>2. jobs[retry[r].task].payload \in Jobs \cup {0}
        BY <1>0, <3>1 DEF Retries!Row, Retries!None
      <3>3. PICK q : q = [retry[r] EXCEPT !.pc = "submit", !.payload = jobs[retry[r].task].payload]
        OBVIOUS
      <3>4. retry' = [retry EXCEPT ![r] = q]
        BY <2>1, <1>0, <3>3 DEF Retries!ReadPayload
      <3>5. retry[r] \in [pc : {"idle", "payload", "submit"}, task : Jobs \cup {0}, payload : Jobs \cup {0}]
        BY <1>0
      <3>6. q.task = retry[r].task /\ q \in [pc : {"idle", "payload", "submit"}, task : Jobs \cup {0}, payload : Jobs \cup {0}]
        BY <3>2, <3>3, <3>5
      <3> QED BY <3>1, <3>4, <3>6
    <2>2. ASSUME NEW j \in Jobs, Retries!ReadTask(r, j)
          PROVE  \E q : /\ retry' = [retry EXCEPT ![r] = q] /\ q.task \in failedOnce
                        /\ q \in [pc : {"idle", "payload", "submit"}, task : Jobs \cup {0}, payload : Jobs \cup {0}]
      <3>1. j \in failedOnce
        BY <2>2 DEF Retries!ReadTask, RetryInv
      <3>2. PICK q : q = [Retries!Free EXCEPT !.pc = "payload", !.task = j]
        OBVIOUS
      <3>3. q.task = j /\ q \in [pc : {"idle", "payload", "submit"}, task : Jobs \cup {0}, payload : Jobs \cup {0}]
        BY <3>2 DEF Retries!Free, Retries!None
      <3> QED BY <2>2, <3>1, <3>2, <3>3 DEF Retries!ReadTask
    <2> QED BY <2>1, <2>2
  <1>3. retry' \in [Couple -> [pc : {"idle", "payload", "submit"}, task : Jobs \cup {0}, payload : Jobs \cup {0}]]
    BY <1>0, <1>2
  <1>4. \A u \in Couple : retry'[u].pc # "idle" => retry'[u].task \in failedOnce
    BY <1>0, <1>2 DEF RetryInv
  <1> QED BY <1>1, <1>3, <1>4 DEF RetryInv, Retries!TypeOK, Retries!RetryOfFailed, Retries!None

\* Every step keeps it.
LEMMA RetryNext == ASSUME RetryInv, [Retries!Next]_retryData PROVE RetryInv'
  <1>0. retry \in [Couple -> [pc : {"idle", "payload", "submit"}, task : Jobs \cup {0}, payload : Jobs \cup {0}]]
    BY DEF RetryInv, Retries!TypeOK, Retries!None
  <1>1. CASE UNCHANGED retryData
    BY <1>1 DEF retryData, RetryInv, Retries!TypeOK, Retries!RetryOfFailed
  <1>2. ASSUME NEW j \in Jobs, Retries!Submit(j) PROVE RetryInv'
    <2>1. Retries!Insert(j, j, 0) /\ UNCHANGED <<retry, failedOnce>>
      BY <1>2 DEF Retries!Submit, Retries!None
    <2>2. \A r \in Couple : retry'[r].pc # "idle" => retry'[r].task \in failedOnce
      BY <2>1 DEF RetryInv
    <2> QED BY <1>0, <2>1, <2>2, RetryInserts
  <1>3. ASSUME NEW r \in Couple, NEW j \in Jobs, Retries!SubmitRetry(r, j) PROVE RetryInv'
    <2>1. PICK d \in Jobs \cup {0}, t \in Jobs \cup {0} : d = retry[r].payload /\ t = retry[r].task
      BY <1>0
    <2>2. /\ Retries!Insert(j, d, t) /\ retry' = [retry EXCEPT ![r] = Retries!Free] /\ UNCHANGED failedOnce
          /\ t \in failedOnce
      BY <1>3, <2>1 DEF Retries!SubmitRetry, RetryInv
    <2>3. retry' \in [Couple -> [pc : {"idle", "payload", "submit"}, task : Jobs \cup {0}, payload : Jobs \cup {0}]]
      BY <1>0, <2>2 DEF Retries!Free, Retries!None
    <2>4. \A u \in Couple : retry'[u].pc # "idle" => retry'[u].task \in failedOnce
      BY <1>0, <2>2 DEF RetryInv, Retries!Free
    <2> QED BY <2>2, <2>3, <2>4, RetryInserts
  <1>4. CASE Retries!Next
    BY <1>2, <1>3, <1>4, RetryMoves, RetryReads DEF Retries!Next
  <1> QED BY <1>1, <1>4

\* So a retry is of an older job, one that failed.
LEMMA RetryHolds == ASSUME RetryInv PROVE Retries!TypeOK /\ Retries!RetryOfFailed
  BY DEF RetryInv


-----------------------------------------------------------------------------
(* What keeps the answers and the results of the rows true.  A run that a   *)
(* route computes has no message, so it is worked on once: its result is    *)
(* empty until it is stored, and it is answered when its row has ended.     *)
TaskKinds == RunKinds
TaskRow == [kind : TaskKinds \cup {"none"}, status : FaultyTasks!Ended \cup {"none", "queued", "running"},
            result : {"none", "answer", "error"},
            answer : FaultyTasks!Ended \cup {"none", "queued", "running", "error"}]
TaskPlaces == {"none", "dispatch", "taken", "started", "computed", "raised", "aborted", "left", "stored"}
TaskRows == run \in [Couple -> TaskRow] /\ msg \in [Couple -> {"none", "queued", "taken"}] /\ step \in [Couple -> TaskPlaces]
UnbornRun(r) == run[r].kind = "none" => run[r] = FaultyTasks!New /\ msg[r] = "none" /\ step[r] = "none"
RunResult(r) == /\ run[r].status = "done" => run[r].result = "answer"
                /\ run[r].status = "failed" => run[r].result # "answer"
RunOfRoute(r) == run[r].kind \in FaultyTasks!InRoute => msg[r] = "none" /\ step[r] # "dispatch"
RunSweep(r) == run[r].kind = "sweep" =>
              /\ run[r].status \notin FaultyTasks!Ended => run[r].result = "none"
              /\ step[r] \in {"taken", "started", "computed", "raised", "aborted"} => run[r].status \notin FaultyTasks!Ended
              /\ step[r] = "stored" => run[r].status \in FaultyTasks!Ended
              /\ run[r].answer # "none" => step[r] = "none"
              /\ run[r].answer \notin {"none", "error"} =>
                   run[r].status \in FaultyTasks!Ended /\ run[r].answer = run[r].status
RunInv(r) == UnbornRun(r) /\ RunResult(r) /\ RunOfRoute(r) /\ RunSweep(r)
TaskInv == TaskRows /\ \A r \in Couple : RunInv(r)

(* A step of one run leaves the rows of the others alone.                   *)
LEMMA OneTask ==
  ASSUME TaskInv, NEW r \in Couple, TaskRows', RunInv(r)',
         \A q \in Couple \ {r} : run'[q] = run[q] /\ msg'[q] = msg[q] /\ step'[q] = step[q]
  PROVE  TaskInv'
  <1>1. ASSUME NEW q \in Couple, q # r PROVE RunInv(q)'
    <2>1. run'[q] = run[q] /\ msg'[q] = msg[q] /\ step'[q] = step[q]
      BY <1>1
    <2> QED BY <2>1, <1>1 DEF TaskInv, RunInv, UnbornRun, RunResult, RunOfRoute, RunSweep
  <1> QED BY <1>1 DEF TaskInv

(* The statements that set the status and the result of a row.              *)
LEMMA TaskSets ==
  ASSUME TaskInv, NEW r \in Couple, NEW st \in FaultyTasks!Ended \cup {"running"}, NEW res \in {"none", "answer", "error"},
         FaultyTasks!Set(r, st, res)
  PROVE  /\ run' \in [Couple -> TaskRow]
         /\ run'[r].status = st /\ run'[r].result = res
         /\ run'[r].kind = run[r].kind /\ run'[r].answer = run[r].answer
         /\ \A q \in Couple \ {r} : run'[q] = run[q]
  <1>1. run[r] \in TaskRow
    BY DEF TaskInv, TaskRows
  <1> DEFINE row == [run[r] EXCEPT !.status = st, !.result = res]
  <1>2. row \in TaskRow /\ row.status = st /\ row.result = res /\ row.kind = run[r].kind /\ row.answer = run[r].answer
    BY <1>1 DEF TaskRow
  <1>3. run' = [run EXCEPT ![r] = row]
    BY DEF FaultyTasks!Set
  <1> HIDE DEF row
  <1> QED BY <1>2, <1>3 DEF TaskInv, TaskRows

(* The answer of the route.                                                 *)
LEMMA TaskAnswers ==
  ASSUME TaskInv, NEW r \in Couple, NEW a \in FaultyTasks!Ended \cup {"none", "queued", "running", "error"}, FaultyTasks!Answer(r, a)
  PROVE  /\ run' \in [Couple -> TaskRow]
         /\ run'[r].answer = a /\ run'[r].status = run[r].status
         /\ run'[r].kind = run[r].kind /\ run'[r].result = run[r].result
         /\ \A q \in Couple \ {r} : run'[q] = run[q]
  <1>1. run[r] \in TaskRow
    BY DEF TaskInv, TaskRows
  <1> DEFINE row == [run[r] EXCEPT !.answer = a]
  <1>2. row \in TaskRow /\ row.answer = a /\ row.status = run[r].status /\ row.result = run[r].result /\ row.kind = run[r].kind
    BY <1>1 DEF TaskRow
  <1>3. run' = [run EXCEPT ![r] = row]
    BY DEF FaultyTasks!Answer
  <1> HIDE DEF row
  <1> QED BY <1>2, <1>3 DEF TaskInv, TaskRows

(* No kind of run is the absence of one.                                    *)
LEMMA KindsAre == RunKinds \subseteq {"rigorous", "study", "economic", "sync", "sweep"}
  BY ProcessConstants DEF FaultyTasks!CeleryConstants

(* A run is submitted.                                                     *)
LEMMA TaskSubmitted ==
  ASSUME TaskInv, NEW r \in Couple, FaultyTasks!Submit(r)
  PROVE  TaskInv'
  <1>1. PICK k \in TaskKinds :
          /\ run[r] = FaultyTasks!New
          /\ run' = [run EXCEPT ![r].kind = k, ![r].status = "queued"]
          /\ FaultyTasks!To(r, IF k = "sync" THEN "started" ELSE IF k = "sweep" THEN "taken" ELSE "dispatch")
          /\ UNCHANGED <<msg, runCrashes>>
    BY DEF FaultyTasks!Submit, TaskKinds
  <1> DEFINE row == [FaultyTasks!New EXCEPT !.kind = k, !.status = "queued"]
  <1>2. row \in TaskRow /\ row.kind = k /\ row.status = "queued" /\ row.result = "none" /\ row.answer = "none"
    BY DEF TaskRow, FaultyTasks!New
  <1>3. run' = [run EXCEPT ![r] = row]
    BY <1>1
  <1>4. k # "none" /\ msg[r] = "none"
    BY <1>1, KindsAre DEF TaskKinds, TaskInv, RunInv, UnbornRun, FaultyTasks!New
  <1> HIDE DEF row
  <1>5. TaskRows' /\ run'[r] = row /\ msg'[r] = "none"
        /\ step'[r] = (IF k = "sync" THEN "started" ELSE IF k = "sweep" THEN "taken" ELSE "dispatch")
    BY <1>1, <1>2, <1>3, <1>4 DEF TaskInv, TaskRows, FaultyTasks!To, TaskPlaces
  <1>6. RunInv(r)'
    BY <1>2, <1>4, <1>5 DEF RunInv, UnbornRun, RunResult, RunOfRoute, RunSweep, FaultyTasks!Ended, FaultyTasks!InRoute
  <1> QED BY <1>1, <1>2, <1>3, <1>5, <1>6, OneTask DEF TaskInv, TaskRows, FaultyTasks!To, TaskPlaces

(* The steps that leave the rows alone, or only move the task and message.  *)
LEMMA TaskMoves ==
  ASSUME TaskInv, NEW r \in Couple, FaultyTasks!Take(r) \/ FaultyTasks!Compute(r) \/ FaultyTasks!Ack(r)
                              \/ FaultyTasks!TimeLimit(r) \/ FaultyTasks!ChildLost(r)
  PROVE  TaskInv'
  <1>1. run' = run /\ run[r] \in TaskRow
    BY DEF FaultyTasks!Take, FaultyTasks!Compute, FaultyTasks!Ack, FaultyTasks!TimeLimit, FaultyTasks!ChildLost, TaskInv, TaskRows
  <1>2. /\ step' \in [Couple -> TaskPlaces] /\ msg' \in [Couple -> {"none", "queued", "taken"}]
        /\ run \in [Couple -> TaskRow]
    <2>1. CASE FaultyTasks!Take(r) BY <2>1 DEF FaultyTasks!Take, TaskInv, TaskRows, FaultyTasks!To, TaskPlaces
    <2>2. CASE FaultyTasks!Compute(r) BY <2>2 DEF FaultyTasks!Compute, TaskInv, TaskRows, FaultyTasks!To, TaskPlaces
    <2>3. CASE FaultyTasks!Ack(r) BY <2>3 DEF FaultyTasks!Ack, TaskInv, TaskRows, FaultyTasks!To, TaskPlaces
    <2>4. CASE FaultyTasks!TimeLimit(r) BY <2>4 DEF FaultyTasks!TimeLimit, TaskInv, TaskRows, FaultyTasks!To, TaskPlaces
    <2>5. CASE FaultyTasks!ChildLost(r) BY <2>5 DEF FaultyTasks!ChildLost, TaskInv, TaskRows, FaultyTasks!To, TaskPlaces
    <2> QED BY <2>1, <2>2, <2>3, <2>4, <2>5
  <1>3. \A q \in Couple \ {r} : msg'[q] = msg[q] /\ step'[q] = step[q]
    BY DEF FaultyTasks!Take, FaultyTasks!Compute, FaultyTasks!Ack, FaultyTasks!TimeLimit, FaultyTasks!ChildLost, TaskInv, TaskRows, FaultyTasks!To
  <1>4. CASE FaultyTasks!Take(r)
    <2>1. msg[r] = "queued" /\ msg'[r] = "taken" /\ step'[r] = "taken"
      BY <1>4 DEF FaultyTasks!Take, TaskInv, TaskRows, FaultyTasks!To
    <2> QED BY <1>1, <1>2, <1>3, <2>1, OneTask DEF TaskInv, TaskRows, TaskRow, RunInv, UnbornRun, RunResult, RunOfRoute, RunSweep, FaultyTasks!InRoute
  <1>5. CASE FaultyTasks!Compute(r)
    <2>1. msg' = msg /\ step[r] = "started" /\ step'[r] \in {"computed", "raised", "aborted"}
      BY <1>5 DEF FaultyTasks!Compute, TaskInv, TaskRows, FaultyTasks!To, FaultyTasks!At
    <2> QED BY <1>1, <1>2, <1>3, <2>1, OneTask DEF TaskInv, TaskRows, TaskRow, RunInv, UnbornRun, RunResult, RunOfRoute, RunSweep
  <1>6. CASE FaultyTasks!Ack(r) \/ FaultyTasks!TimeLimit(r)
    <2>1. run[r].kind \notin FaultyTasks!InRoute /\ msg'[r] = "none" /\ step'[r] = "none"
      BY <1>6 DEF FaultyTasks!Ack, FaultyTasks!TimeLimit, FaultyTasks!ChildLost, FaultyTasks!InRoute, TaskInv, TaskRows, FaultyTasks!To
    <2> QED BY <1>1, <1>2, <1>3, <2>1, OneTask DEF TaskInv, TaskRows, TaskRow, RunInv, UnbornRun, RunResult, RunOfRoute, RunSweep, FaultyTasks!InRoute
  <1>7. CASE FaultyTasks!ChildLost(r)
    <2>1. msg[r] = "taken" /\ msg'[r] = "none" /\ step'[r] = "none"
      BY <1>7 DEF FaultyTasks!ChildLost, TaskInv, TaskRows, FaultyTasks!To
    <2> QED BY <1>1, <1>2, <1>3, <2>1, OneTask DEF TaskInv, TaskRows, TaskRow, RunInv, UnbornRun, RunResult, RunOfRoute, RunSweep, FaultyTasks!InRoute
  <1> QED BY <1>4, <1>5, <1>6, <1>7

(* The steps that set the status of a row.                                  *)
LEMMA TaskStatements ==
  ASSUME TaskInv, NEW r \in Couple, FaultyTasks!Start(r) \/ FaultyTasks!Store(r) \/ FaultyTasks!Fail(r) \/ FaultyTasks!Recover(r)
  PROVE  TaskInv'
  <1>1. run[r] \in TaskRow /\ RunInv(r) /\ step \in [Couple -> TaskPlaces]
    BY DEF TaskInv, TaskRows
  <1>2. msg' = msg /\ msg \in [Couple -> {"none", "queued", "taken"}]
    BY DEF FaultyTasks!Start, FaultyTasks!Store, FaultyTasks!Fail, FaultyTasks!Recover, TaskInv, TaskRows
  <1>3. CASE FaultyTasks!Start(r)
    <2>1. FaultyTasks!Set(r, "running", run[r].result) /\ step[r] = "taken" /\ step' = [step EXCEPT ![r] = "started"]
      BY <1>3 DEF FaultyTasks!Start, FaultyTasks!To, FaultyTasks!At
    <2>2. TaskRows' /\ \A q \in Couple \ {r} : run'[q] = run[q] /\ step'[q] = step[q]
      BY <1>1, <1>2, <2>1, TaskSets DEF TaskRows, TaskRow, FaultyTasks!Ended, TaskPlaces, TaskInv
    <2>3. /\ run'[r].status = "running" /\ run'[r].result = run[r].result /\ run'[r].kind = run[r].kind
          /\ run'[r].answer = run[r].answer /\ step'[r] = "started"
      BY <1>1, <2>1, TaskSets DEF TaskRow, FaultyTasks!Ended
    <2>4. RunInv(r)'
      BY <1>1, <1>2, <2>1, <2>3 DEF RunInv, UnbornRun, RunResult, RunOfRoute, RunSweep, FaultyTasks!Ended
    <2> QED BY <1>2, <2>2, <2>4, OneTask
  <1>4. CASE UNCHANGED run /\ step[r] \in {"computed", "raised", "aborted"} /\ step'[r] \in {"aborted", "left"}
    <2>1. TaskRows' /\ \A q \in Couple \ {r} : run'[q] = run[q] /\ step'[q] = step[q]
      BY <1>1, <1>2, <1>4 DEF TaskRows, TaskInv, TaskPlaces, FaultyTasks!Start, FaultyTasks!Store, FaultyTasks!Fail, FaultyTasks!Recover, FaultyTasks!To
    <2>2. RunInv(r)'
      BY <1>1, <1>2, <1>4 DEF RunInv, UnbornRun, RunResult, RunOfRoute, RunSweep
    <2> QED BY <1>2, <2>1, <2>2, OneTask
  <1>5. ASSUME NEW st \in FaultyTasks!Ended, NEW res \in {"none", "answer", "error"}, FaultyTasks!Set(r, st, res),
               step' = [step EXCEPT ![r] = "stored"], step[r] # "none",
               st = "done" => res = "answer", st = "failed" => res # "answer"
        PROVE  TaskInv'
    <2>1. TaskRows' /\ \A q \in Couple \ {r} : run'[q] = run[q] /\ step'[q] = step[q]
      BY <1>1, <1>2, <1>5, TaskSets DEF TaskRows, TaskRow, TaskPlaces, TaskInv
    <2>2. /\ run'[r].status = st /\ run'[r].result = res /\ run'[r].kind = run[r].kind
          /\ run'[r].answer = run[r].answer /\ step'[r] = "stored"
      BY <1>1, <1>5, TaskSets DEF TaskPlaces
    <2>3. RunInv(r)'
      BY <1>1, <1>2, <1>5, <2>2 DEF RunInv, UnbornRun, RunResult, RunOfRoute, RunSweep
    <2> QED BY <1>2, <2>1, <2>3, OneTask
  <1>6. CASE FaultyTasks!Store(r)
    <2>1. CASE FaultyTasks!To(r, "stored") /\ FaultyTasks!Set(r, "done", "answer")
      BY <1>6, <2>1, <1>5 DEF FaultyTasks!Store, FaultyTasks!To, FaultyTasks!At, FaultyTasks!Ended
    <2>2. CASE FaultyTasks!To(r, "aborted") /\ UNCHANGED run
      BY <1>6, <2>2, <1>4, <1>1 DEF FaultyTasks!Store, FaultyTasks!To, FaultyTasks!At
    <2> QED BY <1>6, <2>1, <2>2 DEF FaultyTasks!Store
  <1>7. CASE FaultyTasks!Fail(r)
    <2>1. CASE FaultyTasks!At(r, "raised") /\ FaultyTasks!To(r, "stored") /\ FaultyTasks!Set(r, "failed", "error")
      BY <2>1, <1>5 DEF FaultyTasks!To, FaultyTasks!At, FaultyTasks!Ended
    <2>2. CASE step[r] \in {"raised", "aborted"} /\ FaultyTasks!To(r, "left") /\ UNCHANGED run
      BY <2>2, <1>4, <1>1 DEF FaultyTasks!To
    <2> QED BY <1>7, <2>1, <2>2 DEF FaultyTasks!Fail, FaultyTasks!At
  <1>8. CASE FaultyTasks!Recover(r)
    <2>1. CASE run[r].status \in FaultyTasks!Ended
      <3>1. run' = run /\ step[r] = "left" /\ step' = [step EXCEPT ![r] = "stored"] /\ step'[r] = "stored"
        BY <1>8, <2>1, <1>1 DEF FaultyTasks!Recover, FaultyTasks!At, FaultyTasks!To
      <3>2. TaskRows' /\ \A q \in Couple \ {r} : run'[q] = run[q] /\ step'[q] = step[q]
        BY <1>1, <1>2, <3>1 DEF TaskRows, TaskInv, TaskPlaces
      <3>3. RunInv(r)'
        BY <1>1, <1>2, <3>1, <2>1 DEF RunInv, UnbornRun, RunResult, RunOfRoute, RunSweep
      <3> QED BY <1>2, <3>2, <3>3, OneTask
    <2>2. CASE run[r].status \notin FaultyTasks!Ended
      <3>1. FaultyTasks!Set(r, "failed", run[r].result) /\ step[r] = "left" /\ step' = [step EXCEPT ![r] = "stored"]
        BY <1>8, <2>2 DEF FaultyTasks!Recover, FaultyTasks!At, FaultyTasks!To
      <3>2. run[r].result = "none" /\ "failed" \in FaultyTasks!Ended
        BY <1>8, <2>2, <1>1 DEF FaultyTasks!Recover, RunInv, RunSweep, FaultyTasks!Ended
      <3> QED BY <3>1, <3>2, <1>5
    <2> QED BY <2>1, <2>2
  <1> QED BY <1>3, <1>6, <1>7, <1>8

(* The answers of the routes, and the processes that die.                   *)
LEMMA TaskAnswered ==
  ASSUME TaskInv, NEW r \in Couple, FaultyTasks!Dispatch(r) \/ FaultyTasks!AnswerHere(r) \/ FaultyTasks!ProcessDies(r)
  PROVE  TaskInv'
  <1>1. run[r] \in TaskRow /\ RunInv(r) /\ step \in [Couple -> TaskPlaces] /\ msg \in [Couple -> {"none", "queued", "taken"}]
    BY DEF TaskInv, TaskRows
  <1>2. PICK a \in FaultyTasks!Ended \cup {"none", "queued", "running", "error"} :
          /\ FaultyTasks!Answer(r, a)
          /\ run[r].kind = "sweep" /\ a \notin {"none", "error"} => run[r].status \in FaultyTasks!Ended /\ a = run[r].status
    <2>1. CASE FaultyTasks!Dispatch(r)
      <3>1. run[r].kind # "sweep"
        BY <2>1, <1>1 DEF FaultyTasks!Dispatch, FaultyTasks!At, RunInv, RunOfRoute, FaultyTasks!InRoute
      <3> QED BY <2>1, <3>1 DEF FaultyTasks!Dispatch
    <2>2. CASE FaultyTasks!AnswerHere(r)
      <3>1. CASE FaultyTasks!At(r, "stored") /\ FaultyTasks!Answer(r, run[r].status)
        BY <3>1, <1>1 DEF FaultyTasks!At, TaskRow, RunInv, RunSweep
      <3>2. CASE run[r].kind = "sync" /\ FaultyTasks!Answer(r, "error")
        BY <3>2
      <3> QED BY <2>2, <3>1, <3>2 DEF FaultyTasks!AnswerHere
    <2>3. CASE FaultyTasks!ProcessDies(r)
      <3> DEFINE b == IF run[r].answer = "none" THEN "error" ELSE run[r].answer
      <3>1. FaultyTasks!Answer(r, b)
        BY <2>3 DEF FaultyTasks!ProcessDies, FaultyTasks!Answer
      <3>2. b \in FaultyTasks!Ended \cup {"none", "queued", "running", "error"}
        BY <1>1 DEF TaskRow
      <3>3. run[r].kind = "sweep" /\ b \notin {"none", "error"} => run[r].status \in FaultyTasks!Ended /\ b = run[r].status
        BY <1>1 DEF RunInv, RunSweep
      <3> HIDE DEF b
      <3> QED BY <3>1, <3>2, <3>3
    <2> QED BY <2>1, <2>2, <2>3
  <1>3. step' = [step EXCEPT ![r] = "none"]
    BY DEF FaultyTasks!Dispatch, FaultyTasks!AnswerHere, FaultyTasks!ProcessDies, FaultyTasks!To
  <1>4. /\ msg' \in [Couple -> {"none", "queued", "taken"}]
        /\ \A q \in Couple \ {r} : msg'[q] = msg[q]
        /\ run[r].kind \in FaultyTasks!InRoute => msg'[r] = "none"
    BY <1>1 DEF FaultyTasks!Dispatch, FaultyTasks!AnswerHere, FaultyTasks!ProcessDies, FaultyTasks!At, RunInv, RunOfRoute
  <1>5. TaskRows' /\ \A q \in Couple \ {r} : run'[q] = run[q] /\ step'[q] = step[q]
    BY <1>1, <1>2, <1>3, <1>4, TaskAnswers DEF TaskRows, TaskPlaces
  <1>6. /\ run'[r].answer = a /\ run'[r].status = run[r].status /\ run'[r].kind = run[r].kind
        /\ run'[r].result = run[r].result /\ step'[r] = "none"
    BY <1>1, <1>2, <1>3, TaskAnswers DEF TaskPlaces
  <1>7. run[r].kind # "none"
    BY <1>1 DEF FaultyTasks!Dispatch, FaultyTasks!AnswerHere, FaultyTasks!ProcessDies, FaultyTasks!At, RunInv, UnbornRun, FaultyTasks!InRoute
  <1>8. RunInv(r)'
    BY <1>1, <1>4, <1>2, <1>6, <1>7 DEF RunInv, UnbornRun, RunResult, RunOfRoute, RunSweep
  <1> QED BY <1>4, <1>5, <1>8, OneTask

\* Before anything is submitted.
LEMMA TaskStarts == ASSUME FaultyTasks!Init PROVE TaskInv
  BY DEF FaultyTasks!Init, TaskInv, TaskRows, TaskRow, TaskPlaces, FaultyTasks!New, RunInv, UnbornRun, RunResult,
     RunOfRoute, RunSweep, FaultyTasks!Ended, FaultyTasks!InRoute

\* Every step keeps it.
LEMMA TaskNext == ASSUME TaskInv, [FaultyTasks!Next]_taskData PROVE TaskInv'
  <1>1. CASE UNCHANGED taskData
    BY <1>1 DEF taskData, TaskInv, TaskRows, RunInv, UnbornRun, RunResult, RunOfRoute, RunSweep
  <1>2. ASSUME NEW r \in Couple, FaultyTasks!Submit(r) \/ FaultyTasks!Work(r) \/ FaultyTasks!TimeLimit(r)
                              \/ FaultyTasks!ChildLost(r) \/ FaultyTasks!ProcessDies(r)
        PROVE  TaskInv'
    BY <1>2, TaskSubmitted, TaskMoves, TaskStatements, TaskAnswered DEF FaultyTasks!Work
  <1> QED BY <1>1, <1>2 DEF FaultyTasks!Next

\* So a run that is done has its result and a sweep that is answered is over.
LEMMA TaskHolds == ASSUME TaskInv PROVE FaultyTasks!DoneHasResult /\ FaultyTasks!AnsweredIsOver
  <1>1. FaultyTasks!DoneHasResult
    BY Zenon DEF TaskInv, RunInv, RunResult, FaultyTasks!DoneHasResult
  <1>2. FaultyTasks!AnsweredIsOver
    BY DEF TaskInv, RunInv, RunSweep, FaultyTasks!AnsweredIsOver
  <1> QED BY <1>1, <1>2

(* A 'done' run has its engine's results, a failed one has not, and a sweep *)
(* whose route answered is over: for any runs of all kinds, whatever fails  *)
(* and however often processes die and messages are delivered again.        *)
THEOREM SpecResultsHold == FaultyTasks!Spec => [](FaultyTasks!DoneHasResult /\ FaultyTasks!AnsweredIsOver)
  <1>1. FaultyTasks!Init => TaskInv
    BY TaskStarts
  <1>2. TaskInv /\ [FaultyTasks!Next]_FaultyTasks!vars => TaskInv'
    BY TaskNext DEF FaultyTasks!vars, taskData
  <1>3. TaskInv => FaultyTasks!DoneHasResult /\ FaultyTasks!AnsweredIsOver
    BY TaskHolds
  <1> QED BY <1>1, <1>2, <1>3, PTL DEF FaultyTasks!Spec

(* Until a process dies, a run that has ended waits for nothing but its      *)
(* acknowledgement or its answer, whatever fails.                            *)
FirstTime(r) ==
  /\ step[r] = "dispatch" => run[r].status = "queued" /\ msg[r] = "none"
  /\ run[r].status \in {"done", "failed"} => step[r] \in {"none", "stored"} /\ msg[r] # "queued"
  /\ step[r] \notin {"none", "dispatch"} =>
       IF run[r].kind \in {"sync", "sweep"} THEN msg[r] # "taken" ELSE msg[r] = "taken"
FirstInv == TaskInv /\ runCrashes \in Nat /\ (runCrashes = 0 => \A r \in Couple : FirstTime(r))
Kept(r) == run'[r].status = run[r].status /\ run'[r].result = run[r].result
Worked(r) ==
  /\ run'[r].kind = run[r].kind
  /\ \/ step[r] = "dispatch" /\ step'[r] = "none" /\ msg'[r] \in {"queued", msg[r]} /\ Kept(r)
     \/ msg[r] = "queued" /\ msg'[r] = "taken" /\ step'[r] = "taken" /\ Kept(r)
     \/ step[r] = "taken" /\ step'[r] = "started" /\ msg'[r] = msg[r] /\ run'[r].status = "running"
     \/ step[r] = "started" /\ step'[r] \in {"computed", "raised", "aborted"} /\ msg'[r] = msg[r] /\ Kept(r)
     \/ step[r] = "computed" /\ step'[r] = "stored" /\ msg'[r] = msg[r] /\ run'[r].status = "done"
     \/ step[r] = "computed" /\ step'[r] = "aborted" /\ msg'[r] = msg[r] /\ Kept(r)
     \/ step[r] = "raised" /\ step'[r] = "stored" /\ msg'[r] = msg[r] /\ run'[r].status = "failed"
     \/ step[r] \in {"raised", "aborted"} /\ step'[r] = "left" /\ msg'[r] = msg[r] /\ Kept(r)
     \/ step'[r] = "none" /\ msg'[r] = "none" /\ Kept(r) /\ step[r] # "dispatch"
     \/ /\ step[r] \in {"stored", "left"} /\ run[r].kind \in {"sync", "sweep"}
        /\ step'[r] = "none" /\ msg'[r] = msg[r] /\ Kept(r)
     \/ /\ step[r] = "left" /\ run[r].kind = "sweep" /\ step'[r] = "stored" /\ msg'[r] = msg[r]
        /\ Kept(r) \/ run'[r].status = "failed"

\* What a step of a task does to its row, its message and its place.
LEMMA TaskWorks ==
  ASSUME TaskInv, NEW r \in Couple, FaultyTasks!Work(r) \/ FaultyTasks!TimeLimit(r) \/ FaultyTasks!ChildLost(r)
  PROVE  Worked(r)
  <1>0. /\ run \in [Couple -> TaskRow] /\ run[r] \in TaskRow
        /\ msg \in [Couple -> {"none", "queued", "taken"}] /\ step \in [Couple -> TaskPlaces]
    BY DEF TaskInv, TaskRows
  <1>2. ASSUME NEW a, FaultyTasks!Answer(r, a) PROVE run'[r].kind = run[r].kind /\ Kept(r)
    BY <1>0, <1>2 DEF FaultyTasks!Answer, TaskRow, Kept
  <1>3. ASSUME NEW st, NEW res, FaultyTasks!Set(r, st, res)
        PROVE  run'[r].kind = run[r].kind /\ run'[r].status = st /\ run'[r].result = res
    BY <1>0, <1>3 DEF FaultyTasks!Set, TaskRow
  <1>4. CASE FaultyTasks!Dispatch(r)
    BY <1>0, <1>2, <1>4 DEF Worked, FaultyTasks!Dispatch, FaultyTasks!At, FaultyTasks!To
  <1>5. CASE FaultyTasks!Start(r)
    BY <1>0, <1>3, <1>5 DEF Worked, FaultyTasks!Start, FaultyTasks!At, FaultyTasks!To
  <1>6. CASE FaultyTasks!Store(r) /\ ~UNCHANGED run
    BY <1>0, <1>3, <1>6 DEF Worked, FaultyTasks!Store, FaultyTasks!At, FaultyTasks!To
  <1>7. CASE FaultyTasks!Fail(r) /\ ~UNCHANGED run
    BY <1>0, <1>3, <1>7 DEF Worked, FaultyTasks!Fail, FaultyTasks!At, FaultyTasks!To
  <1>8. CASE FaultyTasks!AnswerHere(r)
    BY <1>0, <1>2, <1>8 DEF Worked, FaultyTasks!AnswerHere, FaultyTasks!At, FaultyTasks!To, FaultyTasks!InRoute
  <1>10. CASE FaultyTasks!Recover(r) /\ ~UNCHANGED run
    <2>1. FaultyTasks!Set(r, "failed", run[r].result)
      BY <1>10 DEF FaultyTasks!Recover
    <2> QED BY <1>0, <1>3, <1>10, <2>1 DEF Worked, FaultyTasks!Recover, FaultyTasks!At, FaultyTasks!To
  <1>9. CASE UNCHANGED run
    <2>1. run'[r].kind = run[r].kind /\ Kept(r)
      BY <1>9 DEF Kept
    <2>2. CASE FaultyTasks!Take(r) \/ FaultyTasks!Compute(r) \/ FaultyTasks!Store(r)
      BY <1>0, <1>3, <1>9, <2>1, <2>2 DEF Worked, FaultyTasks!Take, FaultyTasks!Compute, FaultyTasks!Store, FaultyTasks!At,
         FaultyTasks!To
    <2>3. CASE FaultyTasks!Fail(r)
      BY <1>0, <1>3, <1>9, <2>1, <2>3 DEF Worked, FaultyTasks!Fail, FaultyTasks!At, FaultyTasks!To
    <2>4. CASE FaultyTasks!Ack(r) \/ FaultyTasks!TimeLimit(r)
      BY <1>0, <1>9, <2>1, <2>4 DEF Worked, FaultyTasks!Ack, FaultyTasks!TimeLimit, FaultyTasks!At, FaultyTasks!To
    <2>5. CASE FaultyTasks!ChildLost(r)
      <3>1. step[r] # "dispatch"
        BY <2>5 DEF FaultyTasks!ChildLost
      <3> QED BY <1>0, <1>9, <2>1, <2>5, <3>1 DEF Worked, FaultyTasks!ChildLost, FaultyTasks!To
    <2>6. CASE FaultyTasks!Recover(r)
      BY <1>0, <1>9, <2>1, <2>6 DEF Worked, FaultyTasks!Recover, FaultyTasks!At, FaultyTasks!To
    <2> QED BY <1>4, <1>5, <1>8, <1>0, <2>2, <2>3, <2>4, <2>5, <2>6, <1>9, <2>1 DEF FaultyTasks!Work
  <1> QED BY <1>0, <1>9, <1>4, <1>5, <1>6, <1>7, <1>8, <1>10
          DEF FaultyTasks!Work, FaultyTasks!Take, FaultyTasks!Compute, FaultyTasks!Ack, FaultyTasks!TimeLimit,
              FaultyTasks!ChildLost

\* What a step of one run leaves of the others.
LEMMA OthersRest ==
  ASSUME TaskInv, NEW r \in Couple,
         FaultyTasks!Submit(r) \/ FaultyTasks!Work(r) \/ FaultyTasks!TimeLimit(r) \/ FaultyTasks!ChildLost(r)
  PROVE  (\A q \in Couple \ {r} : run'[q] = run[q] /\ msg'[q] = msg[q] /\ step'[q] = step[q]) /\ UNCHANGED runCrashes
  BY DEF TaskInv, TaskRows, FaultyTasks!Submit, FaultyTasks!Work, FaultyTasks!Dispatch, FaultyTasks!Take,
     FaultyTasks!Start, FaultyTasks!Compute, FaultyTasks!Store, FaultyTasks!Fail, FaultyTasks!Ack, FaultyTasks!Recover,
     FaultyTasks!AnswerHere, FaultyTasks!To, FaultyTasks!Set, FaultyTasks!Answer, FaultyTasks!TimeLimit,
     FaultyTasks!ChildLost

\* Every step keeps it, and until a process dies what has ended stays ended.
LEMMA FirstNext ==
  ASSUME FirstInv, [FaultyTasks!Next]_taskData
  PROVE  FirstInv' /\ FaultyTasks!EndedStays
  <1>1. TaskInv'
    BY TaskNext DEF FirstInv
  <1>2. CASE UNCHANGED taskData
    BY <1>1, <1>2 DEF taskData, FirstInv, FirstTime, FaultyTasks!EndedStays
  <1>3. ASSUME NEW r \in Couple,
               FaultyTasks!Submit(r) \/ FaultyTasks!Work(r) \/ FaultyTasks!TimeLimit(r) \/ FaultyTasks!ChildLost(r)
        PROVE  FirstInv' /\ FaultyTasks!EndedStays
    <2>0. TaskInv
      BY DEF FirstInv
    <2>1. (\A q \in Couple \ {r} : run'[q] = run[q] /\ msg'[q] = msg[q] /\ step'[q] = step[q]) /\ UNCHANGED runCrashes
      BY <1>3, <2>0, OthersRest
    <2>2. CASE FaultyTasks!Submit(r)
      <3>1. PICK k \in RunKinds :
              /\ run[r] = FaultyTasks!New /\ run' = [run EXCEPT ![r].kind = k, ![r].status = "queued"]
              /\ step' = [step EXCEPT ![r] = IF k = "sync" THEN "started" ELSE IF k = "sweep" THEN "taken" ELSE "dispatch"]
              /\ UNCHANGED msg
        BY <2>2 DEF FaultyTasks!Submit, FaultyTasks!To
      <3>2. /\ run \in [Couple -> TaskRow] /\ msg \in [Couple -> {"none", "queued", "taken"}]
            /\ step \in [Couple -> TaskPlaces] /\ msg[r] = "none"
        BY <3>1, <2>0 DEF TaskInv, TaskRows, RunInv, UnbornRun, FaultyTasks!New
      <3>3. /\ run'[r].kind = k /\ run'[r].status = "queued" /\ msg'[r] = "none" /\ run[r].status = "none"
            /\ step'[r] = IF k = "sync" THEN "started" ELSE IF k = "sweep" THEN "taken" ELSE "dispatch"
        BY <3>1, <3>2 DEF FaultyTasks!New
      <3>4. FirstTime(r)'
        BY <3>3 DEF FirstTime
      <3> QED BY <1>1, <2>1, <3>3, <3>4 DEF FirstInv, FirstTime, FaultyTasks!EndedStays, FaultyTasks!Ended
    <2>3. CASE FaultyTasks!Work(r) \/ FaultyTasks!TimeLimit(r) \/ FaultyTasks!ChildLost(r)
      <3>1. Worked(r) /\ RunOfRoute(r)
        BY <2>0, <2>3, TaskWorks DEF TaskInv, RunInv
      <3>2. FirstTime(r) => FirstTime(r)'
        BY <3>1 DEF FirstTime, Worked, Kept, RunOfRoute, FaultyTasks!InRoute
      <3>3. FirstTime(r) /\ run[r].status \in {"done", "failed"} => Kept(r)
        BY <3>1 DEF FirstTime, Worked
      <3> QED BY <1>1, <2>1, <3>2, <3>3 DEF FirstInv, FirstTime, Kept, FaultyTasks!EndedStays, FaultyTasks!Ended
    <2> QED BY <1>3, <2>2, <2>3
  <1>4. ASSUME NEW r \in Couple, FaultyTasks!ProcessDies(r)
        PROVE  FirstInv' /\ FaultyTasks!EndedStays
    <2>1. runCrashes' = runCrashes + 1 /\ runCrashes \in Nat
      BY <1>4 DEF FaultyTasks!ProcessDies, FirstInv
    <2>2. run \in [Couple -> TaskRow] /\ run' = [run EXCEPT ![r].answer = IF @ = "none" THEN "error" ELSE @]
      BY <1>4 DEF FaultyTasks!ProcessDies, FirstInv, TaskInv, TaskRows
    <2>3. ASSUME NEW q \in Couple PROVE run'[q].status = run[q].status /\ run'[q].result = run[q].result
      BY <2>2 DEF TaskRow
    <2> QED BY <1>1, <2>1, <2>3 DEF FirstInv, FaultyTasks!EndedStays
  <1> QED BY <1>2, <1>3, <1>4 DEF FaultyTasks!Next

\* Before anything is submitted.
LEMMA FirstStarts == ASSUME FaultyTasks!Init PROVE FirstInv
  BY TaskStarts DEF FaultyTasks!Init, FaultyTasks!New, FirstInv, FirstTime

(* Of the part "tasks" only the engine fails, no process dies and no child is *)
(* lost: its steps are steps of tasks of which all may fail.                  *)
QuietInv == FirstInv /\ runCrashes = 0 /\ \A r \in Couple : run[r].kind # "sweep"
LEMMA TasksAreFaulty ==
  ASSUME QuietInv, [Tasks!Next]_taskData
  PROVE  /\ [FaultyTasks!Next]_taskData
         /\ \/ UNCHANGED taskData
            \/ \E r \in Couple : Tasks!Submit(r) /\ FaultyTasks!Submit(r)
            \/ \E r \in Couple : FaultyTasks!Work(r)
  <1>1. ASSUME NEW r \in Couple, Tasks!Submit(r) PROVE FaultyTasks!Submit(r)
    BY <1>1 DEF Tasks!Submit, FaultyTasks!Submit, Tasks!New, FaultyTasks!New, Tasks!To, FaultyTasks!To
  <1>2. ASSUME NEW r \in Couple, Tasks!Work(r) PROVE FaultyTasks!Work(r)
    <2>1. CASE Tasks!Dispatch(r)
      BY <2>1 DEF FaultyTasks!Work, Tasks!Dispatch, FaultyTasks!Dispatch, Tasks!At, FaultyTasks!At, Tasks!To,
         FaultyTasks!To, Tasks!Answer, FaultyTasks!Answer
    <2>2. CASE Tasks!Take(r) \/ Tasks!Start(r)
      BY <2>2 DEF FaultyTasks!Work, Tasks!Take, FaultyTasks!Take, Tasks!Start, FaultyTasks!Start, Tasks!At,
         FaultyTasks!At, Tasks!To, FaultyTasks!To, Tasks!Set, FaultyTasks!Set
    <2>3. CASE Tasks!Compute(r) \/ Tasks!Store(r)
      BY <2>3 DEF FaultyTasks!Work, Tasks!Compute, FaultyTasks!Compute, Tasks!Store, FaultyTasks!Store, Tasks!At,
         FaultyTasks!At, Tasks!To, FaultyTasks!To, Tasks!Set, FaultyTasks!Set, Tasks!WithCursor, FaultyTasks!WithCursor
    <2>4. CASE Tasks!Fail(r) \/ Tasks!Ack(r)
      BY <2>4 DEF FaultyTasks!Work, Tasks!Fail, FaultyTasks!Fail, Tasks!Ack, FaultyTasks!Ack, Tasks!At,
         FaultyTasks!At, Tasks!To, FaultyTasks!To, Tasks!Set, FaultyTasks!Set, Tasks!InRoute, FaultyTasks!InRoute
    <2>5. CASE Tasks!Recover(r) \/ Tasks!AnswerHere(r)
      BY <2>5 DEF FaultyTasks!Work, Tasks!Recover, FaultyTasks!Recover, Tasks!AnswerHere, FaultyTasks!AnswerHere,
         Tasks!At, FaultyTasks!At, Tasks!To, FaultyTasks!To, Tasks!Set, FaultyTasks!Set, Tasks!Answer,
         FaultyTasks!Answer, Tasks!InRoute, FaultyTasks!InRoute, Tasks!Ended, FaultyTasks!Ended
    <2> QED BY <1>2, <2>1, <2>2, <2>3, <2>4, <2>5 DEF Tasks!Work
  <1>3. ASSUME NEW r \in Couple PROVE ~Tasks!TimeLimit(r) /\ ~Tasks!ChildLost(r) /\ ~Tasks!ProcessDies(r)
    BY DEF QuietInv, Tasks!TimeLimit, Tasks!ChildLost, Tasks!ProcessDies
  <1> QED BY <1>1, <1>2, <1>3 DEF Tasks!Next, FaultyTasks!Next

\* Every step keeps it.
LEMMA QuietNext ==
  ASSUME QuietInv, [Tasks!Next]_taskData
  PROVE  QuietInv'
  <1>0. TaskInv /\ FirstInv /\ run \in [Couple -> TaskRow]
    BY DEF QuietInv, FirstInv, TaskInv, TaskRows
  <1>1. FirstInv'
    BY <1>0, TasksAreFaulty, FirstNext
  <1>2. CASE UNCHANGED taskData
    BY <1>1, <1>2 DEF taskData, QuietInv
  <1>3. ASSUME NEW r \in Couple, Tasks!Submit(r), FaultyTasks!Submit(r) PROVE QuietInv'
    <2>1. run'[r].kind # "sweep"
      <3>1. PICK k \in RunKinds \ {"sweep"} : run' = [run EXCEPT ![r].kind = k, ![r].status = "queued"]
        BY <1>3 DEF Tasks!Submit
      <3> QED BY <1>0, <3>1 DEF TaskRow
    <2> QED BY <1>0, <1>1, <1>3, <2>1, OthersRest DEF QuietInv
  <1>4. ASSUME NEW r \in Couple, FaultyTasks!Work(r) PROVE QuietInv'
    <2>1. run'[r].kind = run[r].kind
      BY <1>0, <1>4, TaskWorks DEF Worked
    <2> QED BY <1>0, <1>1, <1>4, <2>1, OthersRest DEF QuietInv
  <1> QED BY <1>2, <1>3, <1>4, TasksAreFaulty

\* Before anything is submitted.
LEMMA QuietStarts == ASSUME Tasks!Init PROVE QuietInv /\ FirstInv
  <1>1. FaultyTasks!Init
    BY DEF Tasks!Init, FaultyTasks!Init, Tasks!New, FaultyTasks!New
  <1>2. FirstInv
    BY <1>1, FirstStarts
  <1> QED BY <1>1, <1>2 DEF FaultyTasks!Init, FaultyTasks!New, QuietInv

\* So a task at work has taken its message, and what is done has its result.
LEMMA QuietHolds == ASSUME QuietInv PROVE Tasks!TypeOK /\ Tasks!DoneHasResult
  <1>1. ASSUME NEW r \in Couple
        PROVE  /\ run[r].kind \in (RunKinds \ {"sweep"}) \cup {"none"}
               /\ run[r].status \in {"done", "failed"} \cup {"none", "queued", "running"}
    BY DEF QuietInv, FirstInv, TaskInv, TaskRows, TaskRow, TaskKinds, FaultyTasks!Ended
  <1>2. ASSUME NEW r \in Couple, step[r] \notin {"none", "dispatch"}
        PROVE  (run[r].kind \in {"sync", "sweep"}) # (msg[r] = "taken")
    BY <1>2, Zenon DEF QuietInv, FirstInv, FirstTime
  <1>3. Tasks!DoneHasResult
    BY Zenon DEF QuietInv, FirstInv, TaskInv, RunInv, RunResult, Tasks!DoneHasResult
  <1>4. runCrashes \in 0..0
    BY DEF QuietInv
  <1> QED BY <1>1, <1>2, <1>3, <1>4 DEF Tasks!TypeOK, Tasks!InRoute, Tasks!Ended

-----------------------------------------------------------------------------
(* The pools of connections (ConnectionPool), of one process and of two:   *)
(* where names the process of each request.                                 *)

Flags == BOOLEAN
PoolRow == [made : Nat, idle : Nat, dead : Nat, used : Nat]
Asking == [at : {"idle", "pool", "lock", "acquire", "use", "release", "unwind"}, conns : Seq(Flags), left : Nat]
HeldOf(reqs, where, p) == UNION {{r} \X DOMAIN reqs[r].conns : r \in {q \in Actor : where[q] = p}}
\* A pool that is used was made; it is made once and counts what is held.
PoolTypes(procs) == pool \in [procs -> PoolRow] /\ poolReq \in [Actor -> Asking] /\ restarts \in Nat
AskingFits(q, made) ==
  /\ q.at \in {"use", "release"} => q.conns # <<>>
  /\ q.at = "acquire" \/ q.conns # <<>> => made > 0
PoolCounts(row, held) == row.made <= 1 /\ IsFiniteSet(held) /\ row.used = Cardinality(held)
PoolInv(procs, where) ==
  /\ PoolTypes(procs)
  /\ \A r \in Actor : AskingFits(poolReq[r], pool[where[r]].made)
  /\ \A p \in procs : PoolCounts(pool[p], HeldOf(poolReq, where, p))

\* Who holds a connection, and at which place.
LEMMA HeldElements ==
  ASSUME NEW reqs \in [Actor -> Asking], NEW where, NEW p, NEW q, NEW i
  PROVE  <<q, i>> \in HeldOf(reqs, where, p) <=> q \in Actor /\ where[q] = p /\ i \in 1 .. Len(reqs[q].conns)
  <1>1. ASSUME NEW r \in Actor PROVE DOMAIN reqs[r].conns = 1 .. Len(reqs[r].conns)
    <2>1. reqs[r].conns \in Seq(Flags)
      BY DEF Asking
    <2> QED BY <2>1, LenProperties
  <1> QED BY <1>1 DEF HeldOf

\* Two sets of holders are the same when they hold the same places.
LEMMA HeldArePairs ==
  ASSUME NEW reqs, NEW where, NEW p
  PROVE  \A x \in HeldOf(reqs, where, p) : \E q, i : x = <<q, i>>
  BY DEF HeldOf

\* A step of one request: it takes a connection, gives its last one back, or
\* neither; or it makes the pool.
PoolMoves(where, r, row, q) ==
  /\ pool' = [pool EXCEPT ![where[r]] = row] /\ poolReq' = [poolReq EXCEPT ![r] = q] /\ restarts' = restarts
  /\ AskingFits(q, row.made) /\ row.made <= 1 /\ pool[where[r]].made <= row.made
  /\ \/ Len(q.conns) = Len(poolReq[r].conns) + 1 /\ row.used = pool[where[r]].used + 1
     \/ Len(poolReq[r].conns) > 0 /\ Len(q.conns) = Len(poolReq[r].conns) - 1 /\ row.used = pool[where[r]].used - 1
     \/ Len(q.conns) = Len(poolReq[r].conns) /\ row.used = pool[where[r]].used
     \/ Len(q.conns) = Len(poolReq[r].conns) /\ pool[where[r]].made = 0 /\ row.used = 0

\* Such a step keeps the count.
LEMMA PoolMoved ==
  ASSUME NEW procs, NEW where \in [Actor -> procs], PoolInv(procs, where), NEW r \in Actor,
         NEW row \in PoolRow, NEW q \in Asking, PoolMoves(where, r, row, q)
  PROVE  PoolInv(procs, where)'
  <1>1. /\ pool' \in [procs -> PoolRow] /\ poolReq' \in [Actor -> Asking] /\ restarts' \in Nat
        /\ pool'[where[r]] = row /\ poolReq'[r] = q /\ where[r] \in procs
        /\ \A p \in procs : p # where[r] => pool'[p] = pool[p]
        /\ \A u \in Actor : u # r => poolReq'[u] = poolReq[u]
    BY DEF PoolInv, PoolTypes, PoolMoves
  <1>2. ASSUME NEW u \in Actor PROVE AskingFits(poolReq'[u], pool'[where[u]].made)
    <2>1. CASE u = r
      BY <1>1, <2>1 DEF PoolMoves
    <2>2. CASE u # r
      <3>1. poolReq'[u] = poolReq[u] /\ where[u] \in procs /\ AskingFits(poolReq[u], pool[where[u]].made)
        BY <1>1, <2>2 DEF PoolInv
      <3>2. /\ pool'[where[u]].made \in Nat /\ pool[where[u]].made \in Nat /\ pool[where[u]].made <= pool'[where[u]].made
        BY <1>1, <3>1 DEF PoolInv, PoolTypes, PoolRow, PoolMoves
      <3> QED BY <3>1, <3>2 DEF AskingFits
    <2> QED BY <2>1, <2>2
  <1>3. ASSUME NEW p \in procs, p # where[r] PROVE PoolCounts(pool'[p], HeldOf(poolReq', where, p))
    <2>1. HeldOf(poolReq', where, p) = HeldOf(poolReq, where, p)
      BY <1>1, <1>3 DEF HeldOf
    <2> QED BY <1>1, <1>3, <2>1 DEF PoolInv
  <1>4. PoolCounts(row, HeldOf(poolReq', where, where[r]))
    <2> DEFINE H == HeldOf(poolReq, where, where[r])
               G == HeldOf(poolReq', where, where[r])
               n == Len(poolReq[r].conns)
               m == Len(q.conns)
    <2>1. /\ IsFiniteSet(H) /\ pool[where[r]].used = Cardinality(H)
          /\ poolReq \in [Actor -> Asking] /\ n \in Nat /\ m \in Nat /\ pool[where[r]].made \in Nat
      BY <1>1, EmptySeq, LenProperties DEF PoolInv, PoolTypes, PoolCounts, PoolRow, Asking
    <2>2. ASSUME NEW u, NEW i
          PROVE  /\ <<u, i>> \in H <=> u \in Actor /\ where[u] = where[r] /\ i \in 1 .. Len(poolReq[u].conns)
                 /\ <<u, i>> \in G <=> u \in Actor /\ where[u] = where[r] /\ i \in 1 .. Len(poolReq'[u].conns)
      BY <1>1, <2>1, HeldElements
    <2>3. (\A x \in H : \E u, i : x = <<u, i>>) /\ (\A x \in G : \E u, i : x = <<u, i>>)
      BY HeldArePairs
    <2>4. row.made <= 1
      BY DEF PoolMoves
    <2> HIDE DEF H, G
    <2>5. CASE m = n + 1 /\ row.used = pool[where[r]].used + 1
      <3>1. <<r, n + 1>> \notin H
        BY <2>1, <2>2
      <3>2. ASSUME NEW u, NEW i PROVE <<u, i>> \in G <=> <<u, i>> \in H \cup {<<r, n + 1>>}
        <4>1. CASE u = r
          BY <1>1, <2>1, <2>2, <2>5, <4>1
        <4>2. CASE u # r
          BY <1>1, <2>2, <4>2
        <4> QED BY <4>1, <4>2
      <3>3. G = H \cup {<<r, n + 1>>}
        BY <2>3, <3>2
      <3>4. IsFiniteSet(G) /\ Cardinality(G) = Cardinality(H) + 1
        BY <2>1, <3>1, <3>3, FS_AddElement
      <3> QED BY <2>1, <2>4, <2>5, <3>4 DEF PoolCounts, G
    <2>6. CASE n > 0 /\ m = n - 1 /\ row.used = pool[where[r]].used - 1
      <3>1. <<r, n>> \in H
        BY <2>1, <2>2, <2>6
      <3>2. ASSUME NEW u, NEW i PROVE <<u, i>> \in G <=> <<u, i>> \in H \ {<<r, n>>}
        <4>1. CASE u = r
          BY <1>1, <2>1, <2>2, <2>6, <4>1
        <4>2. CASE u # r
          BY <1>1, <2>2, <4>2
        <4> QED BY <4>1, <4>2
      <3>3. G = H \ {<<r, n>>}
        BY <2>3, <3>2
      <3>4. IsFiniteSet(G) /\ Cardinality(G) = Cardinality(H) - 1
        BY <2>1, <3>1, <3>3, FS_RemoveElement
      <3> QED BY <2>1, <2>4, <2>6, <3>4 DEF PoolCounts, G
    <2>7. ASSUME m = n PROVE G = H
      <3>1. ASSUME NEW u, NEW i PROVE <<u, i>> \in G <=> <<u, i>> \in H
        <4>1. CASE u = r
          BY <1>1, <2>1, <2>2, <2>7, <4>1
        <4>2. CASE u # r
          BY <1>1, <2>2, <4>2
        <4> QED BY <4>1, <4>2
      <3> QED BY <2>3, <3>1
    <2>8. CASE m = n /\ row.used = pool[where[r]].used
      BY <2>1, <2>4, <2>7, <2>8 DEF PoolCounts, G
    <2>9. CASE m = n /\ pool[where[r]].made = 0 /\ row.used = 0
      <3>1. ASSUME NEW u, NEW i PROVE <<u, i>> \notin H
        <4>1. SUFFICES ASSUME u \in Actor, where[u] = where[r] PROVE i \notin 1 .. Len(poolReq[u].conns)
          BY <2>2
        <4>2. poolReq[u].conns = <<>>
          BY <2>1, <2>9, <4>1 DEF PoolInv, AskingFits
        <4> QED BY <4>2
      <3>2. H = {}
        BY <2>3, <3>1
      <3> QED BY <2>1, <2>4, <2>7, <2>9, <3>2, FS_EmptySet DEF PoolCounts, G
    <2> QED BY <2>5, <2>6, <2>8, <2>9 DEF PoolMoves
  <1> QED BY <1>1, <1>2, <1>3, <1>4 DEF PoolInv, PoolTypes

\* A list without its last element, and one with all elements replaced.
LEMMA LastGone ==
  ASSUME NEW S, NEW c \in Seq(S), c # <<>>
  PROVE  /\ SubSeq(c, 1, Len(c) - 1) \in Seq(S) /\ Len(SubSeq(c, 1, Len(c) - 1)) = Len(c) - 1
         /\ Len(c) \in Nat \ {0}
         /\ Len(c) # 1 => SubSeq(c, 1, Len(c) - 1) # <<>>
  <1>1. Len(c) \in Nat \ {0}
    BY EmptySeq
  <1>2. Len(c) - 1 \in Nat /\ Len(c) - 1 <= Len(c)
    BY <1>1
  <1>3. PICK n \in Nat : n = Len(c) - 1 /\ n <= Len(c)
    BY <1>2
  <1>5. SubSeq(c, 1, n) \in Seq(S) /\ Len(SubSeq(c, 1, n)) = n
    BY <1>3
  <1>6. PICK d : d = SubSeq(c, 1, n)
    OBVIOUS
  <1>7. Len(d) = n /\ d \in Seq(S)
    BY <1>1, <1>3, <1>5, <1>6
  <1>8. n # 0 => d # <<>>
    BY <1>7, EmptySeq
  <1> QED BY <1>1, <1>3, <1>6, <1>7, <1>8

\* A list keeps its length when all its elements are replaced.
LEMMA AllReplaced ==
  ASSUME NEW S, NEW x \in S, NEW c \in Seq(S), NEW d, d = [i \in DOMAIN c |-> x]
  PROVE  d \in Seq(S) /\ DOMAIN d = DOMAIN c /\ (d = <<>> <=> c = <<>>)
  <1>1. PICK n \in Nat : n = Len(c) /\ DOMAIN c = 1 .. n
    BY LenProperties
  <1>3. d \in Seq(S) /\ DOMAIN d = 1 .. n /\ Len(d) = n
    BY <1>1
  <1>4. d = <<>> <=> c = <<>>
    BY <1>1, <1>3, EmptySeq
  <1> QED BY <1>1, <1>3, <1>4

NoAsking == [at |-> "idle", conns |-> <<>>, left |-> 0]

\* A connection is taken.
LEMMA PoolTaken ==
  ASSUME NEW procs, NEW where \in [Actor -> procs], PoolInv(procs, where), NEW r \in Actor, NEW row \in PoolRow,
         NEW alive \in Flags, poolReq[r].at = "acquire",
         poolReq' = [poolReq EXCEPT ![r].conns = Append(@, alive), ![r].at = "use"],
         pool' = [pool EXCEPT ![where[r]] = row], restarts' = restarts,
         row.made = pool[where[r]].made, row.used = pool[where[r]].used + 1
  PROVE  PoolInv(procs, where)'
  <1>1. PICK c : c = poolReq[r].conns
    OBVIOUS
  <1>2. poolReq \in [Actor -> Asking] /\ poolReq[r] \in Asking /\ c \in Seq(Flags) /\ row.made \in Nat
    BY <1>1 DEF PoolInv, PoolTypes, Asking, PoolRow
  <1>3. Append(c, alive) \in Seq(Flags) /\ Len(Append(c, alive)) = Len(c) + 1 /\ Append(c, alive) # <<>>
    BY <1>2
  <1>4. PICK q : q = [poolReq[r] EXCEPT !.conns = Append(c, alive), !.at = "use"]
    OBVIOUS
  <1>5. q \in Asking /\ q.at = "use" /\ q.conns = Append(c, alive)
    BY <1>2, <1>3, <1>4 DEF Asking
  <1>6. poolReq' = [poolReq EXCEPT ![r] = q]
    BY <1>1, <1>2, <1>4
  <1>7. row.made > 0 /\ row.made <= 1 /\ where[r] \in procs
    BY <1>2 DEF PoolInv, AskingFits, PoolCounts
  <1>8. PoolMoves(where, r, row, q)
    <2>1. Len(q.conns) = Len(poolReq[r].conns) + 1
      BY <1>1, <1>3, <1>5
    <2>2. AskingFits(q, row.made) /\ pool[where[r]].made <= row.made
      BY <1>2, <1>5, <1>7 DEF AskingFits
    <2> QED BY <1>6, <1>7, <2>1, <2>2 DEF PoolMoves
  <1> QED BY <1>5, <1>8, PoolMoved

\* The last connection is given back.
GivesBack(where, r, idle, to) ==
  /\ poolReq[r].conns # <<>> /\ restarts' = restarts
  /\ poolReq' = [poolReq EXCEPT ![r] = IF Len(poolReq[r].conns) = 1 THEN NoAsking
        ELSE [poolReq[r] EXCEPT !.conns = SubSeq(poolReq[r].conns, 1, Len(poolReq[r].conns) - 1), !.at = to]]
  /\ pool' = [pool EXCEPT ![where[r]] = [pool[where[r]] EXCEPT !.idle = idle, !.used = pool[where[r]].used - 1]]
\* A request gives its last connection back.
LEMMA PoolGiven ==
  ASSUME NEW procs, NEW where \in [Actor -> procs], PoolInv(procs, where), NEW r \in Actor,
         NEW idle \in Nat, NEW to \in {"use", "unwind"}, GivesBack(where, r, idle, to)
  PROVE  PoolInv(procs, where)'
  <1>1. PICK c : c = poolReq[r].conns
    OBVIOUS
  <1>2. /\ poolReq \in [Actor -> Asking] /\ poolReq[r] \in Asking /\ c \in Seq(Flags) /\ c # <<>>
        /\ where[r] \in procs /\ pool[where[r]] \in PoolRow
    BY <1>1 DEF PoolInv, PoolTypes, Asking, GivesBack
  <1>3. /\ Len(c) \in Nat /\ Len(c) > 0
        /\ SubSeq(c, 1, Len(c) - 1) \in Seq(Flags) /\ Len(SubSeq(c, 1, Len(c) - 1)) = Len(c) - 1
        /\ Len(c) # 1 => SubSeq(c, 1, Len(c) - 1) # <<>>
    BY <1>2, LastGone
  <1>6. PICK q : q = IF Len(poolReq[r].conns) = 1 THEN NoAsking
                     ELSE [poolReq[r] EXCEPT !.conns = SubSeq(poolReq[r].conns, 1, Len(poolReq[r].conns) - 1), !.at = to]
    OBVIOUS
  <1>7. q \in Asking /\ Len(q.conns) = Len(c) - 1 /\ q.at \in {"idle", to} /\ (q.at = "idle" \/ q.conns # <<>>)
    <2>1. CASE Len(c) = 1
      <3>1. q = NoAsking
        BY <1>1, <1>6, <2>1
      <3>2. <<>> \in Seq(Flags) /\ Len(<<>>) = 0
        BY EmptySeq
      <3> QED BY <2>1, <3>1, <3>2 DEF NoAsking, Asking
    <2>2. CASE Len(c) # 1
      <3>1. q = [poolReq[r] EXCEPT !.conns = SubSeq(c, 1, Len(c) - 1), !.at = to]
        BY <1>1, <1>6, <2>2
      <3> QED BY <1>2, <1>3, <2>2, <3>1 DEF Asking
    <2> QED BY <2>1, <2>2
  <1>8. poolReq' = [poolReq EXCEPT ![r] = q]
    BY <1>6, Zenon DEF GivesBack
  <1>9. /\ pool[where[r]].made > 0 /\ pool[where[r]].made <= 1 /\ IsFiniteSet(HeldOf(poolReq, where, where[r]))
        /\ pool[where[r]].used = Cardinality(HeldOf(poolReq, where, where[r]))
    BY <1>1, <1>2 DEF PoolInv, AskingFits, PoolCounts
  <1>10. pool[where[r]].used > 0
    <2>1. <<r, 1>> \in HeldOf(poolReq, where, where[r])
      BY <1>1, <1>2, <1>3, HeldElements
    <2>2. HeldOf(poolReq, where, where[r]) # {}
      BY <2>1
    <2>3. Cardinality(HeldOf(poolReq, where, where[r])) # 0
      BY <1>9, <2>2, FS_EmptySet
    <2> QED BY <1>2, <1>9, <2>3 DEF PoolRow
  <1>11. PICK row : row = [pool[where[r]] EXCEPT !.idle = idle, !.used = pool[where[r]].used - 1]
    OBVIOUS
  <1>15. row \in PoolRow /\ row.made = pool[where[r]].made /\ row.used = pool[where[r]].used - 1
    <2>1. PICK old \in PoolRow : old = pool[where[r]] /\ old.used > 0
      BY <1>2, <1>10
    <2>2. row = [old EXCEPT !.idle = idle, !.used = old.used - 1]
      BY <1>11, <2>1
    <2>3. old.used - 1 \in Nat
      BY <2>1 DEF PoolRow
    <2> QED BY <2>1, <2>2, <2>3 DEF PoolRow
  <1>16. pool' = [pool EXCEPT ![where[r]] = row] /\ restarts' = restarts
    BY <1>11, Zenon DEF GivesBack
  <1>12. q.at # "acquire" /\ AskingFits(q, row.made)
    BY <1>7, <1>9, <1>15 DEF AskingFits
  <1>13. pool[where[r]].made <= row.made /\ row.made <= 1
    BY <1>2, <1>9, <1>15 DEF PoolRow
  <1>14. PoolMoves(where, r, row, q)
    <2>1. Len(poolReq[r].conns) > 0 /\ Len(q.conns) = Len(poolReq[r].conns) - 1
      BY <1>1, <1>3, <1>7
    <2> QED BY <1>8, <1>12, <1>13, <1>15, <1>16, <2>1 DEF PoolMoves
  <1> QED BY <1>7, <1>14, <1>15, PoolMoved

\* A request goes to its next place.
LEMMA PoolGone ==
  ASSUME NEW procs, NEW where \in [Actor -> procs], PoolInv(procs, where), NEW r \in Actor, NEW q \in Asking,
         q.conns = poolReq[r].conns, poolReq' = [poolReq EXCEPT ![r] = q], UNCHANGED <<pool, restarts>>,
         q.at \in {"use", "release"} => q.conns # <<>>,
         q.at = "acquire" => pool[where[r]].made > 0 \/ q.conns # <<>>
  PROVE  PoolInv(procs, where)'
  <1>1. PICK row \in PoolRow : row = pool[where[r]]
    BY DEF PoolInv, PoolTypes
  <1>2. pool' = [pool EXCEPT ![where[r]] = row]
    BY <1>1 DEF PoolInv, PoolTypes
  <1>3. AskingFits(q, row.made) /\ row.made <= 1 /\ row.made \in Nat
    BY <1>1 DEF PoolInv, AskingFits, PoolCounts, PoolRow
  <1>4. PoolMoves(where, r, row, q)
    <2>1. Len(q.conns) = Len(poolReq[r].conns) /\ row.used = pool[where[r]].used /\ pool[where[r]].made <= row.made
      BY <1>1, <1>3
    <2> QED BY <1>2, <1>3, <2>1 DEF PoolMoves
  <1> QED BY <1>4, PoolMoved

\* The pool is made.
LEMMA PoolMade ==
  ASSUME NEW procs, NEW where \in [Actor -> procs], PoolInv(procs, where), NEW r \in Actor, NEW row \in PoolRow,
         poolReq[r].at = "lock", poolReq' = [poolReq EXCEPT ![r].at = "acquire"],
         pool' = [pool EXCEPT ![where[r]] = row], restarts' = restarts,
         pool[where[r]].made = 0, row.made = 1, row.used = 0
  PROVE  PoolInv(procs, where)'
  <1>1. PICK q : q = [poolReq[r] EXCEPT !.at = "acquire"]
    OBVIOUS
  <1>2. poolReq \in [Actor -> Asking] /\ poolReq[r] \in Asking
    BY DEF PoolInv, PoolTypes
  <1>3. q \in Asking /\ q.at = "acquire" /\ q.conns = poolReq[r].conns /\ poolReq' = [poolReq EXCEPT ![r] = q]
    BY <1>1, <1>2 DEF Asking
  <1>4. PoolMoves(where, r, row, q)
    <2>1. Len(q.conns) = Len(poolReq[r].conns) /\ pool[where[r]].made <= row.made /\ row.made <= 1
      BY <1>3
    <2>2. AskingFits(q, row.made)
      BY <1>3 DEF AskingFits
    <2> QED BY <1>3, <2>1, <2>2 DEF PoolMoves
  <1> QED BY <1>3, <1>4, PoolMoved

\* All connections die with the server.
PoolDies(procs) ==
  /\ restarts' = restarts + 1
  /\ pool' = [p \in procs |-> [pool[p] EXCEPT !.idle = 0, !.dead = pool[p].dead + pool[p].idle]]
  /\ poolReq' = [r \in Actor |-> [poolReq[r] EXCEPT !.conns = [i \in DOMAIN poolReq[r].conns |-> FALSE]]]
\* The counts survive it: what was held is still held, by a dead connection.
LEMMA PoolRestarted ==
  ASSUME NEW procs, NEW where \in [Actor -> procs], PoolInv(procs, where), PoolDies(procs)
  PROVE  PoolInv(procs, where)'
  <1>1. ASSUME NEW r \in Actor
        PROVE  /\ poolReq'[r] \in Asking /\ poolReq'[r].at = poolReq[r].at
               /\ DOMAIN poolReq'[r].conns = DOMAIN poolReq[r].conns
               /\ poolReq[r].conns = <<>> <=> poolReq'[r].conns = <<>>
    <2>1. PICK c \in Seq(Flags) : c = poolReq[r].conns
      BY DEF PoolInv, PoolTypes, Asking
    <2>2. PICK d : d = [i \in DOMAIN c |-> FALSE]
      OBVIOUS
    <2>3. PICK f \in Flags : f = FALSE
      BY DEF Flags
    <2>5. d = [i \in DOMAIN c |-> f]
      BY <2>2, <2>3
    <2>4. d \in Seq(Flags) /\ DOMAIN d = DOMAIN c /\ (d = <<>> <=> c = <<>>)
      BY <2>5, AllReplaced
    <2>6. poolReq'[r] = [poolReq[r] EXCEPT !.conns = d] /\ poolReq[r] \in Asking
      BY <2>1, <2>2 DEF PoolInv, PoolTypes, PoolDies
    <2>7. poolReq'[r] \in Asking /\ poolReq'[r].at = poolReq[r].at /\ poolReq'[r].conns = d
      BY <2>4, <2>6 DEF Asking
    <2> QED BY <2>1, <2>4, <2>7
  <1>2. ASSUME NEW p \in procs
        PROVE  pool'[p] \in PoolRow /\ pool'[p].made = pool[p].made /\ pool'[p].used = pool[p].used
    <2>1. pool[p] \in PoolRow
      BY DEF PoolInv, PoolTypes
    <2>2. PICK row : row = [pool[p] EXCEPT !.idle = 0, !.dead = pool[p].dead + pool[p].idle]
      OBVIOUS
    <2>3. PICK old \in PoolRow : old = pool[p]
      BY <2>1
    <2>5. row = [old EXCEPT !.idle = 0, !.dead = old.dead + old.idle]
      BY <2>2, <2>3
    <2>7. old.dead + old.idle \in Nat
      BY DEF PoolRow
    <2>6. row \in PoolRow /\ row.made = old.made /\ row.used = old.used
      BY <2>5, <2>7 DEF PoolRow
    <2>4. pool'[p] = row
      BY <2>2 DEF PoolDies
    <2> QED BY <2>3, <2>4, <2>6
  <1>3. PoolTypes(procs)'
    <2>1. pool' \in [procs -> PoolRow]
      BY <1>2 DEF PoolDies
    <2>2. poolReq' \in [Actor -> Asking]
      BY <1>1 DEF PoolDies
    <2>3. restarts' \in Nat
      <3>1. restarts' = restarts + 1
        BY Zenon DEF PoolDies
      <3> QED BY <3>1 DEF PoolInv, PoolTypes
    <2> QED BY <2>1, <2>2, <2>3 DEF PoolTypes
  <1>4. ASSUME NEW r \in Actor PROVE AskingFits(poolReq'[r], pool'[where[r]].made)
    BY <1>1, <1>2 DEF PoolInv, AskingFits
  <1>5. ASSUME NEW p \in procs PROVE PoolCounts(pool'[p], HeldOf(poolReq', where, p))
    <2>1. HeldOf(poolReq', where, p) = HeldOf(poolReq, where, p)
      <3>1. \A r \in Actor : {r} \X DOMAIN poolReq'[r].conns = {r} \X DOMAIN poolReq[r].conns
        BY <1>1
      <3> QED BY <3>1, Zenon DEF HeldOf
    <2> QED BY <1>2, <2>1 DEF PoolInv, PoolCounts
  <1> QED BY <1>3, <1>4, <1>5 DEF PoolInv

\* A request goes to another place with what it has.
LEMMA PoolWent ==
  ASSUME NEW procs, NEW where \in [Actor -> procs], PoolInv(procs, where), NEW r \in Actor,
         NEW a \in {"lock", "acquire", "release", "unwind"}, poolReq' = [poolReq EXCEPT ![r].at = a],
         UNCHANGED <<pool, restarts>>,
         a = "release" => poolReq[r].conns # <<>>, a = "acquire" => pool[where[r]].made > 0
  PROVE  PoolInv(procs, where)'
  <1>1. PICK q : q = [poolReq[r] EXCEPT !.at = a]
    OBVIOUS
  <1>2. poolReq \in [Actor -> Asking] /\ poolReq[r] \in Asking
    BY DEF PoolInv, PoolTypes
  <1>3. q \in Asking /\ q.conns = poolReq[r].conns /\ q.at = a /\ poolReq' = [poolReq EXCEPT ![r] = q]
    BY <1>1, <1>2 DEF Asking
  <1> QED BY <1>3, PoolGone

OneHome == [r \in Actor |-> p1]
TwoHomes == [r \in Actor |-> IF r = x1 THEN p1 ELSE p2]

\* A request of the pool of one process keeps the count.
LEMMA PoolAsks ==
  ASSUME PoolInv({p1}, OneHome), NEW r \in Actor, Pool!Begin(r) \/ Pool!LookPool(r) \/ Pool!Use(r)
  PROVE  PoolInv({p1}, OneHome)'
  <1>0. OneHome \in [Actor -> {p1}] /\ poolReq \in [Actor -> Asking] /\ poolReq[r] \in Asking
    BY DEF PoolInv, PoolTypes, OneHome
  <1>1. CASE Pool!Begin(r)
    <2>1. PICK q : q = [NoAsking EXCEPT !.at = "pool", !.left = 1]
      OBVIOUS
    <2>2. q \in Asking /\ q.conns = <<>> /\ q.at = "pool"
      BY <2>1, EmptySeq DEF Asking, NoAsking
    <2>3. poolReq[r] = NoAsking /\ poolReq' = [poolReq EXCEPT ![r] = q] /\ UNCHANGED <<pool, restarts>>
      BY <1>1, <2>1 DEF Pool!Begin, Pool!Idle, NoAsking
    <2>4. poolReq[r].conns = <<>>
      BY <2>3 DEF NoAsking
    <2> QED BY <1>0, <2>2, <2>3, <2>4, PoolGone
  <1>2. CASE Pool!LookPool(r)
    <2>1. PICK a \in {"acquire", "lock"} : /\ poolReq' = [poolReq EXCEPT ![r].at = a] /\ UNCHANGED <<pool, restarts>>
                                           /\ a = "acquire" => pool[OneHome[r]].made > 0
      BY <1>2 DEF Pool!LookPool, Pool!Go, Pool!P, OneHome
    <2> QED BY <1>0, <2>1, PoolWent
  <1>3. CASE Pool!Use(r)
    <2>1. UNCHANGED <<pool, restarts>> /\ poolReq[r].at = "use" /\ poolReq[r].conns # <<>>
      BY <1>3 DEF Pool!Use, PoolInv, AskingFits
    <2>2. CASE Pool!Go(r, "release") \/ Pool!Go(r, "unwind")
      <3>1. PICK a \in {"release", "unwind"} : poolReq' = [poolReq EXCEPT ![r].at = a]
        BY <2>2 DEF Pool!Go
      <3> QED BY <1>0, <2>1, <3>1, PoolWent
    <2>3. CASE poolReq[r].left > 0 /\ poolReq' = [poolReq EXCEPT ![r].at = "acquire", ![r].left = @ - 1]
      <3>1. PICK q : q = [poolReq[r] EXCEPT !.at = "acquire", !.left = poolReq[r].left - 1]
        OBVIOUS
      <3>2. poolReq[r].left - 1 \in Nat
        BY <1>0, <2>3 DEF Asking
      <3>3. q \in Asking /\ q.conns = poolReq[r].conns /\ q.at = "acquire"
        BY <1>0, <3>1, <3>2 DEF Asking
      <3>4. poolReq' = [poolReq EXCEPT ![r] = q]
        BY <1>0, <2>3, <3>1
      <3> QED BY <1>0, <2>1, <3>3, <3>4, PoolGone
    <2> QED BY <1>3, <2>2, <2>3 DEF Pool!Use
  <1> QED BY <1>1, <1>2, <1>3

\* It makes the pool, takes a connection or gives one back.
LEMMA PoolTakes ==
  ASSUME PoolInv({p1}, OneHome), NEW r \in Actor,
         Pool!CreatePool(r) \/ Pool!Acquire(r) \/ Pool!Release(r) \/ Pool!Unwind(r)
  PROVE  PoolInv({p1}, OneHome)'
  <1>0. /\ OneHome \in [Actor -> {p1}] /\ poolReq \in [Actor -> Asking] /\ poolReq[r] \in Asking
        /\ pool \in [{p1} -> PoolRow] /\ OneHome[r] \in {p1}
    BY DEF PoolInv, PoolTypes, OneHome
  <1>1. PICK old \in PoolRow : old = pool[OneHome[r]]
    BY <1>0
  <1>2. ASSUME NEW a \in {"lock", "acquire", "unwind"}, Pool!Go(r, a), UNCHANGED <<pool, restarts>>,
               a = "acquire" => old.made > 0
        PROVE  PoolInv({p1}, OneHome)'
    BY <1>0, <1>1, <1>2, PoolWent DEF Pool!Go
  <1>3. CASE Pool!CreatePool(r)
    <2>1. CASE pool' = [pool EXCEPT ![OneHome[r]] = Pool!Made(r)] /\ Pool!Go(r, "acquire") /\ old.made = 0
      <3>1. PICK row : row = Pool!Made(r)
        OBVIOUS
      <3>2. row = [made |-> old.made + 1, idle |-> 1, dead |-> 0, used |-> 0]
        BY <1>1, <3>1 DEF Pool!Made, Pool!P, OneHome
      <3>3. row \in PoolRow /\ row.made = 1 /\ row.used = 0
        BY <2>1, <3>2 DEF PoolRow
      <3>4. pool' = [pool EXCEPT ![OneHome[r]] = row] /\ restarts' = restarts /\ poolReq[r].at = "lock"
        BY <1>3, <2>1, <3>1 DEF Pool!CreatePool
      <3>5. poolReq' = [poolReq EXCEPT ![r].at = "acquire"] /\ pool[OneHome[r]].made = 0
        BY <1>1, <2>1 DEF Pool!Go
      <3> QED BY <1>0, <3>3, <3>4, <3>5, PoolMade
    <2> QED BY <1>1, <1>2, <1>3, <2>1 DEF Pool!CreatePool, Pool!P, OneHome
  <1>4. ASSUME NEW alive \in Flags, NEW row \in PoolRow, Pool!Acquire(r), row.made = old.made, row.used = old.used + 1,
               pool' = [pool EXCEPT ![OneHome[r]] = row],
               poolReq' = [poolReq EXCEPT ![r].conns = Append(@, alive), ![r].at = "use"]
        PROVE  PoolInv({p1}, OneHome)'
    BY <1>0, <1>1, <1>4, PoolTaken DEF Pool!Acquire
  <1>5. PICK yes \in Flags, no \in Flags : yes = TRUE /\ no = FALSE
    BY DEF Flags
  <1>6. CASE Pool!Acquire(r)
    <2>1. CASE Pool!Take(r, "idle", TRUE)
      <3>1. PICK row : row = [old EXCEPT !.idle = old.idle - 1, !.used = old.used + 1]
        OBVIOUS
      <3>2. old.idle - 1 \in Nat /\ old.used + 1 \in Nat
        BY <1>1, <2>1 DEF Pool!Take, Pool!P, OneHome, PoolRow
      <3>3. row \in PoolRow /\ row.made = old.made /\ row.used = old.used + 1
        BY <3>1, <3>2 DEF PoolRow
      <3>4. pool' = [pool EXCEPT ![OneHome[r]] = row]
        BY <1>0, <1>1, <2>1, <3>1 DEF Pool!Take, OneHome
      <3>5. poolReq' = [poolReq EXCEPT ![r].conns = Append(@, yes), ![r].at = "use"]
        BY <1>5, <2>1 DEF Pool!Take
      <3> QED BY <1>4, <1>6, <3>3, <3>4, <3>5
    <2>2. CASE Pool!Take(r, "dead", FALSE)
      <3>1. PICK row : row = [old EXCEPT !.dead = old.dead - 1, !.used = old.used + 1]
        OBVIOUS
      <3>2. old.dead - 1 \in Nat /\ old.used + 1 \in Nat
        BY <1>1, <2>2 DEF Pool!Take, Pool!P, OneHome, PoolRow
      <3>3. row \in PoolRow /\ row.made = old.made /\ row.used = old.used + 1
        BY <3>1, <3>2 DEF PoolRow
      <3>4. pool' = [pool EXCEPT ![OneHome[r]] = row]
        BY <1>0, <1>1, <2>2, <3>1 DEF Pool!Take, OneHome
      <3>5. poolReq' = [poolReq EXCEPT ![r].conns = Append(@, no), ![r].at = "use"]
        BY <1>5, <2>2 DEF Pool!Take
      <3> QED BY <1>4, <1>6, <3>3, <3>4, <3>5
    <2>3. CASE Pool!Connect(r)
      <3>1. PICK row : row = [old EXCEPT !.used = old.used + 1]
        OBVIOUS
      <3>2. old.used + 1 \in Nat
        BY DEF PoolRow
      <3>3. row \in PoolRow /\ row.made = old.made /\ row.used = old.used + 1
        BY <3>1, <3>2 DEF PoolRow
      <3>4. pool' = [pool EXCEPT ![OneHome[r]] = row]
        BY <1>0, <1>1, <2>3, <3>1 DEF Pool!Connect, OneHome
      <3>5. poolReq' = [poolReq EXCEPT ![r].conns = Append(@, yes), ![r].at = "use"]
        BY <1>5, <2>3 DEF Pool!Connect
      <3> QED BY <1>4, <1>6, <3>3, <3>4, <3>5
    <2> QED BY <1>2, <1>6, <2>1, <2>2, <2>3 DEF Pool!Acquire
  <1>7. ASSUME NEW to \in {"use", "unwind"}, poolReq[r].conns # <<>>, Pool!Put(r), Pool!Dropped(r, {to}), restarts' = restarts
        PROVE  PoolInv({p1}, OneHome)'
    <2>1. PICK idle : idle = IF Pool!Alive(r) /\ old.idle + old.dead < 1 THEN old.idle + 1 ELSE old.idle
      OBVIOUS
    <2>2. idle \in Nat
      BY <2>1 DEF PoolRow
    <2>3. pool' = [pool EXCEPT ![OneHome[r]] = [pool[OneHome[r]] EXCEPT !.idle = idle, !.used = pool[OneHome[r]].used - 1]]
      BY <1>0, <1>1, <1>7, <2>1 DEF Pool!Put, Pool!P, OneHome
    <2>4. poolReq' = [poolReq EXCEPT ![r] = IF Len(poolReq[r].conns) = 1 THEN NoAsking
            ELSE [poolReq[r] EXCEPT !.conns = SubSeq(poolReq[r].conns, 1, Len(poolReq[r].conns) - 1), !.at = to]]
      BY <1>7, Zenon DEF Pool!Dropped, Pool!Idle, NoAsking
    <2>5. GivesBack(OneHome, r, idle, to)
      BY <1>7, <2>3, <2>4 DEF GivesBack
    <2> QED BY <1>0, <2>2, <2>5, PoolGiven
  <1>8. CASE Pool!Release(r)
    <2>1. poolReq[r].conns # <<>>
      BY <1>8 DEF Pool!Release, PoolInv, AskingFits
    <2> QED BY <1>7, <1>8, <2>1 DEF Pool!Release
  <1>9. CASE Pool!Unwind(r)
    <2>1. CASE poolReq[r].conns = <<>> /\ poolReq' = [poolReq EXCEPT ![r] = Pool!Idle] /\ UNCHANGED <<pool, restarts>>
      <3>1. PICK q : q = NoAsking
        OBVIOUS
      <3>2. q \in Asking /\ q.conns = <<>> /\ q.at = "idle"
        BY <3>1, EmptySeq DEF Asking, NoAsking
      <3>3. poolReq' = [poolReq EXCEPT ![r] = q] /\ q.conns = poolReq[r].conns /\ UNCHANGED <<pool, restarts>>
        BY <2>1, <3>1, <3>2 DEF Pool!Idle, NoAsking
      <3> QED BY <1>0, <3>2, <3>3, PoolGone
    <2>2. CASE poolReq[r].conns # <<>> /\ Pool!Put(r) /\ Pool!Dropped(r, {"use", "unwind"}) /\ restarts' = restarts
      <3>1. PICK to \in {"use", "unwind"} : Pool!Dropped(r, {to})
        BY <2>2 DEF Pool!Dropped
      <3> QED BY <1>7, <2>2, <3>1
    <2> QED BY <1>9, <2>1, <2>2 DEF Pool!Unwind
  <1> QED BY <1>3, <1>6, <1>8, <1>9

\* Every step keeps it.
LEMMA PoolNext == ASSUME PoolInv({p1}, OneHome), [Pool!Next]_poolData PROVE PoolInv({p1}, OneHome)'
  <1>1. CASE UNCHANGED poolData
    BY <1>1 DEF poolData, PoolInv, PoolTypes
  <1>2. ASSUME NEW r \in Actor, Pool!Begin(r) \/ Pool!Step(r) PROVE PoolInv({p1}, OneHome)'
    BY <1>2, PoolAsks, PoolTakes DEF Pool!Step
  <1>3. CASE Pool!ServerRestarts
    <2>1. PoolDies({p1})
      BY <1>3 DEF Pool!ServerRestarts, PoolDies
    <2>2. OneHome \in [Actor -> {p1}]
      BY DEF OneHome
    <2> QED BY <2>1, <2>2, PoolRestarted
  <1> QED BY <1>1, <1>2, <1>3 DEF Pool!Next

\* Nobody has asked yet.
LEMMA PoolStarts == ASSUME Pool!Init PROVE PoolInv({p1}, OneHome)
  <1>1. /\ pool \in [{p1} -> PoolRow] /\ restarts \in Nat /\ poolReq = [r \in Actor |-> NoAsking]
        /\ \A p \in {p1} : pool[p].made = 0 /\ pool[p].used = 0
    BY DEF Pool!Init, Pool!Idle, NoAsking, PoolRow
  <1>2. NoAsking \in Asking /\ NoAsking.conns = <<>> /\ NoAsking.at = "idle" /\ DOMAIN NoAsking.conns = {}
    BY EmptySeq DEF NoAsking, Asking
  <1>3. poolReq \in [Actor -> Asking]
    BY <1>1, <1>2
  <1>4. ASSUME NEW p \in {p1} PROVE HeldOf(poolReq, OneHome, p) = {}
    BY <1>1, <1>2 DEF HeldOf
  <1>5. ASSUME NEW p \in {p1} PROVE PoolCounts(pool[p], HeldOf(poolReq, OneHome, p))
    BY <1>1, <1>4, FS_EmptySet DEF PoolCounts
  <1>6. ASSUME NEW r \in Actor PROVE AskingFits(poolReq[r], pool[OneHome[r]].made)
    BY <1>1, <1>2 DEF AskingFits
  <1> QED BY <1>1, <1>3, <1>5, <1>6 DEF PoolInv, PoolTypes

\* So what a pool counts as used is held.
LEMMA PoolHolds == ASSUME PoolInv({p1}, OneHome) PROVE Pool!NoLeak /\ Pool!OnePool
  <1>1. ASSUME NEW p \in {p1} PROVE pool[p].made <= 1 /\ pool[p].used = Cardinality(HeldOf(poolReq, OneHome, p))
    BY DEF PoolInv, PoolCounts
  <1>2. ASSUME NEW p \in {p1} PROVE Pool!HeldIn(p) = HeldOf(poolReq, OneHome, p)
    BY Zenon DEF Pool!HeldIn, HeldOf, OneHome
  <1>3. \A p \in {p1} : pool[p].used = Cardinality(Pool!HeldIn(p))
    BY <1>1, <1>2
  <1>4. Pool!NoLeak
    BY <1>3, Zenon DEF Pool!NoLeak, Pool!Cardinality, Cardinality
  <1> QED BY <1>1, <1>4 DEF Pool!OnePool

\* A request of the pools of two processes keeps the count.
LEMMA FullPoolAsks ==
  ASSUME PoolInv({p1, p2}, TwoHomes), NEW r \in Actor, FullPool!Begin(r) \/ FullPool!LookPool(r) \/ FullPool!Use(r)
  PROVE  PoolInv({p1, p2}, TwoHomes)'
  <1>0. TwoHomes \in [Actor -> {p1, p2}] /\ poolReq \in [Actor -> Asking] /\ poolReq[r] \in Asking
    BY DEF PoolInv, PoolTypes, TwoHomes
  <1>1. CASE FullPool!Begin(r)
    <2>1. PICK q : q = [NoAsking EXCEPT !.at = "pool", !.left = 1]
      OBVIOUS
    <2>2. q \in Asking /\ q.conns = <<>> /\ q.at = "pool"
      BY <2>1, EmptySeq DEF Asking, NoAsking
    <2>3. poolReq[r] = NoAsking /\ poolReq' = [poolReq EXCEPT ![r] = q] /\ UNCHANGED <<pool, restarts>>
      BY <1>1, <2>1 DEF FullPool!Begin, FullPool!Idle, NoAsking
    <2>4. poolReq[r].conns = <<>>
      BY <2>3 DEF NoAsking
    <2> QED BY <1>0, <2>2, <2>3, <2>4, PoolGone
  <1>2. CASE FullPool!LookPool(r)
    <2>1. PICK a \in {"acquire", "lock"} : /\ poolReq' = [poolReq EXCEPT ![r].at = a] /\ UNCHANGED <<pool, restarts>>
                                           /\ a = "acquire" => pool[TwoHomes[r]].made > 0
      BY <1>2 DEF FullPool!LookPool, FullPool!Go, FullPool!P, TwoHomes
    <2> QED BY <1>0, <2>1, PoolWent
  <1>3. CASE FullPool!Use(r)
    <2>1. UNCHANGED <<pool, restarts>> /\ poolReq[r].at = "use" /\ poolReq[r].conns # <<>>
      BY <1>3 DEF FullPool!Use, PoolInv, AskingFits
    <2>2. CASE FullPool!Go(r, "release") \/ FullPool!Go(r, "unwind")
      <3>1. PICK a \in {"release", "unwind"} : poolReq' = [poolReq EXCEPT ![r].at = a]
        BY <2>2 DEF FullPool!Go
      <3> QED BY <1>0, <2>1, <3>1, PoolWent
    <2>3. CASE poolReq[r].left > 0 /\ poolReq' = [poolReq EXCEPT ![r].at = "acquire", ![r].left = @ - 1]
      <3>1. PICK q : q = [poolReq[r] EXCEPT !.at = "acquire", !.left = poolReq[r].left - 1]
        OBVIOUS
      <3>2. poolReq[r].left - 1 \in Nat
        BY <1>0, <2>3 DEF Asking
      <3>3. q \in Asking /\ q.conns = poolReq[r].conns /\ q.at = "acquire"
        BY <1>0, <3>1, <3>2 DEF Asking
      <3>4. poolReq' = [poolReq EXCEPT ![r] = q]
        BY <1>0, <2>3, <3>1
      <3> QED BY <1>0, <2>1, <3>3, <3>4, PoolGone
    <2> QED BY <1>3, <2>2, <2>3 DEF FullPool!Use
  <1> QED BY <1>1, <1>2, <1>3

\* It makes the pool, takes a connection or gives one back.
LEMMA FullPoolTakes ==
  ASSUME PoolInv({p1, p2}, TwoHomes), NEW r \in Actor,
         FullPool!CreatePool(r) \/ FullPool!Acquire(r) \/ FullPool!Release(r) \/ FullPool!Unwind(r)
  PROVE  PoolInv({p1, p2}, TwoHomes)'
  <1>0. /\ TwoHomes \in [Actor -> {p1, p2}] /\ poolReq \in [Actor -> Asking] /\ poolReq[r] \in Asking
        /\ pool \in [{p1, p2} -> PoolRow] /\ TwoHomes[r] \in {p1, p2}
    BY DEF PoolInv, PoolTypes, TwoHomes
  <1>1. PICK old \in PoolRow : old = pool[TwoHomes[r]]
    BY <1>0
  <1>2. ASSUME NEW a \in {"lock", "acquire", "unwind"}, FullPool!Go(r, a), UNCHANGED <<pool, restarts>>,
               a = "acquire" => old.made > 0
        PROVE  PoolInv({p1, p2}, TwoHomes)'
    BY <1>0, <1>1, <1>2, PoolWent DEF FullPool!Go
  <1>3. CASE FullPool!CreatePool(r)
    <2>1. CASE pool' = [pool EXCEPT ![TwoHomes[r]] = FullPool!Made(r)] /\ FullPool!Go(r, "acquire") /\ old.made = 0
      <3>1. PICK row : row = FullPool!Made(r)
        OBVIOUS
      <3>2. row = [made |-> old.made + 1, idle |-> 1, dead |-> 0, used |-> 0]
        BY <1>1, <3>1 DEF FullPool!Made, FullPool!P, TwoHomes
      <3>3. row \in PoolRow /\ row.made = 1 /\ row.used = 0
        BY <2>1, <3>2 DEF PoolRow
      <3>4. pool' = [pool EXCEPT ![TwoHomes[r]] = row] /\ restarts' = restarts /\ poolReq[r].at = "lock"
        BY <1>3, <2>1, <3>1 DEF FullPool!CreatePool
      <3>5. poolReq' = [poolReq EXCEPT ![r].at = "acquire"] /\ pool[TwoHomes[r]].made = 0
        BY <1>1, <2>1 DEF FullPool!Go
      <3> QED BY <1>0, <3>3, <3>4, <3>5, PoolMade
    <2> QED BY <1>1, <1>2, <1>3, <2>1 DEF FullPool!CreatePool, FullPool!P, TwoHomes
  <1>4. ASSUME NEW alive \in Flags, NEW row \in PoolRow, FullPool!Acquire(r), row.made = old.made, row.used = old.used + 1,
               pool' = [pool EXCEPT ![TwoHomes[r]] = row],
               poolReq' = [poolReq EXCEPT ![r].conns = Append(@, alive), ![r].at = "use"]
        PROVE  PoolInv({p1, p2}, TwoHomes)'
    BY <1>0, <1>1, <1>4, PoolTaken DEF FullPool!Acquire
  <1>5. PICK yes \in Flags, no \in Flags : yes = TRUE /\ no = FALSE
    BY DEF Flags
  <1>6. CASE FullPool!Acquire(r)
    <2>1. CASE FullPool!Take(r, "idle", TRUE)
      <3>1. PICK row : row = [old EXCEPT !.idle = old.idle - 1, !.used = old.used + 1]
        OBVIOUS
      <3>2. old.idle - 1 \in Nat /\ old.used + 1 \in Nat
        BY <1>1, <2>1 DEF FullPool!Take, FullPool!P, TwoHomes, PoolRow
      <3>3. row \in PoolRow /\ row.made = old.made /\ row.used = old.used + 1
        BY <3>1, <3>2 DEF PoolRow
      <3>4. pool' = [pool EXCEPT ![TwoHomes[r]] = row]
        BY <1>0, <1>1, <2>1, <3>1 DEF FullPool!Take, TwoHomes
      <3>5. poolReq' = [poolReq EXCEPT ![r].conns = Append(@, yes), ![r].at = "use"]
        BY <1>5, <2>1 DEF FullPool!Take
      <3> QED BY <1>4, <1>6, <3>3, <3>4, <3>5
    <2>2. CASE FullPool!Take(r, "dead", FALSE)
      <3>1. PICK row : row = [old EXCEPT !.dead = old.dead - 1, !.used = old.used + 1]
        OBVIOUS
      <3>2. old.dead - 1 \in Nat /\ old.used + 1 \in Nat
        BY <1>1, <2>2 DEF FullPool!Take, FullPool!P, TwoHomes, PoolRow
      <3>3. row \in PoolRow /\ row.made = old.made /\ row.used = old.used + 1
        BY <3>1, <3>2 DEF PoolRow
      <3>4. pool' = [pool EXCEPT ![TwoHomes[r]] = row]
        BY <1>0, <1>1, <2>2, <3>1 DEF FullPool!Take, TwoHomes
      <3>5. poolReq' = [poolReq EXCEPT ![r].conns = Append(@, no), ![r].at = "use"]
        BY <1>5, <2>2 DEF FullPool!Take
      <3> QED BY <1>4, <1>6, <3>3, <3>4, <3>5
    <2>3. CASE FullPool!Connect(r)
      <3>1. PICK row : row = [old EXCEPT !.used = old.used + 1]
        OBVIOUS
      <3>2. old.used + 1 \in Nat
        BY DEF PoolRow
      <3>3. row \in PoolRow /\ row.made = old.made /\ row.used = old.used + 1
        BY <3>1, <3>2 DEF PoolRow
      <3>4. pool' = [pool EXCEPT ![TwoHomes[r]] = row]
        BY <1>0, <1>1, <2>3, <3>1 DEF FullPool!Connect, TwoHomes
      <3>5. poolReq' = [poolReq EXCEPT ![r].conns = Append(@, yes), ![r].at = "use"]
        BY <1>5, <2>3 DEF FullPool!Connect
      <3> QED BY <1>4, <1>6, <3>3, <3>4, <3>5
    <2> QED BY <1>2, <1>6, <2>1, <2>2, <2>3 DEF FullPool!Acquire
  <1>7. ASSUME NEW to \in {"use", "unwind"}, poolReq[r].conns # <<>>, FullPool!Put(r), FullPool!Dropped(r, {to}), restarts' = restarts
        PROVE  PoolInv({p1, p2}, TwoHomes)'
    <2>1. PICK idle : idle = IF FullPool!Alive(r) /\ old.idle + old.dead < 1 THEN old.idle + 1 ELSE old.idle
      OBVIOUS
    <2>2. idle \in Nat
      BY <2>1 DEF PoolRow
    <2>3. pool' = [pool EXCEPT ![TwoHomes[r]] = [pool[TwoHomes[r]] EXCEPT !.idle = idle, !.used = pool[TwoHomes[r]].used - 1]]
      BY <1>0, <1>1, <1>7, <2>1 DEF FullPool!Put, FullPool!P, TwoHomes
    <2>4. poolReq' = [poolReq EXCEPT ![r] = IF Len(poolReq[r].conns) = 1 THEN NoAsking
            ELSE [poolReq[r] EXCEPT !.conns = SubSeq(poolReq[r].conns, 1, Len(poolReq[r].conns) - 1), !.at = to]]
      BY <1>7, Zenon DEF FullPool!Dropped, FullPool!Idle, NoAsking
    <2>5. GivesBack(TwoHomes, r, idle, to)
      BY <1>7, <2>3, <2>4 DEF GivesBack
    <2> QED BY <1>0, <2>2, <2>5, PoolGiven
  <1>8. CASE FullPool!Release(r)
    <2>1. poolReq[r].conns # <<>>
      BY <1>8 DEF FullPool!Release, PoolInv, AskingFits
    <2> QED BY <1>7, <1>8, <2>1 DEF FullPool!Release
  <1>9. CASE FullPool!Unwind(r)
    <2>1. CASE poolReq[r].conns = <<>> /\ poolReq' = [poolReq EXCEPT ![r] = FullPool!Idle] /\ UNCHANGED <<pool, restarts>>
      <3>1. PICK q : q = NoAsking
        OBVIOUS
      <3>2. q \in Asking /\ q.conns = <<>> /\ q.at = "idle"
        BY <3>1, EmptySeq DEF Asking, NoAsking
      <3>3. poolReq' = [poolReq EXCEPT ![r] = q] /\ q.conns = poolReq[r].conns /\ UNCHANGED <<pool, restarts>>
        BY <2>1, <3>1, <3>2 DEF FullPool!Idle, NoAsking
      <3> QED BY <1>0, <3>2, <3>3, PoolGone
    <2>2. CASE poolReq[r].conns # <<>> /\ FullPool!Put(r) /\ FullPool!Dropped(r, {"use", "unwind"}) /\ restarts' = restarts
      <3>1. PICK to \in {"use", "unwind"} : FullPool!Dropped(r, {to})
        BY <2>2 DEF FullPool!Dropped
      <3> QED BY <1>7, <2>2, <3>1
    <2> QED BY <1>9, <2>1, <2>2 DEF FullPool!Unwind
  <1> QED BY <1>3, <1>6, <1>8, <1>9

\* Every step keeps it.
LEMMA FullPoolNext == ASSUME PoolInv({p1, p2}, TwoHomes), [FullPool!Next]_poolData PROVE PoolInv({p1, p2}, TwoHomes)'
  <1>1. CASE UNCHANGED poolData
    BY <1>1 DEF poolData, PoolInv, PoolTypes
  <1>2. ASSUME NEW r \in Actor, FullPool!Begin(r) \/ FullPool!Step(r) PROVE PoolInv({p1, p2}, TwoHomes)'
    BY <1>2, FullPoolAsks, FullPoolTakes DEF FullPool!Step
  <1>3. CASE FullPool!ServerRestarts
    <2>1. PoolDies({p1, p2})
      BY <1>3 DEF FullPool!ServerRestarts, PoolDies
    <2>2. TwoHomes \in [Actor -> {p1, p2}]
      BY DEF TwoHomes
    <2> QED BY <2>1, <2>2, PoolRestarted
  <1> QED BY <1>1, <1>2, <1>3 DEF FullPool!Next

\* Nobody has asked yet.
LEMMA FullPoolStarts == ASSUME FullPool!Init PROVE PoolInv({p1, p2}, TwoHomes)
  <1>1. /\ pool \in [{p1, p2} -> PoolRow] /\ restarts \in Nat /\ poolReq = [r \in Actor |-> NoAsking]
        /\ \A p \in {p1, p2} : pool[p].made = 0 /\ pool[p].used = 0
    BY DEF FullPool!Init, FullPool!Idle, NoAsking, PoolRow
  <1>2. NoAsking \in Asking /\ NoAsking.conns = <<>> /\ NoAsking.at = "idle" /\ DOMAIN NoAsking.conns = {}
    BY EmptySeq DEF NoAsking, Asking
  <1>3. poolReq \in [Actor -> Asking]
    BY <1>1, <1>2
  <1>4. ASSUME NEW p \in {p1, p2} PROVE HeldOf(poolReq, TwoHomes, p) = {}
    BY <1>1, <1>2 DEF HeldOf
  <1>5. ASSUME NEW p \in {p1, p2} PROVE PoolCounts(pool[p], HeldOf(poolReq, TwoHomes, p))
    BY <1>1, <1>4, FS_EmptySet DEF PoolCounts
  <1>6. ASSUME NEW r \in Actor PROVE AskingFits(poolReq[r], pool[TwoHomes[r]].made)
    BY <1>1, <1>2 DEF AskingFits
  <1> QED BY <1>1, <1>3, <1>5, <1>6 DEF PoolInv, PoolTypes

\* So what a pool counts as used is held.
LEMMA FullPoolHolds == ASSUME PoolInv({p1, p2}, TwoHomes) PROVE FullPool!NoLeak /\ FullPool!OnePool
  <1>1. ASSUME NEW p \in {p1, p2} PROVE pool[p].made <= 1 /\ pool[p].used = Cardinality(HeldOf(poolReq, TwoHomes, p))
    BY DEF PoolInv, PoolCounts
  <1>2. ASSUME NEW p \in {p1, p2} PROVE FullPool!HeldIn(p) = HeldOf(poolReq, TwoHomes, p)
    BY Zenon DEF FullPool!HeldIn, HeldOf, TwoHomes
  <1>3. \A p \in {p1, p2} : pool[p].used = Cardinality(FullPool!HeldIn(p))
    BY <1>1, <1>2
  <1>4. FullPool!NoLeak
    BY <1>3, Zenon DEF FullPool!NoLeak, FullPool!Cardinality, Cardinality
  <1> QED BY <1>1, <1>4 DEF FullPool!OnePool

\* A pool has more dead connections after a restart of the server only.
LEMMA DeadStay ==
  ASSUME PoolInv({p1}, OneHome), [Pool!Next]_poolData
  PROVE  Pool!DeadNotKept
  <1>0. /\ pool \in [{p1} -> PoolRow] /\ restarts \in Nat /\ \A r \in Actor : OneHome[r] = p1
    BY DEF PoolInv, PoolTypes, OneHome
  <1>1. PICK old \in PoolRow : old = pool[p1]
    BY <1>0
  <1>2. CASE pool' = pool
    BY <1>0, <1>1, <1>2 DEF Pool!DeadNotKept, PoolRow
  <1>3. CASE Pool!ServerRestarts
    <2>1. restarts' = restarts + 1
      BY <1>3, Zenon DEF Pool!ServerRestarts
    <2> QED BY <1>0, <2>1 DEF Pool!DeadNotKept
  <1>4. ASSUME NEW row, pool' = [pool EXCEPT ![p1] = row], row.dead \in Nat, row.dead <= old.dead PROVE Pool!DeadNotKept
    BY <1>0, <1>1, <1>4 DEF Pool!DeadNotKept, PoolRow
  <1>5. ASSUME NEW r \in Actor, Pool!CreatePool(r) PROVE Pool!DeadNotKept
    <2>1. PICK row : row = Pool!Made(r)
      OBVIOUS
    <2>2. row.dead = 0 /\ 0 <= old.dead /\ row.dead \in Nat
      BY <2>1 DEF Pool!Made, PoolRow
    <2>3. pool' = pool \/ pool' = [pool EXCEPT ![p1] = row]
      BY <1>0, <1>5, <2>1 DEF Pool!CreatePool, OneHome
    <2> QED BY <1>2, <1>4, <2>2, <2>3
  <1>6. ASSUME NEW r \in Actor, Pool!Acquire(r), pool' # pool PROVE Pool!DeadNotKept
    <2>1. CASE Pool!Take(r, "idle", TRUE)
      <3>1. PICK row : row = [old EXCEPT !.idle = old.idle - 1, !.used = old.used + 1]
        OBVIOUS
      <3>2. pool' = [pool EXCEPT ![p1] = row]
        BY <1>0, <1>1, <2>1, <3>1 DEF Pool!Take, OneHome
      <3>3. row.dead \in Nat /\ row.dead <= old.dead
        BY <3>1 DEF PoolRow
      <3> QED BY <1>4, <3>2, <3>3
    <2>2. CASE Pool!Take(r, "dead", FALSE)
      <3>1. PICK row : row = [old EXCEPT !.dead = old.dead - 1, !.used = old.used + 1]
        OBVIOUS
      <3>2. pool' = [pool EXCEPT ![p1] = row]
        BY <1>0, <1>1, <2>2, <3>1 DEF Pool!Take, OneHome
      <3>3. row.dead \in Nat /\ row.dead <= old.dead
        BY <1>0, <1>1, <2>2, <3>1 DEF PoolRow, Pool!Take, Pool!P, OneHome
      <3> QED BY <1>4, <3>2, <3>3
    <2>3. CASE Pool!Connect(r)
      <3>1. PICK row : row = [old EXCEPT !.used = old.used + 1]
        OBVIOUS
      <3>2. pool' = [pool EXCEPT ![p1] = row]
        BY <1>0, <1>1, <2>3, <3>1 DEF Pool!Connect, OneHome
      <3>3. row.dead \in Nat /\ row.dead <= old.dead
        BY <3>1 DEF PoolRow
      <3> QED BY <1>4, <3>2, <3>3
    <2> QED BY <1>6, <2>1, <2>2, <2>3 DEF Pool!Acquire
  <1>7. ASSUME NEW r \in Actor, Pool!Put(r) PROVE Pool!DeadNotKept
    <2>1. PICK idle : idle = IF Pool!Alive(r) /\ old.idle + old.dead < 1 THEN old.idle + 1 ELSE old.idle
      OBVIOUS
    <2>2. PICK row : row = [old EXCEPT !.idle = idle, !.used = old.used - 1]
      OBVIOUS
    <2>3. pool' = [pool EXCEPT ![p1] = row]
      BY <1>0, <1>1, <1>7, <2>1, <2>2 DEF Pool!Put, Pool!P, OneHome
    <2>4. row.dead \in Nat /\ row.dead <= old.dead
      BY <2>2 DEF PoolRow
    <2> QED BY <1>4, <2>3, <2>4
  <1> QED BY <1>2, <1>3, <1>5, <1>6, <1>7
          DEF Pool!Next, Pool!Step, Pool!Begin, Pool!LookPool, Pool!Use, Pool!Release, Pool!Unwind, poolData

-----------------------------------------------------------------------------
(* The parts together: what the part that runs keeps.                      *)

PartsInv ==
  /\ part = "boot" => BootInv
  /\ part = "pool" => PoolInv({p1}, OneHome)
  /\ part = "full pool" => PoolInv({p1, p2}, TwoHomes)
  /\ part = "tasks" => QuietInv
  /\ part = "faulty tasks" => FirstInv
  /\ part = "breaker" => BreakerInv
  /\ part = "lone breaker" => LoneInv
  /\ part = "retries" => RetryInv

\* Every part starts with its invariant.
LEMMA PartsStart == ASSUME AllInit PROVE PartsInv
  <1>1. part = "boot" => BootInv
    BY BootStarts, Zenon
  <1>2. part = "pool" => PoolInv({p1}, OneHome)
    <2>1. part = "pool" => Pool!Init
      BY DEF AllInit
    <2> QED BY <2>1, PoolStarts, Zenon
  <1>3. part = "full pool" => PoolInv({p1, p2}, TwoHomes)
    <2>1. part = "full pool" => FullPool!Init
      BY Zenon DEF AllInit
    <2> QED BY <2>1, FullPoolStarts, Zenon
  <1>4. QuietInv /\ FirstInv
    <2>1. Tasks!Init
      BY Zenon DEF AllInit
    <2> QED BY <2>1, QuietStarts, Zenon
  <1>5. part = "breaker" => BreakerInv
    BY BreakerStarts, Zenon
  <1>6. part = "lone breaker" => LoneInv
    BY LoneStarts, Zenon
  <1>8. RetryInv
    BY RetryStarts, Zenon
  <1> QED BY <1>1, <1>2, <1>3, <1>4, <1>5, <1>6, <1>8, Zenon DEF PartsInv

\* Every step keeps the invariant of its part, and what no step may break.
LEMMA PartsNext ==
  ASSUME PartsInv, [AllNext]_<<part, data>>
  PROVE  /\ PartsInv'
         /\ part = "faulty tasks" => FaultyTasks!EndedStays
         /\ part = "pool" => Pool!DeadNotKept
         /\ part = "breaker" => Breaker!OnlyLateSuccess /\ Breaker!ProbeDecides
         /\ part = "lone breaker" => LoneBreaker!BlockedSince
  <1>1. part' = part
    BY PartStep
  <1>2. part = "boot" => BootInv'
    BY PartStep, BootNext, Zenon DEF PartsInv
  <1>3. part = "pool" => PoolInv({p1}, OneHome)' /\ Pool!DeadNotKept
    BY PartStep, PoolNext, DeadStay, Zenon DEF PartsInv
  <1>4. part = "full pool" => PoolInv({p1, p2}, TwoHomes)'
    BY PartStep, FullPoolNext, Zenon DEF PartsInv
  <1>5. part = "tasks" => QuietInv'
    BY PartStep, QuietNext, Zenon DEF PartsInv
  <1>6. part = "faulty tasks" => FirstInv' /\ FaultyTasks!EndedStays
    BY PartStep, FirstNext, Zenon DEF PartsInv
  <1>7. part = "breaker" => BreakerInv' /\ Breaker!OnlyLateSuccess /\ Breaker!ProbeDecides
    BY PartStep, BreakerNext, BreakerDecides, Zenon DEF PartsInv
  <1>8. part = "lone breaker" => LoneInv' /\ LoneBreaker!BlockedSince
    BY PartStep, LoneNext, Zenon DEF PartsInv
  <1>10. part = "retries" => RetryInv'
    BY PartStep, RetryNext, Zenon DEF PartsInv
  <1>11. PartsInv'
    BY <1>1, <1>2, <1>3, <1>4, <1>5, <1>6, <1>7, <1>8, <1>10, Zenon DEF PartsInv
  <1> QED BY <1>3, <1>6, <1>7, <1>8, <1>11, Zenon

\* The invariants of the parts are what each of them promises.
LEMMA PartsHold == ASSUME PartsInv PROVE ProcessesHold
  <1>1. part = "boot" => Boot!MovedOnce /\ Boot!UpIsRepaired
    BY BootHolds, Zenon DEF PartsInv
  <1>2. part = "pool" => Pool!OnePool /\ Pool!NoLeak
    BY PoolHolds, Zenon DEF PartsInv
  <1>3. part = "full pool" => FullPool!NoLeak
    BY FullPoolHolds, Zenon DEF PartsInv
  <1>4. part = "tasks" => Tasks!TypeOK /\ Tasks!DoneHasResult
    BY QuietHolds, Zenon DEF PartsInv
  <1>5. part = "faulty tasks" => FaultyTasks!AnsweredIsOver /\ FaultyTasks!DoneHasResult
    BY TaskHolds, Zenon DEF PartsInv, FirstInv
  <1>6. part = "breaker" => Breaker!TypeOK
    BY BreakerHolds, Zenon DEF PartsInv
  <1>8. part = "retries" => Retries!TypeOK /\ Retries!RetryOfFailed
    BY RetryHolds, Zenon DEF PartsInv
  <1> QED BY <1>1, <1>2, <1>3, <1>4, <1>5, <1>6, <1>8, Zenon DEF ProcessesHold

\* For any number of processes, requests, tasks, callers and jobs: the schema
\* is repaired once, no connection leaks, what is done has its result, a retry
\* is of a job that failed (db.py, main.py, tasks/, circuit_breaker.py,
\* jobs/repo.py).
THEOREM AllProcessesHold == AllSpec => []ProcessesHold
  <1>1. AllInit => PartsInv
    BY PartsStart
  <1>2. PartsInv /\ [AllNext]_<<part, data>> => PartsInv'
    BY PartsNext
  <1>3. PartsInv => ProcessesHold
    BY PartsHold
  <1> QED BY <1>1, <1>2, <1>3, PTL DEF AllSpec

\* For any number of them: until a whole process dies no step undoes the end of
\* a run, whatever fails and whichever children are lost; none keeps a connection
\* that died; an open breaker is closed before its time only by the late success
\* of a call let through before, and a probe decides, whatever other calls do
\* meanwhile (tasks/, db.py, circuit_breaker.py).
THEOREM AllStepsKeep == AllSpec => StepsKeep
  <1>1. AllInit => PartsInv
    BY PartsStart
  <1>2. PartsInv /\ [AllNext]_<<part, data>> => PartsInv'
    BY PartsNext
  <1>3. PartsInv /\ [AllNext]_<<part, data>> =>
          /\ part = "faulty tasks" => FaultyTasks!EndedStays
          /\ part = "pool" => Pool!DeadNotKept
          /\ part = "breaker" => Breaker!OnlyLateSuccess /\ Breaker!ProbeDecides
          /\ part = "lone breaker" => LoneBreaker!BlockedSince
    BY PartsNext
  <1> QED BY <1>1, <1>2, <1>3, PTL DEF AllSpec, StepsKeep
=============================================================================
