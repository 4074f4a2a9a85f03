---------------------------- MODULE MCProcesses ----------------------------
(***************************************************************************)
(* Processes and what they wait for: their start, the connections to the   *)
(* database, Celery tasks, the circuit breaker, retries of failed jobs;    *)
(* and of other components the requests that have to end.                  *)
(* They share nothing, so that a behaviour of all is one of each; the      *)
(* variable part says which of them runs.  The actors of all have the same *)
(* names.                                                                  *)
(***************************************************************************)
EXTENDS Naturals

CONSTANTS Parts,                              \* which parts a run takes
          Actor,                              \* processes, requests, tasks, callers
          Couple,                             \* two of them
          x1, x3,                             \* one of the two, and a third
          Deaths,                             \* bound on the processes that die
          Connections,                        \* that the server takes
          Jobs,                               \* rows of the jobs table
          RunKinds, RunFaults,                \* simulations that are run, and what may go wrong
          p1, p2, n1, n2, n3, b1, b2, b3, NoBasis

VARIABLES part,
          at, todo, did, legacy, copies, lock, seeded, crashes, fails,
          pool, poolReq, restarts,
          run, msg, step, runCrashes,
          state, failures, age, call,
          jobs, retry, failedOnce,
          status, version, drafting, tx, design,
          recent, parent, home, treeReq,
          modStatus, criteria, outdated, silent, proc, crossed,
          sections, streams, pub, snaps, cache, balanceReq

-----------------------------------------------------------------------------
(* The components under the constants of their parts.                      *)
Boot == INSTANCE Startup WITH Workers <- Actor, MaxCrashes <- Deaths, MaxFails <- 0

Pool == INSTANCE ConnectionPool WITH req <- poolReq,
  Processes <- {p1}, Requests <- Actor, Home <- [r \in Actor |-> p1],
  MaxConnections <- Connections, NumServices <- 3, MinConn <- 1, Calls <- 1, MaxRestarts <- 1
FullPool == INSTANCE ConnectionPool WITH req <- poolReq,
  Processes <- {p1, p2}, Requests <- Actor, Home <- [r \in Actor |-> IF r = x1 THEN p1 ELSE p2],
  MaxConnections <- 2, NumServices <- 3, MinConn <- 1, Calls <- 1, MaxRestarts <- 1

Tasks == INSTANCE CeleryRuns WITH crashes <- runCrashes, Runs <- Couple,
  Kinds <- RunKinds \ {"sweep"}, Faults <- RunFaults \cap {"engine"}, MaxCrashes <- 0
DyingTasks == INSTANCE CeleryRuns WITH crashes <- runCrashes, Runs <- Couple,
  Kinds <- RunKinds \ {"sync", "sweep"}, Faults <- RunFaults \cap {"engine"}, MaxCrashes <- 2
FaultyTasks == INSTANCE CeleryRuns WITH crashes <- runCrashes, Runs <- Couple,
  Kinds <- RunKinds, Faults <- RunFaults, MaxCrashes <- Deaths

Breaker == INSTANCE CircuitBreaker WITH Callers <- Actor, Threshold <- 2, Recovery <- 3
LoneBreaker == INSTANCE CircuitBreaker WITH Callers <- {x1}, Threshold <- 5, Recovery <- 20

Retries == INSTANCE JobRetry WITH request <- retry,
  Job <- Jobs, Request <- Couple, Purging <- TRUE

Activations == INSTANCE DesignBasis WITH
  Basis <- {b1, b2, b3}, Author <- {x1}, Manager <- Actor, Design <- {}, Faults <- FALSE

Edits == INSTANCE FlowsheetTree WITH req <- treeReq,
  Node <- {n1, n2, n3}, Catalogue <- {"cil"}, Size <- 2, Request <- {x1},
  Kinds <- {"add", "patch", "unroot", "delete", "apply"}

Regenerations == INSTANCE Pipeline WITH status <- modStatus,
  Module <- {"design_criteria", "mass_balance"}, Proc <- Couple,
  Requests <- {"edit", "regenerate"}, Crashes <- FALSE

Dashboards == INSTANCE MassBalance WITH req <- balanceReq,
  Processes <- Couple, Requests <- {p1}, Kinds <- {"generate", "dashboard"},
  Filled <- TRUE, MaxGen <- 3, MaxVersion <- 1

(* What the components assume of the constants above.                      *)
ASSUME ProcessConstants ==
  /\ x1 \in Couple /\ Couple \subseteq Actor \ {x3}
  /\ Boot!StartupConstants /\ Pool!PoolConstants /\ FullPool!PoolConstants
  /\ Tasks!CeleryConstants /\ DyingTasks!CeleryConstants /\ FaultyTasks!CeleryConstants
  /\ Breaker!BreakerConstants /\ LoneBreaker!BreakerConstants /\ Retries!RetryAssumption
  /\ Activations!BasisAssumption /\ Edits!TreeAssumption
  /\ Regenerations!PipelineAssumption /\ Dashboards!MassBalanceConstants

-----------------------------------------------------------------------------
(* Which part may change which data.                                       *)
Rest ==
  /\ UNCHANGED part
  /\ IF part = "boot" THEN TRUE
     ELSE UNCHANGED <<at, todo, did, legacy, copies, lock, seeded, crashes, fails>>
  /\ IF part \in {"pool", "full pool"} THEN TRUE ELSE UNCHANGED <<pool, poolReq, restarts>>
  /\ IF part \in {"tasks", "dying tasks", "faulty tasks"} THEN TRUE
     ELSE UNCHANGED <<run, msg, step, runCrashes>>
  /\ IF part \in {"breaker", "lone breaker"} THEN TRUE ELSE UNCHANGED <<state, failures, age, call>>
  /\ IF part = "retries" THEN TRUE ELSE UNCHANGED <<jobs, retry, failedOnce>>
  /\ IF part = "activations" THEN TRUE ELSE UNCHANGED <<status, version, drafting, tx, design>>
  /\ IF part = "edits" THEN TRUE ELSE UNCHANGED <<recent, parent, home, treeReq>>
  /\ IF part = "regenerations" THEN TRUE
     ELSE UNCHANGED <<modStatus, criteria, outdated, silent, proc, crossed>>
  /\ IF part = "dashboards" THEN TRUE
     ELSE UNCHANGED <<sections, streams, pub, snaps, cache, balanceReq>>

AllInit ==
  /\ part \in Parts
  /\ IF part = "boot" THEN Boot!Init
     ELSE /\ at = {} /\ todo = {} /\ did = {} /\ legacy = FALSE /\ copies = 0
          /\ lock = "none" /\ seeded = FALSE /\ crashes = 0 /\ fails = 0
  /\ IF part = "full pool" THEN FullPool!Init ELSE Pool!Init
  /\ IF part = "lone breaker" THEN LoneBreaker!Init ELSE Breaker!Init
  /\ Tasks!Init /\ Retries!Init
  /\ Activations!Init /\ Edits!Init /\ Regenerations!Init /\ Dashboards!Init

BootStep == part = "boot" /\ Boot!Next /\ Rest
PoolStep == part = "pool" /\ Pool!Next /\ Rest
FullPoolStep == part = "full pool" /\ FullPool!Next /\ Rest
TaskStep == part = "tasks" /\ Tasks!Next /\ Rest
DyingTaskStep == part = "dying tasks" /\ DyingTasks!Next /\ Rest
FaultyTaskStep == part = "faulty tasks" /\ FaultyTasks!Next /\ Rest
BreakerStep == part = "breaker" /\ Breaker!Next /\ Rest
LoneBreakerStep == part = "lone breaker" /\ LoneBreaker!Next /\ Rest
RetryStep == part = "retries" /\ Retries!Next /\ Rest
ActivationStep == part = "activations" /\ Activations!Next /\ Rest
EditStep == part = "edits" /\ Edits!Next /\ Rest
RegenerationStep == part = "regenerations" /\ Regenerations!Next /\ Rest
DashboardStep == part = "dashboards" /\ Dashboards!Next /\ Rest

AllNext == \/ BootStep \/ PoolStep \/ FullPoolStep \/ TaskStep \/ DyingTaskStep \/ FaultyTaskStep
           \/ BreakerStep \/ LoneBreakerStep \/ RetryStep \/ ActivationStep \/ EditStep
           \/ RegenerationStep \/ DashboardStep
data == <<at, todo, did, legacy, copies, lock, seeded, crashes, fails,
          pool, poolReq, restarts, run, msg, step, runCrashes, state, failures, age, call,
          jobs, retry, failedOnce,
          status, version, drafting, tx, design, recent, parent, home, treeReq,
          modStatus, criteria, outdated, silent, proc, crossed,
          sections, streams, pub, snaps, cache, balanceReq>>

(* The fairness of each component's Spec; part never changes.              *)
Works(x) ==
  /\ Rest
  /\ \/ part = "boot" /\ Boot!Start(x)
     \/ part = "pool" /\ Pool!Step(x)
     \/ part = "full pool" /\ FullPool!Step(x)
     \/ part = "tasks" /\ x \in Couple /\ Tasks!Work(x)
     \/ part = "dying tasks" /\ x \in Couple /\ DyingTasks!Work(x)
     \/ part = "breaker" /\ Breaker!Ask(x)
     \/ part = "activations" /\ Activations!Proceed(x)
     \/ part = "edits" /\ x = x1 /\ Edits!Step(x)
     \/ part = "regenerations" /\ x \in Couple /\ Regenerations!Step(x)
     \/ part = "dashboards" /\ x \in Couple /\ Dashboards!Age(x)
GoesOn ==
  /\ Rest
  /\ \/ part = "breaker" /\ Breaker!Tick
     \/ part = "dashboards" /\ Dashboards!Put(p1)
AllSpec == /\ AllInit /\ [][AllNext]_<<part, data>>
           /\ WF_data(GoesOn) /\ \A x \in Actor : WF_data(Works(x))

-----------------------------------------------------------------------------
(* A pool is made once and counts what requests hold; the schema's repair    *)
(* moves rows once, and who is up finds it done; a run that is done has its  *)
(* result and a sweep that is answered is over, whatever fails; a retry is   *)
(* of a job that failed (db.py, main.py, routes/simulation.py,               *)
(* optimization.py, tasks.py).                                               *)
ProcessesHold ==
  /\ part = "boot" => Boot!MovedOnce /\ Boot!UpIsRepaired
  /\ part = "pool" => Pool!OnePool /\ Pool!NoLeak
  /\ part = "full pool" => FullPool!NoLeak
  /\ part = "tasks" => Tasks!TypeOK /\ Tasks!DoneHasResult
  /\ part = "faulty tasks" => FaultyTasks!AnsweredIsOver /\ FaultyTasks!DoneHasResult
  /\ part = "breaker" => Breaker!TypeOK
  /\ part = "retries" => Retries!TypeOK /\ Retries!RetryOfFailed

(* What no step of the others undoes: a run that ended stays ended, whatever *)
(* fails and whichever children of a worker are lost, until a whole process  *)
(* dies; a connection that died is not kept, whoever held it; a breaker that *)
(* opened is closed before its time only by the late success of a call let   *)
(* through before (never, with one caller), and a probe decides although     *)
(* other calls end meanwhile (tasks/, db.py, circuit_breaker.py).            *)
StepsKeep ==
  [][/\ part = "faulty tasks" => FaultyTasks!EndedStays
     /\ part = "pool" => Pool!DeadNotKept
     /\ part = "breaker" => Breaker!OnlyLateSuccess /\ Breaker!ProbeDecides
     /\ part = "lone breaker" => LoneBreaker!BlockedSince]_<<part, data>>

(* Nothing that has to end waits for ever: a start, a request for a          *)
(* connection, a poll of a run (where workers die as a whole, but lose no    *)
(* child alone), calls that an open breaker blocks, an activation, a change  *)
(* of the tree, a regeneration, a stale dashboard.                           *)
Waits(x) ==
  \/ part = "boot" /\ Boot!Waits(x)
  \/ part = "pool" /\ Pool!Waits(x)
  \/ part = "full pool" /\ FullPool!Waits(x)
  \/ part = "tasks" /\ x \in Couple /\ Tasks!Waits(x)
  \/ part = "dying tasks" /\ x \in Couple /\ DyingTasks!Waits(x)
  \/ part = "breaker" /\ Breaker!Waits
  \/ part = "activations" /\ Activations!Waits(x)
  \/ part = "edits" /\ x = x1 /\ Edits!Waits(x)
  \/ part = "regenerations" /\ x = x3 /\ Regenerations!Generating("mass_balance")
  \/ part = "regenerations" /\ x \in Couple /\ Regenerations!Waits(x)
  \/ part = "dashboards" /\ x \in Couple /\ Dashboards!Waits(x)
EverythingEnds == \A x \in Actor : Waits(x) ~> ~Waits(x)
=============================================================================
