# MetalFlow Pro in TLA+

A verification development for the backend of MetalFlow Pro (`backend/`), a
FastAPI application over PostgreSQL in which metallurgical projects are designed,
simulated and reported.  Most of the tree is arithmetic (`engines/`, `compute/`),
text of reports and one-row CRUD (`routes/`); what is modelled is the rest, the
code in which requests, workers, processes and failures meet, and the discrete
algorithms.  Paths are relative to `backend/`.

1. Inventory  2. Modules  3. Jobs in detail  4. Runs and bounds  5. Fairness
6. Theorems  7. Disagreements  8. Not modelled, and the plan

## 1. Inventory

| Component | State it keeps | Operations | Hard behaviour | Modules |
|---|---|---|---|---|
| Job repository (`jobs/repo.py`, migration 000035) | `jobs`, `job_artifacts` | insert, pickup, progress, terminal writes, cancel, heartbeat, reap, purge | every caller is another process; late writers are told apart by a `WHERE` only | JobStore |
| Job worker (`worker/`) | main and heartbeat thread, stop event, cached cancel flag, the handler's connection | poll, handler, commit, terminal write, reap, SIGTERM | crash between any two commits; the heartbeat stops before the work, or never starts | JobQueue, HeartbeatLease |
| Job HTTP API (`routes/jobs.py`) | none of its own | submit, poll, cancel, download | sees every intermediate state | JobQueue, JobLifecycle |
| Failed-task retry (`routes/tasks.py`) | none | resubmit | two retries at once, a purged payload | JobRetry |
| Generation pipeline (`routes/pipeline.py`, generators) | status per project and module | regenerate, mark, cascade | an input that changes during a generation; a cascade table kept by hand | Pipeline |
| After-commit callbacks (`services/transaction.py`) | a stack of queues | open, register, commit, roll back | nesting; callbacks that raise or open transactions | AfterCommit |
| Audit trail (`audit.py`) | chained events | record, verify, pull | read and insert in two transactions; a trigger on the same table | AuditChain |
| Offline sync (`routes/sync.py`) | queue, conflicts | push, retry, resolve | partial batches, clocks | OfflineSync |
| GISTM design basis (`services/gistm.py`, `engines/gistm.py`) | versions: draft, active, superseded; designs | draft, activate, evaluate | races on version and activation; row locks and a unique index | BasisRegister, DesignBasis, GistmRules |
| Stage gates (`routes/stagegates.py`) | six stages, checklists, risks | initialise, check, approve, reset | check, then act | StageGates |
| Flowsheet tree (`routes/flowsheet_tree.py`) | parent pointers, values | add, reparent, delete, apply a template | concurrent reparenting | FlowsheetTree, FlowsheetValues |
| Flowsheet compilation (`engines/compile.py`) | snapshots, compilations | compile, order, find branches | a snapshot of many transactions, found by name | TopoSort, Branches, FlowsheetCompilation |
| Templates and criteria (`routes/circuit.py`, `routes/dc_pipeline.py`, `engines/dc_*.py`) | templates, operations, criteria, frozen versions | activate, clone, edit, calculate, cascade, freeze | who may overwrite a value; templates picked in different ways | CircuitTemplates, CircuitCriteria, CriteriaValues, DcCascade, DcPipeline |
| Drawn flowsheet (`routes/flowsheets.py`) | blocks and links as JSON | generate, edit, propagate | the whole is read, changed and written back | FlowsheetDiagram, FlowsheetTopology |
| Risk register (`routes/risks.py`) | numbered risks | create, generate, delete | numbers read before they are used | RiskNumbers |
| Equipment register (`routes/equipment_v2.py`) | items of generations | generate, edit, purge | generations that overlap | MerRegister |
| Capital cost (`services/capex.py`) | prices, factors | seed, recompute, override | prices written one by one while users edit | Capex |
| Mass balance, dashboard (`routes/massbalance_v2.py`, `routes/dashboard.py`) | sections, streams, snapshots, a cache per process | generate, edit, snapshot | overlapping generations, a cache dropped too early | MassBalance |
| Metallurgical plan (`routes/metallurgical_decision.py`) | plans, months | lock, adopt, measure, delete runs | two transactions between plans | Baseline |
| Celery tasks (`celery_app.py`, `tasks/`) | statuses of runs | dispatch, run, redeliver | a worker that dies (the message comes back), a child that is lost (it does not), a transaction already aborted | CeleryRuns |
| Circuit breaker (`circuit_breaker.py`) | state, failures, time of the last | ask, report | late reports, many callers half open | CircuitBreaker |
| Database pool (`db.py`) | connections | take, release | first use, exhaustion, nested use, a restart of the server | ConnectionPool |
| WebSockets (`ws_manager.py`, `websocket_handlers.py`) | connections of a process | connect, broadcast, leave | no client is ever let in | none, see 8 |
| Start-up (`main.py`) | schema repair, catalogue seed and lock | repair, seed | several workers at once, a crash in between | Startup |
| Sessions, middleware, engines, schema, other routes | | | | none, see 8 |

The components meet in the database: routes submit jobs and Celery tasks, workers
write results on connections of their own, writes to a project's data signal the
pipeline, most routes record audit events after they commit, and every handler takes
its connections from its process's pool.  What makes each correct is its
properties, below and at their definitions; `PROJECT.json` lists every component
and, at its line, every hazard with the properties that would catch it.

## 2. Modules

Components, each with its state, one action per statement, transaction or step of
the code, its fairness where liveness is claimed, and its properties:

| Module | Models | A state is |
|---|---|---|
| `JobStore`, `JobQueue` | see 3 | tables, outputs, workers |
| `JobLifecycle` | abstract: the histories of a job that the API promises | status and result per job |
| `HeartbeatLease` | the timing between the heartbeat, its first connection, timeout, faults and SIGTERM | clocks of one job |
| `JobRetry` | the three transactions of a retry among workers, retention and other users | rows, requests |
| `Pipeline` | dependency graph, cascade table, statuses, background regeneration, kills; ghosts: `outdated` says of which source a module lacks a change, `crossed` which statuses others set under a regeneration | statuses, requests |
| `AfterCommit` | the call stack of nested transactions and callback loops of one thread | stack, queues, history |
| `AuditChain` | recording, trigger, verification and pull by timestamp | events by timestamp |
| `OfflineSync` | pushes, retries, conflict detection, resolution | mutations, queue, conflicts |
| `BasisRegister` | abstract: one active basis, replaced in one step | status per basis |
| `DesignBasis` | activation statement by statement under READ COMMITTED: row locks, re-checks, the unique index, deadlock | rows and transactions |
| `GistmRules` | classification, criteria and rules over the matrix; a step changes one input | facility and design |
| `StageGates` | lazy initialisation, checklist, risks, approval in three transactions | stages, items, requests |
| `FlowsheetTree`, `FlowsheetValues` | checks in one transaction and writes in the next; the source of a value worked out from an earlier read | tree or row, requests |
| `TopoSort` | Kahn's algorithm as the code writes it, a step per block and connection | queue, degrees, order |
| `Branches` | the walks off the trunk, successors in any order | todo, visited, branches |
| `FlowsheetCompilation` | lookup, insert, copying and recording of a snapshot; deaths in between | snapshots, compilations, requests |
| `CircuitTemplates` | creation, activation, cloning, compilation and deletion of templates and who picks which | templates with dates |
| `CircuitCriteria` | operations of a template and the rows of criteria they bring | operations, criteria by reference |
| `CriteriaValues` | patches, bulk updates, laboratory, calculation, cascade on the same rows | value, source, version |
| `DcCascade` | order, calculation and report of one cascade | queue, values |
| `DcPipeline` | the steps of the design pipeline, their marks, frozen versions | steps, snapshots |
| `FlowsheetDiagram` | generation, edits, propagation and staleness signature of the drawing | rows, equipment, requests |
| `FlowsheetTopology` | the drawing itself, section by section | blocks and links |
| `RiskNumbers`, `MerRegister`, `MassBalance`, `Capex`, `Baseline` | the registers of the inventory, statement by statement | rows and requests |
| `CeleryRuns` | row, message, delivery, engine, acknowledgement; whole processes that die, lost children, aborted transactions, limits | runs and messages |
| `CircuitBreaker`, `ConnectionPool`, `Startup` | as the inventory | |

Compositions for TLC.  `MCJobQueueTurns` gives the queue its two liveness parts (its
symmetry is in `JobQueue` itself); the other four put components side by side:

| Module | Extends | Parts |
|---|---|---|
| `MCProjectData` | `Baseline` | risks, items, item edits, balance, balance edits, cost, cost race, plans, locks, circuit, topologies, values, value edits, diagram |
| `MCFlowsheets` | `TopoSort` | sort, tree, shared_tree, values, branches, compile, compile_race, templates, snapshots, freezes, steps, marks, cascade, topology |
| `MCRecords` | `DesignBasis` | bases, designs, rules, gates, trail, shared trail, pushes, resolves, announced, failing, callbacks |
| `MCProcesses` | | boot, pool, full pool, tasks, dying tasks, faulty tasks, breaker, lone breaker, retries, activations, edits, regenerations, dashboards |

These components share no variable, so a behaviour of all of them is one of each.
The variable `part` says which one moves, and the others stay as they began; every
part is an initial state of the run, so one run checks them all and the number of
states is the sum and not the product.  A part is a component under one choice of
its constants: where a component has two, they have other kinds of requests or other
bounds, or one asks of one request at a time what does not hold of several (7).  A
property says in its comment where it is of one request at a time.  `Parts` restricts
a run to some of them.  A property of such a module joins the properties of its
components, each named `Component!Property` with the part it holds in; each is stated,
with the code it is about, in the component's module.  The component at the head of the table is taken in whole by
EXTENDS, so that its theorems are about the very properties the run checks.

Operators marked "Variant" stand beside the original: they change it the way a
plausible bug would, and TLC finds the property of `PROJECT.json`'s mutant violated.

Proofs: `JobQueue_proofs`, `DesignBasis_proofs`, `Records_proofs` (of `MCRecords`),
`ProjectData_proofs` (of `MCProjectData`), `Flowsheets_proofs` (of `MCFlowsheets`),
`Processes_proofs` (of `MCProcesses`), and the last sections of `HeartbeatLease` and `AfterCommit`.

## 3. Jobs in detail

### JobStore and JobQueue

A row of `jobs` is a record: `status` (with `absent` for no row), `owner`
(`worker_id`), `cancel` (`cancel_requested`), `stale` (`last_heartbeat_at` older
than the zombie timeout, or NULL), `progress`, `kind`.  `older` is the order of
`created_at`.  `output[j]` is what the handler wrote for the job on its own
connection: none, pending (uncommitted), committed.

A worker is one run of `loop.run()`.  `pc` follows its main thread:

    off -> loop <-> wait                 run()
    loop -> picked -> handler -> checked -> wrote -> committed -> loop
              |         |          |        |
              |         +----------+--------+-> failing -> loop
              +---------+-> cancelling -> loop
    loop -> exited;  anything up -> dead

`held` is the job inside `_process_one_job`, `beating` the heartbeat thread,
`stopping` the `stop_event`, `cache` the cached answer of `check_cancelled`,
`reapDue` whether the reaper's interval has passed.  Every action that touches the
database is one transaction of the code, so that a crash, a cancel, a reap or a
purge can come between any two of them: between the final check and the INSERT,
the INSERT and its commit, the commit and the terminal status.

Choices a reader should know:

* `created_at` is assigned and the row inserted in one step.  `FOR UPDATE SKIP
  LOCKED` lets a pickup pass over a row another pickup has locked; pickups are
  atomic here, so the other has either taken the row or not begun.
* A slot `j` of `Job` is reused once its row is gone and no worker holds it;
  identifiers in the code are fresh uuids.
* `result_ref` is not a variable: `set_terminal_success` alone writes it, in the
  same UPDATE as the status, so it is set exactly when the status is success.
* An uncommitted artifact holds FOR KEY SHARE on its job's row, which FOR UPDATE
  (`cancel_job_if_pending`) and DELETE wait for; the worker's UPDATEs touch no key
  and do not.
* `purge_old` has no caller under `backend/` other than tests; `Purging` switches
  it on, as a scheduled retention would.
* `DbFaults` lets a live worker's heartbeat grow old, the swallowed errors of the
  reaper occur, and the heartbeat thread's first connection fail (`loop.py:126`,
  outside its `try`): the thread then ends for good and nobody looks, so that such a
  worker may lose every job to a reaper (`Boot`).  Without it a heartbeat ages only when
  no thread beats.
* `Crash` is a kill, and also a database error outside the handler's `try`, which
  ends `run()`.  After such an error the daemon heartbeat thread may beat for up to
  the 10 s of its join; the model ends it at once.
* A retry of a failed task is a `Submit`.  Deleting a project, which deletes its
  jobs by ON DELETE CASCADE, is not modelled.

### JobLifecycle

Per job: absent, queued, running, and the three terminal statuses, with `result`
saying whether output can be downloaded.  A queued job may be withdrawn without
ever running; a running one completes with a result, is abandoned without, or
fails, with or without; results appear only while a job runs or after it was
reaped; terminal statuses never change.  `JobQueue` implements it under the
mapping `status <- jobs[j].status`, `result <- (output[j] = "committed")`.

### HeartbeatLease

Discrete seconds and one running job.  `first` is the thread's first connection:
where it fails (`FirstConnection`) the thread is gone without a word, and the job is
reaped as soon as `Timeout` is over, although its worker lives and was never told to
stop; `DrainWindow` excepts this case.  A thread that got it waits `Interval`, then refreshes (`Refresh`), fails (`Fault`: its UPDATE raises, and the new
connection it then tries to make comes up or does not), or finds `conn` None and
only gets a connection out of the attempt (`Reconnect`): one fault can cost two
refreshes.  `settings.py` demands `Timeout > 3 * Interval`, and its message says "at
least 3x"; the assumption here, `(2 * MaxFaults + 1) * Interval <= Timeout`, is the
weaker reading for one fault.  The thread does not oversleep and an attempt takes no
time; a connection that hangs is not modelled.

### Choices made in the other components

* A statement outside an explicit transaction (`qone`, `qall`, `execute`) is a
  transaction of its own in `db.py`, and so an action of its own.  Reads that
  nothing can come between, or whose result no other step changes, are taken with
  the step that uses them, and the module says so.
* READ COMMITTED is modelled where two transactions meet on rows: `DesignBasis`
  (locks, the second look at a row that was waited for, the partial unique index,
  the victim of a deadlock), `MerRegister` and `MassBalance` (a DELETE removes the
  rows there when it began and waits for those that others are removing).
* Ghost variables record what no table does: `outdated`, `silent` and `crossed` in
  `Pipeline`, `saved` in `FlowsheetDiagram`, `added` in `RiskNumbers`, `home` and
  `fired` in `AfterCommit`, `machine`, `by` and `writes` in `CriteriaValues`.
* Values are model values or small numbers: a price is the throughput it was
  calculated for, a signature the counts it was made of, a criterion the version of
  its inputs.  `GistmRules` takes the bounds of the matrix and the numbers next to
  them; `FlowsheetTopology` takes two tanks for the number of tanks.
* What is outside `src/` is in the map as external: the threaded pool of psycopg2,
  PostgreSQL's limit of connections, Celery's broker and the death of its processes.

## 4. Runs and bounds

| Run | Shows | Instance | States |
|---|---|---|---|
| `queue_safety` | type correctness, single execution, no orphaned running row, success has output, cancelled leaves none, artifacts have jobs, terminal rows are final, the lifecycle is implemented | 2 jobs, 2 workers, all faults and purges | 1 M |
| `queue_kinds` | the inductive invariant for kinds without foreign key, with an invalid result, without handler | 1 job, 2 workers, 3 kinds | |
| `queue_ends` | every accepted job ends; SIGTERM leads to exit; where no heartbeat is lost, nor the heartbeat's connection, only a worker told to stop loses a job | 2 jobs, 2 workers, one survives | |
| `queue_turns` | no queued job is overtaken for ever under endless submissions (one part); a cancel ends a job whose computation would never end (another) | 2 jobs, 1 or 2 workers | |
| `heartbeat_lease` | the drain window and its invariant, whether the first connection is made or not | interval 4, timeout 13, 1 fault, horizon 15 | |
| `queue_atomic`, `queue_died`, `queue_interval` | violations, see 7 | 1 job | |
| `project_data` | `PlansHold`, `PlanStaysInForce`, `RegistersWhole`, `CriteriaFollowOperations`, `DiagramWhole`, `UserCostsKept`, `ManualValuesKept` | 14 parts | 1.6 M |
| `flowsheets` | `OrderRespects`, `TreeHolds`, `CompiledWhole`, `VersionsWhole`, `VersionsStand`, `CascadeSettles`, `DrawingLeadsOn` | 14 parts | 1.5 M |
| `records` | `OneActive`, `ImplementsRegister`, `RecordsAddUp`, `DecisionsStand`, `CallbacksFollowCommits`, `PipelineTells`, `PipelineOrder` | 11 parts | 1.6 M |
| `processes` | `ProcessesHold`, `StepsKeep`, `EverythingEnds` (liveness) | 13 parts | 0.18 M |

Why the bounds suffice.  A job meets at most the worker that executes it and the
one that reaps it, and jobs meet only in the order of pickup and in a worker's
hands, so two of each give every pairwise interleaving.  A worker is one
incarnation: a restarted process is another element of `Worker`.  The liveness
runs use no symmetry.  `Horizon` bounds the clock, after SIGTERM or after a first
connection that failed, past the longest drain window of the instance.

In the other runs the actors are two or three: the races of the code are between
two requests, and a third is there where it changes the outcome (three managers of
a basis, of whom one waits, one commits and one fails; three requests at a pool of
two connections; three locks of a plan).  The bounds that cut behaviours are

* rows and generations: four risks with numbers to 3, of which one generation finds up
  to two of a category and generations may follow each other, three generations of items
  and two where users edit, three generations and versions of streams, three plans
  over two runs, three templates, two frozen versions of the criteria, three or four
  operations of a tree.  A row that is deleted can be made again, as another one;
* small numbers of writes, edits and changes (`MaxWrites`, `MaxEdits`,
  `MaxChange`, `MaxClock`, `MaxTime`), large enough for two conflicting writes and
  one that comes between;
* faults: one crash of a starting process, one restart of the database server, the
  death of one or two Celery workers (of their children, any number), one retried push;
* graphs: every flowsheet of three blocks with up to three connections (doubled
  ones, loops and cycles among them), every acyclic graph of five blocks for the
  branches, every outcome of the laboratory and templates of up to three
  operations for the drawing, chains of three nodes for a cascade.

Deadlock is not checked where the system may really stop: every worker ended, every
request answered, a bound reached.

## 5. Fairness

`JobQueue`: `Scheduling` assumes that a main thread that can step does, that its
timers elapse, that the heartbeat thread notices `stop_event`, and that time passes
over a heartbeat nobody refreshes.  The operating system and the clock give this.
Nothing assumes that a request, signal, crash, exception, purge or even a heartbeat
happens.  `FairSpec` adds that a handler comes to its final check;
`EndlessHandlerSpec` drops that and asks only that it keeps calling
`check_cancelled` and that the cached answer expires, which `context.py` does by the
clock.  `EveryJobEnds` needs a survivor and bounded submissions: see
`queue_interval` for why a busy worker does not reap.

`EverythingEnds` of `MCProcesses`: weak fairness of each actor's next step, since a
request, process, task or coroutine that can go on is scheduled:

| Part | Fair | Not fair |
|---|---|---|
| boot | the steps of a starting process | crashes, a seed that fails |
| pool, full pool | the steps of a request that has begun | beginning one, a restart of the server |
| tasks, dying tasks | dispatch, delivery, also once more where a worker died, as `acks_late` has it, the steps of the task | deaths of whole workers (bounded); no child is lost, for its run waits for ever (7) |
| breaker | the clock, and that a caller keeps asking | that a call ends |
| activations | the statements of a transaction that has begun | beginning one |
| edits, regenerations | the steps of a request that has begun | beginning one |
| dashboards | ageing of the cache's entry, the commit of a write | reads |

What waits is `Waits` of each component: a process that is starting, a request
between its first and last step, a run that was answered "queued", an open breaker
or one half open, a stale dashboard.

## 6. Theorems

For every value of the constants that satisfies the named assumptions
(`StoreAssumption`, `QueueAssumption`, `LeaseAssumption`, `SettingsAssumption`,
`BasisAssumption`, `SizeAssumption`, `CallbackAssumption`; of the compositions
`RecordConstants`, `DataConstants`, `FlowsheetConstants`, `ProcessConstants`, which join
those of their components, among them `CeleryConstants`, `StartupConstants`,
`PoolConstants` and `CascadeConstants`):

* `JobQueue_proofs`: `Invariance` (`Spec => []IInv`), and from it `TypeCorrect`,
  `ExecutionIsSingle`, `RunningHeld`, `SuccessIsBacked`, `CancelledIsClean`,
  `ArtifactsHaveJobs`; on the same invariant, `TerminalRowsAreFinal` and
  `QueueImplementsLifecycle`; with a second one, `ReapedOnlyWhileStopping`.
* `HeartbeatLease`: `LeaseInvariant`, `DrainWindowHolds`.
* `DesignBasis_proofs`: `SpecOneActive` (at most one basis is active),
  `SpecImplementsRegister` (the activation of three statements is one step of
  `BasisRegister` or none), `SpecVersionsCount` and `SpecEvaluatedInForce`.
* `Records_proofs`, of the composition that the run `records` checks: `AllOneActive`,
  `AllImplementsRegister`, `AllRecordsAddUp`, `AllDecisionsStand`,
  `AllCallbacksFollowCommits`, `AllPipelineTells`, `AllPipelineOrder`, all seven
  properties of that run.
* `ProjectData_proofs`, of the composition that the run `project_data` checks:
  `AllPlansHold`, `AllPlansStay`, `AllUserCostsKept`, `AllManualValuesKept`,
  `AllRegistersWhole`, `AllDiagramWhole`, `AllCriteriaFollow`, all seven properties
  of that run; and `SpecPlansHold` of `Baseline` alone.
* `Flowsheets_proofs`, of the composition that the run `flowsheets` checks:
  `AllOrderRespects`, `AllTreeHolds`, `AllCompiledWhole`, `AllVersionsWhole`,
  `AllCascadeSettles`, `AllDrawingLeadsOn`, `AllVersionsStand`, all seven again; and of
  `TopoSort` alone `SpecOrderRespects` (each block once, after all that feed it) and
  `SpecLeftOverIsFed` (what is left out is fed by what is left out, and is exactly
  what is on a cycle or behind one).
* `Processes_proofs`, of the composition that the run `processes` checks:
  `AllProcessesHold` and `AllStepsKeep`; and of `CeleryRuns` as that composition takes it
  `SpecResultsHold` (a run that is done has its results, one that failed has none, an
  answered sweep is over, under every fault of the model).
* `AfterCommit`: `SpecCallbacksHold` (callbacks run after their commit, once, in
  order).

A composition gives its components some constants as parameters and some as
definitions.  The theorems hold for every value of the parameters (users, requests,
writers, entities, mutations, risks' identities, processes, blocks, items, criteria,
bounds on writes and edits; of the processes: actors, the couple of them that a part
takes, deaths, connections of the server, rows of jobs, kinds and faults of runs); what
`MCProjectData` and `MCRecords` define is as it stands there: the operations of the circuit and their places, the two requests of
`Items` and its three generations, the kinds of writes of each part.  `MCFlowsheets`
defines most: the theorems about it are for any number of blocks, connections and
operations of the sort, for any registry of a cascade (`Calculated`, `Entered`, the
dependencies between them, `ChangedAtOnce`), for any number of changes of the template
that is drawn (`Redraws`), and otherwise for the actors and rows it names (three or four
operations, three templates, two flowsheets of two operations, five blocks for the
branches).  The two parts of the pipeline have the modules that `MCRecords` gives them and
the tables of `Pipeline` cut to those, the second for any regenerations side by side
(`Runs`) and any of three modules (`RunModules`).  The lemmas on the tree are for any set
of operations, any requests and any endpoints (`T` instantiates `FlowsheetTree` with
parameters).

The arguments.  For the queue none of the safety properties is inductive alone: that
a success has its output depends on where the worker that writes it stands, that it
still owns the row, and that nobody else holds the job.  `IInv` joins: a worker
holds a job exactly inside `_process_one_job`, and its row is its own or was failed
by a reaper or deleted since (`HoldersHold`); two workers hold different jobs; a row
has an owner exactly while it runs, and the owner holds it or died with it; the
output follows from the holder's position and from the row's status.  The proof has
lemmas on what each repository operator changes in each row, then one step per
action; the refinement adds the abstract step each row takes.  The lease is bounded
by a budget: `2 * faults` refreshes, less the one still owed while there is no
connection.  It holds while the thread is alive, that is, once it got its first
connection and until it is told to stop; a thread whose first connection failed bounds
nothing, and `DrainWindow` says so.

For the design basis, `IInv` is the types, `OneActive`, and: the row that a
transaction activates stays a draft (`RowIsDraft`) and those it supersedes stay active
(`DropIsActive`) until it commits, no two transactions hold one row (`LocksExclude`),
and at most one is past the index, which supersedes all that is active
(`CommitReplaces`).

For the sort, `IInv` is: the in-degree of a block is the number of connections into
it not yet followed (`Degrees`), the blocks with none are those queued or ordered
(`Ready`), each once (`Distinct`), and the order respects what was followed.  That
duplicates, loops and connections of disabled blocks cannot break it is then a matter
of counting.

For the callbacks, `IInv` describes the call stack: each
frame's transaction is open in its body and committed in its loop and occurs once,
its queue holds its own callbacks in order, behind those that ran; what an open or
committed transaction was given is in its queue or ran.

The reaper.  `ReapedOnlyWhileStopping` is for `DbFaults = FALSE`, that is, where neither
a heartbeat nor its first connection fails; it needs that the row of a worker that was not
told to stop has been refreshed since the last moment at which the reaper could have
looked: that is the second invariant, of where the heartbeat thread is and how old
the row may be there.

The compositions.  Each part has an inductive invariant of its own; the invariant of
the whole says of each part that it holds while the part runs, `AllInit` gives it, a
step of another part leaves its variables alone, and it implies the part's share of
the property.  The parts of `Records_proofs`:

* evaluations: the basis a result names is active or was superseded since
  (`DesignInv`); a draft's number is the number of rows, which the unique index
  refuses to give twice (`VersionInv`).
* GISTM rules have no history: the invariant is the types, and the theorem is that
  the class grows with each consequence, from the bounds of `FromNumeric`; that the
  greatest of a set of classes exists is proved here from well-founded order.
* stage gates: an approver at its update has found what is still so, every item of
  the stage done and no risk that blocks it (`ApproverInv`), and a stage has all of
  its items or none (`AllOrNothing`).
* the audit trail: a writer past its read holds the greatest stamp there is, so each
  entry points at the greatest before it, and what a client pulled since a stamp is
  all that came after.  Several writers (`SharedInv`) keep only that an entry points
  at an earlier one.
* offline sync: a mutation is answered when it is settled, that is, recorded or
  refused or in conflict; a mutation is in the batch of one push; a push past its
  check is going on with the first of its batch (`Going`).
* pipeline, announcements: what a request has just derived is outdated by nothing
  (`DerivedBefore`), and of a change that was announced, what it reaches is not complete
  or is in the rest of the cascade that this request still goes through (`Told`).  At
  rest no request is inside a cascade, so nothing complete is left behind.  The table of
  dependencies is evaluated once (`Tables`); that `Downstream` lists each module after
  what makes it stale is not needed.
* pipeline, failures, for any number of requests and tasks: a source of what an unforced
  regeneration works on is complete from the readiness check on, because it cascades only
  below it, or another one set it meanwhile, and then it is in `crossed`; what is complete
  below the module that failed is still in the rest of the request that invalidates, or is
  in `crossed` too (`RunOrder`).

And those of `ProjectData_proofs`:

* plans: every row is a plan of a run that is there or of none and no plan but the
  last is active, since the unique index makes the INSERT look for an active one;
  for locks, while no plan is active an insertion is pending that a commit completes.
* costs: a row that is there was seeded, a request between its reading and its
  writing holds a copy with the user's fields of the row (`ReqWell`), and with
  overlapping requests a copy of a row that the templates made (`HoldsTemplated`).
* criteria's values: a copy is the row, or the row as it was before the laboratory's
  average was put in under the same version (`Measured`), or it has a smaller version
  (`OlderCopies`); users may write between what a
  machine reads and what it writes, so of a calculation only the row is known from which
  it is made (`FreshInv`).
* numbers of risks: what a request has still to insert has numbers above all of its
  category but for those that the same generation inserted already (`Fresh`); how many
  those are is bounded by what it may find (`AtMostFound`), over any number of generations.
* items: rows are of one generation, two requests never delete the same rows, and
  what is still to be inserted has tags that no row has (`ItemTodo`).
* mass balance: the sections and streams are those of the generation that is
  published, and a request that goes on has all it read (`BalanceTodo`).
* the diagram: one flowsheet at most, its edits kept, its signature absent or that of
  its version, and the request at its statement has what it read (`DiagramTodo`).
* circuit and topologies: what a request still has to do is one of a few lists of
  statements (`ToDo`, `Still`), and the invariant says for each list which operations
  may lack their criteria.  While nobody writes an order, a criterion is in the
  section of its operation's place; where orders are written, the enabled criteria of
  an operation are still of one section.

And those of `Flowsheets_proofs`:

* tree, one user: every set of operations has one whose parent is outside it
  (`Grounded`), which is what no cycle means and what a move keeps if the new parent
  is not below (`MovedGrounded`); a request at its write still finds true what it
  checked, because it is alone (`FoundAlone`).
* tree, several users: only what no other request can undo is left of that (`Found`:
  the template is there, the parent is of it), and it gives `SameTemplate` and
  `CreatedOnce`; the tree itself is lost (7).
* order: the invariant of the sort above.  `Upstream` is the smallest set closed under
  `Feeds`, so it is inside every set that is closed: inside the blocks ordered before
  (`OrderedUpstream`), and a set of blocks each fed by another of them has one on a
  cycle, by the least number of members of such a set (`FedHasCycle`).
* branches: what has been visited is visited whole up to the trunk (`Walked`), so
  that the next branch is disjoint from all before it.
* compilations: requests overlap and die in both parts, and there may be no active
  template.  A snapshot being filled is there (`Opened`), which the UNIQUE key turns into
  `OneWriter` (`RaceInv`); where nobody edits snapshots, what a snapshot that is there
  lacks is in the rest of a request that fills it or died at it (`RowsBounded`), and one
  that fills a snapshot has copied no criteria yet (`Filling`).
* templates, two requests: before an activation's second statement what is active was
  touched after its first (`Under`), no row was touched later than the clock, and the
  criteria of a row are not of an earlier state than its operations (`RowsWhole`).
* snapshots: a snapshot is not active (`SnapRows`), and what a request clones is there and
  is none (`Cloning`), whatever the other request does.
* freezes, two requests that may fail: an operation of the template has its criterion, or
  a request that sets the topology owes it or failed before (`Owes`, `CritThere`); a
  snapshot names an earlier one or none (`SnapsFollow`): with two at once it need not be
  the last.
* steps: the list is evaluated for every set of operations of the five that bring
  conditional steps (`StepsShown`), as one of a few sequences, whose order is read off
  (`StepsOrdered`); those of regrind and pretreatment are in none (7).
* marks, two requests: a mark is taken away only by a write that puts back what its
  request read, so the property follows from what each write is (`MarksInv` has the types).
* cascade: Kahn's order has each node after the nodes it depends on (`Sorted`), which a
  sub-list keeps (`SomeIs`, for the recalculation order).  A node that is finished
  depends on no node that is still to come and fits its formula for the values there are
  (`Fits`): writing the next one cannot disturb it, since a formula reads only what its
  node depends on (`FormulaOf`).  Nothing else is written, nothing manual, and the
  updates are what differs (`Kept`).  With a cycle nothing has begun (`Unbegun`).
* drawn flowsheet: what can be reached over as many links as there are blocks is the
  least set closed under links (`SpreadCloses`), since a chain of growing sets of blocks
  must stop growing.  So reaching is shown by closed sets.  `Leads(B, L, O)`: from every block
  something goes on but from the ends `O`, and what is closed and has the bin has all but the
  feeders.  Each section attaches to the ends left open by those before it and leaves
  its own (`At1` to `At11`, one per section; a lemma `...Leads` for what a section draws).
  That a treatment is on the way is a set of blocks around the bin that only the treatment
  leaves (`Cut`, `Ways`), kept by every later section.

And those of `Processes_proofs`:

* start-up: what a process knows of the tables is true or is held by its own open
  transaction (`BootKnows`), and no two processes have changed the same thing.
* pools: what a pool counts as used is the number of connections that requests hold of
  it (`PoolCounts`, by cardinality over pairs of request and place), which gives `NoLeak`
  whatever is nested, raised or restarted; one pool is made per process.
* runs: the invariant says of each row by itself what the process that works on it may
  rely on (`RunInv`): a run that a route computes has no message, so it is worked on once
  and its result is empty until it is stored.  A run with a message may be started again
  when it has ended; its result then stays until the next, which is why a poll can still
  rely on the status.  Until a whole process dies each message is delivered once, lost
  children included, and what has ended waits for nothing but its acknowledgement
  (`FirstInv`, `FirstTime`).
* breaker: with several callers the failures reach the threshold while it is not closed,
  and of a step that closes it before its time one can say whose it is (`OnlyLateSuccess`);
  with one caller a call under way also knows the state there is (`LoneInv`), so that none
  is late.
* retries: a request that goes on names a job that failed once, and rows are born in the
  order of their numbers, so that a retry is younger than what it retries (`RetryInv`).

Least and greatest members of finite sets of numbers, and that a chain of deletions
leaves what it should, come from `WFMin` of `WellFoundedInduction`, applied to the
set and not through an induction theorem with an operator for its parameter.  The same
argument, on the least number for which there is no such function, gives the recursive
functions over lists and graphs (`SomeExists`, `SpreadExists`).

Only model-checked:

* liveness (`EveryJobEnds`, `ShutdownCompletes`, `QueuedGetsItsTurn`,
  `CancelTakesEffect`, `EverythingEnds`): fairness and ENABLED are beyond the prover.

Every invariant and every action property of a passing run is a theorem.  What the
theorems leave to TLC besides is what the compositions fix, as said above: the number of
templates, operations and flowsheets in `MCFlowsheets` and the modules of the pipeline.

## 7. Disagreements found

With a run that finds the violation:

* `worker/loop.py:69-71` says that the handler's writes are "atomic with the
  terminal status decision".  They are committed at line 85, the status in another
  transaction afterwards: a crash, a reap or an invalid result between them leaves a
  failed job with committed output (`queue_atomic`).
* A reaped job's error says "worker died" (`jobs/repo.py:169`).  The heartbeat
  thread ends at SIGTERM while the main thread finishes its job, which a second
  worker may then fail under a live one (`queue_died`).  `HeartbeatLease` says how
  long it has: more than the timeout less the lease.
* `loop.run` promises a reap "every reaper_interval_seconds" (line 174), but after
  a processed job it continues before it looks at the schedule (line 217): a worker
  that always finds work never reaps (`queue_interval`).

Without one in `PROJECT.json`: each of the following claims is stated in its module,
is refuted by TLC in the instance given, and is therefore left out of the runs above
(or kept for the instances in which it holds).  To see it, check the module with
`SPECIFICATION Spec`, these constants (lower-case names are model values) and the
claim as an invariant or property (`[][...]_vars` around one that speaks of a step).
Where a property of the runs is the claim with an exception, the claim is given in
words and the exception by the property's name.

**Pipeline**

* `CompleteIsFresh`, `routes/pipeline.py:241`. STALE_CASCADE of design_criteria
  omits simulation, whose depends_on (pipeline.py:179) names it: after an edit of
  the criteria and its cascade the simulation is still 'complete' on the old ones;
  routes/pipeline.py:22 says 'Toute modification d'un module source marque
  automatiquement ses dépendants comme «stale»'. *Instance: Module = {"lims",
  "design_criteria", "simulation"}, Proc = {p1}, Requests = {"edit",
  "mark_complete"}, Crashes = FALSE.*
* `CompleteIsFresh`, `routes/pipeline.py:706`. A regeneration sets the module it
  derived 'complete' (pipeline.py:706) without mark_stale_cascade, and calls
  _do_generate_dc rather than the endpoint that would announce it: regenerating
  design_criteria alone leaves the mass balance and the flowsheet 'complete' on
  the old criteria; routes/pipeline.py:22 says 'Toute modification d'un module
  source marque automatiquement ses dépendants comme «stale»'. *Instance: Module =
  {"lims", "design_criteria", "mass_balance", "flowsheet"}, Proc = {p1}, Requests
  = {"mark_complete", "regenerate"}, Crashes = FALSE.*
* `AnnouncedIsStale`, `routes/pipeline.py:332`. mark_stale_cascade skips a module
  that is 'generating' (pipeline.py:332) and the generation, which read the old
  inputs, then sets it 'complete' (pipeline.py:706); routes/pipeline.py:22 says
  'Toute modification d'un module source marque automatiquement ses dépendants
  comme «stale»'. *Instance: Module = {"lims", "design_criteria", "mass_balance",
  "flowsheet"}, Proc = {p1, p2}, Requests = {"edit", "mark_complete",
  "regenerate"}, Crashes = FALSE.*
* That the predecessors of a module that an unforced regeneration completes are
  complete then, without the exception of `GeneratedFromComplete`,
  `routes/pipeline.py:679`. The readiness check (pipeline.py:679) and the
  generation are separate transactions and nothing looks again: a predecessor
  marked stale in between does not stop it; routes/pipeline.py:21 says 'Un module
  ne peut être généré que si tous ses prédécesseurs sont à l'état «complete»'.
  *Instance: Module = {"lims", "design_criteria", "mass_balance", "flowsheet"},
  Proc = {p1, p2}, Requests = {"edit", "mark_complete", "regenerate"}, Crashes =
  FALSE.*
* `EquipmentIsDerived`, `routes/pipeline.py:501`. The equipment step does nothing
  and the run then sets equipment 'complete': in a run without the mass balance
  the list is the old one; the comment at routes/pipeline.py:499-500 says
  'Equipment is generated as part of mass_balance auto-generate' and 'already
  done'. *Instance: Module = {"design_criteria", "mass_balance", "flowsheet",
  "equipment"}, Proc = {p1}, Requests = {"edit", "mark_complete", "regenerate"},
  Crashes = FALSE.*

**AuditChain**

* `ChainVerifies`, `audit.py:95`. The last checksum is read and the event inserted
  in two transactions, without a lock: two requests at once chain to the same
  event and verify_checksum_chain then reports the untouched log as broken;
  routes/audit_trail.py:101 says 'Verify the integrity of the audit event checksum
  chain for a project', and audit.py:4-5 'append-only event with SHA-256 checksum
  chaining for tamper detection'. *Instance: Writer = {w1, w2}, MaxTime = 4, Limit
  = 2, Triggers = FALSE, DbFaults = FALSE.*
* `ChainVerifies`,
  `alembic_migrations/versions/20260422_000034_audit_triggers.py:68`. The trigger
  inserts rows of the same table with a checksum of their own values, not chained
  to the previous row, and the verification reads them all: it fails at the first
  of them; audit.py:4-5 says 'Records every data mutation as an append-only event
  with SHA-256 checksum chaining for tamper detection'. *Instance: Writer = {w1},
  MaxTime = 4, Limit = 2, Triggers = TRUE, DbFaults = FALSE.*
* `EveryMutationRecorded`, `audit.py:127`. record_event runs after the mutation
  has committed and swallows its own failure: the mutation stays without an event;
  audit.py:4 says 'Records every data mutation'. *Instance: Writer = {w1}, MaxTime
  = 4, Limit = 2, Triggers = FALSE, DbFaults = TRUE.*
* `PullMissesNothing`, `routes/sync.py:245`. An event's timestamp is the start of
  its transaction and it is seen at its commit: a client that pulled a later one
  in between asks for 'timestamp > since' and never gets it; routes/sync.py:236
  says 'Pull audit events (changes) since a given timestamp.' *Instance: Writer =
  {w1, w2}, MaxTime = 4, Limit = 2, Triggers = FALSE, DbFaults = FALSE.*

**OfflineSync**

* `QueuedDoNotConflict`, `routes/sync.py:139`. An accepted mutation is recorded
  without a field_name while the detection looks for events of the field: two
  clients that change one field offline are both queued; routes/sync.py:86 says
  'Receive offline mutations. Detect field-level conflicts or enqueue.' *Instance:
  Mutation = {m1, m2}, Field = {f1, f2}, Pusher = {p1, p2}, Resolver = {}, MaxTime
  = 4, MaxRetries = 0, ServerEdits = FALSE.*
* `ResolutionIsFinal`, `routes/sync.py:203`. The UPDATE does not repeat
  'resolved_at IS NULL': of two requests that both found the conflict open the
  later overwrites the earlier; routes/sync.py:187 answers 'Conflict not found or
  already resolved'. *Instance: Mutation = {m1}, Field = {f1, f2}, Pusher = {p1},
  Resolver = {r1, r2}, MaxTime = 4, MaxRetries = 0, ServerEdits = TRUE.*

**JobRetry**

* `RetryKeepsPayload`, `routes/tasks.py:78`. The row is read twice and the second
  read falls back to {}: a task that the retention deletes in between is retried
  with no payload but retry_of; routes/tasks.py:72 says 'Re-queue a failed job
  using its stored payload.' *Instance: Job = {1, 2, 3}, Request = {r1}, Purging =
  TRUE.*

**DesignBasis**

* `Traceable`, `routes/geotech.py:317`. The active basis is read for the row
  (geotech.py:273) and read again by evaluate_tsf_design after the row is
  committed: an activation in between leaves violations of one basis on a design
  that names another; the comment at routes/geotech.py:272 says 'Snapshot the
  active basis (if any) on the tsf_design row for traceability.' *Instance: Basis
  = {b1, b2}, Author = {a1}, Manager = {m1}, Design = {d1}, Faults = FALSE.*

**StageGates**

* `ApprovalIsClear`, `routes/stagegates.py:954`. The risks, the items and the
  update are three transactions and the update repeats no condition: a blocking
  risk opened in between is approved with the gate; routes/stagegates.py:881 says
  'Approve a stage gate. Checks all checklists are complete and no blocking
  risks.' *Instance: Stage = {1, 2}, Item = {}, Risk = {r1}, Reader = {q1},
  Approver = {a1}, Overlap = TRUE.*
* `CurrentPhaseIsOpen`, `routes/dashboard.py:263`. A gate is approved with status
  'Approved' (stagegates.py:955) and the dashboard counts 'approved' and
  'complete' (dashboard.py:257, :263, also :63-65): no gate is ever complete and
  the current phase stays the first; routes/dashboard.py:260 says 'First
  non-complete gate is the current phase'. *Instance: Stage = {1, 2}, Item = {},
  Risk = {r1}, Reader = {q1}, Approver = {a1}, Overlap = FALSE.*
* `ReadinessIsChecked`, `routes/stagegates.py:922`. ni43101_stage_map is looked up
  with the whole stage name in lower case ('stage 1 - phase conceptuelle /
  scoping'), which is none of its keys: the block is skipped for every stage; the
  comment at routes/stagegates.py:912 says 'Check NI 43-101 readiness for this
  stage'. *Instance: Stage = {1, 2}, Item = {}, Risk = {r1}, Reader = {q1},
  Approver = {a1}, Overlap = FALSE.*

**FlowsheetTree**

* `Acyclic`, `routes/flowsheet_tree.py:505`. The subtree is read in one
  transaction and the parent written in another: two reparentings at once each
  pass the check and make a cycle that no root reaches, and below which the check
  itself never ends; the comment at routes/flowsheet_tree.py:504 says 'Reject
  cycle: new parent must not be in subtree of this node'. *Instance: Node = {n1,
  n2, n3, n4}, Catalogue = {"cil"}, Size = 2, Request = {r1, r2}, Kinds = {"add",
  "patch"}.*
* `OneRoot`, `routes/flowsheet_tree.py:438`. _has_root and the INSERT are two
  transactions: two adds at once both create a root; routes/flowsheet_tree.py:430
  says 'parent_op_id=None creates the root. A second root is rejected (400).'
  *Instance: Node = {n1, n2, n3, n4}, Catalogue = {"cil"}, Size = 2, Request =
  {r1, r2}, Kinds = {"add"}.*
* `OneRoot`, `routes/flowsheet_tree.py:510`. A patch with parent_op_id null is not
  checked (the branch is 'pass') and the UPDATE writes it; the comment at
  routes/flowsheet_tree.py:508 says 'making it root. Only allowed if no other root
  exists.' *Instance: Node = {n1, n2, n3, n4}, Catalogue = {"cil"}, Size = 2,
  Request = {r1}, Kinds = {"add", "unroot"}.*
* `AppliedWhole`, `routes/flowsheet_templates_route.py:71`. Each operation of the
  template is inserted in a transaction of its own: a failure in the middle leaves
  the first of them as the active flowsheet;
  routes/flowsheet_templates_route.py:39 says 'Creates a fresh circuit_template +
  cascades all operations from the template.' *Instance: Node = {n1, n2, n3, n4},
  Catalogue = {"cil"}, Size = 2, Request = {r1}, Kinds = {"apply"}.*
* `ApplyIsServed`, `routes/flowsheet_templates_route.py:52`. The new row takes the
  template's name and circuit_templates has UNIQUE (project_id, name)
  (schema.sql:1271): applying a template a second time is an error;
  routes/flowsheet_templates_route.py:40 says 'If the project already has a
  flowsheet, a new circuit_template is created'. *Instance: Node = {n1, n2, n3,
  n4}, Catalogue = {"cil"}, Size = 2, Request = {r1}, Kinds = {"apply"}.*

**FlowsheetValues**

* `SourceTold`, `routes/flowsheet_tree.py:538`. values_source is computed from the
  row read before the UPDATE: of two patches, one that clears a field and one that
  sets another, the later leaves a value marked lims_auto (or none marked manual);
  routes/flowsheet_tree.py:479 says 'Setting any value to non-null switches
  values_source to 'manual'.' *Instance: Field = {recovery, water}, Request = {r1,
  r2}.*

**TopoSort**

* `CycleIsDetected`, `engines/compile.py:319`. Blocks are ordered but op codes
  compared: a block on a cycle whose op code another, ordered block has too (two
  ball mills) is not missed; engines/compile.py:125 says 'the cycle by comparing
  the returned set vs the full set of enabled ops.' *Instance: N = 3, MaxConn = 3,
  Ops = {"mill", "cyclone"}.*

**Branches**

* `OnlyBetween`, `engines/branch_detection.py:168`. The walk collects everything
  off the trunk, dead ends included, and they stay in the branch; the comment at
  engines/branch_detection.py:122 says 'A branch node = any node NOT in trunk that
  lies on a path between two trunk nodes'. *Instance: N = 5, Labels = 1.*
* `AllBetween`, `engines/branch_detection.py:141`. A branch that joins another
  before the trunk meets only visited blocks, finds no reconvergence and is
  dropped as dangling; which of the two it is depends on the order of a set; the
  comment at engines/branch_detection.py:122 says 'A branch node = any node NOT in
  trunk that lies on a path between two trunk nodes'. *Instance: N = 5, Labels =
  1.*

**FlowsheetCompilation**

* That a compilation names all the operations of its flowsheet, without the
  exception of `RecordedIsWhole`, `engines/compile.py:182`. The template, each
  operation and the criteria are committed one by one and a snapshot found by its
  name is taken as it is: after a failure in between every later compilation of
  that flowsheet simulates the part that was written; engines/compile.py:264 says
  'Compile a flowsheet into an immutable circuit_template snapshot.' *Instance:
  Requests = {r1, r2}, Flowsheets = {{"sag", "cil"}, {"sag", "pox"}}, MaxEdits =
  1, Concurrent = FALSE, MayFail = TRUE, MayChange = FALSE.*
* The same, `engines/compile.py:182`. Two compilations of one flowsheet at once:
  the second finds the name while the first is still adding operations, records it
  and answers; engines/compile.py:264 says 'Compile a flowsheet into an immutable
  circuit_template snapshot.' *Instance: Requests = {r1, r2}, Flowsheets =
  {{"sag", "cil"}, {"sag", "pox"}}, MaxEdits = 1, Concurrent = TRUE, MayFail =
  FALSE, MayChange = FALSE.*
* `CompileIsServed`, `engines/compile.py:186`. The conflict is expected on
  circuit_compilations, where the insert does nothing; the insert of the snapshot
  comes first and has no ON CONFLICT, so the second of two compilations at once is
  an error (UNIQUE(project_id, name), schema.sql:1271); the comment at
  engines/compile.py:380 says 'If conflict, fetch the existing row'. *Instance:
  Requests = {r1, r2}, Flowsheets = {{"sag", "cil"}, {"sag", "pox"}}, MaxEdits =
  1, Concurrent = TRUE, MayFail = FALSE, MayChange = FALSE.*
* `Immutable`, `routes/circuit.py:383`. A snapshot is listed and edited like any
  template: add_operation and remove_operation ask only for the template's
  project; routes/simulation_compile.py:4 says 'Compile produces an immutable
  snapshot'. *Instance: Requests = {r1, r2}, Flowsheets = {{"sag", "cil"}, {"sag",
  "pox"}}, MaxEdits = 2, Concurrent = FALSE, MayFail = FALSE, MayChange = TRUE.*
* That a compilation has the criteria of its project, `engines/compile.py:207`.
  Where no template is active at that moment the function returns, and the
  compilation is recorded all the same, with no criteria for good;
  engines/compile.py:264 says 'Compile a flowsheet into an immutable
  circuit_template snapshot.' *Instance: Requests = {r1}, Flowsheets = {{"sag",
  "cil"}}, MaxEdits = 0, Concurrent = FALSE, MayFail = FALSE, MayChange = FALSE,
  and the claim `\A f \in Flowsheets : compilation[f] => snapshot[f].criteria >
  0`.*
* `GraphIsCompiled`, `engines/compile.py:96`. The graph of a template is loaded
  from the flowsheet as it is now (or the newest one), not as it was compiled;
  engines/compile.py:91 says 'Load blocks + connections for a template via its
  latest circuit_compilations row.' *Instance: Requests = {r1, r2}, Flowsheets =
  {{"sag", "cil"}, {"sag", "pox"}}, MaxEdits = 1, Concurrent = FALSE, MayFail =
  FALSE, MayChange = FALSE.*

**CriteriaValues**

* That an edit with the version of the row undoes nothing its user has not seen,
  without the exception of `VersionTells`, `engines/dc_generator.py:381`.
  enrich_criteria_with_lims changes design_value and source_code and leaves
  version: an edit sent with the old version overwrites the laboratory's value
  without a conflict; the comment at routes/dc_pipeline.py:824 says 'Always bump
  updated_at, version, and updated_by on a write so the'. *Instance: Users = {u1},
  Derived = {"power"}, Entered = {2}, MaxWrites = 3, Kinds = {"patch", "enrich"},
  Concurrent = FALSE.*
* That a value marked manual is replaced by users only, without the exception of
  `OverrideKept`, `engines/dc_generator.py:368`. The source is read at the start
  of the transaction and the UPDATE asks for the id alone (the calculations repeat
  the source in the WHERE): a value marked manual in between is replaced; the
  comment at engines/dc_generator.py:364 says 'User-edited values (source="O"
  Owner / "M" Manual) are preserved.' *Instance: Users = {u1}, Derived =
  {"power"}, Entered = {2}, MaxWrites = 3, Kinds = {"patch", "enrich"}, Concurrent
  = TRUE.*
* `OnlyWhatWasTold`, `routes/circuit.py:1318`. The items are dumped with every
  default, so a field that was not sent is in the entry as None and is set to
  NULL, the source with it; routes/circuit.py:1286 says 'Body: {"updates": [{"id":
  ..., "version": ..., "design_value": ..., ...}]}'. *Instance: Users = {u1},
  Derived = {"power"}, Entered = {2}, MaxWrites = 2, Kinds = {"bulk"}, Concurrent
  = FALSE.*
* `OnlyDefaultsReplaced`, `engines/dc_generator.py:374`. Sources L and D are
  replaced too, and an edit without a source leaves L: the user's value is gone
  with the next enrichment; engines/dc_generator.py:306 says 'overridden it
  (source_code not in ('I', 'X'))'. *Instance: Users = {u1}, Derived = {"power"},
  Entered = {2}, MaxWrites = 3, Kinds = {"patch", "enrich"}, Concurrent = FALSE.*
* `ReportIsStored`, `engines/dc_calculator.py:945`. A failing UPDATE is caught and
  the loop goes on in an aborted transaction, whose COMMIT is a rollback: the rows
  counted before it are reported as updated and not stored;
  engines/dc_calculator.py:109 says 'Returns: {updated: int, total: int, errors:
  [str]}'. *Instance: Users = {u1}, Derived = {"power", "area"}, Entered = {2},
  MaxWrites = 2, Kinds = {"calculate", "fail"}, Concurrent = FALSE.*
* That a calculation leaves what it derives equal to its formula, without the
  condition of `CalculatedIsFresh`, `engines/dc_calculator.py:126`. All values are
  read, then written under the source alone: an input edited in between leaves
  derived values of the old one; routes/circuit.py:1466 says 'this endpoint
  propagates the change through the entire calculation chain'. *Instance: Users =
  {u1}, Derived = {"power"}, Entered = {2, 3}, MaxWrites = 2, Kinds = {"patch",
  "calculate"}, Concurrent = TRUE.*

**CircuitCriteria**

* `Complete`, `routes/circuit.py:218`. The section of a reference is the sort
  order divided by ten, and REACTIF_SO2, REACTIF_OXYGEN and REACTIF_CARBON are
  1390, 1395 and 1398 in the catalogue: all are section 14.9, the rows of the
  first are of another op_code and the upsert leaves them alone, so the others get
  no (or part of their) criteria without an error; routes/circuit.py:317 says '4.
  Generate default design criteria'. *Instance: Requests = {r1}, Ops = {"so2",
  "oxygen"} Order, Deps of the catalogue's reagents, Kinds = {"add"}, Concurrent =
  FALSE.*
* `NoDuplicate`, `routes/circuit.py:639`. set_topology numbers the sections by
  position (dc_pipeline.py:155), regenerating by PROCESS_OP_ORDER: the references
  differ, nothing conflicts and each criterion is inserted a second time;
  routes/circuit.py:587 says 'Default behaviour (force=false): INSERT only —
  existing rows preserved'. *Instance: Requests = {r1}, Ops = {"mill", "cyclone",
  "cil"} Order, Deps of the process, Kinds = {"topology", "regenerate"},
  Concurrent = FALSE.*
* `NoOrphans`, `routes/circuit.py:386`. The operation is inserted in one
  transaction and its criteria generated in another, which asks for no operation:
  removed in between, it leaves enabled criteria; routes/circuit.py:501 says '2.
  Soft-delete criteria (SET enabled=false)'. *Instance: Requests = {r1, r2}, Ops =
  {"mill", "cyclone", "cil"} Order, Deps of the process, Kinds = {"add",
  "remove"}, Concurrent = TRUE.*

**CeleryRuns**

* `Waits(r) ~> ~Waits(r)`, `tasks/simulation_tasks.py:246`. The engine runs on the
  connection of the task; after an SQL error its transaction is aborted, and the
  UPDATE of the except clause is sent without a rollback, so it raises too and the
  run is 'running' for ever; routes/simulation_v2.py:718 says 'Poll GET
  /simulation-v2/optimize/{run_id} for results.' *Instance: Runs = {r1}, Kinds =
  {"study"}, Faults = {"sql"}, MaxCrashes = 0.*
* `Waits(r) ~> ~Waits(r)`, `routes/simulation_v2.py:758`. A task that cannot be
  dispatched is logged and the answer is 202 'queued' with a poll_url, for a row
  that nothing takes up; routes/simulation_v2.py:718 says 'Poll GET
  /simulation-v2/optimize/{run_id} for results.' *Instance: Runs = {r1}, Kinds =
  {"study"}, Faults = {"broker"}, MaxCrashes = 0.*
* `Waits(r) ~> ~Waits(r)`, `tasks/economic_tasks.py:17`. time_limit=900 is below
  the soft limit of 1800 s that would raise inside the task: a run of more than 15
  minutes is killed and acknowledged with its row 'running'; celery_app.py:50 says
  'Time limits (soft=30min, hard=31min)'. *Instance: Runs = {r1}, Kinds =
  {"economic"}, Faults = {"limit"}, MaxCrashes = 0.*
* `Waits(r) ~> ~Waits(r)`, `celery_app.py:44`. task_acks_late is set without
  task_reject_on_worker_lost: where the child that runs a task is lost (killed by
  the kernel, say) the message is acknowledged, nothing delivers it again and
  nothing tells the row, which stays 'running'; routes/simulation_v2.py:718 says
  'Poll GET …' for the results. *Instance: Runs = {r1}, Kinds = {"study"}, Faults
  = {"child"}, MaxCrashes = 0.*

**DcCascade**

* `BoundsTold`, `engines/dc_cascade.py:228`. The bounds are looked up as min_value
  and max_value and the registry writes min and max
  (engines/dc_dag_registry.yaml:54), so no node ever has a bound; the comment at
  engines/dc_cascade.py:227 says 'Check bounds (if defined in the node)'.
  *Instance: NodeSeq = <<"sag", "power">>, MaxChanged = 1, Inputs = {"tph"},
  MaxValue = 2.*

**CircuitTemplates**

* `OneActive`, `routes/circuit.py:99`. A template is inserted with the default
  is_active = TRUE (schema.sql:1266) and the others are left as they are;
  routes/circuit.py:187 says 'This ensures only one template is active at a time.'
  *Instance: Templates = {t1, t2, t3}, Requests = {r1}, Kinds = {"create"},
  MaxClock = 3, Concurrent = FALSE.*
* `OneActive`, `routes/circuit.py:197`. The deactivation and the activation are
  two transactions: those of two requests interleave and leave two templates
  active; routes/circuit.py:187 says 'This ensures only one template is active at
  a time.' *Instance: Templates = {t1, t2, t3}, Requests = {r1, r2}, Kinds =
  {"compile", "activate"}, MaxClock = 6, Concurrent = TRUE.*
* That the operations and the criteria of a clone are of one state (`CloneIsWhole`
  says only which is not the older), `routes/circuit.py:1725`. The operations and
  the criteria are read by qall, each in a transaction of its own, and not by the
  cursor of the clone: an operation removed in between is copied without its
  criteria; routes/circuit.py:1669 says 'copies operations + design criteria'.
  *Instance: Templates = {t1, t2, t3}, Requests = {r1, r2}, Kinds = {"create",
  "clone", "edit"}, MaxClock = 4, Concurrent = TRUE.*
* `SnapshotKept`, `routes/dc_pipeline.py:188`. The pipeline takes the newest
  template of the project, which after a compilation is its snapshot, and
  set_topology empties and fills it; engines/compile.py:264 says 'immutable
  circuit_template snapshot'. *Instance: Templates = {t1, t2, t3}, Requests =
  {r1}, Kinds = {"create", "compile", "pipeline"}, MaxClock = 4, Concurrent =
  FALSE.*
* `PickedIsActive`, `routes/simulation_v2.py:74`. is_active only orders the rows:
  with no active template the latest one, deleted or a snapshot, is returned and
  there is no 404; routes/simulation_v2.py:72 says 'Return the active circuit
  template for a project, or raise 404.' *Instance: Templates = {t1, t2, t3},
  Requests = {r1}, Kinds = {"create", "delete"}, MaxClock = 4, Concurrent =
  FALSE.*

**DcPipeline**

* That a mark stays, whoever validates (`MarksStay` says which validation takes it
  away), `routes/dc_pipeline.py:560`. The whole pipeline_state read by
  _get_template is written back: a step validated by another request in between is
  unmarked; the comment at routes/dc_pipeline.py:559 says 'Mark this step as
  validated'. *Instance: Ops = {"mill"}, Labels = {l1}, Values = {1}, MaxFrozen =
  0, Marked = {"comminution", "leaching"}, Requests = {r1, r2}, Kinds =
  {"validate"}, Concurrent = TRUE.*
* That a frozen version names the one before it (`TypeOK` says an earlier one),
  `routes/dc_pipeline.py:909`. The newest snapshot is read in one transaction and
  the new one inserted in another, so two freezes at once name the same previous
  snapshot; the comment at routes/dc_pipeline.py:908 says 'Get previous snapshot'.
  *Instance: Ops = {"flotation", "mill"}, Labels = {l1, l2}, Values = {1, 2},
  MaxFrozen = 2, Marked = {}, Requests = {r1, r2}, Kinds = {"topology", "freeze"},
  Concurrent = TRUE.*
* That every conditional step is shown (`EveryStepShown` says which are),
  `routes/dc_pipeline.py:62`. The anchor is compared with base steps only, and
  those of regrind and pretreatment are themselves conditional: these two steps
  are never shown; the comment at routes/dc_pipeline.py:60 says 'Insert
  conditional steps after their anchor'. *Instance: Ops = {"flotation",
  "regrind"}, Labels = {l1}, Values = {1}, MaxFrozen = 0, Marked = {}, Requests =
  {r1}, Kinds = {"topology"}, Concurrent = FALSE.*
* `DraftDiffIsChange`, `routes/dc_pipeline.py:1016`. A snapshot holds a NUMERIC as
  the text that default=str made of it, the draft as a Decimal: they never compare
  equal and every value is reported as changed; routes/dc_pipeline.py:982 says
  'Compare two snapshots, or a snapshot vs current draft'. *Instance: Ops =
  {"flotation", "mill"}, Labels = {l1, l2}, Values = {1, 2}, MaxFrozen = 2, Marked
  = {}, Requests = {r1}, Kinds = {"topology", "freeze"}, Concurrent = FALSE.*

**CircuitBreaker**

* `OneProbe`, `circuit_breaker.py:50`. can_execute is true for every caller while
  the breaker is half open; circuit_breaker.py:24 says 'HALF_OPEN: one request
  allowed, success -> CLOSED, failure -> OPEN'. *Instance: Callers = {c1, c2},
  Threshold = 1, Recovery = 1.*
* `BlockedSince`, `circuit_breaker.py:55`. A success closes the breaker in
  whatever state it is, so that of a call begun before the failures ends the
  blocking at once; circuit_breaker.py:23 says 'OPEN: requests blocked, after
  recovery_timeout -> HALF_OPEN'. *Instance: Callers = {c1, c2}, Threshold = 1,
  Recovery = 2.*

**RiskNumbers**

* That two risks of a category have different numbers, without the exception of
  `NumbersDistinct`, `routes/risks.py:109`. _make_risk numbers each risk from the
  rows of the table, and none of the generated ones is inserted before all are
  made: the risks of one category get the same number; routes/risks.py:44 says
  'Generate next risk number like R-TECH-03 based on category prefix.' *Instance:
  Requests = {r1, r2}, Categories = {"Technical", "HSE"}, Ids = {1, 2, 3, 4},
  MaxNumber = 3, Generated = 2, Kinds = {"generate"}, Concurrent = FALSE.*
* `NumbersDistinct`, `routes/risks.py:48`. The MAX is read in one transaction and
  the risk inserted in another, and no index is unique: two requests that overlap
  number alike; routes/risks.py:44 says 'Generate next risk number like R-TECH-03
  based on category prefix.' *Instance: Requests = {r1, r2}, Categories =
  {"Technical", "HSE"}, Ids = {1, 2, 3, 4}, MaxNumber = 3, Generated = 0, Kinds =
  {"create"}, Concurrent = TRUE.*

**MerRegister**

* `OneGeneration`, `routes/equipment_v2.py:138`. Two generations that both find no
  rows have nothing to wait for: both insert, and every item is there twice under
  one tag; routes/equipment_v2.py:134 says 'delete existing items first, then
  regenerate'. *Instance: Requests = {r1, r2}, Circuits = {<<Leach>>}, Filled =
  FALSE, Kinds = {"generate"}, MaxGen = 3, MaxVersion = 1.*
* `AddAdds`, `routes/equipment_v2.py:294`. body is a pydantic model, which has no
  get: AttributeError before the INSERT, for every body;
  routes/equipment_v2.py:238 says 'Add a manual equipment item.' *Instance:
  Requests = {r1, r2}, Circuits = {<<Leach>>}, Filled = TRUE, Kinds = {"add"},
  MaxGen = 1, MaxVersion = 1.*

**Capex**

* `OneRowPerKey`, `services/capex.py:144`. The look for a row and its INSERT are
  two transactions and template_key is not unique: of two seeds both insert;
  services/capex.py:122 says 'Insert/update equipment_v2 + capex_factors from a
  YAML template.' *Instance: Keys = {"mill", "cip"}, Circuits = {{"mill"},
  {"mill", "cip"}}, Rows = {"a", "b", "c"}, MaxTph = 2, Requests = {r1, r2}, Kinds
  = {"seed"}, Concurrent = TRUE.*
* `PriceKept`, `routes/capex.py:200`. patch_equipment does not set is_overridden
  (nothing does, since the migration), so any recomputation replaces the price;
  tests/test_capex_repo.py:121 says 'Overridden rows keep their manual price;
  un-overridden recompute from tph.' *Instance: Keys = {"mill", "cip"}, Circuits =
  {{"mill"}, {"mill", "cip"}}, Rows = {"a", "b", "c"}, MaxTph = 2, Requests =
  {r1}, Kinds = {"seed", "reset", "patch"}, Concurrent = FALSE.*
* `CircuitTold`, `routes/capex.py:79`. _project_or_404 reads id and target_tph
  only, so circuit_type is always the default 'WOL' (and reset_factors, which
  loads a template of that name, always fails); tests/test_capex_api.py:160 says
  'assert r.json()["circuit_type"] == "hpgr_ball"'. *Instance: Keys = {"mill",
  "cip"}, Circuits = {{"mill"}, {"mill", "cip"}}, Rows = {"a", "b", "c"}, MaxTph =
  2, Requests = {r1}, Kinds = {"seed"}, Concurrent = FALSE.*
* `TotalAsTested`, `services/capex.py:29`. aggregate_totals divides by 100 factors
  that templates, schema and tests give as fractions;
  tests/test_capex_service.py:21 says 'Direct=100, indirect 30%, epcm 15%,
  contingency 15% (cumulative).' *Instance: Keys = {"mill", "cip"}, Circuits =
  {{"mill"}, {"mill", "cip"}}, Rows = {"a", "b", "c"}, MaxTph = 2, Requests =
  {r1}, Kinds = {}, Concurrent = FALSE.*

**Startup**

* `NoneFails`, `main.py:573`. The look and CREATE TABLE are not under the lock
  that bootstrap and seed take: of two workers that find no table, one's CREATE
  waits for the other's and fails, and its startup with it (likewise the RENAME);
  main.py:561 says 'Create lims_detox if absent'. *Instance: Workers = {"a", "b"},
  MaxCrashes = 0, MaxFails = 0.*
* `HolderSeeds`, `main.py:337`. After a failed statement the unlock is refused in
  the aborted transaction and the error swallowed; the session lock stays with the
  pooled connection, so that workers that start later skip as well; main.py:323
  says 'skip if another worker is seeding'. *Instance: Workers = {"a", "b"},
  MaxCrashes = 0, MaxFails = 1.*

**MassBalance**

* `OneBalance`, `engines/mass_balance_engine.py:1734`. The DELETEs remove what was
  committed when each began: while one generation waits, a second commits and a
  third deletes the second's rows, commits its own, and the first then inserts
  next to them (two are enough in a project without a balance);
  routes/massbalance_v2.py:266 says 'Delete existing MB data and regenerate from
  the selected circuit template.' *Instance: Processes = {p1}, Requests = {r1, r2,
  r3}, Kinds = {"generate"}, Filled = TRUE, MaxGen = 4, MaxVersion = 1.*
* `SnapshotWhole`, `routes/massbalance_v2.py:461`. Sections and streams are read
  by two queries, each its own transaction: a generation between them gives a
  snapshot of streams whose sections it has not; routes/massbalance_v2.py:442 says
  'Save current MB as a named snapshot.' *Instance: Processes = {p1}, Requests =
  {r1, r2}, Kinds = {"generate", "snapshot"}, Filled = TRUE, MaxGen = 3,
  MaxVersion = 1.*
* `CacheFresh`, `routes/massbalance_v2.py:311`. _invalidate_dashboard is called
  before c.commit(): a dashboard computed in between keeps the old counters for
  two minutes; routes/dashboard.py:32 says 'Call this after any write that affects
  dashboard counters.' *Instance: Processes = {p1}, Requests = {r1, r2}, Kinds =
  {"generate", "dashboard"}, Filled = TRUE, MaxGen = 3, MaxVersion = 1.*
* `PatchSucceeds`, `routes/massbalance_v2.py:392`. model_dump(exclude_none=False)
  puts every field into updates, None for those not given, and float(None) is a
  TypeError; routes/massbalance_v2.py:347 says "Update a single stream's editable
  fields with optimistic locking." *Instance: Processes = {p1}, Requests = {r1},
  Kinds = {"partial"}, Filled = TRUE, MaxGen = 3, MaxVersion = 1.*

**Baseline**

* `PlanInForce`, `routes/metallurgical_decision.py:1187`. The deactivation is
  committed by itself before an INSERT that can fail (a source_run_id that is no
  longer there, or a second lock): no plan is in force then;
  routes/metallurgical_decision.py:1158 says 'Adopt a Pareto solution as the
  locked baseline (feasibility_adopted).' *Instance: Requests = {r1, r2, r3},
  Periods = {1}, MaxPlans = 3, MaxRuns = 2, Kinds = {"lock", "adopt", "delete"}.*
* `VarianceOfPlan`, `routes/metallurgical_decision.py:1480`. A month keeps the
  variance against the plan it was entered under, and is shown, and counted for
  the drift alert, next to the plan in force;
  routes/metallurgical_decision.py:1409 says 'Variance vs locked baseline,
  12-month history, drift alert.' *Instance: Requests = {r1, r2, r3}, Periods =
  {1}, MaxPlans = 3, MaxRuns = 2, Kinds = {"lock", "month"}.*
* `OthersKept`, `routes/metallurgical_decision.py:1452`. The DELETE names the
  project only, so it takes the simulation runs of every module (and the next
  statement is of a table that no migration creates, so the route then fails);
  routes/metallurgical_decision.py:1449 says 'Delete metallurgical-decision
  simulation runs for the current project.' *Instance: Requests = {r1, r2, r3},
  Periods = {1}, MaxPlans = 3, MaxRuns = 2, Kinds = {"delete"}.*

**ConnectionPool**

* `BudgetKept`, `db.py:44`. The share is computed for each process, and a service
  runs several (backend/Dockerfile starts four), so the pools of all together may
  open more than the server takes; db.py:31 says 'services share the connection
  budget fairly.' *Instance: Processes = {p1, p2, p3}, Requests = {r1, r2, r3}
  Home one per process, MaxConnections = 5, NumServices = 2, MinConn = 1, Calls =
  1, MaxRestarts = 0.*

**FlowsheetDiagram**

* `OneFlowsheet`, `routes/flowsheets.py:699`. DELETE and INSERT are two
  transactions and nothing makes project_id unique: of two generations both rows
  stay (and a failure in between leaves none); routes/flowsheets.py:698 says '#
  Save (replace existing)'. *Instance: Requests = {r1, r2}, Kinds = {"generate"},
  Ops = {o1, o2}, Changes = {}, Quiet = TRUE, MaxRows = 3, MaxChange = 3.*
* `OpsOnce`, `routes/circuit.py:1568`. Flowsheet and equipment are read before the
  transaction that writes them, and no tag is unique: two propagations both add;
  routes/circuit.py:1523 says 'Check if equipment with matching op_code tag prefix
  exists -- if not, add basic items'. *Instance: Requests = {r1, r2}, Kinds =
  {"generate", "propagate"}, Ops = {o1, o2}, Changes = {}, Quiet = TRUE, MaxRows =
  3, MaxChange = 3.*
* `EditKept`, `routes/circuit.py:1632`. All blocks are written as they were read
  some statements before, without a version: an edit saved in between is gone;
  routes/circuit.py:1525 says 'This is a simplified propagation that adds blocks
  to the existing flowsheet'. *Instance: Requests = {r1, r2}, Kinds = {"generate",
  "edit", "propagate"}, Ops = {o1, o2}, Changes = {}, Quiet = TRUE, MaxRows = 3,
  MaxChange = 3.*
* `StaleTold`, `routes/flowsheets.py:179`. The signature is of the template's id
  and of numbers of rows, so data that change in value leave it as it is;
  routes/flowsheets.py:270 says 'régénérez le flowsheet.' *Instance: Requests =
  {r1}, Kinds = {"generate-v2"}, Ops = {o1, o2}, Changes = {"value"}, Quiet =
  TRUE, MaxRows = 3, MaxChange = 3.*

**FlowsheetTopology**

* `TemplateDrawn`, `routes/flowsheets.py:506`. The HPGR is drawn from detail level
  2 on only, so a template with one, in a project in scoping, is drawn without
  comminution before the ball mill; routes/flowsheets.py:447 says '# flowsheet is
  always consistent with DC / MB.' *Instance: MaxChanges = 1.*

## 8. Not modelled, and the plan

The map covers a tenth of the lines of the implementation.  Most of the rest has no
states to explore:

* `engines/process_simulator.py`, `gade_engine.py`, `sim_unit_library.py`, most of
  `mass_balance_engine.py`, `dcf.py`, `nsga2_optimizer.py`, `compute/`: floating-point
  models of unit operations and of money, functions of their arguments.
* `routes/ni43101_generator.py` and the report and export modules: text and layout.
* `engines/circuit_catalog.py`, `dc_generator.py`'s tables, the YAML files: data.
  Where a model depends on them (orders of operations, bounds of classes, cascades)
  the entries it needs are in the model.
* Routes that read, list or filter, or that change one row by one statement
  (`projects`, `campaigns`, `lims`, `compliance`, `sim_module`): what they announce
  to the pipeline is an edit in `Pipeline`.
* WebSockets (`ws_manager.py`, `websocket_handlers.py`).  Both handlers return unless
  `client_state` is CONNECTED (`websocket_handlers.py:78` and 103), and it is CONNECTING
  until `accept()`, which comes later in the manager's `connect`: no client is ever let
  in, the lists stay empty, and a broadcast, of a task too
  (`tasks/simulation_tasks.py:172`), reaches nobody.  What would have to hold once the
  test is corrected (an exception other than `WebSocketDisconnect` leaves its socket
  listed, line 86; tasks broadcast with a manager of their own process) is not a
  property of this code.
* Access control and sessions (`auth.py`, `routes/auth.py`, `security_store.py`,
  `authz.py`), middleware, settings: outside this development, which is about the
  data and the work of a project.
* Migrations and `schema.sql`, except for the constraints that the models rely on
  (unique indexes, foreign keys, cascades, the audit trigger), which are mapped.

Partly modelled: of the Celery tasks those that keep a status; of `routes/risks.py`
the numbers and generations; of `routes/dashboard.py` the cache and the counting of
gates; of `main.py` the repair of the schema and the seed of the catalogue; of
`routes/metallurgical_decision.py` plans, months and runs.

Next, in this order: the composition of `Pipeline` with `AfterCommit` (the
announcement as a callback of the transaction that edits) and of `CeleryRuns` with
`ConnectionPool`; the deletion of a project under running jobs; the actors and rows that
`MCFlowsheets` names as constants, so that its theorems hold for any number of them.
