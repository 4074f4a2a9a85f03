----------------------------- MODULE MCRecords -----------------------------
(***************************************************************************)
(* What the application keeps about a project and its decisions, side by   *)
(* side: GISTM bases and rules, stage gates, the audit trail and offline   *)
(* sync, the module pipeline and the transactions' callbacks.  They keep   *)
(* data of their own, so that a behaviour of all is one of each; the       *)
(* variable part says which of them runs.  The activation of bases         *)
(* (DesignBasis) is taken in whole, for its theorems.                      *)
(***************************************************************************)
EXTENDS DesignBasis

CONSTANTS
  Parts,                                      \* which parts a run takes
  None,
  Bases, Authors, Managers, Dams,              \* of the evaluated designs
  People, Damage, Factor, Pga,                \* the numbers of the rules
  Stages, Items, Risks, Listers, Approvers,   \* of the gates
  Writers, w1, PullLimit, TrailTime, SharedTime,
  Mutations, Fields, Pushers, PushTime, PushRetries,
  Resolved, r1, ResolveTime,                  \* mutations whose conflicts are resolved
  p1,
  Runs, RunModules,                           \* of the regenerations side by side
  Transactions, Callbacks

VARIABLES part,
          bStatus, bVersion, bDrafting, bTx, bDesign,
          facility, tsf, gates, items, risks, lister, approver,
          auditClock, log, writer, mutations, recorded, since, pulled,
          syncClock, edits, events, queue, conflicts, push, reading,
          started, answered, accepted, retries,
          modStatus, criteria, outdated, silent, proc, crossed,
          control, outcome, home, fired

-----------------------------------------------------------------------------
(* The components under the constants of their parts.                      *)
Evaluations == INSTANCE DesignBasis WITH
  status <- bStatus, version <- bVersion, drafting <- bDrafting, tx <- bTx, design <- bDesign,
  Basis <- Bases, Author <- Authors, Manager <- Managers, Design <- Dams, Faults <- TRUE

Rules == INSTANCE GistmRules WITH design <- tsf

GateUse == INSTANCE StageGates WITH
  Stage <- Stages, Item <- Items, Risk <- Risks, Reader <- Listers, Approver <- Approvers,
  Overlap <- FALSE

Trail == INSTANCE AuditChain WITH clock <- auditClock, changes <- mutations,
  Writer <- {w1}, MaxTime <- TrailTime, Limit <- PullLimit, Triggers <- FALSE, DbFaults <- FALSE
SharedTrail == INSTANCE AuditChain WITH clock <- auditClock, changes <- mutations,
  Writer <- Writers, MaxTime <- SharedTime, Limit <- PullLimit, Triggers <- TRUE, DbFaults <- TRUE

Pushes == INSTANCE OfflineSync WITH clock <- syncClock,
  Mutation <- Mutations, Field <- Fields, Pusher <- Pushers, Resolver <- {},
  MaxTime <- PushTime, MaxRetries <- PushRetries, ServerEdits <- TRUE
Resolves == INSTANCE OfflineSync WITH clock <- syncClock,
  Mutation <- Resolved, Field <- Fields, Pusher <- Pushers, Resolver <- {r1},
  MaxTime <- ResolveTime, MaxRetries <- 0, ServerEdits <- TRUE

Requested == {"edit", "mark_complete", "mark_stale", "generate", "regenerate", "force"}
Announced == INSTANCE Pipeline WITH status <- modStatus,
  Module <- {"lims", "design_criteria", "mass_balance", "flowsheet"}, Proc <- {p1},
  Requests <- Requested, Crashes <- FALSE
Failing == INSTANCE Pipeline WITH status <- modStatus,
  Module <- RunModules, Proc <- Runs, Requests <- Requested, Crashes <- TRUE

Deferred == INSTANCE AfterCommit WITH Tx <- Transactions, Callback <- Callbacks

(* What the components assume of the constants above.                      *)
ASSUME RecordConstants ==
  /\ Evaluations!BasisAssumption
  /\ Rules!RuleAssumption
  /\ GateUse!StageAssumption
  /\ Trail!AuditAssumption /\ SharedTrail!AuditAssumption
  /\ Pushes!SyncAssumption /\ Resolves!SyncAssumption
  /\ Announced!PipelineAssumption
  /\ RunModules \subseteq {"design_criteria", "mass_balance", "flowsheet"}
  /\ Deferred!CallbackAssumption

-----------------------------------------------------------------------------
(* Which part may change which data.                                       *)
Rest ==
  /\ UNCHANGED part
  /\ IF part = "bases" THEN TRUE ELSE UNCHANGED vars
  /\ IF part = "designs" THEN TRUE ELSE UNCHANGED <<bStatus, bVersion, bDrafting, bTx, bDesign>>
  /\ IF part = "rules" THEN TRUE ELSE UNCHANGED <<facility, tsf>>
  /\ IF part = "gates" THEN TRUE ELSE UNCHANGED <<gates, items, risks, lister, approver>>
  /\ IF part \in {"trail", "shared_trail"} THEN TRUE
     ELSE UNCHANGED <<auditClock, log, writer, mutations, recorded, since, pulled>>
  /\ IF part \in {"pushes", "resolves"} THEN TRUE
     ELSE UNCHANGED <<syncClock, edits, events, queue, conflicts, push, reading,
                      started, answered, accepted, retries>>
  /\ IF part \in {"announced", "failing"} THEN TRUE
     ELSE UNCHANGED <<modStatus, criteria, outdated, silent, proc, crossed>>
  /\ IF part = "callbacks" THEN TRUE ELSE UNCHANGED <<control, outcome, home, fired>>

AllInit ==
  /\ part \in Parts
  /\ Init
  /\ Evaluations!Init
  /\ IF part = "rules" THEN Rules!Init ELSE facility = {} /\ tsf = {}
  /\ GateUse!Init
  /\ IF part = "shared_trail" THEN SharedTrail!Init ELSE Trail!Init
  /\ IF part = "resolves" THEN Resolves!Init ELSE Pushes!Init
  /\ IF part = "failing" THEN Failing!Init ELSE Announced!Init
  /\ Deferred!Init

BasisStep == part = "bases" /\ Next /\ Rest
DesignStep == part = "designs" /\ Evaluations!Next /\ Rest
RuleStep == part = "rules" /\ Rules!Next /\ Rest
GateStep == part = "gates" /\ GateUse!Next /\ Rest
TrailStep == part = "trail" /\ Trail!Next /\ Rest
SharedTrailStep == part = "shared_trail" /\ SharedTrail!Next /\ Rest
PushStep == part = "pushes" /\ Pushes!Next /\ Rest
ResolveStep == part = "resolves" /\ Resolves!Next /\ Rest
AnnouncedStep == part = "announced" /\ Announced!Next /\ Rest
FailingStep == part = "failing" /\ Failing!Next /\ Rest
CallbackStep == part = "callbacks" /\ Deferred!Next /\ Rest

AllNext == \/ BasisStep \/ DesignStep \/ RuleStep \/ GateStep \/ TrailStep \/ SharedTrailStep
           \/ PushStep \/ ResolveStep \/ AnnouncedStep \/ FailingStep \/ CallbackStep
allVars == <<part, vars, bStatus, bVersion, bDrafting, bTx, bDesign,
             facility, tsf, gates, items, risks, lister, approver,
             auditClock, log, writer, mutations, recorded, since, pulled,
             syncClock, edits, events, queue, conflicts, push, reading,
             started, answered, accepted, retries,
             modStatus, criteria, outdated, silent, proc, crossed,
             control, outcome, home, fired>>
AllSpec == AllInit /\ [][AllNext]_allVars

-----------------------------------------------------------------------------
(* OneActive and ImplementsRegister of DesignBasis: one basis is active, and *)
(* an activation replaces the active one in a single step.                   *)

(* What is recorded adds up, whatever runs at once and whatever fails: bases *)
(* are numbered without gaps, a design is evaluated against a basis that is  *)
(* or was in force, the stages of a project and their checklists exist all   *)
(* or not at all, audit events are chained backwards (and in one chain that  *)
(* a client receives whole, under one request at a time), and a mutation     *)
(* that was answered is queued or in conflict (gistm.py, geotech.py,         *)
(* stagegates.py, audit.py, sync.py).                                        *)
RecordsAddUp ==
  /\ part = "bases" => VersionsCount
  /\ part = "designs" => Evaluations!TypeOK /\ Evaluations!EvaluatedInForce
  /\ part = "rules" => Rules!LowerBoundsDecide
  /\ part = "gates" => GateUse!TypeOK /\ GateUse!AllOrNothing
  /\ part = "trail" => Trail!ChainVerifies /\ Trail!EveryMutationRecorded /\ Trail!PullMissesNothing
  /\ part = "shared_trail" => SharedTrail!TypeOK /\ SharedTrail!ChainsBackwards
  /\ part = "pushes" => Pushes!AnsweredIsAccountedFor /\ Pushes!ServerChangeIsSeen
  /\ part = "resolves" => Resolves!TypeOK

(* A decision is not taken back by what happens next: a facility that grows  *)
(* does not lose the errors and the flood warning of its design, a gate is   *)
(* approved with every item done and no blocking risk, and a conflict stays  *)
(* as it was resolved (gistm.py, stagegates.py, sync.py).                    *)
DecisionsStand ==
  [][/\ part = "rules" => Rules!GrowthNeverAbsolves /\ Rules!FloodWarningStays
     /\ part = "gates" => GateUse!ApprovalIsClear
     /\ part = "resolves" => Resolves!ResolutionIsFinal]_allVars

(* Callbacks run after the commit they were deferred to and never after a    *)
(* rollback, each once and in order (services/transaction.py).               *)
CallbacksFollowCommits ==
  part = "callbacks" =>
    Deferred!TypeOK /\ Deferred!FiresOnlyAfterCommit /\ Deferred!NoneLost /\ Deferred!RunInOrder

(* At rest, a module that is complete is up to date with every source whose  *)
(* change a cascade announced (routes/pipeline.py).                          *)
PipelineTells == part = "announced" => Announced!TypeOK /\ Announced!AnnouncedIsStale

(* Where regenerations and other requests overlap: an unforced regeneration  *)
(* completes a module only while its sources are complete, and one that      *)
(* stops at a failure leaves no target below it complete, except where       *)
(* another request or task set that very module in the meantime; also where  *)
(* the process is killed in between (routes/pipeline.py).                    *)
PipelineOrder ==
  [][part = "failing" =>
       Failing!GeneratedFromComplete /\ Failing!NothingCompleteBelowFailure]_allVars
=============================================================================
