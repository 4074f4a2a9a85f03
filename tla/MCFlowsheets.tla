---------------------------- MODULE MCFlowsheets ----------------------------
(***************************************************************************)
(* Flowsheets, what is compiled from them and what is calculated along     *)
(* them, side by side: the components keep data of their own, so that a    *)
(* behaviour of all is one of each.  The variable part says which of them  *)
(* runs; the others stay as they began.  The execution order (TopoSort) is *)
(* taken in whole, for its theorem.                                        *)
(***************************************************************************)
EXTENDS TopoSort

CONSTANTS Parts,                              \* which parts a run takes
          r1, r2, n1, n2, n3, n4, t1, t2, t3, l1, l2,
          Calculated, Entered, ChangedAtOnce, \* the registry of a cascade, and a bound on a change
          Redraws                             \* a bound on changes of a template that is drawn

VARIABLES part,
          recent, parent, home, treeReq,
          value, source, lims, valueReq,
          edges, labelled, trunk, node, todo, visited, branches,
          drawn, criteria, edits, snapshot, compilation, compileReq,
          tpl, clock, tplReq,
          dcOp, crit, status, snaps, dcReq,
          deps, given, dcQueue, dcOrder, dcTodo, values, updates, alerts, pc,
          input, blocks, links, ends, section, changes

-----------------------------------------------------------------------------
(* The components under the constants of their parts.                      *)
Tree == INSTANCE FlowsheetTree WITH req <- treeReq,
  Node <- {n1, n2, n3, n4}, Request <- {r1}, Catalogue <- {"cil"}, Size <- 2,
  Kinds <- {"add", "patch", "delete", "apply"}
SharedTree == INSTANCE FlowsheetTree WITH req <- treeReq,
  Node <- {n1, n2, n3}, Request <- {r1, r2}, Catalogue <- {"cil"}, Size <- 2,
  Kinds <- {"add", "unroot", "delete", "apply"}

NodeValues == INSTANCE FlowsheetValues WITH req <- valueReq,
  Field <- {"recovery", "water", "grade"}, Request <- {r1}

Subgraphs == INSTANCE Branches WITH N <- 5, Labels <- 1

Sheets == {{"sag", "cil"}, {"sag", "pox"}}
Compile == INSTANCE FlowsheetCompilation WITH flowsheet <- drawn, req <- compileReq,
  Requests <- {r1, r2}, Flowsheets <- Sheets, MaxEdits <- 3,
  Concurrent <- TRUE, MayFail <- TRUE, MayChange <- FALSE
CompileRace == INSTANCE FlowsheetCompilation WITH flowsheet <- drawn, req <- compileReq,
  Requests <- {r1, r2}, Flowsheets <- Sheets, MaxEdits <- 3,
  Concurrent <- TRUE, MayFail <- TRUE, MayChange <- TRUE

TemplateUse == INSTANCE CircuitTemplates WITH req <- tplReq,
  Templates <- {t1, t2, t3}, Requests <- {r1, r2}, MaxClock <- 5, Concurrent <- TRUE,
  Kinds <- {"create", "delete", "activate", "clone", "edit", "pipeline"}
SnapshotUse == INSTANCE CircuitTemplates WITH req <- tplReq,
  Templates <- {t1, t2, t3}, Requests <- {r1, r2}, MaxClock <- 5, Concurrent <- TRUE,
  Kinds <- {"create", "delete", "clone", "compile", "pipeline"}

Freezes == INSTANCE DcPipeline WITH op <- dcOp, req <- dcReq,
  Ops <- {"flotation", "mill"}, Labels <- {l1, l2}, Values <- {1}, MaxFrozen <- 2, Marked <- {},
  Requests <- {r1, r2}, Kinds <- {"topology", "edit", "freeze", "fail"}, Concurrent <- TRUE
StepMarks == INSTANCE DcPipeline WITH op <- dcOp, req <- dcReq,
  Ops <- {"flotation", "regrind", "gravity", "pretreatment", "mill"}, Labels <- {l1},
  Values <- {1}, MaxFrozen <- 0, Marked <- {}, Requests <- {r1}, Kinds <- {"topology"}, Concurrent <- FALSE
Marks == INSTANCE DcPipeline WITH op <- dcOp, req <- dcReq,
  Ops <- {"mill"}, Labels <- {l1}, Values <- {1}, MaxFrozen <- 0,
  Marked <- {"data_input", "comminution", "leaching"},
  Requests <- {r1, r2}, Kinds <- {"topology", "validate", "fail"}, Concurrent <- TRUE

Cascade == INSTANCE DcCascade WITH queue <- dcQueue, order <- dcOrder, todo <- dcTodo,
  NodeSeq <- Calculated, Inputs <- Entered, MaxChanged <- ChangedAtOnce, MaxValue <- 2

Topology == INSTANCE FlowsheetTopology WITH MaxChanges <- Redraws

\* The registry that TLC takes.
ThreeNodes == <<"sag", "mill", "power">>

(* What the components assume of the constants above.                      *)
ASSUME FlowsheetConstants ==
  /\ Tree!TreeAssumption /\ SharedTree!TreeAssumption
  /\ Compile!CompileConstants /\ CompileRace!CompileConstants
  /\ TemplateUse!TemplateConstants /\ SnapshotUse!TemplateConstants
  /\ Freezes!PipelineConstants /\ StepMarks!PipelineConstants /\ Marks!PipelineConstants
  /\ Cascade!CascadeConstants /\ Topology!TopologyConstants

-----------------------------------------------------------------------------
(* Which part may change which data.                                       *)
Rest ==
  /\ UNCHANGED part
  /\ IF part = "sort" THEN TRUE ELSE UNCHANGED vars
  /\ IF part \in {"tree", "shared_tree"} THEN TRUE ELSE UNCHANGED <<recent, parent, home, treeReq>>
  /\ IF part = "values" THEN TRUE ELSE UNCHANGED <<value, source, lims, valueReq>>
  /\ IF part = "branches" THEN TRUE ELSE UNCHANGED <<edges, labelled, trunk, node, todo, visited, branches>>
  /\ IF part \in {"compile", "compile_race"} THEN TRUE
     ELSE UNCHANGED <<drawn, criteria, edits, snapshot, compilation, compileReq>>
  /\ IF part \in {"templates", "snapshots"} THEN TRUE ELSE UNCHANGED <<tpl, clock, tplReq>>
  /\ IF part \in {"freezes", "steps", "marks"} THEN TRUE ELSE UNCHANGED <<dcOp, crit, status, snaps, dcReq>>
  /\ IF part = "cascade" THEN TRUE
     ELSE UNCHANGED <<deps, given, dcQueue, dcOrder, dcTodo, values, updates, alerts, pc>>
  /\ IF part = "topology" THEN TRUE ELSE UNCHANGED <<input, blocks, links, ends, section, changes>>

AllInit ==
  /\ part \in Parts
  /\ IF part = "sort" THEN Init
     ELSE /\ conns = <<>> /\ op = [v \in Node |-> "none"] /\ enabled = {} /\ at = 1
          /\ in_degree = [v \in Node |-> 0] /\ queue = <<>> /\ order = <<>>
  /\ IF part = "shared_tree" THEN SharedTree!Init ELSE Tree!Init
  /\ IF part = "values" THEN NodeValues!Init
     ELSE value = {} /\ source = "lims_auto" /\ lims = {} /\ valueReq = {}
  /\ IF part = "branches" THEN Subgraphs!Init
     ELSE /\ edges = {} /\ labelled = {} /\ trunk = {} /\ node = 0
          /\ todo = {} /\ visited = {} /\ branches = <<>>
  /\ IF part \in {"compile", "compile_race"} THEN Compile!Init
     ELSE /\ drawn = {} /\ criteria = 1 /\ edits = 0
          /\ snapshot = {} /\ compilation = {} /\ compileReq = {}
  /\ IF part = "snapshots" THEN SnapshotUse!Init ELSE TemplateUse!Init
  /\ IF part = "steps" THEN StepMarks!Init ELSE IF part = "marks" THEN Marks!Init ELSE Freezes!Init
  /\ IF part = "cascade" THEN Cascade!Init
     ELSE /\ deps = {} /\ given = {} /\ dcQueue = <<>> /\ dcOrder = <<>> /\ dcTodo = <<>>
          /\ values = {} /\ updates = {} /\ alerts = {} /\ pc = "done"
  /\ IF part = "topology" THEN Topology!Init
     ELSE input = {} /\ blocks = {} /\ links = {} /\ ends = {} /\ section = 1 /\ changes = 0

SortStep == part = "sort" /\ Next /\ Rest
TreeStep == part = "tree" /\ Tree!Next /\ Rest
SharedTreeStep == part = "shared_tree" /\ SharedTree!Next /\ Rest
ValueStep == part = "values" /\ NodeValues!Next /\ Rest
BranchStep == part = "branches" /\ Subgraphs!Next /\ Rest
CompileStep == part = "compile" /\ Compile!Next /\ Rest
CompileRaceStep == part = "compile_race" /\ CompileRace!Next /\ Rest
TemplateStep == part = "templates" /\ TemplateUse!Next /\ Rest
SnapshotStep == part = "snapshots" /\ SnapshotUse!Next /\ Rest
FreezeStep == part = "freezes" /\ Freezes!Next /\ Rest
StepsStep == part = "steps" /\ StepMarks!Next /\ Rest
MarksStep == part = "marks" /\ Marks!Next /\ Rest
CascadeStep == part = "cascade" /\ Cascade!Next /\ Rest
TopologyStep == part = "topology" /\ Topology!Next /\ Rest

AllNext == \/ SortStep \/ TreeStep \/ SharedTreeStep \/ ValueStep \/ BranchStep
           \/ CompileStep \/ CompileRaceStep \/ TemplateStep \/ SnapshotStep
           \/ FreezeStep \/ StepsStep \/ MarksStep \/ CascadeStep \/ TopologyStep
allVars == <<part, vars, recent, parent, home, treeReq, value, source, lims, valueReq,
             edges, labelled, trunk, node, todo, visited, branches,
             drawn, criteria, edits, snapshot, compilation, compileReq, tpl, clock, tplReq,
             dcOp, crit, status, snaps, dcReq, deps, given, dcQueue, dcOrder, dcTodo,
             values, updates, alerts, pc, input, blocks, links, ends, section, changes>>
AllSpec == AllInit /\ [][AllNext]_allVars

-----------------------------------------------------------------------------
(* OrderRespects of TopoSort: a block comes after all that feed it, and once. *)

(* The tree of operations stays one, with one root, under the requests of one *)
(* user; with several, an operation and its parent stay of one template and   *)
(* the flowsheet is created once; a value that a user entered is shown as     *)
(* entered (routes/flowsheet_tree.py).                                        *)
TreeHolds ==
  /\ part = "tree" => Tree!Acyclic /\ Tree!OneRoot
  /\ part = "shared_tree" => SharedTree!TypeOK /\ SharedTree!SameTemplate /\ SharedTree!CreatedOnce
  /\ part = "values" => NodeValues!ShownAsEntered

(* What a compilation names has its operations, but for those that the        *)
(* request which made it has still to add or died before adding; of requests  *)
(* that overlap one alone fills a snapshot; the order leaves out what a cycle *)
(* feeds and nothing else; a block is in one branch, between where it leaves  *)
(* the trunk and where it comes back (engines/compile.py,                     *)
(* engines/branch_detection.py).                                              *)
CompiledWhole ==
  /\ part = "compile" => Compile!TypeOK /\ Compile!RecordedIsWhole
  /\ part = "compile_race" => CompileRace!OneWriter
  /\ part = "sort" => LeftOverIsFed /\ LeftOverIsCyclic /\ NoFalseAlarm
  /\ part = "branches" => /\ Subgraphs!TypeOK /\ Subgraphs!Reconverges
                          /\ Subgraphs!BranchesDisjoint /\ Subgraphs!AllVisited

(* However requests overlap and wherever they die: what a compilation stands  *)
(* for loses nothing and only its maker adds to it, where nobody edits        *)
(* snapshots; an activation ends with its template the one that everyone      *)
(* picks; a step marked as validated is unmarked only by a validation that    *)
(* had read the state before (engines/compile.py, routes/circuit.py,          *)
(* routes/dc_pipeline.py).                                                    *)
VersionsStand ==
  [][/\ part = "compile" => Compile!Immutable
     /\ part = "templates" => TemplateUse!ActivationWins
     /\ part = "marks" => Marks!MarksStay]_allVars

(* However requests overlap: the criteria of a clone are not of an earlier    *)
(* state than its operations, nothing is cloned from a snapshot, and while no *)
(* topology is being set or failed half-way, what is frozen has a criterion   *)
(* for every operation and follows an earlier version.  The steps of the      *)
(* pipeline are in the order of the process, and the conditional ones that    *)
(* are shown are those anchored to a step that always is (routes/circuit.py,  *)
(* routes/dc_pipeline.py).                                                    *)
VersionsWhole ==
  /\ part = "templates" => TemplateUse!TypeOK /\ TemplateUse!CloneIsWhole
  /\ part = "snapshots" => SnapshotUse!SnapshotsApart
  /\ part = "freezes" => Freezes!TypeOK /\ Freezes!FrozenWhole
  /\ part = "steps" => StepMarks!StepsInOrder /\ StepMarks!EveryStepShown

(* A cascade ends with every calculated criterion equal to its formula for    *)
(* the values there are then; it overwrites nothing manual and tells exactly  *)
(* what it changed (engines/dc_cascade.py).                                   *)
CascadeSettles ==
  part = "cascade" => Cascade!TypeOK /\ Cascade!Settled /\ Cascade!OverrideKept /\ Cascade!UpdatesTold

(* Whatever is drawn, ore reaches doré and tailings through every block of    *)
(* the treatment, and no block is a dead end (routes/flowsheets.py).          *)
DrawingLeadsOn ==
  part = "topology" => Topology!OreGoesOn /\ Topology!NoDeadEnd /\ Topology!TreatmentOnTheWay
=============================================================================
