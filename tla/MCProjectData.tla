--------------------------- MODULE MCProjectData ----------------------------
(***************************************************************************)
(* The registers of one project, side by side: the components keep tables  *)
(* of their own, so that a behaviour of all is one of each.  The variable  *)
(* part says which of them runs; the others stay as they began.  A         *)
(* component with two parts runs under two sets of constants.              *)
(***************************************************************************)
EXTENDS Baseline

CONSTANTS
  Parts,                                    \* which parts a run takes
  r1, r2,                                   \* one request at a time, or two
  Categories, Found, Ids, MaxNumber,        \* of the risks
  Clerks, ItemGens, ItemVersions,           \* of the equipment
  Processes, BalanceUsers, MaxGen, MaxVersion,
  Keys, CostCircuits, OneItem, CostRows, MaxTph, CostUsers,
  Lockers,
  Users, Derived, Entered, MaxWrites, Editors, EditDerived, EditEntered, EditWrites,
  Ops, MaxRows, MaxChange          \* of the drawn flowsheet

VARIABLES part,
          risks, riskReq, added,
          items, gen, itemReq,
          sections, streams, pub, snaps, cache, balanceReq,
          row, factor, tph, circuit, capexReq,
          op, crit, circuitReq,
          rows, seen, machine, by, report, writes,
          fs, made, equip, src, saved, diagramReq

-----------------------------------------------------------------------------
(* The components under the constants of their parts.                      *)
Risks == INSTANCE RiskNumbers WITH req <- riskReq,
  Requests <- {r1, r2}, Generated <- Found,
  Kinds <- {"create", "generate", "delete"}, Concurrent <- FALSE

Leach == << <<"562", "PP">>, <<"562", "PP">> >>
Thickener == << <<"562", "PP">>, <<"562", "TK">> >>
(* Two operations of one WBS code that both have a pump.                   *)
Items == INSTANCE MerRegister WITH rows <- items, req <- itemReq,
  Requests <- {r1, r2}, Circuits <- {<<Leach, Thickener>>, <<Thickener>>}, Filled <- TRUE,
  Kinds <- {"generate", "dry", "patch"}, MaxGen <- 3, MaxVersion <- 2
ItemEdits == INSTANCE MerRegister WITH rows <- items, req <- itemReq,
  Requests <- Clerks, Circuits <- {<<Leach>>}, Filled <- TRUE,
  Kinds <- {"generate", "purge", "patch", "delete", "add"}, MaxGen <- ItemGens, MaxVersion <- ItemVersions

Balance == INSTANCE MassBalance WITH req <- balanceReq,
  Requests <- {r1}, Kinds <- {"generate", "patch", "partial", "snapshot", "dashboard"}, Filled <- FALSE
BalanceEdits == INSTANCE MassBalance WITH req <- balanceReq,
  Requests <- BalanceUsers, Kinds <- {"generate", "patch"}, Filled <- TRUE

Cost == INSTANCE Capex WITH req <- capexReq,
  Rows <- CostRows, Circuits <- CostCircuits, Requests <- {r1}, Kinds <- {"seed", "force", "reset", "patch", "add", "delete", "factor", "tph"},
  Concurrent <- FALSE
CostRace == INSTANCE Capex WITH req <- capexReq,
  Rows <- CostRows, Keys <- OneItem, Circuits <- {OneItem}, Requests <- CostUsers,
  Kinds <- {"force", "reset", "patch", "add", "delete", "factor"}, Concurrent <- TRUE

(* The plans as Baseline's constants have them, and locks and months only. *)
Locks == INSTANCE Baseline WITH Requests <- Lockers, Kinds <- {"lock", "month"}

Place(o) == CASE o = "mill" -> 210 [] o = "cyclone" -> 300 [] OTHER -> 830
MillFirst(o) == IF o = "cyclone" THEN {"mill"} ELSE {}
Circuit == INSTANCE CircuitCriteria WITH req <- circuitReq,
  Requests <- {r1}, Ops <- {"mill", "cyclone", "cil"}, Order <- [o \in {"mill", "cyclone", "cil"} |-> Place(o)],
  Deps <- [o \in {"mill", "cyclone", "cil"} |-> MillFirst(o)],
  Kinds <- {"add", "remove", "regenerate"}, Concurrent <- FALSE
Topologies == INSTANCE CircuitCriteria WITH req <- circuitReq,
  Requests <- {r1}, Ops <- {"mill", "cyclone"}, Order <- [o \in {"mill", "cyclone"} |-> Place(o)],
  Deps <- [o \in {"mill", "cyclone"} |-> MillFirst(o)],
  Kinds <- {"add", "remove", "topology", "patch"}, Concurrent <- FALSE

Values == INSTANCE CriteriaValues WITH last <- by,
  Kinds <- {"patch", "enrich", "calculate", "cascade"}, Concurrent <- TRUE
ValueEdits == INSTANCE CriteriaValues WITH last <- by,
  Users <- Editors, Derived <- EditDerived, Entered <- EditEntered, MaxWrites <- EditWrites,
  Kinds <- {"patch", "bulk", "enrich", "calculate", "cascade", "fail"}, Concurrent <- TRUE

Diagram == INSTANCE FlowsheetDiagram WITH req <- diagramReq,
  Requests <- {r1}, Kinds <- {"generate", "generate-v2", "purge", "edit", "propagate"},
  Changes <- {"count"}, Quiet <- TRUE

(* What the components assume of the constants above.                      *)
ASSUME DataConstants ==
  /\ Risks!RiskConstants /\ Items!MerConstants /\ ItemEdits!MerConstants
  /\ Balance!MassBalanceConstants /\ BalanceEdits!MassBalanceConstants
  /\ Cost!CapexConstants /\ CostRace!CapexConstants /\ Locks!BaselineConstants
  /\ Circuit!CriteriaConstants /\ Topologies!CriteriaConstants
  /\ Values!ValueConstants /\ ValueEdits!ValueConstants /\ Diagram!DiagramConstants

-----------------------------------------------------------------------------
(* Which part may change which tables.                                     *)
Rest == /\ UNCHANGED part
        /\ IF part \in {"risks"} THEN TRUE ELSE UNCHANGED <<risks, riskReq, added>>
        /\ IF part \in {"items", "item_edits"} THEN TRUE ELSE UNCHANGED <<items, gen, itemReq>>
        /\ IF part \in {"balance", "balance_edits"} THEN TRUE ELSE UNCHANGED <<sections, streams, pub, snaps, cache, balanceReq>>
        /\ IF part \in {"cost", "cost_race"} THEN TRUE ELSE UNCHANGED <<row, factor, tph, circuit, capexReq>>
        /\ IF part \in {"plans", "locks"} THEN TRUE ELSE UNCHANGED vars
        /\ IF part \in {"circuit", "topologies"} THEN TRUE ELSE UNCHANGED <<op, crit, circuitReq>>
        /\ IF part \in {"values", "value_edits"} THEN TRUE ELSE UNCHANGED <<rows, seen, machine, by, report, writes>>
        /\ IF part \in {"diagram"} THEN TRUE ELSE UNCHANGED <<fs, made, equip, src, saved, diagramReq>>

AllInit ==
  /\ part \in Parts
  /\ Risks!Init
  /\ IF part \in {"items", "item_edits"}
     THEN (part = "items" /\ Items!Init) \/ (part = "item_edits" /\ ItemEdits!Init)
     ELSE items = <<>> /\ gen = 1 /\ itemReq = <<>>
  /\ IF part = "balance_edits" THEN BalanceEdits!Init ELSE Balance!Init
  /\ IF part \in {"cost", "cost_race"}
     THEN (part = "cost" /\ Cost!Init) \/ (part = "cost_race" /\ CostRace!Init)
     ELSE row = <<>> /\ factor = <<>> /\ tph = 1 /\ circuit = {} /\ capexReq = <<>>
  /\ IF part = "locks" THEN Locks!Init ELSE Init
  /\ IF part = "topologies" THEN Topologies!Init ELSE Circuit!Init
  /\ IF part = "value_edits" THEN ValueEdits!Init ELSE Values!Init
  /\ Diagram!Init

RiskStep == part = "risks" /\ Risks!Next /\ Rest
ItemStep == part = "items" /\ Items!Next /\ Rest
ItemEditStep == part = "item_edits" /\ ItemEdits!Next /\ Rest
BalanceStep == part = "balance" /\ Balance!Next /\ Rest
BalanceEditStep == part = "balance_edits" /\ BalanceEdits!Next /\ Rest
CostStep == part = "cost" /\ Cost!Next /\ Rest
CostRaceStep == part = "cost_race" /\ CostRace!Next /\ Rest
PlanStep == part = "plans" /\ Next /\ Rest
LockStep == part = "locks" /\ Locks!Next /\ Rest
CircuitStep == part = "circuit" /\ Circuit!Next /\ Rest
TopologyStep == part = "topologies" /\ Topologies!Next /\ Rest
ValueStep == part = "values" /\ Values!Next /\ Rest
ValueEditStep == part = "value_edits" /\ ValueEdits!Next /\ Rest
DiagramStep == part = "diagram" /\ Diagram!Next /\ Rest

AllNext == \/ RiskStep \/ ItemStep \/ ItemEditStep \/ BalanceStep \/ BalanceEditStep
           \/ CostStep \/ CostRaceStep \/ PlanStep \/ LockStep \/ CircuitStep \/ TopologyStep
           \/ ValueStep \/ ValueEditStep \/ DiagramStep
allVars == <<part, risks, riskReq, added, items, gen, itemReq,
             sections, streams, pub, snaps, cache, balanceReq, row, factor, tph, circuit, capexReq, vars,
             op, crit, circuitReq, rows, seen, machine, by, report, writes,
             fs, made, equip, src, saved, diagramReq>>
AllSpec == AllInit /\ [][AllNext]_allVars

-----------------------------------------------------------------------------
(* PlansHold of Baseline: whatever locks, adoptions and deletions interleave, *)
(* the plan in force is the last one inserted, and plans name runs there.     *)

(* A project with a plan keeps one in force, whatever locks fail.             *)
PlanStaysInForce == part = "locks" => Locks!PlanInForce

(* Whatever is deleted while risks are numbered, one request at a time, only   *)
(* those that one generation found share a number; what a user wrote outlives  *)
(* generations, and these replace one another (routes/risks.py).  A generation *)
(* of the equipment register or of the mass balance that overlaps another, a   *)
(* dry run or an edit leaves one generation, its tags of their own, the        *)
(* published recoveries its, and no edit is overwritten by somebody who had    *)
(* not seen it (routes/equipment_v2.py, routes/massbalance_v2.py).  A copy of  *)
(* a criterion with the version of the row is the row but for the laboratory's *)
(* average, however users write while laboratory or calculation is at work     *)
(* (routes/circuit.py, engines/dc_generator.py).                               *)
RegistersWhole ==
  /\ part = "risks" => Risks!NumbersDistinct /\ Risks!ManualKept /\ Risks!OneGeneration
  /\ part = "items" => Items!OneGeneration /\ Items!TagsDistinct
  /\ part = "item_edits" => ItemEdits!NoneLost
  /\ part = "balance" => Balance!OneBalance
  /\ part = "balance_edits" => BalanceEdits!NoneLost
  /\ part = "value_edits" => ValueEdits!VersionTells

(* Between requests the enabled criteria are those of the operations of the   *)
(* template, all of them and each once, however operations are added, placed, *)
(* regenerated, removed and replaced (routes/circuit.py).                     *)
CriteriaFollowOperations ==
  /\ part = "circuit" => Circuit!TypeOK /\ Circuit!NoOrphans /\ Circuit!Complete /\ Circuit!NoDuplicate
  /\ part = "topologies" => Topologies!NoOrphans /\ Topologies!NoDuplicate

(* One drawn flowsheet, an operation once in it and in the equipment, answered *)
(* edits in it, and a change of the data's counts told (routes/flowsheets.py,  *)
(* routes/circuit.py).                                                         *)
DiagramWhole ==
  part = "diagram" => Diagram!OneFlowsheet /\ Diagram!OpsOnce /\ Diagram!EditKept /\ Diagram!StaleTold

(* No seed, forced seed or recomputation removes or prices what a user added,  *)
(* changes a factor that a user set, or ends with the price of another         *)
(* throughput (services/capex.py).                                             *)
UserCostsKept ==
  [][/\ part = "cost" => Cost!ManualSurvive /\ Cost!FactorKept /\ Cost!EndsPriced
     /\ part = "cost_race" => CostRace!ManualSurvive /\ CostRace!FactorKept]_allVars

(* However users write while the laboratory, a calculation or a cascade is at  *)
(* work (one of these at a time), a value marked manual is replaced by users   *)
(* only, or by the laboratory if it was not manual when the laboratory read    *)
(* (dc_generator.py); an edit of one row writes the fields it was told, and a  *)
(* calculation leaves the values that are not manual equal to their formula,   *)
(* unless the input has changed since it was read (dc_calculator.py).          *)
ManualValuesKept ==
  [][/\ part = "values" => Values!OverrideKept /\ Values!OnlyWhatWasTold /\ Values!CalculatedIsFresh
     /\ part = "value_edits" => ValueEdits!OverrideKept]_allVars
=============================================================================
