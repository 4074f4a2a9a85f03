------------------------- MODULE ProjectData_proofs -------------------------
(* What the registers of a project keep, for every value of the constants: *)
(* each part has an inductive invariant of its own, which AllInit gives,   *)
(* which its steps keep, and which implies the property of the run.  The   *)
(* theorems are SpecPlansHold (of Baseline), AllPlansHold, AllPlansStay,   *)
(* AllManualValuesKept, AllUserCostsKept, AllRegistersWhole,               *)
(* AllDiagramWhole and AllCriteriaFollow.                                  *)
EXTENDS MCProjectData, TLAPS, FiniteSetTheorems, WellFoundedInduction
(* The part that runs is the part that began.                               *)
LEMMA PartStays == [AllNext]_allVars => part' = part
  BY DEF allVars, AllNext, Rest, RiskStep, ItemStep, ItemEditStep, BalanceStep, BalanceEditStep, CostStep,
         CostRaceStep, PlanStep, LockStep, CircuitStep, TopologyStep, ValueStep, ValueEditStep, DiagramStep


(* Plans are rows, whatever is in them: what the two parts of PlansHold     *)
(* need to be kept by each step.                                            *)
Plan == [run : {0} \cup DOMAIN runs, active : BOOLEAN]
PlanInv == plans \in Seq(Plan) /\ NewestActive

(* Plans so kept are those of PlansHold.                                    *)
LEMMA PlansAreHeld == PlanInv => PlansHold
  <1> SUFFICES ASSUME PlanInv PROVE SourceThere
    BY DEF PlanInv, PlansHold
  <1>1. \A i \in DOMAIN plans : plans[i] \in Plan
    BY DEF PlanInv
  <1> QED BY <1>1 DEF SourceThere, Plan

(* A step that keeps the plans and loses no run.                            *)
LEMMA KeptPlans ==
  ASSUME PlanInv, plans' = plans, DOMAIN runs \subseteq DOMAIN runs'
  PROVE  PlanInv'
  <1>1. \A i \in DOMAIN plans : plans[i] \in Plan
    BY DEF PlanInv
  <1>2. Plan \subseteq Plan'
    BY DEF Plan
  <1>3. plans \in Seq(Plan')
    BY <1>2 DEF PlanInv
  <1> QED BY <1>3 DEF PlanInv, NewestActive, Active

(* A plan is inserted in force where none was ...                           *)
LEMMA InsertKeeps ==
  ASSUME PlanInv, NEW r, Insert(r)
  PROVE  PlanInv'
  <1> DEFINE p == [run |-> req[r].run, active |-> TRUE]
  <1>1. p \in Plan /\ Plan' = Plan /\ plans \in Seq(Plan) /\ plans' = Append(plans, p)
    BY DEF Insert, Inserted, Plan, PlanInv
  <1> HIDE DEF p
  <1>2. /\ plans' \in Seq(Plan) /\ Len(plans') = Len(plans) + 1
        /\ \A i \in DOMAIN plans' : i = Len(plans') \/ (i \in DOMAIN plans /\ plans'[i] = plans[i])
    BY <1>1
  <1>3. \A i \in DOMAIN plans : ~plans[i].active
    BY DEF Insert, Active
  <1>4. NewestActive'
    BY <1>2, <1>3 DEF NewestActive, Active
  <1> QED BY <1>1, <1>2, <1>4 DEF PlanInv

(* A statement that rewrites every row of the table.                        *)
LEMMA RewriteKeeps ==
  ASSUME PlanInv, plans' \in [DOMAIN plans -> Plan'],
         \A i \in DOMAIN plans : plans'[i].active => plans[i].active
  PROVE  PlanInv'
  <1>1. plans \in Seq(Plan)
    BY DEF PlanInv
  <1>2. Len(plans) \in Nat /\ DOMAIN plans = 1 .. Len(plans)
    BY <1>1
  <1>3. plans' \in [1 .. Len(plans) -> Plan']
    BY <1>2
  <1>4. plans' \in Seq(Plan') /\ Len(plans') = Len(plans)
    BY <1>2, <1>3
  <1>5. NewestActive'
    BY <1>3, <1>4, <1>2 DEF NewestActive, Active, PlanInv
  <1> QED BY <1>4, <1>5 DEF PlanInv

(* ... or all are taken out of force ...                                    *)
LEMMA DeactivateKeeps ==
  ASSUME PlanInv, NEW r, Deactivate(r)
  PROVE  PlanInv'
  <1>1. \A i \in DOMAIN plans : plans[i] \in Plan
    BY DEF PlanInv
  <1>2. Plan' = Plan
    BY DEF Deactivate, Plan
  <1>3. plans' = [i \in DOMAIN plans |-> [plans[i] EXCEPT !.active = FALSE]]
    BY DEF Deactivate
  <1>4. \A i \in DOMAIN plans : [plans[i] EXCEPT !.active = FALSE] \in Plan
    BY <1>1 DEF Plan
  <1>5. \A i \in DOMAIN plans : ~[plans[i] EXCEPT !.active = FALSE].active
    BY <1>1 DEF Plan
  <1>6. plans' \in [DOMAIN plans -> Plan']
    BY <1>2, <1>3, <1>4
  <1>7. \A i \in DOMAIN plans : plans'[i].active => plans[i].active
    BY <1>3, <1>5
  <1> QED BY <1>6, <1>7, RewriteKeeps

(* ... and a run is deleted with none of its plans left.                    *)
LEMMA DeleteKeeps ==
  ASSUME PlanInv, NEW r, DeleteRuns(r)
  PROVE  PlanInv'
  <1>1. \A i \in DOMAIN plans : plans[i] \in Plan
    BY DEF PlanInv
  <1>2. plans' = [i \in DOMAIN plans |-> [plans[i] EXCEPT !.run = 0]]
    BY DEF DeleteRuns
  <1>3. \A i \in DOMAIN plans : /\ [plans[i] EXCEPT !.run = 0] \in Plan'
                                /\ [plans[i] EXCEPT !.run = 0].active = plans[i].active
    BY <1>1 DEF Plan
  <1>4. plans' \in [DOMAIN plans -> Plan']
    BY <1>2, <1>3
  <1>5. \A i \in DOMAIN plans : plans'[i].active => plans[i].active
    BY <1>2, <1>3
  <1> QED BY <1>4, <1>5, RewriteKeeps


(* Each step of the plans keeps them.                                       *)
LEMMA PlanStepKeeps ==
  ASSUME PlanInv, [Next]_vars
  PROVE  PlanInv'
  <1>1. CASE UNCHANGED vars
    BY <1>1, KeptPlans DEF vars
  <1>2. CASE NewRun
    <2>1. PICK own \in BOOLEAN :
            runs' = [n \in DOMAIN runs \cup {last'} |-> IF n = last' THEN own ELSE runs[n]]
      BY <1>2 DEF NewRun
    <2> QED BY <1>2, <2>1, KeptPlans DEF NewRun
  <1>3. ASSUME NEW r \in Requests, Lock(r) \/ Adopt(r) \/ InsertFails(r) \/ Measure(r) \/ Upsert(r) \/ DeleteFails(r)
        PROVE  PlanInv'
    BY <1>3, KeptPlans DEF Lock, Adopt, InsertFails, Measure, Upsert, DeleteFails
  <1>4. ASSUME NEW r \in Requests, Deactivate(r) PROVE PlanInv'
    BY <1>4, DeactivateKeeps
  <1>5. ASSUME NEW r \in Requests, Insert(r) PROVE PlanInv'
    BY <1>5, InsertKeeps
  <1>6. ASSUME NEW r \in Requests, DeleteRuns(r) PROVE PlanInv'
    BY <1>6, DeleteKeeps
  <1> QED BY <1>1, <1>2, <1>3, <1>4, <1>5, <1>6 DEF Next

-----------------------------------------------------------------------------
(* Where nothing is deleted: a lock has a run that is there, and while no    *)
(* plan is in force somebody is about to insert one.                        *)
LockRow == [at : {"idle", "deactivate", "insert", "month"}, run : Nat, plan : Nat, period : Periods \cup {0}]
Pending == \E r \in Lockers : req[r].at = "insert"
LockInv ==
  /\ PlanInv
  /\ req \in [Lockers -> LockRow] /\ last \in Nat
  /\ \A r \in Lockers : req[r].at \in {"deactivate", "insert"} => req[r].run \in DOMAIN runs
  /\ plans # <<>> /\ Active = {} => Pending

(* A step of one request that keeps plans and runs, and does not end an     *)
(* insertion.                                                               *)
LEMMA LockMoves ==
  ASSUME LockInv, NEW r \in Lockers, NEW next \in LockRow, req' = [req EXCEPT ![r] = next],
         UNCHANGED <<plans, runs, last>>,
         next.at \in {"deactivate", "insert"} => next.run \in DOMAIN runs,
         req[r].at # "insert" \/ Active # {}
  PROVE  LockInv'
  <1>1. PlanInv'
    BY KeptPlans DEF LockInv
  <1>2. req' \in [Lockers -> LockRow] /\ last' \in Nat
    BY DEF LockInv
  <1>3. \A q \in Lockers : req'[q] = IF q = r THEN next ELSE req[q]
    BY DEF LockInv
  <1>4. \A q \in Lockers : req'[q].at \in {"deactivate", "insert"} => req'[q].run \in DOMAIN runs'
    BY <1>3 DEF LockInv
  <1>5. Active' = Active
    BY DEF Active
  <1>6. plans' # <<>> /\ Active' = {} => Pending'
    <2> SUFFICES ASSUME plans # <<>>, Active = {} PROVE \E q \in Lockers : req'[q].at = "insert"
      BY <1>5 DEF Pending
    <2>1. PICK q \in Lockers : req[q].at = "insert"
      BY DEF LockInv, Pending
    <2> QED BY <2>1, <1>3
  <1> QED BY <1>1, <1>2, <1>4, <1>6 DEF LockInv

(* The records of a request that begins, or has ended.                      *)
LEMMA BegunLock ==
  ASSUME NEW n \in Nat
  PROVE  LET next == [Locks!Idle EXCEPT !.at = "deactivate", !.run = n]
         IN  next \in LockRow /\ next.at = "deactivate" /\ next.run = n
  BY DEF LockRow, Locks!Idle

(* A month of the locks that begins.                                        *)
LEMMA BegunMonth ==
  ASSUME NEW i \in Nat, NEW p \in Periods
  PROVE  LET next == [Locks!Idle EXCEPT !.at = "month", !.plan = i, !.period = p]
         IN  next \in LockRow /\ next.at = "month"
  BY DEF LockRow, Locks!Idle

(* A lock that is not under way.                                            *)
LEMMA IdleRow == Locks!Idle \in LockRow /\ Locks!Idle.at = "idle"
  BY DEF LockRow, Locks!Idle

(* Each step of the locks keeps a plan in force.                            *)
LEMMA LockStepKeeps ==
  ASSUME DataConstants, LockInv, [Locks!Next]_vars
  PROVE  LockInv'
  <1>0. req \in [Lockers -> LockRow] /\ last \in Nat /\ PlanInv
    BY DEF LockInv
  <1>i. \A i \in DOMAIN plans : i \in Nat
    BY <1>0 DEF PlanInv
  <1>1. CASE UNCHANGED vars
    BY <1>1, KeptPlans DEF vars, LockInv, Active, Pending
  <1>2. CASE Locks!NewRun
    <2>1. PICK own \in BOOLEAN :
            runs' = [n \in DOMAIN runs \cup {last'} |-> IF n = last' THEN own ELSE runs[n]]
      BY <1>2 DEF Locks!NewRun
    <2>2. DOMAIN runs \subseteq DOMAIN runs' /\ plans' = plans /\ req' = req /\ last' \in Nat
      BY <1>0, <1>2, <2>1 DEF Locks!NewRun
    <2>3. PlanInv'
      BY <2>2, <1>0, KeptPlans
    <2>4. Active' = Active /\ Pending' = Pending
      BY <2>2 DEF Active, Pending
    <2> QED BY <2>2, <2>3, <2>4 DEF LockInv
  <1>3. ASSUME NEW r \in Lockers, Locks!Lock(r) PROVE LockInv'
    <2>1. /\ req' = [req EXCEPT ![r] = [Locks!Idle EXCEPT !.at = "deactivate", !.run = last]]
          /\ last \in DOMAIN runs /\ req[r] = Locks!Idle /\ UNCHANGED <<plans, runs, last>>
      BY <1>3 DEF Locks!Lock, Locks!Go
    <2> QED BY <2>1, <1>0, BegunLock, IdleRow, LockMoves
  <1>4. ASSUME NEW r \in Lockers, Locks!InsertFails(r) PROVE LockInv'
    <2>1. /\ req' = [req EXCEPT ![r] = Locks!Idle] /\ req[r].at = "insert"
          /\ UNCHANGED <<plans, runs, last>> /\ (req[r].run \in DOMAIN runs => Active # {})
      BY <1>4 DEF Locks!InsertFails, Locks!Go, Locks!Active, Active
    <2>2. Active # {}
      BY <2>1 DEF LockInv
    <2> QED BY <2>1, <2>2, IdleRow, LockMoves
  <1>5. ASSUME NEW r \in Lockers, Locks!Measure(r) PROVE LockInv'
    <2>1. PICK i \in Active, p \in Periods :
            /\ req' = [req EXCEPT ![r] = [Locks!Idle EXCEPT !.at = "month", !.plan = i, !.period = p]]
            /\ req[r] = Locks!Idle /\ UNCHANGED <<plans, runs, last>>
      BY <1>5 DEF Locks!Measure, Locks!Go, Locks!Active, Active
    <2>2. i \in Nat
      BY <1>i DEF Active
    <2> QED BY <2>1, <2>2, BegunMonth, IdleRow, LockMoves
  <1>6. ASSUME NEW r \in Lockers, Locks!Upsert(r) \/ Locks!DeleteFails(r) PROVE LockInv'
    <2>1. /\ req' = [req EXCEPT ![r] = Locks!Idle] /\ req[r].at # "insert" /\ UNCHANGED <<plans, runs, last>>
      BY <1>6 DEF Locks!Upsert, Locks!DeleteFails, Locks!Go
    <2> QED BY <2>1, IdleRow, LockMoves
  <1>7. ASSUME NEW r \in Lockers, Locks!Adopt(r) \/ Locks!DeleteRuns(r) PROVE FALSE
    BY <1>7 DEF Locks!Adopt, Locks!DeleteRuns
  <1>8. ASSUME NEW r \in Lockers, Locks!Deactivate(r) PROVE LockInv'
    <2>1. Deactivate(r) /\ req[r].at = "deactivate" /\ runs' = runs /\ last' = last
      BY <1>8 DEF Locks!Deactivate, Deactivate, Locks!Go, Go
    <2>2. PlanInv'
      BY <2>1, <1>0, DeactivateKeeps
    <2> DEFINE next == [req[r] EXCEPT !.at = "insert"]
    <2>3. next \in LockRow /\ next.at = "insert" /\ next.run = req[r].run
      BY <1>0 DEF LockRow
    <2>4. req' = [req EXCEPT ![r] = next]
      BY <2>1 DEF Deactivate, Go
    <2> HIDE DEF next
    <2>5. req' \in [Lockers -> LockRow] /\ \A q \in Lockers : req'[q] = IF q = r THEN next ELSE req[q]
      BY <1>0, <2>3, <2>4
    <2>6. \A q \in Lockers : req'[q].at \in {"deactivate", "insert"} => req'[q].run \in DOMAIN runs'
      BY <2>1, <2>3, <2>5 DEF LockInv
    <2>7. Pending'
      BY <2>3, <2>5 DEF Pending
    <2> QED BY <1>0, <2>1, <2>2, <2>5, <2>6, <2>7 DEF LockInv
  <1>9. ASSUME NEW r \in Lockers, Locks!Insert(r) PROVE LockInv'
    <2>1. Insert(r) /\ runs' = runs /\ last' = last /\ req' = [req EXCEPT ![r] = Locks!Idle]
      BY <1>9 DEF Locks!Insert, Insert, Locks!Go, Go, Locks!Idle, Idle, Locks!Active, Active, Locks!Inserted, Inserted
    <2>2. PlanInv'
      BY <2>1, <1>0, InsertKeeps
    <2>3. req' \in [Lockers -> LockRow] /\ \A q \in Lockers : req'[q] = IF q = r THEN Locks!Idle ELSE req[q]
      BY <1>0, <2>1, IdleRow
    <2>4. \A q \in Lockers : req'[q].at \in {"deactivate", "insert"} => req'[q].run \in DOMAIN runs'
      BY <2>1, <2>3, IdleRow DEF LockInv
    <2>5. Active' # {}
      <3> DEFINE p == [run |-> req[r].run, active |-> TRUE]
      <3>1. plans' = Append(plans, p) /\ p.active
        BY <2>1 DEF Insert, Inserted
      <3> HIDE DEF p
      <3>2. plans \in Seq(Plan)
        BY <1>0 DEF PlanInv
      <3>3. Len(plans) + 1 \in DOMAIN plans' /\ plans'[Len(plans) + 1] = p
        BY <3>1, <3>2
      <3> QED BY <3>1, <3>3 DEF Active
    <2> QED BY <1>0, <2>1, <2>2, <2>3, <2>4, <2>5 DEF LockInv
  <1> QED BY <1>1, <1>2, <1>3, <1>4, <1>5, <1>6, <1>7, <1>8, <1>9 DEF Locks!Next

(* So a project with a plan has one in force.                               *)
LEMMA LocksAreHeld == LockInv => Locks!PlanInForce /\ PlansHold
  <1> SUFFICES ASSUME LockInv PROVE Locks!PlanInForce /\ PlansHold
    OBVIOUS
  <1>1. PlansHold
    BY PlansAreHeld DEF LockInv
  <1>2. Locks!Idle.at = "idle"
    BY DEF Locks!Idle
  <1>3. Locks!PlanInForce
    BY <1>2 DEF LockInv, Pending, Locks!PlanInForce, Locks!Active, Active
  <1> QED BY <1>1, <1>3

(* What the parts with plans keep: the plans, and in the part of the locks   *)
(* their requests.                                                          *)
AllPlanInv == PlanInv /\ (part = "locks" => LockInv)

(* The registers begin with plans that are held ...                         *)
LEMMA PlansBegin == AllInit => AllPlanInv
  <1> SUFFICES ASSUME AllInit PROVE AllPlanInv
    OBVIOUS
  <1>1. plans = <<>> /\ plans \in Seq(Plan) /\ DOMAIN plans = {}
    <2>1. plans = <<>>
      BY DEF AllInit, Init, Locks!Init
    <2> QED BY <2>1
  <1>2. PlanInv
    BY <1>1 DEF PlanInv, NewestActive, Active
  <1>3. ASSUME part = "locks" PROVE LockInv
    <2>1. req = [r \in Lockers |-> Locks!Idle] /\ last = 0
      BY <1>3 DEF AllInit, Locks!Init
    <2> QED BY <1>1, <1>2, <2>1, IdleRow DEF LockInv
  <1> QED BY <1>2, <1>3 DEF AllPlanInv

(* ... and every step of theirs keeps them so.                              *)
LEMMA PlansContinue == AllPlanInv /\ [AllNext]_allVars => AllPlanInv'
  <1> SUFFICES ASSUME AllPlanInv, [AllNext]_allVars PROVE AllPlanInv'
    OBVIOUS
  <1>1. part' = part
    BY DEF allVars, AllNext, Rest, RiskStep, ItemStep, ItemEditStep, BalanceStep, BalanceEditStep, CostStep,
           CostRaceStep, PlanStep, LockStep, CircuitStep, TopologyStep, ValueStep, ValueEditStep, DiagramStep
  <1>2. CASE PlanStep
    BY <1>1, <1>2, PlanStepKeeps DEF PlanStep, AllPlanInv
  <1>3. CASE LockStep
    BY <1>1, <1>3, LockStepKeeps, DataConstants DEF LockStep, AllPlanInv, LockInv
  <1>4. CASE UNCHANGED vars
    <2>1. PlanInv'
      BY <1>4, PlanStepKeeps DEF AllPlanInv
    <2>2. part = "locks" => LockInv'
      BY <1>4, LockStepKeeps, DataConstants DEF AllPlanInv
    <2> QED BY <1>1, <2>1, <2>2 DEF AllPlanInv
  <1>5. PlanStep \/ LockStep \/ UNCHANGED vars
    BY DEF allVars, AllNext, Rest, RiskStep, ItemStep, ItemEditStep, BalanceStep, BalanceEditStep, CostStep,
           CostRaceStep, CircuitStep, TopologyStep, ValueStep, ValueEditStep, DiagramStep
  <1> QED BY <1>2, <1>3, <1>4, <1>5

(* The plans of a project, in its own module: for any number of requests,   *)
(* plans and runs one plan at most is in force, the newest, and plans name   *)
(* runs that are there.                                                     *)
THEOREM SpecPlansHold == Spec => []PlansHold
  <1>1. Init => PlanInv
    <2> SUFFICES ASSUME Init PROVE PlanInv
      OBVIOUS
    <2>1. plans = <<>> /\ plans \in Seq(Plan) /\ DOMAIN plans = {}
      BY DEF Init
    <2> QED BY <2>1 DEF PlanInv, NewestActive, Active
  <1> QED BY <1>1, PlanStepKeeps, PlansAreHeld, PTL DEF Spec

(* PlansHold of Baseline in every behaviour of the registers.               *)
THEOREM AllPlansHold == AllSpec => []PlansHold
  <1>1. AllPlanInv => PlansHold
    BY PlansAreHeld DEF AllPlanInv
  <1> QED BY <1>1, PlansBegin, PlansContinue, PTL DEF AllSpec

(* A project with a plan keeps one in force, however many lock at once, as  *)
(* long as no run is deleted and only the newest is locked.                 *)
THEOREM AllPlansStay == AllSpec => []PlanStaysInForce
  <1>1. AllPlanInv => PlanStaysInForce
    BY LocksAreHeld DEF AllPlanInv, PlanStaysInForce
  <1> QED BY <1>1, PlansBegin, PlansContinue, PTL DEF AllSpec
(* A row that changes has a new version, greater than that of every copy,   *)
(* unless the laboratory's average is put in: that leaves the version.      *)
ValueRow == [design : Nat, nominal : Nat, source : {"X", "L", "C", "M", "NULL"}, version : Nat]
ValueTypes == /\ rows \in [ValueEdits!Rows -> ValueRow] /\ seen \in [Editors -> [ValueEdits!Rows -> ValueRow]]
         /\ machine \in [at : {"idle", "enrich", "calculate", "cascade"}, read : [ValueEdits!Rows -> ValueRow], left : SUBSET EditDerived]
Measured(vr) == [vr EXCEPT !.design = ValueEdits!Laboratory, !.source = "L"]
OlderCopies == \A u \in Editors, r \in ValueEdits!Rows :
  seen[u][r] = rows[r] \/ (r = "input" /\ rows[r] = Measured(seen[u][r])) \/ seen[u][r].version < rows[r].version
ValueInv == ValueTypes /\ OlderCopies

(* What the laboratory makes of a row.                                      *)
LEMMA MeasuredRow ==
  ASSUME NEW vr \in ValueRow
  PROVE  Measured(vr) \in ValueRow /\ Measured(vr).version = vr.version /\ Measured(Measured(vr)) = Measured(vr)
  BY DEF Measured, ValueRow, ValueEdits!Laboratory

(* What a write may do: versions grow, and copies are kept or refreshed.    *)
LEMMA WriteKeeps ==
  ASSUME ValueInv, ValueTypes', \A r \in ValueEdits!Rows : rows'[r] = rows[r] \/ rows'[r].version = rows[r].version + 1,
         \A u \in Editors, r \in ValueEdits!Rows : seen'[u][r] = seen[u][r] \/ seen'[u][r] = rows'[r]
  PROVE  ValueInv'
  <1>1. ASSUME NEW u \in Editors, NEW r \in ValueEdits!Rows
        PROVE  seen'[u][r] = rows'[r] \/ (r = "input" /\ rows'[r] = Measured(seen'[u][r])) \/ seen'[u][r].version < rows'[r].version
    <2>1. /\ rows[r] \in ValueRow /\ seen[u][r] \in ValueRow
          /\ seen[u][r] = rows[r] \/ (r = "input" /\ rows[r] = Measured(seen[u][r])) \/ seen[u][r].version < rows[r].version
      BY DEF ValueInv, ValueTypes, OlderCopies
    <2>2. rows[r].version \in Nat /\ seen[u][r].version \in Nat
      BY <2>1 DEF ValueRow
    <2>3. Measured(seen[u][r]).version = seen[u][r].version
      BY <2>1, MeasuredRow
    <2>4. seen[u][r].version <= rows[r].version
      BY <2>1, <2>2, <2>3
    <2>5. CASE rows'[r] = rows[r] /\ seen'[u][r] = seen[u][r]
      BY <2>1, <2>5
    <2>6. CASE rows'[r].version = rows[r].version + 1 /\ seen'[u][r] = seen[u][r]
      BY <2>2, <2>4, <2>6
    <2>7. rows'[r] = rows[r] \/ rows'[r].version = rows[r].version + 1
      OBVIOUS
    <2>8. seen'[u][r] = seen[u][r] \/ seen'[u][r] = rows'[r]
      OBVIOUS
    <2> QED BY <2>5, <2>6, <2>7, <2>8
  <1> QED BY <1>1 DEF ValueInv, OlderCopies, Measured

(* The laboratory's average is put in under the version that is there.      *)
LEMMA MeasureKeeps ==
  ASSUME ValueInv, rows' = [rows EXCEPT !["input"].design = ValueEdits!Laboratory, !["input"].source = "L"],
         seen' = seen, machine' = ValueEdits!Idle
  PROVE  ValueInv'
  <1>1. "input" \in ValueEdits!Rows /\ rows \in [ValueEdits!Rows -> ValueRow] /\ seen \in [Editors -> [ValueEdits!Rows -> ValueRow]]
    BY DEF ValueInv, ValueTypes, ValueEdits!Rows
  <1>2. rows' = [rows EXCEPT !["input"] = Measured(rows["input"])]
    BY <1>1 DEF Measured
  <1>3. Measured(rows["input"]) \in ValueRow /\ Measured(rows["input"]).version = rows["input"].version
    BY <1>1, MeasuredRow
  <1>4. rows' \in [ValueEdits!Rows -> ValueRow] /\ \A r \in ValueEdits!Rows : rows'[r] = IF r = "input" THEN Measured(rows[r]) ELSE rows[r]
    BY <1>1, <1>2, <1>3
  <1>5. ValueEdits!Idle \in [at : {"idle", "enrich", "calculate", "cascade"}, read : [ValueEdits!Rows -> ValueRow], left : SUBSET EditDerived]
    BY DEF ValueEdits!Idle, ValueEdits!Default, ValueRow
  <1>6. ValueTypes'
    BY <1>1, <1>4, <1>5 DEF ValueTypes
  <1>7. ASSUME NEW u \in Editors, NEW r \in ValueEdits!Rows
        PROVE  seen[u][r] = rows'[r] \/ (r = "input" /\ rows'[r] = Measured(seen[u][r])) \/ seen[u][r].version < rows'[r].version
    <2>1. seen[u][r] = rows[r] \/ (r = "input" /\ rows[r] = Measured(seen[u][r])) \/ seen[u][r].version < rows[r].version
      BY DEF ValueInv, OlderCopies
    <2>2. CASE r # "input"
      BY <2>1, <2>2, <1>4
    <2>3. CASE r = "input"
      <3>1. rows'[r] = Measured(rows[r]) /\ seen[u][r] \in ValueRow /\ Measured(rows[r]).version = rows[r].version
        BY <2>3, <1>1, <1>3, <1>4
      <3>2. Measured(Measured(seen[u][r])) = Measured(seen[u][r])
        BY <3>1, MeasuredRow
      <3> QED BY <2>1, <2>3, <3>1, <3>2
    <2> QED BY <2>2, <2>3
  <1> QED BY <1>6, <1>7 DEF ValueInv, OlderCopies, Measured

(* The row that an edit makes.                                              *)
LEMMA EditedRow ==
  ASSUME NEW vr \in ValueRow, NEW rest, NEW told, NEW v \in Nat,
         rest.design \in Nat, rest.nominal \in Nat, rest.source \in {"X", "L", "C", "M", "NULL"}
  PROVE  ValueEdits!Edited(vr, told, v, rest) \in ValueRow /\ ValueEdits!Edited(vr, told, v, rest).version = vr.version + 1
  <1> DEFINE d == IF "design" \in told THEN v ELSE rest.design
             n == IF "nominal" \in told THEN v ELSE rest.nominal
             c == IF "source" \in told THEN "M" ELSE rest.source
  <1>1. d \in Nat /\ n \in Nat /\ c \in {"X", "L", "C", "M", "NULL"}
    OBVIOUS
  <1>2. ValueEdits!Edited(vr, told, v, rest) = [vr EXCEPT !.design = d, !.nominal = n, !.source = c, !.version = @ + 1]
    BY DEF ValueEdits!Edited
  <1> HIDE DEF d, n, c
  <1>3. vr.version + 1 \in Nat
    BY DEF ValueRow
  <1> QED BY <1>1, <1>2, <1>3 DEF ValueRow

(* What a calculation writes is a row of values.                            *)
LEMMA CalculatedRow ==
  ASSUME ValueTypes, NEW vr \in ValueRow
  PROVE  ValueEdits!Calculated(vr) \in ValueRow /\ ValueEdits!Calculated(vr).version = vr.version + 1
  <1>1. "input" \in ValueEdits!Rows /\ machine.read \in [ValueEdits!Rows -> ValueRow]
    BY DEF ValueEdits!Rows, ValueTypes
  <1>2. machine.read["input"].design \in Nat
    BY <1>1 DEF ValueRow
  <1>3. ValueEdits!Formula(machine.read["input"].design) \in Nat
    BY <1>2 DEF ValueEdits!Formula
  <1> DEFINE f == ValueEdits!Formula(machine.read["input"].design)
  <1>4. f \in Nat /\ vr.version + 1 \in Nat
    BY <1>3 DEF ValueRow
  <1>5. ValueEdits!Calculated(vr) = [vr EXCEPT !.design = f, !.source = "C", !.version = @ + 1]
    BY DEF ValueEdits!Calculated
  <1> HIDE DEF f
  <1> QED BY <1>4, <1>5 DEF ValueRow

(* What a user writes keeps the others' values ...                          *)
LEMMA UsersKeep ==
  ASSUME DataConstants, ValueInv, NEW u \in Editors, ValueEdits!Look(u) \/ ValueEdits!Patch(u) \/ ValueEdits!Bulk(u)
  PROVE  ValueInv' /\ (UNCHANGED rows \/ by'.who = "user")
  <1>1. EditEntered \subseteq Nat
    BY DEF DataConstants, ValueEdits!ValueConstants
  <1>2. rows \in [ValueEdits!Rows -> ValueRow] /\ seen \in [Editors -> [ValueEdits!Rows -> ValueRow]]
    BY DEF ValueInv, ValueTypes
  <1>3. CASE ValueEdits!Look(u)
    <2>1. rows' = rows /\ machine' = machine /\ seen' = [seen EXCEPT ![u] = rows]
      BY <1>3 DEF ValueEdits!Look
    <2>2. ValueTypes'
      BY <1>2, <2>1 DEF ValueInv, ValueTypes
    <2>3. \A w \in Editors, r \in ValueEdits!Rows : seen'[w][r] = seen[w][r] \/ seen'[w][r] = rows'[r]
      BY <1>2, <2>1
    <2> QED BY <2>1, <2>2, <2>3, WriteKeeps
  <1>4. CASE ValueEdits!Patch(u)
    <2>1. PICK r \in ValueEdits!Rows, told \in ValueEdits!Bodies, v \in EditEntered :
            /\ ValueEdits!Writes("user", told)
            /\ rows' = [rows EXCEPT ![r] = ValueEdits!Edited(rows[r], told, v, rows[r])]
            /\ seen' = [seen EXCEPT ![u][r] = rows'[r]]
            /\ machine' = machine
      BY <1>4 DEF ValueEdits!Patch
    <2>2. rows[r] \in ValueRow /\ v \in Nat
      BY <1>1, <1>2
    <2>3. ValueEdits!Edited(rows[r], told, v, rows[r]) \in ValueRow
          /\ ValueEdits!Edited(rows[r], told, v, rows[r]).version = rows[r].version + 1
      BY <2>2, EditedRow DEF ValueRow
    <2>4. rows' \in [ValueEdits!Rows -> ValueRow] /\ \A q \in ValueEdits!Rows : rows'[q] = rows[q] \/ rows'[q].version = rows[q].version + 1
      BY <1>2, <2>1, <2>3
    <2>5. seen' \in [Editors -> [ValueEdits!Rows -> ValueRow]]
          /\ \A w \in Editors, q \in ValueEdits!Rows : seen'[w][q] = seen[w][q] \/ seen'[w][q] = rows'[q]
      BY <1>2, <2>1, <2>4
    <2>6. ValueTypes'
      BY <2>1, <2>4, <2>5 DEF ValueInv, ValueTypes
    <2> QED BY <2>1, <2>4, <2>5, <2>6, WriteKeeps DEF ValueEdits!Writes
  <1>5. CASE ValueEdits!Bulk(u)
    <2>1. PICK of \in SUBSET ValueEdits!Rows, told \in ValueEdits!Bodies, v \in EditEntered :
            /\ ValueEdits!Writes("user", told)
            /\ rows' = [r \in ValueEdits!Rows |-> IF r \in of /\ ValueEdits!Seen(u, r)
                                       THEN ValueEdits!Edited(rows[r], told, v, ValueEdits!Nulls) ELSE rows[r]]
            /\ seen' = seen /\ machine' = machine
      BY <1>5 DEF ValueEdits!Bulk
    <2>2. ASSUME NEW r \in ValueEdits!Rows
          PROVE ValueEdits!Edited(rows[r], told, v, ValueEdits!Nulls) \in ValueRow
                /\ ValueEdits!Edited(rows[r], told, v, ValueEdits!Nulls).version = rows[r].version + 1
      BY <1>1, <1>2, EditedRow DEF ValueEdits!Nulls
    <2>3. rows' \in [ValueEdits!Rows -> ValueRow] /\ \A q \in ValueEdits!Rows : rows'[q] = rows[q] \/ rows'[q].version = rows[q].version + 1
      BY <1>2, <2>1, <2>2
    <2>4. ValueTypes'
      BY <2>1, <2>3 DEF ValueInv, ValueTypes
    <2> QED BY <2>1, <2>3, <2>4, WriteKeeps DEF ValueEdits!Writes
  <1> QED BY <1>3, <1>4, <1>5

(* ... and what a machine writes keeps the manual ones.                     *)
LEMMA MachinesKeep ==
  ASSUME DataConstants, ValueInv,
         ValueEdits!EnrichRead \/ ValueEdits!EnrichWrite \/ ValueEdits!CalculateRead \/ ValueEdits!CalculateWrite \/ ValueEdits!CascadeRead \/ ValueEdits!CascadeWrite
  PROVE  ValueInv' /\ \A r \in ValueEdits!Rows : ValueEdits!Manual(rows[r])
           => rows'[r].design = rows[r].design \/ (by'.who = "enrich" /\ ~ValueEdits!Manual(machine.read[r]))
  <1>1. rows \in [ValueEdits!Rows -> ValueRow] /\ seen \in [Editors -> [ValueEdits!Rows -> ValueRow]]
        /\ EditDerived \subseteq ValueEdits!Rows /\ "input" \in ValueEdits!Rows /\ machine.left \subseteq EditDerived
    BY DEF ValueInv, ValueTypes, ValueEdits!Rows
  <1>2. CASE ValueEdits!CalculateRead \/ ValueEdits!CascadeRead \/ ValueEdits!EnrichRead
    <2>1. PICK kind \in {"enrich", "calculate", "cascade"}, read \in [ValueEdits!Rows -> ValueRow] : ValueEdits!Begin(kind, read)
      <3>1. CASE ValueEdits!CalculateRead
        BY <3>1, <1>1 DEF ValueEdits!CalculateRead
      <3>2. CASE ValueEdits!CascadeRead
        <4>1. PICK v \in EditEntered : ValueEdits!Begin("cascade", [rows EXCEPT !["input"].design = v])
          BY <3>2 DEF ValueEdits!CascadeRead
        <4>2. v \in Nat
          BY DEF DataConstants, ValueEdits!ValueConstants
        <4>3. [rows["input"] EXCEPT !.design = v] \in ValueRow
          BY <4>2, <1>1 DEF ValueRow
        <4>4. [rows EXCEPT !["input"].design = v] = [rows EXCEPT !["input"] = [rows["input"] EXCEPT !.design = v]]
          OBVIOUS
        <4> QED BY <4>1, <4>3, <4>4, <1>1
      <3>3. CASE ValueEdits!EnrichRead
        BY <3>3, <1>1 DEF ValueEdits!EnrichRead
      <3> QED BY <1>2, <3>1, <3>2, <3>3
    <2>2. rows' = rows /\ seen' = seen /\ machine' = [at |-> kind, read |-> read, left |-> EditDerived]
      BY <2>1 DEF ValueEdits!Begin
    <2>3. ValueTypes'
      BY <2>1, <2>2 DEF ValueInv, ValueTypes
    <2> QED BY <2>2, <2>3, WriteKeeps
  <1>3. CASE ValueEdits!CalculateWrite
    <2> DEFINE due == {d \in EditDerived : ~ ValueEdits!Manual(rows[d])}
    <2>1. /\ rows' = rows \/ rows' = [r \in ValueEdits!Rows |-> IF r \in due THEN ValueEdits!Calculated(rows[r]) ELSE rows[r]]
          /\ machine' = ValueEdits!Idle /\ seen' = seen
      BY <1>3 DEF ValueEdits!CalculateWrite
    <2>2. \A r \in ValueEdits!Rows : ValueEdits!Calculated(rows[r]) \in ValueRow /\ ValueEdits!Calculated(rows[r]).version = rows[r].version + 1
      BY <1>1, CalculatedRow DEF ValueInv
    <2>3. rows' \in [ValueEdits!Rows -> ValueRow] /\ \A q \in ValueEdits!Rows : rows'[q] = rows[q] \/ rows'[q].version = rows[q].version + 1
      BY <1>1, <2>1, <2>2
    <2>4. ValueEdits!Idle \in [at : {"idle", "enrich", "calculate", "cascade"}, read : [ValueEdits!Rows -> ValueRow], left : SUBSET EditDerived]
      BY DEF ValueEdits!Idle, ValueEdits!Default, ValueRow
    <2>5. ValueTypes'
      BY <2>1, <2>3, <2>4 DEF ValueInv, ValueTypes
    <2> QED BY <2>1, <2>3, <2>5, <1>1, WriteKeeps
  <1>4. CASE ValueEdits!CascadeWrite
    <2>1. PICK d \in machine.left :
            /\ machine' = IF machine.left = {d} THEN ValueEdits!Idle ELSE [machine EXCEPT !.left = @ \ {d}]
            /\ rows' = [rows EXCEPT ![d] = IF ValueEdits!Manual(machine.read[d]) \/ ValueEdits!Manual(rows[d]) THEN rows[d]
                                           ELSE ValueEdits!Calculated(rows[d])]
            /\ seen' = seen
      BY <1>4 DEF ValueEdits!CascadeWrite
    <2>2. d \in ValueEdits!Rows /\ ValueEdits!Calculated(rows[d]) \in ValueRow /\ ValueEdits!Calculated(rows[d]).version = rows[d].version + 1
      BY <1>1, CalculatedRow DEF ValueInv
    <2>3. rows' \in [ValueEdits!Rows -> ValueRow] /\ (\A q \in ValueEdits!Rows : rows'[q] = rows[q] \/ rows'[q].version = rows[q].version + 1)
          /\ \A q \in ValueEdits!Rows : ValueEdits!Manual(rows[q]) => rows'[q] = rows[q]
      BY <1>1, <2>1, <2>2
    <2>4. ValueEdits!Idle \in [at : {"idle", "enrich", "calculate", "cascade"}, read : [ValueEdits!Rows -> ValueRow], left : SUBSET EditDerived]
      BY DEF ValueEdits!Idle, ValueEdits!Default, ValueRow
    <2>5. ValueTypes'
      BY <2>1, <2>3, <2>4 DEF ValueInv, ValueTypes
    <2> QED BY <2>1, <2>3, <2>5, WriteKeeps
  <1>5. CASE ValueEdits!EnrichWrite
    <2>1. /\ machine' = ValueEdits!Idle /\ seen' = seen /\ by' = [who |-> "enrich", told |-> ValueEdits!Fields]
          /\ rows' = rows \/ (/\ machine.read["input"].source \in {"I", "X", "L", "D", "NULL"}
                              /\ rows' = [rows EXCEPT !["input"].design = ValueEdits!Laboratory, !["input"].source = "L"])
      BY <1>5 DEF ValueEdits!EnrichWrite, ValueEdits!Writes
    <2>2. CASE rows' = rows
      <3>1. ValueEdits!Idle \in [at : {"idle", "enrich", "calculate", "cascade"}, read : [ValueEdits!Rows -> ValueRow], left : SUBSET EditDerived]
        BY DEF ValueEdits!Idle, ValueEdits!Default, ValueRow
      <3>2. ValueTypes'
        BY <2>1, <2>2, <3>1 DEF ValueInv, ValueTypes
      <3> QED BY <2>1, <2>2, <3>2, WriteKeeps
    <2>3. CASE rows' # rows
      <3>1. ValueInv'
        BY <2>1, <2>3, MeasureKeeps
      <3>2. \A r \in ValueEdits!Rows : r # "input" => rows'[r] = rows[r]
        BY <2>1, <2>3, <1>1
      <3>3. ~ValueEdits!Manual(machine.read["input"])
        BY <2>1, <2>3 DEF ValueEdits!Manual
      <3> QED BY <2>1, <3>1, <3>2, <3>3
    <2> QED BY <2>2, <2>3
  <1> QED BY <1>2, <1>3, <1>4, <1>5


-----------------------------------------------------------------------------
(* Edits of one row, and the machines: what these have read is a value.     *)
FreshRow == [design : Nat, nominal : Nat, source : {"X", "L", "C", "M", "NULL"}, version : Nat]
FreshInv ==
  /\ rows \in [Values!Rows -> FreshRow]
  /\ machine.at \in {"idle", "enrich", "calculate", "cascade"}
  /\ machine.at # "idle" => machine.read["input"].design \in Nat
  /\ machine.left \subseteq Derived

(* The rows that an edit and a calculation make.                            *)
LEMMA PatchedRow ==
  ASSUME NEW line \in FreshRow, NEW told \in Values!Bodies, NEW v \in Nat
  PROVE  /\ Values!Edited(line, told, v, line) \in FreshRow
         /\ \A f \in Values!Fields \ told : Values!Edited(line, told, v, line)[f] = line[f]
  <1> DEFINE d == IF "design" \in told THEN v ELSE line.design
             n == IF "nominal" \in told THEN v ELSE line.nominal
             c == IF "source" \in told THEN "M" ELSE line.source
             e == [line EXCEPT !.design = d, !.nominal = n, !.source = c, !.version = @ + 1]
  <1>1. d \in Nat /\ n \in Nat /\ c \in {"X", "L", "C", "M", "NULL"} /\ line.version + 1 \in Nat
    BY DEF FreshRow
  <1>2. /\ "design" \notin told => d = line.design
        /\ "nominal" \notin told => n = line.nominal
        /\ "source" \notin told => c = line.source
    OBVIOUS
  <1>3. Values!Edited(line, told, v, line) = e
    BY DEF Values!Edited
  <1> HIDE DEF d, n, c
  <1>4. e \in FreshRow /\ e.design = d /\ e.nominal = n /\ e.source = c
    BY <1>1 DEF FreshRow
  <1> HIDE DEF e
  <1>5. \A f \in Values!Fields \ told : e[f] = line[f]
    BY <1>2, <1>4 DEF Values!Fields
  <1> QED BY <1>3, <1>4, <1>5

(* A request that has worked out its values.                                *)
LEMMA WorkedRow ==
  ASSUME NEW line \in FreshRow, machine.read["input"].design \in Nat
  PROVE  /\ Values!Calculated(line) \in FreshRow
         /\ Values!Calculated(line).design = Values!Formula(machine.read["input"].design)
  <1> DEFINE f == Values!Formula(machine.read["input"].design)
  <1>1. f \in Nat /\ line.version + 1 \in Nat
    BY DEF FreshRow, Values!Formula
  <1>2. Values!Calculated(line) = [line EXCEPT !.design = f, !.source = "C", !.version = @ + 1]
    BY DEF Values!Calculated
  <1> HIDE DEF f
  <1>3. Values!Calculated(line) \in FreshRow /\ Values!Calculated(line).design = f
    BY <1>1, <1>2 DEF FreshRow
  <1> QED BY <1>3 DEF f

(* What each action does and keeps.                                         *)
FreshStep == FreshInv' /\ Values!OverrideKept /\ Values!OnlyWhatWasTold /\ Values!CalculatedIsFresh

(* An edit starts without values ...                                        *)
LEMMA FreshEdit ==
  ASSUME DataConstants, FreshInv, NEW u \in Users, Values!Look(u) \/ Values!Patch(u) \/ Values!Bulk(u)
  PROVE  FreshStep
  <1>1. CASE Values!Look(u)
    <2>1. rows' = rows /\ machine' = machine
      BY <1>1 DEF Values!Look
    <2> QED BY <2>1 DEF FreshStep, FreshInv, Values!OverrideKept, Values!OnlyWhatWasTold, Values!CalculatedIsFresh
  <1>2. CASE Values!Patch(u)
    <2>1. PICK r \in Values!Rows, told \in Values!Bodies, v \in Entered :
            /\ by' = [who |-> "user", told |-> told]
            /\ rows' = [rows EXCEPT ![r] = Values!Edited(rows[r], told, v, rows[r])]
            /\ machine' = machine
      BY <1>2 DEF Values!Patch, Values!Writes
    <2>2. rows[r] \in FreshRow
      BY DEF FreshInv
    <2>v. v \in Nat
      BY DEF DataConstants, Values!ValueConstants
    <2>3. /\ Values!Edited(rows[r], told, v, rows[r]) \in FreshRow
          /\ \A f \in Values!Fields \ told : Values!Edited(rows[r], told, v, rows[r])[f] = rows[r][f]
      BY <2>2, <2>v, PatchedRow
    <2>4. /\ rows' \in [Values!Rows -> FreshRow]
          /\ \A q \in Values!Rows : rows'[q] = IF q = r THEN Values!Edited(rows[r], told, v, rows[r]) ELSE rows[q]
      BY <2>1, <2>3 DEF FreshInv
    <2>5. FreshInv'
      BY <2>1, <2>4 DEF FreshInv
    <2>6. \A q \in Values!Rows : \A f \in Values!Fields \ told : rows'[q][f] = rows[q][f]
      BY <2>3, <2>4
    <2>7. by'.told = told /\ by'.who = "user"
      BY <2>1
    <2> QED BY <2>1, <2>5, <2>6, <2>7
            DEF FreshStep, Values!OverrideKept, Values!OnlyWhatWasTold, Values!CalculatedIsFresh
  <1>3. ~Values!Bulk(u)
    BY DEF Values!Bulk
  <1> QED BY <1>1, <1>2, <1>3

(* ... and so does a run of the machine.                                    *)
LEMMA FreshMachine ==
  ASSUME DataConstants, FreshInv,
         Values!EnrichRead \/ Values!EnrichWrite \/ Values!CalculateRead \/ Values!CalculateWrite
         \/ Values!CascadeRead \/ Values!CascadeWrite
  PROVE  FreshStep
  <1>0. "input" \in Values!Rows /\ Derived \subseteq Values!Rows /\ "input" \notin Derived
        /\ rows["input"] \in FreshRow
    BY DEF Values!Rows, FreshInv, DataConstants, Values!ValueConstants
  <1>1. CASE Values!EnrichRead \/ Values!CalculateRead \/ Values!CascadeRead
    <2>1. PICK kind, read : /\ Values!Begin(kind, read) /\ kind \in {"enrich", "calculate", "cascade"}
                            /\ read["input"].design \in Nat
      <3>1. rows["input"].design \in Nat
        BY <1>0 DEF FreshRow
      <3>2. CASE Values!EnrichRead
        BY <3>1, <3>2 DEF Values!EnrichRead
      <3>3. CASE Values!CalculateRead
        BY <3>1, <3>3 DEF Values!CalculateRead
      <3>4. CASE Values!CascadeRead
        <4>1. PICK v \in Entered : Values!Begin("cascade", [rows EXCEPT !["input"].design = v])
          BY <3>4 DEF Values!CascadeRead
        <4>2. v \in Nat
          BY DEF DataConstants, Values!ValueConstants
        <4>3. [rows EXCEPT !["input"].design = v]["input"] = [rows["input"] EXCEPT !.design = v]
          BY <1>0 DEF FreshInv
        <4>4. [rows["input"] EXCEPT !.design = v].design = v
          BY <1>0 DEF FreshRow
        <4> QED BY <4>1, <4>2, <4>3, <4>4
      <3> QED BY <1>1, <3>2, <3>3, <3>4
    <2>2. rows' = rows /\ machine' = [at |-> kind, read |-> read, left |-> Derived] /\ machine.at = "idle"
          /\ by' = by
      BY <2>1 DEF Values!Begin
    <2>3. machine'.at = kind /\ machine'.read = read /\ machine'.left = Derived
      BY <2>2
    <2>4. FreshInv'
      BY <2>1, <2>2, <2>3 DEF FreshInv
    <2> QED BY <2>2, <2>4 DEF FreshStep, Values!OverrideKept, Values!OnlyWhatWasTold, Values!CalculatedIsFresh
  <1>i. Values!Idle.at = "idle" /\ Values!Idle.left = {}
    BY DEF Values!Idle
  <1>2. CASE Values!EnrichWrite
    <2>1. /\ machine.at = "enrich" /\ machine' = Values!Idle /\ by' = [who |-> "enrich", told |-> Values!Fields]
          /\ rows' = rows \/ (/\ machine.read["input"].source \in {"I", "X", "L", "D", "NULL"}
                              /\ rows' = [rows EXCEPT !["input"].design = 1, !["input"].source = "L"])
      BY <1>2 DEF Values!EnrichWrite, Values!Writes, Values!Laboratory
    <2>2. CASE rows' = rows
      BY <2>1, <2>2, <1>i DEF FreshStep, FreshInv, Values!OverrideKept, Values!OnlyWhatWasTold, Values!CalculatedIsFresh
    <2>3. CASE rows' # rows
      <3> DEFINE line == [rows["input"] EXCEPT !.design = 1, !.source = "L"]
      <3>1. line \in FreshRow
        BY <1>0 DEF FreshRow
      <3>2. rows' = [rows EXCEPT !["input"] = line]
        BY <2>1, <2>3, <1>0 DEF FreshInv
      <3>3. machine.read["input"].source \in {"I", "X", "L", "D", "NULL"}
        BY <2>1, <2>3
      <3> HIDE DEF line
      <3>4. rows' \in [Values!Rows -> FreshRow] /\ \A q \in Values!Rows : q # "input" => rows'[q] = rows[q]
        BY <3>1, <3>2 DEF FreshInv
      <3>5. ~Values!Manual(machine.read["input"]) /\ by'.who = "enrich"
        BY <2>1, <3>3 DEF Values!Manual
      <3>6. Values!OverrideKept
        BY <3>4, <3>5 DEF Values!OverrideKept
      <3>7. FreshInv'
        BY <2>1, <3>4, <1>i DEF FreshInv
      <3> QED BY <2>1, <3>6, <3>7 DEF FreshStep, Values!OnlyWhatWasTold, Values!CalculatedIsFresh
    <2> QED BY <2>2, <2>3
  <1>3. CASE Values!CalculateWrite
    <2> DEFINE due == {d \in Derived : ~ Values!Manual(rows[d])}
    <2>1. /\ machine.at = "calculate" /\ machine' = Values!Idle /\ by' = [who |-> "calculate", told |-> Values!Fields]
          /\ rows' = [r \in Values!Rows |-> IF r \in due THEN Values!Calculated(rows[r]) ELSE rows[r]]
      BY <1>3 DEF Values!CalculateWrite, Values!Writes
    <2>2. machine.read["input"].design \in Nat
      BY <2>1 DEF FreshInv
    <2>3. \A r \in Values!Rows : Values!Calculated(rows[r]) \in FreshRow
            /\ Values!Calculated(rows[r]).design = Values!Formula(machine.read["input"].design)
      BY <2>2, WorkedRow DEF FreshInv
    <2>4. rows' \in [Values!Rows -> FreshRow] /\ rows'["input"] = rows["input"]
          /\ \A r \in Values!Rows : rows'[r] = IF r \in due THEN Values!Calculated(rows[r]) ELSE rows[r]
      BY <2>1, <2>3, <1>0 DEF FreshInv
    <2>5. FreshInv'
      BY <2>1, <2>4, <1>i DEF FreshInv
    <2>6. Values!OverrideKept
      BY <2>4 DEF Values!OverrideKept
    <2>7. Values!CalculatedIsFresh
      BY <2>3, <2>4, <1>0 DEF Values!CalculatedIsFresh
    <2> QED BY <2>1, <2>5, <2>6, <2>7 DEF FreshStep, Values!OnlyWhatWasTold
  <1>4. CASE Values!CascadeWrite
    <2>1. PICK d \in machine.left :
            /\ machine.at = "cascade" /\ by' = [who |-> "cascade", told |-> Values!Fields]
            /\ machine' = IF machine.left = {d} THEN Values!Idle ELSE [machine EXCEPT !.left = @ \ {d}]
            /\ rows' = [rows EXCEPT ![d] = IF Values!Manual(machine.read[d]) \/ Values!Manual(rows[d]) THEN rows[d]
                                           ELSE Values!Calculated(rows[d])]
      BY <1>4 DEF Values!CascadeWrite, Values!Writes
    <2>2. d \in Derived /\ machine.read["input"].design \in Nat
      BY <2>1 DEF FreshInv
    <2>3. Values!Calculated(rows[d]) \in FreshRow
      BY <2>2, <1>0, WorkedRow DEF FreshInv
    <2>4. rows' \in [Values!Rows -> FreshRow]
          /\ \A r \in Values!Rows : r # d \/ Values!Manual(rows[d]) => rows'[r] = rows[r]
      BY <2>1, <2>2, <2>3, <1>0 DEF FreshInv
    <2>5. machine' = Values!Idle \/ (machine'.at = machine.at /\ machine'.read = machine.read /\ machine'.left \subseteq Derived)
      BY <2>1 DEF FreshInv
    <2>6. FreshInv'
      BY <2>1, <2>4, <2>5, <1>i DEF FreshInv
    <2>7. Values!OverrideKept
      BY <2>4 DEF Values!OverrideKept
    <2> QED BY <2>1, <2>6, <2>7 DEF FreshStep, Values!OnlyWhatWasTold, Values!CalculatedIsFresh
  <1> QED BY <1>1, <1>2, <1>3, <1>4

(* In both parts.                                                           *)
AllValueInv == (part = "values" => FreshInv) /\ (part = "value_edits" => ValueInv)

(* The registers begin with values that are sound ...                       *)
LEMMA ValuesBegin == AllInit => AllValueInv
  <1> SUFFICES ASSUME AllInit PROVE AllValueInv
    OBVIOUS
  <1>1. ASSUME part = "values" PROVE FreshInv
    <2>1. Values!Init
      BY <1>1 DEF AllInit
    <2> QED BY <2>1 DEF Values!Init, FreshInv, Values!Idle, Values!Default, FreshRow
  <1>2. ASSUME part = "value_edits" PROVE ValueInv
    <2>1. ValueEdits!Init
      BY <1>2 DEF AllInit
    <2> QED BY <2>1 DEF ValueEdits!Init, ValueInv, ValueTypes, OlderCopies, ValueEdits!Idle, ValueEdits!Default, ValueRow
  <1> QED BY <1>1, <1>2 DEF AllValueInv

ValuesKept == (part = "values" => Values!OverrideKept /\ Values!OnlyWhatWasTold /\ Values!CalculatedIsFresh)
              /\ (part = "value_edits" => ValueEdits!OverrideKept)

(* ... and every step keeps them, and what users entered.                   *)
LEMMA ValuesContinue == AllValueInv /\ [AllNext]_allVars => AllValueInv' /\ [ValuesKept]_allVars
  <1> SUFFICES ASSUME AllValueInv, [AllNext]_allVars PROVE AllValueInv' /\ ValuesKept
    OBVIOUS
  <1>1. part' = part
    BY PartStays
  <1>2. CASE ValueStep
    <2>1. FreshInv /\ Values!Next /\ part = "values"
      BY <1>2 DEF ValueStep, AllValueInv
    <2>2. FreshStep
      BY <2>1, FreshEdit, FreshMachine, DataConstants DEF Values!Next
    <2> QED BY <1>1, <2>1, <2>2 DEF FreshStep, AllValueInv, ValuesKept
  <1>3. CASE ValueEditStep
    <2>1. ValueInv /\ ValueEdits!Next /\ part = "value_edits"
      BY <1>3 DEF ValueEditStep, AllValueInv
    <2>2. ValueInv' /\ ValueEdits!OverrideKept
      <3>1. ASSUME NEW u \in Editors, ValueEdits!Look(u) \/ ValueEdits!Patch(u) \/ ValueEdits!Bulk(u)
            PROVE  ValueInv' /\ ValueEdits!OverrideKept
        BY <2>1, <3>1, UsersKeep, DataConstants DEF ValueEdits!OverrideKept
      <3>2. CASE ValueEdits!EnrichRead \/ ValueEdits!EnrichWrite \/ ValueEdits!CalculateRead
                 \/ ValueEdits!CalculateWrite \/ ValueEdits!CascadeRead \/ ValueEdits!CascadeWrite
        BY <2>1, <3>2, MachinesKeep, DataConstants DEF ValueEdits!OverrideKept
      <3> QED BY <2>1, <3>1, <3>2 DEF ValueEdits!Next
    <2> QED BY <1>1, <2>1, <2>2 DEF AllValueInv, ValuesKept
  <1>4. CASE part \notin {"values", "value_edits"}
    BY <1>1, <1>4 DEF AllValueInv, ValuesKept
  <1>5. CASE UNCHANGED <<rows, seen, machine, by, report, writes>>
    <2>1. AllValueInv'
      BY <1>1, <1>5 DEF AllValueInv, FreshInv, ValueInv, ValueTypes, OlderCopies
    <2>2. ValuesKept
      BY <1>5 DEF ValuesKept, Values!OverrideKept, Values!OnlyWhatWasTold, Values!CalculatedIsFresh, ValueEdits!OverrideKept
    <2> QED BY <2>1, <2>2
  <1>6. ValueStep \/ ValueEditStep \/ part \notin {"values", "value_edits"}
        \/ UNCHANGED <<rows, seen, machine, by, report, writes>>
    BY DEF allVars, AllNext, Rest, RiskStep, ItemStep, ItemEditStep, BalanceStep, BalanceEditStep, CostStep,
           CostRaceStep, PlanStep, LockStep, CircuitStep, TopologyStep, ValueStep, ValueEditStep, DiagramStep
  <1> QED BY <1>2, <1>3, <1>4, <1>5, <1>6

(* A copy with the version of its row is the row, or that before the         *)
(* laboratory's average.                                                    *)
LEMMA VersionsTell == AllValueInv /\ part = "value_edits" => ValueEdits!VersionTells
  <1> SUFFICES ASSUME ValueInv, NEW u \in Editors, NEW r \in ValueEdits!Rows, ValueEdits!Seen(u, r)
               PROVE  seen[u][r] = rows[r] \/ (r = "input" /\ rows[r] = Measured(seen[u][r]))
    BY DEF AllValueInv, ValueEdits!VersionTells, Measured
  <1>1. rows[r] \in ValueRow
    BY DEF ValueInv, ValueTypes
  <1>2. rows[r].version \in Nat
    BY <1>1 DEF ValueRow
  <1> QED BY <1>2 DEF ValueInv, OlderCopies, ValueEdits!Seen

(* However users write while a machine is at work, a value marked manual is *)
(* theirs to change, or the laboratory's if it was not manual when that     *)
(* read; an edit of one row writes the fields it was told, and a            *)
(* calculation leaves the others equal to the formula of the input, unless  *)
(* that has changed since it was read.                                      *)
THEOREM AllManualValuesKept == AllSpec => ManualValuesKept
  <1>1. [ValuesKept]_allVars => [/\ part = "values" => Values!OverrideKept /\ Values!OnlyWhatWasTold /\ Values!CalculatedIsFresh
                                 /\ part = "value_edits" => ValueEdits!OverrideKept]_allVars
    BY DEF ValuesKept
  <1> QED BY <1>1, ValuesBegin, ValuesContinue, PTL DEF AllSpec, ManualValuesKept
(* A row of the equipment with its price, and what a request has to do: the  *)
(* keys of a circuit, or the rows to price.                                 *)
CostRow == [there : BOOLEAN, key : Keys \cup {"none"}, seeded : BOOLEAN, over : BOOLEAN,
            by : {"none", "user", "tph"}, n : Nat]
CostReq == [at : {"idle", "clear", "take", "insert", "update", "read", "price"}, force : BOOLEAN, tph : Nat,
            left : SUBSET (Keys \cup CostRows), key : Keys \cup {"none"}, id : CostRows \cup {"none"}]

(* One request at a time: what is priced is a row of a template, of which    *)
(* there is one for each key; those that the request has behind it have the  *)
(* price of its throughput.                                                 *)
RowsWell ==
  /\ row \in [CostRows -> CostRow]
  /\ \A i \in CostRows : row[i].key # "none" \/ row[i].by = "tph" \/ row[i].seeded => row[i].seeded /\ ~row[i].over
  /\ \A i, j \in Cost!There : row[i].key = row[j].key /\ row[i].key # "none" => i = j
CoveredRows(q) == \A i \in Cost!There : row[i].by = "tph" /\ row[i].key \in circuit \ q.left => row[i].n = q.tph
ReqWell(q) ==
  /\ q.at \in {"clear", "take", "insert", "update"} => q.left \subseteq circuit
  /\ q.at = "clear" => q.left = circuit
  /\ q.at = "take" => CoveredRows(q)
  /\ q.at = "insert" => CoveredRows(q) /\ q.key \in Keys /\ Cost!OfKey(q.key) = {}
  /\ q.at = "update" => /\ q.key \in Keys /\ q.id \in Cost!OfKey(q.key)
                        /\ \A i \in Cost!There \ {q.id} :
                             row[i].by = "tph" /\ row[i].key \in circuit \ q.left => row[i].n = q.tph
  /\ q.at = "price" => /\ \A i \in q.left : i \in Cost!There /\ row[i].seeded
                       /\ \A i \in Cost!There \ q.left : row[i].by = "tph" => row[i].n = q.tph
CostInv ==
  /\ RowsWell /\ circuit \subseteq Keys /\ tph \in Nat
  /\ capexReq \in [{r1} -> CostReq] /\ ReqWell(capexReq[r1])

CostKept == Cost!ManualSurvive /\ Cost!FactorKept /\ Cost!EndsPriced

(* A step that is no request's.                                             *)
LEMMA CostAside ==
  ASSUME CostInv, UNCHANGED <<circuit, capexReq>>, tph' \in Nat, capexReq[r1] = Cost!Idle, RowsWell'
  PROVE  CostInv' /\ CostKept
  <1>1. Cost!Idle.at = "idle"
    BY DEF Cost!Idle
  <1>2. ReqWell(capexReq[r1])'
    BY <1>1 DEF ReqWell
  <1>3. CostInv'
    BY <1>2 DEF CostInv
  <1>4. CostKept
    BY <1>1 DEF CostKept, Cost!ManualSurvive, Cost!FactorKept, Cost!EndsPriced
  <1> QED BY <1>3, <1>4

(* A step of the request that leaves the rows, and does not end it.         *)
LEMMA CostReads ==
  ASSUME CostInv, NEW q \in CostReq, capexReq' = [capexReq EXCEPT ![r1] = q], UNCHANGED <<row, factor, tph>>,
         circuit' \subseteq Keys, ReqWell(q)', q.at # "idle" \/ Cost!EndsPriced
  PROVE  CostInv' /\ CostKept
  <1>1. capexReq' \in [{r1} -> CostReq] /\ capexReq'[r1] = q
    BY DEF CostInv
  <1>2. RowsWell'
    BY DEF CostInv, RowsWell, Cost!There
  <1>3. CostInv'
    BY <1>1, <1>2 DEF CostInv
  <1>4. Cost!EndsPriced
    BY <1>1 DEF Cost!EndsPriced, Cost!Idle
  <1>5. Cost!ManualSurvive
    BY DEF Cost!ManualSurvive
  <1>6. Cost!FactorKept
    BY DEF Cost!FactorKept
  <1> QED BY <1>3, <1>4, <1>5, <1>6 DEF CostKept

(* A step of the request that changes rows: those of a template only.       *)
LEMMA CostWrites ==
  ASSUME CostInv, NEW q \in CostReq, capexReq' = [capexReq EXCEPT ![r1] = q], UNCHANGED <<factor, tph, circuit>>,
         RowsWell', ReqWell(q)', q.at # "idle",
         \A i \in Cost!There : ~row[i].seeded => row'[i] = row[i]
  PROVE  CostInv' /\ CostKept
  <1>1. capexReq' \in [{r1} -> CostReq] /\ capexReq'[r1] = q
    BY DEF CostInv
  <1>3. CostInv'
    BY <1>1 DEF CostInv
  <1>4. Cost!EndsPriced
    BY <1>1 DEF Cost!EndsPriced, Cost!Idle
  <1>5. Cost!ManualSurvive
    BY DEF Cost!ManualSurvive
  <1>6. Cost!FactorKept
    BY DEF Cost!FactorKept
  <1> QED BY <1>3, <1>4, <1>5, <1>6 DEF CostKept

(* The steps of the one request: it seeds ...                               *)
LEMMA CostSeeds ==
  ASSUME DataConstants, CostInv, Cost!Seed(r1)
  PROVE  CostInv' /\ CostKept
  <1>1. PICK c \in CostCircuits, force \in BOOLEAN :
          /\ circuit' = c
          /\ capexReq' = [capexReq EXCEPT ![r1] = [Cost!Idle EXCEPT !.at = IF force THEN "clear" ELSE "take", !.force = force,
                                                                    !.tph = tph, !.left = c]]
          /\ UNCHANGED <<row, factor, tph>>
    BY DEF Cost!Seed
  <1>q. PICK q : q = [Cost!Idle EXCEPT !.at = IF force THEN "clear" ELSE "take", !.force = force, !.tph = tph, !.left = c]
    OBVIOUS
  <1>2. c \subseteq Keys
    BY DEF DataConstants, Cost!CapexConstants
  <1>3. q \in CostReq /\ q.left = c /\ q.at \in {"clear", "take"}
    BY <1>2, <1>q DEF CostReq, Cost!Idle, CostInv
  <1>4. capexReq' = [capexReq EXCEPT ![r1] = q]
    BY <1>1, <1>q
  <1>5. ReqWell(q)'
    BY <1>1, <1>3 DEF ReqWell, CoveredRows, Cost!There
  <1> QED BY <1>1, <1>2, <1>3, <1>4, <1>5, CostReads

(* ... deletes what it had seeded ...                                       *)
LEMMA CostClears ==
  ASSUME DataConstants, CostInv, Cost!Clear(r1)
  PROVE  CostInv' /\ CostKept
  <1>1. /\ capexReq[r1].at = "clear" /\ capexReq' = [capexReq EXCEPT ![r1] = [capexReq[r1] EXCEPT !.at = "take"]]
        /\ row' = [i \in CostRows |-> IF row[i].there /\ Cost!Forced(i) THEN Cost!NoRow ELSE row[i]]
        /\ UNCHANGED <<factor, tph, circuit>>
    BY DEF Cost!Clear
  <1>q. PICK q : q = [capexReq[r1] EXCEPT !.at = "take"]
    OBVIOUS
  <1>2. q \in CostReq /\ q.at = "take" /\ q.left = capexReq[r1].left /\ capexReq[r1].left = circuit
    BY <1>1, <1>q DEF CostInv, CostReq, ReqWell
  <1>3. capexReq' = [capexReq EXCEPT ![r1] = q]
    BY <1>1, <1>q
  <1>4. Cost!NoRow \in CostRow /\ ~Cost!NoRow.there /\ Cost!NoRow.key = "none" /\ Cost!NoRow.by = "none"
        /\ ~Cost!NoRow.seeded
    BY DEF Cost!NoRow, CostRow
  <1>5. row' \in [CostRows -> CostRow] /\ \A i \in CostRows : row'[i] = Cost!NoRow \/ row'[i] = row[i]
    BY <1>1, <1>4 DEF CostInv, RowsWell
  <1>6. RowsWell'
    BY <1>4, <1>5 DEF RowsWell, CostInv, Cost!There
  <1>7. ReqWell(q)'
    BY <1>1, <1>2 DEF ReqWell, CoveredRows
  <1>8. \A i \in Cost!There : ~row[i].seeded => row'[i] = row[i]
    BY <1>1 DEF Cost!There, Cost!Forced
  <1> QED BY <1>1, <1>2, <1>3, <1>6, <1>7, <1>8, CostWrites

(* ... takes the next item of the catalogue ...                             *)
LEMMA CostTakes ==
  ASSUME DataConstants, CostInv, Cost!Take(r1)
  PROVE  CostInv' /\ CostKept
  <1>a. capexReq \in [{r1} -> CostReq]
    BY DEF CostInv
  <1>1. PICK k \in capexReq[r1].left :
          /\ capexReq[r1].at = "take" /\ UNCHANGED <<row, factor, tph, circuit>>
          /\ \/ /\ Cost!OfKey(k) = {}
                /\ capexReq' = [capexReq EXCEPT ![r1].key = k, ![r1].left = @ \ {k}, ![r1].at = "insert"]
             \/ \E i \in Cost!OfKey(k) :
                  capexReq' = [capexReq EXCEPT ![r1].key = k, ![r1].left = @ \ {k}, ![r1].id = i,
                                 ![r1].at = IF row[i].over /\ ~capexReq[r1].force THEN "take" ELSE "update"]
    BY Zenon DEF Cost!Take
  <1>2. capexReq[r1] \in CostReq /\ capexReq[r1].left \subseteq circuit /\ circuit \subseteq Keys /\ k \in Keys /\ k # "none"
    BY <1>1 DEF CostInv, ReqWell, DataConstants, Cost!CapexConstants
  <1>3. \A i \in Cost!There : row[i].by = "tph" /\ row[i].key \in circuit \ capexReq[r1].left => row[i].n = capexReq[r1].tph
    BY <1>1 DEF CostInv, ReqWell, CoveredRows
  <1>4. CASE Cost!OfKey(k) = {} /\ capexReq' = [capexReq EXCEPT ![r1].key = k, ![r1].left = @ \ {k}, ![r1].at = "insert"]
    <2>q. PICK q : q = [capexReq[r1] EXCEPT !.key = k, !.left = @ \ {k}, !.at = "insert"]
      OBVIOUS
    <2>1. q \in CostReq /\ q.at = "insert" /\ q.key = k /\ q.left = capexReq[r1].left \ {k} /\ q.tph = capexReq[r1].tph
      BY <1>2, <2>q DEF CostReq
    <2>2. capexReq' = [capexReq EXCEPT ![r1] = q]
      BY <1>4, <2>q, <1>a
    <2>3. ReqWell(q)
      BY <2>1, <1>2, <1>3, <1>4 DEF ReqWell, CoveredRows, Cost!OfKey
    <2>4. ReqWell(q)'
      BY <2>3, <1>1 DEF ReqWell, CoveredRows, Cost!OfKey, Cost!There
    <2> QED BY <1>1, <1>2, <2>1, <2>2, <2>4, CostReads
  <1>5. ASSUME NEW i \in Cost!OfKey(k),
               capexReq' = [capexReq EXCEPT ![r1].key = k, ![r1].left = @ \ {k}, ![r1].id = i,
                              ![r1].at = IF row[i].over /\ ~capexReq[r1].force THEN "take" ELSE "update"]
        PROVE  CostInv' /\ CostKept
    <2>0. i \in Cost!There /\ i \in CostRows /\ row[i].key = k /\ ~row[i].over
      BY <1>2 DEF Cost!OfKey, Cost!There, CostInv, RowsWell
    <2>q. PICK q : q = [capexReq[r1] EXCEPT !.key = k, !.left = @ \ {k}, !.id = i, !.at = "update"]
      OBVIOUS
    <2>1. q \in CostReq /\ q.at = "update" /\ q.key = k /\ q.id = i /\ q.left = capexReq[r1].left \ {k}
          /\ q.tph = capexReq[r1].tph
      BY <1>2, <2>0, <2>q DEF CostReq
    <2>2. capexReq' = [capexReq EXCEPT ![r1] = q]
      BY <1>5, <2>0, <2>q, <1>a
    <2>3. \A j \in Cost!There : row[j].key = k => j = i
      BY <1>2, <2>0 DEF CostInv, RowsWell
    <2>4. ReqWell(q)
      BY <2>0, <2>1, <2>3, <1>2, <1>3, <1>5 DEF ReqWell
    <2>5. ReqWell(q)'
      BY <2>4, <2>1, <1>1 DEF ReqWell, Cost!OfKey, Cost!There
    <2> QED BY <1>1, <1>2, <2>1, <2>2, <2>5, CostReads
  <1> QED BY <1>1, <1>4, <1>5

(* The priced row is a row of a template.                                   *)
LEMMA PricedRow ==
  ASSUME CostInv, capexReq[r1].key \in Keys, NEW over \in BOOLEAN
  PROVE  LET p == Cost!Priced(r1, over)
         IN  p \in CostRow /\ p.there /\ p.key = capexReq[r1].key /\ p.seeded /\ p.over = over
             /\ p.by = "tph" /\ p.n = capexReq[r1].tph
  <1>1. capexReq[r1] \in CostReq
    BY DEF CostInv
  <1>2. capexReq[r1].tph \in Nat
    BY <1>1 DEF CostReq
  <1> QED BY <1>2 DEF CostRow, Cost!Priced

(* ... inserts it ...                                                       *)
LEMMA CostInserts ==
  ASSUME DataConstants, CostInv, Cost!InsertItem(r1)
  PROVE  CostInv' /\ CostKept
  <1>1. PICK i \in CostRows \ Cost!There :
          /\ capexReq[r1].at = "insert" /\ row' = [row EXCEPT ![i] = Cost!Priced(r1, FALSE)]
          /\ capexReq' = [capexReq EXCEPT ![r1] = [capexReq[r1] EXCEPT !.at = "take"]] /\ UNCHANGED <<factor, tph, circuit>>
    BY DEF Cost!InsertItem, Cost!Free
  <1>q. PICK q : q = [capexReq[r1] EXCEPT !.at = "take"]
    OBVIOUS
  <1>2. q \in CostReq /\ q.at = "take" /\ q.left = capexReq[r1].left /\ q.tph = capexReq[r1].tph
    BY <1>q DEF CostInv, CostReq
  <1>3. capexReq' = [capexReq EXCEPT ![r1] = q]
    BY <1>1, <1>q
  <1>4. capexReq[r1].key \in Keys /\ "none" \notin Keys /\ capexReq[r1].left \subseteq circuit
        /\ Cost!OfKey(capexReq[r1].key) = {} /\ CoveredRows(capexReq[r1])
    BY <1>1 DEF CostInv, ReqWell, DataConstants, Cost!CapexConstants
  <1> DEFINE p == Cost!Priced(r1, FALSE)
  <1>5. p \in CostRow /\ p.there /\ p.key = capexReq[r1].key /\ p.seeded /\ p.over = FALSE
             /\ p.by = "tph" /\ p.n = capexReq[r1].tph
    BY <1>4, PricedRow
  <1> HIDE DEF p
  <1>6. row' \in [CostRows -> CostRow] /\ \A j \in CostRows : row'[j] = IF j = i THEN p ELSE row[j]
    BY <1>1, <1>5 DEF CostInv, RowsWell, p
  <1>7. \A j \in Cost!There : row[j].key # capexReq[r1].key
    BY <1>4 DEF Cost!OfKey
  <1>8. \A j \in CostRows : j \in Cost!There' <=> j = i \/ j \in Cost!There
    BY <1>5, <1>6 DEF Cost!There
  <1>9. RowsWell'
    <2>1. \A j \in CostRows : row'[j].key # "none" \/ row'[j].by = "tph" \/ row'[j].seeded => row'[j].seeded /\ ~row'[j].over
      BY <1>5, <1>6 DEF CostInv, RowsWell
    <2>2. ASSUME NEW j \in Cost!There', NEW h \in Cost!There', row'[j].key = row'[h].key, row'[j].key # "none"
          PROVE  j = h
      <3>1. j \in CostRows /\ h \in CostRows /\ (j = i \/ j \in Cost!There) /\ (h = i \/ h \in Cost!There)
        BY <1>8 DEF Cost!There
      <3> QED BY <3>1, <2>2, <1>5, <1>6, <1>7 DEF CostInv, RowsWell
    <2> QED BY <1>6, <2>1, <2>2 DEF RowsWell
  <1>10. CoveredRows(q)'
    <2> SUFFICES ASSUME NEW j \in Cost!There', row'[j].by = "tph", row'[j].key \in circuit \ q.left
                 PROVE  row'[j].n = q.tph
      BY <1>1 DEF CoveredRows
    <2>1. j \in CostRows /\ (j = i \/ j \in Cost!There)
      BY <1>8 DEF Cost!There
    <2> QED BY <2>1, <1>2, <1>4, <1>5, <1>6 DEF CoveredRows
  <1>11. ReqWell(q)'
    BY <1>1, <1>2, <1>4, <1>10 DEF ReqWell
  <1>12. \A j \in Cost!There : ~row[j].seeded => row'[j] = row[j]
    BY <1>6 DEF Cost!There
  <1> QED BY <1>1, <1>2, <1>3, <1>9, <1>11, <1>12, CostWrites

(* ... or updates it ...                                                    *)
LEMMA CostUpdates ==
  ASSUME DataConstants, CostInv, Cost!UpdateItem(r1)
  PROVE  CostInv' /\ CostKept
  <1> DEFINE i == capexReq[r1].id
             p == Cost!Priced(r1, row[i].over)
  <1>q. PICK q : q = [capexReq[r1] EXCEPT !.at = "take", !.id = "none"]
    OBVIOUS
  <1>1. /\ capexReq[r1].at = "update" /\ UNCHANGED <<factor, tph, circuit>>
        /\ row' = [j \in CostRows |-> IF j = i /\ row[j].there THEN Cost!Priced(r1, row[j].over) ELSE row[j]]
        /\ capexReq' = [capexReq EXCEPT ![r1] = q]
    BY <1>q DEF Cost!UpdateItem, CostInv
  <1>2. q \in CostReq /\ q.at = "take" /\ q.left = capexReq[r1].left /\ q.tph = capexReq[r1].tph
    BY <1>q DEF CostInv, CostReq
  <1>4. capexReq[r1].key \in Keys /\ "none" \notin Keys /\ capexReq[r1].left \subseteq circuit
    BY <1>1 DEF CostInv, ReqWell, DataConstants, Cost!CapexConstants
  <1>c. \A j \in Cost!There \ {i} :
          row[j].by = "tph" /\ row[j].key \in circuit \ capexReq[r1].left => row[j].n = capexReq[r1].tph
    BY <1>1 DEF CostInv, ReqWell
  <1>3. i \in Cost!There /\ i \in CostRows /\ row[i].there /\ row[i].key = capexReq[r1].key
    BY <1>1 DEF CostInv, ReqWell, Cost!OfKey, Cost!There
  <1>o. row[i].seeded /\ ~row[i].over /\ row[i].over \in BOOLEAN
    BY <1>3, <1>4 DEF CostInv, RowsWell, CostRow
  <1>5. p \in CostRow /\ p.there /\ p.key = capexReq[r1].key /\ p.seeded /\ p.over = row[i].over
             /\ p.by = "tph" /\ p.n = capexReq[r1].tph
    BY <1>4, <1>o, PricedRow
  <1>p. p = Cost!Priced(r1, row[i].over)
    OBVIOUS
  <1> HIDE DEF p
  <1>6. row' \in [CostRows -> CostRow] /\ \A j \in CostRows : row'[j] = IF j = i THEN p ELSE row[j]
    BY <1>1, <1>3, <1>5, <1>p DEF CostInv, RowsWell
  <1>i. i \in CostRows
    BY <1>3
  <1> HIDE DEF i
  <1>8. \A j \in CostRows : j \in Cost!There' <=> j \in Cost!There
    BY <1>3, <1>5, <1>6 DEF Cost!There
  <1>9. RowsWell'
    <2>1. \A j \in CostRows : row'[j].key # "none" \/ row'[j].by = "tph" \/ row'[j].seeded => row'[j].seeded /\ ~row'[j].over
      BY <1>5, <1>6, <1>o DEF CostInv, RowsWell
    <2>2. ASSUME NEW j \in Cost!There', NEW h \in Cost!There', row'[j].key = row'[h].key, row'[j].key # "none"
          PROVE  j = h
      <3>1. j \in CostRows /\ h \in CostRows /\ j \in Cost!There /\ h \in Cost!There
        BY <1>8 DEF Cost!There
      <3>2. row'[j].key = row[j].key /\ row'[h].key = row[h].key
        BY <3>1, <1>3, <1>5, <1>6
      <3> QED BY <3>1, <3>2, <2>2 DEF CostInv, RowsWell
    <2> QED BY <1>6, <2>1, <2>2 DEF RowsWell
  <1>10. CoveredRows(q)'
    <2> SUFFICES ASSUME NEW j \in Cost!There', row'[j].by = "tph", row'[j].key \in circuit \ q.left
                 PROVE  row'[j].n = q.tph
      BY <1>1 DEF CoveredRows
    <2>1. j \in CostRows /\ j \in Cost!There
      BY <1>8 DEF Cost!There
    <2> QED BY <2>1, <1>2, <1>c, <1>5, <1>6
  <1>11. ReqWell(q)'
    BY <1>1, <1>2, <1>4, <1>10 DEF ReqWell
  <1>12. \A j \in Cost!There : ~row[j].seeded => row'[j] = row[j]
    BY <1>6, <1>o DEF Cost!There
  <1> QED BY <1>1, <1>2, <1>9, <1>11, <1>12, CostWrites

(* A change of one row that is nobody's request to price.                   *)
LEMMA OneRowWell ==
  ASSUME CostInv, NEW i \in CostRows, NEW line \in CostRow, row' = [row EXCEPT ![i] = line],
         line.key # "none" \/ line.by = "tph" \/ line.seeded => line.seeded /\ ~line.over,
         line.key = "none" \/ (i \in Cost!There /\ line.key = row[i].key)
  PROVE  RowsWell' /\ \A j \in CostRows : row'[j] = IF j = i THEN line ELSE row[j]
  <1>1. row' \in [CostRows -> CostRow] /\ \A j \in CostRows : row'[j] = IF j = i THEN line ELSE row[j]
    BY DEF CostInv, RowsWell
  <1>2. \A j \in CostRows : row'[j].key # "none" \/ row'[j].by = "tph" \/ row'[j].seeded => row'[j].seeded /\ ~row'[j].over
    BY <1>1 DEF CostInv, RowsWell
  <1>3. ASSUME NEW j \in Cost!There', NEW h \in Cost!There', row'[j].key = row'[h].key, row'[j].key # "none"
        PROVE  j = h
    <2>1. j \in CostRows /\ h \in CostRows /\ row'[j].there /\ row'[h].there
      BY DEF Cost!There
    <2>2. row[j].key = row[h].key /\ row[j].key # "none" /\ j \in Cost!There /\ h \in Cost!There
      BY <2>1, <1>1, <1>3 DEF Cost!There
    <2> QED BY <2>2 DEF CostInv, RowsWell
  <1> QED BY <1>1, <1>2, <1>3 DEF RowsWell

(* ... changes what a user asks for ...                                     *)
LEMMA CostChanges ==
  ASSUME DataConstants, CostInv, Cost!Patch(r1) \/ Cost!Add(r1) \/ Cost!Delete(r1) \/ Cost!PatchFactor(r1) \/ Cost!Throughput
  PROVE  CostInv' /\ CostKept
  <1>n. /\ Cost!NoRow \in CostRow /\ Cost!NoRow.key = "none" /\ Cost!NoRow.by = "none" /\ ~Cost!NoRow.seeded
    BY DEF Cost!NoRow, CostRow
  <1>t. tph \in Nat /\ row \in [CostRows -> CostRow]
    BY DEF CostInv, RowsWell
  <1>1. CASE Cost!Patch(r1)
    <2>1. PICK i \in Cost!There : /\ row' = [row EXCEPT ![i] = [row[i] EXCEPT !.by = "user", !.n = 0]]
                                  /\ UNCHANGED <<factor, tph, circuit, capexReq>> /\ capexReq[r1] = Cost!Idle
      BY <1>1, <1>t DEF Cost!Patch, Cost!May, Cost!There
    <2>2. i \in CostRows /\ row[i] \in CostRow
      BY <1>t DEF Cost!There
    <2>q. PICK line : line = [row[i] EXCEPT !.by = "user", !.n = 0]
      OBVIOUS
    <2>3. line \in CostRow /\ line.key = row[i].key /\ line.by = "user" /\ line.seeded = row[i].seeded /\ line.over = row[i].over
      BY <2>2, <2>q DEF CostRow
    <2>4. RowsWell'
      BY <2>1, <2>2, <2>3, <2>q, OneRowWell DEF CostInv, RowsWell
    <2> QED BY <2>1, <2>4, <1>t, CostAside
  <1>2. CASE Cost!Add(r1)
    <2>1. PICK i \in CostRows : /\ row' = [row EXCEPT ![i] = [Cost!NoRow EXCEPT !.there = TRUE, !.by = "user"]]
                            /\ UNCHANGED <<factor, tph, circuit, capexReq>> /\ capexReq[r1] = Cost!Idle
      BY <1>2 DEF Cost!Add, Cost!May, Cost!Free
    <2>q. PICK line : line = [Cost!NoRow EXCEPT !.there = TRUE, !.by = "user"]
      OBVIOUS
    <2>3. line \in CostRow /\ line.key = "none" /\ line.by = "user" /\ ~line.seeded
      BY <1>n, <2>q DEF CostRow
    <2>4. RowsWell'
      BY <2>1, <2>3, <2>q, OneRowWell
    <2> QED BY <2>1, <2>4, <1>t, CostAside
  <1>3. CASE Cost!Delete(r1)
    <2>1. PICK i \in Cost!There : /\ row' = [row EXCEPT ![i] = Cost!NoRow]
                                  /\ UNCHANGED <<factor, tph, circuit, capexReq>> /\ capexReq[r1] = Cost!Idle
      BY <1>3 DEF Cost!Delete, Cost!May
    <2>2. i \in CostRows
      BY DEF Cost!There
    <2>4. RowsWell'
      BY <2>1, <2>2, <1>n, OneRowWell
    <2> QED BY <2>1, <2>4, <1>t, CostAside
  <1>4. CASE Cost!PatchFactor(r1)
    <2>1. UNCHANGED <<row, tph, circuit, capexReq>> /\ capexReq[r1] = Cost!Idle
      BY <1>4 DEF Cost!PatchFactor, Cost!May
    <2>2. RowsWell'
      BY <2>1 DEF CostInv, RowsWell, Cost!There
    <2> QED BY <2>1, <2>2, <1>t, CostAside
  <1>5. CASE Cost!Throughput
    <2>1. UNCHANGED <<row, factor, circuit, capexReq>> /\ capexReq[r1] = Cost!Idle /\ tph' \in 1 .. MaxTph
      BY <1>5 DEF Cost!Throughput
    <2>2. RowsWell'
      BY <2>1 DEF CostInv, RowsWell, Cost!There
    <2>3. tph' \in Nat
      BY <2>1 DEF DataConstants, Cost!CapexConstants
    <2> QED BY <2>1, <2>2, <2>3, CostAside
  <1> QED BY <1>1, <1>2, <1>3, <1>4, <1>5

(* ... ends ...                                                             *)
LEMMA CostEnds ==
  ASSUME DataConstants, CostInv, Cost!Defaults(r1) \/ Cost!Recomputed(r1)
  PROVE  CostInv' /\ CostKept
  <1>i. Cost!Idle \in CostReq /\ Cost!Idle.at = "idle"
    BY DEF Cost!Idle, CostReq
  <1>q. PICK q : q = Cost!Idle
    OBVIOUS
  <1>1. /\ capexReq' = [capexReq EXCEPT ![r1] = q] /\ UNCHANGED <<row, tph, circuit>>
        /\ factor.over => factor' = factor
        /\ \/ capexReq[r1].at = "take" /\ capexReq[r1].left = {}
           \/ capexReq[r1].at = "price" /\ capexReq[r1].left = {}
    BY <1>q DEF Cost!Defaults, Cost!Recomputed
  <1>2. \A i \in Cost!There : row[i].by = "tph" /\ row[i].key \in circuit => row[i].n = capexReq[r1].tph
    BY <1>1 DEF CostInv, ReqWell, CoveredRows
  <1>3. Cost!EndsPriced
    <2> SUFFICES ASSUME NEW i \in Cost!There, row'[i].by = "tph" /\ row'[i].key \in circuit
                 PROVE  row'[i].n = capexReq[r1].tph
      BY DEF Cost!EndsPriced
    <2> QED BY <1>1, <1>2
  <1>4. capexReq' \in [{r1} -> CostReq] /\ capexReq'[r1] = q
    BY <1>i, <1>q, <1>1 DEF CostInv
  <1>5. RowsWell'
    BY <1>1 DEF CostInv, RowsWell, Cost!There
  <1>6. ReqWell(q)'
    BY <1>i, <1>q DEF ReqWell
  <1>7. CostInv'
    BY <1>1, <1>4, <1>5, <1>6 DEF CostInv
  <1>8. Cost!ManualSurvive /\ Cost!FactorKept
    BY <1>1 DEF Cost!ManualSurvive, Cost!FactorKept
  <1> QED BY <1>3, <1>7, <1>8 DEF CostKept

(* ... takes factors back to the defaults ...                               *)
LEMMA CostResets ==
  ASSUME DataConstants, CostInv, Cost!Reset(r1)
  PROVE  CostInv' /\ CostKept
  <1>t. row \in [CostRows -> CostRow] /\ capexReq \in [{r1} -> CostReq]
    BY DEF CostInv, RowsWell
  <1>1. PICK i \in Cost!There :
          /\ row[i].seeded /\ row' = [row EXCEPT ![i] = [row[i] EXCEPT !.over = FALSE]]
          /\ capexReq' = [capexReq EXCEPT ![r1] = [capexReq[r1] EXCEPT !.at = "read", !.id = i]]
          /\ UNCHANGED <<factor, tph, circuit>>
    BY <1>t DEF Cost!Reset, Cost!There
  <1>2. i \in CostRows /\ row[i] \in CostRow
    BY <1>t DEF Cost!There
  <1>p. PICK line : line = [row[i] EXCEPT !.over = FALSE]
    OBVIOUS
  <1>3. line \in CostRow /\ line.key = row[i].key /\ line.seeded = row[i].seeded /\ ~line.over /\ line.by = row[i].by
    BY <1>2, <1>p DEF CostRow
  <1>4. RowsWell' /\ \A j \in CostRows : row'[j] = IF j = i THEN line ELSE row[j]
    BY <1>1, <1>2, <1>3, <1>p, OneRowWell
  <1>q. PICK q : q = [capexReq[r1] EXCEPT !.at = "read", !.id = i]
    OBVIOUS
  <1>5. q \in CostReq /\ q.at = "read"
    BY <1>t, <1>2, <1>q DEF CostReq
  <1>6. ReqWell(q)'
    BY <1>5 DEF ReqWell
  <1>7. \A j \in Cost!There : ~row[j].seeded => row'[j] = row[j]
    BY <1>1, <1>4 DEF Cost!There
  <1> QED BY <1>1, <1>4, <1>5, <1>6, <1>7, <1>q, CostWrites

(* ... or prices everything again.                                          *)
LEMMA CostReprices ==
  ASSUME DataConstants, CostInv, Cost!Read(r1) \/ Cost!Reprice(r1)
  PROVE  CostInv' /\ CostKept
  <1>t. row \in [CostRows -> CostRow] /\ capexReq \in [{r1} -> CostReq] /\ tph \in Nat /\ circuit \subseteq Keys
    BY DEF CostInv, RowsWell
  <1>1. CASE Cost!Read(r1)
    <2>1. /\ capexReq' = [capexReq EXCEPT ![r1] = [capexReq[r1] EXCEPT !.at = "price", !.tph = tph, !.left = Cost!Parametric]]
          /\ UNCHANGED <<row, factor, tph, circuit>>
      BY <1>1, <1>t DEF Cost!Read
    <2>q. PICK q : q = [capexReq[r1] EXCEPT !.at = "price", !.tph = tph, !.left = Cost!Parametric]
      OBVIOUS
    <2>2. Cost!Parametric \subseteq CostRows
      BY DEF Cost!Parametric, Cost!There
    <2>3. q \in CostReq /\ q.at = "price" /\ q.left = Cost!Parametric
      BY <2>2, <2>q, <1>t DEF CostReq
    <2>4. ReqWell(q)
      BY <2>3 DEF ReqWell, Cost!Parametric, Cost!There, CostInv, RowsWell
    <2>5. ReqWell(q)'
      BY <2>1, <2>3, <2>4 DEF ReqWell, Cost!There
    <2> QED BY <2>1, <2>3, <2>5, <2>q, <1>t, CostReads
  <1>2. CASE Cost!Reprice(r1)
    <2>1. PICK i \in capexReq[r1].left :
            /\ capexReq[r1].at = "price"
            /\ capexReq' = [capexReq EXCEPT ![r1] = [capexReq[r1] EXCEPT !.left = @ \ {i}]]
            /\ row' = IF row[i].there THEN [row EXCEPT ![i].by = "tph", ![i].n = capexReq[r1].tph] ELSE row
            /\ UNCHANGED <<factor, tph, circuit>>
      BY <1>2, <1>t DEF Cost!Reprice
    <2>2. i \in Cost!There /\ i \in CostRows /\ row[i].there /\ row[i].seeded /\ row[i] \in CostRow /\ ~row[i].over
      BY <2>1, <1>t DEF CostInv, ReqWell, Cost!There, RowsWell
    <2>p. PICK line : line = [row[i] EXCEPT !.by = "tph", !.n = capexReq[r1].tph]
      OBVIOUS
    <2>3. row' = [row EXCEPT ![i] = line]
      BY <2>1, <2>2, <2>p, <1>t
    <2>4. line \in CostRow /\ line.key = row[i].key /\ line.seeded /\ ~line.over /\ line.by = "tph" /\ line.there
          /\ line.n = capexReq[r1].tph
      BY <2>2, <2>p, <1>t DEF CostRow, CostReq
    <2>5. RowsWell' /\ \A j \in CostRows : row'[j] = IF j = i THEN line ELSE row[j]
      BY <2>2, <2>3, <2>4, OneRowWell
    <2>q. PICK q : q = [capexReq[r1] EXCEPT !.left = @ \ {i}]
      OBVIOUS
    <2>6. q \in CostReq /\ q.at = "price" /\ q.left = capexReq[r1].left \ {i} /\ q.tph = capexReq[r1].tph
      BY <2>1, <2>q, <1>t DEF CostReq
    <2>7. Cost!There' = Cost!There
      BY <2>2, <2>4, <2>5 DEF Cost!There
    <2>8. ReqWell(q)'
      <3>1. \A j \in q.left : j \in Cost!There' /\ row'[j].seeded
        BY <2>1, <2>5, <2>6, <2>7, <2>4 DEF CostInv, ReqWell, Cost!There
      <3>2. \A j \in Cost!There' \ q.left : row'[j].by = "tph" => row'[j].n = q.tph
        <4> SUFFICES ASSUME NEW j \in Cost!There, j \notin q.left, row'[j].by = "tph" PROVE row'[j].n = q.tph
          BY <2>7
        <4>1. j \in CostRows
          BY DEF Cost!There
        <4>2. CASE j = i
          BY <4>1, <4>2, <2>4, <2>5, <2>6
        <4>3. CASE j # i
          <5>1. row'[j] = row[j] /\ j \notin capexReq[r1].left
            BY <4>1, <4>3, <2>5, <2>6
          <5> QED BY <5>1, <2>1, <2>6 DEF CostInv, ReqWell
        <4> QED BY <4>2, <4>3
      <3> QED BY <3>1, <3>2, <2>6 DEF ReqWell
    <2>9. \A j \in Cost!There : ~row[j].seeded => row'[j] = row[j]
      BY <2>2, <2>5 DEF Cost!There
    <2> QED BY <2>1, <2>5, <2>6, <2>8, <2>9, <2>q, CostWrites
  <1> QED BY <1>1, <1>2

(* So every step keeps the costs that a user entered.                       *)
LEMMA CostStepKeeps == DataConstants /\ CostInv /\ Cost!Next => CostInv' /\ CostKept
  BY CostSeeds, CostClears, CostTakes, CostInserts, CostUpdates, CostChanges, CostEnds, CostResets, CostReprices DEF Cost!Next

-----------------------------------------------------------------------------
(* Requests that interleave: what they price or clear is a row of a          *)
(* template, and a row that a user adds has an id that none of them holds.  *)
RaceRow == [there : BOOLEAN, key : OneItem \cup {"none"}, seeded : BOOLEAN, over : BOOLEAN,
            by : {"none", "user", "tph"}, n : Nat]
RaceReq == [at : {"idle", "clear", "take", "insert", "update", "read", "price"}, force : BOOLEAN, tph : Nat,
            left : SUBSET (OneItem \cup CostRows), key : OneItem \cup {"none"}, id : CostRows \cup {"none"}]
Templated(i) == row[i].there => row[i].seeded
HoldsTemplated(q) ==
  /\ q.at = "clear" \/ q.at = "take" => q.left \subseteq OneItem
  /\ q.at = "insert" => q.left \subseteq OneItem /\ q.key \in OneItem
  /\ q.at = "update" => q.left \subseteq OneItem /\ q.key \in OneItem /\ q.id \in CostRows /\ Templated(q.id)
  /\ q.at = "price" => q.left \subseteq CostRows /\ \A i \in q.left : Templated(i)
RaceInv ==
  /\ row \in [CostRows -> RaceRow] /\ \A i \in CostRows : row[i].key # "none" => row[i].seeded
  /\ capexReq \in [CostUsers -> RaceReq] /\ tph \in Nat
  /\ \A r \in CostUsers : HoldsTemplated(capexReq[r])

RaceKept == CostRace!ManualSurvive /\ CostRace!FactorKept

(* A step of one request that keeps the rows.                               *)
LEMMA RaceReads ==
  ASSUME RaceInv, NEW r \in CostUsers, NEW q \in RaceReq, capexReq' = [capexReq EXCEPT ![r] = q],
         UNCHANGED <<row, tph>>, factor.over => factor' = factor, HoldsTemplated(q)
  PROVE  RaceInv' /\ RaceKept
  <1>1. capexReq' \in [CostUsers -> RaceReq] /\ \A p \in CostUsers : capexReq'[p] = IF p = r THEN q ELSE capexReq[p]
    BY DEF RaceInv
  <1>2. \A i : Templated(i)' <=> Templated(i)
    BY DEF Templated
  <1>3. \A p \in CostUsers : HoldsTemplated(capexReq[p])'
    <2> TAKE p \in CostUsers
    <2>1. HoldsTemplated(capexReq'[p])
      BY <1>1 DEF RaceInv
    <2> QED BY <2>1, <1>2 DEF HoldsTemplated
  <1>4. RaceInv'
    BY <1>1, <1>3 DEF RaceInv
  <1>5. RaceKept
    BY DEF RaceKept, CostRace!ManualSurvive, CostRace!FactorKept
  <1> QED BY <1>4, <1>5

(* A step of one request, or of nobody, that changes rows.                  *)
LEMMA RaceWrites ==
  ASSUME RaceInv, NEW r \in CostUsers, NEW q \in RaceReq, capexReq' = [capexReq EXCEPT ![r] = q],
         UNCHANGED tph,
         row' \in [CostRows -> RaceRow], \A i \in CostRows : row'[i].key # "none" => row'[i].seeded,
         \A i \in CostRows, p \in CostUsers : i \in capexReq[p].left \/ i = capexReq[p].id => (Templated(i) => Templated(i)'),
         HoldsTemplated(q)',
         capexReq' = capexReq \/ (factor' = factor /\ \A i \in CostRace!There : ~row[i].seeded => row'[i] = row[i])
  PROVE  RaceInv' /\ RaceKept
  <1>1. capexReq' \in [CostUsers -> RaceReq] /\ \A p \in CostUsers : capexReq'[p] = IF p = r THEN q ELSE capexReq[p]
    BY DEF RaceInv
  <1>3. \A p \in CostUsers : HoldsTemplated(capexReq[p])'
    <2> TAKE p \in CostUsers
    <2>1. CASE p = r
      BY <2>1, <1>1 DEF HoldsTemplated, Templated
    <2>2. CASE p # r
      <3>1. capexReq'[p] = capexReq[p] /\ HoldsTemplated(capexReq[p])
        BY <1>1, <2>2 DEF RaceInv
      <3> QED BY <3>1 DEF HoldsTemplated
    <2> QED BY <2>1, <2>2
  <1>4. RaceInv'
    BY <1>1, <1>3 DEF RaceInv
  <1>5. RaceKept
    BY DEF RaceKept, CostRace!ManualSurvive, CostRace!FactorKept
  <1> QED BY <1>4, <1>5

(* A request that is not under way.                                         *)
LEMMA RaceIdle == CostRace!Idle \in RaceReq /\ HoldsTemplated(CostRace!Idle) /\ CostRace!Idle.at = "idle"
  BY DEF CostRace!Idle, RaceReq, HoldsTemplated

(* Requests that overlap: one seeds ...                                     *)
LEMMA RaceSeeds ==
  ASSUME DataConstants, RaceInv, NEW r \in CostUsers,
         CostRace!Seed(r) \/ CostRace!Take(r) \/ CostRace!Read(r) \/ CostRace!Defaults(r) \/ CostRace!Recomputed(r)
  PROVE  RaceInv' /\ RaceKept
  <1>t. /\ capexReq \in [CostUsers -> RaceReq] /\ tph \in Nat /\ capexReq[r] \in RaceReq /\ row \in [CostRows -> RaceRow]
        /\ HoldsTemplated(capexReq[r]) /\ "none" \notin OneItem
    BY DEF RaceInv, DataConstants, CostRace!CapexConstants
  <1>1. CASE CostRace!Seed(r)
    <2>1. PICK force \in BOOLEAN :
            /\ capexReq' = [capexReq EXCEPT ![r] = [CostRace!Idle EXCEPT !.at = IF force THEN "clear" ELSE "take", !.force = force,
                                                                         !.tph = tph, !.left = OneItem]]
            /\ UNCHANGED <<row, factor, tph>>
      BY <1>1 DEF CostRace!Seed
    <2>q. PICK q : q = [CostRace!Idle EXCEPT !.at = IF force THEN "clear" ELSE "take", !.force = force, !.tph = tph, !.left = OneItem]
      OBVIOUS
    <2>2. q \in RaceReq /\ q.left = OneItem /\ q.at \in {"clear", "take"}
      BY <2>q, <1>t DEF RaceReq, CostRace!Idle
    <2>3. HoldsTemplated(q)
      BY <2>2 DEF HoldsTemplated
    <2> QED BY <2>1, <2>q, <2>2, <2>3, RaceReads
  <1>2. CASE CostRace!Take(r)
    <2>1. PICK k \in capexReq[r].left :
            /\ capexReq[r].at = "take" /\ UNCHANGED <<row, factor, tph, circuit>>
            /\ \/ /\ CostRace!OfKey(k) = {}
                  /\ capexReq' = [capexReq EXCEPT ![r].key = k, ![r].left = @ \ {k}, ![r].at = "insert"]
               \/ \E i \in CostRace!OfKey(k) :
                    capexReq' = [capexReq EXCEPT ![r].key = k, ![r].left = @ \ {k}, ![r].id = i,
                                   ![r].at = IF row[i].over /\ ~capexReq[r].force THEN "take" ELSE "update"]
      BY <1>2, Zenon DEF CostRace!Take
    <2>2. capexReq[r].left \subseteq OneItem /\ k \in OneItem /\ k # "none"
      BY <2>1, <1>t DEF HoldsTemplated
    <2>3. CASE capexReq' = [capexReq EXCEPT ![r].key = k, ![r].left = @ \ {k}, ![r].at = "insert"]
      <3>q. PICK q : q = [capexReq[r] EXCEPT !.key = k, !.left = @ \ {k}, !.at = "insert"]
        OBVIOUS
      <3>1. q \in RaceReq /\ q.at = "insert" /\ q.key = k /\ q.left = capexReq[r].left \ {k}
        BY <2>2, <3>q, <1>t DEF RaceReq
      <3>2. capexReq' = [capexReq EXCEPT ![r] = q]
        BY <2>3, <3>q, <1>t
      <3>3. HoldsTemplated(q)
        BY <3>1, <2>2 DEF HoldsTemplated
      <3> QED BY <2>1, <3>1, <3>2, <3>3, RaceReads
    <2>4. ASSUME NEW i \in CostRace!OfKey(k),
                 capexReq' = [capexReq EXCEPT ![r].key = k, ![r].left = @ \ {k}, ![r].id = i,
                                ![r].at = IF row[i].over /\ ~capexReq[r].force THEN "take" ELSE "update"]
          PROVE  RaceInv' /\ RaceKept
      <3>0. i \in CostRows /\ row[i].key = k /\ row[i].seeded
        BY <2>2 DEF CostRace!OfKey, CostRace!There, RaceInv
      <3>p. PICK at \in {"take", "update"} : at = IF row[i].over /\ ~capexReq[r].force THEN "take" ELSE "update"
        OBVIOUS
      <3>q. PICK q : q = [capexReq[r] EXCEPT !.key = k, !.left = @ \ {k}, !.id = i, !.at = at]
        OBVIOUS
      <3>1. q \in RaceReq /\ q.at = at /\ q.key = k /\ q.left = capexReq[r].left \ {k} /\ q.id = i
        BY <2>2, <3>0, <3>q, <1>t DEF RaceReq
      <3>2. capexReq' = [capexReq EXCEPT ![r] = q]
        BY <2>4, <3>p, <3>q, <1>t
      <3>3. HoldsTemplated(q)
        BY <3>0, <3>1, <2>2 DEF HoldsTemplated, Templated
      <3> QED BY <2>1, <3>1, <3>2, <3>3, RaceReads
    <2> QED BY <2>1, <2>3, <2>4
  <1>3. CASE CostRace!Read(r)
    <2>1. /\ capexReq' = [capexReq EXCEPT ![r] = [capexReq[r] EXCEPT !.at = "price", !.tph = tph, !.left = CostRace!Parametric]]
          /\ UNCHANGED <<row, factor, tph, circuit>>
      BY <1>3, <1>t DEF CostRace!Read
    <2>q. PICK q : q = [capexReq[r] EXCEPT !.at = "price", !.tph = tph, !.left = CostRace!Parametric]
      OBVIOUS
    <2>2. CostRace!Parametric \subseteq CostRows
      BY DEF CostRace!Parametric, CostRace!There
    <2>3. q \in RaceReq /\ q.at = "price" /\ q.left = CostRace!Parametric
      BY <2>2, <2>q, <1>t DEF RaceReq
    <2>4. HoldsTemplated(q)
      BY <2>2, <2>3 DEF HoldsTemplated, Templated, CostRace!Parametric
    <2> QED BY <2>1, <2>3, <2>4, <2>q, RaceReads
  <1>4. CASE CostRace!Defaults(r) \/ CostRace!Recomputed(r)
    <2>1. /\ capexReq' = [capexReq EXCEPT ![r] = CostRace!Idle] /\ UNCHANGED <<row, tph>>
          /\ factor.over => factor' = factor
      BY <1>4 DEF CostRace!Defaults, CostRace!Recomputed
    <2> QED BY <2>1, RaceIdle, RaceReads
  <1> QED BY <1>1, <1>2, <1>3, <1>4

(* The statements of a request that write: they touch rows of templates.    *)
LEMMA RaceStatements ==
  ASSUME DataConstants, RaceInv, NEW r \in CostUsers,
         CostRace!Clear(r) \/ CostRace!InsertItem(r) \/ CostRace!UpdateItem(r) \/ CostRace!Reset(r) \/ CostRace!Reprice(r)
  PROVE  RaceInv' /\ RaceKept
  <1>t. /\ capexReq \in [CostUsers -> RaceReq] /\ capexReq[r] \in RaceReq /\ row \in [CostRows -> RaceRow]
        /\ HoldsTemplated(capexReq[r]) /\ \A i \in CostRows : row[i].key # "none" => row[i].seeded
    BY DEF RaceInv
  <1>n. CostRace!NoRow \in RaceRow /\ CostRace!NoRow.key = "none" /\ ~CostRace!NoRow.there
    BY DEF CostRace!NoRow, RaceRow
  <1>p. ASSUME NEW over \in BOOLEAN, capexReq[r].key \in OneItem
        PROVE  CostRace!Priced(r, over) \in RaceRow /\ CostRace!Priced(r, over).seeded
    <2>1. capexReq[r].tph \in Nat
      BY <1>t DEF RaceReq
    <2> QED BY <2>1, <1>p DEF RaceRow, CostRace!Priced
  <1>1. CASE CostRace!Clear(r)
    <2>1. /\ capexReq[r].at = "clear" /\ capexReq' = [capexReq EXCEPT ![r] = [capexReq[r] EXCEPT !.at = "take"]]
          /\ row' = [i \in CostRows |-> IF row[i].there /\ CostRace!Forced(i) THEN CostRace!NoRow ELSE row[i]]
          /\ UNCHANGED <<factor, tph>>
      BY <1>1, <1>t DEF CostRace!Clear
    <2>q. PICK q : q = [capexReq[r] EXCEPT !.at = "take"]
      OBVIOUS
    <2>2. q \in RaceReq /\ q.at = "take" /\ q.left \subseteq OneItem
      BY <2>1, <2>q, <1>t DEF RaceReq, HoldsTemplated
    <2>3. row' \in [CostRows -> RaceRow] /\ \A i \in CostRows : row'[i] = row[i] \/ (row'[i] = CostRace!NoRow /\ row[i].seeded)
      BY <2>1, <1>t, <1>n DEF CostRace!Forced
    <2>4. \A i \in CostRows : row'[i].key # "none" => row'[i].seeded
      BY <2>3, <1>t, <1>n
    <2>5. \A i \in CostRows : Templated(i) => Templated(i)'
      BY <2>3, <1>n DEF Templated
    <2>6. HoldsTemplated(q)'
      BY <2>2 DEF HoldsTemplated
    <2>7. \A i \in CostRace!There : ~row[i].seeded => row'[i] = row[i]
      BY <2>3 DEF CostRace!There
    <2> QED BY <2>1, <2>q, <2>2, <2>3, <2>4, <2>5, <2>6, <2>7, RaceWrites
  <1>2. CASE CostRace!InsertItem(r)
    <2>1. PICK i \in CostRows \ CostRace!There :
            /\ capexReq[r].at = "insert" /\ capexReq' = [capexReq EXCEPT ![r] = [capexReq[r] EXCEPT !.at = "take"]]
            /\ row' = [row EXCEPT ![i] = CostRace!Priced(r, FALSE)] /\ UNCHANGED <<factor, tph>>
      BY <1>2, <1>t DEF CostRace!InsertItem, CostRace!Free
    <2>q. PICK q : q = [capexReq[r] EXCEPT !.at = "take"]
      OBVIOUS
    <2>2. q \in RaceReq /\ q.at = "take" /\ q.left \subseteq OneItem /\ capexReq[r].key \in OneItem
      BY <2>1, <2>q, <1>t DEF RaceReq, HoldsTemplated
    <2>p. PICK line : line = CostRace!Priced(r, FALSE)
      OBVIOUS
    <2>l. line \in RaceRow /\ line.seeded
      BY <2>p, <2>2, <1>p
    <2>3. row' \in [CostRows -> RaceRow] /\ \A j \in CostRows : row'[j] = IF j = i THEN line ELSE row[j]
      BY <2>1, <2>p, <2>l, <1>t
    <2>4. \A j \in CostRows : row'[j].key # "none" => row'[j].seeded
      BY <2>3, <2>l, <1>t
    <2>5. \A j \in CostRows : Templated(j) => Templated(j)'
      BY <2>3, <2>l DEF Templated
    <2>6. HoldsTemplated(q)'
      BY <2>2 DEF HoldsTemplated
    <2>7. \A j \in CostRace!There : ~row[j].seeded => row'[j] = row[j]
      BY <2>1, <2>3 DEF CostRace!There
    <2> QED BY <2>1, <2>q, <2>2, <2>3, <2>4, <2>5, <2>6, <2>7, RaceWrites
  <1>3. CASE CostRace!UpdateItem(r)
    <2>0. capexReq[r].at = "update" /\ capexReq[r].id \in CostRows /\ Templated(capexReq[r].id) /\ capexReq[r].key \in OneItem
          /\ capexReq[r].left \subseteq OneItem
      BY <1>3, <1>t DEF CostRace!UpdateItem, HoldsTemplated
    <2>i. PICK i \in CostRows : i = capexReq[r].id
      BY <2>0
    <2>1. /\ capexReq' = [capexReq EXCEPT ![r] = [capexReq[r] EXCEPT !.at = "take", !.id = "none"]]
          /\ row' = [j \in CostRows |-> IF j = i /\ row[j].there THEN CostRace!Priced(r, row[j].over) ELSE row[j]]
          /\ UNCHANGED <<factor, tph>>
      BY <1>3, <1>t, <2>i DEF CostRace!UpdateItem
    <2>q. PICK q : q = [capexReq[r] EXCEPT !.at = "take", !.id = "none"]
      OBVIOUS
    <2>2. q \in RaceReq /\ q.at = "take" /\ q.left \subseteq OneItem
      BY <2>0, <2>q, <1>t DEF RaceReq
    <2>p. PICK line : line = CostRace!Priced(r, row[i].over)
      OBVIOUS
    <2>o. row[i].over \in BOOLEAN
      BY <1>t DEF RaceRow
    <2>l. line \in RaceRow /\ line.seeded
      BY <2>p, <2>0, <2>o, <1>p
    <2>3. row' \in [CostRows -> RaceRow]
          /\ \A j \in CostRows : row'[j] = row[j] \/ (j = i /\ row[j].there /\ row'[j] = line)
      BY <2>1, <2>p, <2>l, <1>t
    <2>4. \A j \in CostRows : row'[j].key # "none" => row'[j].seeded
      BY <2>3, <2>l, <1>t
    <2>5. \A j \in CostRows : Templated(j) => Templated(j)'
      BY <2>3, <2>l DEF Templated
    <2>6. HoldsTemplated(q)'
      BY <2>2 DEF HoldsTemplated
    <2>7. \A j \in CostRace!There : ~row[j].seeded => row'[j] = row[j]
      BY <2>0, <2>i, <2>3 DEF CostRace!There, Templated
    <2> QED BY <2>1, <2>q, <2>2, <2>3, <2>4, <2>5, <2>6, <2>7, RaceWrites
  <1>4. CASE CostRace!Reset(r)
    <2>1. PICK i \in CostRows :
            /\ row[i].seeded /\ row' = [row EXCEPT ![i] = [row[i] EXCEPT !.over = FALSE]]
            /\ capexReq' = [capexReq EXCEPT ![r] = [capexReq[r] EXCEPT !.at = "read", !.id = i]] /\ UNCHANGED <<factor, tph>>
      BY <1>4, <1>t DEF CostRace!Reset, CostRace!There
    <2>q. PICK q : q = [capexReq[r] EXCEPT !.at = "read", !.id = i]
      OBVIOUS
    <2>2. q \in RaceReq /\ q.at = "read"
      BY <2>q, <1>t DEF RaceReq
    <2>p. PICK line : line = [row[i] EXCEPT !.over = FALSE]
      OBVIOUS
    <2>l. line \in RaceRow /\ line.seeded
      BY <2>1, <2>p, <1>t DEF RaceRow
    <2>3. row' \in [CostRows -> RaceRow] /\ \A j \in CostRows : row'[j] = IF j = i THEN line ELSE row[j]
      BY <2>1, <2>p, <2>l, <1>t
    <2>4. \A j \in CostRows : row'[j].key # "none" => row'[j].seeded
      BY <2>3, <2>l, <1>t
    <2>5. \A j \in CostRows : Templated(j) => Templated(j)'
      BY <2>3, <2>l DEF Templated
    <2>6. HoldsTemplated(q)'
      BY <2>2 DEF HoldsTemplated
    <2>7. \A j \in CostRace!There : ~row[j].seeded => row'[j] = row[j]
      BY <2>1, <2>3 DEF CostRace!There
    <2> QED BY <2>1, <2>q, <2>2, <2>3, <2>4, <2>5, <2>6, <2>7, RaceWrites
  <1>5. CASE CostRace!Reprice(r)
    <2>1. PICK i \in capexReq[r].left :
            /\ capexReq[r].at = "price" /\ capexReq' = [capexReq EXCEPT ![r] = [capexReq[r] EXCEPT !.left = @ \ {i}]]
            /\ row' = IF row[i].there THEN [row EXCEPT ![i].by = "tph", ![i].n = capexReq[r].tph] ELSE row
            /\ UNCHANGED <<factor, tph>>
      BY <1>5, <1>t DEF CostRace!Reprice
    <2>2. i \in CostRows /\ Templated(i) /\ row[i] \in RaceRow /\ capexReq[r].tph \in Nat
          /\ capexReq[r].left \subseteq CostRows /\ \A j \in capexReq[r].left : Templated(j)
      BY <2>1, <1>t DEF HoldsTemplated, RaceReq
    <2>q. PICK q : q = [capexReq[r] EXCEPT !.left = @ \ {i}]
      OBVIOUS
    <2>3. q \in RaceReq /\ q.at = "price" /\ q.left = capexReq[r].left \ {i}
      BY <2>1, <2>q, <1>t DEF RaceReq
    <2>p. PICK line : line = [row[i] EXCEPT !.by = "tph", !.n = capexReq[r].tph]
      OBVIOUS
    <2>l. line \in RaceRow /\ line.seeded = row[i].seeded /\ line.key = row[i].key /\ line.there = row[i].there
      BY <2>2, <2>p DEF RaceRow
    <2>4. row' = IF row[i].there THEN [row EXCEPT ![i] = line] ELSE row
      BY <2>1, <2>2, <2>p, <1>t
    <2>5. row' \in [CostRows -> RaceRow]
          /\ \A j \in CostRows : row'[j] = row[j] \/ (j = i /\ row[j].there /\ row'[j] = line)
      BY <2>4, <2>l, <1>t
    <2>6. \A j \in CostRows : row'[j].key # "none" => row'[j].seeded
      BY <2>5, <2>l, <1>t
    <2>7. \A j \in CostRows : Templated(j) => Templated(j)'
      BY <2>5, <2>l DEF Templated
    <2>8. HoldsTemplated(q)'
      BY <2>2, <2>3, <2>7 DEF HoldsTemplated
    <2>9. \A j \in CostRace!There : ~row[j].seeded => row'[j] = row[j]
      BY <2>2, <2>5 DEF CostRace!There, Templated
    <2> QED BY <2>1, <2>q, <2>3, <2>5, <2>6, <2>7, <2>8, <2>9, RaceWrites
  <1> QED BY <1>1, <1>2, <1>3, <1>4, <1>5

(* ... and another changes, adds or deletes.                                *)
LEMMA RaceChanges ==
  ASSUME DataConstants, RaceInv, NEW r \in CostUsers,
         CostRace!Patch(r) \/ CostRace!Add(r) \/ CostRace!Delete(r) \/ CostRace!PatchFactor(r)
  PROVE  RaceInv' /\ RaceKept
  <1>t. /\ capexReq \in [CostUsers -> RaceReq] /\ capexReq[r] \in RaceReq /\ row \in [CostRows -> RaceRow]
        /\ HoldsTemplated(capexReq[r]) /\ \A i \in CostRows : row[i].key # "none" => row[i].seeded
        /\ capexReq = [capexReq EXCEPT ![r] = capexReq[r]]
    BY DEF RaceInv
  <1>n. CostRace!NoRow \in RaceRow /\ CostRace!NoRow.key = "none" /\ ~CostRace!NoRow.there
    BY DEF CostRace!NoRow, RaceRow
  <1>q. PICK q : q = capexReq[r]
    OBVIOUS
  <1>i. capexReq[r].at = "idle"
    BY RaceIdle DEF CostRace!Patch, CostRace!Add, CostRace!Delete, CostRace!PatchFactor, CostRace!May
  <1>h. HoldsTemplated(q)'
    BY <1>i, <1>q DEF HoldsTemplated
  <1>c. capexReq' = capexReq /\ tph' = tph
    BY DEF CostRace!Patch, CostRace!Add, CostRace!Delete, CostRace!PatchFactor
  <1>s. ASSUME NEW i \in CostRows, NEW line \in RaceRow, row' = [row EXCEPT ![i] = line],
               line.key # "none" => line.seeded,
               line.there => (row[i].there /\ line.seeded = row[i].seeded) \/
                             \A p \in CostUsers : i \notin capexReq[p].left /\ i # capexReq[p].id
        PROVE  RaceInv' /\ RaceKept
    <2>1. row' \in [CostRows -> RaceRow] /\ \A j \in CostRows : row'[j] = IF j = i THEN line ELSE row[j]
      BY <1>s, <1>t
    <2>2. \A j \in CostRows : row'[j].key # "none" => row'[j].seeded
      BY <2>1, <1>s, <1>t
    <2>3. ASSUME NEW j \in CostRows, NEW p \in CostUsers, j \in capexReq[p].left \/ j = capexReq[p].id, Templated(j)
          PROVE  Templated(j)'
      <3>1. CASE j = i
        BY <3>1, <2>1, <2>3, <1>s DEF Templated
      <3>2. CASE j # i
        BY <3>2, <2>1, <2>3 DEF Templated
      <3> QED BY <3>1, <3>2
    <2> QED BY <2>1, <2>2, <2>3, <1>c, <1>h, <1>q, <1>t, RaceWrites
  <1>1. CASE CostRace!Patch(r)
    <2>1. PICK i \in CostRows : row[i].there /\ row' = [row EXCEPT ![i] = [row[i] EXCEPT !.by = "user", !.n = 0]]
      BY <1>1, <1>t DEF CostRace!Patch, CostRace!There
    <2>p. PICK line : line = [row[i] EXCEPT !.by = "user", !.n = 0]
      OBVIOUS
    <2>2. line \in RaceRow /\ line.seeded = row[i].seeded /\ line.key = row[i].key
      BY <2>p, <1>t DEF RaceRow
    <2> QED BY <2>1, <2>2, <2>p, <1>s, <1>t
  <1>2. CASE CostRace!Add(r)
    <2>1. PICK i \in CostRace!Free : row' = [row EXCEPT ![i] = [CostRace!NoRow EXCEPT !.there = TRUE, !.by = "user"]]
      BY <1>2 DEF CostRace!Add
    <2>p. PICK line : line = [CostRace!NoRow EXCEPT !.there = TRUE, !.by = "user"]
      OBVIOUS
    <2>2. line \in RaceRow /\ line.key = "none"
      BY <2>p, <1>n DEF RaceRow
    <2>3. i \in CostRows /\ \A p \in CostUsers : i \notin capexReq[p].left /\ i # capexReq[p].id
      BY DEF CostRace!Free
    <2> QED BY <2>1, <2>2, <2>3, <2>p, <1>s
  <1>3. CASE CostRace!Delete(r)
    <2>1. PICK i \in CostRows : row' = [row EXCEPT ![i] = CostRace!NoRow]
      BY <1>3 DEF CostRace!Delete, CostRace!There
    <2> QED BY <2>1, <1>n, <1>s
  <1>4. CASE CostRace!PatchFactor(r)
    <2>1. row' = row /\ capexReq' = capexReq
      BY <1>4 DEF CostRace!PatchFactor
    <2>2. RaceInv'
      BY <2>1, <1>c DEF RaceInv, HoldsTemplated, Templated
    <2>3. RaceKept
      BY <2>1 DEF RaceKept, CostRace!ManualSurvive, CostRace!FactorKept
    <2> QED BY <2>2, <2>3
  <1> QED BY <1>1, <1>2, <1>3, <1>4

(* So every step of theirs keeps the costs that users entered.              *)
LEMMA RaceStepKeeps == DataConstants /\ RaceInv /\ CostRace!Next => RaceInv' /\ RaceKept
  <1>1. ~CostRace!Throughput
    BY DEF CostRace!Throughput
  <1> QED BY <1>1, RaceSeeds, RaceStatements, RaceChanges DEF CostRace!Next

-----------------------------------------------------------------------------
(* In both parts.                                                           *)
AllCostInv == (part = "cost" => CostInv) /\ (part = "cost_race" => RaceInv)
CostsKept == (part = "cost" => CostKept) /\ (part = "cost_race" => RaceKept)

(* The registers begin with costs that are sound ...                        *)
LEMMA CostsBegin == AllInit => AllCostInv
  <1> SUFFICES ASSUME AllInit PROVE AllCostInv
    OBVIOUS
  <1>1. ASSUME part = "cost" PROVE CostInv
    <2>1. Cost!Init
      BY <1>1 DEF AllInit
    <2>2. PICK old \in SUBSET CostRows :
            row = [i \in CostRows |-> IF i \in old THEN [Cost!NoRow EXCEPT !.there = TRUE, !.over = TRUE, !.by = "user"]
                                  ELSE Cost!NoRow]
      BY <2>1 DEF Cost!Init
    <2>p. PICK line : line = [Cost!NoRow EXCEPT !.there = TRUE, !.over = TRUE, !.by = "user"]
      OBVIOUS
    <2>3. line \in CostRow /\ line.key = "none" /\ line.by = "user" /\ ~line.seeded
      BY <2>p DEF CostRow, Cost!NoRow
    <2>4. Cost!NoRow \in CostRow /\ Cost!NoRow.key = "none" /\ Cost!NoRow.by = "none" /\ ~Cost!NoRow.seeded
      BY DEF CostRow, Cost!NoRow
    <2>5. row \in [CostRows -> CostRow] /\ \A i \in CostRows : row[i] = line \/ row[i] = Cost!NoRow
      BY <2>2, <2>p, <2>3, <2>4
    <2>6. RowsWell
      BY <2>3, <2>4, <2>5 DEF RowsWell, Cost!There
    <2>7. circuit \subseteq Keys /\ tph \in Nat /\ capexReq = [r \in {r1} |-> Cost!Idle]
      BY <2>1 DEF Cost!Init
    <2>8. Cost!Idle \in CostReq /\ Cost!Idle.at = "idle"
      BY DEF CostReq, Cost!Idle
    <2>9. capexReq \in [{r1} -> CostReq] /\ ReqWell(capexReq[r1])
      BY <2>7, <2>8 DEF ReqWell
    <2> QED BY <2>6, <2>7, <2>9 DEF CostInv
  <1>2. ASSUME part = "cost_race" PROVE RaceInv
    <2>1. CostRace!Init
      BY <1>2 DEF AllInit
    <2>2. PICK old \in SUBSET CostRows :
            row = [i \in CostRows |-> IF i \in old THEN [CostRace!NoRow EXCEPT !.there = TRUE, !.over = TRUE, !.by = "user"]
                                  ELSE CostRace!NoRow]
      BY <2>1 DEF CostRace!Init
    <2>p. PICK line : line = [CostRace!NoRow EXCEPT !.there = TRUE, !.over = TRUE, !.by = "user"]
      OBVIOUS
    <2>3. line \in RaceRow /\ line.key = "none"
      BY <2>p DEF RaceRow, CostRace!NoRow
    <2>4. CostRace!NoRow \in RaceRow /\ CostRace!NoRow.key = "none"
      BY DEF RaceRow, CostRace!NoRow
    <2>5. row \in [CostRows -> RaceRow] /\ \A i \in CostRows : row[i] = line \/ row[i] = CostRace!NoRow
      BY <2>2, <2>p, <2>3, <2>4
    <2>6. tph \in Nat /\ capexReq = [r \in CostUsers |-> CostRace!Idle]
      BY <2>1 DEF CostRace!Init
    <2>7. capexReq \in [CostUsers -> RaceReq] /\ \A r \in CostUsers : HoldsTemplated(capexReq[r])
      BY <2>6, RaceIdle
    <2> QED BY <2>3, <2>4, <2>5, <2>6, <2>7 DEF RaceInv
  <1> QED BY <1>1, <1>2 DEF AllCostInv

(* ... and every step keeps them, and what users entered.                   *)
LEMMA CostsContinue == AllCostInv /\ [AllNext]_allVars => AllCostInv' /\ [CostsKept]_allVars
  <1> SUFFICES ASSUME AllCostInv, [AllNext]_allVars PROVE AllCostInv' /\ CostsKept
    OBVIOUS
  <1>1. part' = part
    BY PartStays
  <1>2. CASE CostStep
    BY <1>1, <1>2, CostStepKeeps, DataConstants DEF CostStep, AllCostInv, CostsKept
  <1>3. CASE CostRaceStep
    BY <1>1, <1>3, RaceStepKeeps, DataConstants DEF CostRaceStep, AllCostInv, CostsKept
  <1>4. CASE part \notin {"cost", "cost_race"}
    BY <1>1, <1>4 DEF AllCostInv, CostsKept
  <1>5. CASE UNCHANGED <<row, factor, tph, circuit, capexReq>>
    <2>1. ASSUME CostInv PROVE CostInv' /\ CostKept
      <3>1. RowsWell' /\ ReqWell(capexReq[r1])'
        BY <1>5, <2>1 DEF CostInv, RowsWell, ReqWell, CoveredRows, Cost!There, Cost!OfKey
      <3>2. CostKept
        BY <1>5 DEF CostKept, Cost!ManualSurvive, Cost!FactorKept, Cost!EndsPriced, Cost!Idle
      <3> QED BY <1>5, <2>1, <3>1, <3>2 DEF CostInv
    <2>2. ASSUME RaceInv PROVE RaceInv' /\ RaceKept
      <3>1. RaceInv'
        BY <1>5, <2>2 DEF RaceInv, HoldsTemplated, Templated
      <3>2. RaceKept
        BY <1>5 DEF RaceKept, CostRace!ManualSurvive, CostRace!FactorKept
      <3> QED BY <3>1, <3>2
    <2> QED BY <1>1, <2>1, <2>2 DEF AllCostInv, CostsKept
  <1>6. CostStep \/ CostRaceStep \/ part \notin {"cost", "cost_race"}
        \/ UNCHANGED <<row, factor, tph, circuit, capexReq>>
    BY DEF allVars, AllNext, Rest, RiskStep, ItemStep, ItemEditStep, BalanceStep, BalanceEditStep, PlanStep,
           LockStep, CircuitStep, TopologyStep, ValueStep, ValueEditStep, DiagramStep
  <1> QED BY <1>2, <1>3, <1>4, <1>5, <1>6

(* No seed and no recomputation takes or prices what a user added, a factor   *)
(* that a user set stays, and a request that ends has left nothing of its     *)
(* circuit with the price of another throughput.                             *)
THEOREM AllUserCostsKept == AllSpec => UserCostsKept
  <1>1. [CostsKept]_allVars =>
          [/\ part = "cost" => Cost!ManualSurvive /\ Cost!FactorKept /\ Cost!EndsPriced
           /\ part = "cost_race" => CostRace!ManualSurvive /\ CostRace!FactorKept]_allVars
    BY DEF CostsKept, CostKept, RaceKept
  <1> QED BY <1>1, CostsBegin, CostsContinue, PTL DEF AllSpec, UserCostsKept
(* < on the naturals is well founded, as a relation; so some numbers have a  *)
(* least one, and up to a bound a greatest one.                             *)
LEMMA NatOrder ==
  \E R : IsWellFoundedOn(R, Nat) /\ \A m, n \in Nat : m < n => <<m, n>> \in R
  <1>1. \A m, n \in Nat : m < n => <<m, n>> \in OpToRel(<, Nat)
    BY Zenon DEF OpToRel
  <1> QED BY <1>1, NatLessThanWellFounded, Zenon

(* Some numbers have a least one ...                                        *)
LEMMA LeastNat ==
  ASSUME NEW T, T \subseteq Nat, T # {}
  PROVE  \E n \in T : \A m \in T : n <= m
  <1>1. PICK R : IsWellFoundedOn(R, Nat) /\ \A m, n \in Nat : m < n => <<m, n>> \in R
    BY NatOrder
  <1>2. PICK n \in T : \A m \in T : ~(<<m, n>> \in R)
    <2>1. IsWellFoundedOn(R, Nat)
      BY <1>1
    <2> QED BY <2>1, WFMin, Zenon
  <1>3. \A m \in T : ~(m < n)
    BY <1>1, <1>2
  <1> QED BY <1>3

(* ... and, up to a bound, a greatest one.                                  *)
LEMMA GreatestNat ==
  ASSUME NEW n \in Nat, NEW S, S \subseteq 0 .. n, S # {}
  PROVE  \E g \in S : \A x \in S : x <= g
  <1> DEFINE T == {n - x : x \in S}
  <1>1. T \subseteq Nat /\ T # {}
    <2>1. \A x \in S : n - x \in Nat
      OBVIOUS
    <2> QED BY <2>1
  <1>2. PICK l \in T : \A k \in T : l <= k
    BY <1>1, LeastNat
  <1>3. PICK g \in S : l = n - g
    BY <1>2
  <1>4. \A x \in S : x <= g
    <2> TAKE x \in S
    <2>1. n - g <= n - x /\ x \in 0 .. n /\ g \in 0 .. n
      BY <1>2, <1>3
    <2> QED BY <2>1
  <1> QED BY <1>4

(* A set whose elements are all the same has one at most.                   *)
LEMMA OneAtMost ==
  ASSUME NEW S, \A x, y \in S : x = y
  PROVE  IsFiniteSet(S) /\ Cardinality(S) <= 1
  <1>1. CASE S = {}
    BY <1>1, FS_EmptySet
  <1>2. CASE S # {}
    <2>1. PICK x \in S : TRUE
      BY <1>2
    <2>2. S = {x}
      BY <2>1
    <2>3. IsFiniteSet({x}) /\ Cardinality({x}) = 1
      BY FS_Singleton
    <2> QED BY <2>2, <2>3
  <1> QED BY <1>1, <1>2

-----------------------------------------------------------------------------
(* The risks: a row that a request has to insert has a number that no other  *)
(* risk of its category has, unless both are generated, and a generation has *)
(* no more rows than its rules may find, inserted or still to insert.        *)
RiskRow == [cat : Categories \cup {"none"}, num : 0 .. MaxNumber, auto : BOOLEAN]
ToInsert == [cat : Categories, num : 1 .. MaxNumber, auto : {FALSE}]
            \cup [cat : Categories, num : 1 .. MaxNumber, auto : {TRUE}, nth : 1 .. Found]
RiskReq == [at : {"idle", "create", "find", "insert"}, left : SUBSET ToInsert]
Fresh(line) == \A i \in Risks!There :
  risks[i].cat = line.cat /\ risks[i].num = line.num => risks[i].auto /\ line.auto
Autos(c) == {i \in Risks!There : risks[i].auto /\ risks[i].cat = c}
LinesOf(q, c) == {line \in q.left : line.cat = c}
AtMostFound(A, L) == IsFiniteSet(A) /\ IsFiniteSet(L) /\ Cardinality(A) + Cardinality(L) <= Found
RiskTodo(q) ==
  /\ \A line \in q.left : Fresh(line)
  /\ q.at = "create" => \A line \in q.left : ~line.auto
  /\ q.at = "find" => \A i \in Risks!There : ~risks[i].auto
  /\ q.at = "insert" => /\ \A line \in q.left : line.auto
                        /\ \A c \in Categories : AtMostFound(Autos(c), LinesOf(q, c))
Alone == \A r, q \in {r1, r2} : r # q => riskReq[r] = Risks!Idle \/ riskReq[q] = Risks!Idle
RiskInv ==
  /\ risks \in [Ids -> RiskRow] /\ riskReq \in [{r1, r2} -> RiskReq] /\ added \subseteq Ids
  /\ \A i \in Risks!There : risks[i].cat \in Categories
  /\ Risks!NumbersDistinct
  /\ \A c \in Categories : AtMostFound(Autos(c), {})
  /\ Risks!ManualKept
  /\ Alone /\ \A r \in {r1, r2} : RiskTodo(riskReq[r])

(* The next number is greater than all of the category.                     *)
LEMMA NextIsFree ==
  ASSUME DataConstants, RiskInv, NEW cat
  PROVE  /\ Risks!NextNumber(cat) \in Nat \ {0}
         /\ \A i \in Risks!There : risks[i].cat = cat => risks[i].num < Risks!NextNumber(cat)
  <1> DEFINE nums == {0} \cup {risks[i].num : i \in {j \in Risks!There : risks[j].cat = cat}}
  <1>1. MaxNumber \in Nat
    BY DEF DataConstants, Risks!RiskConstants
  <1>2. nums \subseteq 0 .. MaxNumber /\ nums # {}
    <2>1. \A i \in Risks!There : risks[i].num \in 0 .. MaxNumber
      BY DEF RiskInv, RiskRow, Risks!There
    <2> QED BY <2>1, <1>1
  <1>3. \A i \in Risks!There : risks[i].cat = cat => risks[i].num \in nums
    OBVIOUS
  <1>4. Risks!NextNumber(cat) = 1 + CHOOSE n \in nums : \A m \in nums : m <= n
    BY DEF Risks!NextNumber
  <1> HIDE DEF nums
  <1>5. \E n \in nums : \A m \in nums : m <= n
    BY <1>1, <1>2, GreatestNat
  <1>p. PICK g : g = CHOOSE n \in nums : \A m \in nums : m <= n
    OBVIOUS
  <1>6. g \in nums /\ \A m \in nums : m <= g
    BY <1>5, <1>p, Zenon
  <1>n. nums \subseteq Nat
    BY <1>1, <1>2
  <1>7. g \in Nat /\ Risks!NextNumber(cat) = 1 + g
    <2>1. g \in Nat
      BY <1>n, <1>6
    <2>2. Risks!NextNumber(cat) = 1 + g
      BY <1>4, <1>p
    <2> QED BY <2>1, <2>2
  <1>8. \A i \in Risks!There : risks[i].cat = cat => risks[i].num <= g /\ risks[i].num \in Nat
    <2> TAKE i \in Risks!There
    <2> HAVE risks[i].cat = cat
    <2>1. risks[i].num \in nums
      BY <1>3
    <2> QED BY <2>1, <1>n, <1>6
  <1> QED BY <1>7, <1>8

(* So a row with the next number of its category is fresh.                  *)
LEMMA NextIsFresh ==
  ASSUME DataConstants, RiskInv, NEW line, line.num = Risks!NextNumber(line.cat)
  PROVE  Fresh(line)
  <1> SUFFICES ASSUME NEW i \in Risks!There, risks[i].cat = line.cat PROVE risks[i].num # line.num
    BY DEF Fresh
  <1>1. risks[i].num < line.num
    BY NextIsFree
  <1>2. risks[i].num \in Nat
    <2>1. risks[i].num \in 0 .. MaxNumber
      BY DEF RiskInv, RiskRow, Risks!There
    <2>2. MaxNumber \in Nat
      BY DEF DataConstants, Risks!RiskConstants
    <2> QED BY <2>1, <2>2
  <1> QED BY <1>1, <1>2

(* What a request has to do is not undone when rows go.                     *)
LEMMA TodoStays ==
  ASSUME DataConstants, \A i \in Risks!There' : i \in Risks!There /\ risks'[i] = risks[i]
  PROVE  /\ \A q : RiskTodo(q) => RiskTodo(q)'
         /\ \A c, L : AtMostFound(Autos(c), L) => AtMostFound(Autos(c), L)'
  <1>1. ASSUME NEW c, NEW L, AtMostFound(Autos(c), L) PROVE AtMostFound(Autos(c)', L)
    <2>1. Autos(c)' \in SUBSET Autos(c)
      BY DEF Autos
    <2>2. IsFiniteSet(Autos(c)) /\ IsFiniteSet(L) /\ Cardinality(Autos(c)) + Cardinality(L) <= Found
      BY <1>1 DEF AtMostFound
    <2>3. IsFiniteSet(Autos(c)') /\ Cardinality(Autos(c)') <= Cardinality(Autos(c))
      BY <2>1, <2>2, FS_Subset
    <2>4. Cardinality(Autos(c)') \in Nat /\ Cardinality(Autos(c)) \in Nat /\ Cardinality(L) \in Nat /\ Found \in Nat
      BY <2>2, <2>3, FS_CardinalityType DEF DataConstants, Risks!RiskConstants
    <2> QED BY <2>2, <2>3, <2>4 DEF AtMostFound
  <1>2. ASSUME NEW q, RiskTodo(q) PROVE RiskTodo(q)'
    <2>1. \A line \in q.left : Fresh(line)'
      BY <1>2 DEF RiskTodo, Fresh
    <2>2. q.at = "find" => \A i \in Risks!There' : ~risks'[i].auto
      BY <1>2 DEF RiskTodo
    <2>3. q.at = "insert" => \A c \in Categories : AtMostFound(Autos(c)', LinesOf(q, c))
      BY <1>1, <1>2 DEF RiskTodo
    <2> QED BY <1>2, <2>1, <2>2, <2>3 DEF RiskTodo, AtMostFound, LinesOf
  <1> QED BY <1>1, <1>2 DEF AtMostFound

(* An idle request has nothing to do.                                       *)
LEMMA IdleRisks ==
  /\ Risks!Idle \in RiskReq /\ Risks!Idle.left = {} /\ RiskTodo(Risks!Idle) /\ RiskTodo(Risks!Idle)'
  BY DEF Risks!Idle, RiskReq, RiskTodo

(* One request goes on: alone, or it ends.                                  *)
LEMMA GoesOn ==
  ASSUME RiskInv, NEW r \in {r1, r2}, NEW q \in RiskReq, riskReq' = [riskReq EXCEPT ![r] = q],
         q = Risks!Idle \/ riskReq[r] # Risks!Idle \/ \A p \in {r1, r2} : riskReq[p] = Risks!Idle
  PROVE  riskReq' \in [{r1, r2} -> RiskReq] /\ riskReq'[r] = q /\ Alone'
         /\ \A p \in {r1, r2} : p # r => riskReq'[p] = riskReq[p]
  <1>1. riskReq' \in [{r1, r2} -> RiskReq] /\ \A p \in {r1, r2} : riskReq'[p] = IF p = r THEN q ELSE riskReq[p]
    BY DEF RiskInv
  <1>2. Alone'
    <2>1. SUFFICES ASSUME NEW p \in {r1, r2}, NEW s \in {r1, r2}, p # s PROVE riskReq'[p] = Risks!Idle \/ riskReq'[s] = Risks!Idle
      BY DEF Alone, Risks!Idle
    <2>2. riskReq[p] = Risks!Idle \/ riskReq[s] = Risks!Idle
      BY <2>1 DEF RiskInv, Alone
    <2>3. CASE p = r
      BY <2>1, <2>2, <2>3, <1>1
    <2>4. CASE s = r
      BY <2>1, <2>2, <2>4, <1>1
    <2>5. CASE p # r /\ s # r
      BY <2>1, <2>2, <2>5, <1>1
    <2> QED BY <2>3, <2>4, <2>5
  <1> QED BY <1>1, <1>2

(* A step of a request that leaves the rows.                                *)
LEMMA RiskReads ==
  ASSUME DataConstants, RiskInv, NEW r \in {r1, r2}, NEW q \in RiskReq, riskReq' = [riskReq EXCEPT ![r] = q],
         q = Risks!Idle \/ riskReq[r] # Risks!Idle \/ \A p \in {r1, r2} : riskReq[p] = Risks!Idle,
         UNCHANGED <<risks, added>>, RiskTodo(q)
  PROVE  RiskInv'
  <1>1. riskReq' \in [{r1, r2} -> RiskReq] /\ riskReq'[r] = q /\ Alone'
        /\ \A p \in {r1, r2} : p # r => riskReq'[p] = riskReq[p]
    BY GoesOn
  <1>2. Risks!There' = Risks!There
    BY DEF Risks!There
  <1>3. /\ \A p : RiskTodo(p) => RiskTodo(p)'
        /\ \A c, L : AtMostFound(Autos(c), L) => AtMostFound(Autos(c), L)'
    BY <1>2, TodoStays
  <1>4. \A p \in {r1, r2} : RiskTodo(riskReq[p])'
    <2> TAKE p \in {r1, r2}
    <2>1. RiskTodo(riskReq'[p])
      BY <1>1 DEF RiskInv
    <2>2. PICK t : t = riskReq'[p]
      OBVIOUS
    <2>3. RiskTodo(t)'
      BY <2>1, <2>2, <1>3
    <2> QED BY <2>2, <2>3, <1>2 DEF RiskTodo, Fresh, LinesOf, Autos
  <1>5. \A c \in Categories : AtMostFound(Autos(c), {})'
    BY <1>3 DEF RiskInv
  <1> QED BY <1>1, <1>2, <1>4, <1>5 DEF RiskInv, Risks!ManualKept, Risks!NumbersDistinct

(* The steps of a request: a risk is to be created ...                      *)
LEMMA RiskCreates ==
  ASSUME DataConstants, RiskInv, NEW r \in {r1, r2}, Risks!CreateNumber(r) \/ Risks!Generate(r)
  PROVE  RiskInv'
  <1>1. CASE Risks!CreateNumber(r)
    <2>1. PICK cat \in Categories :
            /\ Risks!NextNumber(cat) <= MaxNumber
            /\ riskReq' = [riskReq EXCEPT ![r] = [at |-> "create", left |-> {[cat |-> cat, num |-> Risks!NextNumber(cat), auto |-> FALSE]}]]
            /\ UNCHANGED <<risks, added>>
      BY <1>1 DEF Risks!CreateNumber
    <2>2. PICK line : line = [cat |-> cat, num |-> Risks!NextNumber(cat), auto |-> FALSE]
      OBVIOUS
    <2>m. MaxNumber \in Nat
      BY DEF DataConstants, Risks!RiskConstants
    <2>3. line \in ToInsert /\ line.cat = cat /\ line.num = Risks!NextNumber(cat) /\ ~line.auto
      <3>1. Risks!NextNumber(cat) \in 1 .. MaxNumber
        BY <2>1, <2>m, NextIsFree
      <3>2. line \in [cat : Categories, num : 1 .. MaxNumber, auto : {FALSE}]
        BY <3>1, <2>2
      <3> QED BY <3>2, <2>2 DEF ToInsert
    <2>4. Fresh(line)
      BY <2>3, NextIsFresh
    <2>q. PICK q : q = [at |-> "create", left |-> {line}]
      OBVIOUS
    <2>5. q \in RiskReq /\ q.at = "create" /\ q.left = {line}
      BY <2>q, <2>3 DEF RiskReq
    <2>6. RiskTodo(q)
      BY <2>3, <2>4, <2>5 DEF RiskTodo
    <2>7. \A p \in {r1, r2} : riskReq[p] = Risks!Idle
      BY <1>1 DEF Risks!CreateNumber, Risks!May
    <2> QED BY <2>1, <2>2, <2>q, <2>5, <2>6, <2>7, RiskReads
  <1>2. CASE Risks!Generate(r)
    <2>1. riskReq' = [riskReq EXCEPT ![r] = Risks!Idle] /\ UNCHANGED <<risks, added>>
      BY <1>2 DEF Risks!Generate
    <2> QED BY <2>1, IdleRisks, RiskReads
  <1> QED BY <1>1, <1>2

(* The rules find some risks of each category, numbered alike, with a number *)
(* that no risk has.                                                        *)
LEMMA RiskFinds ==
  ASSUME DataConstants, RiskInv, NEW r \in {r1, r2}, Risks!Find(r)
  PROVE  RiskInv'
  <1>1. PICK found \in [Categories -> 0 .. Found] :
          /\ riskReq[r].at = "find" /\ \A c \in Categories : Risks!NextNumber(c) <= MaxNumber
          /\ riskReq' = [riskReq EXCEPT ![r] =
               [at |-> "insert", left |-> UNION {{[cat |-> c, num |-> Risks!NextNumber(c), auto |-> TRUE, nth |-> n] :
                                                  n \in 1 .. found[c]} : c \in Categories}]]
          /\ UNCHANGED <<risks, added>>
    BY DEF Risks!Find
  <1> DEFINE left == UNION {{[cat |-> c, num |-> Risks!NextNumber(c), auto |-> TRUE, nth |-> n] :
                             n \in 1 .. found[c]} : c \in Categories}
  <1>m. MaxNumber \in Nat /\ Found \in Nat
    BY DEF DataConstants, Risks!RiskConstants
  <1>2. ASSUME NEW line \in left
        PROVE  /\ line \in ToInsert /\ line.cat \in Categories /\ line.nth \in 1 .. found[line.cat]
               /\ line = [cat |-> line.cat, num |-> Risks!NextNumber(line.cat), auto |-> TRUE, nth |-> line.nth]
    <2>c. PICK c \in Categories :
            line \in {[cat |-> c, num |-> Risks!NextNumber(c), auto |-> TRUE, nth |-> n] : n \in 1 .. found[c]}
      OBVIOUS
    <2>1. PICK n \in 1 .. found[c] : line = [cat |-> c, num |-> Risks!NextNumber(c), auto |-> TRUE, nth |-> n]
      BY <2>c
    <2>2. n \in 1 .. Found
      <3>1. found[c] \in 0 .. Found
        OBVIOUS
      <3> QED BY <3>1, <1>m
    <2>3. Risks!NextNumber(c) \in 1 .. MaxNumber
      BY <1>1, <1>m, NextIsFree
    <2>5. line.cat = c /\ line.nth = n
      BY <2>1
    <2>6. line \in ToInsert
      BY <2>1, <2>2, <2>3 DEF ToInsert
    <2> QED BY <2>1, <2>5, <2>6
  <1>q. PICK q : q = [at |-> "insert", left |-> left]
    OBVIOUS
  <1>3. riskReq' = [riskReq EXCEPT ![r] = q] /\ UNCHANGED <<risks, added>>
    BY <1>1, <1>q
  <1> HIDE DEF left
  <1>4. q \in RiskReq /\ q.at = "insert" /\ q.left = left
    <2>1. left \subseteq ToInsert
      BY <1>2
    <2> QED BY <2>1, <1>q DEF RiskReq
  <1>5. ASSUME NEW line \in left PROVE Fresh(line) /\ line.auto
    <2>1. line = [cat |-> line.cat, num |-> Risks!NextNumber(line.cat), auto |-> TRUE, nth |-> line.nth]
      BY <1>2
    <2>2. line.num = Risks!NextNumber(line.cat) /\ line.auto
      BY <2>1
    <2> QED BY <2>2, NextIsFresh
  <1>6. ASSUME NEW c \in Categories PROVE AtMostFound(Autos(c), LinesOf(q, c))
    <2>1. Autos(c) = {}
      BY <1>1 DEF RiskInv, RiskTodo, Autos
    <2> DEFINE L == LinesOf(q, c)
               f == [line \in L |-> line.nth]
    <2>2. \A line \in L : line \in left /\ line.cat = c
      BY <1>4 DEF LinesOf
    <2>3. \A line \in L : line.nth \in 1 .. found[c]
      BY <2>2, <1>2
    <2>4. \A line, other \in L : line.nth = other.nth => line = other
      <3> TAKE line, other \in L
      <3>1. line = [cat |-> line.cat, num |-> Risks!NextNumber(line.cat), auto |-> TRUE, nth |-> line.nth]
        BY <2>2, <1>2
      <3>2. other = [cat |-> other.cat, num |-> Risks!NextNumber(other.cat), auto |-> TRUE, nth |-> other.nth]
        BY <2>2, <1>2
      <3>3. line.cat = other.cat
        BY <2>2
      <3> QED BY <3>1, <3>2, <3>3, Zenon
    <2> HIDE DEF L
    <2>5. f \in Injection(L, 1 .. found[c])
      BY <2>3, <2>4 DEF Injection, IsInjective
    <2>6. found[c] \in 0 .. Found
      OBVIOUS
    <2>n. found[c] \in Nat /\ found[c] <= Found
      BY <2>6, <1>m
    <2>7. IsFiniteSet(1 .. found[c]) /\ Cardinality(1 .. found[c]) = found[c]
      BY <2>n, FS_Interval
    <2>8. IsFiniteSet(L) /\ Cardinality(L) <= found[c]
      BY <2>5, <2>7, FS_Injection
    <2>9. Cardinality(L) \in Nat /\ IsFiniteSet({}) /\ Cardinality({}) = 0
      BY <2>8, FS_CardinalityType, FS_EmptySet
    <2> QED BY <2>1, <2>n, <2>8, <2>9, <1>m DEF AtMostFound, L
  <1>7. RiskTodo(q)
    BY <1>4, <1>5, <1>6 DEF RiskTodo
  <1>8. riskReq[r] # Risks!Idle
    BY <1>1 DEF Risks!Idle
  <1> QED BY <1>3, <1>4, <1>7, <1>8, RiskReads

(* A row that is inserted is one that the request had to insert.            *)
LEMMA RiskInserts ==
  ASSUME DataConstants, RiskInv, NEW r \in {r1, r2}, NEW line \in riskReq[r].left, NEW i \in Ids \ Risks!There, NEW new \in RiskRow,
         new.cat = line.cat, new.num = line.num, new.auto = line.auto,
         (riskReq[r].at = "create" /\ ~line.auto) \/ (riskReq[r].at = "insert" /\ line.auto),
         risks' = [risks EXCEPT ![i] = new],
         NEW q \in RiskReq, riskReq' = [riskReq EXCEPT ![r] = q], q.left \subseteq riskReq[r].left \ {line},
         q = Risks!Idle \/ (q.at = "insert" /\ riskReq[r].at = "insert"),
         added' = added \/ (added' = added \cup {i} /\ ~line.auto)
  PROVE  RiskInv'
  <1>0. riskReq[r] # Risks!Idle
    BY DEF Risks!Idle
  <1>1. /\ risks' \in [Ids -> RiskRow] /\ \A j \in Ids : risks'[j] = IF j = i THEN new ELSE risks[j]
        /\ riskReq' \in [{r1, r2} -> RiskReq] /\ riskReq'[r] = q /\ Alone'
        /\ \A p \in {r1, r2} : p # r => riskReq'[p] = riskReq[p]
    BY <1>0, GoesOn DEF RiskInv
  <1>2. line \in ToInsert
    BY DEF RiskInv, RiskReq
  <1>3. line.cat \in Categories /\ line.num \in 1 .. MaxNumber
    BY <1>2 DEF ToInsert
  <1>4. new # Risks!NoRisk
    BY <1>3 DEF Risks!NoRisk
  <1>5. \A j \in Ids : j \in Risks!There' <=> j = i \/ j \in Risks!There
    BY <1>1, <1>4 DEF Risks!There
  <1>6. Fresh(line) /\ \A other \in q.left : Fresh(other)
    BY DEF RiskInv, RiskTodo
  <1>7. \A j \in Risks!There' : j \in Ids /\ (j = i \/ (j \in Risks!There /\ j # i /\ risks'[j] = risks[j]))
    BY <1>1, <1>5 DEF Risks!There
  <1>8. risks'[i] = new
    BY <1>1
  <1>9. \A j \in Risks!There' : risks'[j].cat \in Categories
    BY <1>7, <1>8, <1>3 DEF RiskInv
  <1>10. Risks!NumbersDistinct'
    <2> SUFFICES ASSUME NEW j \in Risks!There', NEW h \in Risks!There', j # h,
                        risks'[j].cat = risks'[h].cat, risks'[j].num = risks'[h].num
                 PROVE  risks'[j].auto /\ risks'[h].auto
      BY DEF Risks!NumbersDistinct
    <2>1. CASE j = i
      BY <2>1, <1>6, <1>7, <1>8 DEF Fresh
    <2>2. CASE h = i
      BY <2>2, <1>6, <1>7, <1>8 DEF Fresh
    <2>3. CASE j # i /\ h # i
      BY <2>3, <1>7 DEF RiskInv, Risks!NumbersDistinct
    <2> QED BY <2>1, <2>2, <2>3
  <1>11. ASSUME NEW c \in Categories PROVE Autos(c)' = IF new.auto /\ new.cat = c THEN Autos(c) \cup {i} ELSE Autos(c)
    <2>1. \A j \in Risks!There : j \in Ids /\ j # i /\ risks'[j] = risks[j] /\ j \in Risks!There'
      BY <1>1, <1>5 DEF Risks!There
    <2>2. i \in Risks!There'
      BY <1>5
    <2> QED BY <1>7, <1>8, <2>1, <2>2 DEF Autos
  <1>12. Risks!ManualKept' /\ added' \subseteq Ids
    <2>1. ASSUME NEW j \in added' PROVE j \in Risks!There' /\ ~risks'[j].auto
      <3>1. CASE j = i /\ j \notin added
        BY <3>1, <2>1, <1>5, <1>8
      <3>2. CASE j \in added
        <4>1. j \in Risks!There /\ ~risks[j].auto /\ j \in Ids
          BY <3>2 DEF RiskInv, Risks!ManualKept, Risks!There
        <4>2. j # i
          BY <4>1
        <4> QED BY <4>1, <4>2, <1>1, <1>5
      <3> QED BY <2>1, <3>1, <3>2
    <2> QED BY <2>1 DEF Risks!ManualKept, RiskInv
  <1>f. Found \in Nat
    BY DEF DataConstants, Risks!RiskConstants
  <1>13. ASSUME riskReq[r].at = "insert", line.auto, NEW c \in Categories
         PROVE  AtMostFound(Autos(c)', LinesOf(q, c)) /\ AtMostFound(Autos(c)', {})
    <2> DEFINE A == Autos(c)
               L == LinesOf(riskReq[r], c)
               M == LinesOf(q, c)
    <2>1. IsFiniteSet(A) /\ IsFiniteSet(L) /\ Cardinality(A) + Cardinality(L) <= Found
      BY <1>13 DEF RiskInv, RiskTodo, AtMostFound
    <2>2. M \in SUBSET (L \ {line})
      BY DEF LinesOf
    <2>3. line \in L <=> line.cat = c
      BY DEF LinesOf
    <2>4. i \notin A
      BY DEF Autos
    <2>5. Autos(c)' = IF line.cat = c THEN A \cup {i} ELSE A
      BY <1>11, <1>13
    <2> HIDE DEF A, L, M
    <2>6. /\ IsFiniteSet(A \cup {i}) /\ Cardinality(A \cup {i}) = Cardinality(A) + 1
          /\ IsFiniteSet(L \ {line}) /\ Cardinality(L \ {line}) = IF line \in L THEN Cardinality(L) - 1 ELSE Cardinality(L)
      BY <2>1, <2>4, FS_AddElement, FS_RemoveElement
    <2>7. IsFiniteSet(M) /\ Cardinality(M) <= Cardinality(L \ {line}) /\ IsFiniteSet({}) /\ Cardinality({}) = 0
      BY <2>2, <2>6, FS_Subset, FS_EmptySet
    <2>8. Cardinality(A) \in Nat /\ Cardinality(L) \in Nat /\ Cardinality(M) \in Nat
      BY <2>1, <2>7, FS_CardinalityType
    <2>9. CASE line.cat = c
      BY <2>1, <2>3, <2>5, <2>6, <2>7, <2>8, <2>9, <1>f DEF AtMostFound, M
    <2>10. CASE line.cat # c
      BY <2>1, <2>3, <2>5, <2>6, <2>7, <2>8, <2>10, <1>f DEF AtMostFound, M
    <2> QED BY <2>9, <2>10
  <1>14. \A c \in Categories : AtMostFound(Autos(c)', {})
    <2>1. CASE riskReq[r].at = "insert" /\ line.auto
      BY <2>1, <1>13
    <2>2. CASE ~line.auto
      <3>1. \A c \in Categories : Autos(c)' = Autos(c) /\ AtMostFound(Autos(c), {})
        BY <2>2, <1>11 DEF RiskInv
      <3> QED BY <3>1
    <2> QED BY <2>1, <2>2
  <1>15. RiskTodo(q)'
    <2>1. ASSUME q.at = "insert" PROVE RiskTodo(q)'
      <3>0. riskReq[r].at = "insert"
        BY <2>1 DEF Risks!Idle
      <3>g. line.auto /\ \A other \in q.left : other.auto
        BY <3>0 DEF RiskInv, RiskTodo
      <3>1. ASSUME NEW other \in q.left PROVE Fresh(other)'
        <4> SUFFICES ASSUME NEW j \in Risks!There', risks'[j].cat = other.cat, risks'[j].num = other.num PROVE risks'[j].auto /\ other.auto
          BY DEF Fresh
        <4> QED BY <3>g, <1>6, <1>7, <1>8 DEF Fresh
      <3>2. \A c \in Categories : AtMostFound(Autos(c)', LinesOf(q, c))
        BY <3>0, <3>g, <1>13
      <3> QED BY <2>1, <3>1, <3>2, <3>g DEF RiskTodo, AtMostFound, LinesOf
    <2> QED BY <2>1, IdleRisks
  <1>16. \A p \in {r1, r2} : RiskTodo(riskReq[p])'
    <2> TAKE p \in {r1, r2}
    <2>1. CASE p = r
      <3>1. riskReq'[p] = q
        BY <2>1, <1>1
      <3> QED BY <3>1, <1>15 DEF RiskTodo, AtMostFound, LinesOf, Autos, Fresh
    <2>2. CASE p # r
      <3>1. riskReq'[p] = Risks!Idle
        BY <2>2, <1>0, <1>1 DEF RiskInv, Alone
      <3> QED BY <3>1 DEF Risks!Idle, RiskTodo
    <2> QED BY <2>1, <2>2
  <1> QED BY <1>1, <1>9, <1>10, <1>12, <1>14, <1>16 DEF RiskInv, AtMostFound

(* ... or one of a generation is written, with the next number.             *)
LEMMA RiskWrites ==
  ASSUME DataConstants, RiskInv, NEW r \in {r1, r2}, Risks!Create(r) \/ Risks!InsertOne(r)
  PROVE  RiskInv'
  <1>t. riskReq \in [{r1, r2} -> RiskReq] /\ riskReq[r] \in RiskReq /\ riskReq[r].left \subseteq ToInsert /\ RiskTodo(riskReq[r])
    BY DEF RiskInv, RiskReq
  <1>m. MaxNumber \in Nat
    BY DEF DataConstants, Risks!RiskConstants
  <1>1. CASE Risks!Create(r)
    <2>1. PICK i \in Ids \ Risks!There, line \in riskReq[r].left :
            /\ riskReq[r].at = "create" /\ risks' = [risks EXCEPT ![i] = line]
            /\ riskReq' = [riskReq EXCEPT ![r] = Risks!Idle] /\ added' = added \cup {i}
      BY <1>1 DEF Risks!Create
    <2>2. ~line.auto /\ line \in ToInsert
      BY <1>t, <2>1 DEF RiskTodo
    <2>3. line \in RiskRow
      <3>1. line \in [cat : Categories, num : 1 .. MaxNumber, auto : {FALSE}]
        BY <2>2 DEF ToInsert
      <3>a. line.cat \in Categories /\ line.num \in 1 .. MaxNumber /\ line.auto = FALSE
        BY <3>1
      <3>3. line.cat \in Categories /\ line.num \in 0 .. MaxNumber /\ line.auto \in BOOLEAN
        <4>1. line.num \in 0 .. MaxNumber
          BY <3>a, <1>m
        <4> QED BY <3>a, <4>1, Zenon
      <3>4. line = [cat |-> line.cat, num |-> line.num, auto |-> line.auto]
        BY <3>1
      <3> QED BY <3>3, <3>4, Zenon DEF RiskRow
    <2> QED BY <2>1, <2>2, <2>3, IdleRisks, RiskInserts
  <1>2. CASE Risks!InsertOne(r)
    <2>1. PICK line \in riskReq[r].left, i \in Ids \ Risks!There :
            /\ riskReq[r].at = "insert" /\ risks' = [risks EXCEPT ![i] = [cat |-> line.cat, num |-> line.num, auto |-> TRUE]]
            /\ riskReq' = [riskReq EXCEPT ![r] = [riskReq[r] EXCEPT !.left = @ \ {line}]] /\ added' = added
      BY <1>2, <1>t DEF Risks!InsertOne, Risks!Insert
    <2>2. line \in ToInsert
      BY <1>t
    <2>n. PICK new : new = [cat |-> line.cat, num |-> line.num, auto |-> TRUE]
      OBVIOUS
    <2>0. line.auto = TRUE
      <3>1. line.auto
        BY <2>1, <1>t DEF RiskTodo
      <3>2. line.auto \in {TRUE, FALSE}
        BY <2>2 DEF ToInsert
      <3> QED BY <3>1, <3>2
    <2>k. line.cat \in Categories /\ line.num \in 0 .. MaxNumber
      <3>1. line.cat \in Categories /\ line.num \in 1 .. MaxNumber
        BY <2>2 DEF ToInsert
      <3> QED BY <3>1, <1>m
    <2>3. new \in RiskRow /\ new.cat = line.cat /\ new.num = line.num /\ new.auto = line.auto
      BY <2>0, <2>k, <2>n DEF RiskRow
    <2>q. PICK q : q = [riskReq[r] EXCEPT !.left = @ \ {line}]
      OBVIOUS
    <2>4. q \in RiskReq /\ q.at = "insert" /\ q.left = riskReq[r].left \ {line}
      BY <2>1, <2>q, <1>t DEF RiskReq
    <2> QED BY <2>0, <2>1, <2>2, <2>3, <2>4, <2>n, <2>q, RiskInserts
  <1> QED BY <1>1, <1>2

(* Rows go: those that are left are as they were.                           *)
LEMMA RiskLeaves ==
  ASSUME DataConstants, RiskInv, NEW gone, gone \subseteq Ids, risks' = [i \in Ids |-> IF i \in gone THEN Risks!NoRisk ELSE risks[i]],
         NEW r \in {r1, r2}, NEW q \in RiskReq, riskReq' = [riskReq EXCEPT ![r] = q],
         q = Risks!Idle \/ \A p \in {r1, r2} : riskReq[p] = Risks!Idle,
         q.left = {}, q.at \in {"idle", "find"},
         q.at = "find" => \A i \in Risks!There \ gone : ~risks[i].auto,
         added' \subseteq added, \A i \in added' : i \notin gone
  PROVE  RiskInv'
  <1>1. /\ \A i \in Ids : risks'[i] = IF i \in gone THEN Risks!NoRisk ELSE risks[i]
        /\ riskReq' \in [{r1, r2} -> RiskReq] /\ riskReq'[r] = q /\ Alone'
        /\ \A p \in {r1, r2} : p # r => riskReq'[p] = riskReq[p]
    BY GoesOn DEF RiskInv
  <1>2. Risks!NoRisk \in RiskRow \/ ~(\E i \in Ids : i \in gone)
    <2>1. SUFFICES ASSUME NEW i \in Ids PROVE Risks!NoRisk \in RiskRow
      OBVIOUS
    <2>3. 0 \in 0 .. MaxNumber
      BY DEF DataConstants, Risks!RiskConstants
    <2> QED BY <2>3 DEF Risks!NoRisk, RiskRow
  <1>3. risks' \in [Ids -> RiskRow]
    BY <1>1, <1>2 DEF RiskInv
  <1>4. \A i \in Risks!There' : i \in Risks!There /\ i \notin gone /\ risks'[i] = risks[i]
    BY <1>1 DEF Risks!There
  <1>5. \A i \in Risks!There : i \notin gone => i \in Risks!There' /\ risks'[i] = risks[i]
    BY <1>1 DEF Risks!There
  <1>s. /\ \A p : RiskTodo(p) => RiskTodo(p)'
        /\ \A c, L : AtMostFound(Autos(c), L) => AtMostFound(Autos(c), L)'
    BY <1>4, TodoStays
  <1>6. \A p \in {r1, r2} : RiskTodo(riskReq[p])'
    <2> TAKE p \in {r1, r2}
    <2>1. CASE p = r
      <3>1. riskReq'[p] = q
        BY <2>1, <1>1
      <3>2. q.at = "find" => \A i \in Risks!There' : ~risks'[i].auto
        BY <1>4
      <3> QED BY <3>1, <3>2 DEF RiskTodo
    <2>2. CASE p # r
      <3>1. PICK t : t = riskReq[p]
        OBVIOUS
      <3>2. RiskTodo(t)'
        BY <3>1, <1>s DEF RiskInv
      <3>3. riskReq'[p] = t
        BY <2>2, <3>1, <1>1
      <3> QED BY <3>2, <3>3 DEF RiskTodo, AtMostFound, LinesOf, Autos, Fresh
    <2> QED BY <2>1, <2>2
  <1>7. Risks!ManualKept'
    BY <1>5 DEF RiskInv, Risks!ManualKept
  <1>8. added' \subseteq Ids
    BY DEF RiskInv
  <1>9. \A i \in Risks!There' : risks'[i].cat \in Categories
    BY <1>4 DEF RiskInv
  <1>10. Risks!NumbersDistinct'
    BY <1>4 DEF RiskInv, Risks!NumbersDistinct
  <1>11. \A c \in Categories : AtMostFound(Autos(c), {})'
    BY <1>s DEF RiskInv
  <1> QED BY <1>1, <1>3, <1>6, <1>7, <1>8, <1>9, <1>10, <1>11 DEF RiskInv

(* A generation removes what was generated before, a deletion one row, while *)
(* another request is at work or not.                                       *)
LEMMA RiskRemoves ==
  ASSUME DataConstants, RiskInv, NEW r \in {r1, r2}, Risks!Clear(r) \/ Risks!Delete(r)
  PROVE  RiskInv'
  <1>1. CASE Risks!Clear(r)
    <2> DEFINE gone == {i \in Ids : risks[i].auto}
    <2>1. /\ risks' = [i \in Ids |-> IF risks[i].auto THEN Risks!NoRisk ELSE risks[i]]
          /\ riskReq' = [riskReq EXCEPT ![r] = [at |-> "find", left |-> {}]] /\ added' = added
          /\ \A p \in {r1, r2} : riskReq[p] = Risks!Idle
      BY <1>1 DEF Risks!Clear, Risks!May
    <2>2. risks' = [i \in Ids |-> IF i \in gone THEN Risks!NoRisk ELSE risks[i]]
      BY <2>1
    <2>q. PICK q : q = [at |-> "find", left |-> {}]
      OBVIOUS
    <2>3. q \in RiskReq /\ q.left = {} /\ q.at = "find"
      BY <2>q DEF RiskReq
    <2>4. \A i \in Risks!There \ gone : ~risks[i].auto
      BY DEF Risks!There
    <2>5. \A i \in added : i \notin gone
      BY DEF RiskInv, Risks!ManualKept
    <2>6. gone \subseteq Ids
      OBVIOUS
    <2> HIDE DEF gone
    <2> QED BY <2>1, <2>2, <2>q, <2>3, <2>4, <2>5, <2>6, RiskLeaves
  <1>2. CASE Risks!Delete(r)
    <2>1. PICK i \in Risks!There : /\ risks' = [risks EXCEPT ![i] = Risks!NoRisk] /\ added' = added \ {i} /\ riskReq' = riskReq
                                  /\ riskReq[r] = Risks!Idle
      BY <1>2 DEF Risks!Delete, Risks!May
    <2>2. risks' = [j \in Ids |-> IF j \in {i} THEN Risks!NoRisk ELSE risks[j]] /\ {i} \subseteq Ids
      BY <2>1 DEF RiskInv, Risks!There
    <2>3. Risks!Idle \in RiskReq /\ Risks!Idle.left = {} /\ Risks!Idle.at = "idle"
      BY DEF Risks!Idle, RiskReq
    <2>4. riskReq' = [riskReq EXCEPT ![r] = Risks!Idle]
      BY <2>1 DEF RiskInv
    <2> QED BY <2>1, <2>2, <2>3, <2>4, RiskLeaves
  <1> QED BY <1>1, <1>2

(* So every step of the requests keeps the invariant, and it says the three. *)
LEMMA RisksContinue ==
  ASSUME DataConstants, RiskInv, Risks!Next
  PROVE  RiskInv'
  <1>1. PICK r \in {r1, r2} :
          \/ Risks!CreateNumber(r) \/ Risks!Create(r) \/ Risks!Clear(r) \/ Risks!Find(r)
          \/ Risks!InsertOne(r) \/ Risks!Generate(r) \/ Risks!Delete(r)
    BY DEF Risks!Next
  <1> QED BY <1>1, RiskCreates, RiskFinds, RiskWrites, RiskRemoves

(* The register of the risks begins empty.                                  *)
LEMMA RisksBegin ==
  ASSUME DataConstants, Risks!Init
  PROVE  RiskInv
  <1>1. 0 \in 0 .. MaxNumber /\ Found \in Nat
    BY DEF DataConstants, Risks!RiskConstants
  <1>2. Risks!There = {}
    BY DEF Risks!Init, Risks!There
  <1>3. Risks!NoRisk \in RiskRow /\ Risks!Idle \in RiskReq
    BY <1>1 DEF Risks!NoRisk, RiskRow, Risks!Idle, RiskReq
  <1>4. riskReq \in [{r1, r2} -> RiskReq] /\ \A r \in {r1, r2} : riskReq[r] = Risks!Idle
    BY <1>3 DEF Risks!Init
  <1>5. Alone /\ \A r \in {r1, r2} : RiskTodo(riskReq[r])
    BY <1>4, IdleRisks DEF Alone
  <1>6. \A c \in Categories : AtMostFound(Autos(c), {})
    <2>1. \A c : Autos(c) = {}
      BY <1>2 DEF Autos
    <2> QED BY <2>1, <1>1, FS_EmptySet DEF AtMostFound
  <1> QED BY <1>2, <1>3, <1>4, <1>5, <1>6 DEF RiskInv, Risks!Init, Risks!ManualKept, Risks!NumbersDistinct

(* Its numbers differ, and its generations replace one another.             *)
LEMMA RisksWhole ==
  ASSUME DataConstants, RiskInv
  PROVE  Risks!NumbersDistinct /\ Risks!ManualKept /\ Risks!OneGeneration
  <1>1. Risks!NumbersDistinct
    BY DEF RiskInv
  <1>2. Risks!OneGeneration
    <2> SUFFICES ASSUME NEW c \in Categories
                 PROVE  Risks!Cardinality({i \in Risks!There : risks[i].auto /\ risks[i].cat = c}) <= Found
      BY DEF Risks!OneGeneration
    <2>1. IsFiniteSet(Autos(c)) /\ Cardinality(Autos(c)) + Cardinality({}) <= Found
      BY DEF RiskInv, AtMostFound
    <2>2. Cardinality(Autos(c)) \in Nat /\ Cardinality({}) = 0 /\ Found \in Nat
      BY <2>1, FS_CardinalityType, FS_EmptySet DEF DataConstants, Risks!RiskConstants
    <2>3. Risks!Cardinality(Autos(c)) = Cardinality(Autos(c))
      BY DEF Risks!Cardinality, Cardinality
    <2>4. Cardinality(Autos(c)) <= Found
      BY <2>1, <2>2
    <2> QED BY <2>3, <2>4 DEF Autos
  <1> QED BY <1>1, <1>2 DEF RiskInv

-----------------------------------------------------------------------------
(* The equipment.  What a generation writes for any circuit: rows of its own *)
(* number, new ones, with tags of their own.                                *)
ItemTags == {<<"562", "PP">>, <<"562", "TK">>} \X Nat
ItemRow == [tag : ItemTags, ver : Nat, work : Nat, on : BOOLEAN]
ItemIds == Nat \X Nat

(* The places of items in a circuit are finite.                             *)
LEMMA PlacesFinite ==
  ASSUME NEW X, NEW ops \in Seq(Seq(X))
  PROVE  /\ IsFiniteSet(Items!Places(ops))
         /\ \A p \in Items!Places(ops) : p \in Nat \X Nat /\ Items!ItemAt(ops, p) \in X
  <1> DEFINE I == DOMAIN ops
             places(i) == {i} \X DOMAIN ops[i]
             All == {places(i) : i \in I}
             f == [i \in I |-> places(i)]
  <1>1. Len(ops) \in Nat /\ I = 1 .. Len(ops) /\ \A i \in I : ops[i] \in Seq(X)
    OBVIOUS
  <1>2. IsFiniteSet(I)
    <2>1. 1 \in Int /\ Len(ops) \in Int
      BY <1>1
    <2> QED BY <2>1, <1>1, FS_Interval
  <1>3. IsFiniteSet(All)
    <2>1. f \in Surjection(I, All)
      BY DEF Surjection
    <2> QED BY ONLY <1>2, <2>1, FS_Surjection
  <1>4. \A T \in All : IsFiniteSet(T)
    <2> SUFFICES ASSUME NEW i \in I PROVE IsFiniteSet(places(i))
      OBVIOUS
    <2>1. ops[i] \in Seq(X)
      BY <1>1
    <2>2. Len(ops[i]) \in Nat /\ DOMAIN ops[i] = 1 .. Len(ops[i])
      BY <2>1
    <2>3. 1 \in Int /\ Len(ops[i]) \in Int
      BY <2>2
    <2>4. IsFiniteSet(DOMAIN ops[i])
      BY <2>2, <2>3, FS_Interval
    <2>5. IsFiniteSet({i})
      BY FS_Singleton
    <2> QED BY <2>4, <2>5, FS_Product
  <1>5. IsFiniteSet(Items!Places(ops))
    <2>1. Items!Places(ops) = UNION All
      BY DEF Items!Places
    <2>2. IsFiniteSet(UNION All)
      BY ONLY <1>3, <1>4, FS_UNION
    <2> QED BY <2>1, <2>2
  <1>6. ASSUME NEW p \in Items!Places(ops) PROVE p \in Nat \X Nat /\ Items!ItemAt(ops, p) \in X
    <2>1. PICK i \in I : p \in {i} \X DOMAIN ops[i]
      BY DEF Items!Places
    <2>2. p[1] = i /\ p[2] \in DOMAIN ops[i] /\ p = <<i, p[2]>>
      BY <2>1
    <2>3. ops[i] \in Seq(X) /\ i \in Nat
      BY <1>1
    <2>4. ops[i][p[2]] \in X /\ p[2] \in Nat
      BY <2>2, <2>3
    <2> QED BY <2>2, <2>3, <2>4 DEF Items!ItemAt
  <1> QED BY <1>5, <1>6

(* Items that are numbered apart are so in a list of their own kind too: the *)
(* later one has all the items before it that the earlier one has, and more. *)
LEMMA SeqNoDiffers ==
  ASSUME NEW X, NEW ops \in Seq(Seq(X)), NEW p \in Items!Places(ops), NEW q \in Items!Places(ops),
         Items!ItemAt(ops, p) = Items!ItemAt(ops, q),
         p[1] < q[1] \/ (p[1] = q[1] /\ p[2] < q[2])
  PROVE  Items!SeqNo(ops, p) # Items!SeqNo(ops, q)
  <1> DEFINE Same(x) == {u \in Items!UpTo(ops, x) : Items!ItemAt(ops, u) = Items!ItemAt(ops, x)}
  <1>t. \A u \in Items!Places(ops) : u[1] \in Nat /\ u[2] \in Nat
    BY PlacesFinite
  <1>1. Same(p) \subseteq Same(q)
    <2> SUFFICES ASSUME NEW u \in Same(p) PROVE u \in Same(q)
      OBVIOUS
    <2>1. u \in Items!Places(ops) /\ (u[1] < p[1] \/ (u[1] = p[1] /\ u[2] <= p[2]))
      BY DEF Items!UpTo
    <2>2. u[1] < q[1] \/ (u[1] = q[1] /\ u[2] <= q[2])
      BY <2>1, <1>t
    <2> QED BY <2>1, <2>2 DEF Items!UpTo
  <1>2. q \in Same(q)
    BY <1>t DEF Items!UpTo
  <1>3. q \notin Same(p)
    BY <1>t DEF Items!UpTo
  <1>4. Same(q) \subseteq Items!Places(ops)
    BY DEF Items!UpTo
  <1>5. Items!SeqNo(ops, p) = Items!Cardinality(Same(p)) /\ Items!SeqNo(ops, q) = Items!Cardinality(Same(q))
    BY DEF Items!SeqNo
  <1> HIDE DEF Same
  <1>6. IsFiniteSet(Same(q))
    BY <1>4, PlacesFinite, FS_Subset
  <1>7. IsFiniteSet(Same(p)) /\ Cardinality(Same(p)) < Cardinality(Same(q))
    <2>1. Same(p) # Same(q)
      BY <1>2, <1>3
    <2>2. Same(p) \in SUBSET Same(q)
      BY <1>1
    <2>3. /\ IsFiniteSet(Same(p)) /\ Cardinality(Same(p)) <= Cardinality(Same(q))
          /\ Cardinality(Same(p)) # Cardinality(Same(q))
      BY <2>1, <2>2, <1>6, FS_Subset
    <2>4. Cardinality(Same(p)) \in Nat /\ Cardinality(Same(q)) \in Nat
      BY <2>3, <1>6, FS_CardinalityType
    <2> QED BY <2>3, <2>4
  <1>8. Cardinality(Same(p)) \in Nat /\ Cardinality(Same(q)) \in Nat
    BY <1>6, <1>7, FS_CardinalityType
  <1>9. \A S : Items!Cardinality(S) = Cardinality(S)
    BY DEF Items!Cardinality, Cardinality
  <1> QED BY <1>5, <1>7, <1>8, <1>9

(* The rows that a generation writes, and their tags.                       *)
LEMMA GeneratedRows ==
  ASSUME NEW g \in Nat, NEW X, NEW ops \in Seq(Seq(X)), X \X Nat \subseteq ItemTags
  PROVE  LET new == Items!Generated(g, ops)
         IN  /\ DOMAIN new \subseteq ItemIds /\ new \in [DOMAIN new -> ItemRow]
             /\ \A i \in DOMAIN new : i[1] = g /\ new[i].ver = 1 /\ new[i].work = 0
             /\ \A i, j \in DOMAIN new : i # j => new[i].tag # new[j].tag
             /\ Items!Places(ops) # {} => DOMAIN new # {}
  <1> DEFINE new == Items!Generated(g, ops)
             at(k) == CHOOSE p \in Items!Places(ops) : Items!Item(ops, p) = k
             Row(i) == [tag |-> <<Items!ItemAt(ops, at(i[2])), Items!SeqNo(ops, at(i[2]))>>, ver |-> 1, work |-> 0, on |-> TRUE]
  <1>c. \A S : Items!Cardinality(S) = Cardinality(S)
    BY DEF Items!Cardinality, Cardinality
  <1>1. /\ DOMAIN new = {<<g, Items!Item(ops, p)>> : p \in Items!Places(ops)}
        /\ \A i \in DOMAIN new : new[i] = Row(i)
        /\ new = [i \in DOMAIN new |-> new[i]]
    BY DEF Items!Generated
  <1>2. ASSUME NEW p \in Items!Places(ops) PROVE Items!Item(ops, p) \in Nat /\ Items!SeqNo(ops, p) \in Nat
    <2>1. Items!UpTo(ops, p) \subseteq Items!Places(ops)
      BY DEF Items!UpTo
    <2>2. IsFiniteSet(Items!UpTo(ops, p))
      BY <2>1, PlacesFinite, FS_Subset
    <2>3. {q \in Items!UpTo(ops, p) : Items!ItemAt(ops, q) = Items!ItemAt(ops, p)} \subseteq Items!UpTo(ops, p)
      OBVIOUS
    <2>4. IsFiniteSet({q \in Items!UpTo(ops, p) : Items!ItemAt(ops, q) = Items!ItemAt(ops, p)})
      BY <2>2, <2>3, FS_Subset
    <2> QED BY <1>c, <2>2, <2>4, FS_CardinalityType DEF Items!Item, Items!SeqNo
  <1>3. ASSUME NEW i \in DOMAIN new
        PROVE  i \in ItemIds /\ i[1] = g /\ at(i[2]) \in Items!Places(ops) /\ Items!Item(ops, at(i[2])) = i[2] /\ i = <<g, i[2]>>
    <2>1. PICK p \in Items!Places(ops) : i = <<g, Items!Item(ops, p)>>
      BY <1>1
    <2>2. i[1] = g /\ i[2] = Items!Item(ops, p)
      BY <2>1
    <2>3. at(i[2]) \in Items!Places(ops) /\ Items!Item(ops, at(i[2])) = i[2]
      BY <2>2
    <2>4. i \in ItemIds
      BY <2>1, <1>2 DEF ItemIds
    <2> QED BY <2>1, <2>2, <2>3, <2>4
  <1>4. ASSUME NEW i \in DOMAIN new PROVE new[i] \in ItemRow /\ new[i].ver = 1 /\ new[i].work = 0
    <2>1. Items!ItemAt(ops, at(i[2])) \in X
      BY <1>3, PlacesFinite
    <2>2. Items!SeqNo(ops, at(i[2])) \in Nat
      BY <1>2, <1>3
    <2> DEFINE t == <<Items!ItemAt(ops, at(i[2])), Items!SeqNo(ops, at(i[2]))>>
    <2>3. t \in ItemTags
      BY <2>1, <2>2
    <2>4. new[i] = [tag |-> t, ver |-> 1, work |-> 0, on |-> TRUE]
      BY <1>1
    <2> HIDE DEF t, new
    <2> QED BY <2>3, <2>4 DEF ItemRow
  <1>5. ASSUME NEW i \in DOMAIN new, NEW j \in DOMAIN new, i # j PROVE new[i].tag # new[j].tag
    <2>1. PICK p \in Items!Places(ops), q \in Items!Places(ops) :
            p = at(i[2]) /\ q = at(j[2]) /\ Items!Item(ops, p) = i[2] /\ Items!Item(ops, q) = j[2]
      BY <1>3
    <2>2. i[2] # j[2]
      BY <1>3, <1>5
    <2>3. p # q
      BY <2>1, <2>2
    <2>4. p[1] \in Nat /\ p[2] \in Nat /\ q[1] \in Nat /\ q[2] \in Nat /\ p = <<p[1], p[2]>> /\ q = <<q[1], q[2]>>
      BY PlacesFinite
    <2>a. p[1] # q[1] \/ p[2] # q[2]
      BY <2>3, <2>4
    <2>5. \/ p[1] < q[1] \/ (p[1] = q[1] /\ p[2] < q[2])
          \/ q[1] < p[1] \/ (q[1] = p[1] /\ q[2] < p[2])
      <3> HIDE DEF new, at, Row
      <3> QED BY <2>a, <2>4
    <2>6. Items!ItemAt(ops, p) = Items!ItemAt(ops, q) => Items!SeqNo(ops, p) # Items!SeqNo(ops, q)
      BY <2>5, SeqNoDiffers
    <2>7. new[i].tag = <<Items!ItemAt(ops, p), Items!SeqNo(ops, p)>> /\ new[j].tag = <<Items!ItemAt(ops, q), Items!SeqNo(ops, q)>>
      <3>1. Row(i).tag = <<Items!ItemAt(ops, p), Items!SeqNo(ops, p)>> /\ Row(j).tag = <<Items!ItemAt(ops, q), Items!SeqNo(ops, q)>>
        BY <2>1
      <3>2. new[i] = Row(i) /\ new[j] = Row(j)
        BY <1>1
      <3> HIDE DEF new, Row
      <3> QED BY <3>1, <3>2
    <2> HIDE DEF new
    <2> QED BY <2>6, <2>7
  <1>6. Items!Places(ops) # {} => DOMAIN new # {}
    BY <1>1
  <1>7. new \in [DOMAIN new -> ItemRow]
    BY <1>1, <1>4
  <1> HIDE DEF new
  <1>8. /\ DOMAIN new \subseteq ItemIds /\ new \in [DOMAIN new -> ItemRow]
        /\ \A i \in DOMAIN new : i[1] = g /\ new[i].ver = 1 /\ new[i].work = 0
        /\ \A i, j \in DOMAIN new : i # j => new[i].tag # new[j].tag
        /\ Items!Places(ops) # {} => DOMAIN new # {}
    BY <1>3, <1>4, <1>5, <1>6, <1>7
  <1> QED BY <1>8 DEF new

-----------------------------------------------------------------------------
(* Generations that overlap: who waits to insert has removed every row there, *)
(* at least while another generation may follow, and nobody else removes any. *)
ItemAts == {"idle", "first", "again", "second", "insert", "patch", "error"}
ItemReqs == [kind : {"none", "generate", "dry", "purge", "patch", "add"}, at : ItemAts,
             sees : SUBSET ItemIds, gone : SUBSET ItemIds, ver : Nat, work : Nat]
ItemTypes == /\ DOMAIN items \subseteq ItemIds /\ items \in [DOMAIN items -> ItemRow]
             /\ gen \in 1 .. 3
ItemTodo(q) ==
  /\ q.kind # "purge" /\ q.at # "error" /\ q.gone \subseteq DOMAIN items
  /\ q.at \in {"idle", "first", "patch"} => q.gone = {}
  /\ gen = 1 => /\ q.at \in {"first", "second"} => q.sees = DOMAIN items
                /\ q.at \in {"again", "second", "insert"} => q.gone = DOMAIN items
  /\ gen = 2 => /\ q.at = "second" => q.sees = DOMAIN items
                /\ q.at = "insert" => q.gone = DOMAIN items
ItemsInv ==
  /\ ItemTypes /\ itemReq \in [{r1, r2} -> ItemReqs]
  /\ DOMAIN items # {} /\ \A i \in DOMAIN items : i[1] = gen
  /\ \A i, j \in DOMAIN items : i # j => items[i].tag # items[j].tag
  /\ \A r \in {r1, r2} : ItemTodo(itemReq[r])
  /\ \A r, o \in {r1, r2} : r # o => itemReq[r].gone \cap itemReq[o].gone = {}

(* Edits: a request that sends a change has the work of the version it read. *)
ItemEditsInv ==
  /\ DOMAIN items \subseteq ItemIds /\ items \in [DOMAIN items -> ItemRow] /\ gen \in Nat
  /\ itemReq \in [Clerks -> ItemReqs]
  /\ \A i \in DOMAIN items : items[i].ver = items[i].work + 1
  /\ \A r \in Clerks : itemReq[r].at = "patch" => itemReq[r].work = itemReq[r].ver

(* What a generation may write here.                                        *)
LEMMA ItemsGenerated ==
  ASSUME NEW g \in Nat, NEW ops \in {<<Leach, Thickener>>, <<Thickener>>, <<Leach>>}
  PROVE  LET new == Items!Generated(g, ops)
         IN  /\ DOMAIN new \subseteq ItemIds /\ new \in [DOMAIN new -> ItemRow] /\ DOMAIN new # {}
             /\ \A i \in DOMAIN new : i[1] = g /\ new[i].ver = 1 /\ new[i].work = 0
             /\ \A i, j \in DOMAIN new : i # j => new[i].tag # new[j].tag
  <1>x. PICK X : X = {<<"562", "PP">>, <<"562", "TK">>}
    OBVIOUS
  <1>1. Leach \in Seq(X) /\ Thickener \in Seq(X) /\ Len(Leach) = 2 /\ Len(Thickener) = 2
    BY <1>x DEF Leach, Thickener
  <1>2. ops \in Seq(Seq(X)) /\ 1 \in 1 .. Len(ops) /\ 1 <= Len(ops[1])
    <2>1. CASE ops = <<Leach, Thickener>>
      <3>1. ops \in Seq(Seq(X))
        BY <2>1, <1>1
      <3>2. Len(ops) = 2 /\ ops[1] = Leach
        BY <2>1
      <3> QED BY <3>1, <3>2, <1>1
    <2>2. CASE ops = <<Thickener>>
      <3>1. ops \in Seq(Seq(X))
        BY <2>2, <1>1
      <3>2. Len(ops) = 1 /\ ops[1] = Thickener
        BY <2>2
      <3> QED BY <3>1, <3>2, <1>1
    <2>3. CASE ops = <<Leach>>
      <3>1. ops \in Seq(Seq(X))
        BY <2>3, <1>1
      <3>2. Len(ops) = 1 /\ ops[1] = Leach
        BY <2>3
      <3> QED BY <3>1, <3>2, <1>1
    <2> QED BY <2>1, <2>2, <2>3
  <1>3. <<1, 1>> \in Items!Places(ops)
    <2>1. 1 \in DOMAIN ops /\ 1 \in DOMAIN ops[1]
      BY <1>2
    <2>2. <<1, 1>> \in {1} \X DOMAIN ops[1]
      BY <2>1
    <2> QED BY <2>1, <2>2 DEF Items!Places
  <1>4. X \X Nat \subseteq ItemTags
    BY <1>x DEF ItemTags
  <1> QED BY <1>2, <1>3, <1>4, GeneratedRows

(* What a request does on its own, while the rows keep their tags.          *)
LEMMA ItemsMove ==
  ASSUME ItemsInv, NEW r \in {r1, r2}, NEW q \in ItemReqs, itemReq' = [itemReq EXCEPT ![r] = q],
         DOMAIN items' = DOMAIN items, items' \in [DOMAIN items' -> ItemRow],
         \A i \in DOMAIN items : items'[i].tag = items[i].tag,
         gen' = gen, ItemTodo(q),
         \A o \in {r1, r2} \ {r} : q.gone \cap itemReq[o].gone = {}
  PROVE  ItemsInv'
  <1>1. itemReq' \in [{r1, r2} -> ItemReqs] /\ \A o \in {r1, r2} : itemReq'[o] = IF o = r THEN q ELSE itemReq[o]
    BY DEF ItemsInv
  <1>2. ItemTypes'
    BY DEF ItemsInv, ItemTypes
  <1>3. \A x : ItemTodo(x)' <=> ItemTodo(x)
    BY DEF ItemTodo
  <1>4. \A o \in {r1, r2} : ItemTodo(itemReq[o])'
    <2> TAKE o \in {r1, r2}
    <2>1. ItemTodo(itemReq'[o])
      BY <1>1 DEF ItemsInv
    <2>2. PICK x : x = itemReq'[o]
      OBVIOUS
    <2>3. ItemTodo(x)'
      BY <1>3, <2>1, <2>2
    <2> QED BY <2>2, <2>3 DEF ItemTodo
  <1>5. \A o, p \in {r1, r2} : o # p => itemReq'[o].gone \cap itemReq'[p].gone = {}
    BY <1>1 DEF ItemsInv
  <1>6. DOMAIN items' # {} /\ \A i \in DOMAIN items' : i[1] = gen'
    BY DEF ItemsInv
  <1>7. \A i, j \in DOMAIN items' : i # j => items'[i].tag # items'[j].tag
    BY DEF ItemsInv
  <1> QED BY <1>1, <1>2, <1>4, <1>5, <1>6, <1>7 DEF ItemsInv

(* A request ends.                                                          *)
LEMMA ItemIdles ==
  ASSUME ItemsInv
  PROVE  /\ Items!Idle \in ItemReqs /\ ItemTodo(Items!Idle) /\ Items!Idle.gone = {}
         /\ Items!Idle.at = "idle" /\ Items!Idle.kind = "none" /\ Items!Idle.sees = {} /\ Items!Idle.ver = 0 /\ Items!Idle.work = 0
  BY DEF Items!Idle, ItemReqs, ItemAts, ItemTodo

(* The steps that leave the rows and remove none.                           *)
LEMMA ItemsLook ==
  ASSUME ItemsInv, NEW r \in {r1, r2},
         Items!See(r) \/ Items!SeeAgain(r) \/ Items!RollBack(r) \/ Items!Read(r) \/ Items!Refuse(r)
  PROVE  ItemsInv'
  <1>t. /\ itemReq \in [{r1, r2} -> ItemReqs] /\ itemReq[r] \in ItemReqs /\ DOMAIN items \subseteq ItemIds
        /\ gen \in 1 .. 3 /\ items \in [DOMAIN items -> ItemRow] /\ ItemTodo(itemReq[r])
        /\ \A i \in DOMAIN items : items[i] \in ItemRow
    BY DEF ItemsInv, ItemTypes
  <1>i. /\ Items!Idle \in ItemReqs /\ Items!Idle.gone = {}
        /\ Items!Idle.at = "idle" /\ Items!Idle.kind = "none" /\ Items!Idle.sees = {} /\ Items!Idle.ver = 0 /\ Items!Idle.work = 0
    BY ItemIdles
  <1>f. SUFFICES ASSUME items' = items, gen' = gen
                 PROVE  \E q \in ItemReqs : /\ itemReq' = [itemReq EXCEPT ![r] = q] /\ ItemTodo(q)
                                            /\ \A o \in {r1, r2} \ {r} : q.gone \cap itemReq[o].gone = {}
    <2>1. items' = items /\ gen' = gen
      BY DEF Items!See, Items!SeeAgain, Items!RollBack, Items!Read, Items!Refuse
    <2>2. PICK q \in ItemReqs : /\ itemReq' = [itemReq EXCEPT ![r] = q] /\ ItemTodo(q)
                                /\ \A o \in {r1, r2} \ {r} : q.gone \cap itemReq[o].gone = {}
      BY <2>1, <1>f
    <2> QED BY <2>1, <2>2, <1>t, ItemsMove
  <1>1. CASE Items!See(r)
    <2>1. PICK kind \in {"generate", "dry", "purge"} :
            /\ kind \in {"generate", "dry", "patch"}
            /\ itemReq' = [itemReq EXCEPT ![r] = [Items!Idle EXCEPT !.kind = kind, !.at = "first", !.sees = DOMAIN items]]
      BY <1>1 DEF Items!See, Items!May
    <2>q. PICK q : q = [Items!Idle EXCEPT !.kind = kind, !.at = "first", !.sees = DOMAIN items]
      OBVIOUS
    <2>2. q \in ItemReqs /\ q.kind = kind /\ q.at = "first" /\ q.sees = DOMAIN items /\ q.gone = {}
      BY <2>1, <2>q, <1>t DEF Items!Idle, ItemReqs, ItemAts
    <2>3. ItemTodo(q)
      BY <2>1, <2>2 DEF ItemTodo
    <2> QED BY <2>1, <2>q, <2>2, <2>3
  <1>2. CASE Items!SeeAgain(r)
    <2>1. /\ itemReq[r].at = "again"
          /\ itemReq' = [itemReq EXCEPT ![r] = [itemReq[r] EXCEPT !.sees = DOMAIN items, !.at = "second"]]
      BY <1>2, <1>t DEF Items!SeeAgain
    <2>q. PICK q : q = [itemReq[r] EXCEPT !.sees = DOMAIN items, !.at = "second"]
      OBVIOUS
    <2>2. q \in ItemReqs /\ q.kind = itemReq[r].kind /\ q.at = "second" /\ q.sees = DOMAIN items /\ q.gone = itemReq[r].gone
      BY <2>q, <1>t DEF ItemReqs, ItemAts
    <2>3. ItemTodo(q)
      BY <2>1, <2>2, <1>t DEF ItemTodo
    <2>4. \A o \in {r1, r2} \ {r} : q.gone \cap itemReq[o].gone = {}
      BY <2>2 DEF ItemsInv
    <2> QED BY <2>1, <2>q, <2>2, <2>3, <2>4
  <1>3. CASE Items!RollBack(r) \/ Items!Refuse(r)
    <2>1. itemReq' = [itemReq EXCEPT ![r] = Items!Idle]
      BY <1>3 DEF Items!RollBack, Items!Refuse
    <2> QED BY <2>1, <1>i, ItemIdles
  <1>4. CASE Items!Read(r)
    <2>1. PICK i \in DOMAIN items :
            itemReq' = [itemReq EXCEPT ![r] = [Items!Idle EXCEPT !.kind = "patch", !.at = "patch", !.sees = {i},
                                                                 !.ver = items[i].ver, !.work = items[i].work + 1]]
      BY <1>4 DEF Items!Read
    <2>q. PICK q : q = [Items!Idle EXCEPT !.kind = "patch", !.at = "patch", !.sees = {i},
                                          !.ver = items[i].ver, !.work = items[i].work + 1]
      OBVIOUS
    <2>v. items[i].ver \in Nat /\ items[i].work + 1 \in Nat /\ {i} \subseteq ItemIds
      BY <1>t DEF ItemRow
    <2>2. q \in ItemReqs /\ q.kind = "patch" /\ q.at = "patch" /\ q.gone = {}
      BY <2>q, <2>v DEF Items!Idle, ItemReqs, ItemAts
    <2>3. ItemTodo(q)
      BY <2>2 DEF ItemTodo
    <2> QED BY <2>1, <2>q, <2>2, <2>3
  <1> QED BY <1>1, <1>2, <1>3, <1>4

(* A DELETE removes the rows it sees that are there.                         *)
LEMMA ItemsDelete ==
  ASSUME ItemsInv, NEW r \in {r1, r2}, Items!Delete(r) \/ Items!DeleteAgain(r)
  PROVE  ItemsInv'
  <1>t. /\ itemReq \in [{r1, r2} -> ItemReqs] /\ itemReq[r] \in ItemReqs /\ DOMAIN items \subseteq ItemIds
        /\ gen \in 1 .. 3 /\ items \in [DOMAIN items -> ItemRow] /\ ItemTodo(itemReq[r])
    BY DEF ItemsInv, ItemTypes
  <1> DEFINE still == itemReq[r].sees \cap DOMAIN items
  <1>1. /\ itemReq[r].at \in {"first", "second"} /\ items' = items /\ gen' = gen
        /\ \A i \in still : ~Items!HeldByOther(r, i)
        /\ itemReq' = [itemReq EXCEPT ![r].gone = @ \cup still,
                                      ![r].at = IF @ = "first" THEN "again" ELSE "insert"]
    BY DEF Items!Delete, Items!DeleteAgain, Items!Removes
  <1>q. PICK q : q = [itemReq[r] EXCEPT !.gone = @ \cup still, !.at = IF @ = "first" THEN "again" ELSE "insert"]
    OBVIOUS
  <1>2. itemReq' = [itemReq EXCEPT ![r] = q]
    BY <1>1, <1>q, <1>t
  <1>3. /\ q \in ItemReqs /\ q.kind = itemReq[r].kind /\ q.sees = itemReq[r].sees /\ q.gone = itemReq[r].gone \cup still
        /\ q.at = IF itemReq[r].at = "first" THEN "again" ELSE "insert"
    BY <1>q, <1>t DEF ItemReqs, ItemAts
  <1>4. q.gone \subseteq DOMAIN items
    BY <1>3, <1>t DEF ItemTodo
  <1>5. ItemTodo(q)
    BY <1>1, <1>3, <1>4, <1>t DEF ItemTodo
  <1>6. \A o \in {r1, r2} \ {r} : q.gone \cap itemReq[o].gone = {}
    BY <1>1, <1>3 DEF ItemsInv, Items!HeldByOther
  <1> QED BY <1>1, <1>2, <1>3, <1>5, <1>6, <1>t, ItemsMove

(* What is inserted replaces all that was there.                            *)
LEMMA ItemsGenerate ==
  ASSUME ItemsInv, NEW r \in {r1, r2}, Items!Generate(r)
  PROVE  ItemsInv'
  <1>1. PICK ops \in {<<Leach, Thickener>>, <<Thickener>>} :
          /\ itemReq[r].at = "insert" /\ gen < 3 /\ gen' = gen + 1 /\ itemReq' = [itemReq EXCEPT ![r] = Items!Idle]
          /\ LET new == Items!Generated(gen + 1, ops)
             IN  items' = [i \in DOMAIN Items!Without(itemReq[r].gone) \cup DOMAIN new |->
                             IF i \in DOMAIN new THEN new[i] ELSE items[i]]
    BY DEF Items!Generate
  <1>n. PICK new : new = Items!Generated(gen + 1, ops)
    OBVIOUS
  <1>t. /\ gen \in {1, 2} /\ gen + 1 \in Nat /\ gen' \in 1 .. 3 /\ itemReq \in [{r1, r2} -> ItemReqs]
        /\ ItemTodo(itemReq[r])
    BY <1>1 DEF ItemsInv, ItemTypes
  <1>2. /\ DOMAIN new \subseteq ItemIds /\ new \in [DOMAIN new -> ItemRow] /\ DOMAIN new # {}
        /\ \A i \in DOMAIN new : i[1] = gen + 1
        /\ \A i, j \in DOMAIN new : i # j => new[i].tag # new[j].tag
    BY <1>n, <1>t, ItemsGenerated
  <1>3. itemReq[r].gone = DOMAIN items
    BY <1>1, <1>t DEF ItemTodo
  <1>4. DOMAIN Items!Without(itemReq[r].gone) = {}
    BY <1>3 DEF Items!Without
  <1>5. items' = [i \in DOMAIN new |-> new[i]]
    BY <1>1, <1>n, <1>4
  <1>6. items' = new
    BY <1>2, <1>5
  <1>i. /\ Items!Idle \in ItemReqs /\ Items!Idle.gone = {}
        /\ Items!Idle.at = "idle" /\ Items!Idle.kind = "none"
    BY ItemIdles
  <1>7. \A o \in {r1, r2} : itemReq'[o] = IF o = r THEN Items!Idle ELSE itemReq[o]
    BY <1>1, <1>t
  <1>8. \A o \in {r1, r2} : /\ itemReq'[o].at \in {"idle", "first", "again", "patch"} \/ gen' = 3
                            /\ itemReq'[o].gone = {}
                            /\ itemReq'[o].kind # "purge" /\ itemReq'[o].at # "error"
                            /\ itemReq'[o].at \in ItemAts
    <2> TAKE o \in {r1, r2}
    <2>1. CASE o = r
      BY <2>1, <1>7, <1>i DEF ItemAts
    <2>2. CASE o # r
      <3>1. itemReq'[o] = itemReq[o] /\ ItemTodo(itemReq[o]) /\ itemReq[o].gone \cap itemReq[r].gone = {} /\ itemReq[o].at \in ItemAts
        BY <2>2, <1>7, <1>t DEF ItemsInv, ItemReqs
      <3>2. itemReq[o].gone = {}
        BY <3>1, <1>3 DEF ItemTodo
      <3>3. DOMAIN items # {}
        BY DEF ItemsInv
      <3>4. gen = 1 => itemReq[o].at \notin {"again", "second", "insert"}
        BY <3>1, <3>2, <3>3 DEF ItemTodo
      <3>5. gen = 2 => gen' = 3
        BY <1>1
      <3> QED BY <3>1, <3>2, <3>4, <3>5, <1>t DEF ItemTodo, ItemAts
    <2> QED BY <2>1, <2>2
  <1>9. \A o \in {r1, r2} : ItemTodo(itemReq[o])'
    <2> TAKE o \in {r1, r2}
    <2>1. gen' # 1 /\ (gen' = 2 => itemReq'[o].at \notin {"second", "insert"})
      BY <1>1, <1>8, <1>t
    <2> QED BY <2>1, <1>8 DEF ItemTodo
  <1>10. ItemTypes'
    BY <1>2, <1>6, <1>t DEF ItemTypes
  <1>11. itemReq' \in [{r1, r2} -> ItemReqs]
    BY <1>1, <1>i, <1>t
  <1>12. DOMAIN items' # {} /\ \A i \in DOMAIN items' : i[1] = gen'
    BY <1>1, <1>2, <1>6
  <1>13. \A i, j \in DOMAIN items' : i # j => items'[i].tag # items'[j].tag
    BY <1>2, <1>6
  <1>14. \A p, o \in {r1, r2} : p # o => itemReq'[p].gone \cap itemReq'[o].gone = {}
    BY <1>8
  <1> QED BY <1>9, <1>10, <1>11, <1>12, <1>13, <1>14 DEF ItemsInv

(* An edit keeps tags.                                                      *)
LEMMA ItemsPatch ==
  ASSUME ItemsInv, NEW r \in {r1, r2}, Items!Patch(r)
  PROVE  ItemsInv'
  <1>t. /\ itemReq \in [{r1, r2} -> ItemReqs] /\ itemReq[r] \in ItemReqs /\ items \in [DOMAIN items -> ItemRow]
    BY DEF ItemsInv, ItemTypes
  <1>1. PICK i \in DOMAIN items : /\ items' = [items EXCEPT ![i].ver = @ + 1, ![i].work = itemReq[r].work]
                                  /\ itemReq' = [itemReq EXCEPT ![r] = Items!Idle] /\ gen' = gen
    BY DEF Items!Patch
  <1>n. PICK new : new = [items[i] EXCEPT !.ver = @ + 1, !.work = itemReq[r].work]
    OBVIOUS
  <1>2. items[i] \in ItemRow /\ itemReq[r].work \in Nat
    BY <1>t DEF ItemReqs
  <1>3. new \in ItemRow /\ new.tag = items[i].tag
    <2>1. items[i].ver + 1 \in Nat
      BY <1>2 DEF ItemRow
    <2> QED BY <2>1, <1>2, <1>n DEF ItemRow
  <1>4. items' = [items EXCEPT ![i] = new]
    BY <1>1, <1>n, <1>t
  <1>5. /\ DOMAIN items' = DOMAIN items /\ items' \in [DOMAIN items' -> ItemRow]
        /\ \A j \in DOMAIN items : items'[j].tag = items[j].tag
    BY <1>3, <1>4, <1>t
  <1> QED BY <1>1, <1>5, ItemIdles, ItemsMove

(* So every step keeps the items in one generation ...                      *)
LEMMA ItemsContinue ==
  ASSUME ItemsInv, Items!Next
  PROVE  ItemsInv'
  <1>1. PICK r \in {r1, r2} :
          \/ Items!See(r) \/ Items!Delete(r) \/ Items!SeeAgain(r) \/ Items!DeleteAgain(r) \/ Items!Generate(r)
          \/ Items!RollBack(r) \/ Items!Purge(r) \/ Items!Read(r) \/ Items!Patch(r) \/ Items!Refuse(r)
          \/ Items!Disable(r) \/ Items!Add(r) \/ Items!Fail(r)
    BY DEF Items!Next
  <1>2. ~Items!Disable(r) /\ ~Items!Add(r)
    BY DEF Items!Disable, Items!Add, Items!May
  <1>3. ~Items!Purge(r) /\ ~Items!Fail(r)
    BY DEF Items!Purge, Items!Fail, ItemsInv, ItemTodo
  <1> QED BY <1>1, <1>2, <1>3, ItemsLook, ItemsDelete, ItemsGenerate, ItemsPatch

(* ... which they begin with ...                                            *)
LEMMA ItemsBegin ==
  ASSUME Items!Init
  PROVE  ItemsInv
  <1>1. PICK ops \in {<<Leach, Thickener>>, <<Thickener>>} : items = Items!Generated(1, ops)
    BY DEF Items!Init
  <1>2. /\ DOMAIN items \subseteq ItemIds /\ items \in [DOMAIN items -> ItemRow] /\ DOMAIN items # {}
        /\ \A i \in DOMAIN items : i[1] = 1
        /\ \A i, j \in DOMAIN items : i # j => items[i].tag # items[j].tag
    BY <1>1, ItemsGenerated
  <1>3. gen = 1 /\ itemReq = [r \in {r1, r2} |-> Items!Idle]
    BY DEF Items!Init
  <1>4. Items!Idle \in ItemReqs /\ ItemTodo(Items!Idle) /\ Items!Idle.gone = {}
    BY DEF Items!Idle, ItemReqs, ItemAts, ItemTodo
  <1>5. ItemTypes
    BY <1>2, <1>3 DEF ItemTypes
  <1> QED BY <1>2, <1>3, <1>4, <1>5 DEF ItemsInv

(* ... and tags differ in it.                                               *)
LEMMA ItemsWhole ==
  ASSUME ItemsInv
  PROVE  Items!OneGeneration /\ Items!TagsDistinct
  BY DEF ItemsInv, Items!OneGeneration, Items!TagsDistinct

(* The generator under the constants of the edits is the same.              *)
LEMMA SameGenerator ==
  ASSUME NEW g, NEW ops
  PROVE  ItemEdits!Generated(g, ops) = Items!Generated(g, ops)
  BY DEF ItemEdits!Generated, ItemEdits!Item, ItemEdits!UpTo, ItemEdits!ItemAt, ItemEdits!SeqNo, ItemEdits!Places, ItemEdits!Cardinality,
         Items!Generated, Items!Item, Items!UpTo, Items!ItemAt, Items!SeqNo, Items!Places, Items!Cardinality

(* The rows of a generation while items are edited.                         *)
LEMMA EditGenerated ==
  ASSUME NEW g \in Nat
  PROVE  LET new == ItemEdits!Generated(g, <<Leach>>)
         IN  /\ DOMAIN new \subseteq ItemIds /\ new \in [DOMAIN new -> ItemRow]
             /\ \A i \in DOMAIN new : new[i].ver = 1 /\ new[i].work = 0
  BY SameGenerator, ItemsGenerated

(* A request that is not under way.                                         *)
LEMMA EditsIdle == /\ ItemEdits!Idle \in ItemReqs /\ ItemEdits!Idle.at = "idle"
  BY DEF ItemEdits!Idle, ItemReqs, ItemAts, ItemIds

(* What leaves the works and versions there, or takes rows away.            *)
LEMMA EditsAside ==
  ASSUME ItemEditsInv, NEW r \in Clerks, NEW q \in ItemReqs, itemReq' = [itemReq EXCEPT ![r] = q],
         q.at = "patch" => q.work = q.ver,
         DOMAIN items' \subseteq ItemIds, items' \in [DOMAIN items' -> ItemRow], gen' \in Nat,
         \A i \in DOMAIN items' : items'[i].ver = items'[i].work + 1
  PROVE  ItemEditsInv'
  <1>1. itemReq' \in [Clerks -> ItemReqs] /\ \A o \in Clerks : itemReq'[o] = IF o = r THEN q ELSE itemReq[o]
    BY DEF ItemEditsInv
  <1> QED BY <1>1 DEF ItemEditsInv

(* Each step of the edits keeps what was answered ...                       *)
LEMMA EditsContinue ==
  ASSUME DataConstants, ItemEditsInv, ItemEdits!Next
  PROVE  ItemEditsInv'
  <1>1. PICK r \in Clerks :
          \/ ItemEdits!See(r) \/ ItemEdits!Delete(r) \/ ItemEdits!SeeAgain(r) \/ ItemEdits!DeleteAgain(r) \/ ItemEdits!Generate(r)
          \/ ItemEdits!RollBack(r) \/ ItemEdits!Purge(r) \/ ItemEdits!Read(r) \/ ItemEdits!Patch(r) \/ ItemEdits!Refuse(r)
          \/ ItemEdits!Disable(r) \/ ItemEdits!Add(r) \/ ItemEdits!Fail(r)
    BY DEF ItemEdits!Next
  <1>t. /\ itemReq \in [Clerks -> ItemReqs] /\ itemReq[r] \in ItemReqs /\ DOMAIN items \subseteq ItemIds
        /\ gen \in Nat /\ items \in [DOMAIN items -> ItemRow] /\ \A i \in DOMAIN items : items[i] \in ItemRow
        /\ \A i \in DOMAIN items : items[i].ver = items[i].work + 1
        /\ itemReq[r].at = "patch" => itemReq[r].work = itemReq[r].ver
    BY DEF ItemEditsInv
  <1>2. CASE ItemEdits!See(r)
    <2>1. PICK kind \in {"generate", "dry", "purge"} :
            /\ itemReq' = [itemReq EXCEPT ![r] = [ItemEdits!Idle EXCEPT !.kind = kind, !.at = "first", !.sees = DOMAIN items]]
            /\ items' = items /\ gen' = gen
      BY <1>2 DEF ItemEdits!See
    <2>q. PICK q : q = [ItemEdits!Idle EXCEPT !.kind = kind, !.at = "first", !.sees = DOMAIN items]
      OBVIOUS
    <2>2. q \in ItemReqs /\ q.at = "first"
      BY <2>1, <2>q, <1>t DEF ItemEdits!Idle, ItemReqs, ItemAts
    <2> QED BY <2>1, <2>q, <2>2, <1>t, EditsAside
  <1>3. CASE ItemEdits!SeeAgain(r)
    <2>1. /\ itemReq' = [itemReq EXCEPT ![r] = [itemReq[r] EXCEPT !.sees = DOMAIN items, !.at = "second"]]
          /\ items' = items /\ gen' = gen
      BY <1>3, <1>t DEF ItemEdits!SeeAgain
    <2>q. PICK q : q = [itemReq[r] EXCEPT !.sees = DOMAIN items, !.at = "second"]
      OBVIOUS
    <2>2. q \in ItemReqs /\ q.at = "second"
      BY <2>1, <2>q, <1>t DEF ItemReqs, ItemAts
    <2> QED BY <2>1, <2>q, <2>2, <1>t, EditsAside
  <1>4. CASE ItemEdits!Delete(r) \/ ItemEdits!DeleteAgain(r)
    <2>1. /\ items' = items /\ gen' = gen
          /\ itemReq' = [itemReq EXCEPT ![r].gone = @ \cup (itemReq[r].sees \cap DOMAIN items),
                                        ![r].at = IF @ = "first" THEN "again" ELSE "insert"]
      BY <1>4 DEF ItemEdits!Delete, ItemEdits!DeleteAgain, ItemEdits!Removes
    <2>q. PICK q : q = [itemReq[r] EXCEPT !.gone = @ \cup (itemReq[r].sees \cap DOMAIN items),
                                          !.at = IF @ = "first" THEN "again" ELSE "insert"]
      OBVIOUS
    <2>2. itemReq' = [itemReq EXCEPT ![r] = q]
      BY <2>1, <2>q, <1>t
    <2>3. q \in ItemReqs /\ q.at # "patch"
      BY <2>q, <1>t DEF ItemReqs, ItemAts
    <2>4. items' = items /\ gen' = gen
      BY <2>1
    <2> QED BY <2>2, <2>3, <2>4, <1>t, EditsAside
  <1>5. CASE ItemEdits!Generate(r)
    <2>n. PICK new : new = ItemEdits!Generated(gen + 1, <<Leach>>)
      OBVIOUS
    <2>1. /\ gen' = gen + 1 /\ itemReq' = [itemReq EXCEPT ![r] = ItemEdits!Idle]
          /\ items' = [i \in DOMAIN ItemEdits!Without(itemReq[r].gone) \cup DOMAIN new |->
                         IF i \in DOMAIN new THEN new[i] ELSE items[i]]
      BY <1>5, <2>n DEF ItemEdits!Generate
    <2>2. /\ DOMAIN new \subseteq ItemIds /\ new \in [DOMAIN new -> ItemRow]
          /\ \A i \in DOMAIN new : new[i].ver = 1 /\ new[i].work = 0
      BY <1>t, <2>n, EditGenerated
    <2>3. DOMAIN ItemEdits!Without(itemReq[r].gone) \subseteq DOMAIN items
      BY DEF ItemEdits!Without
    <2>4. \A i \in DOMAIN items' : /\ i \in DOMAIN new \/ i \in DOMAIN items
                                   /\ items'[i] = IF i \in DOMAIN new THEN new[i] ELSE items[i]
      BY <2>1, <2>3
    <2>5. /\ DOMAIN items' \subseteq ItemIds /\ \A i \in DOMAIN items' : items'[i] \in ItemRow
          /\ \A i \in DOMAIN items' : items'[i].ver = items'[i].work + 1
      BY <2>2, <2>4, <1>t
    <2>6. items' \in [DOMAIN items' -> ItemRow]
      BY <2>1, <2>5
    <2>7. gen' \in Nat
      BY <2>1, <1>t
    <2> QED BY <2>1, <2>5, <2>6, <2>7, EditsIdle, EditsAside
  <1>6. CASE ItemEdits!RollBack(r) \/ ItemEdits!Refuse(r) \/ ItemEdits!Fail(r)
    <2>1. itemReq' = [itemReq EXCEPT ![r] = ItemEdits!Idle] /\ items' = items /\ gen' = gen
      BY <1>6 DEF ItemEdits!RollBack, ItemEdits!Refuse, ItemEdits!Fail
    <2> QED BY <2>1, <1>t, EditsIdle, EditsAside
  <1>7. CASE ItemEdits!Purge(r)
    <2>1. /\ itemReq' = [itemReq EXCEPT ![r] = ItemEdits!Idle] /\ gen' = gen
          /\ items' = [i \in (DOMAIN items) \ (itemReq[r].sees \cap DOMAIN items) |-> items[i]]
      BY <1>7 DEF ItemEdits!Purge, ItemEdits!Without
    <2>2. DOMAIN items' \subseteq DOMAIN items /\ items' \in [DOMAIN items' -> ItemRow]
          /\ \A i \in DOMAIN items' : items'[i] = items[i]
      BY <2>1, <1>t
    <2>3. /\ DOMAIN items' \subseteq ItemIds /\ gen' \in Nat
          /\ \A i \in DOMAIN items' : items'[i].ver = items'[i].work + 1
      BY <2>1, <2>2, <1>t
    <2> QED BY <2>1, <2>2, <2>3, EditsIdle, EditsAside
  <1>8. CASE ItemEdits!Read(r)
    <2>1. PICK i \in DOMAIN items :
            /\ itemReq' = [itemReq EXCEPT ![r] = [ItemEdits!Idle EXCEPT !.kind = "patch", !.at = "patch", !.sees = {i},
                                                                        !.ver = items[i].ver, !.work = items[i].work + 1]]
            /\ items' = items /\ gen' = gen
      BY <1>8 DEF ItemEdits!Read
    <2>q. PICK q : q = [ItemEdits!Idle EXCEPT !.kind = "patch", !.at = "patch", !.sees = {i},
                                              !.ver = items[i].ver, !.work = items[i].work + 1]
      OBVIOUS
    <2>v. items[i].ver \in Nat /\ items[i].work + 1 \in Nat /\ {i} \subseteq ItemIds /\ items[i].ver = items[i].work + 1
      BY <1>t DEF ItemRow
    <2>2. q \in ItemReqs /\ q.work = q.ver
      BY <2>q, <2>v DEF ItemEdits!Idle, ItemReqs, ItemAts
    <2> QED BY <2>1, <2>q, <2>2, <1>t, EditsAside
  <1>9. CASE ItemEdits!Patch(r)
    <2>1. PICK i \in DOMAIN items : /\ items' = [items EXCEPT ![i].ver = @ + 1, ![i].work = itemReq[r].work]
                                    /\ itemReq[r].at = "patch" /\ items[i].ver = itemReq[r].ver
                                    /\ itemReq' = [itemReq EXCEPT ![r] = ItemEdits!Idle] /\ gen' = gen
      BY <1>9 DEF ItemEdits!Patch
    <2>n. PICK new : new = [items[i] EXCEPT !.ver = @ + 1, !.work = itemReq[r].work]
      OBVIOUS
    <2>2. items[i] \in ItemRow /\ itemReq[r].work \in Nat /\ itemReq[r].work = items[i].ver
      BY <2>1, <1>t DEF ItemReqs
    <2>v. items[i].ver + 1 \in Nat
      BY <2>2 DEF ItemRow
    <2>3. new \in ItemRow /\ new.ver = items[i].ver + 1 /\ new.work = items[i].ver
      BY <2>2, <2>v, <2>n DEF ItemRow
    <2>4. items' = [items EXCEPT ![i] = new]
      BY <2>1, <2>n, <1>t
    <2>5. /\ DOMAIN items' = DOMAIN items /\ items' \in [DOMAIN items' -> ItemRow]
          /\ \A j \in DOMAIN items : items'[j] = IF j = i THEN new ELSE items[j]
      BY <2>3, <2>4, <1>t
    <2>6. \A j \in DOMAIN items' : items'[j].ver = items'[j].work + 1
      BY <2>3, <2>5, <1>t
    <2> QED BY <2>1, <2>5, <2>6, <1>t, EditsIdle, EditsAside
  <1>10. CASE ItemEdits!Disable(r)
    <2>1. PICK i \in DOMAIN items : items' = [items EXCEPT ![i].on = FALSE] /\ itemReq' = itemReq /\ gen' = gen
      BY <1>10 DEF ItemEdits!Disable
    <2>n. PICK new : new = [items[i] EXCEPT !.on = FALSE]
      OBVIOUS
    <2>3. new \in ItemRow /\ new.ver = items[i].ver /\ new.work = items[i].work
      BY <1>t, <2>n DEF ItemRow
    <2>4. items' = [items EXCEPT ![i] = new]
      BY <2>1, <2>n, <1>t
    <2>5. /\ DOMAIN items' = DOMAIN items /\ items' \in [DOMAIN items' -> ItemRow]
          /\ \A j \in DOMAIN items : items'[j] = IF j = i THEN new ELSE items[j]
      BY <2>3, <2>4, <1>t
    <2>6. \A j \in DOMAIN items' : items'[j].ver = items'[j].work + 1
      BY <2>3, <2>5, <1>t
    <2>7. itemReq' = [itemReq EXCEPT ![r] = itemReq[r]]
      BY <2>1, <1>t
    <2> QED BY <2>1, <2>5, <2>6, <2>7, <1>t, EditsAside
  <1>11. CASE ItemEdits!Add(r)
    <2>1. /\ itemReq' = [itemReq EXCEPT ![r] = [ItemEdits!Idle EXCEPT !.kind = "add", !.at = "error"]]
          /\ items' = items /\ gen' = gen
      BY <1>11 DEF ItemEdits!Add
    <2>q. PICK q : q = [ItemEdits!Idle EXCEPT !.kind = "add", !.at = "error"]
      OBVIOUS
    <2>2. q \in ItemReqs /\ q.at = "error"
      BY <2>q DEF ItemEdits!Idle, ItemReqs, ItemAts, ItemIds
    <2> QED BY <2>1, <2>q, <2>2, <1>t, EditsAside
  <1> QED BY <1>1, <1>2, <1>3, <1>4, <1>5, <1>6, <1>7, <1>8, <1>9, <1>10, <1>11

(* ... from the start ...                                                   *)
LEMMA EditsBegin ==
  ASSUME ItemEdits!Init
  PROVE  ItemEditsInv
  <1>1. items = ItemEdits!Generated(1, <<Leach>>) /\ gen = 1 /\ itemReq = [r \in Clerks |-> ItemEdits!Idle]
    BY DEF ItemEdits!Init
  <1>2. /\ DOMAIN items \subseteq ItemIds /\ items \in [DOMAIN items -> ItemRow]
        /\ \A i \in DOMAIN items : items[i].ver = 1 /\ items[i].work = 0
    BY <1>1, EditGenerated
  <1> QED BY <1>1, <1>2, EditsIdle DEF ItemEditsInv

(* ... so that no edit is lost.                                             *)
LEMMA EditsWhole ==
  ASSUME ItemEditsInv
  PROVE  ItemEdits!NoneLost
  <1>1. \A i \in DOMAIN items : items[i].ver \in Nat /\ items[i].work \in Nat /\ items[i].ver = items[i].work + 1
    BY DEF ItemEditsInv, ItemRow
  <1> QED BY <1>1 DEF ItemEdits!NoneLost

-----------------------------------------------------------------------------
(* The mass balance: one request at a time, and a balance that has the       *)
(* published recoveries, or none; or edits of streams by many.               *)
StreamRow == [ver : Nat, work : Nat]
CacheRow == [age : 0 .. 2, val : SUBSET Nat]
BalanceReqs == [kind : {"none", "generate", "patch", "partial", "snapshot", "dashboard"},
                at : {"idle", "streams", "sections", "insert", "commit", "sent", "checked", "error", "shown", "computed"},
                home : Processes \cup {"none"}, sees : SUBSET Nat, gone : SUBSET Nat, goneSecs : SUBSET Nat,
                ver : Nat, work : Nat]
BalanceTypes == /\ pub \in Nat /\ sections \subseteq Nat /\ cache \in [Processes -> CacheRow]
                /\ DOMAIN streams \subseteq Nat /\ streams \in [DOMAIN streams -> StreamRow]
BalanceTodo(q) ==
  q.kind = "generate" =>
    /\ q.at \in {"streams", "sections"} => q.sees = sections
    /\ q.at \in {"sections", "insert", "commit"} => q.gone = sections
    /\ q.at \in {"insert", "commit"} => q.goneSecs = sections
BalanceInv ==
  /\ BalanceTypes /\ balanceReq \in [{r1} -> BalanceReqs]
  /\ sections = (IF pub = 0 THEN {} ELSE {pub}) /\ DOMAIN streams = sections
  /\ BalanceTodo(balanceReq[r1])

StreamTodo(q) == q.kind \in {"none", "generate", "patch"} /\ (q.kind = "patch" => q.work = q.ver)
BalanceEditsInv ==
  /\ BalanceTypes /\ balanceReq \in [BalanceUsers -> BalanceReqs]
  /\ \A g \in DOMAIN streams : streams[g].ver = streams[g].work + 1
  /\ \A r \in BalanceUsers : StreamTodo(balanceReq[r])

(* What a request does on its own.                                          *)
LEMMA BalanceReads ==
  ASSUME BalanceInv, NEW q \in BalanceReqs, balanceReq' = [balanceReq EXCEPT ![r1] = q],
         UNCHANGED <<sections, streams, pub>>, cache' \in [Processes -> CacheRow], BalanceTodo(q)
  PROVE  BalanceInv'
  <1>1. balanceReq' \in [{r1} -> BalanceReqs] /\ balanceReq'[r1] = q
    BY DEF BalanceInv
  <1>2. BalanceTodo(balanceReq[r1])'
    BY <1>1 DEF BalanceTodo
  <1> QED BY <1>1, <1>2 DEF BalanceInv, BalanceTypes

(* A request that is not under way.                                         *)
LEMMA BalanceIdle ==
  /\ Balance!Idle \in BalanceReqs /\ Balance!Idle.kind = "none" /\ BalanceTodo(Balance!Idle)
  /\ Balance!Absent \in CacheRow
  BY DEF Balance!Idle, BalanceReqs, BalanceTodo, Balance!Absent, CacheRow

(* A generation writes its sections and its streams.                        *)
LEMMA BalanceGenerates ==
  ASSUME BalanceInv, Balance!Generation(r1)
  PROVE  BalanceInv'
  <1>t. /\ balanceReq \in [{r1} -> BalanceReqs] /\ balanceReq[r1] \in BalanceReqs /\ BalanceTypes
        /\ sections \subseteq Nat /\ DOMAIN streams = sections /\ cache \in [Processes -> CacheRow] /\ pub \in Nat
        /\ BalanceTodo(balanceReq[r1])
    BY DEF BalanceInv, BalanceTypes
  <1>1. CASE Balance!See(r1)
    <2>1. PICK p \in Processes :
            balanceReq' = [balanceReq EXCEPT ![r1] = [Balance!Idle EXCEPT !.kind = "generate", !.at = "streams", !.home = p, !.sees = DOMAIN streams]]
      BY <1>1 DEF Balance!See, Balance!Start
    <2>q. PICK q : q = [Balance!Idle EXCEPT !.kind = "generate", !.at = "streams", !.home = p, !.sees = DOMAIN streams]
      OBVIOUS
    <2>2. q \in BalanceReqs /\ q.at = "streams" /\ q.sees = sections
      BY <2>q, <1>t DEF Balance!Idle, BalanceReqs
    <2>3. BalanceTodo(q)
      BY <2>2 DEF BalanceTodo
    <2>4. UNCHANGED <<sections, streams, pub, cache>>
      BY <1>1 DEF Balance!See
    <2> QED BY <2>1, <2>q, <2>2, <2>3, <2>4, <1>t, BalanceReads
  <1>2. CASE Balance!DeleteStreams(r1)
    <2>1. /\ balanceReq[r1].kind = "generate" /\ balanceReq[r1].at = "streams"
          /\ balanceReq' = [balanceReq EXCEPT ![r1] = [balanceReq[r1] EXCEPT !.gone = balanceReq[r1].sees \cap DOMAIN streams,
                                                                             !.sees = sections, !.at = "sections"]]
          /\ UNCHANGED <<sections, streams, pub, cache>>
      BY <1>2, <1>t DEF Balance!DeleteStreams, Balance!At
    <2>q. PICK q : q = [balanceReq[r1] EXCEPT !.gone = balanceReq[r1].sees \cap DOMAIN streams, !.sees = sections, !.at = "sections"]
      OBVIOUS
    <2>s. balanceReq[r1].sees \cap DOMAIN streams = sections
      BY <2>1, <1>t DEF BalanceTodo
    <2>2. q \in BalanceReqs /\ q.at = "sections" /\ q.sees = sections /\ q.gone = sections
      BY <2>q, <2>s, <1>t DEF BalanceReqs
    <2>3. BalanceTodo(q)
      BY <2>2 DEF BalanceTodo
    <2> QED BY <2>1, <2>q, <2>2, <2>3, <1>t, BalanceReads
  <1>3. CASE Balance!DeleteSections(r1)
    <2>1. /\ balanceReq[r1].kind = "generate" /\ balanceReq[r1].at = "sections"
          /\ balanceReq' = [balanceReq EXCEPT ![r1] = [balanceReq[r1] EXCEPT !.goneSecs = balanceReq[r1].sees \cap sections, !.at = "insert"]]
          /\ UNCHANGED <<sections, streams, pub, cache>>
      BY <1>3, <1>t DEF Balance!DeleteSections, Balance!At
    <2>q. PICK q : q = [balanceReq[r1] EXCEPT !.goneSecs = balanceReq[r1].sees \cap sections, !.at = "insert"]
      OBVIOUS
    <2>s. balanceReq[r1].sees \cap sections = sections /\ balanceReq[r1].gone = sections
      BY <2>1, <1>t DEF BalanceTodo
    <2>2. q \in BalanceReqs /\ q.at = "insert" /\ q.goneSecs = sections /\ q.gone = sections
      BY <2>q, <2>s, <1>t DEF BalanceReqs
    <2>3. BalanceTodo(q)
      BY <2>2 DEF BalanceTodo
    <2> QED BY <2>1, <2>q, <2>2, <2>3, <1>t, BalanceReads
  <1>4. CASE Balance!Invalidate(r1)
    <2>1. /\ balanceReq[r1].kind = "generate" /\ balanceReq[r1].at = "insert"
          /\ balanceReq' = [balanceReq EXCEPT ![r1] = [balanceReq[r1] EXCEPT !.at = "commit"]]
          /\ cache' = [cache EXCEPT ![balanceReq[r1].home] = Balance!Absent]
          /\ UNCHANGED <<sections, streams, pub>>
      BY <1>4, <1>t DEF Balance!Invalidate, Balance!At
    <2>q. PICK q : q = [balanceReq[r1] EXCEPT !.at = "commit"]
      OBVIOUS
    <2>2. q \in BalanceReqs /\ q.at = "commit" /\ q.goneSecs = balanceReq[r1].goneSecs /\ q.gone = balanceReq[r1].gone
      BY <2>q, <1>t DEF BalanceReqs
    <2>3. BalanceTodo(q)
      BY <2>1, <2>2, <1>t DEF BalanceTodo
    <2>4. cache' \in [Processes -> CacheRow]
      BY <2>1, <1>t, BalanceIdle
    <2> QED BY <2>1, <2>q, <2>2, <2>3, <2>4, BalanceReads
  <1>5. CASE Balance!Commit(r1)
    <2>1. /\ balanceReq[r1].kind = "generate" /\ balanceReq[r1].at = "commit"
          /\ sections' = (sections \ balanceReq[r1].goneSecs) \cup {pub + 1}
          /\ streams' = [h \in ((DOMAIN streams) \ (balanceReq[r1].gone \cup balanceReq[r1].goneSecs)) \cup {pub + 1} |->
                           IF h = pub + 1 THEN Balance!Row ELSE streams[h]]
          /\ pub' = pub + 1 /\ balanceReq' = [balanceReq EXCEPT ![r1] = Balance!Idle] /\ cache' = cache
      BY <1>5 DEF Balance!Commit, Balance!At, Balance!End
    <2>2. balanceReq[r1].goneSecs = sections /\ balanceReq[r1].gone = sections
      BY <2>1, <1>t DEF BalanceTodo
    <2>3. sections' = {pub + 1} /\ pub + 1 \in Nat /\ pub + 1 # 0
      BY <2>1, <2>2, <1>t
    <2>4. ((DOMAIN streams) \ (balanceReq[r1].gone \cup balanceReq[r1].goneSecs)) \cup {pub + 1} = {pub + 1}
      BY <2>2, <1>t
    <2>5. streams' = [h \in {pub + 1} |-> Balance!Row]
      BY <2>1, <2>4
    <2>6. Balance!Row \in StreamRow
      BY DEF Balance!Row, StreamRow
    <2>7. BalanceTypes'
      BY <2>1, <2>3, <2>5, <2>6, <1>t DEF BalanceTypes
    <2>8. balanceReq' \in [{r1} -> BalanceReqs] /\ balanceReq'[r1] = Balance!Idle
      BY <2>1, <1>t, BalanceIdle
    <2>9. BalanceTodo(balanceReq[r1])'
      BY <2>8, BalanceIdle DEF BalanceTodo
    <2> QED BY <2>1, <2>3, <2>5, <2>7, <2>8, <2>9 DEF BalanceInv
  <1>6. CASE Balance!RollBack(r1)
    <2>1. balanceReq' = [balanceReq EXCEPT ![r1] = Balance!Idle] /\ UNCHANGED <<sections, streams, pub, cache>>
      BY <1>6 DEF Balance!RollBack, Balance!End
    <2> QED BY <2>1, <1>t, BalanceIdle, BalanceReads
  <1> QED BY <1>1, <1>2, <1>3, <1>4, <1>5, <1>6 DEF Balance!Generation

(* A request that generates nothing and writes no stream: any that ends, and *)
(* the snapshot, the dashboard and a body with some of the numbers.         *)
LEMMA BalanceLooks ==
  ASSUME BalanceInv,
         \/ Balance!Read(r1) \/ Balance!Check(r1) \/ Balance!Refuse(r1) \/ Balance!Partial(r1) \/ Balance!Fail(r1)
         \/ Balance!SnapSections(r1) \/ Balance!SnapStreams(r1) \/ Balance!Hit(r1) \/ Balance!Compute(r1)
         \/ Balance!Put(r1) \/ Balance!Leave(r1)
  PROVE  BalanceInv'
  <1>t. /\ balanceReq \in [{r1} -> BalanceReqs] /\ balanceReq[r1] \in BalanceReqs
        /\ sections \subseteq Nat /\ DOMAIN streams \subseteq Nat /\ cache \in [Processes -> CacheRow]
        /\ \A g \in DOMAIN streams : streams[g] \in StreamRow
        /\ \A p \in Processes : cache[p] \in CacheRow
    BY DEF BalanceInv, BalanceTypes
  <1>u. UNCHANGED <<sections, streams, pub>>
    BY DEF Balance!Read, Balance!Check, Balance!Refuse, Balance!Partial, Balance!Fail, Balance!SnapSections,
           Balance!SnapStreams, Balance!Hit, Balance!Compute, Balance!Put, Balance!Leave
  <1>f. SUFFICES \E q \in BalanceReqs : /\ balanceReq' = [balanceReq EXCEPT ![r1] = q] /\ q.kind # "generate"
                                        /\ cache' \in [Processes -> CacheRow]
    BY <1>u, BalanceReads DEF BalanceTodo
  <1>1. CASE Balance!Read(r1)
    <2>1. PICK g \in DOMAIN streams :
            balanceReq' = [balanceReq EXCEPT ![r1] = [Balance!Idle EXCEPT !.kind = "patch", !.at = "sent", !.sees = {g},
                                                                          !.ver = streams[g].ver, !.work = streams[g].work + 1]]
      BY <1>1 DEF Balance!Read
    <2>q. PICK q : q = [Balance!Idle EXCEPT !.kind = "patch", !.at = "sent", !.sees = {g},
                                            !.ver = streams[g].ver, !.work = streams[g].work + 1]
      OBVIOUS
    <2>v. streams[g].ver \in Nat /\ streams[g].work + 1 \in Nat /\ {g} \subseteq Nat
      BY <1>t DEF StreamRow
    <2>2. q \in BalanceReqs /\ q.kind # "generate"
      BY <2>q, <2>v DEF Balance!Idle, BalanceReqs
    <2>3. cache' = cache
      BY <1>1 DEF Balance!Read
    <2> QED BY <2>1, <2>q, <2>2, <2>3, <1>t
  <1>2. CASE Balance!Check(r1)
    <2>1. /\ balanceReq' = [balanceReq EXCEPT ![r1] = [balanceReq[r1] EXCEPT !.at = "checked"]] /\ cache' = cache
          /\ balanceReq[r1].kind = "patch"
      BY <1>2, <1>t DEF Balance!Check, Balance!At
    <2>q. PICK q : q = [balanceReq[r1] EXCEPT !.at = "checked"]
      OBVIOUS
    <2>2. q \in BalanceReqs /\ q.kind # "generate"
      BY <2>1, <2>q, <1>t DEF BalanceReqs
    <2> QED BY <2>1, <2>q, <2>2, <1>t
  <1>3. CASE Balance!Refuse(r1) \/ Balance!Fail(r1) \/ Balance!SnapStreams(r1) \/ Balance!Leave(r1)
    <2>1. balanceReq' = [balanceReq EXCEPT ![r1] = Balance!Idle] /\ cache' = cache
      BY <1>3 DEF Balance!Refuse, Balance!Fail, Balance!SnapStreams, Balance!Leave, Balance!End
    <2> QED BY <2>1, <1>t, BalanceIdle
  <1>4. CASE Balance!Partial(r1) \/ Balance!SnapSections(r1) \/ Balance!Hit(r1) \/ Balance!Compute(r1)
    <2>1. PICK kind \in {"partial", "snapshot", "dashboard"}, at \in {"error", "sections", "shown", "computed"},
               p \in Processes \cup {"none"}, sees \in SUBSET Nat :
            balanceReq' = [balanceReq EXCEPT ![r1] = [Balance!Idle EXCEPT !.kind = kind, !.at = at, !.home = p, !.sees = sees]]
      <3>1. CASE Balance!Partial(r1)
        <4>1. PICK g \in DOMAIN streams : Balance!Start(r1, "partial", "error", "none", {g})
          BY <3>1 DEF Balance!Partial
        <4>2. {g} \in SUBSET Nat
          BY <1>t
        <4> QED BY <4>1, <4>2 DEF Balance!Start
      <3>2. CASE Balance!SnapSections(r1)
        BY <3>2, <1>t DEF Balance!SnapSections, Balance!Start
      <3>3. CASE Balance!Hit(r1)
        <4>1. \A p \in Processes : cache[p].val \in SUBSET Nat
          BY <1>t DEF CacheRow
        <4> QED BY <3>3, <4>1 DEF Balance!Hit, Balance!Start
      <3>4. CASE Balance!Compute(r1)
        BY <3>4, <1>t DEF Balance!Compute, Balance!Start
      <3> QED BY <1>4, <3>1, <3>2, <3>3, <3>4
    <2>q. PICK q : q = [Balance!Idle EXCEPT !.kind = kind, !.at = at, !.home = p, !.sees = sees]
      OBVIOUS
    <2>2. q \in BalanceReqs /\ q.kind # "generate"
      BY <2>q DEF Balance!Idle, BalanceReqs
    <2>3. cache' = cache
      BY <1>4 DEF Balance!Partial, Balance!SnapSections, Balance!Hit, Balance!Compute
    <2> QED BY <2>1, <2>q, <2>2, <2>3, <1>t
  <1>5. CASE Balance!Put(r1)
    <2>1. /\ balanceReq' = [balanceReq EXCEPT ![r1] = [balanceReq[r1] EXCEPT !.at = "shown"]]
          /\ cache' = [cache EXCEPT ![balanceReq[r1].home] = [age |-> 0, val |-> balanceReq[r1].sees]]
          /\ balanceReq[r1].kind = "dashboard"
      BY <1>5, <1>t DEF Balance!Put, Balance!At
    <2>q. PICK q : q = [balanceReq[r1] EXCEPT !.at = "shown"]
      OBVIOUS
    <2>2. q \in BalanceReqs /\ q.kind # "generate"
      BY <2>1, <2>q, <1>t DEF BalanceReqs
    <2>c. PICK c : c = [age |-> 0, val |-> balanceReq[r1].sees]
      OBVIOUS
    <2>3. c \in CacheRow
      BY <2>c, <1>t DEF BalanceReqs, CacheRow
    <2>4. cache' \in [Processes -> CacheRow]
      BY <2>1, <2>c, <2>3, <1>t
    <2> QED BY <2>1, <2>q, <2>2, <2>4
  <1> QED BY <1>1, <1>2, <1>3, <1>4, <1>5

(* So every step keeps one balance ...                                      *)
LEMMA BalanceContinues ==
  ASSUME BalanceInv, Balance!Next
  PROVE  BalanceInv'
  <1>1. CASE \E p \in Processes : Balance!Age(p)
    <2>1. PICK p \in Processes : /\ cache[p].age < 2 /\ cache' = [cache EXCEPT ![p].age = @ + 1]
                                 /\ UNCHANGED <<sections, streams, pub, balanceReq>>
      BY <1>1 DEF Balance!Age
    <2>t. cache \in [Processes -> CacheRow] /\ cache[p] \in CacheRow
      BY DEF BalanceInv, BalanceTypes
    <2>c. PICK c : c = [cache[p] EXCEPT !.age = @ + 1]
      OBVIOUS
    <2>2. cache[p].age + 1 \in 0 .. 2
      BY <2>1, <2>t DEF CacheRow
    <2>3. c \in CacheRow
      BY <2>2, <2>c, <2>t DEF CacheRow
    <2>4. cache' = [cache EXCEPT ![p] = c]
      BY <2>1, <2>c, <2>t
    <2>5. cache' \in [Processes -> CacheRow]
      BY <2>3, <2>4, <2>t
    <2> QED BY <2>1, <2>5 DEF BalanceInv, BalanceTypes, BalanceTodo
  <1>2. CASE Balance!Patch(r1)
    <2>1. PICK g \in DOMAIN streams :
            /\ streams' = [streams EXCEPT ![g].ver = @ + 1, ![g].work = balanceReq[r1].work]
            /\ balanceReq' = [balanceReq EXCEPT ![r1] = Balance!Idle]
            /\ UNCHANGED <<sections, pub, cache>>
      BY <1>2 DEF Balance!Patch, Balance!End
    <2>t. /\ streams \in [DOMAIN streams -> StreamRow] /\ streams[g] \in StreamRow
          /\ balanceReq \in [{r1} -> BalanceReqs] /\ balanceReq[r1] \in BalanceReqs
      BY DEF BalanceInv, BalanceTypes
    <2>s. PICK new : new = [streams[g] EXCEPT !.ver = @ + 1, !.work = balanceReq[r1].work]
      OBVIOUS
    <2>v. streams[g].ver + 1 \in Nat /\ balanceReq[r1].work \in Nat
      BY <2>t DEF StreamRow, BalanceReqs
    <2>2. new \in StreamRow
      BY <2>s, <2>v, <2>t DEF StreamRow
    <2>3. streams' = [streams EXCEPT ![g] = new]
      BY <2>1, <2>s, <2>t
    <2>4. DOMAIN streams' = DOMAIN streams /\ streams' \in [DOMAIN streams' -> StreamRow]
      BY <2>2, <2>3, <2>t
    <2>5. balanceReq' \in [{r1} -> BalanceReqs] /\ balanceReq'[r1] = Balance!Idle
      BY <2>1, <2>t, BalanceIdle
    <2>6. BalanceTodo(balanceReq[r1])'
      BY <2>5, BalanceIdle DEF BalanceTodo
    <2> QED BY <2>1, <2>4, <2>5, <2>6 DEF BalanceInv, BalanceTypes
  <1> QED BY <1>1, <1>2, BalanceGenerates, BalanceLooks DEF Balance!Next

(* ... which there is at the start ...                                      *)
LEMMA BalanceBegins ==
  ASSUME Balance!Init
  PROVE  BalanceInv
  <1>1. pub = 0 /\ sections = {} /\ streams = [g \in {} |-> Balance!Row]
        /\ cache = [p \in Processes |-> Balance!Absent] /\ balanceReq = [r \in {r1} |-> Balance!Idle]
    BY DEF Balance!Init
  <1>2. DOMAIN streams = {} /\ streams \in [DOMAIN streams -> StreamRow]
    BY <1>1
  <1>3. BalanceTypes
    BY <1>1, <1>2, BalanceIdle DEF BalanceTypes
  <1> QED BY <1>1, <1>2, <1>3, BalanceIdle DEF BalanceInv

(* ... and the recoveries published are its own.                            *)
LEMMA BalanceWhole ==
  ASSUME BalanceInv
  PROVE  Balance!OneBalance
  BY DEF BalanceInv, Balance!OneBalance

(* Edits, by many: what leaves the streams with the works of their versions. *)
LEMMA StreamsAside ==
  ASSUME BalanceEditsInv, NEW r \in BalanceUsers, NEW q \in BalanceReqs, balanceReq' = [balanceReq EXCEPT ![r] = q],
         StreamTodo(q), BalanceTypes', \A g \in DOMAIN streams' : streams'[g].ver = streams'[g].work + 1
  PROVE  BalanceEditsInv'
  <1>1. balanceReq' \in [BalanceUsers -> BalanceReqs] /\ \A o \in BalanceUsers : balanceReq'[o] = IF o = r THEN q ELSE balanceReq[o]
    BY DEF BalanceEditsInv
  <1>2. \A o \in BalanceUsers : StreamTodo(balanceReq'[o])
    BY <1>1 DEF BalanceEditsInv
  <1>3. \A o \in BalanceUsers : StreamTodo(balanceReq[o])'
    BY <1>2 DEF StreamTodo
  <1> QED BY <1>1, <1>3 DEF BalanceEditsInv

(* A request that is not under way.                                         *)
LEMMA StreamsIdle ==
  /\ BalanceEdits!Idle \in BalanceReqs /\ StreamTodo(BalanceEdits!Idle) /\ BalanceEdits!Absent \in CacheRow
  BY DEF BalanceEdits!Idle, BalanceReqs, StreamTodo, BalanceEdits!Absent, CacheRow

(* Each step of the edits of streams keeps what was answered ...            *)
LEMMA StreamsContinue ==
  ASSUME BalanceEditsInv, BalanceEdits!Next
  PROVE  BalanceEditsInv'
  <1>1. CASE \E p \in Processes : BalanceEdits!Age(p)
    <2>1. PICK p \in Processes : /\ cache[p].age < 2 /\ cache' = [cache EXCEPT ![p].age = @ + 1]
                                 /\ UNCHANGED <<sections, streams, pub, balanceReq>>
      BY <1>1 DEF BalanceEdits!Age
    <2>t. cache \in [Processes -> CacheRow] /\ cache[p] \in CacheRow
      BY DEF BalanceEditsInv, BalanceTypes
    <2>c. PICK c : c = [cache[p] EXCEPT !.age = @ + 1]
      OBVIOUS
    <2>2. cache[p].age + 1 \in 0 .. 2
      BY <2>1, <2>t DEF CacheRow
    <2>3. c \in CacheRow
      BY <2>2, <2>c, <2>t DEF CacheRow
    <2>4. cache' = [cache EXCEPT ![p] = c]
      BY <2>1, <2>c, <2>t
    <2>5. cache' \in [Processes -> CacheRow]
      BY <2>3, <2>4, <2>t
    <2> QED BY <2>1, <2>5 DEF BalanceEditsInv, BalanceTypes, StreamTodo
  <1>2. ASSUME NEW r \in BalanceUsers,
               \/ BalanceEdits!Generation(r) \/ BalanceEdits!Read(r) \/ BalanceEdits!Check(r) \/ BalanceEdits!Patch(r)
               \/ BalanceEdits!Refuse(r) \/ BalanceEdits!Partial(r) \/ BalanceEdits!Fail(r) \/ BalanceEdits!SnapSections(r)
               \/ BalanceEdits!SnapStreams(r) \/ BalanceEdits!Hit(r) \/ BalanceEdits!Compute(r) \/ BalanceEdits!Put(r)
               \/ BalanceEdits!Leave(r)
        PROVE  BalanceEditsInv'
    <2>t. /\ balanceReq \in [BalanceUsers -> BalanceReqs] /\ balanceReq[r] \in BalanceReqs /\ BalanceTypes
          /\ sections \subseteq Nat /\ DOMAIN streams \subseteq Nat /\ cache \in [Processes -> CacheRow] /\ pub \in Nat
          /\ streams \in [DOMAIN streams -> StreamRow] /\ \A g \in DOMAIN streams : streams[g] \in StreamRow
          /\ \A g \in DOMAIN streams : streams[g].ver = streams[g].work + 1
          /\ StreamTodo(balanceReq[r])
      BY DEF BalanceEditsInv, BalanceTypes
    <2>s. ASSUME NEW q \in BalanceReqs, balanceReq' = [balanceReq EXCEPT ![r] = q], StreamTodo(q),
                 UNCHANGED <<sections, streams, pub>>, cache' \in [Processes -> CacheRow]
          PROVE  BalanceEditsInv'
      <3>1. BalanceTypes'
        BY <2>s, <2>t DEF BalanceTypes
      <3> QED BY <2>s, <2>t, <3>1, StreamsAside
    <2>x. /\ ~BalanceEdits!Partial(r) /\ ~BalanceEdits!SnapSections(r) /\ ~BalanceEdits!Hit(r) /\ ~BalanceEdits!Compute(r)
          /\ ~BalanceEdits!Fail(r) /\ ~BalanceEdits!SnapStreams(r) /\ ~BalanceEdits!Put(r) /\ ~BalanceEdits!Leave(r)
      BY <2>t DEF BalanceEdits!Partial, BalanceEdits!SnapSections, BalanceEdits!Hit, BalanceEdits!Compute, BalanceEdits!Start,
                  BalanceEdits!Fail, BalanceEdits!SnapStreams, BalanceEdits!Put, BalanceEdits!Leave, BalanceEdits!At, StreamTodo
    <2>1. CASE BalanceEdits!See(r)
      <3>1. PICK p \in Processes :
              balanceReq' = [balanceReq EXCEPT ![r] = [BalanceEdits!Idle EXCEPT !.kind = "generate", !.at = "streams", !.home = p, !.sees = DOMAIN streams]]
        BY <2>1 DEF BalanceEdits!See, BalanceEdits!Start
      <3>q. PICK q : q = [BalanceEdits!Idle EXCEPT !.kind = "generate", !.at = "streams", !.home = p, !.sees = DOMAIN streams]
        OBVIOUS
      <3>2. q \in BalanceReqs /\ q.kind = "generate"
        BY <3>q, <2>t DEF BalanceEdits!Idle, BalanceReqs
      <3>3. UNCHANGED <<sections, streams, pub, cache>>
        BY <2>1 DEF BalanceEdits!See
      <3> QED BY <3>1, <3>q, <3>2, <3>3, <2>s, <2>t DEF StreamTodo
    <2>2. CASE BalanceEdits!DeleteStreams(r)
      <3>1. /\ balanceReq[r].kind = "generate"
            /\ balanceReq' = [balanceReq EXCEPT ![r] = [balanceReq[r] EXCEPT !.gone = balanceReq[r].sees \cap DOMAIN streams,
                                                                             !.sees = sections, !.at = "sections"]]
            /\ UNCHANGED <<sections, streams, pub, cache>>
        BY <2>2, <2>t DEF BalanceEdits!DeleteStreams, BalanceEdits!At
      <3>q. PICK q : q = [balanceReq[r] EXCEPT !.gone = balanceReq[r].sees \cap DOMAIN streams, !.sees = sections, !.at = "sections"]
        OBVIOUS
      <3>2. q \in BalanceReqs /\ q.kind = "generate"
        BY <3>1, <3>q, <2>t DEF BalanceReqs
      <3> QED BY <3>1, <3>q, <3>2, <2>s, <2>t DEF StreamTodo
    <2>3. CASE BalanceEdits!DeleteSections(r)
      <3>1. /\ balanceReq[r].kind = "generate"
            /\ balanceReq' = [balanceReq EXCEPT ![r] = [balanceReq[r] EXCEPT !.goneSecs = balanceReq[r].sees \cap sections, !.at = "insert"]]
            /\ UNCHANGED <<sections, streams, pub, cache>>
        BY <2>3, <2>t DEF BalanceEdits!DeleteSections, BalanceEdits!At
      <3>q. PICK q : q = [balanceReq[r] EXCEPT !.goneSecs = balanceReq[r].sees \cap sections, !.at = "insert"]
        OBVIOUS
      <3>2. q \in BalanceReqs /\ q.kind = "generate"
        BY <3>1, <3>q, <2>t DEF BalanceReqs
      <3> QED BY <3>1, <3>q, <3>2, <2>s, <2>t DEF StreamTodo
    <2>4. CASE BalanceEdits!Invalidate(r)
      <3>1. /\ balanceReq[r].kind = "generate"
            /\ balanceReq' = [balanceReq EXCEPT ![r] = [balanceReq[r] EXCEPT !.at = "commit"]]
            /\ cache' = [cache EXCEPT ![balanceReq[r].home] = BalanceEdits!Absent]
            /\ UNCHANGED <<sections, streams, pub>>
        BY <2>4, <2>t DEF BalanceEdits!Invalidate, BalanceEdits!At
      <3>q. PICK q : q = [balanceReq[r] EXCEPT !.at = "commit"]
        OBVIOUS
      <3>2. q \in BalanceReqs /\ q.kind = "generate"
        BY <3>1, <3>q, <2>t DEF BalanceReqs
      <3>3. cache' \in [Processes -> CacheRow]
        BY <3>1, <2>t, StreamsIdle
      <3> QED BY <3>1, <3>q, <3>2, <3>3, <2>s DEF StreamTodo
    <2>5. CASE BalanceEdits!Commit(r)
      <3> DEFINE Left == (DOMAIN streams) \ (balanceReq[r].gone \cup balanceReq[r].goneSecs)
      <3>1. /\ sections' = (sections \ balanceReq[r].goneSecs) \cup {pub + 1}
            /\ streams' = [h \in Left \cup {pub + 1} |-> IF h = pub + 1 THEN BalanceEdits!Row ELSE streams[h]]
            /\ pub' = pub + 1 /\ balanceReq' = [balanceReq EXCEPT ![r] = BalanceEdits!Idle] /\ cache' = cache
        BY <2>5 DEF BalanceEdits!Commit, BalanceEdits!End
      <3>2. BalanceEdits!Row \in StreamRow /\ BalanceEdits!Row.ver = 1 /\ BalanceEdits!Row.work = 0
        BY DEF BalanceEdits!Row, StreamRow
      <3>3. Left \subseteq DOMAIN streams
        OBVIOUS
      <3> HIDE DEF Left
      <3>4. pub' \in Nat /\ sections' \subseteq Nat /\ DOMAIN streams' \subseteq Nat
        BY <3>1, <3>3, <2>t
      <3>5. \A h \in DOMAIN streams' : streams'[h] = BalanceEdits!Row \/ (h \in DOMAIN streams /\ streams'[h] = streams[h])
        BY <3>1, <3>3
      <3>6. \A h \in DOMAIN streams' : streams'[h] \in StreamRow /\ streams'[h].ver = streams'[h].work + 1
        BY <3>2, <3>5, <2>t
      <3>7. streams' \in [DOMAIN streams' -> StreamRow]
        BY <3>1, <3>6
      <3>8. BalanceTypes'
        BY <3>1, <3>4, <3>7, <2>t DEF BalanceTypes
      <3> QED BY <3>1, <3>6, <3>8, StreamsIdle, StreamsAside
    <2>6. CASE BalanceEdits!RollBack(r) \/ BalanceEdits!Refuse(r)
      <3>1. balanceReq' = [balanceReq EXCEPT ![r] = BalanceEdits!Idle] /\ UNCHANGED <<sections, streams, pub, cache>>
        BY <2>6 DEF BalanceEdits!RollBack, BalanceEdits!Refuse, BalanceEdits!End
      <3> QED BY <3>1, <2>s, <2>t, StreamsIdle
    <2>7. CASE BalanceEdits!Read(r)
      <3>1. PICK g \in DOMAIN streams :
              /\ balanceReq' = [balanceReq EXCEPT ![r] = [BalanceEdits!Idle EXCEPT !.kind = "patch", !.at = "sent", !.sees = {g},
                                                                                   !.ver = streams[g].ver, !.work = streams[g].work + 1]]
              /\ UNCHANGED <<sections, streams, pub, cache>>
        BY <2>7 DEF BalanceEdits!Read
      <3>q. PICK q : q = [BalanceEdits!Idle EXCEPT !.kind = "patch", !.at = "sent", !.sees = {g},
                                                   !.ver = streams[g].ver, !.work = streams[g].work + 1]
        OBVIOUS
      <3>v. streams[g].ver \in Nat /\ streams[g].work + 1 \in Nat /\ {g} \subseteq Nat /\ streams[g].ver = streams[g].work + 1
        BY <2>t DEF StreamRow
      <3>2. q \in BalanceReqs /\ q.kind = "patch" /\ q.work = q.ver
        BY <3>q, <3>v DEF BalanceEdits!Idle, BalanceReqs
      <3> QED BY <3>1, <3>q, <3>2, <2>s, <2>t DEF StreamTodo
    <2>8. CASE BalanceEdits!Check(r)
      <3>1. /\ balanceReq' = [balanceReq EXCEPT ![r] = [balanceReq[r] EXCEPT !.at = "checked"]]
            /\ UNCHANGED <<sections, streams, pub, cache>> /\ balanceReq[r].kind = "patch"
        BY <2>8, <2>t DEF BalanceEdits!Check, BalanceEdits!At
      <3>q. PICK q : q = [balanceReq[r] EXCEPT !.at = "checked"]
        OBVIOUS
      <3>2. q \in BalanceReqs /\ q.kind = "patch" /\ q.work = q.ver
        BY <3>1, <3>q, <2>t DEF BalanceReqs, StreamTodo
      <3> QED BY <3>1, <3>q, <3>2, <2>s, <2>t DEF StreamTodo
    <2>9. CASE BalanceEdits!Patch(r)
      <3>1. PICK g \in DOMAIN streams :
              /\ balanceReq[r].kind = "patch" /\ streams[g].ver = balanceReq[r].ver
              /\ streams' = [streams EXCEPT ![g].ver = @ + 1, ![g].work = balanceReq[r].work]
              /\ balanceReq' = [balanceReq EXCEPT ![r] = BalanceEdits!Idle]
              /\ UNCHANGED <<sections, pub, cache>>
        BY <2>9 DEF BalanceEdits!Patch, BalanceEdits!End, BalanceEdits!At
      <3>n. PICK new : new = [streams[g] EXCEPT !.ver = @ + 1, !.work = balanceReq[r].work]
        OBVIOUS
      <3>v. streams[g].ver + 1 \in Nat /\ balanceReq[r].work \in Nat /\ balanceReq[r].work = streams[g].ver /\ streams[g] \in StreamRow
        BY <3>1, <2>t DEF StreamRow, BalanceReqs, StreamTodo
      <3>2. new \in StreamRow /\ new.ver = streams[g].ver + 1 /\ new.work = streams[g].ver
        BY <3>n, <3>v DEF StreamRow
      <3>3. streams' = [streams EXCEPT ![g] = new]
        BY <3>1, <3>n, <2>t
      <3>4. DOMAIN streams' = DOMAIN streams /\ \A h \in DOMAIN streams : streams'[h] = IF h = g THEN new ELSE streams[h]
        BY <3>3, <2>t
      <3>5. streams' \in [DOMAIN streams' -> StreamRow]
        BY <3>2, <3>3, <2>t
      <3>6. \A h \in DOMAIN streams' : streams'[h].ver = streams'[h].work + 1
        BY <3>2, <3>4, <2>t
      <3>7. BalanceTypes'
        BY <3>1, <3>4, <3>5, <2>t DEF BalanceTypes
      <3> QED BY <3>1, <3>6, <3>7, StreamsIdle, StreamsAside
    <2> QED BY <1>2, <2>x, <2>1, <2>2, <2>3, <2>4, <2>5, <2>6, <2>7, <2>8, <2>9 DEF BalanceEdits!Generation
  <1> QED BY <1>1, <1>2 DEF BalanceEdits!Next

(* ... from the start ...                                                   *)
LEMMA StreamsBegin ==
  ASSUME BalanceEdits!Init
  PROVE  BalanceEditsInv
  <1>1. pub = 1 /\ sections = {1} /\ streams = [g \in {1} |-> BalanceEdits!Row]
        /\ cache = [p \in Processes |-> BalanceEdits!Absent] /\ balanceReq = [r \in BalanceUsers |-> BalanceEdits!Idle]
    BY DEF BalanceEdits!Init
  <1>2. BalanceEdits!Row \in StreamRow /\ BalanceEdits!Row.ver = 1 /\ BalanceEdits!Row.work = 0
    BY DEF BalanceEdits!Row, StreamRow
  <1>3. DOMAIN streams = {1} /\ streams \in [DOMAIN streams -> StreamRow]
    BY <1>1, <1>2
  <1>4. BalanceTypes
    BY <1>1, <1>3, StreamsIdle DEF BalanceTypes
  <1> QED BY <1>1, <1>2, <1>3, <1>4, StreamsIdle DEF BalanceEditsInv

(* ... so that no edit is lost.                                             *)
LEMMA StreamsWhole ==
  ASSUME BalanceEditsInv
  PROVE  BalanceEdits!NoneLost
  <1>1. \A g \in DOMAIN streams : streams[g].ver \in Nat /\ streams[g].work \in Nat /\ streams[g].ver = streams[g].work + 1
    BY DEF BalanceEditsInv, BalanceTypes, StreamRow
  <1> QED BY <1>1 DEF BalanceEdits!NoneLost

-----------------------------------------------------------------------------
(* In every part its invariant.                                             *)
RegistersInv ==
  /\ part = "risks" => RiskInv
  /\ part = "items" => ItemsInv
  /\ part = "item_edits" => ItemEditsInv
  /\ part = "balance" => BalanceInv
  /\ part = "balance_edits" => BalanceEditsInv

(* The registers begin whole ...                                            *)
LEMMA RegistersBegin == AllInit => RegistersInv
  <1> SUFFICES ASSUME AllInit PROVE RegistersInv
    OBVIOUS
  <1>1. part = "risks" => RiskInv
    BY RisksBegin, DataConstants DEF AllInit
  <1>2. part = "items" => Items!Init
    BY DEF AllInit
  <1>3. part = "item_edits" => ItemEdits!Init
    BY DEF AllInit
  <1>4. part = "balance" => Balance!Init
    BY DEF AllInit
  <1>5. part = "balance_edits" => BalanceEdits!Init
    BY DEF AllInit
  <1> QED BY <1>1, <1>2, <1>3, <1>4, <1>5, ItemsBegin, EditsBegin, BalanceBegins, StreamsBegin DEF RegistersInv

(* A part that is not at its turn has its tables as they were.              *)
LEMMA RisksAlone ==
  ASSUME RiskInv, UNCHANGED <<risks, riskReq, added>>
  PROVE  RiskInv'
  <1>1. Risks!There' = Risks!There /\ risks' = risks /\ riskReq' = riskReq /\ added' = added
    BY DEF Risks!There
  <1>2. \A c : Autos(c)' = Autos(c)
    BY <1>1 DEF Autos
  <1>3. \A r \in {r1, r2} : RiskTodo(riskReq[r])'
    <2> TAKE r \in {r1, r2}
    <2>1. PICK q : q = riskReq[r]
      OBVIOUS
    <2>2. RiskTodo(q)
      BY <2>1 DEF RiskInv
    <2>3. riskReq'[r] = q
      BY <2>1, <1>1
    <2>4. q.at = "insert" => \A c \in Categories : AtMostFound(Autos(c)', LinesOf(q, c))
      BY <2>2, <1>2 DEF RiskTodo
    <2> QED BY <1>1, <2>2, <2>3, <2>4 DEF RiskTodo, Fresh, LinesOf, AtMostFound
  <1>4. \A c \in Categories : AtMostFound(Autos(c)', {})
    BY <1>2 DEF RiskInv
  <1>5. Risks!NumbersDistinct' /\ Risks!ManualKept' /\ Alone'
    BY <1>1 DEF RiskInv, Risks!NumbersDistinct, Risks!ManualKept, Alone, Risks!Idle
  <1> QED BY <1>1, <1>3, <1>4, <1>5 DEF RiskInv, AtMostFound

(* ... and every step keeps them so.                                        *)
LEMMA RegistersContinue == RegistersInv /\ [AllNext]_allVars => RegistersInv'
  <1> SUFFICES ASSUME RegistersInv, [AllNext]_allVars PROVE RegistersInv'
    OBVIOUS
  <1>1. part' = part
    BY PartStays
  <1>2. \/ RiskStep \/ ItemStep \/ ItemEditStep \/ BalanceStep \/ BalanceEditStep
        \/ /\ part \in {"risks"} => UNCHANGED <<risks, riskReq, added>>
           /\ part \in {"items", "item_edits"} => UNCHANGED <<items, gen, itemReq>>
           /\ part \in {"balance", "balance_edits"} => UNCHANGED <<sections, streams, pub, snaps, cache, balanceReq>>
    BY DEF allVars, AllNext, Rest, CostStep,
           CostRaceStep, PlanStep, LockStep, CircuitStep, TopologyStep, ValueStep, ValueEditStep, DiagramStep
  <1>3. CASE RiskStep
    BY <1>1, <1>3, RisksContinue, DataConstants DEF RiskStep, RegistersInv
  <1>4. CASE ItemStep
    BY <1>1, <1>4, ItemsContinue DEF ItemStep, RegistersInv
  <1>5. CASE ItemEditStep
    BY <1>1, <1>5, EditsContinue, DataConstants DEF ItemEditStep, RegistersInv
  <1>6. CASE BalanceStep
    BY <1>1, <1>6, BalanceContinues DEF BalanceStep, RegistersInv
  <1>7. CASE BalanceEditStep
    BY <1>1, <1>7, StreamsContinue DEF BalanceEditStep, RegistersInv
  <1>8. CASE /\ part \in {"risks"} => UNCHANGED <<risks, riskReq, added>>
             /\ part \in {"items", "item_edits"} => UNCHANGED <<items, gen, itemReq>>
             /\ part \in {"balance", "balance_edits"} => UNCHANGED <<sections, streams, pub, snaps, cache, balanceReq>>
    <2>1. part = "risks" => RiskInv'
      BY <1>8, RisksAlone DEF RegistersInv
    <2>2. part = "items" => ItemsInv'
      BY <1>8 DEF RegistersInv, ItemsInv, ItemTypes, ItemTodo
    <2>3. part = "item_edits" => ItemEditsInv'
      BY <1>8 DEF RegistersInv, ItemEditsInv
    <2>4. part = "balance" => BalanceInv'
      BY <1>8 DEF RegistersInv, BalanceInv, BalanceTypes, BalanceTodo
    <2>5. part = "balance_edits" => BalanceEditsInv'
      BY <1>8 DEF RegistersInv, BalanceEditsInv, BalanceTypes, StreamTodo
    <2> QED BY <1>1, <2>1, <2>2, <2>3, <2>4, <2>5 DEF RegistersInv
  <1> QED BY <1>2, <1>3, <1>4, <1>5, <1>6, <1>7, <1>8

(* Numbers, generations, tags, published recoveries, edits and copies: the   *)
(* registers are whole in every behaviour.                                  *)
THEOREM AllRegistersWhole == AllSpec => []RegistersWhole
  <1>1. RegistersInv /\ AllValueInv => RegistersWhole
    BY DataConstants, RisksWhole, ItemsWhole, EditsWhole, BalanceWhole, StreamsWhole, VersionsTell DEF RegistersInv, RegistersWhole
  <1>2. AllValueInv /\ [AllNext]_allVars => AllValueInv'
    BY ValuesContinue
  <1> QED BY <1>1, <1>2, RegistersBegin, RegistersContinue, ValuesBegin, PTL DEF AllSpec

-----------------------------------------------------------------------------
(* The drawn flowsheet, one request at a time.                              *)
Blocks == ({"base", "user"} \X Nat) \cup (Ops \X {r1})
FlowRow == [blocks : SUBSET Blocks, sig : Nat, ver : Nat]
DiagramReqs == [at : {"idle", "delete", "insert", "enrich", "update", "save", "equipment", "write"},
                kind : {"none", "generate", "generate-v2", "edit", "propagate"},
                id : Nat, blocks : SUBSET Blocks, tags : SUBSET Ops, ver : Nat, sig : Nat]
DiagramTodo(q) ==
  /\ q.at = "insert" => fs = <<>>
  /\ q.at \in {"delete", "insert", "enrich", "update"} => q.ver = src.ver
  /\ q.at \in {"enrich", "update"} => /\ q.id \in DOMAIN fs /\ fs[q.id].ver = src.ver
                                      /\ \A s \in saved : s[1] # q.id
  /\ q.at = "update" => q.sig = src.ver
  /\ q.at = "save" => q.id \in DOMAIN fs /\ q.blocks = fs[q.id].blocks
  /\ q.at \in {"equipment", "write"} =>
       IF q.id = 0 THEN fs = <<>> ELSE q.id \in DOMAIN fs /\ q.blocks = fs[q.id].blocks
(* The rows and the edits in them.                                          *)
FlowInv ==
  /\ made \in Nat /\ DOMAIN fs \subseteq 1 .. made /\ fs \in [DOMAIN fs -> FlowRow] /\ (DOMAIN fs = {} => fs = <<>>)
  /\ \A i, j \in DOMAIN fs : i = j
  /\ saved \subseteq (1 .. made) \X Blocks /\ IsFiniteSet(saved) /\ Diagram!EditKept
  /\ \A i \in DOMAIN fs : fs[i].sig # 0 => fs[i].sig = fs[i].ver
DiagramInv ==
  /\ FlowInv /\ equip \subseteq Ops \X {r1}
  /\ src \in [ver : Nat, count : Nat] /\ src.count = src.ver
  /\ diagramReq \in [{r1} -> DiagramReqs] /\ DiagramTodo(diagramReq[r1])

(* A flowsheet without rows.                                                *)
LEMMA NoFlow == DOMAIN <<>> = {} /\ <<>> \in [DOMAIN <<>> -> FlowRow]
  OBVIOUS

(* The newest of the rows is the only one.                                  *)
LEMMA NewestRow ==
  ASSUME FlowInv, fs # <<>>
  PROVE  Diagram!Newest \in DOMAIN fs
  <1>1. PICK i \in DOMAIN fs : \A j \in DOMAIN fs : j = i
    BY DEF FlowInv
  <1>2. \A j \in DOMAIN fs : j <= i
    BY <1>1 DEF FlowInv
  <1>3. \E k \in DOMAIN fs : \A j \in DOMAIN fs : j <= k
    BY <1>2
  <1> QED BY <1>3, Zenon DEF Diagram!Newest

(* A drawing is emptied ...                                                 *)
LEMMA FlowEmpties ==
  ASSUME FlowInv, fs' = <<>>, UNCHANGED <<made, saved>>
  PROVE  FlowInv'
  <1>1. DOMAIN fs' = {} /\ fs' \in [DOMAIN fs' -> FlowRow]
    BY NoFlow
  <1> QED BY <1>1 DEF FlowInv, Diagram!EditKept

(* ... gets a row ...                                                       *)
LEMMA FlowInserts ==
  ASSUME FlowInv, fs = <<>>, NEW fr \in FlowRow, fs' = Diagram!WithRow(made + 1, fr), made' = made + 1, saved' = saved,
         fr.sig = 0
  PROVE  FlowInv' /\ DOMAIN fs' = {made + 1} /\ fs'[made + 1] = fr /\ \A s \in saved' : s[1] # made + 1
  <1>1. DOMAIN fs = {}
    BY NoFlow
  <1>2. fs' = [j \in {made + 1} |-> fr]
    BY <1>1 DEF Diagram!WithRow
  <1>3. made \in Nat /\ saved \subseteq (1 .. made) \X Blocks /\ IsFiniteSet(saved)
    BY DEF FlowInv
  <1>4. \A s \in saved : s[1] \in 1 .. made /\ s[2] \in Blocks /\ s = <<s[1], s[2]>>
    BY <1>3
  <1>5. made + 1 \in 1 .. made' /\ \A s \in saved : s[1] # made + 1 /\ s[1] \in 1 .. made'
    BY <1>3, <1>4
  <1>6. saved' \subseteq (1 .. made') \X Blocks
    <2> SUFFICES ASSUME NEW s \in saved PROVE s \in (1 .. made') \X Blocks
      OBVIOUS
    <2> QED BY <1>4, <1>5
  <1>7. Diagram!EditKept'
    BY <1>2, <1>5 DEF Diagram!EditKept
  <1>8. /\ DOMAIN fs' = {made + 1} /\ fs'[made + 1] = fr /\ fs' \in [DOMAIN fs' -> FlowRow] /\ DOMAIN fs' # {}
        /\ DOMAIN fs' \subseteq 1 .. made' /\ made' \in Nat
    BY <1>2, <1>3, <1>5
  <1>9. FlowInv'
    <2>1. \A i, j \in DOMAIN fs' : i = j
      BY <1>8
    <2>2. \A i \in DOMAIN fs' : fs'[i].sig = 0
      BY <1>8
    <2> QED BY <2>1, <2>2, <1>3, <1>6, <1>7, <1>8 DEF FlowInv
  <1> QED BY <1>5, <1>8, <1>9

(* ... or has one written.                                                  *)
LEMMA FlowWrites ==
  ASSUME FlowInv, NEW i \in DOMAIN fs, NEW fr \in FlowRow, fs' = [fs EXCEPT ![i] = fr], made' = made,
         IsFiniteSet(saved'), saved' \subseteq (1 .. made) \X Blocks,
         \A s \in saved' : s[1] = i => s[2] \in fr.blocks,
         fr.sig # 0 => fr.sig = fr.ver
  PROVE  FlowInv' /\ DOMAIN fs' = DOMAIN fs /\ fs'[i] = fr
  <1>1. /\ DOMAIN fs' = DOMAIN fs /\ fs' \in [DOMAIN fs' -> FlowRow] /\ \A j \in DOMAIN fs : j = i
        /\ fs'[i] = fr
    BY DEF FlowInv
  <1>2. Diagram!EditKept'
    BY <1>1 DEF Diagram!EditKept
  <1> QED BY <1>1, <1>2 DEF FlowInv

(* After its step the request has what it still has to do.                  *)
LEMMA DiagramMoves ==
  ASSUME DiagramInv, FlowInv', equip' \subseteq Ops \X {r1}, src' = src,
         NEW q \in DiagramReqs, diagramReq' = [diagramReq EXCEPT ![r1] = q], DiagramTodo(q)'
  PROVE  DiagramInv'
  <1>1. diagramReq' \in [{r1} -> DiagramReqs] /\ diagramReq'[r1] = q
    BY DEF DiagramInv
  <1>2. DiagramTodo(diagramReq[r1])'
    BY <1>1 DEF DiagramTodo
  <1> QED BY <1>1, <1>2 DEF DiagramInv

(* A request that is not under way.                                         *)
LEMMA DiagramIdle ==
  /\ Diagram!Idle \in DiagramReqs /\ Diagram!Idle.at = "idle"
  /\ Diagram!Idle = [at |-> "idle", kind |-> "none", id |-> 0, blocks |-> {}, tags |-> {}, ver |-> 0, sig |-> 0]
  BY DEF Diagram!Idle, DiagramReqs

(* Generation, from its first query to its last.                            *)
LEMMA DiagramGenerates ==
  ASSUME DiagramInv,
         \/ Diagram!Generate(r1) \/ Diagram!Delete(r1) \/ Diagram!Insert(r1) \/ Diagram!Enrich(r1) \/ Diagram!Update(r1)
  PROVE  DiagramInv'
  <1>t. /\ diagramReq \in [{r1} -> DiagramReqs] /\ diagramReq[r1] \in DiagramReqs /\ FlowInv /\ equip \subseteq Ops \X {r1}
        /\ src.ver \in Nat /\ src.count = src.ver /\ DiagramTodo(diagramReq[r1]) /\ made \in Nat
    BY DEF DiagramInv, FlowInv
  <1>k. fs' = fs /\ UNCHANGED <<made, saved>> => FlowInv'
    BY <1>t DEF FlowInv, Diagram!EditKept
  <1>1. CASE Diagram!Generate(r1)
    <2>1. PICK kind \in {"generate", "generate-v2"} :
            /\ diagramReq' = [diagramReq EXCEPT ![r1] = [[Diagram!Idle EXCEPT !.at = "delete", !.ver = src.ver] EXCEPT !.kind = kind]]
            /\ UNCHANGED <<fs, made, equip, src, saved>>
      BY <1>1 DEF Diagram!Generate, Diagram!Start
    <2>q. PICK q : q = [[Diagram!Idle EXCEPT !.at = "delete", !.ver = src.ver] EXCEPT !.kind = kind]
      OBVIOUS
    <2>2. q \in DiagramReqs /\ q.at = "delete" /\ q.ver = src.ver
      BY <2>q, <1>t, DiagramIdle DEF DiagramReqs
    <2>3. DiagramTodo(q)'
      BY <2>1, <2>2 DEF DiagramTodo
    <2> QED BY <2>1, <2>q, <2>2, <2>3, <1>k, <1>t, DiagramMoves
  <1>2. CASE Diagram!Delete(r1)
    <2>1. /\ diagramReq[r1].at = "delete" /\ fs' = <<>> /\ UNCHANGED <<made, equip, src, saved>>
          /\ diagramReq' = [diagramReq EXCEPT ![r1] = [diagramReq[r1] EXCEPT !.at = "insert"]]
      BY <1>2 DEF Diagram!Delete, Diagram!Go
    <2>q. PICK q : q = [diagramReq[r1] EXCEPT !.at = "insert"]
      OBVIOUS
    <2>2. q \in DiagramReqs /\ q.at = "insert" /\ q.ver = diagramReq[r1].ver
      BY <2>q, <1>t DEF DiagramReqs
    <2>3. DiagramTodo(q)'
      BY <2>1, <2>2, <1>t DEF DiagramTodo
    <2>4. FlowInv'
      BY <2>1, <1>t, FlowEmpties
    <2> QED BY <2>1, <2>q, <2>2, <2>3, <2>4, <1>t, DiagramMoves
  <1>3. CASE Diagram!Insert(r1)
    <2>b. PICK base : base = {<<"base", made + 1>>}
      OBVIOUS
    <2>r. PICK fr : fr = [blocks |-> base, sig |-> 0, ver |-> diagramReq[r1].ver]
      OBVIOUS
    <2>1. /\ diagramReq[r1].at = "insert" /\ made' = made + 1 /\ fs' = Diagram!WithRow(made + 1, fr)
          /\ UNCHANGED <<equip, src, saved>>
          /\ diagramReq' = [diagramReq EXCEPT ![r1] =
               IF diagramReq[r1].kind = "generate" THEN Diagram!Idle
               ELSE [diagramReq[r1] EXCEPT !.at = "enrich", !.id = made + 1, !.blocks = base]]
      BY <1>3, <2>b, <2>r DEF Diagram!Insert, Diagram!Go
    <2>2. base \in SUBSET Blocks /\ diagramReq[r1].ver = src.ver /\ fs = <<>>
      BY <2>1, <2>b, <1>t DEF Blocks, DiagramTodo
    <2>3. fr \in FlowRow /\ fr.sig = 0 /\ fr.ver = src.ver
      BY <2>2, <2>r, <1>t DEF FlowRow
    <2>4. FlowInv' /\ DOMAIN fs' = {made + 1} /\ fs'[made + 1] = fr /\ \A s \in saved' : s[1] # made + 1
      BY <2>1, <2>2, <2>3, <1>t, FlowInserts
    <2>q. PICK q : q = IF diagramReq[r1].kind = "generate" THEN Diagram!Idle
                       ELSE [diagramReq[r1] EXCEPT !.at = "enrich", !.id = made + 1, !.blocks = base]
      OBVIOUS
    <2>5. CASE diagramReq[r1].kind = "generate"
      <3>1. q \in DiagramReqs /\ q.at = "idle"
        BY <2>5, <2>q, DiagramIdle
      <3>2. DiagramTodo(q)'
        BY <3>1 DEF DiagramTodo
      <3> QED BY <2>1, <2>4, <2>q, <3>1, <3>2, <1>t, DiagramMoves
    <2>6. CASE diagramReq[r1].kind # "generate"
      <3>0. q = [diagramReq[r1] EXCEPT !.at = "enrich", !.id = made + 1, !.blocks = base] /\ made + 1 \in Nat
        BY <2>6, <2>q, <1>t
      <3>1. q \in DiagramReqs /\ q.at = "enrich" /\ q.id = made + 1 /\ q.ver = src.ver
        BY <2>2, <3>0, <1>t DEF DiagramReqs
      <3>2. DiagramTodo(q)'
        BY <2>1, <2>3, <2>4, <3>1 DEF DiagramTodo
      <3> QED BY <2>1, <2>4, <2>q, <3>1, <3>2, <1>t, DiagramMoves
    <2> QED BY <2>5, <2>6
  <1>4. CASE Diagram!Enrich(r1)
    <2>1. /\ diagramReq[r1].at = "enrich" /\ UNCHANGED <<fs, made, equip, src, saved>>
          /\ diagramReq' = [diagramReq EXCEPT ![r1] = [diagramReq[r1] EXCEPT !.at = "update", !.sig = src.count]]
      BY <1>4 DEF Diagram!Enrich, Diagram!Go, Diagram!Signature
    <2>q. PICK q : q = [diagramReq[r1] EXCEPT !.at = "update", !.sig = src.count]
      OBVIOUS
    <2>2. q \in DiagramReqs /\ q.at = "update" /\ q.ver = diagramReq[r1].ver /\ q.id = diagramReq[r1].id /\ q.sig = src.ver
      BY <2>q, <1>t DEF DiagramReqs
    <2>3. DiagramTodo(q)'
      BY <2>1, <2>2, <1>t DEF DiagramTodo
    <2> QED BY <2>1, <2>q, <2>2, <2>3, <1>k, <1>t, DiagramMoves
  <1>5. CASE Diagram!Update(r1)
    <2>i. PICK i : i = diagramReq[r1].id
      OBVIOUS
    <2>1. /\ diagramReq[r1].at = "update" /\ UNCHANGED <<made, equip, src, saved>>
          /\ diagramReq' = [diagramReq EXCEPT ![r1] = Diagram!Idle]
          /\ i \in DOMAIN fs => fs' = [fs EXCEPT ![i].blocks = diagramReq[r1].blocks, ![i].sig = diagramReq[r1].sig]
      BY <1>5, <2>i DEF Diagram!Update, Diagram!Go
    <2>2. /\ i \in DOMAIN fs /\ fs[i].ver = src.ver /\ diagramReq[r1].sig = src.ver
          /\ \A s \in saved : s[1] # i
      BY <2>1, <2>i, <1>t DEF DiagramTodo
    <2>r. PICK fr : fr = [fs[i] EXCEPT !.blocks = diagramReq[r1].blocks, !.sig = diagramReq[r1].sig]
      OBVIOUS
    <2>f. fs \in [DOMAIN fs -> FlowRow] /\ fs[i] \in FlowRow /\ diagramReq[r1].blocks \in SUBSET Blocks
      BY <2>2, <1>t DEF FlowInv, DiagramReqs
    <2>3. fr \in FlowRow /\ fr.sig = src.ver /\ fr.ver = src.ver
      BY <2>2, <2>r, <2>f, <1>t DEF FlowRow
    <2>4. fs' = [fs EXCEPT ![i] = fr]
      BY <2>1, <2>2, <2>r, <2>f
    <2>5. FlowInv'
      BY <2>1, <2>2, <2>3, <2>4, <1>t, FlowWrites DEF FlowInv
    <2>6. DiagramTodo(Diagram!Idle)'
      BY DiagramIdle DEF DiagramTodo
    <2>7. PICK q : q = Diagram!Idle
      OBVIOUS
    <2>8. DiagramTodo(q)'
      BY <2>7, DiagramIdle DEF DiagramTodo
    <2> QED BY <2>1, <2>5, <2>7, <2>8, <1>t, DiagramIdle, DiagramMoves
  <1> QED BY <1>1, <1>2, <1>3, <1>4, <1>5

(* A client's edit: what it opened, and one block more.                     *)
LEMMA DiagramEdits ==
  ASSUME DiagramInv, Diagram!Read(r1) \/ Diagram!Save(r1)
  PROVE  DiagramInv'
  <1>t. /\ diagramReq \in [{r1} -> DiagramReqs] /\ diagramReq[r1] \in DiagramReqs /\ FlowInv /\ equip \subseteq Ops \X {r1}
        /\ DiagramTodo(diagramReq[r1]) /\ made \in Nat /\ fs \in [DOMAIN fs -> FlowRow] /\ DOMAIN fs \subseteq 1 .. made
    BY DEF DiagramInv, FlowInv
  <1>1. CASE Diagram!Read(r1)
    <2>i. PICK i : i = Diagram!Newest
      OBVIOUS
    <2>1. /\ fs # <<>> /\ UNCHANGED <<fs, made, equip, src, saved>>
          /\ diagramReq' = [diagramReq EXCEPT ![r1] =
               [[Diagram!Idle EXCEPT !.at = "save", !.id = i, !.blocks = fs[i].blocks] EXCEPT !.kind = "edit"]]
      BY <1>1, <2>i DEF Diagram!Read, Diagram!Start
    <2>2. i \in DOMAIN fs /\ i \in Nat
      BY <2>1, <2>i, <1>t, NewestRow
    <2>3. fs[i].blocks \in SUBSET Blocks
      BY <2>2, <1>t DEF FlowRow
    <2>q. PICK q : q = [[Diagram!Idle EXCEPT !.at = "save", !.id = i, !.blocks = fs[i].blocks] EXCEPT !.kind = "edit"]
      OBVIOUS
    <2>4. q \in DiagramReqs /\ q.at = "save" /\ q.id = i /\ q.blocks = fs[i].blocks
      BY <2>2, <2>3, <2>q, DiagramIdle DEF DiagramReqs
    <2>5. DiagramTodo(q)'
      BY <2>1, <2>2, <2>4 DEF DiagramTodo
    <2>6. FlowInv'
      BY <2>1, <1>t DEF FlowInv, Diagram!EditKept
    <2> QED BY <2>1, <2>q, <2>4, <2>5, <2>6, <1>t, DiagramMoves
  <1>2. CASE Diagram!Save(r1)
    <2>i. PICK i : i = diagramReq[r1].id
      OBVIOUS
    <2>e. PICK edit : edit = <<"user", Diagram!Cardinality(saved) + 1>>
      OBVIOUS
    <2>1. /\ diagramReq[r1].at = "save" /\ UNCHANGED <<made, equip, src>>
          /\ diagramReq' = [diagramReq EXCEPT ![r1] = Diagram!Idle]
          /\ i \in DOMAIN fs => /\ fs' = [fs EXCEPT ![i].blocks = diagramReq[r1].blocks \cup {edit}]
                                /\ saved' = saved \cup {<<i, edit>>}
      BY <1>2, <2>i, <2>e DEF Diagram!Save, Diagram!Go
    <2>2. i \in DOMAIN fs /\ diagramReq[r1].blocks = fs[i].blocks
      BY <2>1, <2>i, <1>t DEF DiagramTodo
    <2>s. saved \subseteq (1 .. made) \X Blocks /\ IsFiniteSet(saved)
      BY <1>t DEF FlowInv
    <2>c. Diagram!Cardinality(saved) = Cardinality(saved)
      BY DEF Diagram!Cardinality, Cardinality
    <2>n. Cardinality(saved) \in Nat
      BY <2>s, FS_CardinalityType
    <2>3. edit \in Blocks
      <3>1. edit \in {"base", "user"} \X Nat
        BY <2>e, <2>c, <2>n
      <3> QED BY <3>1 DEF Blocks
    <2>4. saved' = saved \cup {<<i, edit>>} /\ <<i, edit>> \in (1 .. made) \X Blocks
      BY <2>1, <2>2, <2>3, <1>t
    <2>5. IsFiniteSet(saved') /\ saved' \subseteq (1 .. made) \X Blocks
      BY <2>4, <2>s, FS_AddElement
    <2>f. fs[i] \in FlowRow /\ fs[i].blocks \in SUBSET Blocks
      BY <2>2, <1>t DEF FlowRow
    <2>r. PICK fr : fr = [fs[i] EXCEPT !.blocks = fs[i].blocks \cup {edit}]
      OBVIOUS
    <2>6. fr \in FlowRow /\ fr.sig = fs[i].sig /\ fr.ver = fs[i].ver /\ fr.blocks = fs[i].blocks \cup {edit}
      BY <2>3, <2>f, <2>r DEF FlowRow
    <2>7. fs' = [fs EXCEPT ![i] = fr]
      BY <2>1, <2>2, <2>r, <1>t
    <2>8. \A s \in saved' : s[1] = i => s[2] \in fr.blocks
      <3> TAKE s \in saved'
      <3> HAVE s[1] = i
      <3>1. CASE s \in saved
        BY <3>1, <2>2, <2>6, <1>t DEF FlowInv, Diagram!EditKept
      <3>2. CASE s = <<i, edit>>
        BY <3>2, <2>6
      <3> QED BY <3>1, <3>2, <2>4
    <2>9. fr.sig # 0 => fr.sig = fr.ver
      BY <2>2, <2>6, <1>t DEF FlowInv
    <2>10. FlowInv'
      BY <2>1, <2>2, <2>5, <2>6, <2>7, <2>8, <2>9, <1>t, FlowWrites
    <2>q. PICK q : q = Diagram!Idle
      OBVIOUS
    <2>11. DiagramTodo(q)'
      BY <2>q, DiagramIdle DEF DiagramTodo
    <2> QED BY <2>1, <2>10, <2>q, <2>11, <1>t, DiagramIdle, DiagramMoves
  <1> QED BY <1>1, <1>2

(* The circuit is propagated: what is missing is added.                      *)
LEMMA DiagramPropagates ==
  ASSUME DiagramInv, Diagram!ReadDiagram(r1) \/ Diagram!ReadEquipment(r1) \/ Diagram!Write(r1)
  PROVE  DiagramInv'
  <1>t. /\ diagramReq \in [{r1} -> DiagramReqs] /\ diagramReq[r1] \in DiagramReqs /\ FlowInv /\ equip \subseteq Ops \X {r1}
        /\ DiagramTodo(diagramReq[r1]) /\ made \in Nat /\ fs \in [DOMAIN fs -> FlowRow] /\ DOMAIN fs \subseteq 1 .. made
        /\ src.ver \in Nat /\ IsFiniteSet(saved) /\ saved \subseteq (1 .. made) \X Blocks
    BY DEF DiagramInv, FlowInv
  <1>k. fs' = fs /\ UNCHANGED <<made, saved>> => FlowInv'
    BY <1>t DEF FlowInv, Diagram!EditKept
  <1>1. CASE Diagram!ReadDiagram(r1)
    <2>i. PICK i, blocks : i = (IF fs = <<>> THEN 0 ELSE Diagram!Newest) /\ blocks = (IF fs = <<>> THEN {} ELSE fs[Diagram!Newest].blocks)
      OBVIOUS
    <2>1. /\ UNCHANGED <<fs, made, equip, src, saved>>
          /\ diagramReq' = [diagramReq EXCEPT ![r1] =
               [[Diagram!Idle EXCEPT !.at = "equipment", !.id = i, !.blocks = blocks] EXCEPT !.kind = "propagate"]]
      BY <1>1, <2>i DEF Diagram!ReadDiagram, Diagram!Start
    <2>2. /\ i \in Nat /\ blocks \in SUBSET Blocks
          /\ IF i = 0 THEN fs = <<>> ELSE i \in DOMAIN fs /\ blocks = fs[i].blocks
      <3>1. CASE fs = <<>>
        BY <3>1, <2>i
      <3>2. CASE fs # <<>>
        <4>1. i \in DOMAIN fs /\ blocks = fs[i].blocks /\ i \in 1 .. made
          BY <3>2, <2>i, <1>t, NewestRow
        <4> QED BY <4>1, <1>t DEF FlowRow
      <3> QED BY <3>1, <3>2
    <2>q. PICK q : q = [[Diagram!Idle EXCEPT !.at = "equipment", !.id = i, !.blocks = blocks] EXCEPT !.kind = "propagate"]
      OBVIOUS
    <2>4. q \in DiagramReqs /\ q.at = "equipment" /\ q.id = i /\ q.blocks = blocks
      BY <2>2, <2>q, DiagramIdle DEF DiagramReqs
    <2>5. DiagramTodo(q)'
      BY <2>1, <2>2, <2>4 DEF DiagramTodo
    <2> QED BY <2>1, <2>q, <2>4, <2>5, <1>k, <1>t, DiagramMoves
  <1>2. CASE Diagram!ReadEquipment(r1)
    <2>1. /\ diagramReq[r1].at = "equipment" /\ UNCHANGED <<fs, made, equip, src, saved>>
          /\ diagramReq' = [diagramReq EXCEPT ![r1] = [diagramReq[r1] EXCEPT !.at = "write", !.tags = Diagram!Labels(equip)]]
      BY <1>2 DEF Diagram!ReadEquipment, Diagram!Go
    <2>l. Diagram!Labels(equip) \in SUBSET Ops
      BY <1>t DEF Diagram!Labels
    <2>q. PICK q : q = [diagramReq[r1] EXCEPT !.at = "write", !.tags = Diagram!Labels(equip)]
      OBVIOUS
    <2>2. q \in DiagramReqs /\ q.at = "write" /\ q.id = diagramReq[r1].id /\ q.blocks = diagramReq[r1].blocks
      BY <2>l, <2>q, <1>t DEF DiagramReqs
    <2>3. DiagramTodo(q)'
      BY <2>1, <2>2, <1>t DEF DiagramTodo
    <2> QED BY <2>1, <2>q, <2>2, <2>3, <1>k, <1>t, DiagramMoves
  <1>3. CASE Diagram!Write(r1)
    <2>i. PICK i, all : i = diagramReq[r1].id /\ all = diagramReq[r1].blocks \cup Diagram!NewBlocks(r1)
      OBVIOUS
    <2>1. /\ diagramReq[r1].at = "write" /\ equip' = equip \cup Diagram!NewItems(r1) /\ UNCHANGED <<src, saved>>
          /\ diagramReq' = [diagramReq EXCEPT ![r1] = Diagram!Idle]
      BY <1>3 DEF Diagram!Write, Diagram!Go
    <2>2. equip' \subseteq Ops \X {r1}
      <3>1. Diagram!NewItems(r1) \subseteq Ops \X {r1}
        BY DEF Diagram!NewItems
      <3> QED BY <2>1, <3>1, <1>t
    <2>3. all \in SUBSET Blocks
      <3>1. Diagram!NewBlocks(r1) \subseteq Ops \X {r1}
        BY DEF Diagram!NewBlocks
      <3>2. diagramReq[r1].blocks \in SUBSET Blocks
        BY <1>t DEF DiagramReqs
      <3> QED BY <2>i, <3>1, <3>2 DEF Blocks
    <2>4. IF i = 0 THEN fs = <<>> ELSE i \in DOMAIN fs /\ diagramReq[r1].blocks = fs[i].blocks
      BY <2>1, <2>i, <1>t DEF DiagramTodo
    <2>5. FlowInv'
      <3>1. CASE UNCHANGED <<fs, made>>
        BY <3>1, <2>1, <1>k
      <3>2. CASE i # 0 /\ UNCHANGED made /\ fs' = [fs EXCEPT ![i].blocks = all]
        <4>f. i \in DOMAIN fs /\ fs[i] \in FlowRow /\ fs[i].blocks \subseteq all
          BY <3>2, <2>4, <2>i, <1>t
        <4>r. PICK fr : fr = [fs[i] EXCEPT !.blocks = all]
          OBVIOUS
        <4>1. fr \in FlowRow /\ fr.sig = fs[i].sig /\ fr.ver = fs[i].ver /\ fr.blocks = all
          BY <4>f, <4>r, <2>3 DEF FlowRow
        <4>2. fs' = [fs EXCEPT ![i] = fr]
          BY <3>2, <4>f, <4>r, <1>t
        <4>3. \A s \in saved' : s[1] = i => s[2] \in fr.blocks
          BY <2>1, <4>1, <4>f, <1>t DEF FlowInv, Diagram!EditKept
        <4>4. fr.sig # 0 => fr.sig = fr.ver
          BY <4>1, <4>f, <1>t DEF FlowInv
        <4> QED BY <3>2, <4>f, <4>1, <4>2, <4>3, <4>4, <2>1, <1>t, FlowWrites
      <3>3. CASE i = 0 /\ made' = made + 1 /\ fs' = Diagram!WithRow(made + 1, [blocks |-> all, sig |-> 0, ver |-> src.ver])
        <4>r. PICK fr : fr = [blocks |-> all, sig |-> 0, ver |-> src.ver]
          OBVIOUS
        <4>1. fr \in FlowRow /\ fr.sig = 0
          BY <4>r, <2>3, <1>t DEF FlowRow
        <4> QED BY <3>3, <4>r, <4>1, <2>1, <2>4, <1>t, FlowInserts
      <3> QED BY <1>3, <2>i, <2>4, <3>1, <3>2, <3>3 DEF Diagram!Write
    <2>q. PICK q : q = Diagram!Idle
      OBVIOUS
    <2>6. DiagramTodo(q)'
      BY <2>q, DiagramIdle DEF DiagramTodo
    <2> QED BY <2>1, <2>2, <2>5, <2>q, <2>6, DiagramIdle, DiagramMoves
  <1> QED BY <1>1, <1>2, <1>3

(* The data change while nobody is generating.                              *)
LEMMA DiagramContinues ==
  ASSUME DiagramInv, Diagram!Next
  PROVE  DiagramInv'
  <1>t. /\ diagramReq \in [{r1} -> DiagramReqs] /\ FlowInv /\ src \in [ver : Nat, count : Nat] /\ src.count = src.ver
    BY DEF DiagramInv
  <1>1. CASE Diagram!Change
    <2>1. /\ diagramReq[r1] = Diagram!Idle /\ src' = [ver |-> src.ver + 1, count |-> src.count + 1]
          /\ UNCHANGED <<fs, made, equip, saved, diagramReq>>
      BY <1>1 DEF Diagram!Change
    <2>2. src' \in [ver : Nat, count : Nat] /\ src'.count = src'.ver
      BY <2>1, <1>t
    <2>3. diagramReq'[r1].at = "idle"
      BY <2>1, DiagramIdle
    <2>4. DiagramTodo(diagramReq[r1])'
      BY <2>3 DEF DiagramTodo
    <2>5. FlowInv'
      BY <2>1 DEF FlowInv, Diagram!EditKept, DiagramInv
    <2> QED BY <2>1, <2>2, <2>4, <2>5 DEF DiagramInv
  <1>2. CASE Diagram!Purge(r1)
    <2>1. diagramReq[r1] = Diagram!Idle /\ fs' = <<>> /\ UNCHANGED <<made, equip, src, saved, diagramReq>>
      BY <1>2 DEF Diagram!Purge
    <2>2. diagramReq'[r1].at = "idle"
      BY <2>1, DiagramIdle
    <2>3. DiagramTodo(diagramReq[r1])'
      BY <2>2 DEF DiagramTodo
    <2>4. FlowInv'
      BY <2>1, <1>t, FlowEmpties
    <2> QED BY <2>1, <2>3, <2>4 DEF DiagramInv
  <1>3. \/ Diagram!Change \/ Diagram!Purge(r1)
        \/ Diagram!Generate(r1) \/ Diagram!Delete(r1) \/ Diagram!Insert(r1) \/ Diagram!Enrich(r1) \/ Diagram!Update(r1)
        \/ Diagram!Read(r1) \/ Diagram!Save(r1)
        \/ Diagram!ReadDiagram(r1) \/ Diagram!ReadEquipment(r1) \/ Diagram!Write(r1)
    BY DEF Diagram!Next
  <1> QED BY <1>1, <1>2, <1>3, DiagramGenerates, DiagramEdits, DiagramPropagates

(* The drawing begins with nothing in it.                                   *)
LEMMA DiagramBegins ==
  ASSUME Diagram!Init
  PROVE  DiagramInv
  <1>1. fs = <<>> /\ made = 0 /\ equip = {} /\ src = [ver |-> 1, count |-> 1] /\ saved = {}
        /\ diagramReq = [r \in {r1} |-> Diagram!Idle]
    BY DEF Diagram!Init
  <1>2. DOMAIN fs = {} /\ fs \in [DOMAIN fs -> FlowRow]
    BY <1>1, NoFlow
  <1>3. FlowInv
    BY <1>1, <1>2, FS_EmptySet DEF FlowInv, Diagram!EditKept
  <1>4. diagramReq[r1].at = "idle"
    BY <1>1, DiagramIdle
  <1>5. DiagramTodo(diagramReq[r1])
    BY <1>4 DEF DiagramTodo
  <1> QED BY <1>1, <1>3, <1>5, DiagramIdle DEF DiagramInv

(* A drawing so kept is the one that DiagramWhole describes.                *)
LEMMA DiagramHolds ==
  ASSUME DataConstants, DiagramInv
  PROVE  Diagram!OneFlowsheet /\ Diagram!OpsOnce /\ Diagram!EditKept /\ Diagram!StaleTold
  <1>c. \A S : Diagram!Cardinality(S) = Cardinality(S)
    BY DEF Diagram!Cardinality, Cardinality
  <1>1. Diagram!OneFlowsheet
    <2>1. \A i, j \in DOMAIN fs : i = j
      BY DEF DiagramInv, FlowInv
    <2> QED BY <1>c, <2>1, OneAtMost DEF Diagram!OneFlowsheet
  <1>2. Diagram!OpsOnce
    <2> SUFFICES ASSUME NEW o \in Ops
                 PROVE  /\ Diagram!Cardinality({e \in equip : e[1] = o}) <= 1
                        /\ \A i \in DOMAIN fs : Diagram!Cardinality({b \in fs[i].blocks : b[1] = o}) <= 1
      BY DEF Diagram!OpsOnce
    <2>1. \A e, f \in {e \in equip : e[1] = o} : e = f
      BY DEF DiagramInv
    <2>2. ASSUME NEW i \in DOMAIN fs PROVE \A b, c \in {b \in fs[i].blocks : b[1] = o} : b = c
      <3>1. fs[i].blocks \subseteq Blocks
        BY DEF DiagramInv, FlowInv, FlowRow
      <3>2. o # "base" /\ o # "user"
        BY DEF DataConstants, Diagram!DiagramConstants
      <3>3. \A b \in {b \in fs[i].blocks : b[1] = o} : b = <<o, r1>>
        BY <3>1, <3>2 DEF Blocks
      <3> QED BY <3>3
    <2>3. \A i \in DOMAIN fs : Cardinality({b \in fs[i].blocks : b[1] = o}) <= 1
      <3> TAKE i \in DOMAIN fs
      <3> DEFINE S == {b \in fs[i].blocks : b[1] = o}
      <3>1. \A b, c \in S : b = c
        BY <2>2
      <3> HIDE DEF S
      <3> QED BY <3>1, OneAtMost DEF S
    <2>4. Cardinality({e \in equip : e[1] = o}) <= 1
      <3> DEFINE S == {e \in equip : e[1] = o}
      <3>1. \A b, c \in S : b = c
        BY <2>1
      <3> HIDE DEF S
      <3> QED BY <3>1, OneAtMost DEF S
    <2> QED BY <1>c, <2>3, <2>4
  <1>3. Diagram!StaleTold
    <2> SUFFICES ASSUME NEW i \in DOMAIN fs, fs[i].sig # 0, fs[i].ver < src.ver PROVE fs[i].sig # src.count
      BY DEF Diagram!StaleTold, Diagram!Told, Diagram!Signature
    <2>1. fs[i].sig = fs[i].ver /\ fs[i].ver \in Nat /\ src.ver \in Nat /\ src.count = src.ver
      BY DEF DiagramInv, FlowInv, FlowRow
    <2> QED BY <2>1
  <1> QED BY <1>1, <1>2, <1>3 DEF DiagramInv, FlowInv

(* One drawn flowsheet, its operations once, answered edits in it, changes   *)
(* of counts told: DiagramWhole in every behaviour.                         *)
THEOREM AllDiagramWhole == AllSpec => []DiagramWhole
  <1>1. AllInit => DiagramInv
    BY DiagramBegins DEF AllInit
  <1>2. DiagramInv /\ [AllNext]_allVars => DiagramInv'
    <2> SUFFICES ASSUME DiagramInv, [AllNext]_allVars PROVE DiagramInv'
      OBVIOUS
    <2>1. CASE DiagramStep
      BY <2>1, DiagramContinues DEF DiagramStep
    <2>2. CASE UNCHANGED <<fs, made, equip, src, saved, diagramReq>>
      BY <2>2 DEF DiagramInv, FlowInv, Diagram!EditKept, DiagramTodo
    <2>3. DiagramStep \/ UNCHANGED <<fs, made, equip, src, saved, diagramReq>>
      BY DEF allVars, AllNext, Rest, RiskStep, ItemStep, ItemEditStep, BalanceStep, BalanceEditStep, CostStep,
             CostRaceStep, PlanStep, LockStep, CircuitStep, TopologyStep, ValueStep, ValueEditStep
    <2> QED BY <2>1, <2>2, <2>3
  <1>3. DiagramInv => DiagramWhole
    BY DiagramHolds, DataConstants DEF DiagramWhole
  <1> QED BY <1>1, <1>2, <1>3, PTL DEF AllSpec

-----------------------------------------------------------------------------
(* The criteria of a circuit.  As long as no sort order is written, criteria *)
(* of an operation are in the section of its place in the process, and the   *)
(* operations of the template have all of theirs, but for one that a request *)
(* is about to generate.                                                    *)
Names == {"mill", "cyclone", "cil"}
SectionOf(o) == CASE o = "mill" -> 21 [] o = "cyclone" -> 30 [] OTHER -> 83
Whole(o) == \A k \in {1, 2} : crit[<<SectionOf(o), k>>] = [op |-> o, enabled |-> TRUE]
(* Where a request is, by what it still has to do.                          *)
ToDo(stage, o, s) == CASE stage = "idle" -> <<>>
                       [] stage = "add" -> <<Circuit!Insert(o, s), Circuit!Generate(o, s)>>
                       [] stage = "uncheck" -> <<Circuit!Uncheck(o)>>
                       [] stage = "forget" -> <<Circuit!Forget(o), Circuit!Generate(o, s)>>
                       [] stage = "generate" -> <<Circuit!Generate(o, s)>>
Stages == {"idle", "add", "uncheck", "forget", "generate"}
CircuitTodo(stage, o, s) ==
  /\ \A p \in Circuit!In : Whole(p) \/ (stage = "generate" /\ p = o)
  /\ stage \in {"uncheck", "forget", "generate"} => o \in Circuit!In /\ s = Place(o)
  /\ stage = "add" /\ op[o] = 9999 => s = Place(o)
CriterionRow(names) == [op : names \cup {"none"}, enabled : BOOLEAN]
CircuitTyped == /\ op \in [Names -> Nat] /\ \A o \in Names : op[o] \in {9999, Place(o)}
                /\ crit \in [Circuit!Refs -> CriterionRow(Names)] /\ DOMAIN circuitReq = {r1}
CircuitPlaced == \A f \in Circuit!Refs : crit[f].op = "none" \/ f[1] = SectionOf(crit[f].op)
CircuitEnabled == \A f \in Circuit!Refs : crit[f].enabled => crit[f].op \in Circuit!In
CircuitAt == \E stage \in Stages, o \in Names, s \in 0 .. 1000 : circuitReq[r1] = ToDo(stage, o, s) /\ CircuitTodo(stage, o, s)
(* A step takes the request to one of its stages.                            *)
Reaches(stage, o, s) ==
  /\ stage \in Stages /\ o \in Names /\ s \in 0 .. 1000
  /\ circuitReq' = [circuitReq EXCEPT ![r1] = ToDo(stage, o, s)]
  /\ CircuitTodo(stage, o, s)'
(* A statement that gives an operation an order, or takes it out.           *)
Orders(o, s) == op' = [op EXCEPT ![o] = s]
Leaves(o) == op' = [op EXCEPT ![o] = 9999]
CircuitInv == CircuitTyped /\ CircuitPlaced /\ CircuitEnabled /\ CircuitAt

(* Where orders are written and circuits replaced, criteria that are enabled *)
(* are of one section: those of another are disabled or deleted before.      *)
Both == {"mill", "cyclone"}
NoneOf(o) == \A f \in Topologies!Refs : crit[f].enabled => crit[f].op # o
NoRows == \A f \in Topologies!Refs : ~crit[f].enabled
(* Where a request is, by what it still has to do.                          *)
Still(stage, o, p, s) ==
  CASE stage = "idle" -> <<>>
    [] stage = "add" -> <<Topologies!Insert(o, s), Topologies!Generate(o, s)>>
    [] stage = "uncheck" -> <<Topologies!Uncheck(o)>>
    [] stage = "generate" -> <<Topologies!Generate(o, s)>>
    [] stage = "wipe" -> <<Topologies!Wipe, Topologies!Drop, Topologies!Insert(o, 0), Topologies!Insert(p, 10),
                           Topologies!Generate(o, 10), Topologies!Generate(p, 20)>>
    [] stage = "drop" -> <<Topologies!Drop, Topologies!Insert(o, 0), Topologies!Insert(p, 10),
                           Topologies!Generate(o, 10), Topologies!Generate(p, 20)>>
    [] stage = "first" -> <<Topologies!Insert(o, 0), Topologies!Insert(p, 10),
                            Topologies!Generate(o, 10), Topologies!Generate(p, 20)>>
    [] stage = "second" -> <<Topologies!Insert(p, 10), Topologies!Generate(o, 10), Topologies!Generate(p, 20)>>
    [] stage = "both" -> <<Topologies!Generate(o, 10), Topologies!Generate(p, 20)>>
(* A statement that puts an operation in.                                    *)
PutsIn(n, t) == n \in Both /\ n \notin Topologies!In /\ t \in 0 .. 1000 /\ Orders(n, t)
(* A statement that takes all operations out.                                *)
Empties == op' = [o \in Both |-> 9999]
Replacing == {"wipe", "drop", "first", "second", "both"}
TopologyStages == {"idle", "add", "uncheck", "generate"} \cup Replacing
TopologyTodo(stage, o, p, s) ==
  /\ stage = "generate" => o \in Topologies!In /\ NoneOf(o)
  /\ stage \in Replacing => o # p
  /\ stage \in Replacing \ {"wipe"} => NoRows
  /\ stage \in {"first"} => o \notin Topologies!In
  /\ stage \in {"second", "both"} => o \in Topologies!In
  /\ stage \in {"first", "second"} => p \notin Topologies!In
  /\ stage = "both" => p \in Topologies!In
OneRequest == circuitReq = [r \in {r1} |-> circuitReq[r1]]
TopologyOps == op \in [Both -> Nat] /\ OneRequest
(* A step takes the request to one of its stages.                            *)
ComesTo(stage, o, p, s) ==
  /\ stage \in TopologyStages /\ o \in Both /\ p \in Both /\ s \in 0 .. 1000
  /\ circuitReq' = [circuitReq EXCEPT ![r1] = Still(stage, o, p, s)]
  /\ TopologyTodo(stage, o, p, s)'
TopologyRows ==
  /\ crit \in [Topologies!Refs -> CriterionRow(Both)]
  /\ \A f \in Topologies!Refs : crit[f].enabled => crit[f].op \in Topologies!In
  /\ \A f, g \in Topologies!Refs : crit[f].enabled /\ crit[g].enabled /\ crit[f].op = crit[g].op => f[1] = g[1]
TopologyAt == \E stage \in TopologyStages, o \in Both, p \in Both, s \in 0 .. 1000 :
                circuitReq[r1] = Still(stage, o, p, s) /\ TopologyTodo(stage, o, p, s)
TopologyInv == TopologyOps /\ TopologyRows /\ TopologyAt

(* The places and sections of the operations.                               *)
LEMMA PlaceOf ==
  ASSUME NEW o \in Names
  PROVE  /\ Place(o) \in {210, 300, 830} /\ SectionOf(o) \in {21, 30, 83} /\ o # "none" /\ o # "all"
         /\ Circuit!Section(Place(o)) = SectionOf(o)
         /\ Place(o) \in Nat /\ Place(o) # 9999 /\ Place(o) \in 0 .. 1000
  <1>1. Place(o) \in {210, 300, 830} /\ SectionOf(o) \in {21, 30, 83} /\ o # "none" /\ o # "all"
    BY DEF Names, Place, SectionOf
  <1>2. Circuit!Section(210) = 21 /\ Circuit!Section(300) = 30 /\ Circuit!Section(830) = 83
    BY DEF Circuit!Section
  <1>3. o = "mill" \/ o = "cyclone" \/ o = "cil"
    BY DEF Names
  <1>4. o = "mill" => Place(o) = 210 /\ SectionOf(o) = 21
    BY DEF Place, SectionOf
  <1>5. o = "cyclone" => Place(o) = 300 /\ SectionOf(o) = 30
    BY DEF Place, SectionOf
  <1>6. o = "cil" => Place(o) = 830 /\ SectionOf(o) = 83
    BY DEF Place, SectionOf
  <1>7. Circuit!Section(Place(o)) = SectionOf(o)
    BY <1>2, <1>3, <1>4, <1>5, <1>6
  <1> QED BY <1>1, <1>7

(* No two operations are of one section, or of one decade.                  *)
LEMMA SectionsDiffer ==
  ASSUME NEW o \in Names, NEW p \in Names
  PROVE  /\ SectionOf(o) = SectionOf(p) => o = p
         /\ Place(p) >= Place(o) /\ Place(p) < Place(o) + 10 => p = o
  <1>1. SectionOf(o) = SectionOf(p) => o = p
    BY DEF Names, SectionOf
  <1>2. Place(p) >= Place(o) /\ Place(p) < Place(o) + 10 => p = o
    BY DEF Names, Place
  <1> QED BY <1>1, <1>2

(* The references of an operation are there.                                *)
LEMMA RefOf ==
  ASSUME NEW o \in Names, NEW k \in {1, 2}
  PROVE  <<SectionOf(o), k>> \in Circuit!Refs
  <1>1. Circuit!Section([n \in Names |-> Place(n)][o]) = SectionOf(o)
    BY PlaceOf
  <1>2. SectionOf(o) \in Circuit!Sections
    BY <1>1 DEF Circuit!Sections, Names
  <1>3. Circuit!Refs = Circuit!Sections \X {1, 2}
    BY DEF Circuit!Refs, Circuit!Suffixes
  <1> QED BY <1>2, <1>3

(* A reference is its section and its suffix.                               *)
LEMMA RefIs ==
  ASSUME NEW f \in Circuit!Refs
  PROVE  f[2] \in {1, 2} /\ f = <<f[1], f[2]>>
  BY DEF Circuit!Refs, Circuit!Suffixes

(* What a request that is under way has to do, and then.                    *)
LEMMA ToDoGoesOn ==
  ASSUME NEW stage \in Stages, NEW o, NEW s, NEW list, list = ToDo(stage, o, s)
  PROVE  /\ list = <<>> <=> stage = "idle"
         /\ stage = "add" => Head(list) = Circuit!Insert(o, s) /\ Tail(list) = ToDo("generate", o, s)
         /\ stage = "forget" => Head(list) = Circuit!Forget(o) /\ Tail(list) = ToDo("generate", o, s)
         /\ stage = "uncheck" => Head(list) = Circuit!Uncheck(o) /\ Tail(list) = ToDo("idle", o, s)
         /\ stage = "generate" => Head(list) = Circuit!Generate(o, s) /\ Tail(list) = ToDo("idle", o, s)
         /\ Len(list) <= 6
  <1>p. PICK i, u, g, w : i = Circuit!Insert(o, s) /\ u = Circuit!Uncheck(o) /\ g = Circuit!Generate(o, s) /\ w = Circuit!Forget(o)
    OBVIOUS
  <1>1. /\ ToDo("idle", o, s) = <<>> /\ ToDo("generate", o, s) = <<g>> /\ ToDo("uncheck", o, s) = <<u>>
        /\ ToDo("add", o, s) = <<i, g>> /\ ToDo("forget", o, s) = <<w, g>>
    BY <1>p DEF ToDo
  <1>2. \A x : Head(<<x>>) = x /\ Tail(<<x>>) = <<>> /\ <<x>> # <<>> /\ Len(<<x>>) <= 6
    OBVIOUS
  <1>3. \A x, y : Head(<<x, y>>) = x /\ Tail(<<x, y>>) = <<y>> /\ <<x, y>> # <<>> /\ Len(<<x, y>>) <= 6
    OBVIOUS
  <1>4. CASE stage = "idle"
    BY <1>1, <1>4
  <1>5. CASE stage = "add"
    <2>1. list = <<i, g>>
      BY <1>1, <1>5
    <2>2. list # <<>> /\ Head(list) = i /\ Tail(list) = <<g>> /\ Len(list) <= 6
      BY <1>3, <2>1
    <2> QED BY <1>1, <1>5, <1>p, <2>2, Zenon
  <1>6. CASE stage = "forget"
    <2>1. list = <<w, g>>
      BY <1>1, <1>6
    <2>2. list # <<>> /\ Head(list) = w /\ Tail(list) = <<g>> /\ Len(list) <= 6
      BY <1>3, <2>1
    <2> QED BY <1>1, <1>6, <1>p, <2>2, Zenon
  <1>7. CASE stage = "uncheck"
    <2>1. list = <<u>>
      BY <1>1, <1>7
    <2>2. list # <<>> /\ Head(list) = u /\ Tail(list) = <<>> /\ Len(list) <= 6
      BY <1>2, <2>1
    <2> QED BY <1>1, <1>7, <1>p, <2>2, Zenon
  <1>8. CASE stage = "generate"
    <2>1. list = <<g>>
      BY <1>1, <1>8
    <2>2. list # <<>> /\ Head(list) = g /\ Tail(list) = <<>> /\ Len(list) <= 6
      BY <1>2, <2>1
    <2> QED BY <1>1, <1>8, <1>p, <2>2, Zenon
  <1> QED BY <1>4, <1>5, <1>6, <1>7, <1>8, Zenon DEF Stages

(* The greatest of some numbers is one of them.                             *)
LEMMA GreatestIsThere ==
  ASSUME NEW T, \E s \in T : \A t \in T : t <= s
  PROVE  (CHOOSE s \in T : \A t \in T : t <= s) \in T
  <1>p. PICK m : m = CHOOSE s \in T : \A t \in T : t <= s
    OBVIOUS
  <1>1. m \in T /\ \A t \in T : t <= m
    BY <1>p, Zenon
  <1> QED BY <1>p, <1>1

(* An operation that is not there has its own place free.                   *)
LEMMA FreePlace ==
  ASSUME op \in [Names -> Nat], \A p \in Names : op[p] \in {9999, Place(p)}, NEW o \in Names
  PROVE  Circuit!Place(o) \in 0 .. 1000 /\ (op[o] = 9999 => Circuit!Place(o) = Place(o))
  <1> DEFINE taken == {op[p] : p \in {p \in Circuit!In : op[p] >= Place(o) /\ op[p] < Place(o) + 10}}
  <1>p. PICK place : place = Place(o)
    OBVIOUS
  <1>0. place \in {210, 300, 830} /\ [n \in Names |-> Place(n)][o] = place
    BY PlaceOf, <1>p
  <1>1. Circuit!Place(o) = IF taken = {} THEN Place(o) ELSE 1 + CHOOSE s \in taken : \A t \in taken : t <= s
    BY <1>0, <1>p DEF Circuit!Place, Names
  <1>2. \A p \in Circuit!In : p \in Names /\ op[p] = Place(p)
    BY DEF Circuit!In, Circuit!Out, Names
  <1>4. \A s \in taken : s = place /\ op[o] = place
    <2> SUFFICES ASSUME NEW p \in Circuit!In, op[p] >= Place(o), op[p] < Place(o) + 10 PROVE op[p] = place /\ op[o] = place
      OBVIOUS
    <2>1. p \in Names /\ op[p] = Place(p)
      BY <1>2
    <2>2. p = o
      BY <2>1, SectionsDiffer
    <2> QED BY <2>1, <2>2, <1>p
  <1> HIDE DEF taken
  <1>5. CASE taken = {}
    BY <1>0, <1>1, <1>5, <1>p
  <1>6. CASE taken # {}
    <2>1. taken = {place} /\ op[o] = place
      BY <1>4, <1>6
    <2>q. PICK m : m = CHOOSE s \in taken : \A t \in taken : t <= s
      OBVIOUS
    <2>2. \E s \in taken : \A t \in taken : t <= s
      BY <2>1, <1>0
    <2>3. m \in taken
      BY <2>2, <2>q, GreatestIsThere
    <2>4. Circuit!Place(o) = 1 + place
      BY <1>1, <1>6, <2>1, <2>3, <2>q
    <2> QED BY <2>1, <2>4, <1>0
  <1> QED BY <1>5, <1>6

(* Where a step takes the request ...                                       *)
LEMMA CircuitMoves ==
  ASSUME CircuitTyped, NEW stage, NEW o, NEW s, Reaches(stage, o, s)
  PROVE  CircuitAt' /\ DOMAIN circuitReq' = {r1}
  <1>q. PICK q : q = ToDo(stage, o, s)
    OBVIOUS
  <1>0. /\ stage \in Stages /\ o \in Names /\ s \in 0 .. 1000
        /\ circuitReq' = [circuitReq EXCEPT ![r1] = ToDo(stage, o, s)]
        /\ CircuitTodo(stage, o, s)'
    BY DEF Reaches
  <1>a. circuitReq' = [circuitReq EXCEPT ![r1] = q]
    BY <1>0, <1>q
  <1>1. DOMAIN circuitReq' = {r1} /\ circuitReq'[r1] = q
    BY <1>a DEF CircuitTyped
  <1>2. circuitReq'[r1] = ToDo(stage, o, s) /\ CircuitTodo(stage, o, s)'
    BY <1>0, <1>q, <1>1
  <1>3. (\E st \in Stages, n \in Names, t \in 0 .. 1000 : circuitReq[r1] = ToDo(st, n, t) /\ CircuitTodo(st, n, t))'
    BY <1>0, <1>2, ZenonT(60)
  <1>4. CircuitAt'
    BY <1>3 DEF CircuitAt, Names, Stages
  <1> QED BY <1>1, <1>4

(* ... and what it may do to the criteria and the operations.                *)
LEMMA CircuitWrites ==
  ASSUME CircuitAt', DOMAIN circuitReq' = {r1}, op' \in [Names -> Nat], \A p \in Names : op'[p] \in {9999, Place(p)},
         crit' \in [Circuit!Refs -> CriterionRow(Names)],
         \A f \in Circuit!Refs : crit'[f].op = "none" \/ f[1] = SectionOf(crit'[f].op),
         \A f \in Circuit!Refs : crit'[f].enabled => crit'[f].op \in Circuit!In'
  PROVE  CircuitInv'
  <1>3. Circuit!Refs' = Circuit!Refs
    BY DEF Circuit!Refs, Circuit!Sections
  <1>5. CircuitTyped'
    BY <1>3 DEF CircuitTyped
  <1>6. CircuitPlaced'
    BY <1>3 DEF CircuitPlaced
  <1>7. CircuitEnabled'
    BY <1>3 DEF CircuitEnabled
  <1> QED BY <1>5, <1>6, <1>7 DEF CircuitInv

(* One statement of what the request has to do.                             *)
LEMMA CircuitStatement ==
  ASSUME Circuit!Step(r1), NEW s, Head(circuitReq[r1]) = s, NEW rest, Tail(circuitReq[r1]) = rest
  PROVE  /\ s.do = "insert" /\ op[s.op] # 9999 => op' = op /\ crit' = crit /\ circuitReq' = [circuitReq EXCEPT ![r1] = <<>>]
         /\ s.do = "insert" /\ op[s.op] = 9999 =>
              op' = [op EXCEPT ![s.op] = s.sort] /\ crit' = crit /\ circuitReq' = [circuitReq EXCEPT ![r1] = rest]
         /\ s.do # "insert" => circuitReq' = [circuitReq EXCEPT ![r1] = rest]
         /\ s.do = "generate" => op' = op /\ crit' = Circuit!Generated(s.op, s.sort)
         /\ s.do = "uncheck" => op' = [op EXCEPT ![s.op] = 9999] /\ crit' = Circuit!Disabled(s.op)
         /\ s.do = "forget" => op' = op /\ crit' = [f \in Circuit!Refs |-> IF crit[f].op = s.op THEN Circuit!NoRow ELSE crit[f]]
  <1>1. Circuit!Do(s) /\ circuitReq' = [circuitReq EXCEPT ![r1] = IF Circuit!Fails(s) THEN <<>> ELSE rest]
    BY DEF Circuit!Step
  <1>2. Circuit!Fails(s) <=> s.do = "insert" /\ op[s.op] # 9999
    BY DEF Circuit!Fails, Circuit!Out
  <1>3. s.do = "insert" => op' = (IF Circuit!Fails(s) THEN op ELSE [op EXCEPT ![s.op] = s.sort]) /\ crit' = crit
    BY <1>1 DEF Circuit!Do
  <1>4. s.do = "generate" => op' = op /\ crit' = Circuit!Generated(s.op, s.sort)
    BY <1>1 DEF Circuit!Do
  <1>5. s.do = "uncheck" => op' = [op EXCEPT ![s.op] = 9999] /\ crit' = Circuit!Disabled(s.op)
    BY <1>1 DEF Circuit!Do, Circuit!Out
  <1>6. s.do = "forget" => op' = op /\ crit' = [f \in Circuit!Refs |-> IF crit[f].op = s.op THEN Circuit!NoRow ELSE crit[f]]
    BY <1>1 DEF Circuit!Do
  <1>q. PICK q : q = IF Circuit!Fails(s) THEN <<>> ELSE rest
    OBVIOUS
  <1>r. circuitReq' = [circuitReq EXCEPT ![r1] = q]
    BY <1>1, <1>q
  <1>7. ASSUME s.do = "insert", op[s.op] # 9999 PROVE circuitReq' = [circuitReq EXCEPT ![r1] = <<>>]
    <2>1. q = <<>>
      BY <1>q, <1>2, <1>7
    <2> QED BY <1>r, <2>1
  <1>8. ASSUME ~(s.do = "insert" /\ op[s.op] # 9999) PROVE circuitReq' = [circuitReq EXCEPT ![r1] = rest]
    <2>1. q = rest
      BY <1>q, <1>2, <1>8
    <2> QED BY <1>r, <2>1
  <1> QED BY <1>2, <1>3, <1>4, <1>5, <1>6, <1>7, <1>8

(* A request is taken when no other is under way.                           *)
LEMMA CircuitAsks ==
  ASSUME CircuitInv, Circuit!Add(r1) \/ Circuit!Remove(r1) \/ Circuit!Regenerate(r1)
  PROVE  CircuitInv'
  <1>t. UNCHANGED <<op, crit>> /\ circuitReq[r1] = <<>>
    BY DEF Circuit!Add, Circuit!Remove, Circuit!Regenerate, Circuit!Ask, Circuit!May
  <1>i. /\ Circuit!In = {o \in Names : op[o] # 9999} /\ (Circuit!In)' = Circuit!In
        /\ \A p : Whole(p)' <=> Whole(p)
    <2>1. Circuit!In = {o \in Names : op[o] # 9999} /\ (Circuit!In)' = Circuit!In
      BY <1>t DEF Circuit!In, Circuit!Out, Names
    <2>2. \A p : Whole(p)' <=> Whole(p)
      BY <1>t DEF Whole
    <2> QED BY <2>1, <2>2
  <1>w. \A p \in Circuit!In : Whole(p)
    <2>1. PICK stage \in Stages, o \in Names, s \in 0 .. 1000 : circuitReq[r1] = ToDo(stage, o, s) /\ CircuitTodo(stage, o, s)
      BY Zenon DEF CircuitInv, CircuitAt
    <2>2. stage = "idle"
      BY <1>t, <2>1, ToDoGoesOn
    <2> QED BY <2>1, <2>2 DEF CircuitTodo
  <1>f. ASSUME NEW stage, NEW o, NEW s, Reaches(stage, o, s)
        PROVE  CircuitInv'
    <2>1. CircuitAt' /\ DOMAIN circuitReq' = {r1}
      BY <1>f, CircuitMoves DEF CircuitInv
    <2>2. op' \in [Names -> Nat] /\ \A p \in Names : op'[p] \in {9999, Place(p)}
      BY <1>t DEF CircuitInv, CircuitTyped
    <2>3. crit' \in [Circuit!Refs -> CriterionRow(Names)]
      BY <1>t DEF CircuitInv, CircuitTyped
    <2>4. \A f \in Circuit!Refs : crit'[f].op = "none" \/ f[1] = SectionOf(crit'[f].op)
      BY <1>t DEF CircuitInv, CircuitPlaced
    <2>5. \A f \in Circuit!Refs : crit'[f].enabled => crit'[f].op \in (Circuit!In)'
      BY <1>t, <1>i DEF CircuitInv, CircuitEnabled
    <2> QED BY <2>1, <2>2, <2>3, <2>4, <2>5, CircuitWrites
  <1>1. CASE Circuit!Add(r1)
    <2>1. PICK o \in Names : circuitReq' = [circuitReq EXCEPT ![r1] = <<Circuit!Insert(o, Circuit!Place(o)), Circuit!Generate(o, Circuit!Place(o))>>]
      BY <1>1 DEF Circuit!Add, Circuit!Ask, Names
    <2>s. PICK s : s = Circuit!Place(o)
      OBVIOUS
    <2>2. s \in 0 .. 1000 /\ (op[o] = 9999 => s = Place(o))
      <3>1. op \in [Names -> Nat] /\ \A p \in Names : op[p] \in {9999, Place(p)}
        BY DEF CircuitInv, CircuitTyped
      <3> QED BY <2>s, <3>1, FreePlace
    <2>3. CircuitTodo("add", o, s)'
      BY <2>2, <1>t, <1>i, <1>w DEF CircuitTodo
    <2>4. ToDo("add", o, s) = <<Circuit!Insert(o, s), Circuit!Generate(o, s)>>
      BY DEF ToDo
    <2>5. circuitReq' = [circuitReq EXCEPT ![r1] = ToDo("add", o, s)]
      BY <2>1, <2>s, <2>4
    <2>6. "add" \in Stages
      BY DEF Stages
    <2>8. Reaches("add", o, s)
      BY <2>2, <2>3, <2>5, <2>6 DEF Reaches
    <2> QED BY <1>f, <2>8
  <1>2. CASE Circuit!Remove(r1)
    <2>1. PICK o \in Circuit!In : circuitReq' = [circuitReq EXCEPT ![r1] = <<Circuit!Uncheck(o)>>]
      BY <1>2 DEF Circuit!Remove, Circuit!Ask
    <2>2. o \in Names /\ Place(o) \in 0 .. 1000
      BY <1>i, PlaceOf
    <2>3. CircuitTodo("uncheck", o, Place(o))'
      BY <1>i, <1>w DEF CircuitTodo
    <2>4. ToDo("uncheck", o, Place(o)) = <<Circuit!Uncheck(o)>>
      BY DEF ToDo
    <2>5. circuitReq' = [circuitReq EXCEPT ![r1] = ToDo("uncheck", o, Place(o))]
      BY <2>1, <2>4
    <2>6. "uncheck" \in Stages
      BY DEF Stages
    <2>8. Reaches("uncheck", o, Place(o))
      BY <2>2, <2>3, <2>5, <2>6 DEF Reaches
    <2> QED BY <1>f, <2>8
  <1>3. CASE Circuit!Regenerate(r1)
    <2>1. PICK o \in Circuit!In : \E force \in BOOLEAN :
            circuitReq' = [circuitReq EXCEPT ![r1] =
              IF force THEN <<Circuit!Forget(o), Circuit!Generate(o, [n \in Names |-> Place(n)][o])>>
                       ELSE <<Circuit!Generate(o, [n \in Names |-> Place(n)][o])>>]
      BY <1>3 DEF Circuit!Regenerate, Circuit!Ask, Names
    <2>2. o \in Names /\ Place(o) \in 0 .. 1000 /\ [n \in Names |-> Place(n)][o] = Place(o)
      BY <1>i, PlaceOf
    <2>q. PICK w, g : w = Circuit!Forget(o) /\ g = Circuit!Generate(o, Place(o))
      OBVIOUS
    <2>3. PICK force \in BOOLEAN : circuitReq' = [circuitReq EXCEPT ![r1] = IF force THEN <<w, g>> ELSE <<g>>]
      BY <2>1, <2>2, <2>q, Zenon
    <2>4. PICK stage \in {"forget", "generate"} : (IF force THEN <<w, g>> ELSE <<g>>) = ToDo(stage, o, Place(o))
      <3>2. ToDo("forget", o, Place(o)) = <<w, g>> /\ ToDo("generate", o, Place(o)) = <<g>>
        BY <2>q DEF ToDo
      <3> QED BY <3>2
    <2>5. circuitReq' = [circuitReq EXCEPT ![r1] = ToDo(stage, o, Place(o))]
      BY <2>3, <2>4
    <2>6. CircuitTodo(stage, o, Place(o))'
      BY <1>i, <1>w DEF CircuitTodo
    <2>7. stage \in Stages
      BY DEF Stages
    <2>8. Reaches(stage, o, Place(o))
      BY <2>2, <2>5, <2>6, <2>7 DEF Reaches
    <2> QED BY <1>f, <2>8
  <1> QED BY <1>1, <1>2, <1>3

(* What it generates is in the section of the operation.                    *)
LEMMA CircuitGenerated ==
  ASSUME CircuitTyped, CircuitPlaced, NEW o \in Names, crit' = Circuit!Generated(o, Place(o))
  PROVE  /\ crit' \in [Circuit!Refs -> CriterionRow(Names)]
         /\ \A f \in Circuit!Refs : crit'[f] = IF f[1] = SectionOf(o) THEN [op |-> o, enabled |-> TRUE] ELSE crit[f]
  <1>q. PICK q : q = [op |-> o, enabled |-> TRUE]
    OBVIOUS
  <1>2. q \in CriterionRow(Names)
    BY <1>q DEF CriterionRow
  <1>3. \A f \in Circuit!Refs : (f[1] = Circuit!Section(Place(o)) /\ crit[f].op \in {o, "none"}) <=> f[1] = SectionOf(o)
    <2> TAKE f \in Circuit!Refs
    <2>1. crit[f].op = "none" \/ (crit[f].op \in Names /\ f[1] = SectionOf(crit[f].op))
      BY DEF CircuitTyped, CircuitPlaced, CriterionRow
    <2>2. Circuit!Section(Place(o)) = SectionOf(o)
      BY PlaceOf
    <2> QED BY <2>1, <2>2, SectionsDiffer
  <1>4. crit' = [f \in Circuit!Refs |-> IF f[1] = Circuit!Section(Place(o)) /\ crit[f].op \in {o, "none"} THEN q ELSE crit[f]]
    BY <1>q DEF Circuit!Generated
  <1>5. \A f \in Circuit!Refs : crit[f] \in CriterionRow(Names)
    BY DEF CircuitTyped
  <1>6. \A f \in Circuit!Refs : crit'[f] = IF f[1] = SectionOf(o) THEN q ELSE crit[f]
    BY <1>3, <1>4
  <1>7. crit' \in [Circuit!Refs -> CriterionRow(Names)]
    BY <1>2, <1>4, <1>5
  <1> QED BY <1>6, <1>7, <1>q

(* An operation keeps its criteria when their rows are left alone.          *)
LEMMA WholeStays ==
  ASSUME CircuitInv, NEW p \in Names, Whole(p), \A f \in Circuit!Refs : crit[f].op = p => crit'[f] = crit[f]
  PROVE  Whole(p)'
  <1> SUFFICES ASSUME NEW k \in {1, 2} PROVE crit'[<<SectionOf(p), k>>] = [op |-> p, enabled |-> TRUE]
    BY DEF Whole
  <1>f. PICK f : f = <<SectionOf(p), k>>
    OBVIOUS
  <1>1. f \in Circuit!Refs
    BY <1>f, RefOf
  <1>2. crit[f] = [op |-> p, enabled |-> TRUE]
    BY <1>f DEF Whole
  <1>3. crit[f].op = p
    BY <1>2
  <1> QED BY <1>1, <1>2, <1>3, <1>f

(* The operations there, by their orders.                                    *)
LEMMA CircuitIn ==
  /\ Circuit!In = {o \in Names : op[o] # 9999}
  /\ Circuit!In' = {o \in Names : op'[o] # 9999}
  BY DEF Circuit!In, Circuit!Out, Names

(* A row that is disabled.                                                  *)
LEMMA DisabledRow ==
  ASSUME NEW c \in CriterionRow(Names)
  PROVE  /\ [c EXCEPT !.enabled = FALSE] \in CriterionRow(Names)
         /\ [c EXCEPT !.enabled = FALSE].op = c.op /\ ~[c EXCEPT !.enabled = FALSE].enabled
  <1>1. [c EXCEPT !.enabled = FALSE] \in CriterionRow(Names)
    BY DEF CriterionRow
  <1>2. [c EXCEPT !.enabled = FALSE].op = c.op /\ ~[c EXCEPT !.enabled = FALSE].enabled
    BY DEF CriterionRow
  <1> QED BY <1>1, <1>2

(* The statements of a request, one by one: an operation is put in ...        *)
LEMMA CircuitInserts ==
  ASSUME CircuitInv, NEW o \in Names, NEW s \in 0 .. 1000, CircuitTodo("add", o, s), o \notin Circuit!In,
         Orders(o, s), crit' = crit, circuitReq' = [circuitReq EXCEPT ![r1] = ToDo("generate", o, s)]
  PROVE  CircuitInv'
  <1>t. CircuitTyped /\ "generate" \in Stages
    BY DEF CircuitInv, Stages
  <1>1. s = Place(o) /\ s \in Nat /\ s # 9999
    <2>1. op[o] = 9999
      BY CircuitIn
    <2> QED BY <2>1 DEF CircuitTodo
  <1>2. op' \in [Names -> Nat] /\ \A p \in Names : op'[p] = IF p = o THEN s ELSE op[p]
    BY <1>1 DEF CircuitInv, CircuitTyped, Orders
  <1>3. \A p \in Names : op'[p] \in {9999, Place(p)}
    BY <1>1, <1>2 DEF CircuitInv, CircuitTyped
  <1>4. Circuit!In' = Circuit!In \cup {o}
    BY <1>1, <1>2, CircuitIn
  <1>5. \A p \in Circuit!In : Whole(p)'
    <2>1. \A p \in Circuit!In : Whole(p)
      BY DEF CircuitTodo
    <2>2. \A p : Whole(p)' <=> Whole(p)
      BY DEF Whole
    <2> QED BY <2>1, <2>2
  <1>6. CircuitTodo("generate", o, s)'
    BY <1>1, <1>4, <1>5 DEF CircuitTodo
  <1>h. Reaches("generate", o, s)
    BY <1>6, <1>t DEF Reaches
  <1>8. CircuitAt' /\ DOMAIN circuitReq' = {r1}
    BY <1>h, <1>t, CircuitMoves
  <1>9. crit' \in [Circuit!Refs -> CriterionRow(Names)]
    BY DEF CircuitInv, CircuitTyped
  <1>10. \A f \in Circuit!Refs : crit'[f].op = "none" \/ f[1] = SectionOf(crit'[f].op)
    BY DEF CircuitInv, CircuitPlaced
  <1>11. \A f \in Circuit!Refs : crit'[f].enabled => crit'[f].op \in Circuit!In'
    BY <1>4 DEF CircuitInv, CircuitEnabled
  <1> QED BY <1>2, <1>3, <1>8, <1>9, <1>10, <1>11, CircuitWrites

(* ... or was there, which ends the request ...                               *)
LEMMA CircuitEnds ==
  ASSUME CircuitInv, NEW o \in Names, NEW s \in 0 .. 1000, CircuitTodo("add", o, s),
         op' = op, crit' = crit, circuitReq' = [circuitReq EXCEPT ![r1] = <<>>]
  PROVE  CircuitInv'
  <1>t. CircuitTyped /\ "idle" \in Stages
    BY DEF CircuitInv, Stages
  <1>1. ToDo("idle", o, s) = <<>> /\ "idle" \in Stages
    BY DEF ToDo, Stages
  <1>2. Circuit!In' = Circuit!In
    BY CircuitIn
  <1>3. \A p \in Circuit!In : Whole(p)'
    <2>1. \A p \in Circuit!In : Whole(p)
      BY DEF CircuitTodo
    <2>2. \A p : Whole(p)' <=> Whole(p)
      BY DEF Whole
    <2> QED BY <2>1, <2>2
  <1>4. CircuitTodo("idle", o, s)'
    BY <1>2, <1>3 DEF CircuitTodo
  <1>5. circuitReq' = [circuitReq EXCEPT ![r1] = ToDo("idle", o, s)]
    BY <1>1, Zenon
  <1>h. Reaches("idle", o, s)
    BY <1>1, <1>4, <1>5 DEF Reaches
  <1>6. CircuitAt' /\ DOMAIN circuitReq' = {r1}
    BY <1>h, <1>t, CircuitMoves
  <1>7. op' \in [Names -> Nat] /\ \A p \in Names : op'[p] \in {9999, Place(p)}
    BY DEF CircuitInv, CircuitTyped
  <1>8. crit' \in [Circuit!Refs -> CriterionRow(Names)]
    BY DEF CircuitInv, CircuitTyped
  <1>9. \A f \in Circuit!Refs : crit'[f].op = "none" \/ f[1] = SectionOf(crit'[f].op)
    BY DEF CircuitInv, CircuitPlaced
  <1>10. \A f \in Circuit!Refs : crit'[f].enabled => crit'[f].op \in Circuit!In'
    BY <1>2 DEF CircuitInv, CircuitEnabled
  <1> QED BY <1>6, <1>7, <1>8, <1>9, <1>10, CircuitWrites

(* ... or is taken out, and its criteria disabled ...                         *)
LEMMA CircuitUnchecks ==
  ASSUME CircuitInv, NEW o \in Names, NEW s \in 0 .. 1000, CircuitTodo("uncheck", o, s),
         Leaves(o), crit' = Circuit!Disabled(o), circuitReq' = [circuitReq EXCEPT ![r1] = ToDo("idle", o, s)]
  PROVE  CircuitInv'
  <1>t. CircuitTyped /\ "idle" \in Stages
    BY DEF CircuitInv, Stages
  <1>1. op' \in [Names -> Nat] /\ \A p \in Names : op'[p] = IF p = o THEN 9999 ELSE op[p]
    BY DEF CircuitInv, CircuitTyped, Leaves
  <1>2. \A p \in Names : op'[p] \in {9999, Place(p)}
    BY <1>1 DEF CircuitInv, CircuitTyped
  <1>3. Circuit!In' = Circuit!In \ {o}
    BY <1>1, CircuitIn
  <1>4. \A f \in Circuit!Refs : crit'[f] = IF crit[f].op = o THEN [crit[f] EXCEPT !.enabled = FALSE] ELSE crit[f]
    BY DEF Circuit!Disabled
  <1>5. \A f \in Circuit!Refs : crit[f] \in CriterionRow(Names)
    BY DEF CircuitInv, CircuitTyped
  <1>8. \A f \in Circuit!Refs : crit'[f] \in CriterionRow(Names)
    <2> TAKE f \in Circuit!Refs
    <2>1. crit[f] \in CriterionRow(Names)
      BY <1>5
    <2>2. [crit[f] EXCEPT !.enabled = FALSE] \in CriterionRow(Names)
      BY <2>1, DisabledRow
    <2> QED BY <1>4, <2>1, <2>2
  <1>9. \A f \in Circuit!Refs : crit'[f].op = crit[f].op
    BY <1>4, <1>5, DisabledRow, ZenonT(60)
  <1>10. \A f \in Circuit!Refs : crit[f].op = o => ~crit'[f].enabled
    <2> TAKE f \in Circuit!Refs
    <2> HAVE crit[f].op = o
    <2>1. crit'[f] = [crit[f] EXCEPT !.enabled = FALSE] /\ crit[f] \in CriterionRow(Names)
      BY <1>4, <1>5
    <2> QED BY <2>1, DisabledRow
  <1>11. \A f \in Circuit!Refs : crit[f].op # o => crit'[f] = crit[f]
    BY <1>4, Zenon
  <1>12. crit' \in [Circuit!Refs -> CriterionRow(Names)]
    <2>1. crit' = [f \in Circuit!Refs |-> crit'[f]]
      BY DEF Circuit!Disabled
    <2> QED BY <2>1, <1>8
  <1>13. \A p \in Circuit!In' : Whole(p)'
    <2> SUFFICES ASSUME NEW p \in Circuit!In \ {o} PROVE Whole(p)'
      BY <1>3
    <2>1. Whole(p) /\ p \in Names
      BY CircuitIn DEF CircuitTodo
    <2>2. \A f \in Circuit!Refs : crit[f].op = p => crit'[f] = crit[f]
      BY <1>11
    <2> QED BY <2>1, <2>2, WholeStays
  <1>14. CircuitTodo("idle", o, s)'
    BY <1>13 DEF CircuitTodo
  <1>h. Reaches("idle", o, s)
    BY <1>14, <1>t DEF Reaches
  <1>15. CircuitAt' /\ DOMAIN circuitReq' = {r1}
    BY <1>h, <1>t, CircuitMoves
  <1>16. \A f \in Circuit!Refs : crit'[f].op = "none" \/ f[1] = SectionOf(crit'[f].op)
    BY <1>9 DEF CircuitInv, CircuitPlaced
  <1>17. \A f \in Circuit!Refs : crit'[f].enabled => crit'[f].op \in Circuit!In'
    <2> TAKE f \in Circuit!Refs
    <2> HAVE crit'[f].enabled
    <2>1. crit[f].op # o
      BY <1>10
    <2>2. crit'[f] = crit[f]
      BY <1>11, <2>1
    <2>3. crit[f].op \in Circuit!In
      BY <2>2 DEF CircuitInv, CircuitEnabled
    <2> QED BY <1>3, <2>1, <2>2, <2>3
  <1> QED BY <1>1, <1>2, <1>12, <1>15, <1>16, <1>17, CircuitWrites

(* ... its criteria are deleted ...                                           *)
LEMMA CircuitForgets ==
  ASSUME CircuitInv, NEW o \in Names, NEW s \in 0 .. 1000, CircuitTodo("forget", o, s),
         op' = op, crit' = [f \in Circuit!Refs |-> IF crit[f].op = o THEN Circuit!NoRow ELSE crit[f]],
         circuitReq' = [circuitReq EXCEPT ![r1] = ToDo("generate", o, s)]
  PROVE  CircuitInv'
  <1>t. CircuitTyped /\ "generate" \in Stages
    BY DEF CircuitInv, Stages
  <1>1. Circuit!NoRow \in CriterionRow(Names) /\ Circuit!NoRow.op = "none" /\ ~Circuit!NoRow.enabled
    BY DEF Circuit!NoRow, CriterionRow
  <1>2. \A f \in Circuit!Refs : crit[f] \in CriterionRow(Names)
    BY DEF CircuitInv, CircuitTyped
  <1>3. crit' \in [Circuit!Refs -> CriterionRow(Names)]
    BY <1>1, <1>2
  <1>4. \A f \in Circuit!Refs : crit'[f] = Circuit!NoRow \/ (crit[f].op # o /\ crit'[f] = crit[f])
    OBVIOUS
  <1>5. Circuit!In' = Circuit!In
    BY CircuitIn
  <1>6. \A p \in Circuit!In : Whole(p)' \/ p = o
    <2> SUFFICES ASSUME NEW p \in Circuit!In, p # o PROVE Whole(p)'
      OBVIOUS
    <2>1. Whole(p) /\ p \in Names
      BY CircuitIn DEF CircuitTodo
    <2>2. \A f \in Circuit!Refs : crit[f].op = p => crit'[f] = crit[f]
      OBVIOUS
    <2> QED BY <2>1, <2>2, WholeStays
  <1>7. CircuitTodo("generate", o, s)'
    BY <1>5, <1>6 DEF CircuitTodo
  <1>h. Reaches("generate", o, s)
    BY <1>7, <1>t DEF Reaches
  <1>8. CircuitAt' /\ DOMAIN circuitReq' = {r1}
    BY <1>h, <1>t, CircuitMoves
  <1>9. \A f \in Circuit!Refs : crit'[f].op = "none" \/ f[1] = SectionOf(crit'[f].op)
    BY <1>1, <1>4 DEF CircuitInv, CircuitPlaced
  <1>10. \A f \in Circuit!Refs : crit'[f].enabled => crit'[f].op \in Circuit!In'
    BY <1>1, <1>4, <1>5 DEF CircuitInv, CircuitEnabled
  <1>11. op' \in [Names -> Nat] /\ \A p \in Names : op'[p] \in {9999, Place(p)}
    BY DEF CircuitInv, CircuitTyped
  <1> QED BY <1>3, <1>8, <1>9, <1>10, <1>11, CircuitWrites

(* ... or they are generated.                                                 *)
LEMMA CircuitGenerates ==
  ASSUME CircuitInv, NEW o \in Names, NEW s \in 0 .. 1000, CircuitTodo("generate", o, s),
         op' = op, crit' = Circuit!Generated(o, s), circuitReq' = [circuitReq EXCEPT ![r1] = ToDo("idle", o, s)]
  PROVE  CircuitInv'
  <1>t. CircuitTyped /\ "idle" \in Stages
    BY DEF CircuitInv, Stages
  <1>1. s = Place(o) /\ o \in Circuit!In /\ \A p \in Circuit!In : Whole(p) \/ p = o
    BY DEF CircuitTodo
  <1>2. /\ crit' \in [Circuit!Refs -> CriterionRow(Names)]
        /\ \A f \in Circuit!Refs : crit'[f] = IF f[1] = SectionOf(o) THEN [op |-> o, enabled |-> TRUE] ELSE crit[f]
    BY <1>1, CircuitGenerated DEF CircuitInv
  <1>3. Circuit!In' = Circuit!In
    BY CircuitIn
  <1>4. Whole(o)'
    <2> SUFFICES ASSUME NEW k \in {1, 2} PROVE crit'[<<SectionOf(o), k>>] = [op |-> o, enabled |-> TRUE]
      BY DEF Whole
    <2>f. PICK f : f = <<SectionOf(o), k>>
      BY Zenon
    <2>1. f \in Circuit!Refs /\ f[1] = SectionOf(o)
      BY <2>f, RefOf
    <2> QED BY <1>2, <2>1, <2>f, Zenon
  <1>5. \A p \in Circuit!In : Whole(p)'
    <2> SUFFICES ASSUME NEW p \in Circuit!In, p # o PROVE Whole(p)'
      BY <1>4
    <2>1. Whole(p) /\ p \in Names
      BY <1>1, CircuitIn
    <2>2. \A f \in Circuit!Refs : crit[f].op = p => crit'[f] = crit[f]
      <3> TAKE f \in Circuit!Refs
      <3> HAVE crit[f].op = p
      <3>1. f[1] = SectionOf(p)
        BY <2>1, PlaceOf DEF CircuitInv, CircuitPlaced
      <3>2. f[1] # SectionOf(o)
        BY <2>1, <3>1, SectionsDiffer
      <3> QED BY <1>2, <3>2
    <2> QED BY <2>1, <2>2, WholeStays
  <1>6. CircuitTodo("idle", o, s)'
    BY <1>3, <1>5 DEF CircuitTodo
  <1>h. Reaches("idle", o, s)
    BY <1>6, <1>t DEF Reaches
  <1>7. CircuitAt' /\ DOMAIN circuitReq' = {r1}
    BY <1>h, <1>t, CircuitMoves
  <1>8. \A f \in Circuit!Refs : crit'[f].op = "none" \/ f[1] = SectionOf(crit'[f].op)
    <2> TAKE f \in Circuit!Refs
    <2>1. CASE f[1] = SectionOf(o)
      <3>1. crit'[f].op = o
        BY <1>2, <2>1
      <3> QED BY <2>1, <3>1
    <2>2. CASE f[1] # SectionOf(o)
      BY <1>2, <2>2 DEF CircuitInv, CircuitPlaced
    <2> QED BY <2>1, <2>2
  <1>9. \A f \in Circuit!Refs : crit'[f].enabled => crit'[f].op \in Circuit!In'
    <2> TAKE f \in Circuit!Refs
    <2>1. CASE f[1] = SectionOf(o)
      <3>1. crit'[f].op = o
        BY <1>2, <2>1
      <3> QED BY <1>1, <1>3, <3>1
    <2>2. CASE f[1] # SectionOf(o)
      BY <1>2, <1>3, <2>2 DEF CircuitInv, CircuitEnabled
    <2> QED BY <2>1, <2>2
  <1>10. op' \in [Names -> Nat] /\ \A p \in Names : op'[p] \in {9999, Place(p)}
    BY DEF CircuitInv, CircuitTyped
  <1> QED BY <1>2, <1>7, <1>8, <1>9, <1>10, CircuitWrites

(* So every statement keeps the invariant ...                               *)
LEMMA CircuitSteps ==
  ASSUME CircuitInv, Circuit!Step(r1)
  PROVE  CircuitInv'
  <1>1. PICK stage \in Stages, o \in Names, s \in 0 .. 1000 : circuitReq[r1] = ToDo(stage, o, s) /\ CircuitTodo(stage, o, s)
    BY Zenon DEF CircuitInv, CircuitAt
  <1>h. PICK h, rest : h = Head(circuitReq[r1]) /\ rest = Tail(circuitReq[r1])
    BY ZenonT(60)
  <1>2. /\ stage # "idle"
        /\ stage = "add" => h = Circuit!Insert(o, s) /\ rest = ToDo("generate", o, s)
        /\ stage = "forget" => h = Circuit!Forget(o) /\ rest = ToDo("generate", o, s)
        /\ stage = "uncheck" => h = Circuit!Uncheck(o) /\ rest = ToDo("idle", o, s)
        /\ stage = "generate" => h = Circuit!Generate(o, s) /\ rest = ToDo("idle", o, s)
    <2>1. circuitReq[r1] # <<>>
      BY DEF Circuit!Step
    <2> QED BY <1>1, <1>h, <2>1, ToDoGoesOn
  <1>3. CASE stage = "add"
    <2>1. h.do = "insert" /\ h.op = o /\ h.sort = s /\ rest = ToDo("generate", o, s)
      BY <1>2, <1>3 DEF Circuit!Insert
    <2>2. CircuitTodo("add", o, s)
      BY <1>1, <1>3
    <2>3. CASE op[o] = 9999
      <3>1. op' = [op EXCEPT ![o] = s] /\ crit' = crit /\ circuitReq' = [circuitReq EXCEPT ![r1] = ToDo("generate", o, s)]
        BY <1>h, <2>1, <2>3, CircuitStatement
      <3>2. Orders(o, s)
        BY <3>1 DEF Orders
      <3>3. crit' = crit /\ circuitReq' = [circuitReq EXCEPT ![r1] = ToDo("generate", o, s)]
        BY <3>1
      <3>4. o \notin Circuit!In
        BY <2>3, CircuitIn
      <3> QED BY <2>2, <3>2, <3>3, <3>4, CircuitInserts, ZenonT(60)
    <2>4. CASE op[o] # 9999
      <3>1. op' = op /\ crit' = crit /\ circuitReq' = [circuitReq EXCEPT ![r1] = <<>>]
        BY <1>h, <2>1, <2>4, CircuitStatement
      <3> QED BY <2>2, <3>1, CircuitEnds, ZenonT(60)
    <2> QED BY <2>3, <2>4
  <1>4. CASE stage = "forget"
    <2>1. h.do = "forget" /\ h.op = o /\ rest = ToDo("generate", o, s)
      BY <1>2, <1>4 DEF Circuit!Forget
    <2>2. CircuitTodo("forget", o, s)
      BY <1>1, <1>4
    <2>3. /\ op' = op /\ crit' = [f \in Circuit!Refs |-> IF crit[f].op = o THEN Circuit!NoRow ELSE crit[f]]
          /\ circuitReq' = [circuitReq EXCEPT ![r1] = ToDo("generate", o, s)]
      BY <1>h, <2>1, CircuitStatement
    <2> QED BY <2>2, <2>3, CircuitForgets, ZenonT(60)
  <1>5. CASE stage = "uncheck"
    <2>1. h.do = "uncheck" /\ h.op = o /\ rest = ToDo("idle", o, s)
      BY <1>2, <1>5 DEF Circuit!Uncheck
    <2>2. CircuitTodo("uncheck", o, s)
      BY <1>1, <1>5
    <2>3. op' = [op EXCEPT ![o] = 9999] /\ crit' = Circuit!Disabled(o) /\ circuitReq' = [circuitReq EXCEPT ![r1] = ToDo("idle", o, s)]
      BY <1>h, <2>1, CircuitStatement
    <2>4. Leaves(o)
      BY <2>3 DEF Leaves
    <2>5. crit' = Circuit!Disabled(o) /\ circuitReq' = [circuitReq EXCEPT ![r1] = ToDo("idle", o, s)]
      BY <2>3
    <2> QED BY <2>2, <2>4, <2>5, CircuitUnchecks, ZenonT(60)
  <1>6. CASE stage = "generate"
    <2>1. h.do = "generate" /\ h.op = o /\ h.sort = s /\ rest = ToDo("idle", o, s)
      BY <1>2, <1>6 DEF Circuit!Generate
    <2>2. CircuitTodo("generate", o, s)
      BY <1>1, <1>6
    <2>3. op' = op /\ crit' = Circuit!Generated(o, s) /\ circuitReq' = [circuitReq EXCEPT ![r1] = ToDo("idle", o, s)]
      BY <1>h, <2>1, CircuitStatement
    <2> QED BY <2>2, <2>3, CircuitGenerates, ZenonT(60)
  <1> QED BY <1>2, <1>3, <1>4, <1>5, <1>6 DEF Stages

(* ... and so does every request.                                           *)
LEMMA CircuitContinues ==
  ASSUME CircuitInv, Circuit!Next
  PROVE  CircuitInv'
  <1>1. ~Circuit!Topology(r1) /\ ~Circuit!PatchSort(r1)
    BY DEF Circuit!Topology, Circuit!PatchSort, Circuit!Ask
  <1> QED BY <1>1, CircuitAsks, CircuitSteps DEF Circuit!Next

(* It begins without operations or criteria.                                *)
LEMMA CircuitBegins ==
  ASSUME Circuit!Init
  PROVE  CircuitInv
  <1>1. op = [o \in Names |-> 9999] /\ crit = [f \in Circuit!Refs |-> Circuit!NoRow] /\ circuitReq = [r \in {r1} |-> <<>>]
    BY DEF Circuit!Init, Names, Circuit!Out
  <1>2. Circuit!NoRow \in CriterionRow(Names) /\ Circuit!NoRow.op = "none" /\ ~Circuit!NoRow.enabled
    BY DEF Circuit!NoRow, CriterionRow
  <1>3. Circuit!In = {}
    BY <1>1, CircuitIn
  <1>4. CircuitTyped
    BY <1>1, <1>2 DEF CircuitTyped
  <1>5. CircuitPlaced /\ CircuitEnabled
    BY <1>1, <1>2 DEF CircuitPlaced, CircuitEnabled
  <1>6. CircuitAt
    <2>1. circuitReq[r1] = ToDo("idle", "mill", 0) /\ CircuitTodo("idle", "mill", 0)
      BY <1>1, <1>3 DEF ToDo, CircuitTodo
    <2>2. "idle" \in Stages /\ "mill" \in Names /\ 0 \in 0 .. 1000
      BY DEF Stages, Names
    <2> QED BY <2>1, <2>2 DEF CircuitAt
  <1> QED BY <1>4, <1>5, <1>6 DEF CircuitInv

(* Between requests the criteria are those of the operations.               *)
LEMMA CircuitWhole ==
  ASSUME CircuitInv
  PROVE  Circuit!TypeOK /\ Circuit!NoOrphans /\ Circuit!Complete /\ Circuit!NoDuplicate
  <1>i. Circuit!In \subseteq Names
    BY DEF Circuit!In, Names
  <1>p. PICK stage \in Stages, o \in Names, s \in 0 .. 1000 : circuitReq[r1] = ToDo(stage, o, s) /\ CircuitTodo(stage, o, s)
    BY Zenon DEF CircuitInv, CircuitAt
  <1>1. Circuit!TypeOK
    <2>1. Len(circuitReq[r1]) <= 6
      BY <1>p, ToDoGoesOn
    <2>2. \A f \in Circuit!Refs : crit[f].op \in Names \cup {"none"}
      BY DEF CircuitInv, CircuitTyped, CriterionRow
    <2>3. \A f \in Circuit!Refs : crit[f].enabled => crit[f].op \in Names
      BY <1>i DEF CircuitInv, CircuitEnabled
    <2>4. op \in [Names -> Nat]
      BY DEF CircuitInv, CircuitTyped
    <2> QED BY <2>1, <2>2, <2>3, <2>4 DEF Circuit!TypeOK, Names
  <1>2. Circuit!NoOrphans
    BY DEF CircuitInv, CircuitEnabled, Circuit!NoOrphans
  <1>3. Circuit!Complete
    <2> SUFFICES ASSUME Circuit!Quiet, NEW p \in Circuit!In, NEW k \in {1, 2} PROVE \E f \in Circuit!EnabledOf(p) : f[2] = k
      BY DEF Circuit!Complete, Circuit!Suffixes
    <2>1. circuitReq[r1] = <<>>
      BY DEF Circuit!Quiet
    <2>2. stage = "idle"
      BY <1>p, <2>1, ToDoGoesOn, ZenonT(60)
    <2>3. Whole(p) /\ p \in Names
      BY <1>p, <1>i, <2>2 DEF CircuitTodo
    <2>f. PICK f : f = <<SectionOf(p), k>>
      BY Zenon
    <2>4. f \in Circuit!Refs /\ f[2] = k
      BY <2>3, <2>f, RefOf
    <2>5. crit[f] = [op |-> p, enabled |-> TRUE]
      BY <2>3, <2>f DEF Whole
    <2>6. f \in Circuit!EnabledOf(p)
      BY <2>4, <2>5 DEF Circuit!EnabledOf
    <2> QED BY <2>4, <2>6
  <1>4. Circuit!NoDuplicate
    <2> SUFFICES ASSUME NEW p \in Names, NEW f \in Circuit!EnabledOf(p), NEW g \in Circuit!EnabledOf(p), f[2] = g[2] PROVE f = g
      BY DEF Circuit!NoDuplicate, Names
    <2>1. f \in Circuit!Refs /\ g \in Circuit!Refs /\ crit[f].op = p /\ crit[g].op = p
      BY DEF Circuit!EnabledOf
    <2>2. f[1] = SectionOf(p) /\ g[1] = SectionOf(p)
      BY <2>1, PlaceOf DEF CircuitInv, CircuitPlaced
    <2> QED BY <2>1, <2>2, RefIs
  <1> QED BY <1>1, <1>2, <1>3, <1>4

(* The first of a list and what follows it.                                 *)
LEMMA Lists ==
  /\ \A a : Head(<<a>>) = a /\ Tail(<<a>>) = <<>> /\ <<a>> # <<>>
  /\ \A a, b : Head(<<a, b>>) = a /\ Tail(<<a, b>>) = <<b>> /\ <<a, b>> # <<>>
  /\ \A a, b, c : Head(<<a, b, c>>) = a /\ Tail(<<a, b, c>>) = <<b, c>> /\ <<a, b, c>> # <<>>
  /\ \A a, b, c, d : Head(<<a, b, c, d>>) = a /\ Tail(<<a, b, c, d>>) = <<b, c, d>> /\ <<a, b, c, d>> # <<>>
  /\ \A a, b, c, d, e : Head(<<a, b, c, d, e>>) = a /\ Tail(<<a, b, c, d, e>>) = <<b, c, d, e>> /\ <<a, b, c, d, e>> # <<>>
  /\ \A a, b, c, d, e, g : /\ Head(<<a, b, c, d, e, g>>) = a /\ Tail(<<a, b, c, d, e, g>>) = <<b, c, d, e, g>>
                           /\ <<a, b, c, d, e, g>> # <<>>
  <1>1. \A a : Head(<<a>>) = a /\ Tail(<<a>>) = <<>> /\ <<a>> # <<>>
    OBVIOUS
  <1>2. \A a, b : Head(<<a, b>>) = a /\ Tail(<<a, b>>) = <<b>> /\ <<a, b>> # <<>>
    OBVIOUS
  <1>3. \A a, b, c : Head(<<a, b, c>>) = a /\ Tail(<<a, b, c>>) = <<b, c>> /\ <<a, b, c>> # <<>>
    OBVIOUS
  <1>4. \A a, b, c, d : Head(<<a, b, c, d>>) = a /\ Tail(<<a, b, c, d>>) = <<b, c, d>> /\ <<a, b, c, d>> # <<>>
    OBVIOUS
  <1>5. \A a, b, c, d, e : Head(<<a, b, c, d, e>>) = a /\ Tail(<<a, b, c, d, e>>) = <<b, c, d, e>> /\ <<a, b, c, d, e>> # <<>>
    OBVIOUS
  <1>6. \A a, b, c, d, e, g : /\ Head(<<a, b, c, d, e, g>>) = a /\ Tail(<<a, b, c, d, e, g>>) = <<b, c, d, e, g>>
                              /\ <<a, b, c, d, e, g>> # <<>>
    OBVIOUS
  <1> QED BY <1>1, <1>2, <1>3, <1>4, <1>5, <1>6

(* What a request that is under way has to do, and then.                    *)
LEMMA StillGoesOn ==
  ASSUME NEW stage \in TopologyStages, NEW o, NEW p, NEW s, NEW list, list = Still(stage, o, p, s)
  PROVE  /\ list = <<>> <=> stage = "idle"
         /\ stage = "add" => Head(list) = Topologies!Insert(o, s) /\ Tail(list) = Still("generate", o, p, s)
         /\ stage = "uncheck" => Head(list) = Topologies!Uncheck(o) /\ Tail(list) = Still("idle", o, p, s)
         /\ stage = "generate" => Head(list) = Topologies!Generate(o, s) /\ Tail(list) = Still("idle", o, p, s)
         /\ stage = "wipe" => Head(list) = Topologies!Wipe /\ Tail(list) = Still("drop", o, p, s)
         /\ stage = "drop" => Head(list) = Topologies!Drop /\ Tail(list) = Still("first", o, p, s)
         /\ stage = "first" => Head(list) = Topologies!Insert(o, 0) /\ Tail(list) = Still("second", o, p, s)
         /\ stage = "second" => Head(list) = Topologies!Insert(p, 10) /\ Tail(list) = Still("both", o, p, s)
         /\ stage = "both" => Head(list) = Topologies!Generate(o, 10) /\ Tail(list) = Still("generate", p, o, 20)
  <1>p. PICK i, u, g, w, d, i1, i2, g1, g2 :
          /\ i = Topologies!Insert(o, s) /\ u = Topologies!Uncheck(o) /\ g = Topologies!Generate(o, s)
          /\ w = Topologies!Wipe /\ d = Topologies!Drop /\ i1 = Topologies!Insert(o, 0) /\ i2 = Topologies!Insert(p, 10)
          /\ g1 = Topologies!Generate(o, 10) /\ g2 = Topologies!Generate(p, 20)
    OBVIOUS
  <1>1. /\ Still("idle", o, p, s) = <<>> /\ Still("generate", o, p, s) = <<g>> /\ Still("generate", p, o, 20) = <<g2>>
        /\ Still("uncheck", o, p, s) = <<u>> /\ Still("add", o, p, s) = <<i, g>>
    BY <1>p DEF Still
  <1>2. /\ Still("wipe", o, p, s) = <<w, d, i1, i2, g1, g2>> /\ Still("drop", o, p, s) = <<d, i1, i2, g1, g2>>
        /\ Still("first", o, p, s) = <<i1, i2, g1, g2>> /\ Still("second", o, p, s) = <<i2, g1, g2>>
        /\ Still("both", o, p, s) = <<g1, g2>>
    BY <1>p DEF Still
  <1>3. CASE stage = "idle"
    BY <1>1, <1>3
  <1>4. CASE stage = "add"
    <2>1. list = <<i, g>>
      BY <1>1, <1>4
    <2>2. list # <<>> /\ Head(list) = i /\ Tail(list) = <<g>>
      BY <2>1, Lists
    <2> QED BY <1>1, <1>2, <1>4, <1>p, <2>2, Zenon
  <1>5. CASE stage = "uncheck"
    BY <1>1, <1>5, <1>p, Lists, Zenon
  <1>6. CASE stage = "generate"
    BY <1>1, <1>6, <1>p, Lists, Zenon
  <1>7. CASE stage = "wipe"
    <2>1. list = <<w, d, i1, i2, g1, g2>>
      BY <1>2, <1>7
    <2>2. list # <<>> /\ Head(list) = w /\ Tail(list) = <<d, i1, i2, g1, g2>>
      BY <2>1, Lists
    <2> QED BY <1>1, <1>2, <1>7, <1>p, <2>2, Zenon
  <1>8. CASE stage = "drop"
    <2>1. list = <<d, i1, i2, g1, g2>>
      BY <1>2, <1>8
    <2>2. list # <<>> /\ Head(list) = d /\ Tail(list) = <<i1, i2, g1, g2>>
      BY <2>1, Lists
    <2> QED BY <1>1, <1>2, <1>8, <1>p, <2>2, Zenon
  <1>9. CASE stage = "first"
    <2>1. list = <<i1, i2, g1, g2>>
      BY <1>2, <1>9
    <2>2. list # <<>> /\ Head(list) = i1 /\ Tail(list) = <<i2, g1, g2>>
      BY <2>1, Lists
    <2> QED BY <1>1, <1>2, <1>9, <1>p, <2>2, Zenon
  <1>10. CASE stage = "second"
    <2>1. list = <<i2, g1, g2>>
      BY <1>2, <1>10
    <2>2. list # <<>> /\ Head(list) = i2 /\ Tail(list) = <<g1, g2>>
      BY <2>1, Lists
    <2> QED BY <1>1, <1>2, <1>10, <1>p, <2>2, Zenon
  <1>11. CASE stage = "both"
    <2>1. list = <<g1, g2>>
      BY <1>2, <1>11
    <2>2. list # <<>> /\ Head(list) = g1 /\ Tail(list) = <<g2>>
      BY <2>1, Lists
    <2> QED BY <1>1, <1>2, <1>11, <1>p, <2>2, Zenon
  <1> QED BY <1>3, <1>4, <1>5, <1>6, <1>7, <1>8, <1>9, <1>10, <1>11, Zenon DEF TopologyStages, Replacing

(* Where a step takes the request.                                          *)
LEMMA TopologyMoves ==
  ASSUME TopologyOps, NEW stage, NEW o, NEW p, NEW s, ComesTo(stage, o, p, s)
  PROVE  TopologyAt' /\ OneRequest'
  <1>q. PICK q : q = Still(stage, o, p, s)
    OBVIOUS
  <1>0. /\ stage \in TopologyStages /\ o \in Both /\ p \in Both /\ s \in 0 .. 1000
        /\ circuitReq' = [circuitReq EXCEPT ![r1] = Still(stage, o, p, s)]
        /\ TopologyTodo(stage, o, p, s)'
    BY DEF ComesTo
  <1>a. circuitReq' = [circuitReq EXCEPT ![r1] = q]
    BY <1>0, <1>q
  <1>1. OneRequest' /\ circuitReq'[r1] = q
    BY <1>a DEF TopologyOps, OneRequest
  <1>2. circuitReq'[r1] = Still(stage, o, p, s) /\ TopologyTodo(stage, o, p, s)'
    BY <1>0, <1>q, <1>1
  <1>3. (\E st \in TopologyStages, n \in Both, m \in Both, t \in 0 .. 1000 : circuitReq[r1] = Still(st, n, m, t) /\ TopologyTodo(st, n, m, t))'
    BY <1>0, <1>2, ZenonT(60)
  <1>4. TopologyAt'
    BY <1>3 DEF TopologyAt, Both, TopologyStages
  <1> QED BY <1>1, <1>4

(* The operations there, by their orders.                                    *)
LEMMA TopologyIn ==
  /\ Topologies!In = {o \in Both : op[o] # 9999}
  /\ Topologies!In' = {o \in Both : op'[o] # 9999}
  BY DEF Topologies!In, Topologies!Out, Both

(* The references are the same ones always.                                  *)
LEMMA TopologyRefs ==
  Topologies!Refs' = Topologies!Refs
  BY DEF Topologies!Refs, Topologies!Sections

(* Rows that are left alone are well where no operation is taken out.        *)
LEMMA TopologyRowsStay ==
  ASSUME TopologyRows, crit' = crit, Topologies!In \subseteq Topologies!In'
  PROVE  TopologyRows'
  <1>1. crit' \in [Topologies!Refs' -> CriterionRow(Both)]
    BY TopologyRefs DEF TopologyRows
  <1>2. \A f \in Topologies!Refs' : crit'[f].enabled => crit'[f].op \in Topologies!In'
    BY TopologyRefs DEF TopologyRows
  <1>3. \A f, g \in Topologies!Refs' : crit'[f].enabled /\ crit'[g].enabled /\ crit'[f].op = crit'[g].op => f[1] = g[1]
    BY TopologyRefs DEF TopologyRows
  <1> QED BY <1>1, <1>2, <1>3 DEF TopologyRows

(* One statement of what the request has to do.                             *)
LEMMA TopologyStatement ==
  ASSUME Topologies!Step(r1), NEW s, Head(circuitReq[r1]) = s, NEW rest, Tail(circuitReq[r1]) = rest
  PROVE  /\ s.do = "insert" /\ op[s.op] # 9999 => op' = op /\ crit' = crit /\ circuitReq' = [circuitReq EXCEPT ![r1] = <<>>]
         /\ s.do = "insert" /\ op[s.op] = 9999 =>
              op' = [op EXCEPT ![s.op] = s.sort] /\ crit' = crit /\ circuitReq' = [circuitReq EXCEPT ![r1] = rest]
         /\ s.do # "insert" => circuitReq' = [circuitReq EXCEPT ![r1] = rest]
         /\ s.do = "generate" => op' = op /\ crit' = Topologies!Generated(s.op, s.sort)
         /\ s.do = "uncheck" => op' = [op EXCEPT ![s.op] = 9999] /\ crit' = Topologies!Disabled(s.op)
         /\ s.do = "wipe" => op' = op /\ crit' = [f \in Topologies!Refs |-> Topologies!NoRow]
         /\ s.do = "drop" => op' = [o \in Both |-> 9999] /\ crit' = crit
  <1>1. Topologies!Do(s) /\ circuitReq' = [circuitReq EXCEPT ![r1] = IF Topologies!Fails(s) THEN <<>> ELSE rest]
    BY DEF Topologies!Step
  <1>2. Topologies!Fails(s) <=> s.do = "insert" /\ op[s.op] # 9999
    BY DEF Topologies!Fails, Topologies!Out
  <1>3. s.do = "insert" => op' = (IF Topologies!Fails(s) THEN op ELSE [op EXCEPT ![s.op] = s.sort]) /\ crit' = crit
    BY <1>1 DEF Topologies!Do
  <1>4. s.do = "generate" => op' = op /\ crit' = Topologies!Generated(s.op, s.sort)
    BY <1>1 DEF Topologies!Do
  <1>5. s.do = "uncheck" => op' = [op EXCEPT ![s.op] = 9999] /\ crit' = Topologies!Disabled(s.op)
    BY <1>1 DEF Topologies!Do, Topologies!Out
  <1>6. s.do = "wipe" => op' = op /\ crit' = [f \in Topologies!Refs |-> Topologies!NoRow]
    BY <1>1 DEF Topologies!Do
  <1>9. s.do = "drop" => op' = [o \in Both |-> 9999] /\ crit' = crit
    BY <1>1 DEF Topologies!Do, Topologies!Out, Both
  <1>q. PICK q : q = IF Topologies!Fails(s) THEN <<>> ELSE rest
    OBVIOUS
  <1>r. circuitReq' = [circuitReq EXCEPT ![r1] = q]
    BY <1>1, <1>q
  <1>7. ASSUME s.do = "insert", op[s.op] # 9999 PROVE circuitReq' = [circuitReq EXCEPT ![r1] = <<>>]
    <2>1. q = <<>>
      BY <1>q, <1>2, <1>7
    <2> QED BY <1>r, <2>1
  <1>8. ASSUME ~(s.do = "insert" /\ op[s.op] # 9999) PROVE circuitReq' = [circuitReq EXCEPT ![r1] = rest]
    <2>1. q = rest
      BY <1>q, <1>2, <1>8
    <2> QED BY <1>r, <2>1
  <1> QED BY <1>2, <1>3, <1>4, <1>5, <1>6, <1>7, <1>8, <1>9

(* A request without statements is at none of the stages but idle.           *)
LEMMA TopologyIdles ==
  ASSUME TopologyOps, circuitReq' = [circuitReq EXCEPT ![r1] = <<>>]
  PROVE  TopologyAt' /\ OneRequest'
  <1>1. "idle" \in TopologyStages /\ "mill" \in Both /\ 0 \in 0 .. 1000
    BY DEF TopologyStages, Both
  <1>2. TopologyTodo("idle", "mill", "mill", 0)'
    BY DEF TopologyTodo, Replacing
  <1>3. Still("idle", "mill", "mill", 0) = <<>>
    BY DEF Still
  <1>4. circuitReq' = [circuitReq EXCEPT ![r1] = Still("idle", "mill", "mill", 0)]
    BY <1>3
  <1>5. ComesTo("idle", "mill", "mill", 0)
    BY <1>1, <1>2, <1>4, Zenon DEF ComesTo
  <1> QED BY <1>5, TopologyMoves

(* Criteria are generated for an operation that had none: those are of one   *)
(* section then.                                                            *)
LEMMA TopologyGenerated ==
  ASSUME TopologyRows, NEW o \in Both, NEW s, NoneOf(o), o \in Topologies!In, Topologies!In' = Topologies!In,
         crit' = Topologies!Generated(o, s)
  PROVE  TopologyRows' /\ \A n \in Both \ {o} : NoneOf(n) => NoneOf(n)'
  <1>q. PICK q, sec : q = [op |-> o, enabled |-> TRUE] /\ sec = Topologies!Section(s)
    OBVIOUS
  <1>0. q \in CriterionRow(Both) /\ q.op = o /\ q.enabled
    BY <1>q DEF CriterionRow
  <1>1. crit' = [f \in Topologies!Refs |-> IF f[1] = sec /\ crit[f].op \in {o, "none"} THEN q ELSE crit[f]]
    BY <1>q DEF Topologies!Generated
  <1>2. \A f \in Topologies!Refs : (f[1] = sec /\ crit'[f] = q) \/ crit'[f] = crit[f]
    BY <1>1
  <1>3. \A f \in Topologies!Refs : crit[f] \in CriterionRow(Both)
    BY DEF TopologyRows
  <1>4. crit' \in [Topologies!Refs -> CriterionRow(Both)]
    BY <1>0, <1>1, <1>3
  <1>5. \A f \in Topologies!Refs : crit'[f].enabled => crit'[f].op \in Topologies!In'
    BY <1>0, <1>2 DEF TopologyRows
  <1>6. \A f \in Topologies!Refs : crit'[f].enabled /\ crit'[f].op = o => f[1] = sec
    BY <1>2 DEF NoneOf
  <1>7. \A f \in Topologies!Refs : crit'[f].enabled /\ crit'[f].op # o => crit'[f] = crit[f]
    BY <1>0, <1>2
  <1>8. \A f, g \in Topologies!Refs : crit'[f].enabled /\ crit'[g].enabled /\ crit'[f].op = crit'[g].op => f[1] = g[1]
    <2> TAKE f, g \in Topologies!Refs
    <2> HAVE crit'[f].enabled /\ crit'[g].enabled /\ crit'[f].op = crit'[g].op
    <2>1. CASE crit'[f].op = o
      <3>1. f[1] = sec
        BY <1>6, <2>1
      <3>2. crit'[g].op = o /\ crit'[g].enabled
        BY <2>1
      <3>3. g[1] = sec
        BY <1>6, <3>2
      <3> QED BY <3>1, <3>3
    <2>2. CASE crit'[f].op # o
      <3>1. crit'[f] = crit[f] /\ crit'[g] = crit[g]
        BY <1>7, <2>2
      <3> QED BY <3>1 DEF TopologyRows
    <2> QED BY <2>1, <2>2
  <1>9. TopologyRows'
    BY <1>4, <1>5, <1>8, TopologyRefs DEF TopologyRows
  <1>10. \A n \in Both \ {o} : NoneOf(n) => NoneOf(n)'
    <2> TAKE n \in Both \ {o}
    <2> HAVE NoneOf(n)
    <2>1. \A f \in Topologies!Refs : crit'[f].enabled => crit'[f].op # n
      BY <1>7 DEF NoneOf
    <2> QED BY <2>1, TopologyRefs DEF NoneOf
  <1> QED BY <1>9, <1>10

(* The statements of a request, one by one: the request ends at an operation *)
(* that is there already ...                                                 *)
LEMMA TopologyEnds ==
  ASSUME TopologyInv, op' = op, crit' = crit, circuitReq' = [circuitReq EXCEPT ![r1] = <<>>]
  PROVE  TopologyInv'
  <1>t. TopologyOps /\ TopologyRows
    BY DEF TopologyInv
  <1>3. TopologyAt' /\ OneRequest'
    BY <1>t, TopologyIdles
  <1>4. TopologyOps'
    BY <1>3, <1>t DEF TopologyOps
  <1>5. Topologies!In' = Topologies!In
    BY TopologyIn
  <1>6. TopologyRows'
    BY <1>5, <1>t, TopologyRowsStay
  <1> QED BY <1>3, <1>4, <1>6 DEF TopologyInv

(* ... an operation is put in, which may have been the only one ...           *)
LEMMA TopologyPuts ==
  ASSUME TopologyInv, NEW n, NEW t, PutsIn(n, t), crit' = crit
  PROVE  /\ op' \in [Both -> Nat] /\ Topologies!In' = Topologies!In \cup {n}
         /\ TopologyRows' /\ NoneOf(n)' /\ (NoRows => NoRows')
  <1>t. TopologyOps /\ TopologyRows
    BY DEF TopologyInv
  <1>1. op' \in [Both -> Nat] /\ \A m \in Both : op'[m] = IF m = n THEN t ELSE op[m]
    BY <1>t DEF TopologyOps, Orders, PutsIn
  <1>p. n \in Both /\ n \notin Topologies!In /\ t \in Nat /\ t # 9999
    BY DEF PutsIn
  <1>2. Topologies!In' = Topologies!In \cup {n}
    BY <1>1, <1>p, TopologyIn
  <1>3. TopologyRows'
    BY <1>2, <1>t, TopologyRowsStay
  <1>4. NoneOf(n)'
    <2>1. \A f \in Topologies!Refs : crit'[f].enabled => crit'[f].op # n
      BY <1>p, <1>t DEF TopologyRows
    <2> QED BY <2>1, TopologyRefs DEF NoneOf
  <1>5. NoRows => NoRows'
    BY TopologyRefs DEF NoRows
  <1> QED BY <1>1, <1>2, <1>3, <1>4, <1>5

(* ... and the request goes on ...                                           *)
LEMMA TopologyGoesOn ==
  ASSUME TopologyOps, NEW stage, NEW o, NEW p, NEW s, ComesTo(stage, o, p, s),
         op' \in [Both -> Nat], TopologyRows'
  PROVE  TopologyInv'
  <1>1. TopologyAt' /\ OneRequest'
    BY TopologyMoves
  <1>2. TopologyOps'
    BY <1>1 DEF TopologyOps
  <1> QED BY <1>1, <1>2 DEF TopologyInv

(* ... or taken out, its criteria disabled ...                               *)
LEMMA TopologyUnchecks ==
  ASSUME TopologyInv, NEW o \in Both,
         Leaves(o), crit' = Topologies!Disabled(o), circuitReq' = [circuitReq EXCEPT ![r1] = <<>>]
  PROVE  TopologyInv'
  <1>t. TopologyOps /\ TopologyRows
    BY DEF TopologyInv
  <1>1. op' \in [Both -> Nat] /\ \A m \in Both : op'[m] = IF m = o THEN 9999 ELSE op[m]
    BY <1>t DEF TopologyOps, Leaves
  <1>2. Topologies!In' = Topologies!In \ {o}
    BY <1>1, TopologyIn
  <1>3. \A f \in Topologies!Refs : crit'[f] = IF crit[f].op = o THEN [crit[f] EXCEPT !.enabled = FALSE] ELSE crit[f]
    BY DEF Topologies!Disabled
  <1>4. \A f \in Topologies!Refs : crit[f] \in CriterionRow(Both)
    BY <1>t DEF TopologyRows
  <1>5. ASSUME NEW c \in CriterionRow(Both)
        PROVE  /\ [c EXCEPT !.enabled = FALSE] \in CriterionRow(Both)
               /\ [c EXCEPT !.enabled = FALSE].op = c.op /\ ~[c EXCEPT !.enabled = FALSE].enabled
    <2>1. [c EXCEPT !.enabled = FALSE] \in CriterionRow(Both)
      BY DEF CriterionRow
    <2>2. [c EXCEPT !.enabled = FALSE].op = c.op /\ ~[c EXCEPT !.enabled = FALSE].enabled
      BY DEF CriterionRow
    <2> QED BY <2>1, <2>2
  <1>6. \A f \in Topologies!Refs : crit'[f] \in CriterionRow(Both) /\ (crit'[f].enabled => crit'[f] = crit[f] /\ crit[f].op # o)
    <2> TAKE f \in Topologies!Refs
    <2>1. CASE crit[f].op = o
      <3>1. crit'[f] = [crit[f] EXCEPT !.enabled = FALSE] /\ crit[f] \in CriterionRow(Both)
        BY <1>3, <1>4, <2>1
      <3> QED BY <3>1, <1>5
    <2>2. CASE crit[f].op # o
      BY <1>3, <1>4, <2>2
    <2> QED BY <2>1, <2>2
  <1>7. crit' \in [Topologies!Refs -> CriterionRow(Both)]
    <2>1. crit' = [f \in Topologies!Refs |-> crit'[f]]
      BY DEF Topologies!Disabled
    <2> QED BY <2>1, <1>6
  <1>8. \A f \in Topologies!Refs : crit'[f].enabled => crit'[f].op \in Topologies!In'
    BY <1>2, <1>6, <1>t DEF TopologyRows
  <1>9. \A f, g \in Topologies!Refs : crit'[f].enabled /\ crit'[g].enabled /\ crit'[f].op = crit'[g].op => f[1] = g[1]
    BY <1>6, <1>t DEF TopologyRows
  <1>10. TopologyRows'
    BY <1>7, <1>8, <1>9, TopologyRefs DEF TopologyRows
  <1>11. TopologyAt' /\ OneRequest'
    BY <1>t, TopologyIdles
  <1>12. TopologyOps'
    BY <1>1, <1>11 DEF TopologyOps
  <1> QED BY <1>10, <1>11, <1>12 DEF TopologyInv

(* ... criteria are deleted, and operations ...                              *)
LEMMA TopologyWipes ==
  ASSUME TopologyInv, NEW o \in Both, NEW p \in Both, NEW s \in 0 .. 1000, TopologyTodo("wipe", o, p, s),
         op' = op, crit' = [f \in Topologies!Refs |-> Topologies!NoRow],
         circuitReq' = [circuitReq EXCEPT ![r1] = Still("drop", o, p, s)]
  PROVE  TopologyInv'
  <1>t. TopologyOps /\ TopologyRows
    BY DEF TopologyInv
  <1>1. Topologies!NoRow \in CriterionRow(Both) /\ ~Topologies!NoRow.enabled
    BY DEF Topologies!NoRow, CriterionRow
  <1>2. TopologyRows' /\ NoRows'
    <2>1. crit' \in [Topologies!Refs -> CriterionRow(Both)]
      BY <1>1
    <2>2. \A f \in Topologies!Refs : ~crit'[f].enabled
      BY <1>1
    <2>3. NoRows'
      BY <2>2, TopologyRefs DEF NoRows
    <2>4. TopologyRows'
      BY <2>1, <2>2, TopologyRefs DEF TopologyRows
    <2> QED BY <2>3, <2>4
  <1>3. TopologyTodo("drop", o, p, s)'
    BY <1>2 DEF TopologyTodo, Replacing
  <1>4. "drop" \in TopologyStages
    BY DEF TopologyStages, Replacing
  <1>h. ComesTo("drop", o, p, s)
    BY <1>3, <1>4 DEF ComesTo
  <1>5. TopologyAt' /\ OneRequest'
    BY <1>h, <1>t, TopologyMoves
  <1>6. TopologyOps'
    BY <1>5, <1>t DEF TopologyOps
  <1> QED BY <1>2, <1>5, <1>6 DEF TopologyInv

(* ... all of them ...                                                       *)
LEMMA TopologyDrops ==
  ASSUME TopologyInv, NEW o \in Both, NEW p \in Both, NEW s \in 0 .. 1000, TopologyTodo("drop", o, p, s),
         Empties, crit' = crit, circuitReq' = [circuitReq EXCEPT ![r1] = Still("first", o, p, s)]
  PROVE  TopologyInv'
  <1>t. TopologyOps /\ TopologyRows /\ NoRows /\ o # p
    BY DEF TopologyInv, TopologyTodo, Replacing
  <1>1. op' \in [Both -> Nat] /\ Topologies!In' = {}
    BY TopologyIn DEF Empties
  <1>2. \A f \in Topologies!Refs : ~crit'[f].enabled
    BY <1>t DEF NoRows
  <1>3. NoRows'
    BY <1>2, TopologyRefs DEF NoRows
  <1>4. TopologyRows'
    <2>1. crit' \in [Topologies!Refs -> CriterionRow(Both)]
      BY <1>t DEF TopologyRows
    <2> QED BY <2>1, <1>2, TopologyRefs DEF TopologyRows
  <1>5. TopologyTodo("first", o, p, s)'
    BY <1>1, <1>3, <1>t DEF TopologyTodo, Replacing
  <1>6. "first" \in TopologyStages
    BY DEF TopologyStages, Replacing
  <1>h. ComesTo("first", o, p, s)
    BY <1>5, <1>6 DEF ComesTo
  <1>7. TopologyAt' /\ OneRequest'
    BY <1>h, <1>t, TopologyMoves
  <1>8. TopologyOps'
    BY <1>1, <1>7 DEF TopologyOps
  <1> QED BY <1>4, <1>7, <1>8 DEF TopologyInv

(* ... and criteria are generated, those of the second operation next ...    *)
LEMMA TopologyGeneratesFirst ==
  ASSUME TopologyInv, NEW o \in Both, NEW p \in Both, NEW s \in 0 .. 1000, TopologyTodo("both", o, p, s),
         op' = op, crit' = Topologies!Generated(o, 10), circuitReq' = [circuitReq EXCEPT ![r1] = Still("generate", p, o, 20)]
  PROVE  TopologyInv'
  <1>t. TopologyOps /\ TopologyRows /\ NoRows /\ o # p /\ o \in Topologies!In /\ p \in Topologies!In
    BY DEF TopologyInv, TopologyTodo, Replacing
  <1>1. NoneOf(o) /\ NoneOf(p)
    BY <1>t DEF NoRows, NoneOf
  <1>2. Topologies!In' = Topologies!In
    BY TopologyIn
  <1>3. TopologyRows' /\ NoneOf(p)'
    BY <1>1, <1>2, <1>t, TopologyGenerated
  <1>4. TopologyTodo("generate", p, o, 20)'
    BY <1>2, <1>3, <1>t DEF TopologyTodo, Replacing
  <1>5. "generate" \in TopologyStages /\ 20 \in 0 .. 1000
    BY DEF TopologyStages
  <1>h. ComesTo("generate", p, o, 20)
    BY <1>4, <1>5 DEF ComesTo
  <1>6. TopologyAt' /\ OneRequest'
    BY <1>h, <1>t, TopologyMoves
  <1>7. TopologyOps'
    BY <1>6, <1>t DEF TopologyOps
  <1> QED BY <1>3, <1>6, <1>7 DEF TopologyInv

(* ... or nothing more.                                                      *)
LEMMA TopologyGenerates ==
  ASSUME TopologyInv, NEW o \in Both, NEW p \in Both, NEW s \in 0 .. 1000, TopologyTodo("generate", o, p, s),
         op' = op, crit' = Topologies!Generated(o, s), circuitReq' = [circuitReq EXCEPT ![r1] = <<>>]
  PROVE  TopologyInv'
  <1>t. TopologyOps /\ TopologyRows /\ NoneOf(o) /\ o \in Topologies!In
    BY DEF TopologyInv, TopologyTodo
  <1>1. Topologies!In' = Topologies!In
    BY TopologyIn
  <1>2. TopologyRows'
    BY <1>1, <1>t, TopologyGenerated
  <1>3. TopologyAt' /\ OneRequest'
    BY <1>t, TopologyIdles
  <1>4. TopologyOps'
    BY <1>3, <1>t DEF TopologyOps
  <1> QED BY <1>2, <1>3, <1>4 DEF TopologyInv

(* An operation that is not there has a place in its decade or after it.     *)
LEMMA TopologyPlace ==
  ASSUME TopologyOps, NEW o \in Both
  PROVE  Topologies!Place(o) \in 0 .. 1000
  <1> DEFINE taken == {op[p] : p \in {p \in Topologies!In : op[p] >= Place(o) /\ op[p] < Place(o) + 10}}
  <1>p. PICK place : place = Place(o)
    OBVIOUS
  <1>0. place \in {210, 300} /\ [n \in Both |-> Place(n)][o] = place
    BY <1>p DEF Place, Both
  <1>1. Topologies!Place(o) = IF taken = {} THEN Place(o) ELSE 1 + CHOOSE s \in taken : \A t \in taken : t <= s
    BY <1>0, <1>p DEF Topologies!Place, Both
  <1>2. taken \subseteq 0 .. 310
    <2>1. \A p \in Topologies!In : op[p] \in Nat
      BY TopologyIn DEF TopologyOps
    <2> QED BY <2>1, <1>0, <1>p
  <1> HIDE DEF taken
  <1>5. CASE taken = {}
    BY <1>0, <1>1, <1>5, <1>p
  <1>6. CASE taken # {}
    <2>q. PICK m : m = CHOOSE s \in taken : \A t \in taken : t <= s
      OBVIOUS
    <2>1. \E s \in taken : \A t \in taken : t <= s
      <3>1. 310 \in Nat
        OBVIOUS
      <3> QED BY <1>2, <1>6, <3>1, GreatestNat
    <2>2. m \in taken
      BY <2>1, <2>q, GreatestIsThere
    <2>3. Topologies!Place(o) = 1 + m
      BY <1>1, <1>6, <2>q
    <2> QED BY <1>2, <2>2, <2>3
  <1> QED BY <1>5, <1>6

(* A request is taken when no other is under way.                           *)
LEMMA TopologyAsks ==
  ASSUME TopologyInv, Topologies!Add(r1) \/ Topologies!Remove(r1) \/ Topologies!Topology(r1)
  PROVE  TopologyInv'
  <1>t. UNCHANGED <<op, crit>> /\ TopologyOps /\ TopologyRows
    BY DEF Topologies!Add, Topologies!Remove, Topologies!Topology, Topologies!Ask, TopologyInv
  <1>i. Topologies!In' = Topologies!In /\ Topologies!In \subseteq Both
    BY <1>t, TopologyIn
  <1>r. op' \in [Both -> Nat] /\ TopologyRows'
    BY <1>i, <1>t, TopologyRowsStay DEF TopologyOps
  <1>1. CASE Topologies!Add(r1)
    <2>1. PICK o \in Both : circuitReq' = [circuitReq EXCEPT ![r1] = <<Topologies!Insert(o, Topologies!Place(o)), Topologies!Generate(o, Topologies!Place(o))>>]
      BY <1>1 DEF Topologies!Add, Topologies!Ask, Both
    <2>s. PICK s : s = Topologies!Place(o)
      OBVIOUS
    <2>2. s \in 0 .. 1000
      BY <2>s, <1>t, TopologyPlace
    <2>3. TopologyTodo("add", o, o, s)'
      BY DEF TopologyTodo, Replacing
    <2>4. Still("add", o, o, s) = <<Topologies!Insert(o, s), Topologies!Generate(o, s)>>
      BY DEF Still
    <2>5. circuitReq' = [circuitReq EXCEPT ![r1] = Still("add", o, o, s)]
      BY <2>1, <2>s, <2>4
    <2>6. "add" \in TopologyStages
      BY DEF TopologyStages
    <2>7. ComesTo("add", o, o, s)
      BY <2>2, <2>3, <2>5, <2>6 DEF ComesTo
    <2> QED BY <1>r, <1>t, <2>7, TopologyGoesOn
  <1>2. CASE Topologies!Remove(r1)
    <2>1. PICK o \in Topologies!In : circuitReq' = [circuitReq EXCEPT ![r1] = <<Topologies!Uncheck(o)>>]
      BY <1>2 DEF Topologies!Remove, Topologies!Ask
    <2>2. o \in Both /\ 0 \in 0 .. 1000
      BY <1>i
    <2>3. TopologyTodo("uncheck", o, o, 0)'
      BY DEF TopologyTodo, Replacing
    <2>4. Still("uncheck", o, o, 0) = <<Topologies!Uncheck(o)>>
      BY DEF Still
    <2>5. circuitReq' = [circuitReq EXCEPT ![r1] = Still("uncheck", o, o, 0)]
      BY <2>1, <2>4
    <2>6. "uncheck" \in TopologyStages
      BY DEF TopologyStages
    <2>7. ComesTo("uncheck", o, o, 0)
      BY <2>2, <2>3, <2>5, <2>6 DEF ComesTo
    <2> QED BY <1>r, <1>t, <2>7, TopologyGoesOn
  <1>3. CASE Topologies!Topology(r1)
    <2>1. PICK o \in Both, p \in Both : o # p /\
            circuitReq' = [circuitReq EXCEPT ![r1] =
              <<Topologies!Wipe, Topologies!Drop, Topologies!Insert(o, 0), Topologies!Insert(p, 10),
                Topologies!Generate(o, 10), Topologies!Generate(p, 20)>>]
      BY <1>3 DEF Topologies!Topology, Topologies!Ask, Both
    <2>2. TopologyTodo("wipe", o, p, 0)'
      BY <2>1 DEF TopologyTodo, Replacing
    <2>3. Still("wipe", o, p, 0) = <<Topologies!Wipe, Topologies!Drop, Topologies!Insert(o, 0), Topologies!Insert(p, 10),
                                     Topologies!Generate(o, 10), Topologies!Generate(p, 20)>>
      BY DEF Still
    <2>4. circuitReq' = [circuitReq EXCEPT ![r1] = Still("wipe", o, p, 0)]
      BY <2>1, <2>3
    <2>5. "wipe" \in TopologyStages /\ 0 \in 0 .. 1000
      BY DEF TopologyStages, Replacing
    <2>7. ComesTo("wipe", o, p, 0)
      BY <2>2, <2>4, <2>5 DEF ComesTo
    <2> QED BY <1>r, <1>t, <2>7, TopologyGoesOn
  <1> QED BY <1>1, <1>2, <1>3

(* An order is written only between requests, and of an operation there.     *)
LEMMA TopologySorts ==
  ASSUME TopologyInv, Topologies!PatchSort(r1)
  PROVE  TopologyInv'
  <1>t. crit' = crit /\ circuitReq' = circuitReq /\ circuitReq[r1] = <<>> /\ TopologyOps /\ TopologyRows
    BY DEF Topologies!PatchSort, Topologies!May, TopologyInv
  <1>1. PICK o \in Topologies!In, p \in Both : op' = [op EXCEPT ![o] = [n \in Both |-> Place(n)][p] + 9]
    BY DEF Topologies!PatchSort, Both
  <1>n. PICK n : n = [m \in Both |-> Place(m)][p] + 9
    OBVIOUS
  <1>2. n \in Nat /\ n # 9999
    BY <1>n DEF Place, Both
  <1>3. op' = [op EXCEPT ![o] = n] /\ o \in Both
    BY <1>1, <1>n, TopologyIn
  <1>4. op' \in [Both -> Nat] /\ \A m \in Both : op'[m] = IF m = o THEN n ELSE op[m]
    BY <1>2, <1>3, <1>t DEF TopologyOps
  <1>5. Topologies!In' = Topologies!In
    BY <1>2, <1>3, <1>4, TopologyIn
  <1>6. TopologyRows'
    BY <1>5, <1>t, TopologyRowsStay
  <1>8. TopologyAt' /\ OneRequest'
    <2>1. circuitReq'[r1] = Still("idle", o, o, 0) /\ TopologyTodo("idle", o, o, 0)'
      BY <1>t DEF Still, TopologyTodo, Replacing
    <2>2. "idle" \in TopologyStages /\ 0 \in 0 .. 1000
      BY DEF TopologyStages
    <2>3. (\E st \in TopologyStages, n1 \in Both, m1 \in Both, t1 \in 0 .. 1000 :
             circuitReq[r1] = Still(st, n1, m1, t1) /\ TopologyTodo(st, n1, m1, t1))'
      BY <1>3, <2>1, <2>2
    <2>4. TopologyAt'
      BY <2>3, Zenon DEF TopologyAt, Both, TopologyStages
    <2>5. OneRequest'
      BY <1>t DEF TopologyOps, OneRequest
    <2> QED BY <2>4, <2>5
  <1>9. TopologyOps'
    BY <1>4, <1>8 DEF TopologyOps
  <1> QED BY <1>6, <1>8, <1>9 DEF TopologyInv

(* So every statement keeps the invariant ...                               *)
LEMMA TopologySteps ==
  ASSUME TopologyInv, Topologies!Step(r1)
  PROVE  TopologyInv'
  <1>1. PICK stage \in TopologyStages, o \in Both, p \in Both, s \in 0 .. 1000 :
          circuitReq[r1] = Still(stage, o, p, s) /\ TopologyTodo(stage, o, p, s)
    BY Zenon DEF TopologyInv, TopologyAt
  <1>h. PICK h, rest : h = Head(circuitReq[r1]) /\ rest = Tail(circuitReq[r1])
    BY ZenonT(60)
  <1>2. /\ stage # "idle"
        /\ stage = "add" => h = Topologies!Insert(o, s) /\ rest = Still("generate", o, p, s)
        /\ stage = "uncheck" => h = Topologies!Uncheck(o) /\ rest = <<>>
        /\ stage = "generate" => h = Topologies!Generate(o, s) /\ rest = <<>>
        /\ stage = "wipe" => h = Topologies!Wipe /\ rest = Still("drop", o, p, s)
        /\ stage = "drop" => h = Topologies!Drop /\ rest = Still("first", o, p, s)
        /\ stage = "first" => h = Topologies!Insert(o, 0) /\ rest = Still("second", o, p, s)
        /\ stage = "second" => h = Topologies!Insert(p, 10) /\ rest = Still("both", o, p, s)
        /\ stage = "both" => h = Topologies!Generate(o, 10) /\ rest = Still("generate", p, o, 20)
    <2>1. circuitReq[r1] # <<>>
      BY DEF Topologies!Step
    <2>2. Still("idle", o, p, s) = <<>>
      BY DEF Still
    <2> QED BY <1>1, <1>h, <2>1, <2>2, StillGoesOn
  <1>3. CASE stage = "add"
    <2>1. h.do = "insert" /\ h.op = o /\ h.sort = s /\ rest = Still("generate", o, p, s)
      BY <1>2, <1>3 DEF Topologies!Insert
    <2>2. CASE op[o] # 9999
      <3>1. op' = op /\ crit' = crit /\ circuitReq' = [circuitReq EXCEPT ![r1] = <<>>]
        BY <1>h, <2>1, <2>2, TopologyStatement
      <3> QED BY <3>1, TopologyEnds
    <2>3. CASE op[o] = 9999
      <3>1. op' = [op EXCEPT ![o] = s] /\ crit' = crit /\ circuitReq' = [circuitReq EXCEPT ![r1] = Still("generate", o, p, s)]
        BY <1>h, <2>1, <2>3, TopologyStatement
      <3>2. Orders(o, s) /\ crit' = crit
        BY <3>1 DEF Orders
      <3>3. circuitReq' = [circuitReq EXCEPT ![r1] = Still("generate", o, p, s)]
        BY <3>1
      <3>4. o \notin Topologies!In /\ s \in 0 .. 1000
        BY <2>3, TopologyIn
      <3>9. PutsIn(o, s)
        BY <3>2, <3>4 DEF PutsIn
      <3>5. /\ op' \in [Both -> Nat] /\ Topologies!In' = Topologies!In \cup {o}
            /\ TopologyRows' /\ NoneOf(o)' /\ (NoRows => NoRows')
        BY <3>2, <3>9, TopologyPuts
      <3>6. TopologyTodo("generate", o, p, s)'
        BY <1>1, <1>3, <3>5 DEF TopologyTodo, Replacing
      <3>7. TopologyOps /\ "generate" \in TopologyStages
        BY DEF TopologyInv, TopologyStages, Replacing
      <3>8. ComesTo("generate", o, p, s)
        BY <3>3, <3>4, <3>6, <3>7 DEF ComesTo
      <3> QED BY <3>5, <3>7, <3>8, TopologyGoesOn
    <2> QED BY <2>2, <2>3
  <1>9. CASE stage = "first"
    <2>1. h.do = "insert" /\ h.op = o /\ h.sort = 0 /\ rest = Still("second", o, p, s)
      BY <1>2, <1>9 DEF Topologies!Insert
    <2>2. CASE op[o] # 9999
      <3>1. op' = op /\ crit' = crit /\ circuitReq' = [circuitReq EXCEPT ![r1] = <<>>]
        BY <1>h, <2>1, <2>2, TopologyStatement
      <3> QED BY <3>1, TopologyEnds
    <2>3. CASE op[o] = 9999
      <3>1. op' = [op EXCEPT ![o] = 0] /\ crit' = crit /\ circuitReq' = [circuitReq EXCEPT ![r1] = Still("second", o, p, s)]
        BY <1>h, <2>1, <2>3, TopologyStatement
      <3>2. Orders(o, 0) /\ crit' = crit
        BY <3>1 DEF Orders
      <3>3. circuitReq' = [circuitReq EXCEPT ![r1] = Still("second", o, p, s)]
        BY <3>1
      <3>4. o \notin Topologies!In /\ 0 \in 0 .. 1000
        BY <2>3, TopologyIn
      <3>9. PutsIn(o, 0)
        BY <3>2, <3>4 DEF PutsIn
      <3>5. /\ op' \in [Both -> Nat] /\ Topologies!In' = Topologies!In \cup {o}
            /\ TopologyRows' /\ NoneOf(o)' /\ (NoRows => NoRows')
        BY <3>2, <3>9, TopologyPuts
      <3>6. TopologyTodo("second", o, p, s)'
        BY <1>1, <1>9, <3>5 DEF TopologyTodo, Replacing
      <3>7. TopologyOps /\ "second" \in TopologyStages
        BY DEF TopologyInv, TopologyStages, Replacing
      <3>8. ComesTo("second", o, p, s)
        BY <3>3, <3>4, <3>6, <3>7 DEF ComesTo
      <3> QED BY <3>5, <3>7, <3>8, TopologyGoesOn
    <2> QED BY <2>2, <2>3
  <1>10. CASE stage = "second"
    <2>1. h.do = "insert" /\ h.op = p /\ h.sort = 10 /\ rest = Still("both", o, p, s)
      BY <1>2, <1>10 DEF Topologies!Insert
    <2>2. CASE op[p] # 9999
      <3>1. op' = op /\ crit' = crit /\ circuitReq' = [circuitReq EXCEPT ![r1] = <<>>]
        BY <1>h, <2>1, <2>2, TopologyStatement
      <3> QED BY <3>1, TopologyEnds
    <2>3. CASE op[p] = 9999
      <3>1. op' = [op EXCEPT ![p] = 10] /\ crit' = crit /\ circuitReq' = [circuitReq EXCEPT ![r1] = Still("both", o, p, s)]
        BY <1>h, <2>1, <2>3, TopologyStatement
      <3>2. Orders(p, 10) /\ crit' = crit
        BY <3>1 DEF Orders
      <3>3. circuitReq' = [circuitReq EXCEPT ![r1] = Still("both", o, p, s)]
        BY <3>1
      <3>4. p \notin Topologies!In /\ 10 \in 0 .. 1000
        BY <2>3, TopologyIn
      <3>9. PutsIn(p, 10)
        BY <3>2, <3>4 DEF PutsIn
      <3>5. /\ op' \in [Both -> Nat] /\ Topologies!In' = Topologies!In \cup {p}
            /\ TopologyRows' /\ NoneOf(p)' /\ (NoRows => NoRows')
        BY <3>2, <3>9, TopologyPuts
      <3>6. TopologyTodo("both", o, p, s)'
        BY <1>1, <1>10, <3>5 DEF TopologyTodo, Replacing
      <3>7. TopologyOps /\ "both" \in TopologyStages
        BY DEF TopologyInv, TopologyStages, Replacing
      <3>8. ComesTo("both", o, p, s)
        BY <3>3, <3>4, <3>6, <3>7 DEF ComesTo
      <3> QED BY <3>5, <3>7, <3>8, TopologyGoesOn
    <2> QED BY <2>2, <2>3
  <1>4. CASE stage = "uncheck"
    <2>1. h.do = "uncheck" /\ h.op = o
      BY <1>2, <1>4 DEF Topologies!Uncheck
    <2>r. rest = <<>>
      BY <1>2, <1>4
    <2>5. op' = [op EXCEPT ![o] = 9999] /\ crit' = Topologies!Disabled(o) /\ circuitReq' = [circuitReq EXCEPT ![r1] = rest]
      BY <1>h, <2>1, TopologyStatement
    <2>2. op' = [op EXCEPT ![o] = 9999] /\ crit' = Topologies!Disabled(o) /\ circuitReq' = [circuitReq EXCEPT ![r1] = <<>>]
      BY <2>r, <2>5
    <2>3. Leaves(o)
      BY <2>2 DEF Leaves
    <2>4. crit' = Topologies!Disabled(o) /\ circuitReq' = [circuitReq EXCEPT ![r1] = <<>>]
      BY <2>2
    <2> QED BY <2>3, <2>4, TopologyUnchecks
  <1>5. CASE stage = "wipe"
    <2>1. h.do = "wipe" /\ rest = Still("drop", o, p, s)
      BY <1>2, <1>5 DEF Topologies!Wipe
    <2>2. op' = op /\ crit' = [f \in Topologies!Refs |-> Topologies!NoRow] /\ circuitReq' = [circuitReq EXCEPT ![r1] = Still("drop", o, p, s)]
      BY <1>h, <2>1, TopologyStatement
    <2> QED BY <1>1, <1>5, <2>2, TopologyWipes, ZenonT(60)
  <1>6. CASE stage = "drop"
    <2>1. h.do = "drop" /\ rest = Still("first", o, p, s)
      BY <1>2, <1>6 DEF Topologies!Drop
    <2>2. op' = [m \in Both |-> 9999] /\ crit' = crit /\ circuitReq' = [circuitReq EXCEPT ![r1] = Still("first", o, p, s)]
      BY <1>h, <2>1, TopologyStatement
    <2>3. Empties
      BY <2>2 DEF Empties
    <2>4. crit' = crit /\ circuitReq' = [circuitReq EXCEPT ![r1] = Still("first", o, p, s)]
      BY <2>2
    <2> QED BY <1>1, <1>6, <2>3, <2>4, TopologyDrops, ZenonT(60)
  <1>7. CASE stage = "both"
    <2>1. h.do = "generate" /\ h.op = o /\ h.sort = 10 /\ rest = Still("generate", p, o, 20)
      BY <1>2, <1>7 DEF Topologies!Generate
    <2>2. op' = op /\ crit' = Topologies!Generated(o, 10) /\ circuitReq' = [circuitReq EXCEPT ![r1] = Still("generate", p, o, 20)]
      BY <1>h, <2>1, TopologyStatement
    <2> QED BY <1>1, <1>7, <2>2, TopologyGeneratesFirst, ZenonT(60)
  <1>8. CASE stage = "generate"
    <2>1. h.do = "generate" /\ h.op = o /\ h.sort = s
      BY <1>2, <1>8 DEF Topologies!Generate
    <2>r. rest = <<>>
      BY <1>2, <1>8
    <2>3. op' = op /\ crit' = Topologies!Generated(o, s) /\ circuitReq' = [circuitReq EXCEPT ![r1] = rest]
      BY <1>h, <2>1, TopologyStatement
    <2>2. op' = op /\ crit' = Topologies!Generated(o, s) /\ circuitReq' = [circuitReq EXCEPT ![r1] = <<>>]
      BY <2>r, <2>3
    <2> QED BY <1>1, <1>8, <2>2, TopologyGenerates, ZenonT(60)
  <1> QED BY <1>2, <1>3, <1>4, <1>5, <1>6, <1>7, <1>8, <1>9, <1>10 DEF TopologyStages, Replacing

(* ... and so does every request.                                           *)
LEMMA TopologyContinues ==
  ASSUME TopologyInv, Topologies!Next
  PROVE  TopologyInv'
  <1>1. ~Topologies!Regenerate(r1)
    BY DEF Topologies!Regenerate, Topologies!Ask
  <1> QED BY <1>1, TopologyAsks, TopologySorts, TopologySteps DEF Topologies!Next

(* It begins without operations or criteria.                                *)
LEMMA TopologyBegins ==
  ASSUME Topologies!Init
  PROVE  TopologyInv
  <1>1. op = [o \in Both |-> 9999] /\ crit = [f \in Topologies!Refs |-> Topologies!NoRow] /\ circuitReq = [r \in {r1} |-> <<>>]
    BY DEF Topologies!Init, Both, Topologies!Out
  <1>2. Topologies!NoRow \in CriterionRow(Both) /\ ~Topologies!NoRow.enabled
    BY DEF Topologies!NoRow, CriterionRow
  <1>3. TopologyOps
    BY <1>1 DEF TopologyOps, OneRequest
  <1>4. TopologyRows
    BY <1>1, <1>2 DEF TopologyRows
  <1>5. TopologyAt
    <2>1. circuitReq[r1] = Still("idle", "mill", "mill", 0) /\ TopologyTodo("idle", "mill", "mill", 0)
      BY <1>1 DEF Still, TopologyTodo, Replacing
    <2>2. "idle" \in TopologyStages /\ "mill" \in Both /\ 0 \in 0 .. 1000
      BY DEF TopologyStages, Both
    <2> QED BY <2>1, <2>2 DEF TopologyAt
  <1> QED BY <1>3, <1>4, <1>5 DEF TopologyInv

(* The enabled criteria are those of the operations, each once.             *)
LEMMA TopologyWhole ==
  ASSUME TopologyInv
  PROVE  Topologies!NoOrphans /\ Topologies!NoDuplicate
  <1>1. Topologies!NoOrphans
    BY DEF TopologyInv, TopologyRows, Topologies!NoOrphans
  <1>2. Topologies!NoDuplicate
    <2> SUFFICES ASSUME NEW o \in Both, NEW f \in Topologies!EnabledOf(o), NEW g \in Topologies!EnabledOf(o), f[2] = g[2] PROVE f = g
      BY DEF Topologies!NoDuplicate, Both
    <2>1. f \in Topologies!Refs /\ g \in Topologies!Refs /\ crit[f].op = o /\ crit[g].op = o /\ crit[f].enabled /\ crit[g].enabled
      BY DEF Topologies!EnabledOf
    <2>2. f[1] = g[1]
      BY <2>1 DEF TopologyInv, TopologyRows
    <2>3. f = <<f[1], f[2]>> /\ g = <<g[1], g[2]>>
      BY <2>1 DEF Topologies!Refs
    <2> QED BY <2>2, <2>3
  <1> QED BY <1>1, <1>2

(* The invariants hold on where nothing changes.                            *)
LEMMA CircuitStays ==
  ASSUME CircuitInv, UNCHANGED <<op, crit, circuitReq>>
  PROVE  CircuitInv'
  <1>1. Circuit!Refs' = Circuit!Refs /\ Circuit!In' = Circuit!In
    BY CircuitIn DEF Circuit!Refs, Circuit!Sections
  <1>2. CircuitTyped'
    BY <1>1 DEF CircuitInv, CircuitTyped
  <1>3. CircuitPlaced' /\ CircuitEnabled'
    BY <1>1 DEF CircuitInv, CircuitPlaced, CircuitEnabled
  <1>4. PICK stage \in Stages, o \in Names, s \in 0 .. 1000 : circuitReq[r1] = ToDo(stage, o, s) /\ CircuitTodo(stage, o, s)
    BY Zenon DEF CircuitInv, CircuitAt
  <1>5. CircuitTodo(stage, o, s)'
    BY <1>1, <1>4 DEF CircuitTodo, Whole
  <1>6. (\E st \in Stages, n \in Names, t \in 0 .. 1000 : circuitReq[r1] = ToDo(st, n, t) /\ CircuitTodo(st, n, t))'
    BY <1>4, <1>5
  <1>7. CircuitAt'
    BY <1>6, Zenon DEF CircuitAt, Names, Stages
  <1> QED BY <1>2, <1>3, <1>7 DEF CircuitInv

(* The same where circuits are replaced.                                    *)
LEMMA TopologyStays ==
  ASSUME TopologyInv, UNCHANGED <<op, crit, circuitReq>>
  PROVE  TopologyInv'
  <1>1. Topologies!In' = Topologies!In
    BY TopologyIn
  <1>2. op' \in [Both -> Nat] /\ TopologyRows' /\ TopologyOps
    BY <1>1, TopologyRowsStay DEF TopologyInv, TopologyOps
  <1>4. PICK stage \in TopologyStages, o \in Both, p \in Both, s \in 0 .. 1000 :
          circuitReq[r1] = Still(stage, o, p, s) /\ TopologyTodo(stage, o, p, s)
    BY Zenon DEF TopologyInv, TopologyAt
  <1>5. TopologyTodo(stage, o, p, s)'
    BY <1>1, <1>4, TopologyRefs DEF TopologyTodo, NoneOf, NoRows
  <1>q. PICK q : q = Still(stage, o, p, s)
    OBVIOUS
  <1>6. circuitReq' = [circuitReq EXCEPT ![r1] = q]
    BY <1>2, <1>4, <1>q DEF TopologyOps, OneRequest
  <1>7. circuitReq' = [circuitReq EXCEPT ![r1] = Still(stage, o, p, s)]
    BY <1>6, <1>q, Zenon
  <1>8. ComesTo(stage, o, p, s)
    BY <1>4, <1>5, <1>7 DEF ComesTo
  <1> QED BY <1>2, <1>8, TopologyGoesOn

(* The invariant of the two parts.                                          *)
CriteriaInv == (part = "circuit" => CircuitInv) /\ (part = "topologies" => TopologyInv)

(* CriteriaFollowOperations of MCProjectData: between requests the enabled  *)
(* criteria are those of the operations of the template, whatever is added, *)
(* placed, regenerated, removed and replaced (routes/circuit.py).           *)
THEOREM AllCriteriaFollow == AllSpec => []CriteriaFollowOperations
  <1>1. AllInit => CriteriaInv
    BY CircuitBegins, TopologyBegins DEF AllInit, CriteriaInv
  <1>2. CriteriaInv /\ [AllNext]_allVars => CriteriaInv'
    <2> SUFFICES ASSUME CriteriaInv, [AllNext]_allVars PROVE CriteriaInv'
      OBVIOUS
    <2>p. part' = part
      BY PartStays
    <2>1. CASE CircuitStep
      BY <2>1, <2>p, CircuitContinues DEF CircuitStep, CriteriaInv
    <2>2. CASE TopologyStep
      BY <2>2, <2>p, TopologyContinues DEF TopologyStep, CriteriaInv
    <2>3. CASE UNCHANGED allVars
      BY <2>p, <2>3, CircuitStays, TopologyStays DEF allVars, CriteriaInv
    <2>4. CircuitStep \/ TopologyStep \/ UNCHANGED allVars \/ part \notin {"circuit", "topologies"}
      BY DEF AllNext, RiskStep, ItemStep, ItemEditStep, BalanceStep, BalanceEditStep, CostStep, CostRaceStep,
             PlanStep, LockStep, ValueStep, ValueEditStep, DiagramStep
    <2>5. CASE part \notin {"circuit", "topologies"}
      BY <2>p, <2>5 DEF CriteriaInv
    <2> QED BY <2>1, <2>2, <2>3, <2>4, <2>5
  <1>3. CriteriaInv => CriteriaFollowOperations
    BY CircuitWhole, TopologyWhole DEF CriteriaInv, CriteriaFollowOperations
  <1> QED BY <1>1, <1>2, <1>3, PTL DEF AllSpec

=============================================================================
