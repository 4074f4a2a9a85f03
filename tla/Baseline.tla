------------------------------ MODULE Baseline ------------------------------
(* The metallurgical plan of one project, locked from a simulation run      *)
(* (routes/metallurgical_decision.py): project_metallurgical_baseline keeps *)
(* all plans, of which one is active, and each month of operation is        *)
(* measured against it.  Every statement is a transaction of its own.       *)
EXTENDS Naturals, Sequences

CONSTANTS Requests,
          Periods,     \* months of operation
          Kinds,       \* which requests there are
          MaxPlans, MaxRuns  \* bounds on plans and runs
ASSUME BaselineConstants == /\ Kinds \subseteq {"lock", "adopt", "month", "delete"}
                            /\ MaxPlans \in Nat /\ MaxRuns \in Nat

VARIABLES plans,   \* project_metallurgical_baseline: [run, active], run 0 is NULL
          runs,    \* simulation_runs_v2: number -> whether this module made it
          last,    \* number of the newest run
          months,  \* metallurgical_operations_monthly: the plan measured against
          req      \* each request: its place, its run or plan
vars == <<plans, runs, last, months, req>>

Idle == [at |-> "idle", run |-> 0, plan |-> 0, period |-> 0]
Init == /\ plans = <<>> /\ runs = <<>> /\ last = 0
        /\ months = [p \in Periods |-> 0] /\ req = [r \in Requests |-> Idle]

Go(r, next) == req' = [req EXCEPT ![r] = next]
Active == {i \in DOMAIN plans : plans[i].active}

(* A simulation ends, here or in another module. *)
NewRun == \E own \in BOOLEAN :
  /\ last < MaxRuns /\ last' = last + 1
  /\ runs' = [n \in DOMAIN runs \cup {last'} |-> IF n = last' THEN own ELSE runs[n]]
  /\ UNCHANGED <<plans, months, req>>
(* lock-baseline of the newest run; without one it refuses. *)
Lock(r) == /\ "lock" \in Kinds /\ req[r] = Idle /\ Len(plans) < MaxPlans
           /\ last \in DOMAIN runs /\ Go(r, [Idle EXCEPT !.at = "deactivate", !.run = last])
           /\ UNCHANGED <<plans, runs, last, months>>
(* lock-baseline or feasibility/adopt with the run that a client names; it  *)
(* is not looked whether it is there.                                       *)
Adopt(r) == \E n \in 1..last :
  /\ "adopt" \in Kinds /\ req[r] = Idle /\ Len(plans) < MaxPlans
  /\ Go(r, [Idle EXCEPT !.at = "deactivate", !.run = n]) /\ UNCHANGED <<plans, runs, last, months>>
Deactivate(r) == /\ req[r].at = "deactivate" /\ Go(r, [req[r] EXCEPT !.at = "insert"])
                 /\ plans' = [i \in DOMAIN plans |-> [plans[i] EXCEPT !.active = FALSE]]
                 /\ UNCHANGED <<runs, last, months>>
Inserted(r) == plans' = Append(plans, [run |-> req[r].run, active |-> TRUE])
(* Variant: is_active has no default. *)
InsertInactive(r) == /\ req[r].at = "insert" /\ req[r].run \in DOMAIN runs /\ Active = {}
                     /\ plans' = Append(plans, [run |-> req[r].run, active |-> FALSE])
                     /\ Go(r, Idle) /\ UNCHANGED <<runs, last, months>>
(* uq_met_baseline_active_project and the foreign key of the run hold. *)
Insert(r) == /\ req[r].at = "insert" /\ req[r].run \in DOMAIN runs /\ Active = {}
             /\ Inserted(r) /\ Go(r, Idle) /\ UNCHANGED <<runs, last, months>>
(* Otherwise the INSERT fails; the deactivation is committed.               *)
InsertFails(r) == /\ req[r].at = "insert" /\ (req[r].run \in DOMAIN runs => Active # {})
                  /\ Go(r, Idle) /\ UNCHANGED <<plans, runs, last, months>>

(* A month is measured against the active plan, and then written. *)
Measure(r) == \E i \in Active, p \in Periods :
  /\ "month" \in Kinds /\ req[r] = Idle
  /\ Go(r, [Idle EXCEPT !.at = "month", !.plan = i, !.period = p]) /\ UNCHANGED <<plans, runs, last, months>>
Upsert(r) == /\ req[r].at = "month" /\ months' = [months EXCEPT ![req[r].period] = req[r].plan]
             /\ Go(r, Idle) /\ UNCHANGED <<plans, runs, last>>

(* Variant: without ON DELETE SET NULL. *)
DeleteLeaves(r) == /\ "delete" \in Kinds /\ req[r] = Idle /\ runs # <<>>
                   /\ runs' = <<>> /\ Go(r, [Idle EXCEPT !.at = "second"])
                   /\ UNCHANGED <<plans, last, months>>
(* All runs of the project go, their plans forget them ... *)
DeleteRuns(r) == /\ "delete" \in Kinds /\ req[r] = Idle /\ runs # <<>>
                 /\ runs' = <<>> /\ plans' = [i \in DOMAIN plans |-> [plans[i] EXCEPT !.run = 0]]
                 /\ Go(r, [Idle EXCEPT !.at = "second"]) /\ UNCHANGED <<last, months>>
(* ... and the second DELETE is of a table that no migration makes. *)
DeleteFails(r) == req[r].at = "second" /\ Go(r, Idle) /\ UNCHANGED <<plans, runs, last, months>>

Next == \/ NewRun
        \/ \E r \in Requests : \/ Lock(r) \/ Adopt(r) \/ Deactivate(r) \/ Insert(r) \/ InsertFails(r)
                               \/ Measure(r) \/ Upsert(r) \/ DeleteRuns(r) \/ DeleteFails(r)
Spec == Init /\ [][Next]_vars

-----------------------------------------------------------------------------
(* Locks that overlap leave one plan in force, the one inserted last.       *)
NewestActive == Active \subseteq {Len(plans)}

(* A plan names a run that is there, or none.                               *)
SourceThere == \A i \in DOMAIN plans : plans[i].run # 0 => plans[i].run \in DOMAIN runs

(* Both: what the schema and the routes keep whatever requests interleave.  *)
PlansHold == NewestActive /\ SourceThere

(* "Lock current levers + P50 KPIs as the PFS reference plan": a project    *)
(* with a plan keeps one in force whatever locks fail.                      *)
PlanInForce == plans # <<>> /\ (\A r \in Requests : req[r] = Idle) => Active # {}

(* "Variance vs locked baseline, 12-month history, drift alert.": the       *)
(* months that are shown with the plan were measured against it.            *)
VarianceOfPlan == \A p \in Periods : months[p] # 0 /\ Active # {} => months[p] \in Active

(* "Delete metallurgical-decision simulation runs for the current project." *)
(* spares the runs of other modules.                                        *)
OthersKept == [][\A n \in DOMAIN runs : ~runs[n] => n \in DOMAIN runs']_vars
=============================================================================
