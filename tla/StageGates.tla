----------------------------- MODULE StageGates -----------------------------
(***************************************************************************)
(* The stage gates of one project (routes/stagegates.py), the checklist    *)
(* items and gate-blocking risks they depend on (routes/risks.py), and the *)
(* dashboard that counts them (routes/dashboard.py).  A request reads the  *)
(* gate's risks, then its items, then sets it Approved: three              *)
(* transactions, with other requests between them.                         *)
(***************************************************************************)
EXTENDS Naturals

CONSTANTS
  Stage,          \* numbers, in stage_order
  Item, Risk,     \* rows that users may add
  Reader,         \* requests that list the stages
  Approver,       \* requests that approve a gate
  Overlap         \* other changes while an approval is under way

(* What the constants must satisfy.                                        *)
StageAssumption == Stage \subseteq Nat \ {0} /\ Overlap \in BOOLEAN

VARIABLES
  gates,          \* the rows of each stage: how many, and their status
  items,          \* checklist items; those of the template are one, number 0
  risks,
  lister,         \* where each list request is in _init_stages
  approver        \* where each approve request is

vars == <<gates, items, risks, lister, approver>>

Template == 0
AllItems == Item \cup {Template}
\* An item that is not Approved is in one of four statuses; to a gate they are one.
ItemRow == [stage : Stage \cup {0}, status : {"NotStarted", "Approved"}, is_done : BOOLEAN]
RiskRow == [stage : Stage \cup {0}, blocker : BOOLEAN, status : {"Open", "Mitigated", "Closed"}]
NoItem == [stage |-> 0, status |-> "NotStarted", is_done |-> FALSE]
NoRisk == [stage |-> 0, blocker |-> FALSE, status |-> "Open"]
Away == [pc |-> "idle", stage |-> 0]

TypeOK ==
  /\ gates \in [Stage -> [rows : Nat, status : {"NotStarted", "Approved"}]]
  /\ items \in [Stage \X AllItems -> ItemRow]
  /\ risks \in [Risk -> RiskRow]
  /\ lister \in [Reader -> {"idle", "insert", "list"}]
  /\ approver \in [Approver -> [pc : {"idle", "items", "update"}, stage : Stage \cup {0}]]

Init ==
  /\ gates = [s \in Stage |-> [rows |-> 0, status |-> "NotStarted"]]
  /\ items = [x \in Stage \X AllItems |-> NoItem]
  /\ risks = [r \in Risk |-> NoRisk]
  /\ lister = [q \in Reader |-> "idle"]
  /\ approver = [a \in Approver |-> Away]

Exists(s) == gates[s].rows > 0
ItemsOf(s) == {i \in AllItems : items[<<s, i>>].stage = s}
Done(i) == i.status = "Approved" \/ i.is_done
Blocks(r, s) == r.stage = s /\ r.blocker /\ r.status # "Closed"
Quiet == Overlap \/ \A a \in Approver : approver[a].pc = "idle"

\* _init_stages: are there stages?
LookForStages(q) ==
  /\ lister[q] = "idle"
  /\ lister' = [lister EXCEPT ![q] = IF \E s \in Stage : Exists(s) THEN "list" ELSE "insert"]
  /\ UNCHANGED <<gates, items, risks, approver>>

Inserted(s) == [gates EXCEPT ![s].rows = @ + 1]
WithTemplate(S) == [x \in Stage \X AllItems |->
                      IF x[1] \in S /\ x[2] = Template THEN [NoItem EXCEPT !.stage = x[1]] ELSE items[x]]

\* One transaction inserts every stage and its items.  A second one waits for
\* the first and then violates UNIQUE (project_id, stage_name): it fails whole.
InsertStages(q) ==
  /\ lister[q] = "insert"
  /\ IF \E s \in Stage : Exists(s)
     THEN /\ lister' = [lister EXCEPT ![q] = "idle"]
          /\ UNCHANGED <<gates, items>>
     ELSE /\ gates' = [s \in Stage |-> Inserted(s)[s]]
          /\ items' = WithTemplate(Stage)
          /\ lister' = [lister EXCEPT ![q] = "list"]
  /\ UNCHANGED <<risks, approver>>

\* The rows are read and answered.
ListStages(q) ==
  /\ lister[q] = "list"
  /\ lister' = [lister EXCEPT ![q] = "idle"]
  /\ UNCHANGED <<gates, items, risks, approver>>

\* add_checklist_item.
AddItem(s, i) ==
  /\ Quiet /\ Exists(s)
  /\ i \in Item \ ItemsOf(s)
  /\ items' = [items EXCEPT ![<<s, i>>] = [NoItem EXCEPT !.stage = s]]
  /\ UNCHANGED <<gates, risks, lister, approver>>

\* update_checklist_item: any status, and is_done independently of it.
PatchItem(s, i, status, is_done) ==
  /\ Quiet
  /\ i \in ItemsOf(s)
  /\ items' = [items EXCEPT ![<<s, i>>] = [@ EXCEPT !.status = status, !.is_done = is_done]]
  /\ UNCHANGED <<gates, risks, lister, approver>>

\* create_risk, update_risk, delete_risk (a risk of no stage blocks none).
PutRisk(r, row) ==
  /\ Quiet
  /\ row.stage # 0 => Exists(row.stage)
  /\ risks' = [risks EXCEPT ![r] = row]
  /\ UNCHANGED <<gates, items, lister, approver>>

\* Variant: only an open risk counts.
CheckOpenRisks(a, s) ==
  /\ approver[a].pc = "idle" /\ Exists(s)
  /\ ~\E r \in Risk : Blocks(risks[r], s) /\ risks[r].status = "Open"
  /\ approver' = [approver EXCEPT ![a] = [pc |-> "items", stage |-> s]]
  /\ UNCHANGED <<gates, items, risks, lister>>

\* approve_gate: no blocking risk ...
CheckRisks(a, s) ==
  /\ approver[a].pc = "idle" /\ Exists(s)
  /\ ~\E r \in Risk : Blocks(risks[r], s)
  /\ approver' = [approver EXCEPT ![a] = [pc |-> "items", stage |-> s]]
  /\ UNCHANGED <<gates, items, risks, lister>>

\* The stage the readiness is looked up for: none, for no stage_name of STAGES
\* is, in lower case, a key of ni43101_stage_map.
StageNames == {"stage 1 - phase conceptuelle / scoping", "stage 2 - etude de pre-faisabilite (pfs)",
  "stage 3 - etude de faisabilite (fs / bfs)", "stage 4 - ingenierie de base (basic engineering)",
  "stage 5 - ingenierie detaillee (feed / detailed design)", "stage 6 - construction & commissioning"}
StageMapKeys == {"conceptual", "scoping", "pre-feasibility", "feasibility",
  "basic engineering", "detailed engineering"}
ReadinessLookedUp == StageNames \cap StageMapKeys # {}

\* ... every item done ...
CheckItems(a) ==
  /\ approver[a].pc = "items"
  /\ approver' = [approver EXCEPT ![a] =
       IF \A i \in ItemsOf(@.stage) : Done(items[<<@.stage, i>>]) THEN [@ EXCEPT !.pc = "update"] ELSE Away]
  /\ UNCHANGED <<gates, items, risks, lister>>

\* ... and the gate is approved.
Approve(a) ==
  /\ approver[a].pc = "update"
  /\ gates' = [gates EXCEPT ![approver[a].stage].status = "Approved"]
  /\ approver' = [approver EXCEPT ![a] = Away]
  /\ UNCHANGED <<items, risks, lister>>

ResetGate(s) ==
  /\ Exists(s)
  /\ gates' = [gates EXCEPT ![s].status = "NotStarted"]
  /\ UNCHANGED <<items, risks, lister, approver>>

Next ==
  \/ \E q \in Reader : LookForStages(q) \/ InsertStages(q) \/ ListStages(q)
  \/ \E s \in Stage :
       \/ ResetGate(s)
       \/ \E i \in AllItems :
            \/ AddItem(s, i)
            \/ \E status \in {"NotStarted", "Approved"}, d \in BOOLEAN : PatchItem(s, i, status, d)
       \/ \E a \in Approver : CheckRisks(a, s)
  \/ \E r \in Risk, row \in RiskRow : PutRisk(r, row)
  \/ \E a \in Approver : CheckItems(a) \/ Approve(a)

Spec == Init /\ [][Next]_vars
-----------------------------------------------------------------------------
\* "Uses a single transaction for all stages + checklist items to avoid partial
\* initialization": whatever requests come first together, there is one row of
\* every stage with its checklist, or nothing.
AllOrNothing ==
  \/ \A s \in Stage : gates[s].rows = 0 /\ ItemsOf(s) = {}
  \/ \A s \in Stage : gates[s].rows = 1 /\ Template \in ItemsOf(s)

\* "Checks all checklists are complete and no blocking risks": a gate that
\* becomes Approved has no open item and no blocking risk.
ApprovalIsClear ==
  \A s \in Stage : gates[s].status # "Approved" /\ gates'[s].status = "Approved" =>
    /\ \A i \in ItemsOf(s) : Done(items[<<s, i>>])
    /\ ~\E r \in Risk : Blocks(risks[r], s)

\* dashboard.py: the phases it counts as complete ("approved", "complete").
Complete(s) == gates[s].status \in {"approved", "complete"}

\* "First non-complete gate is the current phase": a phase whose gate has been
\* approved is not the current one.
CurrentPhaseIsOpen ==
  \A s \in Stage :
    Exists(s) /\ ~Complete(s) /\ (\A t \in Stage : t < s => Complete(t)) => gates[s].status # "Approved"

\* "Check NI 43-101 readiness for this stage": an approval looks it up.
ReadinessIsChecked == \A a \in Approver : approver[a].pc = "update" => ReadinessLookedUp
=============================================================================
