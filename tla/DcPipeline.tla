----------------------------- MODULE DcPipeline -----------------------------
(* The steps of a project's design criteria (routes/dc_pipeline.py): the    *)
(* topology is set, steps are validated, the criteria are edited, frozen    *)
(* and compared.  Every statement is a transaction of its own.  An          *)
(* operation has one criterion; 0 stands for no row.                        *)
EXTENDS Naturals, Sequences, SequencesExt

CONSTANTS Ops,        \* the classes of operations that decide on steps
          Labels, Values, Requests,
          Kinds,      \* which requests there are
          Marked,     \* bound: the steps that are validated in a behaviour
          MaxFrozen,  \* bound on the snapshots
          Concurrent  \* requests interleave
(* What the constants must satisfy. *)
PipelineConstants ==
  /\ Ops \subseteq {"flotation", "regrind", "gravity", "pretreatment", "mill"}
  /\ Kinds \subseteq {"topology", "validate", "edit", "freeze", "fail"}
  /\ Values \subseteq Nat \ {0} /\ MaxFrozen \in Nat /\ Concurrent \in BOOLEAN

VARIABLES op,      \* circuit_operations
          crit,    \* design_criteria_v2: the values
          status,  \* pipeline_state: the validated steps
          snaps,   \* dc_snapshots, in the order of frozen_at
          req      \* what each request has read and has to do
vars == <<op, crit, status, snaps, req>>

BaseSteps == <<"data_input", "topology", "comminution", "leaching", "auxiliaries", "freeze">>
After == [flotation |-> "topology", regrind |-> "flotation", gravity |-> "comminution",
          pretreatment |-> "gravity"]
Conditional == DOMAIN After
AllSteps == ToSet(BaseSteps) \cup Conditional
(* A base step and the conditional ones whose anchor it is. *)
Steps(present) ==
  FlattenSeq([i \in 1..Len(BaseSteps) |->
    <<BaseSteps[i]>> \o SetToSeq({c \in Conditional \cap present : After[c] = BaseSteps[i]})])

Idle == [do |-> "none", ops |-> {}, step |-> "none", seen |-> {}, rows |-> <<>>, prev |-> 0]
None == [o \in Ops |-> 0]
Init == /\ op = {} /\ crit = None /\ status = {} /\ snaps = <<>>
        /\ req = [r \in Requests |-> Idle]

May(r, kind) == /\ kind \in Kinds /\ req[r] = Idle
                /\ Concurrent \/ \A q \in Requests : req[q] = Idle
Go(r, new) == req' = [req EXCEPT ![r] = new]

-----------------------------------------------------------------------------
(* set_topology: the criteria are deleted, then the operations; the new     *)
(* ones are inserted one by one and given their criteria one by one.        *)
Topology(r) == \E new \in SUBSET Ops \ {{}} :
  /\ May(r, "topology") /\ crit' = None
  /\ Go(r, [Idle EXCEPT !.do = "drop", !.ops = new, !.seen = new])
  /\ UNCHANGED <<op, status, snaps>>
Drop(r) == /\ req[r].do = "drop" /\ op' = {} /\ Go(r, [req[r] EXCEPT !.do = "insert"])
           /\ UNCHANGED <<crit, status, snaps>>
Insert(r) == /\ req[r].do = "insert" /\ UNCHANGED <<crit, status, snaps>>
             /\ \/ \E o \in req[r].ops : op' = op \cup {o} /\ Go(r, [req[r] EXCEPT !.ops = @ \ {o}])
                \/ /\ req[r].ops = {} /\ UNCHANGED op
                   /\ Go(r, [req[r] EXCEPT !.do = "generate", !.ops = req[r].seen])
Generate(r) == \E o \in req[r].ops, v \in Values :
  /\ req[r].do = "generate" /\ crit' = [crit EXCEPT ![o] = v]
  /\ Go(r, [req[r] EXCEPT !.ops = @ \ {o}]) /\ UNCHANGED <<op, status, snaps>>
(* At last the topology is marked, merged into the state (||). *)
Told(r) == /\ req[r].do = "generate" /\ req[r].ops = {} /\ status' = status \cup {"topology", "data_input"}
           /\ Go(r, Idle) /\ UNCHANGED <<op, crit, snaps>>
(* A statement fails: what was done stays. *)
Fail(r) == /\ "fail" \in Kinds /\ req[r].do \in {"drop", "insert", "generate"}
           /\ Go(r, [Idle EXCEPT !.do = "failed"]) /\ UNCHANGED <<op, crit, status, snaps>>

(* handle_step: the state is read, and written back as a whole. *)
Validate(r) == \E s \in AllSteps \cap Marked : /\ May(r, "validate")
                                   /\ Go(r, [Idle EXCEPT !.do = "validate", !.step = s, !.seen = status])
                                   /\ UNCHANGED <<op, crit, status, snaps>>
Mark(r) == /\ req[r].do = "validate" /\ status' = req[r].seen \cup {req[r].step}
           /\ Go(r, Idle) /\ UNCHANGED <<op, crit, snaps>>

Edit(r) == \E o \in Ops, v \in Values : /\ May(r, "edit") /\ crit[o] # 0
                                        /\ crit' = [crit EXCEPT ![o] = v]
                                        /\ UNCHANGED <<op, status, snaps, req>>

(* freeze_snapshot: the rows are read and written as JSON, in which a       *)
(* NUMERIC is a text; then the newest snapshot is read.                     *)
Row(v, text) == [value |-> v, text |-> text]
Frozen(c) == [o \in Ops |-> Row(c[o], c[o] # 0)]
Draft(c) == [o \in Ops |-> Row(c[o], FALSE)]
Freeze(r) == /\ May(r, "freeze") /\ crit # None
             /\ Go(r, [Idle EXCEPT !.do = "previous", !.rows = Frozen(crit)])
             /\ UNCHANGED <<op, crit, status, snaps>>
Previous(r) == /\ req[r].do = "previous" /\ Go(r, [req[r] EXCEPT !.do = "freeze", !.prev = Len(snaps)])
               /\ UNCHANGED <<op, crit, status, snaps>>
Used == {snaps[i].label : i \in DOMAIN snaps}
(* A label is used once (UNIQUE): the request fails otherwise. *)
Snapshot(r) == \E l \in Labels :
  /\ req[r].do = "freeze" /\ Len(snaps) < MaxFrozen
  /\ IF l \in Used THEN UNCHANGED snaps
     ELSE snaps' = Append(snaps, [label |-> l, prev |-> req[r].prev, rows |-> req[r].rows])
  /\ Go(r, Idle) /\ UNCHANGED <<op, crit, status>>

(* diff_snapshots *)
Changes(a, b) == {o \in Ops : a[o] # b[o]}

Next == \E r \in Requests :
  \/ Topology(r) \/ Drop(r) \/ Insert(r) \/ Generate(r) \/ Told(r) \/ Fail(r) \/ Validate(r) \/ Mark(r)
  \/ Edit(r) \/ Freeze(r) \/ Previous(r) \/ Snapshot(r)
Spec == Init /\ [][Next]_vars

-----------------------------------------------------------------------------
(* Snapshots have labels of their own and follow an earlier one.             *)
TypeOK == /\ status \subseteq AllSteps /\ op \subseteq Ops
          /\ \A i, j \in DOMAIN snaps : snaps[i].label = snaps[j].label => i = j
          /\ \A i \in DOMAIN snaps : snaps[i].prev < i

(* While no topology is being set, and none failed half-way, what a freeze   *)
(* reads has a criterion for every operation of the template, however        *)
(* topologies have overlapped before.                                        *)
Setting == \E q \in Requests : req[q].do \in {"drop", "insert", "generate", "failed"}
FrozenWhole == ~Setting => \A o \in op : Frozen(crit)[o].value # 0

(* "Mark this step as validated": a mark is lost only to another validation, *)
(* one that had read the state before it was made (handle_step); a topology  *)
(* that is set loses none.                                                   *)
MarksStay == status \subseteq status' \/ \E r \in Requests :
  req[r].do = "validate" /\ req'[r] = Idle /\ (status \ status') \cap req[r].seen = {}

(* "Insert conditional steps after their anchor": the step of an operation   *)
(* of the template is shown exactly if its anchor is one that always is; so  *)
(* those of regrind and pretreatment never are (_build_pipeline_steps).      *)
EveryStepShown == \A o \in op \cap Conditional :
  o \in ToSet(Steps(op)) <=> After[o] \in ToSet(BaseSteps)

(* The steps shown are in the order of the process, each once.               *)
StepsInOrder == LET s == Steps(op) IN
  /\ \A i, j \in DOMAIN s : s[i] = s[j] => i = j
  /\ \A i, j \in DOMAIN BaseSteps : i < j =>
       \E p, q \in DOMAIN s : p < q /\ s[p] = BaseSteps[i] /\ s[q] = BaseSteps[j]
  /\ \A i \in DOMAIN s : s[i] \in Conditional => i > 1 /\ s[i - 1] = After[s[i]]

(* "Compare two snapshots, or a snapshot vs current draft": what did not     *)
(* change since is no change.                                               *)
DraftDiffIsChange == \A i \in DOMAIN snaps :
  Changes(snaps[i].rows, Draft(crit)) = {o \in Ops : snaps[i].rows[o].value # crit[o]}
=============================================================================
