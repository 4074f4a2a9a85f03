-------------------------- MODULE CircuitTemplates --------------------------
(* The circuit templates of one project (routes/circuit.py), the snapshots *)
(* that compilations add to them (engines/compile.py) and the templates    *)
(* that other parts pick by is_active, created_at or updated_at.  What a    *)
(* template holds is how often its operations and its criteria changed.     *)
EXTENDS Naturals, FiniteSets

CONSTANTS Templates, Requests,
          Kinds,       \* which requests there are
          MaxClock,    \* bound on the writes of a behaviour
          Concurrent   \* requests interleave
(* What the constants must satisfy. *)
TemplateConstants ==
  /\ Kinds \subseteq {"create", "delete", "activate", "clone", "compile", "edit", "pipeline"}
  /\ MaxClock \in Nat /\ Concurrent \in BOOLEAN

VARIABLES tpl,    \* circuit_templates with what they hold
          clock,  \* NOW()
          req     \* what each request has read and has to do
vars == <<tpl, clock, req>>

NoRow == [made |-> 0, touched |-> 0, active |-> FALSE, snap |-> FALSE, ops |-> 0, crit |-> 0]
\* since: when an activation turned all off (for ActivationWins alone)
Idle == [do |-> "none", of |-> "none", ops |-> 0, since |-> 0]
There == {t \in Templates : tpl[t].made > 0}
Active == {t \in There : tpl[t].active}

Init == /\ tpl = [t \in Templates |-> NoRow] /\ clock = 0
        /\ req = [r \in Requests |-> Idle]

May(r, kind) == /\ kind \in Kinds /\ req[r] = Idle
                /\ Concurrent \/ \A q \in Requests : req[q] = Idle
Tick == clock < MaxClock /\ clock' = clock + 1
Now == clock + 1

(* A name is used once (UNIQUE(project_id, name)); is_active is TRUE by     *)
(* default.                                                                *)
Insert(active, snap, ops, crit) == \E t \in Templates \ There :
  tpl' = [tpl EXCEPT ![t] = [made |-> Now, touched |-> Now, active |-> active, snap |-> snap,
                             ops |-> ops, crit |-> crit]]
Create(r) == May(r, "create") /\ Tick /\ Insert(TRUE, FALSE, Now, Now) /\ UNCHANGED req
(* A compilation; its flowsheet has no snapshot yet. *)
Compile(r) == May(r, "compile") /\ Tick /\ Insert(FALSE, TRUE, Now, Now) /\ UNCHANGED req
Rename(r) == \E t \in There : /\ May(r, "edit") /\ Tick
                              /\ tpl' = [tpl EXCEPT ![t].touched = Now] /\ UNCHANGED req
(* The row stays: compilations refer to it. *)
Delete(r) == \E t \in There : /\ May(r, "delete") /\ Tick
                              /\ tpl' = [tpl EXCEPT ![t].active = FALSE, ![t].touched = Now]
                              /\ UNCHANGED req
(* An operation is removed, and its criteria with it. *)
Edit(r) == \E t \in There : /\ May(r, "edit") /\ Tick
                            /\ tpl' = [tpl EXCEPT ![t].ops = Now, ![t].crit = Now] /\ UNCHANGED req

Activate(r) == \E t \in There : /\ May(r, "activate")
                                /\ req' = [req EXCEPT ![r] = [Idle EXCEPT !.do = "off", !.of = t]]
                                /\ UNCHANGED <<tpl, clock>>
(* Variant: the others of the same age only. *)
DeactivateOlder(r) ==
  /\ req[r].do = "off" /\ Tick
  /\ tpl' = [t \in Templates |-> IF tpl[t].made > 0 /\ tpl[t].made <= tpl[req[r].of].made
                                 THEN [tpl[t] EXCEPT !.active = FALSE, !.touched = Now] ELSE tpl[t]]
  /\ req' = [req EXCEPT ![r].do = "on", ![r].since = Now]
DeactivateAll(r) ==
  /\ req[r].do = "off" /\ Tick
  /\ tpl' = [t \in Templates |-> IF tpl[t].made > 0
                                 THEN [tpl[t] EXCEPT !.active = FALSE, !.touched = Now] ELSE tpl[t]]
  /\ req' = [req EXCEPT ![r].do = "on", ![r].since = Now]
ActivateOne(r) == /\ req[r].do = "on" /\ Tick
                  /\ tpl' = [tpl EXCEPT ![req[r].of].active = TRUE, ![req[r].of].touched = Now]
                  /\ req' = [req EXCEPT ![r] = Idle]

(* Variant: any template is cloned. *)
CloneAny(r) == \E t \in There : /\ May(r, "clone")
                                /\ req' = [req EXCEPT ![r] = [Idle EXCEPT !.do = "clone", !.of = t, !.ops = tpl[t].ops]]
                                /\ UNCHANGED <<tpl, clock>>
(* Only of an active template; the operations and the criteria are read on  *)
(* connections of their own.                                               *)
Clone(r) == \E t \in Active : /\ May(r, "clone")
                              /\ req' = [req EXCEPT ![r] = [Idle EXCEPT !.do = "clone", !.of = t, !.ops = tpl[t].ops]]
                              /\ UNCHANGED <<tpl, clock>>
CloneEnd(r) == /\ req[r].do = "clone" /\ Tick /\ Insert(TRUE, FALSE, req[r].ops, tpl[req[r].of].crit)
               /\ req' = [req EXCEPT ![r] = Idle]

(* ORDER BY created_at DESC LIMIT 1, whatever it is. *)
Newest == {t \in There : \A u \in There : tpl[u].made <= tpl[t].made}
(* set_topology of the pipeline: the newest template is emptied and filled. *)
Pipeline(r) == \E t \in Newest : /\ May(r, "pipeline") /\ Tick
                                 /\ tpl' = [tpl EXCEPT ![t].ops = Now, ![t].crit = Now] /\ UNCHANGED req
(* ORDER BY is_active DESC, updated_at DESC LIMIT 1. *)
Latest(S) == {t \in S : \A u \in S : tpl[u].touched <= tpl[t].touched}
ActiveTemplate == IF Active # {} THEN Latest(Active) ELSE Latest(There)
(* ... AND is_active = TRUE ORDER BY updated_at DESC LIMIT 1. *)
CopiedFrom == Latest(Active)

Next == \E r \in Requests :
  \/ Create(r) \/ Compile(r) \/ Rename(r) \/ Delete(r) \/ Edit(r)
  \/ Activate(r) \/ DeactivateAll(r) \/ ActivateOne(r) \/ Clone(r) \/ CloneEnd(r) \/ Pipeline(r)
Spec == Init /\ [][Next]_vars

-----------------------------------------------------------------------------
(* Rows in the order of the clock; no template was changed before it was     *)
(* made.                                                                   *)
TypeOK == /\ \A t \in There : tpl[t].made <= tpl[t].touched /\ tpl[t].touched <= clock
          /\ \A t, u \in There : tpl[t].made = tpl[u].made => t = u
          /\ \A r \in Requests : req[r] # Idle => req[r].of \in There

(* The end of an activation leaves its template active, and the one that     *)
(* simulations and compilations take; another that is active then has been  *)
(* touched by an overlapping request, after all were turned off             *)
(* (activate_template).                                                     *)
ActivationWins == \A r \in Requests : req[r].do = "on" /\ req'[r] = Idle =>
  /\ ActiveTemplate' = {req[r].of} /\ CopiedFrom' = {req[r].of}
  /\ req[r].of \in Active' /\ \A t \in Active' \ {req[r].of} : tpl'[t].touched > req[r].since

(* Snapshots are not active, so no compilation copies the criteria of one   *)
(* and no template is cloned from one, unless somebody activates it.        *)
SnapshotsApart == \A r \in Requests :
  /\ \A t \in CopiedFrom : ~tpl[t].snap
  /\ req[r].do = "clone" => ~tpl[req[r].of].snap

(* "This ensures only one template is active at a time." *)
OneActive == Cardinality(Active) <= 1

(* A clone never has the criteria of an earlier state of its source than    *)
(* its operations: of the same state, unless the source is changed between  *)
(* the two reads (clone_template).                                          *)
CloneIsWhole == \A t \in There : tpl[t].ops <= tpl[t].crit

(* "an immutable circuit_template snapshot" *)
SnapshotKept == [][\A t \in There : tpl[t].snap => tpl'[t].ops = tpl[t].ops /\ tpl'[t].crit = tpl[t].crit]_vars

(* "Return the active circuit template for a project, or raise 404." *)
PickedIsActive == ActiveTemplate \subseteq Active
=============================================================================
