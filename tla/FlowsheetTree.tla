---------------------------- MODULE FlowsheetTree ----------------------------
(***************************************************************************)
(* The flowsheet of one project as a tree of operations                    *)
(* (routes/flowsheet_tree.py) and its creation from a catalogue template   *)
(* (routes/flowsheet_templates_route.py).  Every endpoint checks in one    *)
(* transaction and writes in the next; requests of several users, served   *)
(* by several processes, interleave between them.                          *)
(***************************************************************************)
EXTENDS Naturals, Sequences, FiniteSets

CONSTANTS
  Node,         \* identifiers of operations, never reused
  Request,      \* requests that may be under way at once
  Catalogue,    \* names of the templates of the catalogue
  Size,         \* operations of a catalogue template: here a chain
  Kinds         \* which endpoints are called: add, patch, unroot, delete, apply

(* What the constants must satisfy. *)
TreeAssumption ==
  /\ Size \in Nat \ {0} /\ {"principal", "none"} \cap Catalogue = {}
  /\ Node \cap {"root", "unborn", "deleted", "none"} = {}

VARIABLES
  recent,       \* names of the project's templates, the last updated first
  parent,       \* of each operation: another, "root", "unborn" or "deleted"
  home,         \* the template of each operation
  req           \* where each request is

vars == <<recent, parent, home, req>>

Template == Catalogue \cup {"principal"}
Idle == [pc |-> "idle", node |-> "none", target |-> "none", template |-> "none", last |-> "root"]
Live == {n \in Node : parent[n] \notin {"unborn", "deleted"}}
Names == {recent[i] : i \in DOMAIN recent}
Active == Head(recent)
Go(r, pc) == req' = [req EXCEPT ![r].pc = pc]
End(r) == req' = [req EXCEPT ![r] = Idle]

TypeOK ==
  /\ recent \in Seq(Template) /\ \A i, j \in DOMAIN recent : recent[i] = recent[j] => i = j
  /\ parent \in [Node -> Node \cup {"root", "unborn", "deleted"}]
  /\ \A n \in Node : parent[n] = "unborn" <=> home[n] = "none"
  /\ \A n \in Live : home[n] \in Names
  /\ \A r \in Request :
       req[r].pc \in {"idle", "create", "check", "insert", "update", "touch", "apply", "spin", "refused"}

Init ==
  /\ recent = <<>>
  /\ parent = [n \in Node |-> "unborn"]
  /\ home = [n \in Node |-> "none"]
  /\ req = [r \in Request |-> Idle]

Children(S) == {n \in Live : parent[n] \in S}
\* The operations below n, itself only if it lies on a cycle: the smallest set
\* that has the children of n and of its members.
Below(n) ==
  LET closed == {S \in SUBSET Node : Children(S \cup {n}) \subseteq S}
  IN  {m \in Node : \A S \in closed : m \in S}
OnCycle(n) == n \in Below(n)
Roots(t) == {n \in Live : home[n] = t /\ parent[n] = "root"}

\* Variant: the parent may be of another template.
AnyParent(p, t) == p \in Live \cup {"root"}
\* _validate_parent
ValidParent(p, t) == p \in {n \in Live : home[n] = t} \cup {"root"}

\* _get_active_template: the one updated last.
FindTemplate(r) ==
  /\ "add" \in Kinds /\ req[r].pc = "idle"
  /\ \E p \in Live \cup {"root"} :
       req' = [req EXCEPT ![r] = [Idle EXCEPT !.target = p, !.pc = IF recent = <<>> THEN "create" ELSE "check",
                                              !.template = IF recent = <<>> THEN "none" ELSE Active]]
  /\ UNCHANGED <<recent, parent, home>>

\* The INSERT of _get_or_create_template; a name that exists is an error.
\* (ensure_flowsheet is these two steps alone, an add that goes no further.)
CreateTemplate(r) ==
  /\ req[r].pc = "create"
  /\ IF "principal" \in Names
     THEN End(r) /\ UNCHANGED recent
     ELSE /\ recent' = <<"principal">> \o recent
          /\ req' = [req EXCEPT ![r].pc = "check", ![r].template = "principal"]
  /\ UNCHANGED <<parent, home>>

\* _validate_parent and _has_root: of the two only one reads.
CheckAdd(r) ==
  /\ req[r].pc = "check"
  /\ IF /\ ValidParent(req[r].target, req[r].template)
        /\ req[r].target = "root" => Roots(req[r].template) = {}
     THEN Go(r, "insert") ELSE End(r)
  /\ UNCHANGED <<recent, parent, home>>

Insert(n, p, t) == parent' = [parent EXCEPT ![n] = p] /\ home' = [home EXCEPT ![n] = t]
\* The foreign key of parent_op_id.
KeyHolds(p) == p \in Live \cup {"root"}

InsertNode(r) ==
  /\ req[r].pc = "insert"
  /\ IF KeyHolds(req[r].target)
     THEN /\ \E n \in Node : parent[n] = "unborn" /\ Insert(n, req[r].target, req[r].template)
          /\ Go(r, "touch")
     ELSE End(r) /\ UNCHANGED <<parent, home>>
  /\ UNCHANGED recent

\* The templates when t is the last updated; the others keep their order.
ToFront(t) ==
  LET k == CHOOSE k \in DOMAIN recent : recent[k] = t
  IN  [i \in DOMAIN recent |-> IF i = 1 THEN t ELSE IF i <= k THEN recent[i - 1] ELSE recent[i]]

\* UPDATE circuit_templates SET updated_at=NOW()
Touch(r) ==
  /\ req[r].pc = "touch"
  /\ recent' = ToFront(req[r].template)
  /\ End(r)
  /\ UNCHANGED <<parent, home>>

InSubtree(p, n) == p \in Below(n)

\* _node_has_descendant: the answers it may give.  It keeps no set of visited
\* nodes, so that below a cycle it may never answer.
Descends(p, n) ==
  LET lost == \E c \in Below(n) : OnCycle(c)
  IN  {answer \in {"yes", "no", "never"} :
         CASE answer = "yes"   -> InSubtree(p, n)
           [] answer = "no"    -> ~InSubtree(p, n) /\ ~lost
           [] answer = "never" -> lost}

\* The reads of patch_node with a new parent.  Operations are only ever deleted
\* between them, which the UPDATE finds out: one step stands for the three.
ReadPatch(r) ==
  /\ "patch" \in Kinds /\ req[r].pc = "idle"
  /\ \E n, p \in Live :
       /\ p # n /\ ValidParent(p, home[n])
       /\ \E answer \in Descends(p, n) :
            /\ answer # "yes"
            /\ req' = [req EXCEPT ![r] =
                 [Idle EXCEPT !.pc = IF answer = "no" THEN "update" ELSE "spin",
                              !.node = n, !.target = p, !.template = home[n]]]
  /\ UNCHANGED <<recent, parent, home>>

\* patch_node with parent_op_id null: nothing is checked.
ReadUnroot(r) ==
  /\ "unroot" \in Kinds /\ req[r].pc = "idle"
  /\ \E n \in Live :
       req' = [req EXCEPT ![r] = [Idle EXCEPT !.pc = "update", !.node = n, !.target = "root", !.template = home[n]]]
  /\ UNCHANGED <<recent, parent, home>>

UpdateNode(r) ==
  /\ req[r].pc = "update"
  /\ IF req[r].node \in Live /\ KeyHolds(req[r].target)
     THEN /\ parent' = [parent EXCEPT ![req[r].node] = req[r].target]
          /\ Go(r, "touch")
     ELSE End(r) /\ UNCHANGED parent
  /\ UNCHANGED <<recent, home>>

\* delete_node: ON DELETE CASCADE takes the subtree with it.
DeleteNode(r) ==
  /\ "delete" \in Kinds /\ req[r].pc = "idle"
  /\ \E n \in Live :
       /\ parent' = [m \in Node |-> IF m \in Below(n) \cup {n} THEN "deleted" ELSE parent[m]]
       /\ req' = [req EXCEPT ![r] = [Idle EXCEPT !.pc = "touch", !.template = home[n]]]
  /\ UNCHANGED <<recent, home>>

\* apply_template: a new row of circuit_templates, unless its name exists.
ApplyTemplate(r) ==
  /\ "apply" \in Kinds /\ req[r].pc = "idle"
  /\ \E t \in Catalogue :
       IF t \in Names
       THEN req' = [req EXCEPT ![r] = [Idle EXCEPT !.pc = "refused", !.template = t]] /\ UNCHANGED recent
       ELSE /\ recent' = <<t>> \o recent
            /\ req' = [req EXCEPT ![r] = [Idle EXCEPT !.pc = "apply", !.template = t]]
  /\ UNCHANGED <<parent, home>>

\* Its operations, a transaction each, a parent before its children.
ApplyNode(r) ==
  /\ req[r].pc = "apply"
  /\ IF KeyHolds(req[r].last)
     THEN \E n \in Node :
            /\ parent[n] = "unborn" /\ Insert(n, req[r].last, req[r].template)
            /\ req' = [req EXCEPT ![r] = IF Cardinality({m \in Node : home'[m] = req[r].template}) >= Size
                                         THEN Idle ELSE [@ EXCEPT !.last = n]]
     ELSE End(r) /\ UNCHANGED <<parent, home>>
  /\ UNCHANGED recent

\* A statement fails, or the request ends with its process.
Fails(r) ==
  /\ req[r].pc \notin {"idle", "spin"}
  /\ End(r)
  /\ UNCHANGED <<recent, parent, home>>

Step(r) ==
  \/ CreateTemplate(r) \/ CheckAdd(r) \/ InsertNode(r) \/ Touch(r)
  \/ UpdateNode(r) \/ ApplyNode(r) \/ Fails(r)

Next == \E r \in Request :
  \/ FindTemplate(r) \/ ReadPatch(r) \/ ReadUnroot(r) \/ DeleteNode(r) \/ ApplyTemplate(r)
  \/ Step(r)

\* A request that has begun is carried on.
Spec == Init /\ [][Next]_vars /\ \A r \in Request : WF_vars(Step(r))

-----------------------------------------------------------------------------
\* Every operation hangs from a root: none is its own ancestor
\* ("Reject cycle: new parent must not be in subtree of this node").
Acyclic == \A n \in Live : ~OnCycle(n)

\* A template has at most one root ("A second root is rejected").
OneRoot == \A t \in Template : Cardinality(Roots(t)) <= 1

\* An operation and its parent are of one template, whatever was deleted,
\* moved or applied while the request looked for the active template.
SameTemplate == \A n \in Live : parent[n] \in Node => parent[n] \in Live /\ home[parent[n]] = home[n]

\* However many first requests create the flowsheet, it is created once.
CreatedOnce == Cardinality({i \in DOMAIN recent : recent[i] = "principal"}) <= 1

\* A flowsheet taken from the catalogue has all of its template's operations
\* or none ("Creates a fresh circuit_template + cascades all operations").
AppliedWhole == \A t \in Catalogue \cap Names :
  (\A r \in Request : req[r].template # t) => Cardinality({n \in Node : home[n] = t}) \in {0, Size}

\* A template is applied whatever the project already has ("If the project
\* already has a flowsheet, a new circuit_template is created").
ApplyIsServed == \A r \in Request : req[r].pc # "refused"

\* Every request is answered: none walks the tree for ever.
Waits(r) == req[r].pc # "idle"
=============================================================================
