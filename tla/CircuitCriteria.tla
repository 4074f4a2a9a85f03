-------------------------- MODULE CircuitCriteria --------------------------
(* The operations of one circuit template and the criteria generated for   *)
(* them (routes/circuit.py, and set_topology of routes/dc_pipeline.py).  A *)
(* request is a list of statements, each a transaction, that it works      *)
(* through; another request may come between two.  A criterion is found by *)
(* its reference: the section, worked out of a sort order, and a suffix.   *)
EXTENDS Naturals, Sequences

CONSTANTS Requests,
          Ops,        \* operations of the catalogue
          Order,      \* their place in the process: PROCESS_OP_ORDER
          Deps,       \* what an operation depends on, in the catalogue
          Kinds,      \* which requests there are
          Concurrent  \* requests interleave
(* What the constants must satisfy. *)
CriteriaConstants == /\ Order \in [Ops -> Nat] /\ Deps \in [Ops -> SUBSET Ops] /\ Concurrent \in BOOLEAN
                            /\ Kinds \subseteq {"add", "remove", "regenerate", "topology", "patch"}

VARIABLES op,     \* circuit_operations: the operations and their sort order
          crit,   \* design_criteria_v2: references to operation and enabled
          req     \* what each request still has to do
vars == <<op, crit, req>>

Suffixes == {1, 2}                       \* default criteria of an operation
Out == 9999                              \* sort order of an operation not in the template
In == {o \in Ops : op[o] # Out}
Section(sort) == sort \div 10
Sections == {Section(Order[o]) : o \in Ops} \cup {Section(Order[o]) + 1 : o \in Ops} \cup {1, 2}
Refs == Sections \X Suffixes
NoRow == [op |-> "none", enabled |-> FALSE]

Init == /\ op = [o \in Ops |-> Out]
        /\ crit = [f \in Refs |-> NoRow]
        /\ req = [r \in Requests |-> <<>>]

Quiet == \A r \in Requests : req[r] = <<>>
May(r) == req[r] = <<>> /\ (Concurrent \/ Quiet)
Ask(r, kind, todo) == /\ kind \in Kinds /\ May(r)
                      /\ req' = [req EXCEPT ![r] = todo]
                      /\ UNCHANGED <<op, crit>>

(* The statements: put an operation in (an error when it is there, and the *)
(* request ends), generate its criteria, take it out and disable its       *)
(* criteria, delete its criteria, delete all criteria, all operations.     *)
Insert(o, sort) == [do |-> "insert", op |-> o, sort |-> sort]
Generate(o, sort) == [do |-> "generate", op |-> o, sort |-> sort]
Uncheck(o) == [do |-> "uncheck", op |-> o, sort |-> Out]
Forget(o) == [do |-> "forget", op |-> o, sort |-> Out]
Wipe == [do |-> "wipe", op |-> "all", sort |-> Out]
Drop == [do |-> "drop", op |-> "all", sort |-> Out]

(* The next free place in the decade of the operation. *)
Place(o) ==
  LET taken == {op[p] : p \in {p \in In : op[p] >= Order[o] /\ op[p] < Order[o] + 10}}
  IN IF taken = {} THEN Order[o] ELSE 1 + CHOOSE s \in taken : \A t \in taken : t <= s

Add(r) == \E o \in Ops : Ask(r, "add", <<Insert(o, Place(o)), Generate(o, Place(o))>>)
(* Not when an operation of the template depends on it (where adding one   *)
(* without what it depends on is only a warning).                          *)
Remove(r) == \E o \in In : (\A p \in In : o \notin Deps[p]) /\ Ask(r, "remove", <<Uncheck(o)>>)
Regenerate(r) == \E o \in In, force \in BOOLEAN :
  Ask(r, "regenerate", IF force THEN <<Forget(o), Generate(o, Order[o])>> ELSE <<Generate(o, Order[o])>>)
(* The operations get sort orders 0, 10, ..., their criteria 10, 20, ... *)
Topology(r) == \E o, p \in Ops : o # p /\
  Ask(r, "topology", <<Wipe, Drop, Insert(o, 0), Insert(p, 10), Generate(o, 10), Generate(p, 20)>>)
(* A new sort order: any place of a decade. *)
PatchSort(r) == \E o \in In, p \in Ops :
  /\ "patch" \in Kinds /\ May(r)
  /\ op' = [op EXCEPT ![o] = Order[p] + 9]
  /\ UNCHANGED <<crit, req>>

Disabled(o) == [f \in Refs |-> IF crit[f].op = o THEN [crit[f] EXCEPT !.enabled = FALSE] ELSE crit[f]]

(* Variant: ON CONFLICT DO NOTHING. *)
GeneratedOnce(o, sort) ==
  [f \in Refs |-> IF f[1] = Section(sort) /\ crit[f] = NoRow
                  THEN [op |-> o, enabled |-> TRUE] ELSE crit[f]]
(* ON CONFLICT (template_id, ref_number) DO UPDATE SET enabled = TRUE ...   *)
(* WHERE the row is of the same operation: another's row is left alone.     *)
Generated(o, sort) ==
  [f \in Refs |-> IF f[1] = Section(sort) /\ crit[f].op \in {o, "none"}
                  THEN [op |-> o, enabled |-> TRUE] ELSE crit[f]]

(* One statement: what it does to the operations and to the criteria.      *)
Fails(s) == s.do = "insert" /\ op[s.op] # Out
Do(s) ==
  /\ op' = CASE s.do = "insert" -> IF Fails(s) THEN op ELSE [op EXCEPT ![s.op] = s.sort]
             [] s.do = "uncheck" -> [op EXCEPT ![s.op] = Out]
             [] s.do = "drop" -> [o \in Ops |-> Out]
             [] OTHER -> op
  /\ crit' = CASE s.do = "generate" -> Generated(s.op, s.sort)
               [] s.do = "uncheck" -> Disabled(s.op)
               [] s.do = "forget" -> [f \in Refs |-> IF crit[f].op = s.op THEN NoRow ELSE crit[f]]
               [] s.do = "wipe" -> [f \in Refs |-> NoRow]
               [] OTHER -> crit
Step(r) == /\ req[r] # <<>>
           /\ Do(Head(req[r]))
           /\ req' = [req EXCEPT ![r] = IF Fails(Head(req[r])) THEN <<>> ELSE Tail(req[r])]

Next == \E r \in Requests : Add(r) \/ Remove(r) \/ Regenerate(r) \/ Topology(r) \/ PatchSort(r) \/ Step(r)
Spec == Init /\ [][Next]_vars

-----------------------------------------------------------------------------
EnabledOf(o) == {f \in Refs : crit[f].op = o /\ crit[f].enabled}

(* Operations, rows and requests; a row that is not there is not enabled. *)
TypeOK == /\ \A f \in Refs : crit[f].op \in Ops \cup {"none"} /\ (crit[f].enabled => crit[f].op \in Ops)
          /\ op \in [Ops -> Nat]
          /\ \A r \in Requests : Len(req[r]) <= 6

(* When no request is under way the enabled criteria are of operations of   *)
(* the template (remove_operation disables them).                           *)
NoOrphans == Quiet => \A f \in Refs : crit[f].enabled => crit[f].op \in In

(* Each operation of the template has its default criteria                  *)
(* (add_operation generates them).                                          *)
Complete == Quiet => \A o \in In : \A k \in Suffixes : \E f \in EnabledOf(o) : f[2] = k

(* No criterion of an operation is there twice, however often it is         *)
(* regenerated, removed and added (the key on the reference sees to it).    *)
NoDuplicate == Quiet => \A o \in Ops : \A f, g \in EnabledOf(o) : f[2] = g[2] => f = g
=============================================================================
