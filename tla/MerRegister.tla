---------------------------- MODULE MerRegister ----------------------------
(* The mechanical equipment of one project (routes/equipment_v2.py and      *)
(* engines/mer_generator.py).  A generation deletes, numbers and inserts in *)
(* one READ COMMITTED transaction; a DELETE removes the rows there when it  *)
(* began and waits for the transactions that have removed them already.     *)
EXTENDS Naturals, Sequences, FiniteSets

CONSTANTS Requests,
          Circuits,    \* the enabled operations: the items of each, as <<WBS code, type>>
          Filled,      \* the register has been generated before
          Kinds,       \* which requests there are
          MaxGen, MaxVersion  \* bounds on generations and edits
(* What the constants must satisfy. *)
MerConstants == /\ Filled \in BOOLEAN /\ MaxGen \in Nat /\ MaxVersion \in Nat
                       /\ Kinds \subseteq {"generate", "dry", "purge", "patch", "delete", "add"}

VARIABLES rows,  \* equipment_v2: <<generation, item number>> -> row
          gen,   \* generations so far
          req    \* each request: its place, what its statement sees, what it removes
vars == <<rows, gen, req>>

Idle == [kind |-> "none", at |-> "idle", sees |-> {}, gone |-> {}, ver |-> 0, work |-> 0]

(* The items of a circuit, as <<operation, place>>, in the order in which   *)
(* they are numbered.                                                       *)
Places(ops) == UNION {{i} \X DOMAIN ops[i] : i \in DOMAIN ops}
UpTo(ops, p) == {q \in Places(ops) : q[1] < p[1] \/ (q[1] = p[1] /\ q[2] <= p[2])}
ItemAt(ops, p) == ops[p[1]][p[2]]
Item(ops, p) == Cardinality(UpTo(ops, p))
(* The counter of the WBS code and type of an item.                         *)
SeqNo(ops, p) == Cardinality({q \in UpTo(ops, p) : ItemAt(ops, q) = ItemAt(ops, p)})
(* The rows of a generation. *)
Generated(g, ops) ==
  LET at(k) == CHOOSE p \in Places(ops) : Item(ops, p) = k
  IN  [id \in {<<g, Item(ops, p)>> : p \in Places(ops)} |->
        [tag |-> <<ItemAt(ops, at(id[2])), SeqNo(ops, at(id[2]))>>, ver |-> 1, work |-> 0, on |-> TRUE]]

Init == /\ \E ops \in Circuits : rows = IF Filled THEN Generated(1, ops) ELSE <<>>
        /\ gen = 1 /\ req = [r \in Requests |-> Idle]

May(r, kind) == kind \in Kinds /\ req[r] = Idle
HeldByOther(r, i) == \E q \in Requests \ {r} : i \in req[q].gone
Without(gone) == [i \in (DOMAIN rows) \ gone |-> rows[i]]

See(r) == \E kind \in {"generate", "dry", "purge"} :
  /\ May(r, kind) /\ (kind = "generate" => gen < MaxGen)
  /\ req' = [req EXCEPT ![r] = [Idle EXCEPT !.kind = kind, !.at = "first", !.sees = DOMAIN rows]]
  /\ UNCHANGED <<rows, gen>>
(* Of the rows it sees, those that are still there once nobody else is      *)
(* removing them.                                                          *)
Removes(r) == LET still == req[r].sees \cap DOMAIN rows
              IN  /\ \A i \in still : ~HeldByOther(r, i)
                  /\ req' = [req EXCEPT ![r].gone = @ \cup still,
                                        ![r].at = IF @ = "first" THEN "again" ELSE "insert"]
(* Variant: no second DELETE. *)
DeleteOnce(r) == LET still == req[r].sees \cap DOMAIN rows IN
  /\ req[r].at = "first" /\ req[r].kind # "purge" /\ \A i \in still : ~HeldByOther(r, i)
  /\ req' = [req EXCEPT ![r].gone = still, ![r].at = "insert"] /\ UNCHANGED <<rows, gen>>
(* The route's DELETE. *)
Delete(r) == /\ req[r].at = "first" /\ req[r].kind # "purge" /\ Removes(r) /\ UNCHANGED <<rows, gen>>
(* generate_mer begins with a DELETE of its own. *)
SeeAgain(r) == /\ req[r].at = "again"
               /\ req' = [req EXCEPT ![r].sees = DOMAIN rows, ![r].at = "second"] /\ UNCHANGED <<rows, gen>>
DeleteAgain(r) == req[r].at = "second" /\ Removes(r) /\ UNCHANGED <<rows, gen>>
(* All rows at once; a circuit without operations leaves none. *)
Generate(r) == \E ops \in Circuits :
  /\ req[r].at = "insert" /\ req[r].kind = "generate" /\ gen < MaxGen
  /\ LET new == Generated(gen + 1, ops)
     IN  rows' = [i \in DOMAIN Without(req[r].gone) \cup DOMAIN new |->
                    IF i \in DOMAIN new THEN new[i] ELSE rows[i]]
  /\ gen' = gen + 1 /\ req' = [req EXCEPT ![r] = Idle]
(* A dry run, or one that failed. *)
RollBack(r) == /\ req[r].at \in {"first", "again", "second", "insert"} /\ req[r].kind # "purge"
               /\ req' = [req EXCEPT ![r] = Idle] /\ UNCHANGED <<rows, gen>>
Purge(r) == LET still == req[r].sees \cap DOMAIN rows IN
  /\ req[r].kind = "purge" /\ \A i \in still : ~HeldByOther(r, i)
  /\ rows' = Without(still) /\ req' = [req EXCEPT ![r] = Idle] /\ UNCHANGED gen

(* A client reads an item and sends its change with the version it read. *)
Read(r) == \E i \in DOMAIN rows :
  /\ May(r, "patch") /\ rows[i].ver < MaxVersion
  /\ req' = [req EXCEPT ![r] = [Idle EXCEPT !.kind = "patch", !.at = "patch", !.sees = {i},
                                            !.ver = rows[i].ver, !.work = rows[i].work + 1]]
  /\ UNCHANGED <<rows, gen>>
Patch(r) == \E i \in req[r].sees \cap DOMAIN rows :
  /\ req[r].at = "patch" /\ ~HeldByOther(r, i) /\ rows[i].ver = req[r].ver
  /\ rows' = [rows EXCEPT ![i].ver = @ + 1, ![i].work = req[r].work]
  /\ req' = [req EXCEPT ![r] = Idle] /\ UNCHANGED gen
(* 404, or 409 with the version that is there. *)
Refuse(r) == /\ req[r].at = "patch" /\ \A i \in req[r].sees \cap DOMAIN rows : rows[i].ver # req[r].ver
             /\ req' = [req EXCEPT ![r] = Idle] /\ UNCHANGED <<rows, gen>>
(* The row stays, and its version. *)
Disable(r) == \E i \in DOMAIN rows : /\ May(r, "delete") /\ ~HeldByOther(r, i)
                                     /\ rows' = [rows EXCEPT ![i].on = FALSE] /\ UNCHANGED <<gen, req>>
(* The item is numbered, and then its fields are taken with a method that   *)
(* the model EquipmentV2In has not.                                         *)
Add(r) == /\ May(r, "add") /\ req' = [req EXCEPT ![r] = [Idle EXCEPT !.kind = "add", !.at = "error"]]
          /\ UNCHANGED <<rows, gen>>
Fail(r) == /\ req[r].at = "error" /\ req' = [req EXCEPT ![r] = Idle] /\ UNCHANGED <<rows, gen>>

Next == \E r \in Requests :
  \/ See(r) \/ Delete(r) \/ SeeAgain(r) \/ DeleteAgain(r) \/ Generate(r) \/ RollBack(r) \/ Purge(r)
  \/ Read(r) \/ Patch(r) \/ Refuse(r) \/ Disable(r)
  \/ Add(r) \/ Fail(r)
Spec == Init /\ [][Next]_vars

-----------------------------------------------------------------------------
(* "Real generation - delete existing items first, then regenerate": the     *)
(* register is never a mixture of two generations.  So it is with two that    *)
(* overlap; of three, one may see neither what the first nor what the second *)
(* has inserted.                                                             *)
OneGeneration == \A i, j \in DOMAIN rows : i[1] = j[1]

(* Items of one generation have tags of their own, though operations share  *)
(* WBS codes and types.                                                     *)
TagsDistinct == \A i, j \in DOMAIN rows : i # j /\ i[1] = j[1] => rows[i].tag # rows[j].tag

(* "Optimistic locking with version": no change is made by somebody who had *)
(* not seen the one before it.                                              *)
NoneLost == \A i \in DOMAIN rows : rows[i].work = rows[i].ver - 1

(* "Add a manual equipment item."                                            *)
AddAdds == \A r \in Requests : req[r].at # "error"
=============================================================================
