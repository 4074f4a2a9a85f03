------------------------------- MODULE Capex -------------------------------
(* The equipment prices and the factors of one project's capital cost       *)
(* (services/capex.py, routes/capex.py).  Every statement is a transaction  *)
(* of its own.  A price is either of a throughput or what a user said.      *)
EXTENDS Naturals, FiniteSets

CONSTANTS Keys,      \* template_key of the items of the circuits
          Circuits,  \* sets of keys
          Rows, Requests,
          MaxTph,    \* throughputs are 1..MaxTph
          Kinds,     \* which requests there are
          Concurrent
(* What the constants must satisfy. *)
CapexConstants ==
  /\ \A c \in Circuits : c \subseteq Keys
  /\ "none" \notin Keys /\ "none" \notin Rows
  /\ MaxTph \in Nat /\ Concurrent \in BOOLEAN
  /\ Kinds \subseteq {"seed", "force", "reset", "patch", "add", "delete", "factor", "tph"}

VARIABLES row,    \* equipment_v2
          factor, \* one factor of capex_factors, and its flag
          tph,    \* projects.target_tph
          circuit,\* projects.circuit_type
          req     \* what each request has read and has to do
vars == <<row, factor, tph, circuit, req>>

NoRow == [there |-> FALSE, key |-> "none", seeded |-> FALSE, over |-> FALSE, by |-> "none", n |-> 0]
Idle == [at |-> "idle", force |-> FALSE, tph |-> 0, left |-> {}, key |-> "none", id |-> "none"]
There == {i \in Rows : row[i].there}
OfKey(k) == {i \in There : row[i].key = k}
(* A row's id is new. *)
Free == {i \in Rows \ There : \A r \in Requests : i \notin req[r].left /\ i # req[r].id}

(* Perhaps with a row that the migration marked as overridden. *)
Init == /\ \E old \in SUBSET Rows :
             /\ Cardinality(old) <= 1
             /\ row = [i \in Rows |-> IF i \in old THEN [NoRow EXCEPT !.there = TRUE, !.over = TRUE, !.by = "user"]
                                     ELSE NoRow]
        /\ factor = [by |-> "none", over |-> FALSE]
        /\ tph = 1 /\ circuit = {} /\ req = [r \in Requests |-> Idle]

May(r, kind) == /\ kind \in Kinds /\ req[r] = Idle
                /\ Concurrent \/ \A q \in Requests : req[q] = Idle
(* A change of the project; nothing recomputes the prices. *)
Throughput == /\ "tph" \in Kinds /\ (Concurrent \/ \A q \in Requests : req[q] = Idle)
              /\ tph' \in (1..MaxTph) \ {tph} /\ UNCHANGED <<row, factor, circuit, req>>

Forced(i) == row[i].seeded /\ ~row[i].over
Seed(r) == \E c \in Circuits, force \in BOOLEAN :
  /\ May(r, IF force THEN "force" ELSE "seed")
  /\ circuit' = c
  /\ req' = [req EXCEPT ![r] = [Idle EXCEPT !.at = IF force THEN "clear" ELSE "take", !.force = force,
                                            !.tph = tph, !.left = c]]
  /\ UNCHANGED <<row, factor, tph>>
Clear(r) == /\ req[r].at = "clear" /\ req' = [req EXCEPT ![r].at = "take"]
            /\ row' = [i \in Rows |-> IF row[i].there /\ Forced(i) THEN NoRow ELSE row[i]]
            /\ UNCHANGED <<factor, tph, circuit>>
(* Variant: rows that are there are left alone. *)
TakeAbsent(r) == \E k \in req[r].left :
  /\ req[r].at = "take"
  /\ req' = [req EXCEPT ![r].key = k, ![r].left = @ \ {k}, ![r].at = IF OfKey(k) = {} THEN "insert" ELSE "take"]
  /\ UNCHANGED <<row, factor, tph, circuit>>
(* The row of the next key, if there is one; an override is left alone. *)
Take(r) == \E k \in req[r].left :
  /\ req[r].at = "take"
  /\ \/ /\ OfKey(k) = {}
        /\ req' = [req EXCEPT ![r].key = k, ![r].left = @ \ {k}, ![r].at = "insert"]
     \/ \E i \in OfKey(k) :
           req' = [req EXCEPT ![r].key = k, ![r].left = @ \ {k}, ![r].id = i,
                              ![r].at = IF row[i].over /\ ~req[r].force THEN "take" ELSE "update"]
  /\ UNCHANGED <<row, factor, tph, circuit>>
Priced(r, over) == [there |-> TRUE, key |-> req[r].key, seeded |-> TRUE, over |-> over, by |-> "tph", n |-> req[r].tph]
InsertItem(r) == \E i \in Free :
  /\ req[r].at = "insert" /\ row' = [row EXCEPT ![i] = Priced(r, FALSE)]
  /\ req' = [req EXCEPT ![r].at = "take"] /\ UNCHANGED <<factor, tph, circuit>>
UpdateItem(r) ==
  /\ req[r].at = "update" /\ req' = [req EXCEPT ![r].at = "take", ![r].id = "none"]
  /\ row' = [i \in Rows |-> IF i = req[r].id /\ row[i].there THEN Priced(r, row[i].over) ELSE row[i]]
  /\ UNCHANGED <<factor, tph, circuit>>
(* The factors of the circuit, where nobody has set them. *)
Defaults(r) == /\ req[r].at = "take" /\ req[r].left = {} /\ req' = [req EXCEPT ![r] = Idle]
               /\ factor' = IF factor.over THEN factor ELSE [factor EXCEPT !.by = "circuit"]
               /\ UNCHANGED <<row, tph, circuit>>

Patch(r) == \E i \in There : /\ May(r, "patch") /\ row' = [row EXCEPT ![i].by = "user", ![i].n = 0]
                             /\ UNCHANGED <<factor, tph, circuit, req>>
Add(r) == \E i \in Free :
  /\ May(r, "add") /\ row' = [row EXCEPT ![i] = [NoRow EXCEPT !.there = TRUE, !.by = "user"]]
  /\ UNCHANGED <<factor, tph, circuit, req>>
(* 409 for a row of a template. *)
Delete(r) == \E i \in There : /\ May(r, "delete") /\ ~row[i].seeded /\ row' = [row EXCEPT ![i] = NoRow]
                              /\ UNCHANGED <<factor, tph, circuit, req>>
PatchFactor(r) == /\ May(r, "factor") /\ factor' = [by |-> "user", over |-> TRUE]
                  /\ UNCHANGED <<row, tph, circuit, req>>

Parametric == {i \in There : row[i].seeded /\ ~row[i].over}
(* The row is no longer overridden; then every parametric row of the        *)
(* project is priced anew.                                                  *)
Reset(r) == \E i \in There : /\ May(r, "reset") /\ row[i].seeded /\ row' = [row EXCEPT ![i].over = FALSE]
                             /\ req' = [req EXCEPT ![r].at = "read", ![r].id = i] /\ UNCHANGED <<factor, tph, circuit>>
Read(r) == /\ req[r].at = "read"
           /\ req' = [req EXCEPT ![r].at = "price", ![r].tph = tph, ![r].left = Parametric]
           /\ UNCHANGED <<row, factor, tph, circuit>>
Reprice(r) == \E i \in req[r].left :
  /\ req[r].at = "price" /\ req' = [req EXCEPT ![r].left = @ \ {i}]
  /\ row' = IF row[i].there THEN [row EXCEPT ![i].by = "tph", ![i].n = req[r].tph] ELSE row
  /\ UNCHANGED <<factor, tph, circuit>>
Recomputed(r) == /\ req[r].at = "price" /\ req[r].left = {} /\ req' = [req EXCEPT ![r] = Idle]
                 /\ UNCHANGED <<row, factor, tph, circuit>>

(* What a reader is told of the circuit: the column is not among those read. *)
Told == {"WOL"}
(* What a factor adds, kept in hundredths of one: the code takes it for a    *)
(* number of percent and divides it by 100 once more.                       *)
Share(direct, hundredths) == ((direct * hundredths) \div 100) \div 100
Total(direct, indirect, epcm, contingency) ==
  LET one == direct + Share(direct, indirect)
      two == one + Share(one, epcm)
  IN  two + Share(two, contingency)

Next == \/ Throughput
        \/ \E r \in Requests :
             \/ Seed(r) \/ Clear(r) \/ Take(r) \/ InsertItem(r) \/ UpdateItem(r) \/ Defaults(r)
             \/ Patch(r) \/ Add(r) \/ Delete(r) \/ PatchFactor(r)
             \/ Reset(r) \/ Read(r) \/ Reprice(r) \/ Recomputed(r)
Spec == Init /\ [][Next]_vars

-----------------------------------------------------------------------------
(* "Manual rows (seeded_from_template=false) survive": no seed and no        *)
(* recomputation removes or prices a row that a user added.                  *)
ManualSurvive == (\E r \in Requests : req'[r] # req[r]) =>
                   \A i \in There : ~row[i].seeded => row'[i] = row[i]

(* "Insert/update equipment_v2": an item of a circuit is there once.         *)
OneRowPerKey == \A k \in Keys : Cardinality(OfKey(k)) <= 1

(* A factor that somebody has set is nobody else's to change.                *)
FactorKept == (\E r \in Requests : req'[r] # req[r]) /\ factor.over => factor' = factor

(* When a seed or a recomputation has ended, nothing that it covers is left  *)
(* with the price of another throughput.                                    *)
EndsPriced == \A r \in Requests : req[r].at \in {"take", "price"} /\ req'[r] = Idle =>
                \A i \in There : row'[i].by = "tph" /\ row'[i].key \in circuit => row'[i].n = req[r].tph

(* "Overridden rows keep their manual price; un-overridden recompute from    *)
(* tph." (tests/test_capex_repo.py): a row loses it by its own reset only.  *)
PriceKept == [][\A i \in There, r \in Requests :
                  req[r].at = "price" /\ i # req[r].id /\ row[i].by = "user" => row'[i].by = "user"]_vars

(* What a reader is told is the circuit that was seeded.                     *)
CircuitTold == circuit # {} => Told = circuit

(* direct 100, indirect 30 %, EPCM 15 %, contingency 15 %, one after the     *)
(* other: 171.925 (tests/test_capex_service.py).                            *)
TotalAsTested == tph > 0 => Total(100000, 30, 15, 15) = 171925
=============================================================================
