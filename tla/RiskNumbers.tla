---------------------------- MODULE RiskNumbers ----------------------------
(* The risks of one project (routes/risks.py): who creates one numbers it   *)
(* by its category; a generation replaces those that were generated.  Each  *)
(* statement is a transaction of its own and no constraint is on numbers.   *)
EXTENDS Naturals, FiniteSets

CONSTANTS Requests, Categories,
          Generated,  \* how many risks of each category a generation may find
          Ids, MaxNumber,  \* bound the rows and the numbers of a behaviour
          Kinds,      \* which requests there are
          Concurrent  \* requests that number overlap; deletions always may
(* What the constants must satisfy. *)
RiskConstants == /\ Generated \in Nat /\ MaxNumber \in Nat /\ Concurrent \in BOOLEAN
                 /\ Kinds \subseteq {"create", "generate", "delete"}

VARIABLES risks,   \* id -> row of risks
          req,     \* what each request has read and has to insert
          added    \* the manual risks created and not deleted by anyone's wish
vars == <<risks, req, added>>

NoRisk == [cat |-> "none", num |-> 0, auto |-> FALSE]
Idle == [at |-> "idle", left |-> {}]
There == {i \in Ids : risks[i] # NoRisk}

Init == risks = [i \in Ids |-> NoRisk] /\ req = [r \in Requests |-> Idle] /\ added = {}

(* MAX of the numbers of the category, plus one. *)
NextNumber(cat) ==
  LET nums == {0} \cup {risks[i].num : i \in {j \in There : risks[j].cat = cat}}
  IN  1 + CHOOSE n \in nums : \A m \in nums : m <= n

May(r, kind) == /\ kind \in Kinds /\ req[r] = Idle
                /\ Concurrent \/ kind = "delete" \/ \A q \in Requests : req[q] = Idle
Insert(row) == \E i \in Ids \ There : risks' = [risks EXCEPT ![i] = row]

CreateNumber(r) == \E cat \in Categories :
  /\ May(r, "create") /\ There # Ids /\ NextNumber(cat) <= MaxNumber
  /\ req' = [req EXCEPT ![r] = [at |-> "create", left |-> {[cat |-> cat, num |-> NextNumber(cat), auto |-> FALSE]}]]
  /\ UNCHANGED <<risks, added>>
Create(r) == \E i \in Ids \ There, row \in req[r].left :
  /\ req[r].at = "create" /\ risks' = [risks EXCEPT ![i] = row]
  /\ req' = [req EXCEPT ![r] = Idle] /\ added' = added \cup {i}

(* Those generated before go first, and for good. *)
Clear(r) == /\ May(r, "generate")
            /\ risks' = [i \in Ids |-> IF risks[i].auto THEN NoRisk ELSE risks[i]]
            /\ req' = [req EXCEPT ![r] = [at |-> "find", left |-> {}]] /\ UNCHANGED added
(* Every risk that the rules find is numbered before any is inserted. *)
Find(r) == \E found \in [Categories -> 0..Generated] :
  /\ req[r].at = "find" /\ \A c \in Categories : NextNumber(c) <= MaxNumber
  /\ req' = [req EXCEPT ![r] =
       [at |-> "insert", left |-> UNION {{[cat |-> c, num |-> NextNumber(c), auto |-> TRUE, nth |-> n] :
                                          n \in 1..found[c]} : c \in Categories}]]
  /\ UNCHANGED <<risks, added>>
InsertOne(r) == \E row \in req[r].left :
  /\ req[r].at = "insert" /\ Insert([cat |-> row.cat, num |-> row.num, auto |-> TRUE])
  /\ req' = [req EXCEPT ![r].left = @ \ {row}] /\ UNCHANGED added
(* All inserted, or a statement failed. *)
Generate(r) == /\ req[r].at \in {"find", "insert"}
               /\ req' = [req EXCEPT ![r] = Idle] /\ UNCHANGED <<risks, added>>

Delete(r) == \E i \in There : /\ May(r, "delete") /\ risks' = [risks EXCEPT ![i] = NoRisk]
                              /\ added' = added \ {i} /\ UNCHANGED req

Next == \E r \in Requests : CreateNumber(r) \/ Create(r) \/ Clear(r) \/ Find(r) \/ InsertOne(r)
                            \/ Generate(r) \/ Delete(r)
Spec == Init /\ [][Next]_vars

-----------------------------------------------------------------------------
(* "Uses MAX on the numeric suffix so deletions never produce duplicate      *)
(* numbers" (_next_risk_number): whatever is deleted while a risk is being   *)
(* numbered and inserted, two risks of a category share a number only if one *)
(* generation found both, for it numbers all before it inserts any           *)
(* (_make_risk, _insert_generated_risks).  Requests that number one at a     *)
(* time: two that overlap may read the same MAX.                             *)
NumbersDistinct == \A i, j \in There :
  i # j /\ <<risks[i].cat, risks[i].num>> = <<risks[j].cat, risks[j].num>> => risks[i].auto /\ risks[j].auto

(* A risk that somebody wrote goes only when somebody deletes it.           *)
ManualKept == \A i \in added : i \in There /\ ~risks[i].auto

(* When no generation is under way, what is left of several is never more   *)
(* than one can find: a generation replaces the one before it.  So it is    *)
(* with generations one at a time, whatever is deleted meanwhile.           *)
OneGeneration == (\A r \in Requests : req[r] = Idle) =>
  \A c \in Categories : Cardinality({i \in There : risks[i].auto /\ risks[i].cat = c}) <= Generated
=============================================================================
