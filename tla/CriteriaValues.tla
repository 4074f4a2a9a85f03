--------------------------- MODULE CriteriaValues ---------------------------
(* The values of design_criteria_v2: users edit them (routes/circuit.py,    *)
(* routes/dc_pipeline.py), the laboratory's averages are put in             *)
(* (dc_generator.enrich_criteria_with_lims) and others are calculated from  *)
(* them (dc_calculator.recalculate_all, run_cascade).  A machine reads in   *)
(* one statement and writes in another, each with a guard of its own.       *)
(* Row Input is measured by the laboratory, the rows of Derived are         *)
(* calculated from it.  Source codes: X default, L laboratory, C            *)
(* calculated, M manual.                                                    *)
EXTENDS Naturals

CONSTANTS Users, Derived,
          Entered,       \* the values users enter
          MaxWrites,     \* bound: writes of users and machines
          Kinds,         \* which requests there are
          Concurrent     \* users write while a machine has read (one machine at a time)
(* What the constants must satisfy. *)
ValueConstants ==
  /\ MaxWrites \in Nat /\ Entered \subseteq 2 .. 9 /\ "input" \notin Derived /\ Concurrent \in BOOLEAN
  /\ Kinds \subseteq {"patch", "bulk", "enrich", "calculate", "cascade", "fail"}

VARIABLES rows,     \* design_criteria_v2
          seen,     \* the copy of the rows each user has on the screen
          machine,  \* the machine at work, what it has read and must still write
          last,     \* who wrote last, and which fields it was told to write
          report,   \* the rows a calculation says it updated, and those stored
          writes
vars == <<rows, seen, machine, last, report, writes>>

Rows == {"input"} \cup Derived
Fields == {"design", "nominal", "source"}
Nulls == [design |-> 99, nominal |-> 99, source |-> "NULL"]
Laboratory == 1                       \* the average of the tests
Formula(v) == 10 + v
Default == [design |-> 0, nominal |-> 0, source |-> "X", version |-> 1]
Idle == [at |-> "idle", read |-> [r \in Rows |-> Default], left |-> {}]
Manual(row) == row.source \in {"M", "O"}

Init == /\ rows = [r \in Rows |-> Default]
        /\ seen = [u \in Users |-> rows]
        /\ machine = Idle /\ writes = 0
        /\ last = [who |-> "nobody", told |-> {}]
        /\ report = [said |-> {}, stored |-> {}]

Writes(who, told) == /\ writes < MaxWrites /\ writes' = writes + 1
                     /\ last' = [who |-> who, told |-> told]

(* list_criteria: what the user edits and the version sent with the edit. *)
Look(u) == /\ seen[u] # rows
           /\ seen' = [seen EXCEPT ![u] = rows]
           /\ UNCHANGED <<rows, machine, last, report, writes>>

(* The row after an edit that gives values for the fields told; rest is     *)
(* where the other fields are taken from.                                   *)
Edited(row, told, v, rest) ==
  [row EXCEPT !.design = IF "design" \in told THEN v ELSE rest.design,
              !.nominal = IF "nominal" \in told THEN v ELSE rest.nominal,
              !.source = IF "source" \in told THEN "M" ELSE rest.source,
              !.version = @ + 1]
Seen(u, r) == seen[u][r].version = rows[r].version
Bodies == {{"design"}, {"design", "source"}, {"nominal"}}
MayEdit == Concurrent \/ machine.at = "idle"

(* One row; with a version only if it is still the row's (409 otherwise).   *)
(* The answer is the row.                                                   *)
Patch(u) == \E r \in Rows, told \in Bodies, v \in Entered, locked \in BOOLEAN :
  /\ "patch" \in Kinds /\ MayEdit /\ (locked => Seen(u, r))
  /\ Writes("user", told)
  /\ rows' = [rows EXCEPT ![r] = Edited(@, told, v, @)]
  /\ seen' = [seen EXCEPT ![u][r] = rows'[r]]
  /\ UNCHANGED <<machine, report>>

(* Several rows in one transaction, those whose version has not moved on;   *)
(* the items are dumped with their defaults, so a field not told is None.   *)
Bulk(u) == \E of \in SUBSET Rows \ {{}}, told \in Bodies, v \in Entered :
  /\ "bulk" \in Kinds /\ MayEdit
  /\ Writes("user", told)
  /\ rows' = [r \in Rows |-> IF r \in of /\ Seen(u, r)
                             THEN Edited(rows[r], told, v, Nulls) ELSE rows[r]]
  /\ UNCHANGED <<seen, machine, report>>

Begin(kind, read) == /\ kind \in Kinds /\ machine.at = "idle" /\ writes < MaxWrites
                     /\ machine' = [at |-> kind, read |-> read, left |-> Derived]
                     /\ UNCHANGED <<rows, seen, last, report, writes>>

(* enrich_criteria_with_lims: the sources are those read, and the version   *)
(* stays.  A source that is NULL counts as the default.                     *)
EnrichRead == Begin("enrich", rows)
EnrichWrite ==
  /\ machine.at = "enrich" /\ machine' = Idle /\ Writes("enrich", Fields)
  /\ rows' = IF machine.read["input"].source \in {"I", "X", "L", "D", "NULL"}
             THEN [rows EXCEPT !["input"].design = Laboratory, !["input"].source = "L"]
             ELSE rows
  /\ UNCHANGED <<seen, report>>
Calculated(row) == [row EXCEPT !.design = Formula(machine.read["input"].design),
                               !.source = "C", !.version = @ + 1]
(* recalculate_all: one transaction; the UPDATE asks again whether the row  *)
(* is manual.  A statement that fails is noted and the loop goes on, but    *)
(* the transaction is lost: what was written before it is not stored.       *)
CalculateRead == Begin("calculate", rows)
CalculateWrite ==
  LET due == {d \in Derived : ~ Manual(rows[d])} IN
  /\ machine.at = "calculate" /\ machine' = Idle /\ Writes("calculate", Fields)
  /\ \/ /\ rows' = [r \in Rows |-> IF r \in due THEN Calculated(rows[r]) ELSE rows[r]]
        /\ report' = [said |-> due, stored |-> due]
     \/ /\ "fail" \in Kinds
        /\ \E bad \in due : \E before \in SUBSET (due \ {bad}) :
             report' = [said |-> before, stored |-> {}]
        /\ UNCHANGED rows
  /\ UNCHANGED seen
(* run_cascade: the change comes with the request, whether the row has it   *)
(* or not; each row is a transaction and left alone if it was manual when   *)
(* read or is when written.                                                 *)
CascadeRead == \E v \in Entered : Begin("cascade", [rows EXCEPT !["input"].design = v])
(* Variant: the UPDATE relies on the sources read. *)
CascadeUnguarded == \E d \in machine.left :
  /\ machine.at = "cascade" /\ Writes("cascade", Fields)
  /\ machine' = IF machine.left = {d} THEN Idle ELSE [machine EXCEPT !.left = @ \ {d}]
  /\ rows' = [rows EXCEPT ![d] = IF Manual(machine.read[d]) THEN @ ELSE Calculated(@)]
  /\ UNCHANGED <<seen, report>>
CascadeWrite == \E d \in machine.left :
  /\ machine.at = "cascade" /\ Writes("cascade", Fields)
  /\ machine' = IF machine.left = {d} THEN Idle ELSE [machine EXCEPT !.left = @ \ {d}]
  /\ rows' = [rows EXCEPT ![d] = IF Manual(machine.read[d]) \/ Manual(@) THEN @ ELSE Calculated(@)]
  /\ UNCHANGED <<seen, report>>

Next == \/ \E u \in Users : Look(u) \/ Patch(u) \/ Bulk(u)
        \/ EnrichRead \/ EnrichWrite \/ CalculateRead \/ CalculateWrite
        \/ CascadeRead \/ CascadeWrite
Spec == Init /\ [][Next]_vars

-----------------------------------------------------------------------------
(* The columns, and: a default that nobody wrote has its first version. *)
TypeOK == /\ \A r \in Rows : /\ rows[r].source \in {"X", "L", "C", "M", "NULL"}
                             /\ rows[r].version \in 1 .. 1 + MaxWrites
                             /\ rows[r].source = "M" => rows[r].version > 1
          /\ machine.at \in {"idle", "enrich", "calculate", "cascade"}
          /\ machine.left \subseteq Derived /\ writes \in 0 .. MaxWrites
          /\ report.said \cup report.stored \subseteq Derived

(* A copy with the version of the row is the row, but for the laboratory's  *)
(* average, which is put in under the same version: an edit sent with its   *)
(* version undoes no edit and no calculation that its user has not seen     *)
(* (bulk_update_criteria, patch_criterion, patch_v2_row), and of what he    *)
(* has not seen only the laboratory's (enrich_criteria_with_lims).          *)
VersionTells == \A u \in Users, r \in Rows : Seen(u, r) =>
  \/ seen[u][r] = rows[r]
  \/ r = "input" /\ rows[r] = [seen[u][r] EXCEPT !.design = Laboratory, !.source = "L"]

(* A value marked manual is replaced by users only, however users write     *)
(* while a machine is at work (one at a time); except that the laboratory's *)
(* average also replaces one that was not manual when the sources were      *)
(* read, for that write asks for the id alone (dc_generator.py:375-395).    *)
OverrideKept == \A r \in Rows : Manual(rows[r]) /\ rows'[r].design # rows[r].design
  => last'.who = "user" \/ (last'.who = "enrich" /\ ~Manual(machine.read[r]))

(* An edit writes the fields it was sent. *)
OnlyWhatWasTold == last'.who = "user" => \A r \in Rows : \A f \in Fields \ last'.told :
                     rows'[r][f] = rows[r][f]

(* A calculation leaves the derived rows that are not manual equal to the   *)
(* formula of the input there is, unless that has changed since it was read *)
(* (recalculate_all).                                                       *)
CalculatedIsFresh ==
  /\ machine.at = "calculate" /\ machine'.at = "idle"
  /\ rows["input"].design = machine.read["input"].design
  => \A d \in Derived : ~ Manual(rows'[d]) => rows'[d].design = Formula(rows'["input"].design)

(* The laboratory's average replaces defaults only: the other sources say   *)
(* that the user has overridden the value.                                  *)
OnlyDefaultsReplaced == [][last'.who = "enrich" => \A r \in Rows :
  rows'[r].design # rows[r].design => rows[r].source \in {"I", "X", "NULL"}]_vars

(* What a calculation reports as updated is stored. *)
ReportIsStored == report.said = report.stored
=============================================================================
