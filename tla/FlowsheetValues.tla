--------------------------- MODULE FlowsheetValues ---------------------------
(***************************************************************************)
(* The values of one operation of a flowsheet (routes/flowsheet_tree.py):  *)
(* a patch reads the row, works out values_source from what it read and    *)
(* its body, and writes the fields of its body and values_source in        *)
(* another transaction.                                                    *)
(***************************************************************************)
EXTENDS Naturals

CONSTANTS
  Field,        \* recovery_pct, throughput_tph, water_m3h, grade_au_gt: some of them
  Request       \* patches that may be under way at once

VARIABLES
  value,        \* of each field of the row: "null" or "set"
  source,       \* values_source
  lims,         \* the fields for which the laboratory has a default
  req           \* of each patch: its body and the row it read

vars == <<value, source, lims, req>>

Body == [Field -> {"absent", "null", "set"}]
Idle == [pc |-> "idle", body |-> [f \in Field |-> "absent"], read |-> [f \in Field |-> "null"]]

TypeOK ==
  /\ value \in [Field -> {"null", "set"}]
  /\ source \in {"manual", "lims_auto"}
  /\ lims \subseteq Field
  /\ \A r \in Request : req[r] \in [pc : {"idle", "write"}, body : Body, read : [Field -> {"null", "set"}]]

Told(v) == IF \E f \in Field : v[f] = "set" THEN "manual" ELSE "lims_auto"

\* add_node, or an operation of the catalogue when no value is set.
Init ==
  /\ value \in [Field -> {"null", "set"}]
  /\ source = Told(value)
  /\ lims \in SUBSET Field
  /\ req = [r \in Request |-> Idle]

Merged(row, body) == [f \in Field |-> IF body[f] = "absent" THEN row[f] ELSE body[f]]

Read(r) ==
  /\ req[r].pc = "idle"
  /\ \E body \in Body \ {Idle.body} :
       req' = [req EXCEPT ![r] = [pc |-> "write", body |-> body, read |-> value]]
  /\ UNCHANGED <<value, source, lims>>

Write(r) ==
  /\ req[r].pc = "write"
  /\ value' = Merged(value, req[r].body)
  /\ source' = Told(Merged(req[r].read, req[r].body))
  /\ req' = [req EXCEPT ![r] = Idle]
  /\ UNCHANGED lims

Next == \E r \in Request : Read(r) \/ Write(r)
Spec == Init /\ [][Next]_vars

\* _row_to_node: where the value shown for a field comes from.
Shown(f) ==
  IF value[f] = "set" THEN source ELSE IF f \in lims THEN "lims_auto" ELSE "missing"
NodeSource ==
  LET shown == {Shown(f) : f \in Field}
  IN  IF "manual" \in shown THEN "manual" ELSE IF "lims_auto" \in shown THEN "lims_auto" ELSE "missing"

-----------------------------------------------------------------------------
\* The row says 'manual' exactly while it has a value ("Setting any value to
\* non-null switches values_source to 'manual'. Setting all four values to
\* null resets values_source to 'lims_auto'").
SourceTold == source = Told(value)

\* What a user entered is not shown as the laboratory's, nor the other way
\* round, whichever patches led to the row.
ShownAsEntered ==
  /\ \A f \in Field : value[f] = "set" => Shown(f) = "manual"
  /\ NodeSource = "manual" <=> \E f \in Field : value[f] = "set"
=============================================================================
