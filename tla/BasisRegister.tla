--------------------------- MODULE BasisRegister ---------------------------
(***************************************************************************)
(* What services/gistm.py promises of the design bases of a project:       *)
(* "atomic state transitions (draft -> active -> superseded)".  A basis is *)
(* drafted, and in one step becomes the active one and supersedes the one  *)
(* that was.                                                               *)
(***************************************************************************)
CONSTANT Basis

VARIABLE status

Statuses == {"unborn", "draft", "active", "superseded"}

Init == status = [b \in Basis |-> "unborn"]

Draft(b) ==
  /\ status[b] = "unborn"
  /\ status' = [status EXCEPT ![b] = "draft"]

Activate(b) ==
  /\ status[b] = "draft"
  /\ status' = [c \in Basis |-> IF c = b THEN "active"
                                ELSE IF status[c] = "active" THEN "superseded"
                                ELSE status[c]]

Next == \E b \in Basis : Draft(b) \/ Activate(b)

Spec == Init /\ [][Next]_status
=============================================================================
