---------------------------- MODULE DesignBasis ----------------------------
(***************************************************************************)
(* The GISTM design bases of one project (services/gistm.py) and the TSF   *)
(* designs evaluated against them (routes/geotech.py).  The activation of  *)
(* a basis is one transaction of three statements under READ COMMITTED:    *)
(* row locks are waited for, an UPDATE looks again at a row it waited for  *)
(* but not for rows that became eligible meanwhile, and the partial unique *)
(* index makes the second of two activations wait and then fail.           *)
(***************************************************************************)
EXTENDS Naturals, FiniteSetsExt

CONSTANTS
  Basis,          \* rows of gistm_design_basis
  Author,         \* requests that draft a basis
  Manager,        \* requests that activate one
  Design,         \* TSF designs to record
  NoBasis,        \* NULL in a column that refers to a basis
  Faults          \* transactions can fail

ASSUME BasisAssumption == NoBasis \notin Basis /\ Faults \in BOOLEAN

VARIABLES
  status, version,  \* the committed rows of gistm_design_basis
  drafting,         \* per author: the version it is about to insert, or 0
  tx,               \* per manager: the transaction of activate_basis
  design            \* tsf_design rows and their evaluation

vars == <<status, version, drafting, tx, design>>

\* row: the basis to activate; seen: the active rows the first UPDATE found;
\* drop: those it has locked and superseded.
Tx == [pc : {"idle", "supersede", "update", "activate", "commit"},
       row : Basis \cup {NoBasis}, seen : SUBSET Basis, drop : SUBSET Basis]
NoTx == [pc |-> "idle", row |-> NoBasis, seen |-> {}, drop |-> {}]

\* basis: gistm_basis_id of the row; against: the basis of its evaluation.
DesignRow == [pc : {"new", "insert", "evaluate", "persist", "done", "error"},
              basis : Basis \cup {NoBasis}, against : Basis \cup {NoBasis}, override : BOOLEAN]
NewDesign == [pc |-> "new", basis |-> NoBasis, against |-> NoBasis, override |-> FALSE]

TypeOK ==
  /\ status \in [Basis -> {"unborn", "draft", "active", "superseded"}]
  /\ version \in [Basis -> Nat]
  /\ drafting \in [Author -> Nat]
  /\ tx \in [Manager -> Tx]
  /\ design \in [Design -> DesignRow]

Init ==
  /\ status = [b \in Basis |-> "unborn"]
  /\ version = [b \in Basis |-> 0]
  /\ drafting = [a \in Author |-> 0]
  /\ tx = [m \in Manager |-> NoTx]
  /\ design = [d \in Design |-> NewDesign]

Active == {b \in Basis : status[b] = "active"}
Rows == {b \in Basis : status[b] # "unborn"}
Holds(m, b) == tx[m].pc # "idle" /\ (b = tx[m].row \/ b \in tx[m].drop)
LockedByOther(m, b) == \E n \in Manager \ {m} : Holds(n, b)
TheActive == IF Active = {} THEN NoBasis ELSE CHOOSE b \in Active : TRUE

\* create_design_basis: MAX(version) + 1 ...
ReadVersion(a) ==
  /\ drafting[a] = 0
  /\ drafting' = [drafting EXCEPT ![a] = Max({version[b] : b \in Rows} \cup {0}) + 1]
  /\ UNCHANGED <<status, version, tx, design>>

\* ... and the INSERT, in another transaction.
InsertDraft(a, b) ==
  /\ drafting[a] # 0
  /\ status[b] = "unborn"
  /\ \A c \in Rows : version[c] # drafting[a]
  /\ status' = [status EXCEPT ![b] = "draft"]
  /\ version' = [version EXCEPT ![b] = drafting[a]]
  /\ drafting' = [drafting EXCEPT ![a] = 0]
  /\ UNCHANGED <<tx, design>>

\* UNIQUE (project_id, version): the request fails.
DuplicateVersion(a) ==
  /\ \E c \in Rows : version[c] = drafting[a]
  /\ drafting' = [drafting EXCEPT ![a] = 0]
  /\ UNCHANGED <<status, version, tx, design>>

\* activate_basis: the row is locked; one that is active or superseded ends
\* the transaction there, which changes nothing.
LockRow(m, b) ==
  /\ tx[m].pc = "idle"
  /\ status[b] = "draft"
  /\ ~LockedByOther(m, b)
  /\ tx' = [tx EXCEPT ![m] = [NoTx EXCEPT !.pc = "supersede", !.row = b]]
  /\ UNCHANGED <<status, version, drafting, design>>

\* UPDATE ... WHERE status = 'active': the rows its snapshot has ...
FindActive(m) ==
  /\ tx[m].pc = "supersede"
  /\ tx' = [tx EXCEPT ![m].pc = "update", ![m].seen = Active]
  /\ UNCHANGED <<status, version, drafting, design>>

\* ... once their locks are free, if they are active still.
Supersede(m) ==
  /\ tx[m].pc = "update"
  /\ \A b \in tx[m].seen : ~LockedByOther(m, b)
  /\ tx' = [tx EXCEPT ![m].pc = "activate", ![m].drop = tx[m].seen \cap Active]
  /\ UNCHANGED <<status, version, drafting, design>>

\* Another transaction has an uncommitted active row: the index entry waits.
IndexFree(m) == \A n \in Manager \ {m} : tx[n].pc # "commit"

\* Variant: no partial unique index.
SetActiveAnyway(m) ==
  /\ tx[m].pc = "activate"
  /\ tx' = [tx EXCEPT ![m].pc = "commit"]
  /\ UNCHANGED <<status, version, drafting, design>>

\* UPDATE ... SET status = 'active'.
SetActive(m) ==
  /\ tx[m].pc = "activate"
  /\ IndexFree(m)
  /\ Active \subseteq tx[m].drop
  /\ tx' = [tx EXCEPT ![m].pc = "commit"]
  /\ UNCHANGED <<status, version, drafting, design>>

\* idx_gistm_basis_one_active: the second activation fails.
SecondActive(m) ==
  /\ tx[m].pc = "activate"
  /\ IndexFree(m)
  /\ ~(Active \subseteq tx[m].drop)
  /\ tx' = [tx EXCEPT ![m] = NoTx]
  /\ UNCHANGED <<status, version, drafting, design>>

\* Variant: the two UPDATEs are committed one after the other.
CommitHalf(m) ==
  /\ tx[m].pc = "commit"
  /\ IF tx[m].drop # {}
     THEN /\ status' = [b \in Basis |-> IF b \in tx[m].drop THEN "superseded" ELSE status[b]]
          /\ tx' = [tx EXCEPT ![m].drop = {}]
     ELSE /\ status' = [status EXCEPT ![tx[m].row] = "active"]
          /\ tx' = [tx EXCEPT ![m] = NoTx]
  /\ UNCHANGED <<version, drafting, design>>

Commit(m) ==
  /\ tx[m].pc = "commit"
  /\ status' = [b \in Basis |-> IF b = tx[m].row THEN "active"
                                ELSE IF b \in tx[m].drop THEN "superseded"
                                ELSE status[b]]
  /\ tx' = [tx EXCEPT ![m] = NoTx]
  /\ UNCHANGED <<version, drafting, design>>

\* A statement fails or the process dies: rollback.
Abort(m) ==
  /\ Faults
  /\ tx[m].pc # "idle"
  /\ tx' = [tx EXCEPT ![m] = NoTx]
  /\ UNCHANGED <<status, version, drafting, design>>

\* design_tsf: the active basis is read for the row ...
ReadBasis(d) ==
  /\ design[d].pc = "new"
  /\ design' = [design EXCEPT ![d].pc = "insert", ![d].basis = TheActive]
  /\ UNCHANGED <<status, version, drafting, tx>>

\* ... the row inserted ...
InsertDesign(d) ==
  /\ design[d].pc = "insert"
  /\ design' = [design EXCEPT ![d].pc = "evaluate"]
  /\ UNCHANGED <<status, version, drafting, tx>>

\* ... and evaluate_tsf_design reads the active basis once more ...
Evaluate(d) ==
  /\ design[d].pc = "evaluate"
  /\ design' = [design EXCEPT ![d].pc = "persist", ![d].against = TheActive]
  /\ UNCHANGED <<status, version, drafting, tx>>

\* ... and inserts the violations, if there was one.
Persist(d) ==
  /\ design[d].pc = "persist"
  /\ design' = [design EXCEPT ![d].pc = "done"]
  /\ UNCHANGED <<status, version, drafting, tx>>

\* What was committed stays.
DesignFails(d) ==
  /\ Faults
  /\ design[d].pc \in {"insert", "evaluate", "persist"}
  /\ design' = [design EXCEPT ![d].pc = "error", ![d].against = NoBasis]
  /\ UNCHANGED <<status, version, drafting, tx>>

\* record_override: one for a violation.
Override(d) ==
  /\ design[d].pc = "done" /\ design[d].against # NoBasis
  /\ ~design[d].override
  /\ design' = [design EXCEPT ![d].override = TRUE]
  /\ UNCHANGED <<status, version, drafting, tx>>

Next ==
  \/ \E a \in Author :
        \/ ReadVersion(a) \/ DuplicateVersion(a)
        \/ \E b \in Basis : InsertDraft(a, b)
  \/ \E m \in Manager :
        \/ \E b \in Basis : LockRow(m, b)
        \/ FindActive(m) \/ Supersede(m) \/ SetActive(m) \/ SecondActive(m)
        \/ Commit(m) \/ Abort(m)
  \/ \E d \in Design :
        ReadBasis(d) \/ InsertDesign(d) \/ Evaluate(d) \/ Persist(d) \/ DesignFails(d)
        \/ Override(d)

Spec == Init /\ [][Next]_vars

\* A transaction that can go on does.
Proceed(m) == FindActive(m) \/ Supersede(m) \/ SetActive(m) \/ SecondActive(m) \/ Commit(m)
FairSpec == Spec /\ \A m \in Manager : WF_vars(Proceed(m))
-----------------------------------------------------------------------------
\* "only one 'active' basis per project at any time", however the statements
\* of two activations interleave.
OneActive == \A b, c \in Active : b = c

\* Activation is atomic, and "cannot reactivate a superseded basis": every
\* commit is one of the steps BasisRegister allows.
Register == INSTANCE BasisRegister
ImplementsRegister == Register!Init /\ [][Register!Next]_status

\* Drafts are numbered 1, 2, ... without gaps or repetition, whatever requests
\* run at once.
VersionsCount ==
  /\ {version[b] : b \in Rows} = 1 .. Cardinality(Rows)
  /\ \A a \in Author : drafting[a] <= Cardinality(Rows) + 1

\* An activation never waits for ever: no two wait for each other.
Waits(m) == tx[m].pc # "idle"

\* A design is evaluated against a basis that is, or has been, in force.
EvaluatedInForce ==
  \A d \in Design : design[d].against # NoBasis =>
    status[design[d].against] \in {"active", "superseded"}

\* "Snapshot the active basis on the tsf_design row for traceability": the
\* violations of a design are those of the basis its row names.
Traceable == \A d \in Design : design[d].pc = "done" => design[d].against = design[d].basis
=============================================================================
