------------------------- MODULE DesignBasis_proofs -------------------------
(***************************************************************************)
(* For any number of bases and of activations at once: there is at most    *)
(* one active basis, and activations are atomic.                           *)
(***************************************************************************)
EXTENDS DesignBasis, FiniteSetTheorems, TLAPS

Busy(m) == tx[m].pc # "idle"

Types ==
  /\ status \in [Basis -> {"unborn", "draft", "active", "superseded"}]
  /\ tx \in [Manager -> Tx]

\* The row of an activation is locked, so it stays a draft.
RowIsDraft == \A m \in Manager : Busy(m) => tx[m].row \in Basis /\ status[tx[m].row] = "draft"

\* The rows it has superseded are locked, so they stay active until it commits.
DropIsActive == \A m \in Manager : Busy(m) => tx[m].drop \subseteq Active

LocksExclude == \A m, n \in Manager : \A b \in Basis : Holds(m, b) /\ Holds(n, b) => m = n

\* The index lets one transaction at a time have an active row to commit, and
\* only one that supersedes whatever is active.
CommitReplaces ==
  \A m \in Manager : tx[m].pc = "commit" =>
    /\ Active \subseteq tx[m].drop
    /\ \A n \in Manager : tx[n].pc = "commit" => n = m

IInv == Types /\ OneActive /\ RowIsDraft /\ DropIsActive /\ LocksExclude /\ CommitReplaces

\* What the actions do to one transaction.
LEMMA SetTx ==
  ASSUME NEW m \in Manager, NEW r, tx \in [Manager -> Tx], tx' = [tx EXCEPT ![m] = r]
  PROVE  tx'[m] = r /\ \A n \in Manager : n # m => tx'[n] = tx[n]
  OBVIOUS

LEMMA InitIInv == Init => IInv
  <1> SUFFICES ASSUME Init PROVE IInv
    OBVIOUS
  <1>1. Types
    BY DEF Init, Types, Tx, NoTx
  <1>2. Active = {} /\ \A m \in Manager : tx[m].pc = "idle"
    BY DEF Init, Active, NoTx
  <1>3. QED
    BY <1>1, <1>2 DEF IInv, OneActive, RowIsDraft, DropIsActive, LocksExclude,
       CommitReplaces, Busy, Holds

\* A transaction that ends gives up its locks and changes nothing.
LEMMA EndKeepsIInv ==
  ASSUME IInv, NEW m \in Manager, tx' = [tx EXCEPT ![m] = NoTx], status' = status
  PROVE  IInv'
  <1>1. tx'[m] = NoTx /\ \A n \in Manager : n # m => tx'[n] = tx[n]
    BY SetTx DEF IInv, Types
  <1>2. Types'
    BY DEF IInv, Types, Tx, NoTx
  <1>3. Active' = Active
    BY DEF Active
  <1>4. QED
    BY <1>1, <1>2, <1>3 DEF IInv, OneActive, RowIsDraft, DropIsActive, LocksExclude,
       CommitReplaces, Busy, Holds, NoTx

\* A draft is not locked, and is not active.
LEMMA DraftKeepsIInv ==
  ASSUME IInv, NEW b \in Basis, status[b] = "unborn",
         status' = [status EXCEPT ![b] = "draft"], tx' = tx
  PROVE  IInv'
  <1>1. status' \in [Basis -> {"unborn", "draft", "active", "superseded"}]
    BY DEF IInv, Types
  <1>2. \A c \in Basis : status'[c] = IF c = b THEN "draft" ELSE status[c]
    BY DEF IInv, Types
  <1>3. Active' = Active
    BY <1>2 DEF Active
  <1>4. QED
    BY <1>1, <1>2, <1>3 DEF IInv, Types, OneActive, RowIsDraft, DropIsActive, LocksExclude,
       CommitReplaces, Busy, Holds

\* A transaction that goes on, with the locks it may take.
LEMMA StepKeepsIInv ==
  ASSUME IInv, NEW m \in Manager, NEW r \in Tx, tx' = [tx EXCEPT ![m] = r], status' = status,
         r.row \in Basis, status[r.row] = "draft", r.drop \subseteq Active,
         \A b \in Basis : b = r.row \/ b \in r.drop => ~LockedByOther(m, b),
         r.pc = "commit" => /\ Active \subseteq r.drop
                            /\ \A n \in Manager \ {m} : tx[n].pc # "commit"
  PROVE  IInv'
  <1>1. tx'[m] = r /\ \A n \in Manager : n # m => tx'[n] = tx[n]
    BY SetTx DEF IInv, Types
  <1>2. Types'
    BY DEF IInv, Types
  <1>3. Active' = Active
    BY DEF Active
  <1>4. OneActive' /\ RowIsDraft' /\ DropIsActive'
    BY <1>1, <1>3 DEF IInv, OneActive, RowIsDraft, DropIsActive, Busy
  <1>5. LocksExclude'
    <2>1. \A b \in Basis, n \in Manager : n # m => ~(Holds(m, b)' /\ Holds(n, b)')
      BY <1>1 DEF Holds, LockedByOther
    <2>2. \A b \in Basis, n \in Manager : n # m => (Holds(n, b)' <=> Holds(n, b))
      BY <1>1 DEF Holds
    <2>3. QED
      BY <2>1, <2>2 DEF IInv, LocksExclude
  <1>6. CommitReplaces'
    BY <1>1, <1>3 DEF IInv, CommitReplaces
  <1>7. QED
    BY <1>2, <1>4, <1>5, <1>6 DEF IInv

\* The commit is the abstract activation: what is active is what it drops.
LEMMA CommitActivates ==
  ASSUME IInv, NEW m \in Manager, Commit(m)
  PROVE  /\ Register!Activate(tx[m].row)
         /\ tx[m].row \in Basis
         /\ Active' = {tx[m].row}
  <1>1. tx[m].row \in Basis /\ status[tx[m].row] = "draft" /\ tx[m].drop = Active
    BY DEF IInv, RowIsDraft, DropIsActive, CommitReplaces, Busy, Commit
  <1>2. status' = [b \in Basis |-> IF b = tx[m].row THEN "active"
                                   ELSE IF status[b] = "active" THEN "superseded"
                                   ELSE status[b]]
    BY <1>1 DEF Commit, Active
  <1>3. QED
    BY <1>1, <1>2 DEF Register!Activate, Active

LEMMA CommitKeepsIInv ==
  ASSUME IInv, NEW m \in Manager, Commit(m)
  PROVE  IInv'
  <1>1. tx'[m] = NoTx /\ \A n \in Manager : n # m => tx'[n] = tx[n]
    BY SetTx DEF IInv, Types, Commit
  <1>2. tx[m].row \in Basis /\ Active' = {tx[m].row}
    BY CommitActivates
  <1>3. Types'
    BY DEF IInv, Types, Commit, Tx, NoTx
  <1>4. \A n \in Manager : n # m /\ Busy(n) => tx[n].drop = {} /\ tx[n].row # tx[m].row
    <2> SUFFICES ASSUME NEW n \in Manager, n # m, Busy(n)
                 PROVE  tx[n].drop = {} /\ tx[n].row # tx[m].row
      OBVIOUS
    <2>1. Busy(m) /\ Active \subseteq tx[m].drop
      BY DEF IInv, CommitReplaces, Commit, Busy
    <2>2. \A b \in Basis : ~(Holds(n, b) /\ Holds(m, b))
      BY DEF IInv, LocksExclude
    <2>3. tx[n].drop \subseteq Active /\ Active \subseteq Basis
      BY DEF IInv, DropIsActive, Active
    <2>4. QED
      BY <1>2, <2>1, <2>2, <2>3 DEF Holds, Busy
  <1>5. \A n \in Manager : n # m /\ Busy(n) => status'[tx[n].row] = "draft"
    <2> SUFFICES ASSUME NEW n \in Manager, n # m, Busy(n)
                 PROVE  status'[tx[n].row] = "draft"
      OBVIOUS
    <2>1. tx[n].row \in Basis /\ status[tx[n].row] = "draft" /\ tx[n].row # tx[m].row
      BY <1>4 DEF IInv, RowIsDraft
    <2>2. tx[n].row \notin tx[m].drop
      BY <2>1 DEF IInv, DropIsActive, Active, Commit, Busy
    <2>3. QED
      BY <2>1, <2>2 DEF Commit
  <1>6. \A n \in Manager : Busy(n)' => n # m /\ Busy(n)
    BY <1>1 DEF Busy, NoTx
  <1>7. OneActive' /\ RowIsDraft' /\ DropIsActive'
    BY <1>1, <1>2, <1>4, <1>5, <1>6 DEF IInv, OneActive, RowIsDraft, DropIsActive
  <1>8. LocksExclude'
    BY <1>1 DEF IInv, LocksExclude, Holds, NoTx
  <1>9. CommitReplaces'
    <2>1. \A n \in Manager : tx'[n].pc # "commit"
      BY <1>1 DEF IInv, CommitReplaces, Commit, NoTx
    <2>2. QED
      BY <2>1 DEF CommitReplaces
  <1>10. QED
    BY <1>3, <1>7, <1>8, <1>9 DEF IInv

\* Each action of a manager keeps the invariant.
LEMMA ManagerKeepsIInv ==
  ASSUME IInv, NEW m \in Manager,
         \/ \E b \in Basis : LockRow(m, b)
         \/ FindActive(m) \/ Supersede(m) \/ SetActive(m) \/ SecondActive(m)
         \/ Commit(m) \/ Abort(m)
  PROVE  IInv'
  <1> tx[m] \in Tx /\ Types
    BY DEF IInv, Types
  <1>1. ASSUME NEW b \in Basis, LockRow(m, b) PROVE IInv'
    <2> DEFINE r == [NoTx EXCEPT !.pc = "supersede", !.row = b]
    <2>1. r \in Tx /\ r.row = b /\ r.drop = {} /\ r.pc = "supersede"
      BY DEF NoTx, Tx
    <2>2. tx' = [tx EXCEPT ![m] = r] /\ status' = status /\ status[b] = "draft"
          /\ ~LockedByOther(m, b)
      BY <1>1 DEF LockRow
    <2> HIDE DEF r
    <2>3. QED
      BY <2>1, <2>2, StepKeepsIInv
  <1>2. CASE FindActive(m) \/ Supersede(m) \/ SetActive(m)
    <2>1. PICK r \in Tx :
            /\ tx' = [tx EXCEPT ![m] = r] /\ status' = status
            /\ r.row = tx[m].row
            /\ \/ r.drop = tx[m].drop
               \/ r.drop \subseteq Active /\ \A b \in r.drop : ~LockedByOther(m, b)
            /\ r.pc = "commit" => /\ Active \subseteq r.drop
                                  /\ \A n \in Manager \ {m} : tx[n].pc # "commit"
      <3>1. CASE FindActive(m)
        <4> DEFINE r == [tx[m] EXCEPT !.pc = "update", !.seen = Active]
        <4>1. Active \in SUBSET Basis
          BY DEF Active
        <4>2. r \in Tx /\ r.row = tx[m].row /\ r.drop = tx[m].drop /\ r.pc = "update"
          BY <4>1 DEF Tx
        <4>3. QED
          BY <3>1, <4>2 DEF FindActive
      <3>2. CASE Supersede(m)
        <4> DEFINE r == [tx[m] EXCEPT !.pc = "activate", !.drop = tx[m].seen \cap Active]
        <4>1. r \in Tx /\ r.row = tx[m].row /\ r.drop = tx[m].seen \cap Active /\ r.pc = "activate"
          BY DEF Tx
        <4>2. QED
          BY <3>2, <4>1 DEF Supersede
      <3>3. CASE SetActive(m)
        <4> DEFINE r == [tx[m] EXCEPT !.pc = "commit"]
        <4>1. r \in Tx /\ r.row = tx[m].row /\ r.drop = tx[m].drop
          BY DEF Tx
        <4>2. QED
          BY <3>3, <4>1 DEF SetActive, IndexFree
      <3>4. QED
        BY <1>2, <3>1, <3>2, <3>3
    <2>2. Busy(m)
      BY <1>2 DEF FindActive, Supersede, SetActive, Busy
    <2>3. r.row \in Basis /\ status[r.row] = "draft" /\ r.drop \subseteq Active
      BY <2>1, <2>2 DEF IInv, RowIsDraft, DropIsActive
    <2>4. \A b \in Basis : Holds(m, b) => ~LockedByOther(m, b)
      BY DEF IInv, LocksExclude, LockedByOther
    <2>5. \A b \in Basis : b = r.row \/ b \in r.drop => ~LockedByOther(m, b)
      BY <2>1, <2>2, <2>4 DEF Holds, Busy
    <2>6. QED
      BY <2>1, <2>3, <2>5, StepKeepsIInv
  <1>3. CASE SecondActive(m) \/ Abort(m)
    BY <1>3, EndKeepsIInv DEF SecondActive, Abort
  <1>4. CASE Commit(m)
    BY <1>4, CommitKeepsIInv
  <1>5. QED
    BY <1>1, <1>2, <1>3, <1>4

\* What the designs and the first half of a draft do does not concern a basis.
Apart == status' = status /\ tx' = tx

LEMMA NextIInv == IInv /\ [Next]_vars => IInv'
  <1> SUFFICES ASSUME IInv, [Next]_vars PROVE IInv'
    OBVIOUS
  <1>1. ASSUME Apart PROVE IInv'
    BY <1>1 DEF Apart, IInv, Types, OneActive, RowIsDraft, DropIsActive, LocksExclude,
       CommitReplaces, Busy, Holds, Active
  <1>2. CASE UNCHANGED vars
    BY <1>1, <1>2 DEF vars, Apart
  <1>3. ASSUME NEW a \in Author, ReadVersion(a) \/ DuplicateVersion(a) PROVE IInv'
    BY <1>1, <1>3 DEF ReadVersion, DuplicateVersion, Apart
  <1>4. ASSUME NEW a \in Author, NEW b \in Basis, InsertDraft(a, b) PROVE IInv'
    BY <1>4, DraftKeepsIInv DEF InsertDraft
  <1>5. ASSUME NEW m \in Manager,
               \/ \E b \in Basis : LockRow(m, b)
               \/ FindActive(m) \/ Supersede(m) \/ SetActive(m) \/ SecondActive(m)
               \/ Commit(m) \/ Abort(m)
        PROVE IInv'
    BY <1>5, ManagerKeepsIInv
  <1>6. ASSUME NEW d \in Design,
               ReadBasis(d) \/ InsertDesign(d) \/ Evaluate(d) \/ Persist(d) \/ DesignFails(d)
               \/ Override(d)
        PROVE IInv'
    BY <1>1, <1>6 DEF ReadBasis, InsertDesign, Evaluate, Persist, DesignFails, Override, Apart
  <1>7. QED
    BY <1>2, <1>3, <1>4, <1>5, <1>6 DEF Next

THEOREM SpecIInv == Spec => []IInv
  BY InitIInv, NextIInv, PTL DEF Spec

\* "only one 'active' basis per project at any time" (migration 000040),
\* whatever two activations of services/gistm.py do at once.
THEOREM SpecOneActive == Spec => []OneActive
  <1>1. IInv => OneActive
    BY DEF IInv
  <1>2. QED
    BY <1>1, SpecIInv, PTL

\* A step of the transactions is a step of the register or changes no status.
LEMMA StepImplements ==
  ASSUME IInv, [Next]_vars
  PROVE  [Register!Next]_status
  <1>1. CASE UNCHANGED vars
    BY <1>1 DEF vars
  <1>2. ASSUME NEW a \in Author, NEW b \in Basis, InsertDraft(a, b)
        PROVE  Register!Next
    BY <1>2 DEF InsertDraft, Register!Next, Register!Draft
  <1>3. ASSUME NEW m \in Manager, Commit(m)
        PROVE  Register!Next
    BY <1>3, CommitActivates DEF Register!Next
  <1>4. CASE \/ \E a \in Author : ReadVersion(a) \/ DuplicateVersion(a)
             \/ \E m \in Manager :
                  \/ \E b \in Basis : LockRow(m, b)
                  \/ FindActive(m) \/ Supersede(m) \/ SetActive(m) \/ SecondActive(m) \/ Abort(m)
             \/ \E d \in Design :
                  ReadBasis(d) \/ InsertDesign(d) \/ Evaluate(d) \/ Persist(d)
                  \/ DesignFails(d) \/ Override(d)
    BY <1>4 DEF ReadVersion, DuplicateVersion, LockRow, FindActive, Supersede, SetActive,
       SecondActive, Abort, ReadBasis, InsertDesign, Evaluate, Persist, DesignFails, Override
  <1>5. QED
    BY <1>1, <1>2, <1>3, <1>4 DEF Next

\* "atomic state transitions (draft -> active -> superseded)": the statements
\* of activate_basis implement the one step of BasisRegister.
THEOREM SpecImplementsRegister == Spec => ImplementsRegister
  <1>1. Init => Register!Init
    BY DEF Init, Register!Init
  <1>2. IInv /\ [Next]_vars => [Register!Next]_status
    BY StepImplements
  <1>3. QED
    BY <1>1, <1>2, SpecIInv, PTL DEF Spec, ImplementsRegister

-----------------------------------------------------------------------------
(* The numbers of the drafts, and the designs.                             *)
VersionInv ==
  /\ version \in [Basis -> Nat] /\ drafting \in [Author -> Nat]
  /\ IsFiniteSet(Rows)
  /\ VersionsCount

DesignInv == design \in [Design -> DesignRow] /\ EvaluatedInForce

\* MAX(version) is the number of rows.
LEMMA LatestVersion ==
  ASSUME VersionInv
  PROVE  Cardinality(Rows) \in Nat /\ Max({version[b] : b \in Rows} \cup {0}) = Cardinality(Rows)
  <1>1. Cardinality(Rows) \in Nat
    BY FS_CardinalityType DEF VersionInv
  <1>2. PICK n \in Nat : n = Cardinality(Rows)
    BY <1>1
  <1>3. {version[b] : b \in Rows} \cup {0} = 0 .. n
    BY <1>2 DEF VersionInv, VersionsCount
  <1>4. n \in 0 .. n /\ \A y \in 0 .. n : n >= y
    OBVIOUS
  <1>5. \A x \in 0 .. n : (\A y \in 0 .. n : x >= y) => x = n
    BY <1>4
  <1>6. Max(0 .. n) = n
    BY <1>4, <1>5 DEF Max
  <1> QED BY <1>1, <1>2, <1>3, <1>6

\* The rows there are stay as they are numbered.
LEMMA VersionsStay ==
  ASSUME VersionInv, UNCHANGED version, Rows' = Rows, drafting' \in [Author -> Nat],
         \A a \in Author : drafting'[a] <= Cardinality(Rows) + 1
  PROVE  VersionInv'
  <1>1. {version[b] : b \in Rows}' = {version[b] : b \in Rows}
    OBVIOUS
  <1>2. Cardinality(Rows)' = Cardinality(Rows)
    OBVIOUS
  <1> QED BY <1>1, <1>2 DEF VersionInv, VersionsCount

\* A draft takes the next number: a smaller one is taken.
LEMMA DraftCounts ==
  ASSUME IInv, VersionInv, NEW a \in Author, NEW b \in Basis, InsertDraft(a, b)
  PROVE  VersionInv'
  <1>0. PICK n \in Nat : n = Cardinality(Rows)
    BY LatestVersion
  <1>1. drafting[a] = n + 1
    <2>1. drafting[a] \in 1 .. n + 1
      BY <1>0 DEF VersionInv, VersionsCount, InsertDraft
    <2>2. drafting[a] \notin {version[c] : c \in Rows}
      BY DEF InsertDraft
    <2>3. drafting[a] \notin 1 .. n
      BY <1>0, <2>2 DEF VersionInv, VersionsCount
    <2> QED BY <2>1, <2>3
  <1>2. Rows' = Rows \cup {b} /\ b \notin Rows
    BY DEF Rows, InsertDraft, IInv, Types
  <1>3. IsFiniteSet(Rows') /\ Cardinality(Rows') = n + 1
    BY <1>0, <1>2, FS_AddElement DEF VersionInv
  <1>4. version' \in [Basis -> Nat] /\ version'[b] = n + 1 /\ \A c \in Rows : version'[c] = version[c]
    BY <1>1, <1>2 DEF VersionInv, InsertDraft, Rows
  <1>5. {version'[c] : c \in Rows'} = {version[c] : c \in Rows} \cup {n + 1}
    BY <1>2, <1>4
  <1>6. {version'[c] : c \in Rows'} = 1 .. n + 1
    BY <1>0, <1>5 DEF VersionInv, VersionsCount
  <1>7. drafting' \in [Author -> Nat] /\ \A c \in Author : drafting'[c] <= n + 2
    BY <1>0, <1>1 DEF VersionInv, VersionsCount, InsertDraft
  <1> QED BY <1>3, <1>4, <1>6, <1>7 DEF VersionInv, VersionsCount

\* An activation changes the status of rows there are.
LEMMA CommitKeepsRows ==
  ASSUME IInv, NEW m \in Manager, Commit(m)
  PROVE  Rows' = Rows
  <1>1. tx[m].row \in Basis /\ status[tx[m].row] = "draft" /\ tx[m].drop \subseteq Active
    BY DEF Commit, IInv, RowIsDraft, DropIsActive, Busy
  <1>2. \A b \in Basis : status'[b] # "unborn" <=> status[b] # "unborn"
    BY <1>1 DEF Commit, Active
  <1> QED BY <1>2 DEF Rows

LEMMA NextVersionInv ==
  ASSUME IInv, VersionInv, [Next]_vars
  PROVE  VersionInv'
  <1>0. \A a \in Author : drafting[a] \in Nat /\ drafting[a] <= Cardinality(Rows) + 1
    BY DEF VersionInv, VersionsCount
  <1>1. CASE UNCHANGED <<version, drafting>> /\ Rows' = Rows
    BY <1>0, <1>1, VersionsStay DEF VersionInv
  <1>2. ASSUME NEW a \in Author, ReadVersion(a) PROVE VersionInv'
    <2>1. drafting' = [drafting EXCEPT ![a] = Cardinality(Rows) + 1] /\ Cardinality(Rows) \in Nat
      BY <1>2, LatestVersion DEF ReadVersion
    <2>2. Rows' = Rows /\ UNCHANGED version
      BY <1>2 DEF ReadVersion, Rows
    <2>3. PICK n \in Nat : n = Cardinality(Rows)
      BY <2>1
    <2>4. drafting' \in [Author -> Nat] /\ \A c \in Author : drafting'[c] <= n + 1
      BY <1>0, <2>1, <2>3 DEF VersionInv
    <2> QED BY <2>2, <2>3, <2>4, VersionsStay
  <1>3. ASSUME NEW a \in Author, DuplicateVersion(a) PROVE VersionInv'
    <2>1. Rows' = Rows /\ UNCHANGED version
      BY <1>3 DEF DuplicateVersion, Rows
    <2>2. PICK n \in Nat : n = Cardinality(Rows)
      BY LatestVersion
    <2>3. drafting' \in [Author -> Nat] /\ \A c \in Author : drafting'[c] <= n + 1
      BY <1>0, <1>3, <2>2 DEF VersionInv, DuplicateVersion
    <2> QED BY <2>1, <2>2, <2>3, VersionsStay
  <1>4. ASSUME NEW a \in Author, NEW b \in Basis, InsertDraft(a, b) PROVE VersionInv'
    BY <1>4, DraftCounts
  <1>5. ASSUME NEW m \in Manager, Commit(m) PROVE VersionInv'
    BY <1>1, <1>5, CommitKeepsRows DEF Commit
  <1>6. CASE UNCHANGED <<status, version, drafting>>
    BY <1>1, <1>6 DEF Rows
  <1> QED BY <1>2, <1>3, <1>4, <1>5, <1>6 DEF Next, vars, LockRow, FindActive, Supersede, SetActive,
       SecondActive, Abort, ReadBasis, InsertDesign, Evaluate, Persist, DesignFails, Override

LEMMA InitVersionInv == ASSUME Init PROVE VersionInv
  <1>1. Rows = {}
    BY DEF Init, Rows
  <1>2. IsFiniteSet(Rows) /\ Cardinality(Rows) = 0
    BY <1>1, FS_EmptySet
  <1>3. {version[b] : b \in Rows} = 1 .. 0
    BY <1>1
  <1> QED BY <1>2, <1>3 DEF Init, VersionInv, VersionsCount

\* Drafts are numbered 1, 2, ... whatever create_design_basis requests run at
\* once: the version that MAX(version) + 1 gives is free or the insert fails.
THEOREM SpecVersionsCount == Spec => []VersionsCount
  <1>1. VersionInv => VersionsCount
    BY DEF VersionInv
  <1> QED BY <1>1, InitVersionInv, NextVersionInv, SpecIInv, PTL DEF Spec

\* The active basis, if there is one.
LEMMA TheActiveIsActive ==
  TheActive \in Basis \cup {NoBasis} /\ (TheActive # NoBasis => status[TheActive] = "active")
  <1>1. CASE Active = {}
    BY <1>1 DEF TheActive
  <1>2. CASE Active # {}
    <2>1. TheActive \in Active
      BY <1>2 DEF TheActive
    <2> QED BY <2>1 DEF Active
  <1> QED BY <1>1, <1>2

\* A basis that is or was in force stays one of the two.
LEMMA NextDesignInv ==
  ASSUME IInv, DesignInv, [Next]_vars
  PROVE  DesignInv'
  <1>1. \A b \in Basis : status[b] \in {"active", "superseded"} => status'[b] \in {"active", "superseded"}
    <2>1. ASSUME NEW a \in Author, NEW b \in Basis, InsertDraft(a, b) PROVE <1>1
      BY <2>1 DEF InsertDraft, IInv, Types
    <2>2. ASSUME NEW m \in Manager, Commit(m) PROVE <1>1
      BY <2>2 DEF Commit
    <2>3. CASE UNCHANGED status
      BY <2>3
    <2> QED BY <2>1, <2>2, <2>3 DEF Next, vars, ReadVersion, DuplicateVersion, LockRow, FindActive,
         Supersede, SetActive, SecondActive, Abort, ReadBasis, InsertDesign, Evaluate, Persist,
         DesignFails, Override
  <1>2. CASE UNCHANGED design
    BY <1>1, <1>2 DEF DesignInv, EvaluatedInForce, DesignRow, BasisAssumption
  <1>3. ASSUME NEW d \in Design,
               ReadBasis(d) \/ InsertDesign(d) \/ Evaluate(d) \/ Persist(d) \/ DesignFails(d)
               \/ Override(d)
        PROVE  DesignInv'
    <2>1. design[d] \in DesignRow /\ UNCHANGED status
      BY <1>3 DEF DesignInv, ReadBasis, InsertDesign, Evaluate, Persist, DesignFails, Override
    <2>2. /\ design' \in [Design -> DesignRow]
          /\ \A e \in Design : e # d => design'[e] = design[e]
          /\ design'[d].against \in {design[d].against, NoBasis, TheActive}
      <3> USE DEF DesignInv
      <3>1. CASE ReadBasis(d)
        BY <2>1, <3>1, TheActiveIsActive DEF ReadBasis, DesignRow
      <3>2. CASE InsertDesign(d)
        BY <2>1, <3>2 DEF InsertDesign, DesignRow
      <3>3. CASE Evaluate(d)
        BY <2>1, <3>3, TheActiveIsActive DEF Evaluate, DesignRow
      <3>4. CASE Persist(d)
        BY <2>1, <3>4 DEF Persist, DesignRow
      <3>5. CASE DesignFails(d)
        BY <2>1, <3>5 DEF DesignFails, DesignRow
      <3>6. CASE Override(d)
        BY <2>1, <3>6 DEF Override, DesignRow
      <3> QED BY <1>3, <3>1, <3>2, <3>3, <3>4, <3>5, <3>6
    <2> QED BY <2>1, <2>2, TheActiveIsActive DEF DesignInv, EvaluatedInForce
  <1> QED BY <1>2, <1>3 DEF Next, vars, ReadVersion, DuplicateVersion, InsertDraft, LockRow, FindActive,
       Supersede, SetActive, SecondActive, Commit, Abort

LEMMA InitDesignInv == ASSUME Init PROVE DesignInv
  BY DEF Init, DesignInv, EvaluatedInForce, NewDesign, DesignRow

\* A design is evaluated against a basis that is, or was, in force, whatever
\* activations commit between its two reads (routes/geotech.py).
THEOREM SpecEvaluatedInForce == Spec => []EvaluatedInForce
  <1>1. DesignInv => EvaluatedInForce
    BY DEF DesignInv
  <1> QED BY <1>1, InitDesignInv, NextDesignInv, SpecIInv, PTL DEF Spec

LEMMA InvIsTyped == ASSUME IInv, VersionInv, DesignInv PROVE TypeOK
  BY DEF IInv, Types, VersionInv, DesignInv, TypeOK
=============================================================================
