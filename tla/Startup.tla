------------------------------ MODULE Startup ------------------------------
(* The start of the application's processes (main.py): each repairs the      *)
(* schema in one transaction, then seeds the catalogue under a session lock. *)
EXTENDS Naturals, FiniteSets

CONSTANTS Workers, MaxCrashes, MaxFails  \* bounds on crashes and failing seeds
(* What the constants must satisfy.                                        *)
StartupConstants == MaxCrashes \in Nat /\ MaxFails \in Nat

VARIABLES at,      \* where each process is
          todo,    \* what it has found missing: "rename", "create"
          did,     \* what its open transaction has done
          legacy,  \* the table is still called flowshheets
          copies,  \* lims_detox is there with so many copies of lims_dtx
          lock,    \* who holds the catalogue's advisory lock
          seeded, crashes, fails
vars == <<at, todo, did, legacy, copies, lock, seeded, crashes, fails>>
counts == <<crashes, fails>>

Init == /\ at = [w \in Workers |-> "names"] /\ todo = [w \in Workers |-> {}] /\ did = [w \in Workers |-> {}]
        /\ legacy \in BOOLEAN /\ copies \in {0, 1}
        /\ lock = "none" /\ seeded = FALSE /\ crashes = 0 /\ fails = 0

Detox == copies > 0
Goes(w, next) == at' = [at EXCEPT ![w] = next]
Held(w, what) == \E v \in Workers \ {w} : what \in did[v]

LookNames(w) == /\ at[w] = "names" /\ Goes(w, "rename")
                /\ todo' = [todo EXCEPT ![w] = IF legacy THEN {"rename"} ELSE {}]
                /\ UNCHANGED <<did, legacy, copies, lock, seeded, counts>>
(* ALTER TABLE waits for another's, and fails if that has committed. *)
Rename(w) == /\ at[w] = "rename" /\ ~Held(w, "rename")
             /\ IF "rename" \notin todo[w] THEN Goes(w, "tables") /\ UNCHANGED did
                ELSE IF legacy THEN Goes(w, "tables") /\ did' = [did EXCEPT ![w] = {"rename"}]
                ELSE Goes(w, "down") /\ UNCHANGED did
             /\ UNCHANGED <<todo, legacy, copies, lock, seeded, counts>>
LookTables(w) == /\ at[w] = "tables" /\ Goes(w, "create")
                 /\ todo' = [todo EXCEPT ![w] = IF Detox THEN {} ELSE {"create"}]
                 /\ UNCHANGED <<did, legacy, copies, lock, seeded, counts>>
(* So does CREATE TABLE; an error rolls the transaction back and ends the   *)
(* process.                                                                *)
CreateTable(w) ==
  /\ at[w] = "create" /\ ~Held(w, "create")
  /\ \/ "create" \notin todo[w] /\ Goes(w, "commit") /\ UNCHANGED did
     \/ "create" \in todo[w] /\ ~Detox /\ Goes(w, "commit") /\ did' = [did EXCEPT ![w] = @ \cup {"create"}]
     \/ "create" \in todo[w] /\ Detox /\ Goes(w, "down") /\ did' = [did EXCEPT ![w] = {}]
  /\ UNCHANGED <<todo, legacy, copies, lock, seeded, counts>>
(* The renamed table, the new one and the rows moved to it, at once. *)
Commit(w) == /\ at[w] = "commit" /\ Goes(w, "lock") /\ did' = [did EXCEPT ![w] = {}]
             /\ legacy' = (legacy /\ "rename" \notin did[w])
             /\ copies' = IF "create" \in did[w] THEN copies + 1 ELSE copies
             /\ UNCHANGED <<todo, lock, seeded, counts>>

(* Who does not get the lock goes on without. *)
TryLock(w) == /\ at[w] = "lock"
              /\ IF lock = "none" THEN lock' = w /\ Goes(w, "seed") ELSE Goes(w, "up") /\ UNCHANGED lock
              /\ UNCHANGED <<todo, did, legacy, copies, seeded, counts>>
Seed(w) == /\ at[w] = "seed" /\ Goes(w, "up") /\ seeded' = TRUE /\ lock' = "none"
           /\ UNCHANGED <<todo, did, legacy, copies, counts>>
(* A statement fails: the unlock, in the transaction that it aborted, fails  *)
(* too; the connection goes back to the pool.                               *)
SeedFails(w) == /\ at[w] = "seed" /\ fails < MaxFails /\ fails' = fails + 1 /\ Goes(w, "up")
                /\ UNCHANGED <<todo, did, legacy, copies, lock, seeded, crashes>>

(* The server ends its transaction and its session. *)
Crash(w) == /\ at[w] # "down" /\ crashes < MaxCrashes /\ crashes' = crashes + 1
            /\ Goes(w, "down") /\ did' = [did EXCEPT ![w] = {}]
            /\ lock' = IF lock = w THEN "none" ELSE lock
            /\ UNCHANGED <<todo, legacy, copies, seeded, fails>>
Restart(w) == /\ at[w] = "down" /\ Goes(w, "names")
              /\ UNCHANGED <<todo, did, legacy, copies, lock, seeded, counts>>

Start(w) == \/ LookNames(w) \/ Rename(w) \/ LookTables(w) \/ CreateTable(w) \/ Commit(w)
            \/ TryLock(w) \/ Seed(w) \/ Restart(w)
Next == \E w \in Workers : Start(w) \/ SeedFails(w) \/ Crash(w)
(* Processes go on, and are started again. *)
Spec == Init /\ [][Next]_vars /\ \A w \in Workers : WF_vars(Start(w))

-----------------------------------------------------------------------------
(* The rows of the legacy table are moved once, whoever starts or crashes    *)
(* when (_ensure_lims_detox_table).                                         *)
MovedOnce == copies <= 1

(* A process that is up finds the repaired schema.                           *)
UpIsRepaired == \A w \in Workers : at[w] \in {"lock", "seed", "up"} => Detox /\ ~legacy

(* A process waits until it is up and the catalogue is seeded; however they  *)
(* disturb each other, none does for ever, as long as no seed fails.        *)
Waits(w) == at[w] # "up" \/ ~seeded

(* "Create lims_detox if absent": no start fails.                            *)
NoneFails == crashes = 0 => \A w \in Workers : at[w] # "down"

(* "skip if another worker is seeding": who holds the lock is seeding.       *)
HolderSeeds == \A w \in Workers : lock = w => at[w] = "seed"
=============================================================================
