--------------------------- MODULE ConnectionPool ---------------------------
(* Connections to the database (db.py): each process has a ThreadedConnec-  *)
(* tionPool, made at its first use.  A handler takes a connection, and one  *)
(* more for each query helper that it calls meanwhile; a pool that has none *)
(* left refuses at once.  The server may restart.                           *)
EXTENDS Naturals, Sequences, FiniteSetsExt

CONSTANTS Processes, Requests,
          Home,            \* the process that serves each request
          MaxConnections,  \* of the server
          NumServices,     \* that share them: num_services
          MinConn,         \* DB_POOL_MIN
          Calls,           \* query helpers that a handler calls
          MaxRestarts      \* bound on restarts of the server
(* What the constants must satisfy.                                        *)
PoolConstants == /\ Home \in [Requests -> Processes] /\ MaxConnections \in Nat /\ NumServices \in Nat \ {0}
                 /\ MinConn \in Nat /\ Calls \in Nat /\ MaxRestarts \in Nat

VARIABLES pool,     \* of each process: pools made, connections idle, idle but dead, used
          req,      \* each request: its place and connections, TRUE for those that live
          restarts
vars == <<pool, req, restarts>>

(* _compute_pool_max *)
PoolMax == LET share == (MaxConnections * 8) \div (10 * NumServices) IN IF share < 2 THEN 2 ELSE share
Idle == [at |-> "idle", conns |-> <<>>, left |-> 0]
Init == /\ pool = [p \in Processes |-> [made |-> 0, idle |-> 0, dead |-> 0, used |-> 0]]
        /\ req = [r \in Requests |-> Idle] /\ restarts = 0

(* Connections that the server counts, and whether it takes one more. *)
Open == MapThenSumSet(LAMBDA p : pool[p].idle, Processes)
        + MapThenSumSet(LAMBDA r : Len(SelectSeq(req[r].conns, LAMBDA c : c)), Requests)
Go(r, at) == req' = [req EXCEPT ![r].at = at]
P(r) == pool[Home[r]]

Begin(r) == /\ req[r] = Idle /\ req' = [req EXCEPT ![r] = [Idle EXCEPT !.at = "pool", !.left = Calls]]
            /\ UNCHANGED <<pool, restarts>>
(* get_pool: the look without the lock ... *)
LookPool(r) == /\ req[r].at = "pool" /\ Go(r, IF P(r).made > 0 THEN "acquire" ELSE "lock")
               /\ UNCHANGED <<pool, restarts>>
Made(r) == [made |-> P(r).made + 1, idle |-> MinConn, dead |-> 0, used |-> 0]
(* ... and under the lock the second look and the creation. *)
CreatePool(r) ==
  /\ req[r].at = "lock"
  /\ \/ P(r).made > 0 /\ Go(r, "acquire") /\ UNCHANGED pool
     \/ /\ P(r).made = 0 /\ Open + MinConn <= MaxConnections
        /\ pool' = [pool EXCEPT ![Home[r]] = Made(r)] /\ Go(r, "acquire")
     \/ P(r).made = 0 /\ Open + MinConn > MaxConnections /\ Go(r, "unwind") /\ UNCHANGED pool
  /\ UNCHANGED restarts

(* getconn: an idle one, dead or alive, otherwise a new one. *)
Take(r, field, alive) ==
  /\ P(r)[field] > 0
  /\ pool' = [pool EXCEPT ![Home[r]][field] = @ - 1, ![Home[r]].used = @ + 1]
  /\ req' = [req EXCEPT ![r].conns = Append(@, alive), ![r].at = "use"]
NoneIdle(r) == P(r).idle = 0 /\ P(r).dead = 0
Connect(r) == /\ NoneIdle(r) /\ P(r).used < PoolMax /\ Open < MaxConnections
              /\ pool' = [pool EXCEPT ![Home[r]].used = @ + 1]
              /\ req' = [req EXCEPT ![r].conns = Append(@, TRUE), ![r].at = "use"]
(* Variant: a request that gets none waits for one. *)
AcquireWaits(r) == /\ req[r].at = "acquire" /\ UNCHANGED restarts
                   /\ (Take(r, "idle", TRUE) \/ Take(r, "dead", FALSE) \/ Connect(r))
(* conn: the pool is exhausted, or the server refuses: an error. *)
Exhausted(r) == NoneIdle(r) /\ P(r).used >= PoolMax
Refused(r) == NoneIdle(r) /\ P(r).used < PoolMax /\ Open >= MaxConnections
Acquire(r) == /\ req[r].at = "acquire" /\ UNCHANGED restarts
              /\ \/ Take(r, "idle", TRUE) \/ Take(r, "dead", FALSE) \/ Connect(r)
                 \/ (Exhausted(r) \/ Refused(r)) /\ Go(r, "unwind") /\ UNCHANGED pool

(* The handler's statements, and the helpers it calls between them.         *)
Alive(r) == req[r].conns[Len(req[r].conns)]
Use(r) == /\ req[r].at = "use"
          /\ \/ Alive(r) /\ Go(r, "release")
             \/ Alive(r) /\ req[r].left > 0 /\ req' = [req EXCEPT ![r].at = "acquire", ![r].left = @ - 1]
             \/ Go(r, "unwind")   \* the statement fails; a dead connection's does
          /\ UNCHANGED <<pool, restarts>>
(* Variant: a connection is kept without a look at it.                      *)
PutUnseen(r) == pool' = [pool EXCEPT ![Home[r]].used = @ - 1,
                                     ![Home[r]][IF Alive(r) THEN "idle" ELSE "dead"] =
                                        IF P(r).idle + P(r).dead < MinConn THEN @ + 1 ELSE @]
(* putconn keeps MinConn connections that live and closes the others.       *)
Put(r) == pool' = [pool EXCEPT ![Home[r]].used = @ - 1,
                               ![Home[r]].idle = IF Alive(r) /\ P(r).idle + P(r).dead < MinConn
                                                     THEN @ + 1 ELSE @]
Dropped(r, ats) == \E at \in ats :
  LET held == req[r].conns
      less == IF Len(held) = 1 THEN Idle ELSE [req[r] EXCEPT !.conns = SubSeq(held, 1, Len(held) - 1), !.at = at]
  IN  req' = [req EXCEPT ![r] = less]
Release(r) == req[r].at = "release" /\ Put(r) /\ Dropped(r, {"use"}) /\ UNCHANGED restarts
(* Variant: the connection is given back where the statement ends, not in   *)
(* a finally.                                                               *)
UnwindLeaks(r) ==
  /\ req[r].at = "unwind" /\ UNCHANGED <<pool, restarts>>
  /\ IF req[r].conns = <<>> THEN req' = [req EXCEPT ![r] = Idle] ELSE Dropped(r, {"use", "unwind"})
(* get_cursor: rollback and, whatever that raises, release; the caller      *)
(* handles the exception or lets it pass.                                   *)
Unwind(r) ==
  /\ req[r].at = "unwind" /\ UNCHANGED restarts
  /\ IF req[r].conns = <<>> THEN req' = [req EXCEPT ![r] = Idle] /\ UNCHANGED pool
     ELSE Put(r) /\ Dropped(r, {"use", "unwind"})

ServerRestarts ==
  /\ restarts < MaxRestarts /\ restarts' = restarts + 1
  /\ pool' = [p \in Processes |-> [pool[p] EXCEPT !.idle = 0, !.dead = @ + pool[p].idle]]
  /\ req' = [r \in Requests |-> [req[r] EXCEPT !.conns = [i \in DOMAIN @ |-> FALSE]]]

Step(r) == LookPool(r) \/ CreatePool(r) \/ Acquire(r) \/ Use(r) \/ Release(r) \/ Unwind(r)
Next == (\E r \in Requests : Begin(r) \/ Step(r)) \/ ServerRestarts
(* The handlers go on. *)
Spec == Init /\ [][Next]_vars /\ \A r \in Requests : WF_vars(Step(r))

-----------------------------------------------------------------------------
(* The connections that the requests of a process hold, each with its place. *)
HeldIn(p) == UNION {{r} \X DOMAIN req[r].conns : r \in {q \in Requests : Home[q] = p}}
(* "release(c) in finally": what a pool counts as used is what requests     *)
(* hold, whatever fails.                                                    *)
NoLeak == \A p \in Processes : pool[p].used = Cardinality(HeldIn(p))

(* "creating it on first call (thread-safe)": no process makes two.         *)
OnePool == \A p \in Processes : pool[p].made <= 1

(* Connections that died are not kept: a pool has more of them after a      *)
(* restart of the server only.                                              *)
DeadNotKept == \A p \in Processes : pool'[p].dead > pool[p].dead => restarts' > restarts

(* A handler holds a connection while it asks for the next; none waits for  *)
(* ever for the other.                                                      *)
Waits(r) == req[r].at # "idle"

(* "so co-located services share the connection budget fairly.": the server *)
(* refuses no connection that a pool may still open.                        *)
BudgetKept == \A r \in Requests : req[r].at = "acquire" => ~Refused(r)
=============================================================================
