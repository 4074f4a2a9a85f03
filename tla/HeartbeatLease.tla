--------------------------- MODULE HeartbeatLease ---------------------------
(***************************************************************************)
(* The timing that JobQueue abstracts from: a running job is leased to its *)
(* worker by last_heartbeat_at, which the heartbeat thread of              *)
(* worker/loop.py refreshes every Interval seconds over a connection of    *)
(* its own, and reap_zombies takes the job away once the last refresh is   *)
(* more than Timeout seconds old.  Discrete time, one running job; an      *)
(* attempt to connect or to refresh takes no time.                         *)
(***************************************************************************)
EXTENDS Integers, TLAPS

CONSTANTS
  Interval,       \* job_heartbeat_interval_seconds
  Timeout,        \* job_zombie_timeout_seconds
  MaxFaults,      \* refreshes the database fails between two that succeed
  Horizon         \* bound on the clock once nothing refreshes (TLC only)

ASSUME LeaseAssumption ==
  /\ Interval \in Nat \ {0}
  /\ Timeout \in Nat
  /\ MaxFaults \in Nat
  /\ Horizon \in Nat

(***************************************************************************)
(* A fault can cost two refreshes, its own and the one that finds no       *)
(* connection; settings.py asks for Timeout > 3 * Interval, which is this  *)
(* for one fault.                                                          *)
(***************************************************************************)
Lease == (2 * MaxFaults + 1) * Interval

ASSUME SettingsAssumption == Lease <= Timeout

VARIABLES
  status,         \* of the job: running, failed (by the reaper), over
  age,            \* seconds since last_heartbeat_at
  wait,           \* seconds the thread has been in stop_event.wait
  first,          \* the thread's first connection: pending, made, failed
  conn,           \* conn is not None in the heartbeat thread
  faults,         \* faults since the last refresh that succeeded
  stopped,        \* stop_event is set: the thread ends, if it has not
  draining        \* seconds since it was

vars == <<status, age, wait, first, conn, faults, stopped, draining>>

TypeOK ==
  /\ status \in {"running", "failed", "over"}
  /\ age \in Nat
  /\ wait \in 0 .. Interval
  /\ first \in {"pending", "made", "failed"}
  /\ conn \in BOOLEAN
  /\ faults \in 0 .. MaxFaults
  /\ stopped \in BOOLEAN
  /\ draining \in Nat

\* pickup_one has just set last_heartbeat_at, whatever the thread was doing:
\* on its way to its first connection, ended because that failed, or anywhere
\* in its wait, maybe without a connection after a fault.
Init ==
  /\ status = "running"
  /\ age = 0
  /\ stopped = FALSE
  /\ draining = 0
  /\ \/ /\ first = "made"
        /\ wait \in 0 .. Interval
        /\ conn \in BOOLEAN
        /\ faults \in 0 .. MaxFaults
        /\ conn \/ faults > 0
     \/ /\ first \in {"pending", "failed"}
        /\ wait = 0
        /\ conn = FALSE
        /\ faults = 0

\* The thread refreshes, or will: it is neither told to stop nor ended by the
\* exception of its first psycopg2.connect.
Alive == first = "made" /\ ~stopped

\* The connection before the loop: its exception passes the finally and ends
\* the thread for good, and nobody looks.  Once stop_event is set the outcome
\* makes no difference.
FirstConnection ==
  /\ first = "pending"
  /\ ~stopped
  /\ \/ first' = "made" /\ conn' = TRUE
     \/ first' = "failed" /\ conn' = FALSE
  /\ UNCHANGED <<status, age, wait, faults, stopped, draining>>

\* A second passes.  The thread does not oversleep.
Tick ==
  /\ stopped \/ first # "pending"
  /\ Alive => wait < Interval
  /\ draining < Horizon
  /\ first = "failed" => age < Horizon
  /\ age' = age + 1
  /\ wait' = IF Alive THEN wait + 1 ELSE wait
  /\ draining' = IF stopped THEN draining + 1 ELSE draining
  /\ UNCHANGED <<status, first, conn, faults, stopped>>

\* The wait times out and the thread tries to refresh.
Due == Alive /\ wait = Interval /\ wait' = 0

\* Variant: the WHERE matches no row.
RefreshNothing ==
  /\ Due
  /\ conn
  /\ faults' = 0
  /\ UNCHANGED <<status, age, first, conn, stopped, draining>>

Refresh ==
  /\ Due
  /\ conn
  /\ age' = 0
  /\ faults' = 0
  /\ UNCHANGED <<status, first, conn, stopped, draining>>

\* The database fails the thread: the UPDATE, after which a new connection is
\* made or that fails too; or, without a connection, the attempt to make one.
Fault ==
  /\ Due
  /\ faults < MaxFaults
  /\ faults' = faults + 1
  /\ conn' \in (IF conn THEN BOOLEAN ELSE {FALSE})
  /\ UNCHANGED <<status, age, first, stopped, draining>>

\* Variant: the except branch does not connect again.
StayDisconnected ==
  /\ Due
  /\ ~conn
  /\ UNCHANGED <<status, age, first, conn, faults, stopped, draining>>

\* conn is None since the last failure: conn.cursor() raises although the
\* database is back, and only the next refresh can succeed.
Reconnect ==
  /\ Due
  /\ ~conn
  /\ conn' = TRUE
  /\ UNCHANGED <<status, age, first, faults, stopped, draining>>

\* SIGTERM: the thread leaves its wait and ends.
Stop ==
  /\ ~stopped
  /\ stopped' = TRUE
  /\ UNCHANGED <<status, age, wait, first, conn, faults, draining>>

\* Another worker's reaper, at any time it finds the heartbeat too old.
Reap ==
  /\ status = "running"
  /\ age > Timeout
  /\ status' = "failed"
  /\ UNCHANGED <<age, wait, first, conn, faults, stopped, draining>>

\* The job's own end.
Finish ==
  /\ status = "running"
  /\ status' = "over"
  /\ UNCHANGED <<age, wait, first, conn, faults, stopped, draining>>

Next == FirstConnection \/ Tick \/ Refresh \/ Fault \/ Reconnect \/ Stop \/ Reap \/ Finish

Spec == Init /\ [][Next]_vars
-----------------------------------------------------------------------------
\* A worker whose heartbeat thread got its first connection loses its job to
\* the reaper only after it was told to stop, and then not before the lease
\* that is left has run out: it has more than Timeout - Lease seconds to
\* finish.  One whose thread died at that connection may lose every job.
DrainWindow ==
  status = "failed" =>
    \/ first = "failed"
    \/ stopped /\ draining + Lease > Timeout

(***************************************************************************)
(* The inductive invariant.  In Budget, the refreshes that faults may have *)
(* cost so far; one is still owed while conn is None.                      *)
(***************************************************************************)
Budget == 2 * faults - (IF conn THEN 0 ELSE 1)

Fresh == Alive => age <= wait + Budget * Interval

\* The thread loses no time before its loop, and owes nothing when it enters.
Beginning ==
  /\ first = "made" => conn \/ faults > 0
  /\ first # "made" => ~conn /\ faults = 0 /\ wait = 0
  /\ first = "pending" /\ ~stopped => age = 0

Draining == stopped /\ first # "failed" => age <= draining + Lease

IInv ==
  /\ TypeOK
  /\ Beginning
  /\ Fresh
  /\ Draining
  /\ DrainWindow

-----------------------------------------------------------------------------
(* The drain window, for every interval, timeout and number of faults that *)
(* the settings allow.                                                     *)

\* Products of naturals are monotonic in their first factor.
LEMMA TimesMonotonic ==
  ASSUME NEW a \in Int, NEW b \in Int, NEW c \in Nat, a <= b
  PROVE  a * c <= b * c
  <1>1. (b - a) * c >= 0
    OBVIOUS
  <1>2. (b - a) * c = b * c - a * c
    OBVIOUS
  <1>3. a * c \in Int /\ b * c \in Int
    OBVIOUS
  <1>4. QED
    BY <1>1, <1>2, <1>3

\* One more interval.
LEMMA TimesSuccessor ==
  ASSUME NEW a \in Int, NEW c \in Nat
  PROVE  (a + 1) * c = a * c + c
  OBVIOUS

\* What the faults may have cost never exceeds the lease.
LEMMA BudgetWithinLease ==
  ASSUME TypeOK
  PROVE  /\ Budget \in Int
         /\ Budget * Interval \in Int
         /\ wait + Budget * Interval <= Lease
  <1>1. Budget \in Int /\ Budget <= 2 * MaxFaults
    BY LeaseAssumption DEF TypeOK, Budget
  <1>2. Budget * Interval <= (2 * MaxFaults) * Interval
    BY <1>1, LeaseAssumption, TimesMonotonic
  <1>3. Lease = (2 * MaxFaults) * Interval + Interval
    BY LeaseAssumption, TimesSuccessor DEF Lease
  <1>4. /\ wait \in Int /\ wait <= Interval
        /\ Budget * Interval \in Int
        /\ (2 * MaxFaults) * Interval \in Int
    BY <1>1, LeaseAssumption DEF TypeOK
  <1>5. QED
    BY <1>1, <1>2, <1>3, <1>4, LeaseAssumption

\* A refresh that is missed costs one interval, which the faults pay for.
LEMMA MissedRefresh ==
  ASSUME TypeOK, TypeOK', Fresh, Due, age' = age,
         Budget + 1 <= Budget'
  PROVE  Fresh'
  <1>1. Budget \in Int /\ Budget' \in Int
    BY LeaseAssumption DEF TypeOK, Budget
  <1>2. age <= Interval + Budget * Interval
    BY DEF Fresh, Due, Alive
  <1>3. (Budget + 1) * Interval = Budget * Interval + Interval
    BY <1>1, LeaseAssumption, TimesSuccessor
  <1>4. (Budget + 1) * Interval <= Budget' * Interval
    <2>1. PICK a \in Int, b \in Int : a = Budget + 1 /\ b = Budget'
      BY <1>1
    <2>2. a * Interval <= b * Interval
      BY <2>1, LeaseAssumption, TimesMonotonic
    <2>3. QED
      BY <2>1, <2>2
  <1>5. /\ age \in Int /\ Budget * Interval \in Int /\ (Budget + 1) * Interval \in Int
        /\ Budget' * Interval \in Int /\ wait' = 0
    BY <1>1, LeaseAssumption DEF TypeOK, Due
  <1>6. QED
    BY <1>2, <1>3, <1>4, <1>5, LeaseAssumption DEF Fresh

\* A job that was just picked up has its whole lease.
LEMMA InitIInv == Init => IInv
  <1> SUFFICES ASSUME Init PROVE IInv
    OBVIOUS
  <1>1. TypeOK
    <2>1. conn \in BOOLEAN /\ stopped \in BOOLEAN
      BY Zenon DEF Init
    <2>2. /\ first \in {"pending", "made", "failed"}
          /\ wait \in 0 .. Interval /\ faults \in 0 .. MaxFaults
      BY LeaseAssumption DEF Init
    <2>3. QED
      BY <2>1, <2>2 DEF Init, TypeOK
  <1>2. Budget \in Int /\ (first = "made" => 0 <= Budget)
    BY <1>1, LeaseAssumption DEF Init, TypeOK, Budget
  <1>3. (first = "made" => 0 * Interval <= Budget * Interval) /\ 0 * Interval = 0
    BY <1>2, LeaseAssumption, TimesMonotonic
  <1>4. Fresh
    BY <1>1, <1>2, <1>3, LeaseAssumption DEF Init, TypeOK, Fresh, Alive
  <1>5. Draining /\ DrainWindow /\ Beginning
    BY DEF Init, Draining, DrainWindow, Beginning
  <1>6. QED
    BY <1>1, <1>4, <1>5 DEF IInv

\* Every step keeps the lease.
LEMMA NextIInv == IInv /\ [Next]_vars => IInv'
  <1> SUFFICES ASSUME IInv, [Next]_vars PROVE IInv'
    OBVIOUS
  <1> USE LeaseAssumption
  <1>0. TypeOK /\ Beginning /\ Lease \in Nat
    BY DEF IInv, Lease
  <1>1. TypeOK'
    <2>1. CASE FirstConnection
      BY <1>0, <2>1 DEF TypeOK, FirstConnection
    <2>2. CASE Tick
      BY <1>0, <2>2 DEF TypeOK, Tick, Alive
    <2>3. CASE Refresh
      BY <1>0, <2>3 DEF TypeOK, Refresh, Due
    <2>4. CASE Fault
      <3>1. conn' \in BOOLEAN
        BY <2>4 DEF Fault
      <3>2. QED
        BY <1>0, <2>4, <3>1 DEF TypeOK, Fault, Due
    <2>5. CASE Reconnect
      BY <1>0, <2>5 DEF TypeOK, Reconnect, Due
    <2>6. CASE Stop
      BY <1>0, <2>6 DEF TypeOK, Stop
    <2>7. CASE Reap \/ Finish \/ UNCHANGED vars
      BY <1>0, <2>7 DEF TypeOK, Reap, Finish, vars
    <2>8. QED
      BY <2>1, <2>2, <2>3, <2>4, <2>5, <2>6, <2>7 DEF Next
  <1>2. Beginning'
    <2>1. CASE Fault
      BY <1>0, <2>1 DEF TypeOK, Beginning, Fault, Due, Alive
    <2>2. CASE Reconnect
      BY <1>0, <2>2 DEF Beginning, Reconnect, Due, Alive
    <2>3. CASE Refresh
      BY <1>0, <2>3 DEF Beginning, Refresh, Due, Alive
    <2>4. CASE Tick
      BY <1>0, <2>4 DEF Beginning, Tick, Alive
    <2>5. CASE FirstConnection
      BY <1>0, <2>5 DEF Beginning, FirstConnection
    <2>6. CASE Stop \/ Reap \/ Finish \/ UNCHANGED vars
      BY <1>0, <2>6 DEF Beginning, Stop, Reap, Finish, vars
    <2>7. QED
      BY <2>1, <2>2, <2>3, <2>4, <2>5, <2>6 DEF Next
  <1>3. Fresh'
    <2>1. CASE Tick
      <3>1. Budget' = Budget /\ Budget * Interval \in Int
        BY <1>0, <2>1, BudgetWithinLease DEF Tick, Budget
      <3>2. QED
        BY <2>1, <3>1 DEF IInv, TypeOK, Tick, Fresh, Alive
    <2>2. CASE Refresh
      <3>1. wait' + (Budget * Interval)' = 0 /\ age' = 0
        BY <2>2 DEF Refresh, Due, Budget
      <3>2. QED
        BY <3>1 DEF Fresh
    <2>3. CASE Fault \/ Reconnect
      <3>1. Budget + 1 <= Budget'
        <4>1. CASE Fault /\ conn
          <5>1. faults' = faults + 1 /\ faults \in Int
            BY <1>0, <4>1 DEF TypeOK, Fault
          <5>2. Budget = 2 * faults /\ Budget' >= 2 * faults + 1
            BY <4>1, <5>1 DEF Budget
          <5>3. QED
            BY <5>1, <5>2
        <4>2. CASE Fault /\ ~conn
          <5>1. faults' = faults + 1 /\ faults \in Int /\ ~conn'
            BY <1>0, <4>2 DEF TypeOK, Fault
          <5>2. QED
            BY <4>2, <5>1 DEF Budget
        <4>3. CASE Reconnect
          <5>1. faults' = faults /\ faults \in Int /\ ~conn /\ conn'
            BY <1>0, <4>3 DEF TypeOK, Reconnect
          <5>2. QED
            BY <5>1 DEF Budget
        <4>4. QED
          BY <2>3, <4>1, <4>2, <4>3
      <3>2. QED
        BY <1>0, <1>1, <2>3, <3>1, MissedRefresh DEF IInv, Fault, Reconnect, Due
    <2>4. CASE Stop
      BY <2>4 DEF Stop, Fresh, Alive
    <2>5. CASE FirstConnection
      <3>1. first' = "made" => age' = 0 /\ wait' = 0 /\ Budget' = 0
        BY <1>0, <2>5 DEF Beginning, FirstConnection, Budget
      <3>2. first' = "made" => (Budget * Interval)' = 0
        BY <3>1
      <3>3. QED
        BY <3>1, <3>2 DEF Fresh, Alive
    <2>6. CASE Reap \/ Finish \/ UNCHANGED vars
      BY <2>6 DEF IInv, Reap, Finish, vars, Fresh, Budget, Alive
    <2>7. QED
      BY <2>1, <2>2, <2>3, <2>4, <2>5, <2>6 DEF Next
  <1>4. Draining'
    <2>1. CASE Stop
      <3>1. first # "failed" => age <= Lease
        BY <1>0, <2>1, BudgetWithinLease
          DEF IInv, TypeOK, Stop, Fresh, Alive, Beginning
      <3>2. draining' = draining /\ age' = age /\ first' = first
        BY <2>1 DEF Stop
      <3>3. QED
        BY <1>0, <1>1, <3>1, <3>2 DEF TypeOK, Draining, Lease
    <2>2. CASE Tick
      BY <1>0, <2>2 DEF IInv, TypeOK, Tick, Draining, Lease
    <2>3. CASE Refresh \/ Fault \/ Reconnect
      BY <2>3 DEF Refresh, Fault, Reconnect, Due, Alive, Draining
    <2>4. CASE FirstConnection
      BY <2>4 DEF FirstConnection, Draining
    <2>5. CASE Reap \/ Finish \/ UNCHANGED vars
      BY <2>5 DEF IInv, Reap, Finish, vars, Draining, Lease
    <2>6. QED
      BY <2>1, <2>2, <2>3, <2>4, <2>5 DEF Next
  <1>5. DrainWindow'
    <2>1. CASE Reap
      <3>1. Alive => age <= Lease
        BY <1>0, BudgetWithinLease DEF IInv, TypeOK, Fresh
      <3>2. stopped /\ first # "failed" => age <= draining + Lease
        BY DEF IInv, Draining
      <3>3. first = "pending" /\ ~stopped => age = 0
        BY <1>0 DEF Beginning
      <3>4. /\ age > Timeout /\ stopped' = stopped /\ draining' = draining
            /\ first' = first /\ Lease' = Lease
        BY <2>1 DEF Reap, Lease
      <3>5. QED
        BY <1>0, <3>1, <3>2, <3>3, <3>4, SettingsAssumption
          DEF TypeOK, Alive, DrainWindow
    <2>2. CASE Tick
      BY <1>0, <2>2, SettingsAssumption DEF IInv, TypeOK, Tick, DrainWindow, Lease
    <2>3. CASE Stop
      BY <2>3 DEF IInv, Stop, DrainWindow
    <2>4. CASE FirstConnection
      <3>1. status' # "failed"
        BY <2>4 DEF IInv, FirstConnection, DrainWindow
      <3>2. QED
        BY <3>1 DEF DrainWindow
    <2>5. CASE Refresh \/ Fault \/ Reconnect \/ Finish \/ UNCHANGED vars
      BY <2>5 DEF IInv, Refresh, Fault, Reconnect, Finish, vars, DrainWindow, Lease
    <2>6. QED
      BY <2>1, <2>2, <2>3, <2>4, <2>5 DEF Next
  <1>6. QED
    BY <1>0, <1>1, <1>2, <1>3, <1>4, <1>5 DEF IInv

\* The invariant of the lease holds in every behaviour, whatever becomes of
\* the heartbeat thread's first connection.
THEOREM LeaseInvariant == Spec => []IInv
  BY InitIInv, NextIInv, PTL DEF Spec

\* A worker that was not told to stop never loses its job to the reaper, however
\* the faults fall, unless its heartbeat thread died at its first connection;
\* one that was keeps it for more than Timeout - Lease seconds
\* (_heartbeat_loop, reap_zombies and the check of settings.py).
THEOREM DrainWindowHolds == Spec => []DrainWindow
  <1>1. IInv => DrainWindow
    BY DEF IInv
  <1>2. QED
    BY <1>1, LeaseInvariant, PTL
=============================================================================
