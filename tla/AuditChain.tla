----------------------------- MODULE AuditChain -----------------------------
(***************************************************************************)
(* The audit trail of one project: record_event (backend/audit.py), the    *)
(* trigger that writes to the same table (migration 20260422_000034), the  *)
(* verification of the chain (routes/audit_trail.py) and the clients that  *)
(* follow the events by timestamp (pull, routes/sync.py).  A checksum is   *)
(* free of collisions: it is the identity of the event it was computed     *)
(* for, which its unique timestamp names; 0 is the checksum of no event.   *)
(***************************************************************************)
EXTENDS Naturals, FiniteSetsExt

CONSTANTS
  Writer,         \* requests that change data and then record an event
  MaxTime,        \* bound on the clock
  Limit,          \* LIMIT of a pull
  Triggers,       \* the tables changed carry the audit trigger
  DbFaults        \* statements of record_event can fail

(* What the constants must satisfy.                                        *)
AuditAssumption ==
  /\ MaxTime \in Nat
  /\ Limit \in Nat \ {0}
  /\ {Triggers, DbFaults} \subseteq BOOLEAN

VARIABLES
  clock,          \* transactions begun so far: NOW() of the latest
  log,            \* the committed rows of audit_events
  writer,         \* where each request is in record_event
  changes,        \* history: data mutations that asked for an event
  recorded,       \* history: those whose event is in the log
  since, pulled   \* a client's last timestamp, and what it has received

vars == <<clock, log, writer, changes, recorded, since, pulled>>

Times == 1 .. MaxTime
Event == [ts : Times, prev : 0 .. MaxTime, chained : BOOLEAN]
Idle == [pc |-> "idle", prev |-> 0, ts |-> 0]

TypeOK ==
  /\ clock \in 0 .. MaxTime
  /\ log \subseteq Event
  /\ writer \in [Writer -> [pc : {"idle", "read", "insert", "commit"},
                            prev : 0 .. MaxTime, ts : 0 .. MaxTime]]
  /\ changes \in Nat /\ recorded \in Nat
  /\ since \in 0 .. MaxTime
  /\ pulled \subseteq Times

Init ==
  /\ clock = 0
  /\ log = {}
  /\ writer = [w \in Writer |-> Idle]
  /\ changes = 0 /\ recorded = 0
  /\ since = 0 /\ pulled = {}

Stamps == {e.ts : e \in log}
LastChecksum == Max(Stamps \cup {0})
client == <<since, pulled>>

\* A data mutation commits; the request calls record_event.  Where the table
\* has the trigger, the mutation's own transaction writes a row whose checksum
\* covers its new values only.
Mutate(w) ==
  /\ writer[w].pc = "idle"
  /\ clock < MaxTime
  /\ changes' = changes + 1
  /\ writer' = [writer EXCEPT ![w] = [Idle EXCEPT !.pc = "read"]]
  /\ IF Triggers
     THEN /\ clock' = clock + 1
          /\ log' = log \cup {[ts |-> clock + 1, prev |-> 0, chained |-> FALSE]}
     ELSE UNCHANGED <<clock, log>>
  /\ UNCHANGED <<recorded, client>>

\* _get_last_checksum: that of the row with the latest timestamp, zero when
\* there is none or the query fails.
ReadLast(w) ==
  /\ writer[w].pc = "read"
  /\ \E c \in {LastChecksum} \cup (IF DbFaults THEN {0} ELSE {}) :
       writer' = [writer EXCEPT ![w].pc = "insert", ![w].prev = c]
  /\ UNCHANGED <<clock, log, changes, recorded, client>>

\* The INSERT begins a transaction: its NOW() is the event's timestamp ...
Insert(w) ==
  /\ writer[w].pc = "insert"
  /\ clock < MaxTime
  /\ clock' = clock + 1
  /\ writer' = [writer EXCEPT ![w].pc = "commit", ![w].ts = clock + 1]
  /\ UNCHANGED <<log, changes, recorded, client>>

\* ... and the row is seen by others when it commits.
CommitInsert(w) ==
  /\ writer[w].pc = "commit"
  /\ log' = log \cup {[ts |-> writer[w].ts, prev |-> writer[w].prev, chained |-> TRUE]}
  /\ recorded' = recorded + 1
  /\ writer' = [writer EXCEPT ![w] = Idle]
  /\ UNCHANGED <<clock, changes, client>>

\* The INSERT fails: record_event logs it and answers {}.
InsertFails(w) ==
  /\ DbFaults
  /\ writer[w].pc \in {"insert", "commit"}
  /\ writer' = [writer EXCEPT ![w] = Idle]
  /\ UNCHANGED <<clock, log, changes, recorded, client>>

After(t) == {x \in Stamps : x > t}

\* pull_changes: the oldest Limit events after since; the client goes on from
\* the last one it got.
Pull ==
  LET page == {x \in After(since) : Cardinality({y \in After(since) : y < x}) < Limit} IN
  /\ page # {}
  /\ pulled' = pulled \cup page
  /\ since' = Max(page)
  /\ UNCHANGED <<clock, log, writer, changes, recorded>>

Next ==
  \/ \E w \in Writer :
        Mutate(w) \/ ReadLast(w) \/ Insert(w) \/ CommitInsert(w) \/ InsertFails(w)
  \/ Pull

Spec == Init /\ [][Next]_vars
-----------------------------------------------------------------------------
\* verify_checksum_chain: every row, recomputed with the stored checksum of
\* the row before it in time, has the checksum that is stored.
Verified ==
  \A e \in log : e.chained /\ e.prev = Max({x \in Stamps : x < e.ts} \cup {0})

\* "SHA-256 checksum chaining for tamper detection": a log that nobody touched
\* is verified.
ChainVerifies == Verified

\* Whatever the interleaving and the failures, an event is chained to an
\* earlier one that is in the log, or to none: the log is a forest in time.
ChainsBackwards ==
  \A e \in log : e.prev < e.ts /\ (e.prev = 0 \/ e.prev \in Stamps)

\* "Records every data mutation": once no request is in record_event, there
\* are as many events as mutations.
EveryMutationRecorded ==
  (\A w \in Writer : writer[w].pc = "idle") => recorded = changes

\* A client that pulls from its last timestamp has every committed event up to
\* that timestamp.
PullMissesNothing == \A x \in Stamps : x <= since => x \in pulled
=============================================================================
