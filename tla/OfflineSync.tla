---------------------------- MODULE OfflineSync ----------------------------
(***************************************************************************)
(* Offline sync of one entity (backend/routes/sync.py): clients push       *)
(* mutations they made offline, in batches whose statements each commit on *)
(* their own; field-level conflicts are looked for in audit_events and     *)
(* resolved by hand.  The lookup of a field and the insert of the conflict *)
(* it finds are taken together: nothing in between changes either.         *)
(***************************************************************************)
EXTENDS Naturals, Sequences, Functions

CONSTANTS
  Mutation,       \* the mutations clients make offline
  Field,          \* the fields of the entity
  Pusher,         \* clients that push; each retries its own batch
  Resolver,       \* requests that resolve conflicts
  MaxTime,        \* bound on the clock
  MaxRetries,     \* bound on the failures of statements
  ServerEdits     \* whether other routes change the entity

(* What the constants must satisfy.                                        *)
SyncAssumption == {MaxTime, MaxRetries} \subseteq Nat /\ ServerEdits \in BOOLEAN

VARIABLES
  clock,
  edits,          \* the offline mutations: fields changed and client timestamp
  events,         \* audit_events of the entity: field_name (or NULL) and time
  queue,          \* rows of sync_queue per mutation
  conflicts,      \* sync_conflicts: <<mutation, field>> -> resolution or "open"
  push,           \* each client's batch, and what is left of it in a request
  reading,        \* the conflict a resolve request has found open
  started,        \* history: when the batch of a mutation was last sent
  answered,       \* history: mutations of the batches that were answered
  accepted,       \* history: <<mutation, mutation>> queued one after the other
  retries

vars == <<clock, edits, events, queue, conflicts, push, reading, started,
          answered, accepted, retries>>

Resolution == {"local", "remote"}
NoEdit == [fields |-> {}, ts |-> 0]
NoPush == [pc |-> "idle", batch |-> <<>>, todo |-> <<>>, fields |-> {}, clash |-> FALSE]

TypeOK ==
  /\ clock \in 0 .. MaxTime
  /\ edits \in [Mutation -> [fields : SUBSET Field, ts : 0 .. MaxTime]]
  /\ events \subseteq [field : Field \cup {"NULL"}, ts : 1 .. MaxTime]
  /\ queue \in [Mutation -> 0 .. MaxRetries + 1]
  /\ DOMAIN conflicts \subseteq Mutation \X Field
  /\ Range(conflicts) \subseteq Resolution \cup {"open"}
  /\ \A p \in Pusher : push[p].pc \in {"idle", "check", "record", "failed"}
  /\ answered \subseteq Mutation

Init ==
  /\ clock = 0
  /\ edits = [m \in Mutation |-> NoEdit]
  /\ events = {}
  /\ queue = [m \in Mutation |-> 0]
  /\ conflicts = <<>>
  /\ push = [p \in Pusher |-> NoPush]
  /\ reading = [r \in Resolver |-> <<>>]
  /\ started = [m \in Mutation |-> 0]
  /\ answered = {}
  /\ accepted = {}
  /\ retries = 0

store == <<events, queue, conflicts>>
history == <<started, answered, accepted, retries>>

\* The clock is that of the database; a client's is in step with it.
Advance == clock < MaxTime /\ clock' = clock + 1

EditOffline(m, F) ==
  /\ edits[m] = NoEdit
  /\ edits' = [edits EXCEPT ![m] = [fields |-> F, ts |-> clock]]
  /\ UNCHANGED <<clock, store, push, reading, history>>

\* A route that records the field it changes (parameters.py, dc_pipeline.py).
EditOnServer(f) ==
  /\ ServerEdits
  /\ Advance
  /\ events' = events \cup {[field |-> f, ts |-> clock + 1]}
  /\ UNCHANGED <<edits, queue, conflicts, push, reading, history>>

Send(p, batch) ==
  /\ push' = [push EXCEPT ![p] = [NoPush EXCEPT !.pc = "check", !.batch = batch,
                !.todo = batch, !.fields = edits[Head(batch)].fields]]
  /\ started' = [m \in Mutation |-> IF m \in Range(batch) THEN clock' ELSE started[m]]

\* POST push: a batch of edits not sent before.
Push(p, batch) ==
  /\ push[p].pc = "idle"
  /\ \A m \in Range(batch) : edits[m] # NoEdit /\ started[m] = 0
  /\ Advance
  /\ Send(p, batch)
  /\ UNCHANGED <<edits, store, reading, answered, accepted, retries>>

\* The request failed half-way; the client sends the whole batch again.
Retry(p) ==
  /\ push[p].pc = "failed"
  /\ Advance
  /\ Send(p, push[p].batch)
  /\ UNCHANGED <<edits, store, reading, answered, accepted, retries>>

\* A statement fails: 503, and what was committed stays.
PushFails(p) ==
  /\ push[p].pc \in {"check", "record"}
  /\ retries < MaxRetries
  /\ retries' = retries + 1
  /\ push' = [push EXCEPT ![p].pc = "failed"]
  /\ UNCHANGED <<clock, edits, store, reading, started, answered, accepted>>

\* _detect_field_conflict.
Detected(m, f) == \E e \in events : e.field = f /\ e.ts > edits[m].ts

Opened(c) == [x \in DOMAIN conflicts \cup {c} |-> IF x = c THEN "open" ELSE conflicts[x]]

\* A conflict is a new row, open, even where a retry finds it again.
CheckField(p, f) ==
  LET m == Head(push[p].todo) IN
  /\ push[p].pc = "check"
  /\ f \in push[p].fields
  /\ push' = [push EXCEPT ![p].fields = @ \ {f}, ![p].clash = @ \/ Detected(m, f)]
  /\ conflicts' = IF Detected(m, f) THEN Opened(<<m, f>>) ELSE conflicts
  /\ UNCHANGED <<clock, edits, events, queue, reading, history>>

\* The batch goes on with the next mutation, or is answered.
Following(p) ==
  LET rest == Tail(push[p].todo) IN
  /\ push' = [push EXCEPT ![p] =
       IF rest = <<>> THEN NoPush
       ELSE [@ EXCEPT !.pc = "check", !.todo = rest, !.clash = FALSE,
               !.fields = edits[Head(rest)].fields]]
  /\ answered' = IF rest = <<>> THEN answered \cup Range(push[p].batch) ELSE answered

Checked(p) == push[p].pc = "check" /\ push[p].fields = {}

\* A mutation with a conflict is not queued.
SkipConflicting(p) ==
  /\ Checked(p) /\ push[p].clash
  /\ Following(p)
  /\ UNCHANGED <<clock, edits, store, reading, started, accepted, retries>>

\* One without is queued ...
Enqueue(p) ==
  LET m == Head(push[p].todo) IN
  /\ Checked(p) /\ ~push[p].clash
  /\ queue' = [queue EXCEPT ![m] = @ + 1]
  /\ accepted' = accepted \cup {<<n, m>> : n \in {k \in Mutation : queue[k] > 0}}
  /\ push' = [push EXCEPT ![p].pc = "record"]
  /\ UNCHANGED <<clock, edits, events, conflicts, reading, started, answered, retries>>

\* Variant: the answer is sent before the rest of the batch is looked at.
RecordAndAnswer(p) ==
  /\ push[p].pc = "record"
  /\ Advance
  /\ events' = events \cup {[field |-> "NULL", ts |-> clock + 1]}
  /\ push' = [push EXCEPT ![p] = NoPush]
  /\ answered' = answered \cup Range(push[p].batch)
  /\ UNCHANGED <<edits, queue, conflicts, reading, started, accepted, retries>>

\* ... and recorded, without a field_name.
Record(p) ==
  /\ push[p].pc = "record"
  /\ Advance
  /\ events' = events \cup {[field |-> "NULL", ts |-> clock + 1]}
  /\ Following(p)
  /\ UNCHANGED <<edits, queue, conflicts, reading, started, accepted, retries>>

\* resolve_conflict: the row is found open ...
ResolveRead(r, c) ==
  /\ reading[r] = <<>>
  /\ conflicts[c] = "open"
  /\ reading' = [reading EXCEPT ![r] = c]
  /\ UNCHANGED <<clock, edits, store, push, history>>

\* ... and updated, whatever it has become.
ResolveWrite(r, x) ==
  /\ reading[r] # <<>>
  /\ conflicts' = [conflicts EXCEPT ![reading[r]] = x]
  /\ reading' = [reading EXCEPT ![r] = <<>>]
  /\ UNCHANGED <<clock, edits, events, queue, push, history>>

Batches == {s \in UNION {[1 .. n -> Mutation] : n \in 1 .. 2} : IsInjective(s)}

Next ==
  \/ \E m \in Mutation, F \in SUBSET Field \ {{}} : EditOffline(m, F)
  \/ \E f \in Field : EditOnServer(f)
  \/ \E p \in Pusher :
        \/ \E batch \in Batches : Push(p, batch)
        \/ Retry(p) \/ PushFails(p)
        \/ \E f \in Field : CheckField(p, f)
        \/ SkipConflicting(p) \/ Enqueue(p) \/ Record(p)
  \/ \E r \in Resolver :
        \/ \E c \in DOMAIN conflicts : ResolveRead(r, c)
        \/ \E x \in Resolution : ResolveWrite(r, x)

Spec == Init /\ [][Next]_vars
-----------------------------------------------------------------------------
\* No mutation is lost: in a batch that was answered, after any number of
\* failed requests, each is queued or has a conflict to resolve.
AnsweredIsAccountedFor ==
  \A m \in answered : queue[m] > 0 \/ \E f \in edits[m].fields : <<m, f>> \in DOMAIN conflicts

\* A field that another route changed and recorded between the offline edit
\* and the request is a conflict: the mutation was not queued by that request.
ServerChangeIsSeen ==
  \A m \in answered : \A e \in events :
    /\ e.field \in edits[m].fields
    /\ edits[m].ts < e.ts /\ e.ts <= started[m]
    => <<m, e.field>> \in DOMAIN conflicts

\* "Detect field-level conflicts or enqueue": of two mutations of one field,
\* the one that is queued later was not made before the other was sent.
QueuedDoNotConflict ==
  \A p \in accepted :
    LET n == p[1]
        m == p[2] IN
    n # m /\ edits[n].fields \cap edits[m].fields # {} /\ started[n] < started[m]
      => edits[m].ts >= started[n]

\* "Conflict not found or already resolved": a resolution is final.
ResolutionIsFinal ==
  \A c \in DOMAIN conflicts : conflicts[c] # "open" => conflicts'[c] = conflicts[c]
=============================================================================
