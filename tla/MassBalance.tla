---------------------------- MODULE MassBalance ----------------------------
(* The mass balance of one project (routes/massbalance_v2.py), what the     *)
(* generation writes (engines/mass_balance_engine.py) and the dashboard's   *)
(* cache, which each API process has for itself (routes/dashboard.py).  A   *)
(* generation is one READ COMMITTED transaction; it is one section with one *)
(* stream here, named by its number.                                        *)
EXTENDS Naturals

CONSTANTS Processes,    \* API processes
          Requests,     \* requests, each of them
          Kinds,        \* of these kinds
          Filled,       \* a balance has been generated before
          MaxGen, MaxVersion  \* bounds on generations and edits of a stream
(* What the constants must satisfy. *)
MassBalanceConstants ==
  /\ Filled \in BOOLEAN /\ MaxGen \in Nat /\ MaxVersion \in Nat
  /\ Kinds \subseteq {"generate", "patch", "partial", "snapshot", "dashboard"}

VARIABLES sections, \* mass_balance_sections_v2: the generations that have rows
          streams,  \* mass_balance_streams_v2: generation -> row
          pub,      \* simulation_params: the generation whose recoveries are published
          snaps,    \* mass_balance_snapshots: <<sections, streams>>
          cache,    \* _DASHBOARD_CACHE of each process
          req       \* each request: its place, what it has read, what it removes
vars == <<sections, streams, pub, snaps, cache, req>>

Absent == [age |-> 2, val |-> {}]   \* age 2: older than _DASHBOARD_TTL
Idle == [kind |-> "none", at |-> "idle", home |-> "none", sees |-> {}, gone |-> {}, goneSecs |-> {}, ver |-> 0, work |-> 0]
Row == [ver |-> 1, work |-> 0]

Init == /\ pub = IF Filled THEN 1 ELSE 0
        /\ sections = IF Filled THEN {1} ELSE {}
        /\ streams = [g \in sections |-> Row]
        /\ snaps = {} /\ cache = [p \in Processes |-> Absent] /\ req = [r \in Requests |-> Idle]

Start(r, kind, at, p, sees) ==
  /\ kind \in Kinds /\ req[r] = Idle
  /\ req' = [req EXCEPT ![r] = [Idle EXCEPT !.kind = kind, !.at = at, !.home = p, !.sees = sees]]
At(r, kind, at) == req[r].kind = kind /\ req[r].at = at
HeldByOther(r, g) == \E q \in Requests \ {r} : g \in req[q].gone \cup req[q].goneSecs
End(r) == req' = [req EXCEPT ![r] = Idle]

(* Auto-generation: the streams' DELETE begins ...                          *)
See(r) == \E p \in Processes :
  /\ Start(r, "generate", "streams", p, DOMAIN streams) /\ UNCHANGED <<sections, streams, pub, snaps, cache>>
(* ... ends when nobody else is removing one of its rows, and that of the   *)
(* sections begins, which sees what was committed since ...                 *)
DeleteStreams(r) == LET still == req[r].sees \cap DOMAIN streams IN
  /\ At(r, "generate", "streams") /\ \A g \in still : ~HeldByOther(r, g)
  /\ req' = [req EXCEPT ![r].gone = still, ![r].sees = sections, ![r].at = "sections"]
  /\ UNCHANGED <<sections, streams, pub, snaps, cache>>
(* ... and takes their streams along; of two that wait for each other the   *)
(* server ends one, which rolls back.                                       *)
DeleteSections(r) == LET still == req[r].sees \cap sections IN
  /\ At(r, "generate", "sections") /\ \A g \in still : ~HeldByOther(r, g)
  /\ req' = [req EXCEPT ![r].goneSecs = still, ![r].at = "insert"]
  /\ UNCHANGED <<sections, streams, pub, snaps, cache>>
(* The dashboard's entry goes before the COMMIT, in this process. *)
Invalidate(r) ==
  /\ At(r, "generate", "insert")
  /\ cache' = [cache EXCEPT ![req[r].home] = Absent] /\ req' = [req EXCEPT ![r].at = "commit"]
  /\ UNCHANGED <<sections, streams, pub, snaps>>
(* The deleted, the new section and stream and the recoveries, at once. *)
Commit(r) == LET g == pub + 1 IN
  /\ At(r, "generate", "commit") /\ g <= MaxGen
  /\ sections' = (sections \ req[r].goneSecs) \cup {g}
  /\ streams' = [h \in ((DOMAIN streams) \ (req[r].gone \cup req[r].goneSecs)) \cup {g} |->
                   IF h = g THEN Row ELSE streams[h]]
  /\ pub' = g /\ End(r) /\ UNCHANGED <<snaps, cache>>
RollBack(r) == /\ req[r].kind = "generate" /\ End(r) /\ UNCHANGED <<sections, streams, pub, snaps, cache>>

(* A client reads a stream, and sends all of its numbers ... *)
Read(r) == \E g \in DOMAIN streams :
  /\ "patch" \in Kinds /\ req[r] = Idle /\ streams[g].ver < MaxVersion
  /\ req' = [req EXCEPT ![r] = [Idle EXCEPT !.kind = "patch", !.at = "sent", !.sees = {g},
                                            !.ver = streams[g].ver, !.work = streams[g].work + 1]]
  /\ UNCHANGED <<sections, streams, pub, snaps, cache>>
(* ... the version is compared when the row is fetched ... *)
Check(r) == \E g \in req[r].sees \cap DOMAIN streams :
  /\ At(r, "patch", "sent") /\ streams[g].ver = req[r].ver
  /\ req' = [req EXCEPT ![r].at = "checked"] /\ UNCHANGED <<sections, streams, pub, snaps, cache>>
(* ... and once more by the UPDATE. *)
Patch(r) == \E g \in req[r].sees \cap DOMAIN streams :
  /\ At(r, "patch", "checked") /\ ~HeldByOther(r, g) /\ streams[g].ver = req[r].ver
  /\ streams' = [streams EXCEPT ![g].ver = @ + 1, ![g].work = req[r].work]
  /\ End(r) /\ UNCHANGED <<sections, pub, snaps, cache>>
(* 404 or 409. *)
Refuse(r) == /\ req[r].kind = "patch"
             /\ \A g \in req[r].sees \cap DOMAIN streams : streams[g].ver # req[r].ver
             /\ End(r) /\ UNCHANGED <<sections, streams, pub, snaps, cache>>
(* A body with some of the numbers: the others are there as null, so that   *)
(* none is taken from the row, and null is no number.                       *)
Partial(r) == \E g \in DOMAIN streams :
  /\ Start(r, "partial", "error", "none", {g}) /\ UNCHANGED <<sections, streams, pub, snaps, cache>>
Fail(r) == At(r, "partial", "error") /\ End(r) /\ UNCHANGED <<sections, streams, pub, snaps, cache>>

(* A snapshot reads the sections, then the streams, and is inserted. *)
SnapSections(r) == /\ sections # {} /\ Start(r, "snapshot", "sections", "none", sections)
                   /\ UNCHANGED <<sections, streams, pub, snaps, cache>>
SnapStreams(r) == /\ At(r, "snapshot", "sections")
                  /\ snaps' = snaps \cup {<<req[r].sees, DOMAIN streams>>}
                  /\ End(r) /\ UNCHANGED <<sections, streams, pub, cache>>

(* The dashboard: the cached entry, or one computed now ... *)
Hit(r) == \E p \in Processes :
  /\ cache[p].age < 2 /\ Start(r, "dashboard", "shown", p, cache[p].val)
  /\ UNCHANGED <<sections, streams, pub, snaps, cache>>
Compute(r) == \E p \in Processes :
  /\ cache[p].age = 2 /\ Start(r, "dashboard", "computed", p, sections)
  /\ UNCHANGED <<sections, streams, pub, snaps, cache>>
(* ... and kept, whatever was committed or invalidated since. *)
Put(r) == /\ At(r, "dashboard", "computed")
          /\ cache' = [cache EXCEPT ![req[r].home] = [age |-> 0, val |-> req[r].sees]]
          /\ req' = [req EXCEPT ![r].at = "shown"] /\ UNCHANGED <<sections, streams, pub, snaps>>
Leave(r) == At(r, "dashboard", "shown") /\ End(r) /\ UNCHANGED <<sections, streams, pub, snaps, cache>>
Age(p) == /\ cache[p].age < 2 /\ cache' = [cache EXCEPT ![p].age = @ + 1]
          /\ UNCHANGED <<sections, streams, pub, snaps, req>>

Generation(r) == See(r) \/ DeleteStreams(r) \/ DeleteSections(r) \/ Invalidate(r) \/ Commit(r) \/ RollBack(r)
Next == \/ \E r \in Requests :
             \/ Generation(r) \/ Read(r) \/ Check(r) \/ Patch(r) \/ Refuse(r) \/ Partial(r) \/ Fail(r)
             \/ SnapSections(r) \/ SnapStreams(r) \/ Hit(r) \/ Compute(r) \/ Put(r) \/ Leave(r)
        \/ \E p \in Processes : Age(p)
(* A computation of the dashboard ends, and time goes on. *)
Spec == Init /\ [][Next]_vars /\ (\A r \in Requests : WF_vars(Put(r))) /\ (\A p \in Processes : WF_vars(Age(p)))

-----------------------------------------------------------------------------
(* "Delete existing MB data and regenerate from the selected circuit          *)
(* template.": there is one balance, whole, and the recoveries that the      *)
(* dashboard and the economics read are its.                                 *)
OneBalance == (pub # 0 => sections = {pub}) /\ DOMAIN streams = sections

(* "Update a single stream's editable fields with optimistic locking.": no   *)
(* change is made by somebody who had not seen the one before it.            *)
NoneLost == \A g \in DOMAIN streams : streams[g].work = streams[g].ver - 1

(* "Save current MB as a named snapshot.": its sections are those of its     *)
(* streams.                                                                  *)
SnapshotWhole == \A s \in snaps : s[1] = s[2]

(* The same: a change of some fields of a stream that is there is made.      *)
PatchSucceeds == \A r \in Requests : ~At(r, "partial", "error")

(* "Call this after any write that affects dashboard counters.": when nobody *)
(* is writing, a process that did the writes keeps none from before them.    *)
CacheFresh == (\A r \in Requests : req[r] = Idle) =>
                \A p \in Processes : cache[p].age < 2 => cache[p].val = sections

(* Whatever a process keeps, it does not show an old balance for ever.       *)
Waits(p) == cache[p].age < 2 /\ cache[p].val # sections
=============================================================================
