------------------------------ MODULE Pipeline ------------------------------
(***************************************************************************)
(* The module generation pipeline of a project (backend/routes/pipeline.py *)
(* and the routes that signal it): the dependency graph, the statuses in   *)
(* module_generation_status, the staleness cascade and the background      *)
(* regeneration.  Every read or write of a status is a transaction of its  *)
(* own, so each is a step of its own here; the reads of one readiness      *)
(* check are taken together.                                               *)
(***************************************************************************)
EXTENDS Naturals, Sequences, FiniteSets

CONSTANTS
  Module,         \* the modules of the instance, the tables are cut to it
  Proc,           \* the requests and background tasks that can be under way
  Requests,       \* the kinds of request clients send
  Crashes         \* whether the API process can be killed

AllModules == {"lims", "blockmodel", "design_criteria", "mass_balance", "flowsheet",
               "equipment", "simulation", "opex", "economics", "risks"}
RequestKinds == {"edit", "mark_complete", "mark_stale", "generate", "regenerate", "force"}

(* What the constants must satisfy.                                        *)
PipelineAssumption ==
  /\ Module \subseteq AllModules
  /\ Requests \subseteq RequestKinds
  /\ Crashes \in BOOLEAN

\* The depends_on and auto_generate columns of MODULE_GRAPH.
DependsOn ==
  [lims |-> {}, blockmodel |-> {},
   design_criteria |-> {"lims"},
   mass_balance |-> {"design_criteria"},
   flowsheet |-> {"design_criteria", "mass_balance"},
   equipment |-> {"flowsheet", "design_criteria"},
   simulation |-> {"design_criteria", "mass_balance"},
   opex |-> {"equipment", "design_criteria"},
   economics |-> {"opex"},
   risks |-> {"design_criteria", "mass_balance", "equipment", "flowsheet"}]

AutoGenerate == Module \ {"lims", "blockmodel", "economics"}

GENERATION_ORDER ==
  <<"lims", "blockmodel", "design_criteria", "mass_balance", "flowsheet",
    "equipment", "simulation", "opex", "economics", "risks">>

STALE_CASCADE ==
  [lims |-> <<"design_criteria", "mass_balance", "flowsheet", "equipment",
              "simulation", "opex", "economics">>,
   blockmodel |-> <<"lims">>,
   design_criteria |-> <<"mass_balance", "flowsheet", "equipment", "opex",
                         "economics", "risks">>,
   mass_balance |-> <<"flowsheet", "equipment", "opex", "risks">>,
   flowsheet |-> <<"equipment", "opex", "risks">>,
   equipment |-> <<"opex", "economics", "risks">>,
   simulation |-> <<"opex">>,
   opex |-> <<"economics", "risks">>,
   economics |-> <<"risks">>,
   risks |-> <<>>]

\* Those of s that are in S, in their order.
Within(s, S) ==
  LET some[n \in 0 .. Len(s)] == IF n = 0 THEN <<>>
                                 ELSE IF s[n] \in S THEN Append(some[n - 1], s[n]) ELSE some[n - 1]
  IN  some[Len(s)]
Downstream(m) == Within(STALE_CASCADE[m], Module)

\* Edits of these sources signal the pipeline; those of design criteria only
\* cascade, the others set the source complete first.
Edited == Module \cap {"lims", "design_criteria", "simulation"}

\* These have an auto-generate endpoint that sets statuses itself.
Endpoint == Module \cap {"design_criteria", "mass_balance", "risks"}

VARIABLES
  status,         \* module_generation_status.status
  criteria,       \* design_criteria has rows
  outdated,       \* history: <<m, d>> when d changed after m was derived from it
  silent,         \* history: those of the changes no cascade announced
  proc,           \* what each request is doing
  crossed         \* history: the modules whose status others set since a
                  \* regeneration checked its module, or gave up

vars == <<status, criteria, outdated, silent, proc, crossed>>
marks == <<status, crossed>>

Status == {"pending", "generating", "complete", "stale", "error"}

Idle == [pc |-> "idle", mod |-> "none", rest |-> <<>>, plan |-> <<>>,
         run |-> FALSE, force |-> FALSE, targets |-> {}, was |-> {}]

TypeOK ==
  /\ status \in [Module -> Status]
  /\ criteria \in BOOLEAN
  /\ silent \subseteq outdated
  /\ outdated \subseteq {e \in Module \X Module : e[2] \in DependsOn[e[1]]}
  /\ DOMAIN proc = Proc
  /\ crossed \in [Proc -> SUBSET Module]

Init ==
  /\ status = [m \in Module |-> "pending"]
  /\ criteria = FALSE
  /\ outdated = {}
  /\ silent = {}
  /\ proc = [p \in Proc |-> Idle]
  /\ crossed = [p \in Proc |-> {}]

Goto(p, pc) == proc' = [proc EXCEPT ![p].pc = pc]
Become(p, rec) == proc' = [proc EXCEPT ![p] = rec]

\* p sets the status of m; the regenerations of the others are crossed by it.
Crossed(p, m) == [q \in Proc |-> IF q # p /\ proc[q].run THEN crossed[q] \cup {m}
                                 ELSE crossed[q]]
SetStatus(p, m, s) ==
  /\ status' = [status EXCEPT ![m] = s]
  /\ crossed' = Crossed(p, m)
Of(m) == {e \in outdated : e[1] = m}

\* New data for the modules of S, derived from inputs read before.
Change(S, announced) ==
  LET new == {e \in Module \X S : e[2] \in DependsOn[e[1]]} IN
  /\ outdated' = outdated \cup new
  /\ silent' = IF announced THEN silent ELSE silent \cup new
  /\ criteria' = (criteria \/ "design_criteria" \in S)

\* m is now derived from its sources as they are.
Refresh(S) ==
  /\ outdated' = {e \in outdated : e[1] \notin S}
  /\ silent' = {e \in silent : e[1] \notin S}

ghost == <<criteria, outdated, silent>>
-----------------------------------------------------------------------------
\* A write to a source, committed before the signal is sent.
Edit(p, m) ==
  /\ "edit" \in Requests
  /\ proc[p].pc = "idle"
  /\ m \in Edited
  /\ Change({m}, TRUE)
  /\ Become(p, [Idle EXCEPT !.mod = m, !.rest = Downstream(m),
                  !.pc = IF m = "design_criteria" THEN "cascade" ELSE "announce"])
  /\ UNCHANGED marks

\* POST mark-complete: the user vouches for the module's data.
MarkComplete(p, m) ==
  /\ "mark_complete" \in Requests
  /\ proc[p].pc = "idle"
  /\ Refresh({m})
  /\ Become(p, [Idle EXCEPT !.mod = m, !.rest = Downstream(m), !.pc = "announce"])
  /\ UNCHANGED <<marks, criteria>>

\* POST mark-stale, with or without the cascade.
MarkStale(p, m) ==
  /\ "mark_stale" \in Requests
  /\ proc[p].pc = "idle"
  /\ SetStatus(p, m, "stale")
  /\ \/ Become(p, [Idle EXCEPT !.mod = m, !.rest = Downstream(m), !.pc = "cascade"])
     \/ UNCHANGED proc
  /\ UNCHANGED ghost

\* Variant: the status is set, nothing downstream is looked at.
AnnounceOnly(p) ==
  /\ proc[p].pc = "announce"
  /\ SetStatus(p, proc[p].mod, "complete")
  /\ Become(p, [proc[p] EXCEPT !.pc = "cascade", !.rest = <<>>])
  /\ UNCHANGED ghost

\* set_status(m, "complete"), the cascade follows.
Announce(p) ==
  /\ proc[p].pc = "announce"
  /\ SetStatus(p, proc[p].mod, "complete")
  /\ Goto(p, "cascade")
  /\ UNCHANGED ghost

\* mark_stale_cascade, the read of the next module's status ...
CascadeRead(p) ==
  /\ proc[p].pc = "cascade"
  /\ proc[p].rest # <<>>
  /\ IF status[Head(proc[p].rest)] \in {"complete", "error"}
     THEN Goto(p, "cascade_set")
     ELSE Become(p, [proc[p] EXCEPT !.rest = Tail(@)])
  /\ UNCHANGED <<marks, ghost>>

\* ... and the write that follows it, whatever the status is by then.
CascadeSet(p) ==
  /\ proc[p].pc = "cascade_set"
  /\ SetStatus(p, Head(proc[p].rest), "stale")
  /\ Become(p, [proc[p] EXCEPT !.rest = Tail(@), !.pc = "cascade"])
  /\ UNCHANGED ghost

\* The request is over; inside a regeneration, mass_balance is.
CascadeDone(p) ==
  /\ proc[p].pc = "cascade"
  /\ proc[p].rest = <<>>
  /\ IF proc[p].run THEN Goto(p, "finish") ELSE Become(p, Idle)
  /\ UNCHANGED <<marks, ghost>>
-----------------------------------------------------------------------------
\* POST auto-generate of one module.
Generate(p, m) ==
  /\ "generate" \in Requests
  /\ proc[p].pc = "idle"
  /\ m \in Endpoint
  /\ Become(p, [Idle EXCEPT !.mod = m, !.pc = "begin"])
  /\ UNCHANGED <<marks, ghost>>

Begin(p) ==
  /\ proc[p].pc = "begin"
  /\ SetStatus(p, proc[p].mod, "generating")
  /\ Goto(p, "read")
  /\ UNCHANGED ghost

\* What one generator derives: the mass balance makes the equipment list, the
\* equipment step makes nothing.
Made(m) == CASE m = "mass_balance" -> {"mass_balance", "equipment"} \cap Module
             [] m = "equipment" -> {}
             [] OTHER -> {m}

\* The generator reads its inputs ...
Read(p) ==
  /\ proc[p].pc = "read"
  /\ Refresh(Made(proc[p].mod))
  /\ Become(p, [proc[p] EXCEPT !.pc = "write",
                  !.was = UNION {Of(m) : m \in Made(proc[p].mod)}])
  /\ UNCHANGED <<marks, criteria>>

\* ... and writes what it derived.  Only the endpoints and, inside a
\* regeneration, the mass balance announce it.
Write(p) ==
  LET m == proc[p].mod
      announces == ~proc[p].run \/ m = "mass_balance" IN
  /\ proc[p].pc = "write"
  /\ Change(Made(m), announces)
  /\ Become(p, IF announces
               THEN [proc[p] EXCEPT !.pc = "announce", !.was = {}, !.rest = Downstream(m)]
               ELSE [proc[p] EXCEPT !.pc = "finish", !.was = {}])
  /\ UNCHANGED marks

\* The generator raises.  An endpoint answers 500 and leaves the status; the
\* regeneration goes on with an error, or with a warning when it is opex.
GenerationFails(p) ==
  /\ proc[p].pc = "write"
  /\ outdated' = outdated \cup proc[p].was
  /\ Become(p, CASE ~proc[p].run -> Idle
                 [] proc[p].mod = "opex" -> [proc[p] EXCEPT !.pc = "finish", !.was = {}]
                 [] OTHER -> [proc[p] EXCEPT !.pc = "error", !.was = {}])
  /\ UNCHANGED <<marks, criteria, silent>>
-----------------------------------------------------------------------------
\* POST regenerate: the background task over the targets, in order.
Regenerate(p, targets, force) ==
  /\ (IF force THEN "force" ELSE "regenerate") \in Requests
  /\ proc[p].pc = "idle"
  /\ Become(p, [Idle EXCEPT !.pc = "next", !.run = TRUE, !.force = force,
                  !.targets = targets,
                  !.plan = Within(GENERATION_ORDER, targets \cap AutoGenerate)])
  /\ UNCHANGED <<marks, ghost>>

\* check_readiness: no blockers.
Ready(m) ==
  /\ \A d \in DependsOn[m] \cap Module : status[d] \in {"complete", "skipped"}
  /\ m = "mass_balance" => criteria

CheckReadiness(p) ==
  LET m == Head(proc[p].plan)
      next == [proc[p] EXCEPT !.plan = Tail(@), !.mod = m] IN
  /\ proc[p].pc = "next"
  /\ proc[p].plan # <<>>
  /\ Become(p, IF Ready(m) \/ proc[p].force THEN [next EXCEPT !.pc = "start"] ELSE next)
  /\ crossed' = [crossed EXCEPT ![p] = {}]
  /\ UNCHANGED <<status, ghost>>

\* set_status(m, "generating"); the mass balance generator then does it again.
Start(p) ==
  /\ proc[p].pc = "start"
  /\ SetStatus(p, proc[p].mod, "generating")
  /\ Goto(p, IF proc[p].mod = "mass_balance" THEN "begin" ELSE "read")
  /\ UNCHANGED ghost

Finish(p) ==
  /\ proc[p].pc = "finish"
  /\ SetStatus(p, proc[p].mod, "complete")
  /\ Goto(p, "next")
  /\ UNCHANGED ghost

\* Variant: the run stops without invalidating the targets after the failure.
StopAtError(p) ==
  /\ proc[p].pc = "error"
  /\ status' = [status EXCEPT ![proc[p].mod] = "error"]
  /\ crossed' = [Crossed(p, proc[p].mod) EXCEPT ![p] = {}]
  /\ Become(p, IF proc[p].force THEN [proc[p] EXCEPT !.pc = "next"]
               ELSE [proc[p] EXCEPT !.pc = "invalidate", !.plan = <<>>, !.rest = <<>>])
  /\ UNCHANGED ghost

\* A module failed: go on when forced, else invalidate the targets below it.
RecordError(p) ==
  /\ proc[p].pc = "error"
  /\ status' = [status EXCEPT ![proc[p].mod] = "error"]
  /\ crossed' = [Crossed(p, proc[p].mod) EXCEPT ![p] = {}]
  /\ Become(p, IF proc[p].force THEN [proc[p] EXCEPT !.pc = "next"]
               ELSE [proc[p] EXCEPT !.pc = "invalidate", !.plan = <<>>,
                       !.rest = Within(Downstream(proc[p].mod), proc[p].targets)])
  /\ UNCHANGED ghost

Invalidate(p) ==
  /\ proc[p].pc = "invalidate"
  /\ proc[p].rest # <<>>
  /\ SetStatus(p, Head(proc[p].rest), "stale")
  /\ Become(p, [proc[p] EXCEPT !.rest = Tail(@)])
  /\ UNCHANGED ghost

RunEnds(p) ==
  /\ \/ proc[p].pc = "next" /\ proc[p].plan = <<>>
     \/ proc[p].pc = "invalidate" /\ proc[p].rest = <<>>
  /\ Become(p, Idle)
  /\ crossed' = [crossed EXCEPT ![p] = {}]
  /\ UNCHANGED <<status, ghost>>

\* The API process is killed: its requests and background tasks are gone.
Crash ==
  /\ Crashes
  /\ proc' = [p \in Proc |-> Idle]
  /\ crossed' = [p \in Proc |-> {}]
  /\ outdated' = outdated \cup UNION {proc[p].was : p \in Proc}
  /\ UNCHANGED <<status, criteria, silent>>

Step(p) ==
  \/ Announce(p) \/ CascadeRead(p) \/ CascadeSet(p) \/ CascadeDone(p)
  \/ Begin(p) \/ Read(p) \/ Write(p) \/ GenerationFails(p)
  \/ CheckReadiness(p) \/ Start(p) \/ Finish(p)
  \/ RecordError(p) \/ Invalidate(p) \/ RunEnds(p)

Next ==
  \/ \E p \in Proc :
        \/ \E m \in Module : Edit(p, m) \/ MarkComplete(p, m) \/ MarkStale(p, m)
                             \/ Generate(p, m)
        \/ \E T \in SUBSET AutoGenerate \ {{}}, f \in BOOLEAN : Regenerate(p, T, f)
        \/ Step(p)
  \/ Crash

\* A request, once taken, is worked on; clients owe nothing.
Spec == Init /\ [][Next]_vars /\ \A p \in Proc : WF_vars(Step(p))
-----------------------------------------------------------------------------
AllIdle == \A p \in Proc : proc[p].pc = "idle"

\* "Any modification of a source module marks its dependants stale": at rest,
\* a complete module is derived from its sources as they are.
CompleteIsFresh ==
  AllIdle => \A e \in outdated : status[e[1]] # "complete"

\* What a cascade announces reaches everything STALE_CASCADE lists: at rest, a
\* complete module is up to date with every listed source whose change was
\* announced.  opex and equipment can be set complete without being derived.
AnnouncedIsStale ==
  AllIdle => \A e \in outdated \ silent :
    \/ e[1] \in {"opex", "equipment"}
    \/ e[1] \notin {Downstream(e[2])[i] : i \in 1 .. Len(Downstream(e[2]))}
    \/ status[e[1]] # "complete"

\* A regeneration that completes a module has it derived from its sources,
\* the equipment list included ("already done").
EquipmentIsDerived ==
  \A p \in Proc : Finish(p) /\ proc[p].mod = "equipment" => Of("equipment") = {}

\* "A module can be generated only if all its predecessors are complete": when
\* an unforced regeneration completes a module, they still are, but for those
\* that another request or task has set since the readiness check.
GeneratedFromComplete ==
  \A p \in Proc : Finish(p) /\ ~proc[p].force
    => \A d \in DependsOn[proc[p].mod] \cap Module :
         status[d] = "complete" \/ d \in crossed[p]

\* A regeneration that stops at a failure leaves none of its targets below the
\* module that failed complete, but for those that another request or task has
\* set since.
NothingCompleteBelowFailure ==
  \A p \in Proc : RunEnds(p) /\ proc[p].pc = "invalidate"
    => \A d \in proc[p].targets :
         status[d] = "complete" /\ d \notin crossed[p] =>
           \A i \in 1 .. Len(Downstream(proc[p].mod)) : Downstream(proc[p].mod)[i] # d

\* Every request that is taken is answered, every background task ends; and a
\* module does not stay "generating" where regenerations are the only
\* generators and the process is not killed.
Waits(p) == proc[p].pc # "idle"
Generating(m) == status[m] = "generating"
=============================================================================
