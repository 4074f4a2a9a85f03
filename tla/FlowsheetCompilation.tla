------------------------ MODULE FlowsheetCompilation ------------------------
(* engines/compile.py: a flowsheet is compiled into a circuit template (its *)
(* snapshot) and a row of circuit_compilations, both found again by the     *)
(* hash of the flowsheet.  Every statement is a transaction of its own, so  *)
(* two requests interleave between them and one may die there.  A flowsheet *)
(* is what its hash stands for; a project has one and edits it.             *)
EXTENDS Naturals

CONSTANTS Requests,     \* requests to compile
          Flowsheets,   \* contents of the flowsheet: sets of op codes
          MaxEdits,     \* bound: edits of the flowsheet and of the criteria
          Concurrent,   \* requests run at the same time
          MayFail,      \* a request may die between two statements
          MayChange     \* operations of any template are added and removed
(* What the constants must satisfy. *)
CompileConstants == /\ Flowsheets # {} /\ MaxEdits \in Nat
                           /\ {Concurrent, MayFail, MayChange} \subseteq BOOLEAN

VARIABLES flowsheet,    \* the content of flowsheets now
          criteria,     \* which edition of the active template's criteria; 0: none is active
          edits,        \* edits made (bounded by MaxEdits)
          snapshot,     \* circuit_templates named __snap_<hash>, with their rows
          compilation,  \* circuit_compilations: the hash -> is there a row
          req           \* what each request has loaded and where it is
vars == <<flowsheet, criteria, edits, snapshot, compilation, req>>

NoSnapshot == [made |-> FALSE, ops |-> {}, criteria |-> 0]   \* 0: no criteria copied
NoRequest == [at |-> "idle", of |-> {}, left |-> {}]

Init == /\ flowsheet \in Flowsheets /\ criteria \in {0, 1} /\ edits = 0
        /\ snapshot = [f \in Flowsheets |-> NoSnapshot]
        /\ compilation = [f \in Flowsheets |-> FALSE]
        /\ req = [r \in Requests |-> NoRequest]

Ended == {"idle", "served", "error", "died"}
Running == {r \in Requests : req[r].at \notin Ended}
Go(r, at) == req' = [req EXCEPT ![r].at = at]

(* A save of the flowsheet; an edit of the active template's criteria, or   *)
(* templates are activated and deactivated until another or none is active. *)
Save == /\ edits < MaxEdits /\ edits' = edits + 1
        /\ \/ /\ \E f \in Flowsheets \ {flowsheet} : flowsheet' = f
              /\ UNCHANGED criteria
           \/ criteria' \in {0, 1 + edits'} \ {criteria} /\ UNCHANGED flowsheet
        /\ UNCHANGED <<snapshot, compilation, req>>

(* The flowsheet is loaded and its hash looked up: a hit answers at once. *)
Load(r) == /\ req[r].at \in Ended \ {"died"}
           /\ Concurrent \/ Running = {}
           /\ req' = [req EXCEPT ![r] =
                [at |-> IF compilation[flowsheet] THEN "served" ELSE "find",
                 of |-> flowsheet, left |-> {}]]
           /\ UNCHANGED <<flowsheet, criteria, edits, snapshot, compilation>>

(* A snapshot of that name is taken as it is. *)
FindSnapshot(r) == /\ req[r].at = "find"
                   /\ Go(r, IF snapshot[req[r].of].made THEN "record" ELSE "create")
                   /\ UNCHANGED <<flowsheet, criteria, edits, snapshot, compilation>>

(* UNIQUE (project_id, name): the second of two inserts is an error, which  *)
(* the route does not handle.                                               *)
CreateSnapshot(r) ==
  /\ req[r].at = "create"
  /\ \/ /\ snapshot[req[r].of].made
        /\ Go(r, "error") /\ UNCHANGED snapshot
     \/ /\ ~ snapshot[req[r].of].made
        /\ snapshot' = [snapshot EXCEPT ![req[r].of].made = TRUE]
        /\ req' = [req EXCEPT ![r].at = "operations", ![r].left = req[r].of]
  /\ UNCHANGED <<flowsheet, criteria, edits, compilation>>

(* One INSERT per op code in the order of the blocks, each committed; a code *)
(* met twice is kept once.                                                  *)
AddOperation(r) ==
  /\ req[r].at = "operations"
  /\ \E o \in req[r].left :
       /\ snapshot' = [snapshot EXCEPT ![req[r].of].ops = @ \cup {o}]
       /\ req' = [req EXCEPT ![r].left = @ \ {o}]
  /\ UNCHANGED <<flowsheet, criteria, edits, compilation>>

(* Variant: the criteria are copied when one operation is there. *)
CopyEarly(r) ==
  /\ req[r].at = "operations" /\ snapshot[req[r].of].ops # {}
  /\ snapshot' = [snapshot EXCEPT ![req[r].of].criteria = criteria]
  /\ Go(r, "record")
  /\ UNCHANGED <<flowsheet, criteria, edits, compilation>>
(* Without an active template nothing is copied, and the compilation goes on. *)
CopyCriteria(r) ==
  /\ req[r].at = "operations" /\ req[r].left = {}
  /\ snapshot' = [snapshot EXCEPT ![req[r].of].criteria = criteria]
  /\ Go(r, "record")
  /\ UNCHANGED <<flowsheet, criteria, edits, compilation>>

(* INSERT ... ON CONFLICT DO NOTHING, then the row there is: the answer. *)
Record(r) == /\ req[r].at = "record"
             /\ compilation' = [compilation EXCEPT ![req[r].of] = TRUE]
             /\ Go(r, "served")
             /\ UNCHANGED <<flowsheet, criteria, edits, snapshot>>
(* The process dies, or the database fails, between two statements. *)
Die(r) == MayFail /\ r \in Running /\ Go(r, "died")
          /\ UNCHANGED <<flowsheet, criteria, edits, snapshot, compilation>>

(* routes/circuit.py: operations are added to and removed from any template *)
(* of the project, a snapshot too.                                          *)
ChangeOperations ==
  /\ MayChange /\ edits < MaxEdits /\ edits' = edits + 1
  /\ \E f \in Flowsheets : \E o \in f :
       /\ snapshot[f].made
       /\ snapshot' = [snapshot EXCEPT ![f].ops = IF o \in @ THEN @ \ {o} ELSE @ \cup {o}]
  /\ UNCHANGED <<flowsheet, criteria, compilation, req>>

Step(r) == Load(r) \/ FindSnapshot(r) \/ CreateSnapshot(r) \/ AddOperation(r)
           \/ CopyCriteria(r) \/ Record(r) \/ Die(r)
Next == Save \/ ChangeOperations \/ \E r \in Requests : Step(r)
Spec == Init /\ [][Next]_vars

(* What load_compilation_graph gives for the template of a compilation: the *)
(* blocks the flowsheet has now.                                            *)
LoadedGraph == flowsheet

-----------------------------------------------------------------------------
(* The rows, and: nothing is copied into a snapshot that is not there. *)
TypeOK ==
  /\ flowsheet \in Flowsheets /\ criteria \in 0 .. 1 + MaxEdits /\ edits \in 0 .. MaxEdits
  /\ \A f \in Flowsheets :
       /\ snapshot[f] \in [made : BOOLEAN, ops : SUBSET f, criteria : 0 .. 1 + MaxEdits]
       /\ compilation[f] \in BOOLEAN
       /\ ~ snapshot[f].made => snapshot[f] = NoSnapshot
  /\ \A r \in Requests : req[r].at \in Ended \cup {"find", "create", "operations", "record"}

(* A compilation names a snapshot with the operations of its flowsheet,     *)
(* whatever overlaps and wherever requests die, except those that the       *)
(* request which made the snapshot has still to add, or died before adding: *)
(* another one takes the snapshot as it is (_find_or_create_snapshot_       *)
(* template).  Where nobody edits snapshots (MayChange).                    *)
RecordedIsWhole == \A f \in Flowsheets : compilation[f] => \A o \in f \ snapshot[f].ops :
  \E r \in Requests : req[r].of = f /\ o \in req[r].left /\ req[r].at \in {"operations", "died"}

(* "An immutable circuit_template snapshot", as far as it is one: where     *)
(* nobody edits snapshots, what a compilation stands for loses nothing, its *)
(* criteria are copied at most once, and only the request that made the     *)
(* snapshot and still fills it adds to it, whatever is edited, overlaps or  *)
(* dies (compile_flowsheet).                                                *)
Immutable == \A f \in Flowsheets : compilation[f] /\ snapshot'[f] # snapshot[f] =>
  /\ snapshot[f].ops \subseteq snapshot'[f].ops /\ snapshot[f].criteria = 0
  /\ \E r \in Requests : req[r].of = f /\ req[r].at = "operations"

(* Two requests never fill one snapshot: whoever inserts the template is    *)
(* alone in adding its operations and criteria (the UNIQUE key of           *)
(* circuit_templates decides).                                              *)
OneWriter == \A r, q \in Requests :
  req[r].at = "operations" /\ req[q].at = "operations" /\ r # q => req[r].of # req[q].of

(* A request to compile that does not die is answered. *)
CompileIsServed == \A r \in Requests : req[r].at # "error"

(* The graph loaded for a compiled template is the one it was compiled from *)
(* (load_compilation_graph).                                                *)
GraphIsCompiled == \A f \in Flowsheets : compilation[f] => LoadedGraph = f
=============================================================================
