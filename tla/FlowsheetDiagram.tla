-------------------------- MODULE FlowsheetDiagram --------------------------
(* The drawn flowsheet of one project, the table flowsheets: generated      *)
(* (routes/flowsheets.py), imported (routes/modules.py), edited as a whole, *)
(* and completed from the circuit (propagate_circuit in routes/circuit.py). *)
(* A block is its label and who has made it.  Each query is a transaction   *)
(* of its own.                                                              *)
EXTENDS Naturals, FiniteSets

CONSTANTS Requests,
          Kinds,       \* of requests
          Ops,         \* enabled operations of the circuit: block labels and equipment tags
          Changes,     \* of the engineering data: "count" or "value"
          Quiet,       \* they change while nobody generates only
          MaxRows, MaxChange  \* bounds on generations and on edits and changes
(* What the constants must satisfy. *)
DiagramConstants ==
  /\ Kinds \subseteq {"generate", "generate-v2", "purge", "edit", "propagate"}
  /\ Changes \subseteq {"count", "value"} /\ Quiet \in BOOLEAN /\ MaxRows \in Nat /\ MaxChange \in Nat
  /\ "base" \notin Ops /\ "user" \notin Ops   \* the blocks that are no operation

VARIABLES fs,     \* flowsheets: id -> [blocks, signature (0: none), version of the data]
          made,   \* rows made so far: ids are in the order of created_at
          equip,  \* equipment: <<tag, who>>
          src,    \* the engineering data: its version and its counts
          saved,  \* edits that were answered: <<id, edit>>
          req     \* each request: its place and what it has read
vars == <<fs, made, equip, src, saved, req>>

Idle == [at |-> "idle", kind |-> "none", id |-> 0, blocks |-> {}, tags |-> {}, ver |-> 0, sig |-> 0]
Init == /\ fs = <<>> /\ made = 0 /\ equip = {} /\ src = [ver |-> 1, count |-> 1] /\ saved = {}
        /\ req = [r \in Requests |-> Idle]

Start(r, kind, next) == kind \in Kinds /\ req[r] = Idle /\ req' = [req EXCEPT ![r] = [next EXCEPT !.kind = kind]]
Go(r, next) == req' = [req EXCEPT ![r] = next]
Newest == CHOOSE i \in DOMAIN fs : \A j \in DOMAIN fs : j <= i
WithRow(i, row) == [j \in DOMAIN fs \cup {i} |-> IF j = i THEN row ELSE fs[j]]
(* _compute_flowsheet_source_signature is made of counts. *)
Signature == src.count
(* is_stale of flowsheet_coherence. *)
Told(row) == row.sig # 0 /\ row.sig # Signature
Labels(blocks) == {b[1] : b \in blocks}

(* Generation: laboratory data and circuit are read (an import reads the    *)
(* process options) ...                                                     *)
Generate(r) == \E kind \in {"generate", "generate-v2"} :
  /\ made < MaxRows /\ Start(r, kind, [Idle EXCEPT !.at = "delete", !.ver = src.ver])
  /\ UNCHANGED <<fs, made, equip, src, saved>>
(* ... the flowsheets of the project are deleted ... *)
Delete(r) == /\ req[r].at = "delete" /\ fs' = <<>> /\ Go(r, [req[r] EXCEPT !.at = "insert"])
             /\ UNCHANGED <<made, equip, src, saved>>
(* ... and the new one is inserted. *)
Insert(r) ==
  LET base == {<<"base", made + 1>>} IN
  /\ req[r].at = "insert" /\ made' = made + 1
  /\ fs' = WithRow(made', [blocks |-> base, sig |-> 0, ver |-> req[r].ver])
  /\ Go(r, IF req[r].kind = "generate" THEN Idle ELSE [req[r] EXCEPT !.at = "enrich", !.id = made', !.blocks = base])
  /\ UNCHANGED <<equip, src, saved>>
(* Version 2 then takes the signature of the data,                          *)
Enrich(r) == /\ req[r].at = "enrich" /\ Go(r, [req[r] EXCEPT !.at = "update", !.sig = Signature])
             /\ UNCHANGED <<fs, made, equip, src, saved>>
(* and writes the blocks that it inserted, annotated.                       *)
Update(r) == /\ req[r].at = "update"
             /\ fs' = IF req[r].id \in DOMAIN fs
                      THEN [fs EXCEPT ![req[r].id].blocks = req[r].blocks, ![req[r].id].sig = req[r].sig] ELSE fs
             /\ Go(r, Idle) /\ UNCHANGED <<made, equip, src, saved>>
Purge(r) == "purge" \in Kinds /\ req[r] = Idle /\ fs' = <<>> /\ UNCHANGED <<made, equip, src, saved, req>>

(* A client opens the newest and sends all of its blocks, with one more.    *)
Read(r) == /\ fs # <<>> /\ Cardinality(saved) < MaxChange
           /\ Start(r, "edit", [Idle EXCEPT !.at = "save", !.id = Newest, !.blocks = fs[Newest].blocks])
           /\ UNCHANGED <<fs, made, equip, src, saved>>
Save(r) == LET edit == <<"user", Cardinality(saved) + 1>> IN
  /\ req[r].at = "save"
  /\ IF req[r].id \in DOMAIN fs
     THEN /\ fs' = [fs EXCEPT ![req[r].id].blocks = req[r].blocks \cup {edit}]
          /\ saved' = saved \cup {<<req[r].id, edit>>}
     ELSE UNCHANGED <<fs, saved>>
  /\ Go(r, Idle) /\ UNCHANGED <<made, equip, src>>

(* propagate_circuit reads the newest, if there is one, and the equipment,  *)
ReadDiagram(r) ==
  /\ Start(r, "propagate", [Idle EXCEPT !.at = "equipment", !.id = IF fs = <<>> THEN 0 ELSE Newest,
                                        !.blocks = IF fs = <<>> THEN {} ELSE fs[Newest].blocks])
  /\ UNCHANGED <<fs, made, equip, src, saved>>
ReadEquipment(r) == /\ req[r].at = "equipment" /\ Go(r, [req[r] EXCEPT !.at = "write", !.tags = Labels(equip)])
                    /\ UNCHANGED <<fs, made, equip, src, saved>>
NewBlocks(r) == {<<o, r>> : o \in Ops \ Labels(req[r].blocks)}
NewItems(r) == {<<o, r>> : o \in Ops \ req[r].tags}
(* Variant: whatever is there already. *)
WriteAll(r) ==
  /\ req[r].at = "write" /\ equip' = equip \cup {<<o, made>> : o \in Ops} /\ req[r].id \in DOMAIN fs
  /\ fs' = [fs EXCEPT ![req[r].id].blocks = @ \cup NewBlocks(r)] /\ Go(r, Idle) /\ UNCHANGED <<made, src, saved>>
(* and writes the items and the blocks that are missing, all blocks anew.   *)
Write(r) ==
  /\ req[r].at = "write" /\ equip' = equip \cup NewItems(r)
  /\ LET all == req[r].blocks \cup NewBlocks(r)
     IN  \/ NewBlocks(r) = {} /\ UNCHANGED <<fs, made>>
         \/ /\ NewBlocks(r) # {} /\ req[r].id # 0 /\ UNCHANGED made
            /\ fs' = IF req[r].id \in DOMAIN fs THEN [fs EXCEPT ![req[r].id].blocks = all] ELSE fs
         \/ /\ NewBlocks(r) # {} /\ req[r].id = 0 /\ made < MaxRows /\ made' = made + 1
            /\ fs' = WithRow(made', [blocks |-> all, sig |-> 0, ver |-> src.ver])
  /\ Go(r, Idle) /\ UNCHANGED <<src, saved>>

(* Laboratory, circuit, balance, register and parameters change.            *)
Change == \E what \in Changes :
  /\ src.ver < MaxChange /\ (Quiet => \A r \in Requests : req[r] = Idle)
  /\ src' = [ver |-> src.ver + 1, count |-> src.count + IF what = "count" THEN 1 ELSE 0]
  /\ UNCHANGED <<fs, made, equip, saved, req>>

Next == \/ Change
        \/ \E r \in Requests : \/ Generate(r) \/ Delete(r) \/ Insert(r) \/ Enrich(r) \/ Update(r) \/ Purge(r)
                               \/ Read(r) \/ Save(r) \/ ReadDiagram(r) \/ ReadEquipment(r) \/ Write(r)
Spec == Init /\ [][Next]_vars

-----------------------------------------------------------------------------
(* "Replace existing flowsheets": a project has one.                        *)
OneFlowsheet == Cardinality(DOMAIN fs) <= 1

(* "Check if a flowsheet block with matching label exists -- if not, add     *)
(* it", and likewise for equipment: no operation has two.                    *)
OpsOnce == \A o \in Ops :
  /\ Cardinality({e \in equip : e[1] = o}) <= 1
  /\ \A i \in DOMAIN fs : Cardinality({b \in fs[i].blocks : b[1] = o}) <= 1

(* "adds blocks to the existing flowsheet": an edit that was answered is in *)
(* its flowsheet as long as that is there.                                  *)
EditKept == \A s \in saved : s[1] \in DOMAIN fs => s[2] \in fs[s[1]].blocks

(* flowsheet_coherence tells a flowsheet whose data have changed since.     *)
StaleTold == \A i \in DOMAIN fs : fs[i].sig # 0 /\ fs[i].ver < src.ver => Told(fs[i])
=============================================================================
