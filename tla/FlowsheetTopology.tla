------------------------- MODULE FlowsheetTopology -------------------------
(* The blocks and connections that auto_generate_flowsheet draws            *)
(* (routes/flowsheets.py) from the phase of the project, the laboratory     *)
(* data and the active circuit template.  Tanks in a row are two here; the  *)
(* number is a parameter of the code.  A state is one drawing, section by   *)
(* section.                                                                 *)
EXTENDS Naturals, FiniteSets, Sequences

CONSTANTS MaxChanges  \* bound on changes of the template
(* What the constants must satisfy. *)
TopologyConstants == MaxChanges \in Nat

Flags == {"hpgr", "flotation", "isamill", "sag", "gravity", "pox", "heap", "vat"}
Leaches == {"CIP", "CIL"}

VARIABLES input,   \* phase detail, laboratory's flags and leach, template (or none) and its operations
          blocks, links,
          ends,    \* where the next section begins
          section, \* the next section
          changes
vars == <<input, blocks, links, ends, section, changes>>

(* What is drawn: the template's operations where there is one.             *)
Flag(f) == f \in IF input.template THEN input.ops ELSE input.lims
(* The template may name both leaches or none. *)
Leach == IF ~input.template \/ input.ops \cap Leaches = {} THEN input.leach
         ELSE IF "CIP" \in input.ops THEN "CIP" ELSE "CIL"
Detailed == input.detail >= 2

Chain(s) == {<<s[i], s[i + 1]>> : i \in 1..(Len(s) - 1)}
Ends(edges) == {e[1] : e \in edges} \cup {e[2] : e \in edges}
None == [grind |-> "conveyor_2", leach |-> "cyclones", screen |-> "none"]

Inputs == [detail : 1..3, lims : SUBSET Flags, leach : Leaches, template : {FALSE}, ops : {{}}]
          \cup [detail : 1..3, lims : {{}}, leach : Leaches, template : {TRUE}, ops : {{}}]
Init == /\ input \in Inputs /\ blocks = {} /\ links = {} /\ ends = None /\ section = 1 /\ changes = 0

Draw(edges) == /\ links' = links \cup edges /\ blocks' = blocks \cup Ends(edges)
                     /\ section' = section + 1 /\ UNCHANGED <<input, changes>>

(* Draws where the next section begins at the same place. *)
Plain(edges) == UNCHANGED ends /\ Draw(edges)

Reception == section = 1 /\ Plain(
  Chain(<<"ROM_bin", "conveyor_1", "crusher_1", "screen_1", "stockpile", "conveyor_2">>)
  \cup {<<"screen_1", "crusher_2">>, <<"crusher_2", "screen_1">>})
Hpgr == /\ section = 2
        /\ IF Flag("hpgr") /\ Detailed
           THEN Draw(Chain(<<"conveyor_2", "HPGR">>)) /\ ends' = [ends EXCEPT !.grind = "HPGR"]
           ELSE Draw({}) /\ UNCHANGED ends
Grinding == /\ section = 3 /\ UNCHANGED ends
            /\ LET feed == IF Flag("sag") THEN "cyclones" ELSE ends.grind IN
               Draw(Chain(<<feed, "ball_mill", "sump_2", "pump_2", "cyclones">>)
                    \cup (IF Flag("sag") THEN Chain(<<ends.grind, "SAG_mill", "sump_1", "pump_1", "cyclones">>) ELSE {})
                    \cup IF Flag("sag") /\ Detailed THEN Chain(<<"SAG_mill", "pebble_crusher", "sump_1">>) ELSE {})
Gravity == section = 4 /\ Plain(
  IF Flag("gravity") THEN Chain(<<"cyclones", "Knelson", "ICR", "gravity_pump", "EW_gravity">>)
                          \cup {<<"Knelson", "cyclones">>} ELSE {})
Flotation ==
  /\ section = 5
  /\ IF Flag("flotation")
     THEN /\ Draw(Chain(<<"cyclones", "conditioner", "rougher", "cleaner", "column", "concentrate_thickener">>)
                  \cup Chain(<<"rougher", "scavenger", "cleaner">>) \cup {<<"scavenger", "cyclones">>})
          /\ ends' = [ends EXCEPT !.leach = "concentrate_thickener"]
     ELSE Draw({}) /\ UNCHANGED ends
Isamill == /\ section = 6
           /\ IF Flag("isamill") THEN Draw({<<ends.leach, "IsaMill">>}) /\ ends' = [ends EXCEPT !.leach = "IsaMill"]
              ELSE Draw({}) /\ UNCHANGED ends
(* Variant: from where the section before it began. *)
PreleachSkips == section = 7 /\ Plain(
  (IF Flag("pox") THEN Chain(<<ends.leach, "POX", "POX_neutralisation", "POX_thickener">>) ELSE {})
  \cup Chain(<<ends.leach, "leach_thickener", "leach_pump", "aeration">>)
  \cup {<<"flocculant", "leach_thickener">>, <<"lime", "leach_thickener">>, <<"NaCN", "aeration">>})
Preleach == /\ section = 7 /\ UNCHANGED ends
            /\ LET pox == Chain(<<ends.leach, "POX", "POX_neutralisation", "POX_thickener">>)
                   from == IF Flag("pox") THEN "POX_thickener" ELSE ends.leach
               IN  Draw((IF Flag("pox") THEN pox ELSE {})
                        \cup Chain(<<from, "leach_thickener", "leach_pump", "aeration">>)
                        \cup {<<"flocculant", "leach_thickener">>, <<"lime", "leach_thickener">>, <<"NaCN", "aeration">>})
Leaching ==
  /\ section = 8 /\ ends' = [ends EXCEPT !.screen = "carbon_screen"]
  /\ Draw(IF Flag("heap") THEN Chain(<<"aeration", "heap", "heap_pond", "carbon_screen">>)
          ELSE IF Flag("vat") THEN Chain(<<"aeration", "vat_1", "vat_2", "carbon_screen">>)
          ELSE IF Leach = "CIP"  \* the carbon goes back against the pulp
          THEN Chain(<<"aeration", "leach_1", "leach_2", "CIP_1", "CIP_2", "carbon_screen", "CIP_1">>)
          ELSE Chain(<<"aeration", "CIL_1", "CIL_2", "carbon_screen", "CIL_1">>))
Adr == section = 9 /\ Plain(
  (IF ends.screen = "none" THEN {} ELSE {<<ends.screen, "strip_solution">>})
  \cup Chain(<<"strip_solution", "heater", "elution", "pregnant_tank", "EW_1", "EW_2", "furnace", "dore">>)
  \cup {<<"elution", "strip_solution">>})
Tailings == section = 10 /\ Plain(
  (IF ends.screen = "none" THEN {} ELSE {<<ends.screen, "CN_destruction">>})
  \cup Chain(<<"CN_destruction", "CN_neutralisation", "tailings_thickener", "filter", "TSF">>)
  \cup Chain(<<"tailings_thickener", "process_water", "leach_thickener">>) \cup {<<"laboratory", "CN_destruction">>})

(* The user enables or disables an operation, and generates anew.           *)
ChangeTemplate == \E op \in Flags \cup Leaches :
  /\ section = 11 /\ input.template /\ changes < MaxChanges /\ changes' = changes + 1
  /\ input' = [input EXCEPT !.ops = IF op \in @ THEN @ \ {op} ELSE @ \cup {op}]
  /\ blocks' = {} /\ links' = {} /\ ends' = None /\ section' = 1

Next == Reception \/ Hpgr \/ Grinding \/ Gravity \/ Flotation \/ Isamill \/ Preleach \/ Leaching \/ Adr \/ Tailings
        \/ ChangeTemplate
Spec == Init /\ [][Next]_vars

-----------------------------------------------------------------------------
Drawn == section = 11
(* What follows a block, by however many links. *)
From(b) == LET step(S) == S \cup {e[2] : e \in {l \in links : l[1] \in S}}
               f[n \in 0..Cardinality(blocks)] == IF n = 0 THEN {b} ELSE step(f[n - 1])
           IN  f[Cardinality(blocks)]

(* Whatever is drawn, ore from the bin reaches the doré and the tailings    *)
(* facility, through every block but those where reagents and samples enter.*)
OreGoesOn == Drawn => /\ {"dore", "TSF"} \subseteq From("ROM_bin")
                      /\ blocks \ From("ROM_bin") = {"flocculant", "lime", "NaCN", "laboratory"}

(* No block is a dead end but the products and the gravity circuit's EW.    *)
NoDeadEnd == Drawn => {b \in blocks : \A l \in links : l[1] # b} \subseteq {"dore", "TSF", "EW_gravity"}

(* Without the block the doré is not reached. *)
OnTheWay(b) == LET cut == {l \in links : b \notin {l[1], l[2]}}
                   step(S) == S \cup {e[2] : e \in {l \in cut : l[1] \in S}}
                   f[n \in 0..Cardinality(blocks)] == IF n = 0 THEN {"ROM_bin"} ELSE step(f[n - 1])
               IN  "dore" \notin f[Cardinality(blocks)]
(* Each unit that treats the ore is on its way, none beside it.             *)
Treatment == {"concentrate_thickener", "IsaMill", "POX", "heap", "vat_1", "CIP_1", "CIL_1"}
TreatmentOnTheWay == Drawn => \A b \in blocks \cap Treatment : OnTheWay(b)

(* "Override LIMS-derived flags so the flowsheet is always consistent with  *)
(* DC / MB.": a unit of the active template is drawn.                        *)
TemplateDrawn == Drawn /\ input.template => (Flag("hpgr") <=> "HPGR" \in blocks)
=============================================================================
