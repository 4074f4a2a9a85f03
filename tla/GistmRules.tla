----------------------------- MODULE GistmRules -----------------------------
(***************************************************************************)
(* The GISTM consequence class of a tailings facility, the criteria it     *)
(* brings and the rules a design is held to (engines/gistm.py), with the   *)
(* default matrix.  A state is one facility and one design; a step changes *)
(* one of their inputs.  Safety factors and PGA are in hundredths.         *)
(***************************************************************************)
EXTENDS Integers

CONSTANTS
  People, Damage, \* inputs to try: persons at risk, economic damage
  Factor, Pga,    \* safety factors and accelerations
  None            \* a value that is not given

(* What the constants must satisfy.                                        *)
RuleAssumption ==
  People \cup Damage \subseteq Nat /\ Factor \cup Pga \subseteq Int /\ None \notin Int

VARIABLES facility, design

vars == <<facility, design>>

\* The classes are numbered: low 1, significant 2, high 3, very_high 4, extreme 5.
Env == <<"none", "minor", "moderate", "major", "catastrophic">>

\* The bounds of a class, {lo .. hi} (config/gistm_classification.yaml): those
\* of the persons leave no integer out, those of the damage share their ends.
ParBounds == << <<0, 0>>, <<1, 10>>, <<11, 100>>, <<101, 1000>>, <<1001, None>> >>
CostBounds == << <<0, 1>>, <<1, 10>>, <<10, 100>>, <<100, 1000>>, <<1000, None>> >>
InBounds(v, b) == v >= b[1] /\ (b[2] = None \/ v <= b[2])

Greatest(S) == CHOOSE i \in S : \A k \in S : k <= i

\* _class_from_numeric: the highest class whose bounds hold the value.
FromNumeric(v, bounds) ==
  LET fits == {i \in 1 .. 5 : InBounds(v, bounds[i])} IN
  IF fits = {} THEN 1 ELSE Greatest(fits)

FromEnv(env) == CHOOSE i \in 1 .. 5 : Env[i] = env

\* classify_consequence: the highest wins, and critical infrastructure
\* downstream is at least "high".
Classify(f) ==
  Greatest({FromNumeric(f.people, ParBounds), FromEnv(f.env), FromNumeric(f.damage, CostBounds)}
           \cup (IF f.infra THEN {3} ELSE {}))

\* derive_design_criteria.
Criteria(i) ==
  [idf |-> <<100, 1000, 5000, 10000, 10000>>[i],
   static |-> <<130, 140, 150, 150, 150>>[i],
   seismic |-> <<100, 110, 120, 120, 120>>[i],
   postliq |-> <<100, 100, 110, 110, 110>>[i],
   methods |-> IF i <= 2 THEN {"downstream", "centreline", "upstream"}
               ELSE IF i = 3 THEN {"downstream", "centreline"} ELSE {"downstream"},
   pga |-> IF i \in {2, 3} THEN 10 ELSE None]

Below(v, minimum) == v # None /\ v < minimum

\* The rules that give an error; IDF_BELOW_MIN is a warning.
Errors(d, i) ==
  LET c == Criteria(i) IN
  {r \in {"FS_STATIC_BELOW_MIN", "FS_SEISMIC_BELOW_MIN", "FS_POST_LIQ_BELOW_MIN",
          "CONSTRUCTION_METHOD_FORBIDDEN", "UPSTREAM_HIGH_PGA"} :
     \/ r = "FS_STATIC_BELOW_MIN" /\ Below(d.static, c.static)
     \/ r = "FS_SEISMIC_BELOW_MIN" /\ Below(d.seismic, c.seismic)
     \/ r = "FS_POST_LIQ_BELOW_MIN" /\ Below(d.postliq, c.postliq)
     \/ r = "CONSTRUCTION_METHOD_FORBIDDEN" /\ d.method \notin c.methods
     \/ /\ r = "UPSTREAM_HIGH_PGA" /\ d.method = "upstream"
        /\ c.pga # None /\ d.pga # None /\ d.pga >= c.pga}

\* validate_tsf_design without an active basis: one warning, no error.
Unvalidated == {"NO_ACTIVE_BASIS"}
Validate(d, i) ==
  IF i = None THEN Unvalidated
  ELSE Errors(d, i) \cup (IF Below(d.flood, Criteria(i).idf) THEN {"IDF_BELOW_MIN"} ELSE {})

Designs == [method : {"downstream", "centreline", "upstream"}, static : Factor \cup {None},
            seismic : {100, 120}, postliq : {None}, flood : {None, 1000}, pga : Pga \cup {None}]

Init ==
  /\ facility = [people |-> 0, env |-> "none", damage |-> 0, infra |-> FALSE]
  /\ design \in Designs

\* The hazard grows: one input rises.
Grow ==
  /\ \/ \E x \in People : x > facility.people /\ facility' = [facility EXCEPT !.people = x]
     \/ \E x \in Damage : x > facility.damage /\ facility' = [facility EXCEPT !.damage = x]
     \/ \E i \in FromEnv(facility.env) + 1 .. 5 : facility' = [facility EXCEPT !.env = Env[i]]
     \/ ~facility.infra /\ facility' = [facility EXCEPT !.infra = TRUE]
  /\ UNCHANGED design

Next == Grow
Spec == Init /\ [][Next]_vars
-----------------------------------------------------------------------------
\* "highest classification wins", at the bounds too: the class of a number is
\* the highest whose lower bound it reaches; the tables leave no value out.
LowerBoundsDecide ==
  \A t \in {<<facility.people, ParBounds>>, <<facility.damage, CostBounds>>} :
    FromNumeric(t[1], t[2]) = Greatest({i \in 1 .. 5 : t[1] >= t[2][i][1]})

\* A facility whose hazard grows never leaves a design that broke a rule
\* without an error: no class is laxer than one below it, though a rule that a
\* lower class has (UPSTREAM_HIGH_PGA) may not exist in a higher one.
GrowthNeverAbsolves ==
  Errors(design, Classify(facility)) # {} => Errors(design', Classify(facility')) # {}

\* The warning about the design flood never goes away either.
FloodWarningStays ==
  LET w == "IDF_BELOW_MIN" IN
  w \in Validate(design, Classify(facility)) => w \in Validate(design', Classify(facility'))
=============================================================================
