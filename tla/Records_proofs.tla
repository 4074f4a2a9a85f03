--------------------------- MODULE Records_proofs ---------------------------
(***************************************************************************)
(* Theorems about the records of a project (MCRecords), for every value of *)
(* the constants that satisfies RecordConstants: the parts run one at a    *)
(* time (PartStep), so that each has an inductive invariant of its own,    *)
(* and the invariant of the whole is their conjunction.                    *)
(***************************************************************************)
EXTENDS MCRecords, DesignBasis_proofs, WellFoundedInduction, Sequences, SequenceTheorems

basisData == vars
designData == <<bStatus, bVersion, bDrafting, bTx, bDesign>>
ruleData == <<facility, tsf>>
gateData == <<gates, items, risks, lister, approver>>
trailData == <<auditClock, log, writer, mutations, recorded, since, pulled>>
syncData == <<syncClock, edits, events, queue, conflicts, push, reading, started, answered,
              accepted, retries>>
pipelineData == <<modStatus, criteria, outdated, silent, proc, crossed>>
callbackData == <<control, outcome, home, fired>>

\* A step is one of the part that runs, or changes nothing of its data.
LEMMA PartStep ==
  ASSUME [AllNext]_allVars
  PROVE  /\ part' = part
         /\ part = "bases" => [Next]_basisData
         /\ part = "designs" => [Evaluations!Next]_designData
         /\ part = "rules" => [Rules!Next]_ruleData
         /\ part = "gates" => [GateUse!Next]_gateData
         /\ part = "trail" => [Trail!Next]_trailData
         /\ part = "shared_trail" => [SharedTrail!Next]_trailData
         /\ part = "pushes" => [Pushes!Next]_syncData
         /\ part = "resolves" => [Resolves!Next]_syncData
         /\ part = "announced" => [Announced!Next]_pipelineData
         /\ part = "failing" => [Failing!Next]_pipelineData
         /\ part = "callbacks" => [Deferred!Next]_callbackData
  <1>1. CASE UNCHANGED allVars
    BY <1>1 DEF allVars, vars, basisData, designData, ruleData, gateData, trailData, syncData,
       pipelineData, callbackData
  <1>2. CASE AllNext
    BY <1>2 DEF AllNext, BasisStep, DesignStep, RuleStep, GateStep, TrailStep, SharedTrailStep,
       PushStep, ResolveStep, AnnouncedStep, FailingStep, CallbackStep, Rest
  <1> QED BY <1>1, <1>2

-----------------------------------------------------------------------------
(* The callbacks of transactions (the theorems of AfterCommit).            *)

callbackVars == <<control, outcome, home, fired>>

\* A step of the whole is one of the thread's, or leaves its frames alone.
LEMMA CallbackStepOnly ==
  ASSUME [AllNext]_allVars
  PROVE  \/ part = "callbacks" /\ part' = part /\ Deferred!Next
         \/ part' = part /\ UNCHANGED callbackVars
  <1>2. CASE UNCHANGED allVars
    BY <1>2 DEF allVars, callbackVars
  <1>3. CASE AllNext
    BY <1>3 DEF AllNext, BasisStep, DesignStep, RuleStep, GateStep, TrailStep, SharedTrailStep,
       PushStep, ResolveStep, AnnouncedStep, FailingStep, CallbackStep, Rest, callbackVars
  <1> QED BY <1>2, <1>3

\* Callbacks run after the commit they were deferred to and never after a
\* rollback, each once and in order (CallbacksFollowCommits of MCRecords:
\* services/transaction.py).
THEOREM AllCallbacksFollowCommits == AllSpec => []CallbacksFollowCommits
  <1> USE DEF callbackVars
  <1>0. Deferred!CallbackAssumption
    BY RecordConstants DEF RecordConstants
  <1>1. AllInit => Deferred!IInv
    BY <1>0, Deferred!InitIInv DEF AllInit
  <1>2. Deferred!IInv /\ [AllNext]_allVars => Deferred!IInv'
    <2>1. UNCHANGED callbackVars => UNCHANGED Deferred!vars
      BY DEF Deferred!vars
    <2> QED BY <1>0, <2>1, Deferred!NextIInv, CallbackStepOnly
  <1>3. Deferred!IInv => CallbacksFollowCommits
    BY <1>0, Deferred!Holds DEF CallbacksFollowCommits
  <1> QED BY <1>1, <1>2, <1>3, PTL DEF AllSpec

-----------------------------------------------------------------------------
(* The bases and the evaluated designs (DesignBasis_proofs).               *)

Evaluated == INSTANCE DesignBasis_proofs WITH
  status <- bStatus, version <- bVersion, drafting <- bDrafting, tx <- bTx, design <- bDesign,
  Basis <- Bases, Author <- Authors, Manager <- Managers, Design <- Dams, Faults <- TRUE

\* Activations run alone: the theorems of DesignBasis hold of the whole.
LEMMA BasisNext == [AllNext]_allVars => [Next]_vars
  BY DEF AllNext, BasisStep, DesignStep, RuleStep, GateStep, TrailStep, SharedTrailStep, PushStep,
     ResolveStep, AnnouncedStep, FailingStep, CallbackStep, Rest, allVars

\* The whole, seen on the bases alone, is DesignBasis: its theorems carry over
\* (gistm.py).
THEOREM AllBasesBehave == AllSpec => Spec
  <1>1. AllInit => Init
    BY SMTT(30) DEF AllInit
  <1> QED BY <1>1, BasisNext, PTL DEF AllSpec, Spec

\* The designs run DesignBasis under constants of their own.
LEMMA DesignStepIs == ASSUME [Evaluations!Next]_designData PROVE [Evaluated!Next]_Evaluated!vars
  BY DEF Evaluations!Next, Evaluated!Next, Evaluated!vars, designData,
     Evaluations!ReadVersion, Evaluated!ReadVersion, Evaluations!Rows, Evaluated!Rows,
     Evaluations!InsertDraft, Evaluated!InsertDraft, Evaluations!DuplicateVersion, Evaluated!DuplicateVersion,
     Evaluations!LockRow, Evaluated!LockRow, Evaluations!LockedByOther, Evaluated!LockedByOther,
     Evaluations!Holds, Evaluated!Holds, Evaluations!NoTx, Evaluated!NoTx,
     Evaluations!FindActive, Evaluated!FindActive, Evaluations!Active, Evaluated!Active,
     Evaluations!Supersede, Evaluated!Supersede, Evaluations!SetActive, Evaluated!SetActive,
     Evaluations!IndexFree, Evaluated!IndexFree, Evaluations!SecondActive, Evaluated!SecondActive,
     Evaluations!Commit, Evaluated!Commit, Evaluations!Abort, Evaluated!Abort,
     Evaluations!ReadBasis, Evaluated!ReadBasis, Evaluations!TheActive, Evaluated!TheActive,
     Evaluations!InsertDesign, Evaluated!InsertDesign, Evaluations!Evaluate, Evaluated!Evaluate,
     Evaluations!Persist, Evaluated!Persist, Evaluations!DesignFails, Evaluated!DesignFails,
     Evaluations!Override, Evaluated!Override, Evaluations!Max, Evaluated!Max

DesignsInv == Evaluated!IInv /\ Evaluated!VersionInv /\ Evaluated!DesignInv

\* No basis and no design yet.
LEMMA DesignsInit == ASSUME AllInit PROVE DesignsInv
  <1>1. Evaluated!BasisAssumption
    BY RecordConstants DEF RecordConstants, Evaluations!BasisAssumption, Evaluated!BasisAssumption
  <1>2. Evaluated!Init
    BY DEF AllInit, Evaluations!Init, Evaluated!Init, Evaluations!NoTx, Evaluated!NoTx,
       Evaluations!NewDesign, Evaluated!NewDesign
  <1> QED BY <1>1, <1>2, Evaluated!InitIInv, Evaluated!InitVersionInv, Evaluated!InitDesignInv DEF DesignsInv

\* Their steps keep the three invariants of DesignBasis_proofs ...
LEMMA DesignsNext ==
  ASSUME DesignsInv, part = "designs", [AllNext]_allVars
  PROVE  DesignsInv'
  <1>1. Evaluated!BasisAssumption
    BY RecordConstants DEF RecordConstants, Evaluations!BasisAssumption, Evaluated!BasisAssumption
  <1>2. [Evaluated!Next]_Evaluated!vars
    BY PartStep, DesignStepIs
  <1> QED BY <1>1, <1>2, Evaluated!NextIInv, Evaluated!NextVersionInv, Evaluated!NextDesignInv DEF DesignsInv

\* ... which say what the records promise of designs.
LEMMA DesignsHold == ASSUME DesignsInv PROVE Evaluations!TypeOK /\ Evaluations!EvaluatedInForce
  <1>1. Evaluated!BasisAssumption
    BY RecordConstants DEF RecordConstants, Evaluations!BasisAssumption, Evaluated!BasisAssumption
  <1>2. Evaluated!TypeOK
    BY <1>1, Evaluated!InvIsTyped DEF DesignsInv
  <1>3. Evaluations!TypeOK
    BY <1>2 DEF Evaluations!TypeOK, Evaluated!TypeOK, Evaluations!Tx, Evaluated!Tx,
       Evaluations!DesignRow, Evaluated!DesignRow
  <1> QED BY <1>3 DEF DesignsInv, Evaluated!DesignInv, Evaluations!EvaluatedInForce, Evaluated!EvaluatedInForce

-----------------------------------------------------------------------------
(* The rules: classes of hazard and what they require of a design.         *)

RuleInv ==
  part = "rules" =>
    /\ facility \in [people : Nat, env : {"none", "minor", "moderate", "major", "catastrophic"},
                     damage : Nat, infra : BOOLEAN]
    /\ tsf \in Rules!Designs

\* Some classes have a greatest one.
LEMMA GreatestOf ==
  ASSUME NEW S, S \subseteq 1 .. 5, S # {}
  PROVE  Rules!Greatest(S) \in S /\ \A k \in S : k <= Rules!Greatest(S)
  <1>1. \E i \in S : \A k \in S : k <= i
    <2>1. CASE 5 \in S
      BY <2>1
    <2>2. CASE 5 \notin S /\ 4 \in S
      BY <2>2
    <2>3. CASE 5 \notin S /\ 4 \notin S /\ 3 \in S
      BY <2>3
    <2>4. CASE 5 \notin S /\ 4 \notin S /\ 3 \notin S /\ 2 \in S
      BY <2>4
    <2>5. CASE 5 \notin S /\ 4 \notin S /\ 3 \notin S /\ 2 \notin S
      <3>1. PICK i \in S : TRUE
        OBVIOUS
      <3>2. \A k \in S : k = 1
        BY <2>5
      <3> QED BY <3>1, <3>2
    <2> QED BY <2>1, <2>2, <2>3, <2>4, <2>5
  <1> QED BY <1>1, Zenon DEF Rules!Greatest

\* ... and there is one greatest.
LEMMA GreatestIs ==
  ASSUME NEW S, S \subseteq 1 .. 5, NEW g \in S, \A k \in S : k <= g
  PROVE  Rules!Greatest(S) = g
  <1>1. Rules!Greatest(S) \in S /\ g <= Rules!Greatest(S) /\ Rules!Greatest(S) <= g
    BY GreatestOf
  <1>0. \A k \in S : k \in Int
    OBVIOUS
  <1>2. g \in Int /\ Rules!Greatest(S) \in Int
    BY <1>0, <1>1
  <1> QED BY <1>1, <1>2

\* The class of a number, by its lower bounds.
Steps(v, a, b, c, d) ==
  IF v >= d THEN 5 ELSE IF v >= c THEN 4 ELSE IF v >= b THEN 3 ELSE IF v >= a THEN 2 ELSE 1

\* A number of people at risk has the class of its lower bounds ...
LEMMA PeopleClass ==
  \A v \in Nat :  /\ Rules!FromNumeric(v, Rules!ParBounds) = Steps(v, 1, 11, 101, 1001)
         /\ Rules!Greatest({i \in 1 .. 5 : v >= Rules!ParBounds[i][1]}) = Steps(v, 1, 11, 101, 1001)
  <1> TAKE v \in Nat
  <1> DEFINE fits == {i \in 1 .. 5 : Rules!InBounds(v, Rules!ParBounds[i])}
             low == {i \in 1 .. 5 : v >= Rules!ParBounds[i][1]}
  <1>0. None \notin Int
    BY RecordConstants DEF RecordConstants, Rules!RuleAssumption
  <1>1. \A i \in 1 .. 5 : /\ i \in low <=> v >= Rules!ParBounds[i][1]
                          /\ i \in fits <=> Rules!InBounds(v, Rules!ParBounds[i])
    OBVIOUS
  <1>2. /\ 1 \in low /\ (2 \in low <=> v >= 1) /\ (3 \in low <=> v >= 11)
        /\ (4 \in low <=> v >= 101) /\ (5 \in low <=> v >= 1001)
    BY <1>1 DEF Rules!ParBounds
  <1>3. /\ (1 \in fits <=> v = 0) /\ (2 \in fits <=> v \in 1 .. 10) /\ (3 \in fits <=> v \in 11 .. 100)
        /\ (4 \in fits <=> v \in 101 .. 1000) /\ (5 \in fits <=> v >= 1001)
    BY <1>0, <1>1 DEF Rules!ParBounds, Rules!InBounds
  <1>4. fits # {} /\ fits \subseteq 1 .. 5 /\ low # {} /\ low \subseteq 1 .. 5
    BY <1>2, <1>3
  <1>5. Rules!FromNumeric(v, Rules!ParBounds) = Rules!Greatest(fits)
    BY <1>4 DEF Rules!FromNumeric
  <1> HIDE DEF fits, low
  <1>6. Rules!Greatest(fits) = Steps(v, 1, 11, 101, 1001)
    <2> DEFINE g == Steps(v, 1, 11, 101, 1001)
    <2>1. g \in 1 .. 5 /\ (g = 1 => v < 1)
      BY DEF Steps
    <2>2. g \in fits /\ \A k \in 1 .. 5 : k \in fits => k <= g
      BY <1>3 DEF Steps
    <2>3. \A k \in fits : k <= g
      BY <1>4, <2>2
    <2> HIDE DEF g
    <2>4. Rules!Greatest(fits) = g
      BY <1>4, <2>2, <2>3, GreatestIs
    <2> QED BY <2>4 DEF g
  <1>7. Rules!Greatest(low) = Steps(v, 1, 11, 101, 1001)
    <2> DEFINE g == Steps(v, 1, 11, 101, 1001)
    <2>1. g \in 1 .. 5 /\ (g = 1 => v < 1)
      BY DEF Steps
    <2>2. g \in low /\ \A k \in 1 .. 5 : k \in low => k <= g
      BY <1>2 DEF Steps
    <2>3. \A k \in low : k <= g
      BY <1>4, <2>2
    <2> HIDE DEF g
    <2>4. Rules!Greatest(low) = g
      BY <1>4, <2>2, <2>3, GreatestIs
    <2> QED BY <2>4 DEF g
  <1> QED BY <1>5, <1>6, <1>7 DEF low

\* ... and so has an amount of damage.
LEMMA DamageClass ==
  \A v \in Nat :  /\ Rules!FromNumeric(v, Rules!CostBounds) = Steps(v, 1, 10, 100, 1000)
         /\ Rules!Greatest({i \in 1 .. 5 : v >= Rules!CostBounds[i][1]}) = Steps(v, 1, 10, 100, 1000)
  <1> TAKE v \in Nat
  <1> DEFINE fits == {i \in 1 .. 5 : Rules!InBounds(v, Rules!CostBounds[i])}
             low == {i \in 1 .. 5 : v >= Rules!CostBounds[i][1]}
  <1>0. None \notin Int
    BY RecordConstants DEF RecordConstants, Rules!RuleAssumption
  <1>1. \A i \in 1 .. 5 : /\ i \in low <=> v >= Rules!CostBounds[i][1]
                          /\ i \in fits <=> Rules!InBounds(v, Rules!CostBounds[i])
    OBVIOUS
  <1>2. /\ 1 \in low /\ (2 \in low <=> v >= 1) /\ (3 \in low <=> v >= 10)
        /\ (4 \in low <=> v >= 100) /\ (5 \in low <=> v >= 1000)
    BY <1>1 DEF Rules!CostBounds
  <1>3. /\ (1 \in fits <=> v \in 0 .. 1) /\ (2 \in fits <=> v \in 1 .. 10) /\ (3 \in fits <=> v \in 10 .. 100)
        /\ (4 \in fits <=> v \in 100 .. 1000) /\ (5 \in fits <=> v >= 1000)
    BY <1>0, <1>1 DEF Rules!CostBounds, Rules!InBounds
  <1>4. fits # {} /\ fits \subseteq 1 .. 5 /\ low # {} /\ low \subseteq 1 .. 5
    BY <1>2, <1>3
  <1>5. Rules!FromNumeric(v, Rules!CostBounds) = Rules!Greatest(fits)
    BY <1>4 DEF Rules!FromNumeric
  <1> HIDE DEF fits, low
  <1>6. Rules!Greatest(fits) = Steps(v, 1, 10, 100, 1000)
    <2> DEFINE g == Steps(v, 1, 10, 100, 1000)
    <2>1. g \in 1 .. 5 /\ (g = 1 => v < 1)
      BY DEF Steps
    <2>2. g \in fits /\ \A k \in 1 .. 5 : k \in fits => k <= g
      BY <1>3 DEF Steps
    <2>3. \A k \in fits : k <= g
      BY <1>4, <2>2
    <2> HIDE DEF g
    <2>4. Rules!Greatest(fits) = g
      BY <1>4, <2>2, <2>3, GreatestIs
    <2> QED BY <2>4 DEF g
  <1>7. Rules!Greatest(low) = Steps(v, 1, 10, 100, 1000)
    <2> DEFINE g == Steps(v, 1, 10, 100, 1000)
    <2>1. g \in 1 .. 5 /\ (g = 1 => v < 1)
      BY DEF Steps
    <2>2. g \in low /\ \A k \in 1 .. 5 : k \in low => k <= g
      BY <1>2 DEF Steps
    <2>3. \A k \in low : k <= g
      BY <1>4, <2>2
    <2> HIDE DEF g
    <2>4. Rules!Greatest(low) = g
      BY <1>4, <2>2, <2>3, GreatestIs
    <2> QED BY <2>4 DEF g
  <1> QED BY <1>5, <1>6, <1>7 DEF low

Envs == {"none", "minor", "moderate", "major", "catastrophic"}

\* Each level of environmental damage has a class of its own.
LEMMA EnvClass ==
  /\ \A i \in 1 .. 5 : Rules!Env[i] \in Envs /\ Rules!FromEnv(Rules!Env[i]) = i
  /\ \A e \in Envs : Rules!FromEnv(e) \in 1 .. 5
  <1>1. ASSUME NEW i \in 1 .. 5 PROVE Rules!FromEnv(Rules!Env[i]) = i
    <2>1. \A k \in 1 .. 5 : Rules!Env[k] = Rules!Env[i] => k = i
      BY DEF Rules!Env
    <2> QED BY <2>1 DEF Rules!FromEnv
  <1>2. \A i \in 1 .. 5 : Rules!Env[i] \in Envs
    BY DEF Rules!Env, Envs
  <1>3. \A e \in Envs : \E i \in 1 .. 5 : e = Rules!Env[i]
    BY DEF Rules!Env, Envs
  <1> QED BY <1>1, <1>2, <1>3

\* A facility of more hazard has no lower class.
LEMMA ClassGrows ==
  ASSUME RuleInv, RuleInv', part = "rules", part' = part, Rules!Grow
  PROVE  /\ Rules!Classify(facility) \in 1 .. 5
         /\ Rules!Classify(facility') \in 1 .. 5
         /\ Rules!Classify(facility) <= Rules!Classify(facility')
  <1> DEFINE P(f) == Rules!FromNumeric(f.people, Rules!ParBounds)
             E(f) == Rules!FromEnv(f.env)
             D(f) == Rules!FromNumeric(f.damage, Rules!CostBounds)
             C(f) == {P(f), E(f), D(f)} \cup (IF f.infra THEN {3} ELSE {})
  <1>1. /\ facility.people \in Nat /\ facility'.people \in Nat
        /\ facility.damage \in Nat /\ facility'.damage \in Nat
        /\ facility.env \in Envs /\ facility'.env \in Envs
        /\ facility.infra \in BOOLEAN /\ facility'.infra \in BOOLEAN
    BY DEF RuleInv, Envs
  <1>2. /\ facility.people <= facility'.people /\ facility.damage <= facility'.damage
        /\ E(facility) <= E(facility') /\ (facility.infra => facility'.infra)
    <2>1. ASSUME NEW x \in People, x > facility.people, facility' = [facility EXCEPT !.people = x]
          PROVE  <1>2
      BY <1>1, <2>1, EnvClass, RecordConstants DEF RuleInv, RecordConstants, Rules!RuleAssumption
    <2>2. ASSUME NEW x \in Damage, x > facility.damage, facility' = [facility EXCEPT !.damage = x]
          PROVE  <1>2
      BY <1>1, <2>2, EnvClass, RecordConstants DEF RuleInv, RecordConstants, Rules!RuleAssumption
    <2>3. ASSUME NEW i \in E(facility) + 1 .. 5, facility' = [facility EXCEPT !.env = Rules!Env[i]]
          PROVE  <1>2
      <3>1. E(facility) \in 1 .. 5 /\ i \in 1 .. 5 /\ E(facility) < i
        BY <1>1, EnvClass
      <3>2. facility'.env = Rules!Env[i] /\ facility'.people = facility.people
            /\ facility'.damage = facility.damage /\ facility'.infra = facility.infra
        BY <2>3 DEF RuleInv
      <3> QED BY <1>1, <3>1, <3>2, EnvClass
    <2>4. ASSUME facility' = [facility EXCEPT !.infra = TRUE] PROVE <1>2
      BY <1>1, <2>4, EnvClass DEF RuleInv
    <2> QED BY <2>1, <2>2, <2>3, <2>4 DEF Rules!Grow
  <1>3. /\ P(facility) \in 1 .. 5 /\ P(facility') \in 1 .. 5 /\ P(facility) <= P(facility')
        /\ D(facility) \in 1 .. 5 /\ D(facility') \in 1 .. 5 /\ D(facility) <= D(facility')
    <2>1. /\ P(facility) = Steps(facility.people, 1, 11, 101, 1001)
          /\ P(facility') = Steps(facility'.people, 1, 11, 101, 1001)
      <3>1. \A v \in Nat : Rules!FromNumeric(v, Rules!ParBounds) = Steps(v, 1, 11, 101, 1001)
        BY PeopleClass, ZenonT(40) DEF Steps
      <3> QED BY <1>1, <3>1 DEF Steps
    <2>2. /\ D(facility) = Steps(facility.damage, 1, 10, 100, 1000)
          /\ D(facility') = Steps(facility'.damage, 1, 10, 100, 1000)
      <3>1. \A v \in Nat : Rules!FromNumeric(v, Rules!CostBounds) = Steps(v, 1, 10, 100, 1000)
        BY DamageClass, ZenonT(40) DEF Steps
      <3> QED BY <1>1, <3>1 DEF Steps
    <2> HIDE DEF P, D
    <2> QED BY <1>1, <1>2, <2>1, <2>2 DEF Steps
  <1>4. E(facility) \in 1 .. 5 /\ E(facility') \in 1 .. 5
    BY <1>1, EnvClass
  <1>5. C(facility) \subseteq 1 .. 5 /\ C(facility') \subseteq 1 .. 5
        /\ C(facility) # {} /\ C(facility') # {}
    BY <1>3, <1>4
  <1>6. \A k \in C(facility) : \E l \in C(facility') : k <= l
    BY <1>1, <1>2, <1>3, <1>4
  <1>7. Rules!Classify(facility) = Rules!Greatest(C(facility))
        /\ Rules!Classify(facility') = Rules!Greatest(C(facility'))
    BY DEF Rules!Classify
  <1> HIDE DEF C
  <1>8. /\ Rules!Greatest(C(facility)) \in C(facility) /\ Rules!Greatest(C(facility')) \in C(facility')
        /\ \A k \in C(facility') : k <= Rules!Greatest(C(facility'))
    BY <1>5, GreatestOf
  <1>9. \A i, k, l \in 1 .. 5 : i <= k /\ k <= l => i <= l
    OBVIOUS
  <1> QED BY <1>5, <1>6, <1>7, <1>8, <1>9

\* What is required of a design grows with the class.
LEMMA CriteriaGrow ==
  ASSUME NEW i \in 1 .. 5, NEW j \in 1 .. 5, i <= j, NEW d \in Rules!Designs
  PROVE  /\ Rules!Errors(d, i) # {} => Rules!Errors(d, j) # {}
         /\ "IDF_BELOW_MIN" \in Rules!Validate(d, i) => "IDF_BELOW_MIN" \in Rules!Validate(d, j)
  <1>0. None \notin Int /\ Factor \cup Pga \subseteq Int
    BY RecordConstants DEF RecordConstants, Rules!RuleAssumption
  <1> DEFINE c == Rules!Criteria(i)
             e == Rules!Criteria(j)
  <1>1. /\ c.idf \in Int /\ e.idf \in Int /\ c.idf <= e.idf
        /\ c.static \in Int /\ e.static \in Int /\ c.static <= e.static
        /\ c.seismic \in Int /\ e.seismic \in Int /\ c.seismic <= e.seismic
        /\ c.postliq \in Int /\ e.postliq \in Int /\ c.postliq <= e.postliq
    BY DEF Rules!Criteria
  <1>2. /\ e.methods \subseteq c.methods
        /\ c.pga # None => c.pga = 10 /\ ("upstream" \in e.methods => e.pga = 10)
    BY <1>0 DEF Rules!Criteria
  <1>3. /\ d.static \in Int \cup {None} /\ d.seismic \in Int /\ d.postliq = None
        /\ d.flood \in Int \cup {None} /\ d.pga \in Int \cup {None}
    BY <1>0 DEF Rules!Designs
  <1> HIDE DEF c, e
  <1>4. ASSUME Rules!Errors(d, i) # {} PROVE Rules!Errors(d, j) # {}
    <2>1. \/ Rules!Below(d.static, c.static) \/ Rules!Below(d.seismic, c.seismic)
          \/ Rules!Below(d.postliq, c.postliq) \/ d.method \notin c.methods
          \/ /\ d.method = "upstream" /\ c.pga # None /\ d.pga # None /\ d.pga >= c.pga
      BY <1>4 DEF Rules!Errors, c
    <2>2. \/ Rules!Below(d.static, e.static) \/ Rules!Below(d.seismic, e.seismic)
          \/ Rules!Below(d.postliq, e.postliq) \/ d.method \notin e.methods
          \/ /\ d.method = "upstream" /\ e.pga # None /\ d.pga # None /\ d.pga >= e.pga
      BY <1>0, <1>1, <1>2, <1>3, <2>1 DEF Rules!Below
    <2> QED BY <2>2 DEF Rules!Errors, e
  <1>5. ASSUME "IDF_BELOW_MIN" \in Rules!Validate(d, i) PROVE "IDF_BELOW_MIN" \in Rules!Validate(d, j)
    <2>0. "IDF_BELOW_MIN" \notin Rules!Errors(d, i) /\ i # None /\ j # None
      BY <1>0 DEF Rules!Errors
    <2>1. Rules!Below(d.flood, c.idf)
      BY <1>5, <2>0 DEF Rules!Validate, c
    <2>2. Rules!Below(d.flood, e.idf)
      BY <1>0, <1>1, <1>3, <2>1 DEF Rules!Below
    <2> QED BY <2>0, <2>2 DEF Rules!Validate, e
  <1> QED BY <1>4, <1>5

\* The facility and the design are of their types.
LEMMA RuleInit == ASSUME AllInit PROVE RuleInv
  <1> SUFFICES ASSUME part = "rules" PROVE RuleInv
    BY DEF RuleInv
  <1>1. Rules!Init
    BY DEF AllInit
  <1> QED BY <1>1 DEF Rules!Init, RuleInv

\* They stay so as the facility grows.
LEMMA RuleNext == ASSUME RuleInv, [AllNext]_allVars PROVE RuleInv'
  <1> SUFFICES ASSUME part' = "rules" PROVE RuleInv'
    BY DEF RuleInv
  <1>1. part = "rules" /\ [Rules!Next]_ruleData
    BY PartStep
  <1>2. People \cup Damage \subseteq Nat
    BY RecordConstants DEF RecordConstants, Rules!RuleAssumption
  <1>3. CASE UNCHANGED ruleData
    BY <1>1, <1>3 DEF RuleInv, ruleData
  <1>4. CASE Rules!Next
    <2> USE <1>1, <1>2, <1>4 DEF Rules!Next, Rules!Grow, RuleInv
    <2>1. ASSUME NEW x \in People \cup Damage,
                 facility' = [facility EXCEPT !.people = x] \/ facility' = [facility EXCEPT !.damage = x]
          PROVE  RuleInv'
      BY <2>1
    <2>2. ASSUME NEW i \in Rules!FromEnv(facility.env) + 1 .. 5,
                 facility' = [facility EXCEPT !.env = Rules!Env[i]]
          PROVE  RuleInv'
      <3>1. Rules!Env[i] \in Envs
        BY EnvClass DEF Envs
      <3> QED BY <2>2, <3>1 DEF Envs
    <2>3. ASSUME facility' = [facility EXCEPT !.infra = TRUE] PROVE RuleInv'
      BY <2>3
    <2> QED BY <2>1, <2>2, <2>3
  <1> QED BY <1>1, <1>3, <1>4

\* The lower bounds alone decide the class.
LEMMA RuleHolds == ASSUME RuleInv, part = "rules" PROVE Rules!LowerBoundsDecide
  BY PeopleClass, DamageClass DEF RuleInv, Rules!LowerBoundsDecide

\* A facility that grows keeps the errors and the flood warning of its design.
LEMMA RuleDecisions ==
  ASSUME RuleInv, RuleInv', part = "rules", [AllNext]_allVars
  PROVE  Rules!GrowthNeverAbsolves /\ Rules!FloodWarningStays
  <1>1. part' = part /\ [Rules!Next]_ruleData
    BY PartStep
  <1>2. CASE UNCHANGED ruleData
    BY <1>2 DEF Rules!GrowthNeverAbsolves, Rules!FloodWarningStays, ruleData
  <1>3. CASE Rules!Next
    BY <1>1, <1>3, ClassGrows, CriteriaGrow
       DEF Rules!Next, Rules!Grow, Rules!GrowthNeverAbsolves, Rules!FloodWarningStays, RuleInv
  <1> QED BY <1>1, <1>2, <1>3

-----------------------------------------------------------------------------
(* The stage gates.                                                        *)

\* While a gate is being approved, its risks and items are as they were read.
NoneBlocks(s) == ~\E r \in Risks : GateUse!Blocks(risks[r], s)
AllDone(s) == \A i \in GateUse!ItemsOf(s) : GateUse!Done(items[<<s, i>>])
ApproverInv(a) ==
  /\ approver[a].pc # "idle" =>
       approver[a].stage \in Stages /\ GateUse!Exists(approver[a].stage) /\ NoneBlocks(approver[a].stage)
  /\ approver[a].pc = "update" => AllDone(approver[a].stage)

GateInv == GateUse!TypeOK /\ GateUse!AllOrNothing /\ \A a \in Approvers : ApproverInv(a)

\* No stage and no item yet.
LEMMA GateInit == ASSUME AllInit PROVE GateInv
  <1>0. GateUse!Init /\ Stages \subseteq Nat \ {0}
    BY RecordConstants DEF AllInit, RecordConstants, GateUse!StageAssumption
  <1>2. GateUse!TypeOK
    BY <1>0 DEF GateUse!Init, GateUse!TypeOK, GateUse!NoItem, GateUse!NoRisk, GateUse!Away,
       GateUse!ItemRow, GateUse!RiskRow, GateUse!AllItems
  <1>3. GateUse!AllOrNothing
    BY <1>0 DEF GateUse!Init, GateUse!AllOrNothing, GateUse!ItemsOf, GateUse!NoItem
  <1>4. \A a \in Approvers : ApproverInv(a)
    BY <1>0 DEF GateUse!Init, ApproverInv, GateUse!Away
  <1> QED BY <1>2, <1>3, <1>4 DEF GateInv

\* A change of items or risks, while no gate is being approved.
LEMMA QuietKeeps ==
  ASSUME GateInv, GateUse!Quiet, UNCHANGED approver, GateUse!TypeOK', GateUse!AllOrNothing'
  PROVE  GateInv'
  BY DEF GateInv, GateUse!Quiet, ApproverInv

\* What an approval has found holds as long as items and risks stay as they are.
LEMMA SameKeeps ==
  ASSUME NEW a \in Approvers, ApproverInv(a), UNCHANGED <<items, risks>>, approver'[a] = approver[a],
         \A t \in Stages : gates'[t].rows = gates[t].rows
  PROVE  ApproverInv(a)'
  BY DEF ApproverInv, NoneBlocks, AllDone, GateUse!Exists, GateUse!Blocks, GateUse!Done, GateUse!ItemsOf,
     GateUse!AllItems, GateUse!Template

\* The list requests: the stages are inserted once.
LEMMA ListerKeeps ==
  ASSUME GateInv, NEW q \in Listers,
         GateUse!LookForStages(q) \/ GateUse!InsertStages(q) \/ GateUse!ListStages(q)
  PROVE  GateInv'
  <1>0. Stages \subseteq Nat \ {0}
    BY RecordConstants DEF RecordConstants, GateUse!StageAssumption
  <1> USE DEF GateInv, GateUse!TypeOK
  <1>1. CASE UNCHANGED <<gates, items>>
    <2>1. GateUse!TypeOK'
      BY <1>1 DEF GateUse!LookForStages, GateUse!InsertStages, GateUse!ListStages
    <2>2. UNCHANGED <<risks, approver>>
      BY DEF GateUse!LookForStages, GateUse!InsertStages, GateUse!ListStages
    <2>3. GateUse!AllOrNothing'
      BY <1>1 DEF GateUse!AllOrNothing, GateUse!ItemsOf, GateUse!AllItems, GateUse!Template
    <2>4. \A a \in Approvers : ApproverInv(a)'
      BY <1>1, <2>2, SameKeeps
    <2> QED BY <2>1, <2>3, <2>4
  <1>2. CASE ~UNCHANGED <<gates, items>>
    <2>1. /\ GateUse!InsertStages(q) /\ UNCHANGED <<risks, approver>>
          /\ ~\E s \in Stages : GateUse!Exists(s)
          /\ gates' = [s \in Stages |-> GateUse!Inserted(s)[s]]
          /\ items' = GateUse!WithTemplate(Stages)
          /\ lister' = [lister EXCEPT ![q] = "list"]
      BY <1>2 DEF GateUse!LookForStages, GateUse!InsertStages, GateUse!ListStages
    <2>3. \A s \in Stages : gates'[s] = [gates[s] EXCEPT !.rows = @ + 1]
      BY <2>1 DEF GateUse!Inserted
    <2>2. \A s \in Stages : gates[s].rows = 0 /\ gates'[s].rows = 1 /\ gates'[s].status = gates[s].status
      <3> TAKE s \in Stages
      <3>1. gates[s] \in [rows : Nat, status : {"NotStarted", "Approved"}] /\ ~(gates[s].rows > 0)
        BY <2>1 DEF GateUse!Exists
      <3>2. gates[s].rows = 0
        BY <3>1
      <3>3. gates'[s] = [gates[s] EXCEPT !.rows = 0 + 1]
        BY <2>3, <3>2
      <3> QED BY <3>1, <3>2, <3>3
    <2>4. gates' \in [Stages -> [rows : Nat, status : {"NotStarted", "Approved"}]]
      <3> SUFFICES ASSUME NEW s \in Stages
                   PROVE  gates'[s] \in [rows : Nat, status : {"NotStarted", "Approved"}]
        BY <2>1
      <3>1. gates[s] \in [rows : Nat, status : {"NotStarted", "Approved"}]
        OBVIOUS
      <3>2. gates'[s] = [gates[s] EXCEPT !.rows = @ + 1]
        BY <2>3
      <3> QED BY <3>1, <3>2
    <2>5. items' \in [Stages \X GateUse!AllItems -> GateUse!ItemRow]
          /\ \A s \in Stages : 0 \in GateUse!ItemsOf(s)'
      <3>1. /\ items' \in [Stages \X GateUse!AllItems -> GateUse!ItemRow]
            /\ \A s \in Stages : items'[<<s, 0>>].stage = s
        BY <2>1 DEF GateUse!WithTemplate, GateUse!NoItem, GateUse!ItemRow, GateUse!AllItems, GateUse!Template
      <3> QED BY <3>1 DEF GateUse!ItemsOf, GateUse!AllItems, GateUse!Template
    <2>6. GateUse!TypeOK'
      BY <2>1, <2>4, <2>5
    <2>7. GateUse!AllOrNothing'
      BY <2>2, <2>5 DEF GateUse!AllOrNothing, GateUse!Template
    <2>8. GateUse!Quiet
      BY <2>1 DEF ApproverInv, GateUse!Quiet
    <2> QED BY <2>1, <2>6, <2>7, <2>8, QuietKeeps
  <1> QED BY <1>1, <1>2

\* Items are added to stages there are, and stay in their stage.
LEMMA ItemKeeps ==
  ASSUME GateInv, NEW s \in Stages, NEW i \in GateUse!AllItems, NEW st \in {"NotStarted", "Approved"},
         NEW d \in BOOLEAN, GateUse!AddItem(s, i) \/ GateUse!PatchItem(s, i, st, d)
  PROVE  GateInv'
  <1>0. Stages \subseteq Nat \ {0}
    BY RecordConstants DEF RecordConstants, GateUse!StageAssumption
  <1> DEFINE row == items'[<<s, i>>]
  <1>1. /\ row \in GateUse!ItemRow /\ row.stage = s
        /\ items' = [items EXCEPT ![<<s, i>>] = row]
        /\ \E k \in GateUse!AllItems : k \in GateUse!ItemsOf(s) \/ GateUse!Exists(s)
        /\ GateUse!Quiet /\ UNCHANGED <<gates, risks, lister, approver>>
    <2>1. CASE GateUse!AddItem(s, i)
      BY <2>1 DEF GateUse!AddItem, GateUse!NoItem, GateUse!ItemRow, GateInv, GateUse!TypeOK
    <2>2. CASE GateUse!PatchItem(s, i, st, d)
      <3>1. items[<<s, i>>] \in GateUse!ItemRow /\ items[<<s, i>>].stage = s
        BY <2>2 DEF GateUse!PatchItem, GateUse!ItemsOf, GateInv, GateUse!TypeOK
      <3> QED BY <2>2, <3>1 DEF GateUse!PatchItem, GateUse!ItemRow, GateInv, GateUse!TypeOK
    <2> QED BY <2>1, <2>2
  <1> HIDE DEF row
  <1>2. GateUse!TypeOK'
    BY <1>1 DEF GateInv, GateUse!TypeOK
  <1>3. \A t \in Stages : GateUse!Template \in GateUse!ItemsOf(t) => GateUse!Template \in GateUse!ItemsOf(t)'
    BY <1>1 DEF GateUse!ItemsOf, GateInv, GateUse!TypeOK
  <1>4. \A t \in Stages : gates[t].rows = 1
    <2>1. gates[s].rows # 0 \/ GateUse!ItemsOf(s) # {}
      BY <1>1 DEF GateUse!Exists, GateInv, GateUse!TypeOK
    <2> QED BY <2>1 DEF GateInv, GateUse!AllOrNothing
  <1>5. GateUse!AllOrNothing'
    <2>1. \A t \in Stages : gates[t].rows = 1 /\ GateUse!Template \in GateUse!ItemsOf(t)
      <3>1. \A t \in Stages : gates[t].rows # 0
        BY <1>4
      <3> QED BY <3>1 DEF GateInv, GateUse!AllOrNothing
    <2>2. \A t \in Stages : gates'[t].rows = 1 /\ GateUse!Template \in GateUse!ItemsOf(t)'
      BY <1>1, <1>3, <2>1
    <2> QED BY <2>2 DEF GateUse!AllOrNothing, GateUse!Template
  <1> QED BY <1>1, <1>2, <1>5, QuietKeeps

\* An approval goes on after it has looked at the risks, and then at the items.
LEMMA ApproverKeeps ==
  ASSUME GateInv, NEW a \in Approvers, NEW s \in Stages,
         GateUse!CheckRisks(a, s) \/ GateUse!CheckItems(a) \/ GateUse!Approve(a)
  PROVE  GateInv'
  <1> USE DEF GateInv, GateUse!TypeOK
  <1>1. UNCHANGED <<items, risks, lister>>
    BY DEF GateUse!CheckRisks, GateUse!CheckItems, GateUse!Approve
  <1>2. \A t \in Stages : GateUse!ItemsOf(t)' = GateUse!ItemsOf(t)
    BY <1>1 DEF GateUse!ItemsOf
  <1>3. /\ gates' \in [Stages -> [rows : Nat, status : {"NotStarted", "Approved"}]]
        /\ \A t \in Stages : gates'[t].rows = gates[t].rows
    <2>1. CASE GateUse!Approve(a)
      BY <2>1 DEF GateUse!Approve, ApproverInv
    <2> QED BY <2>1 DEF GateUse!CheckRisks, GateUse!CheckItems
  <1>4. /\ approver' \in [Approvers -> [pc : {"idle", "items", "update"}, stage : Stages \cup {0}]]
        /\ \A b \in Approvers : b # a => approver'[b] = approver[b]
        /\ ApproverInv(a)'
    <2>1. CASE GateUse!CheckRisks(a, s)
      BY <1>1, <1>3, <2>1 DEF GateUse!CheckRisks, ApproverInv, NoneBlocks, GateUse!Exists, GateUse!Blocks
    <2>2. CASE GateUse!CheckItems(a)
      <3>0. PICK t : t = approver[a].stage
        OBVIOUS
      <3>1. t \in Stages /\ GateUse!Exists(t) /\ GateUse!Exists(t)'
        <4>1. ApproverInv(a) /\ approver[a].pc = "items"
          BY <2>2 DEF GateUse!CheckItems
        <4>2. t \in Stages /\ GateUse!Exists(t)
          BY <3>0, <4>1 DEF ApproverInv
        <4> QED BY <1>3, <3>0, <4>2 DEF GateUse!Exists
      <3>2. CASE approver' = [approver EXCEPT ![a] = GateUse!Away]
        BY <3>2 DEF GateUse!Away, ApproverInv
      <3>3. CASE /\ approver' = [approver EXCEPT ![a] = [@ EXCEPT !.pc = "update"]]
                 /\ \A i \in GateUse!ItemsOf(t) : GateUse!Done(items[<<t, i>>])
        <4>1. approver'[a].pc = "update" /\ approver'[a].stage = t
          BY <3>0, <3>3
        <4>2. NoneBlocks(t) /\ NoneBlocks(t)' /\ AllDone(t)'
          <5>1. ApproverInv(a) /\ approver[a].pc = "items"
            BY <2>2 DEF GateUse!CheckItems
          <5>2. NoneBlocks(t)
            BY <3>0, <5>1 DEF ApproverInv
          <5>3. NoneBlocks(t)'
            BY <1>1, <5>2 DEF NoneBlocks, GateUse!Blocks
          <5>4. AllDone(t)'
            BY <1>1, <1>2, <3>1, <3>3 DEF AllDone, GateUse!Done
          <5> QED BY <5>2, <5>3, <5>4
        <4> QED BY <3>1, <3>3, <4>1, <4>2 DEF ApproverInv
      <3> QED BY <2>2, <3>0, <3>2, <3>3 DEF GateUse!CheckItems
    <2>3. CASE GateUse!Approve(a)
      BY <2>3 DEF GateUse!Approve, GateUse!Away, ApproverInv
    <2> QED BY <2>1, <2>2, <2>3
  <1>5. \A b \in Approvers : ApproverInv(b)'
    BY <1>1, <1>3, <1>4, SameKeeps
  <1>6. GateUse!AllOrNothing'
    <2>1. CASE \A u \in Stages : gates[u].rows = 0 /\ GateUse!ItemsOf(u) = {}
      BY <1>2, <1>3, <2>1 DEF GateUse!AllOrNothing
    <2>2. CASE \A u \in Stages : gates[u].rows = 1 /\ GateUse!Template \in GateUse!ItemsOf(u)
      BY <1>2, <1>3, <2>2 DEF GateUse!AllOrNothing, GateUse!Template
    <2> QED BY <2>1, <2>2 DEF GateUse!AllOrNothing
  <1> QED BY <1>1, <1>3, <1>4, <1>5, <1>6

\* Every request keeps the invariant of the gates.
LEMMA GateNext == ASSUME part = "gates" => GateInv, [AllNext]_allVars PROVE part' = "gates" => GateInv'
  <1> SUFFICES ASSUME part' = "gates" PROVE GateInv'
    OBVIOUS
  <1>1. GateInv /\ [GateUse!Next]_gateData
    BY PartStep
  <1>2. CASE UNCHANGED gateData
    <2>1. GateUse!TypeOK' /\ GateUse!AllOrNothing'
      BY <1>1, <1>2 DEF gateData, GateInv, GateUse!TypeOK, GateUse!AllOrNothing, GateUse!ItemsOf,
         GateUse!AllItems, GateUse!Template
    <2> QED BY <1>1, <1>2, <2>1, SameKeeps DEF gateData, GateInv
  <1>3. CASE GateUse!Next
    <2>1. ASSUME NEW s \in Stages, GateUse!ResetGate(s) PROVE GateInv'
      <3>1. \A t \in Stages : gates'[t].rows = gates[t].rows
        BY <1>1, <2>1 DEF GateUse!ResetGate, GateInv, GateUse!TypeOK
      <3>2. GateUse!TypeOK'
        BY <1>1, <2>1 DEF GateUse!ResetGate, GateInv, GateUse!TypeOK
      <3>3. UNCHANGED <<items, risks, approver>>
        BY <2>1 DEF GateUse!ResetGate
      <3>4. GateUse!AllOrNothing'
        BY <1>1, <3>1, <3>3 DEF GateInv, GateUse!AllOrNothing, GateUse!ItemsOf, GateUse!AllItems, GateUse!Template
      <3> QED BY <1>1, <3>1, <3>2, <3>3, <3>4, SameKeeps DEF GateInv
    <2>2. ASSUME NEW r \in Risks, NEW row \in GateUse!RiskRow, GateUse!PutRisk(r, row) PROVE GateInv'
      <3>1. GateUse!Quiet /\ UNCHANGED <<gates, items, lister, approver>> /\ risks' = [risks EXCEPT ![r] = row]
        BY <2>2 DEF GateUse!PutRisk
      <3>2. GateUse!TypeOK' /\ GateUse!AllOrNothing'
        BY <1>1, <3>1 DEF GateInv, GateUse!TypeOK, GateUse!AllOrNothing, GateUse!ItemsOf
      <3> QED BY <1>1, <3>1, <3>2, QuietKeeps
    <2>3. ASSUME NEW a \in Approvers, GateUse!CheckItems(a) \/ GateUse!Approve(a) PROVE GateInv'
      <3>1. \E s \in Stages : TRUE
        BY <1>1, <2>3 DEF GateInv, ApproverInv, GateUse!CheckItems, GateUse!Approve
      <3> QED BY <1>1, <2>3, <3>1, ApproverKeeps
    <2> QED BY <1>1, <1>3, <2>1, <2>2, <2>3, ListerKeeps, ItemKeeps, ApproverKeeps DEF GateUse!Next
  <1> QED BY <1>1, <1>2, <1>3

\* Only an approval that found every item done and no blocking risk approves.
LEMMA GateDecisions ==
  ASSUME GateInv, part = "gates", [AllNext]_allVars
  PROVE  GateUse!ApprovalIsClear
  <1> SUFFICES ASSUME NEW s \in Stages, gates[s].status # "Approved", gates'[s].status = "Approved"
               PROVE  /\ \A i \in GateUse!ItemsOf(s) : GateUse!Done(items[<<s, i>>])
                      /\ ~\E r \in Risks : GateUse!Blocks(risks[r], s)
    BY DEF GateUse!ApprovalIsClear
  <1>1. [GateUse!Next]_gateData
    BY PartStep
  <1>2. PICK a \in Approvers : GateUse!Approve(a) /\ approver[a].stage = s
    <2>1. gates' # gates
      OBVIOUS
    <2>2. ASSUME NEW q \in Listers, GateUse!InsertStages(q) PROVE FALSE
      <3>1. gates' = [t \in Stages |-> GateUse!Inserted(t)[t]]
        BY <2>1, <2>2 DEF GateUse!InsertStages
      <3>2. gates'[s] = [gates[s] EXCEPT !.rows = @ + 1]
        BY <3>1 DEF GateUse!Inserted, GateInv, GateUse!TypeOK
      <3>3. gates[s] \in [rows : Nat, status : {"NotStarted", "Approved"}]
        BY DEF GateInv, GateUse!TypeOK
      <3> QED BY <3>2, <3>3
    <2>3. ASSUME NEW t \in Stages, GateUse!ResetGate(t) PROVE FALSE
      BY <2>3 DEF GateUse!ResetGate, GateInv, GateUse!TypeOK
    <2>4. ASSUME NEW a \in Approvers, GateUse!Approve(a) PROVE approver[a].stage = s
      BY <2>4 DEF GateUse!Approve, GateInv, GateUse!TypeOK
    <2> QED BY <1>1, <2>1, <2>2, <2>3, <2>4 DEF GateUse!Next, gateData, GateUse!LookForStages, GateUse!ListStages,
            GateUse!AddItem, GateUse!PatchItem, GateUse!PutRisk, GateUse!CheckRisks, GateUse!CheckItems
  <1> QED BY <1>2 DEF GateUse!Approve, GateInv, ApproverInv, NoneBlocks, AllDone

-----------------------------------------------------------------------------
(* The audit trail.                                                        *)

\* < on the naturals is well founded, as a relation.
LEMMA NatOrder ==
  \E R : IsWellFoundedOn(R, Nat) /\ \A m, n \in Nat : m < n => <<m, n>> \in R
  <1>1. \A m, n \in Nat : m < n => <<m, n>> \in OpToRel(<, Nat)
    BY Zenon DEF OpToRel
  <1> QED BY <1>1, NatLessThanWellFounded, Zenon

\* Some numbers have a least one ...
LEMMA LeastNat ==
  ASSUME NEW T, T \subseteq Nat, T # {}
  PROVE  \E n \in T : \A m \in T : n <= m
  <1>1. PICK R : IsWellFoundedOn(R, Nat) /\ \A m, n \in Nat : m < n => <<m, n>> \in R
    BY NatOrder
  <1>2. PICK n \in T : \A m \in T : ~(<<m, n>> \in R)
    <2>1. IsWellFoundedOn(R, Nat)
      BY <1>1
    <2> QED BY <2>1, WFMin, Zenon
  <1>3. \A m \in T : ~(m < n)
    BY <1>1, <1>2
  <1> QED BY <1>3

\* ... and, up to a bound, a greatest one.
LEMMA MaxIsGreatest ==
  ASSUME NEW n \in Nat, NEW S, S \subseteq 0 .. n, S # {}
  PROVE  Max(S) \in S /\ \A x \in S : x <= Max(S)
  <1> DEFINE T == {n - x : x \in S}
  <1>1. T \subseteq Nat /\ T # {}
    <2>1. \A x \in S : n - x \in Nat
      OBVIOUS
    <2> QED BY <2>1
  <1>2. PICK l \in T : \A k \in T : l <= k
    BY <1>1, LeastNat
  <1>3. PICK g \in S : l = n - g
    BY <1>2
  <1>4. \A x \in S : g >= x
    <2> TAKE x \in S
    <2>1. n - g <= n - x /\ x \in 0 .. n /\ g \in 0 .. n
      BY <1>2, <1>3
    <2> QED BY <2>1
  <1>5. Max(S) \in S /\ \A x \in S : Max(S) >= x
    BY <1>4, Zenon DEF Max
  <1>6. \A x \in S : x \in Int
    OBVIOUS
  <1> QED BY <1>5, <1>6

-----------------------------------------------------------------------------
Stamps == {e.ts : e \in log}
EventOf(e, n) == /\ e = [ts |-> e.ts, prev |-> e.prev, chained |-> e.chained]
                 /\ e.ts \in 1 .. n /\ e.prev \in 0 .. n /\ e.chained \in BOOLEAN

\* The operators of the two trails, by the names of this module.
LEMMA TrailNames ==
  /\ Trail!Stamps = Stamps /\ SharedTrail!Stamps = Stamps
  /\ \A S : Trail!Max(S) = Max(S) /\ SharedTrail!Max(S) = Max(S)
  /\ \A S : Trail!Cardinality(S) = Cardinality(S)
  <1>1. Trail!Stamps = Stamps /\ SharedTrail!Stamps = Stamps
    BY DEF Trail!Stamps, SharedTrail!Stamps, Stamps
  <1>2. ASSUME NEW S
        PROVE  Trail!Max(S) = Max(S) /\ SharedTrail!Max(S) = Max(S) /\ Trail!Cardinality(S) = Cardinality(S)
    BY DEF Trail!Max, SharedTrail!Max, Max, Trail!Cardinality, Cardinality
  <1> QED BY <1>1, <1>2

\* Under one request at a time the row with the latest time stays the last
\* until the request inserts its own.
TrailInv ==
  /\ auditClock \in Nat /\ recorded \in Nat
  /\ writer \in [{w1} -> [pc : {"idle", "read", "insert", "commit"}, prev : Nat, ts : Nat]]
  /\ \A e \in log : /\ e.ts \in 1 .. auditClock /\ e.chained
                    /\ e.prev = Max({x \in Stamps : x < e.ts} \cup {0})
  /\ writer[w1].pc \in {"insert", "commit"} => writer[w1].prev = Max(Stamps \cup {0})
  /\ writer[w1].pc = "commit" => /\ writer[w1].ts = auditClock /\ auditClock > 0
                                 /\ \A x \in Stamps : x < auditClock
  /\ mutations = recorded + IF writer[w1].pc = "idle" THEN 0 ELSE 1
  /\ since \in Stamps \cup {0}
  /\ \A x \in Stamps : x <= since => x \in pulled

\* Nobody has recorded anything yet.
LEMMA TrailInit == ASSUME AllInit, part = "trail" PROVE TrailInv
  <1>1. Trail!Init
    BY DEF AllInit
  <1>2. Stamps = {}
    BY <1>1 DEF Trail!Init, Stamps
  <1> QED BY <1>1, <1>2 DEF Trail!Init, TrailInv, Trail!Idle

\* The invariant says what the trail promises.
LEMMA TrailHolds ==
  ASSUME TrailInv
  PROVE  Trail!ChainVerifies /\ Trail!EveryMutationRecorded /\ Trail!PullMissesNothing
  <1>1. Trail!ChainVerifies
    BY TrailNames DEF TrailInv, Trail!ChainVerifies, Trail!Verified
  <1>2. Trail!EveryMutationRecorded
    BY DEF TrailInv, Trail!EveryMutationRecorded
  <1>3. Trail!PullMissesNothing
    BY TrailNames DEF TrailInv, Trail!PullMissesNothing
  <1> QED BY <1>1, <1>2, <1>3

\* What a client pulls: everything up to the last event of the page.
LEMMA PullKeeps == ASSUME TrailInv, Trail!Pull PROVE TrailInv'
  <1> DEFINE After == {x \in Stamps : x > since}
             Earlier(x) == {y \in After : y < x}
             page == {x \in After : Cardinality(Earlier(x)) < PullLimit}
  <1>0. /\ page # {} /\ pulled' = pulled \cup page /\ since' = Max(page)
        /\ UNCHANGED <<auditClock, log, writer, mutations, recorded>>
    BY TrailNames DEF Trail!Pull, Trail!After
  <1>1. /\ Stamps \subseteq 1 .. auditClock /\ auditClock \in Nat /\ since \in 0 .. auditClock
        /\ page \subseteq 0 .. auditClock /\ Stamps' = Stamps
    <2>1. auditClock \in Nat /\ (\A x \in Stamps : x \in 1 .. auditClock) /\ since \in Stamps \cup {0}
      BY DEF TrailInv, Stamps
    <2>2. Stamps' = Stamps
      BY <1>0 DEF Stamps
    <2>3. since \in 0 .. auditClock
      BY <2>1
    <2>4. page \subseteq Stamps
      OBVIOUS
    <2>5. page \subseteq 0 .. auditClock
      BY <2>1, <2>4
    <2> QED BY <2>1, <2>2, <2>3, <2>5
  <1>2. Max(page) \in page /\ \A x \in page : x <= Max(page)
    BY <1>0, <1>1, MaxIsGreatest
  <1>3. PullLimit \in Nat
    BY RecordConstants DEF RecordConstants, Trail!AuditAssumption
  <1>4. ASSUME NEW x \in After, x <= Max(page) PROVE x \in page
    <2>1. IsFiniteSet(Earlier(Max(page)))
      <3>1. Earlier(Max(page)) \subseteq 1 .. auditClock
        BY <1>1
      <3>2. IsFiniteSet(1 .. auditClock)
        BY <1>1, FS_Interval
      <3> QED BY <3>1, <3>2, FS_Subset
    <2>2. Earlier(x) \subseteq Earlier(Max(page))
      <3> SUFFICES ASSUME NEW y \in After, y < x PROVE y < Max(page)
        OBVIOUS
      <3>a. y \in 1 .. auditClock /\ x \in 1 .. auditClock
        BY <1>1
      <3>b. Max(page) \in 0 .. auditClock
        BY <1>1, <1>2
      <3>1. y \in Nat /\ x \in Nat /\ Max(page) \in Nat
        BY <3>a, <3>b, <1>1
      <3> QED BY <3>1, <1>4
    <2>3. Cardinality(Earlier(x)) \in Nat /\ Cardinality(Earlier(Max(page))) \in Nat
          /\ Cardinality(Earlier(x)) <= Cardinality(Earlier(Max(page)))
      BY <2>1, <2>2, FS_Subset, FS_CardinalityType
    <2>4. Cardinality(Earlier(Max(page))) < PullLimit
      BY <1>2
    <2> QED BY <1>3, <2>3, <2>4
  <1>5. \A x \in Stamps : x <= Max(page) => x \in pulled \cup page
    <2> SUFFICES ASSUME NEW x \in Stamps, x <= Max(page), x \notin page PROVE x \in pulled
      OBVIOUS
    <2>1. ~(x > since)
      BY <1>4
    <2>2. x <= since
      BY <1>1, <2>1
    <2> QED BY <2>2 DEF TrailInv
  <1> QED BY <1>0, <1>1, <1>2, <1>5 DEF TrailInv

\* One request: the mutation, the read of the last checksum, the insert.
LEMMA WriterKeeps ==
  ASSUME TrailInv, Trail!Mutate(w1) \/ Trail!ReadLast(w1) \/ Trail!Insert(w1)
  PROVE  TrailInv'
  <1>1. log' = log /\ Stamps' = Stamps /\ UNCHANGED <<recorded, since, pulled>>
    BY DEF Trail!Mutate, Trail!ReadLast, Trail!Insert, Trail!client, Stamps
  <1>2. CASE Trail!Mutate(w1)
    BY <1>1, <1>2 DEF TrailInv, Trail!Mutate, Trail!Idle
  <1>3. CASE Trail!ReadLast(w1)
    <2>1. Max(Stamps \cup {0}) \in Nat
      <3>1. Stamps \cup {0} \subseteq 0 .. auditClock
        <4>1. auditClock \in Nat /\ \A x \in Stamps : x \in 1 .. auditClock
          BY DEF TrailInv, Stamps
        <4> QED BY <4>1
      <3>2. Max(Stamps \cup {0}) \in Stamps \cup {0}
        BY <3>1, MaxIsGreatest DEF TrailInv
      <3> QED BY <3>1, <3>2 DEF TrailInv
    <2>2. /\ writer[w1].pc = "read"
          /\ writer' = [writer EXCEPT ![w1].pc = "insert", ![w1].prev = Max(Stamps \cup {0})]
          /\ UNCHANGED <<auditClock, mutations>>
      BY <1>3, TrailNames DEF Trail!ReadLast, Trail!LastChecksum
    <2> QED BY <1>1, <2>1, <2>2 DEF TrailInv
  <1>4. CASE Trail!Insert(w1)
    <2>1. /\ writer[w1].pc = "insert" /\ auditClock' = auditClock + 1
          /\ writer' = [writer EXCEPT ![w1].pc = "commit", ![w1].ts = auditClock + 1]
          /\ mutations' = mutations
      BY <1>4 DEF Trail!Insert
    <2>2. auditClock \in Nat /\ \A x \in Stamps : x \in 1 .. auditClock
      BY DEF TrailInv, Stamps
    <2>3. \A x \in Stamps' : x < auditClock'
      BY <1>1, <2>1, <2>2
    <2>4. \A e \in log' : /\ e.ts \in 1 .. auditClock' /\ e.chained
                          /\ e.prev = Max({x \in Stamps' : x < e.ts} \cup {0})
      <3>1. \A e \in log : e.ts \in 1 .. auditClock'
        BY <2>1, <2>2 DEF Stamps
      <3> QED BY <3>1, <1>1 DEF TrailInv
    <2>5. /\ auditClock' \in Nat /\ auditClock' > 0
          /\ writer' \in [{w1} -> [pc : {"idle", "read", "insert", "commit"}, prev : Nat, ts : Nat]]
          /\ writer'[w1].pc = "commit" /\ writer'[w1].ts = auditClock'
          /\ writer'[w1].prev = Max(Stamps' \cup {0})
      <3>1. /\ writer \in [{w1} -> [pc : {"idle", "read", "insert", "commit"}, prev : Nat, ts : Nat]]
            /\ writer[w1].prev = Max(Stamps \cup {0})
        BY <2>1 DEF TrailInv
      <3>2. auditClock + 1 \in Nat /\ auditClock + 1 > 0
        BY <2>2
      <3>3. PICK c \in Nat : c = auditClock + 1
        BY <3>2
      <3>4. writer' = [writer EXCEPT ![w1].pc = "commit", ![w1].ts = c]
        BY <2>1, <3>3
      <3>5. writer' \in [{w1} -> [pc : {"idle", "read", "insert", "commit"}, prev : Nat, ts : Nat]]
        BY <3>1, <3>4
      <3>6. writer'[w1].pc = "commit" /\ writer'[w1].ts = c /\ writer'[w1].prev = writer[w1].prev
        BY <3>1, <3>4
      <3> QED BY <1>1, <2>1, <3>1, <3>2, <3>3, <3>5, <3>6
    <2>6. mutations' = recorded' + IF writer'[w1].pc = "idle" THEN 0 ELSE 1
      BY <1>1, <2>1, <2>5 DEF TrailInv
    <2>7. since' \in Stamps' \cup {0} /\ (\A x \in Stamps' : x <= since' => x \in pulled') /\ recorded' \in Nat
      BY <1>1 DEF TrailInv
    <2> QED BY <2>3, <2>4, <2>5, <2>6, <2>7 DEF TrailInv
  <1> QED BY <1>2, <1>3, <1>4

\* The row goes into the log with the latest time and the checksum of the row
\* that was the last.
LEMMA CommitInsertKeeps == ASSUME TrailInv, Trail!CommitInsert(w1) PROVE TrailInv'
  <1> DEFINE t == writer[w1].ts
             new == [ts |-> t, prev |-> writer[w1].prev, chained |-> TRUE]
  <1>1. /\ writer[w1].pc = "commit" /\ log' = log \cup {new} /\ recorded' = recorded + 1
        /\ writer' = [writer EXCEPT ![w1] = Trail!Idle]
        /\ UNCHANGED <<auditClock, mutations, since, pulled>>
    BY DEF Trail!CommitInsert, Trail!client
  <1>2. t = auditClock /\ t \in Nat /\ t > 0 /\ \A x \in Stamps : x < t /\ x \in 1 .. auditClock
    BY <1>1 DEF TrailInv, Stamps
  <1>3. new.ts = t /\ new.chained /\ new.prev = Max(Stamps \cup {0})
    BY <1>1 DEF TrailInv
  <1>4. Stamps' = Stamps \cup {t}
    BY <1>1, <1>3 DEF Stamps
  <1> HIDE DEF new
  <1>5. {x \in Stamps' : x < t} = Stamps
    BY <1>2, <1>4
  <1>6. \A e \in log : {x \in Stamps' : x < e.ts} = {x \in Stamps : x < e.ts}
    BY <1>2, <1>4 DEF Stamps
  <1>7. \A e \in log' : /\ e.ts \in 1 .. auditClock /\ e.chained
                        /\ e.prev = Max({x \in Stamps' : x < e.ts} \cup {0})
    BY <1>1, <1>2, <1>3, <1>5, <1>6, SMTT(40) DEF TrailInv
  <1>8. \A x \in Stamps' : x <= since => x \in pulled
    BY <1>2, <1>4 DEF TrailInv
  <1> QED BY <1>1, <1>2, <1>4, <1>7, <1>8 DEF TrailInv, Trail!Idle

\* Every step keeps the invariant of the trail.
LEMMA TrailNext ==
  ASSUME TrailInv, part = "trail", [AllNext]_allVars
  PROVE  TrailInv'
  <1>1. [Trail!Next]_trailData
    BY PartStep
  <1>2. CASE UNCHANGED trailData
    BY <1>2 DEF trailData, TrailInv, Stamps
  <1>3. CASE Trail!Next
    BY <1>3, WriterKeeps, CommitInsertKeeps, PullKeeps DEF Trail!Next, Trail!InsertFails
  <1> QED BY <1>1, <1>2, <1>3

\* With several requests at once, and requests that fail: every stored
\* checksum, and every checksum a request holds, is that of an earlier event
\* or of none.
SharedInv ==
  /\ SharedTrail!TypeOK
  /\ \A e \in log : /\ e.ts \in 1 .. auditClock /\ e.prev < e.ts
                    /\ e.prev = 0 \/ e.prev \in Stamps
  /\ \A w \in Writers : /\ writer[w].prev = 0 \/ writer[w].prev \in Stamps
                        /\ writer[w].pc = "commit" => /\ writer[w].ts \in 1 .. auditClock
                                                      /\ writer[w].prev < writer[w].ts

\* The types the two trails share, spelled out.
SharedTypes ==
  /\ auditClock \in 0 .. SharedTime
  /\ log \subseteq [ts : 1 .. SharedTime, prev : 0 .. SharedTime, chained : BOOLEAN]
  /\ writer \in [Writers -> [pc : {"idle", "read", "insert", "commit"},
                             prev : 0 .. SharedTime, ts : 0 .. SharedTime]]
  /\ mutations \in Nat /\ recorded \in Nat
  /\ since \in 0 .. SharedTime /\ pulled \subseteq 1 .. SharedTime

\* They are the trail's TypeOK.
LEMMA SharedTypesAre == SharedTrail!TypeOK <=> SharedTypes
  BY DEF SharedTrail!TypeOK, SharedTypes, SharedTrail!Event, SharedTrail!Times

\* Nobody has recorded anything yet.
LEMMA SharedInit == ASSUME AllInit, part = "shared_trail" PROVE SharedInv
  <1>1. SharedTrail!Init
    BY DEF AllInit
  <1>2. SharedTime \in Nat
    BY RecordConstants DEF RecordConstants, SharedTrail!AuditAssumption
  <1>3. SharedTypes
    BY <1>1, <1>2 DEF SharedTrail!Init, SharedTypes, SharedTrail!Idle
  <1> QED BY <1>1, <1>3, SharedTypesAre DEF SharedTrail!Init, SharedInv, SharedTrail!Idle

\* The invariant says what a shared trail promises.
LEMMA SharedHolds ==
  ASSUME SharedInv
  PROVE  SharedTrail!TypeOK /\ SharedTrail!ChainsBackwards
  BY TrailNames DEF SharedInv, SharedTrail!ChainsBackwards

\* The times of the log are times of the past.
LEMMA SharedStamps ==
  ASSUME SharedInv
  PROVE  /\ auditClock \in Nat /\ SharedTime \in Nat /\ auditClock <= SharedTime
         /\ \A x \in Stamps : x \in 1 .. auditClock /\ x \in 1 .. SharedTime
         /\ Stamps \cup {0} \subseteq 0 .. auditClock
  <1>1. SharedTime \in Nat
    BY RecordConstants DEF RecordConstants, SharedTrail!AuditAssumption
  <1>2. auditClock \in 0 .. SharedTime
    BY SharedTypesAre DEF SharedInv, SharedTypes
  <1>3. \A x \in Stamps : x \in 1 .. auditClock
    BY DEF SharedInv, Stamps
  <1> QED BY <1>1, <1>2, <1>3

\* The log with one more event: its time is one more time.
LEMMA SharedAppend ==
  ASSUME SharedTypes, NEW t \in 1 .. SharedTime, NEW p \in 0 .. SharedTime, NEW b \in BOOLEAN,
         log' = log \cup {[ts |-> t, prev |-> p, chained |-> b]}
  PROVE  /\ Stamps' = Stamps \cup {t}
         /\ log' \subseteq [ts : 1 .. SharedTime, prev : 0 .. SharedTime, chained : BOOLEAN]
         /\ \A e \in log' : e \in log \/ (e.ts = t /\ e.prev = p)
  <1> DEFINE new == [ts |-> t, prev |-> p, chained |-> b]
  <1>1. new.ts = t /\ new.prev = p /\ new \in [ts : 1 .. SharedTime, prev : 0 .. SharedTime, chained : BOOLEAN]
    OBVIOUS
  <1>2. log' = log \cup {new}
    OBVIOUS
  <1> HIDE DEF new
  <1>3. Stamps' = Stamps \cup {t}
    BY <1>1, <1>2 DEF Stamps
  <1>4. log' \subseteq [ts : 1 .. SharedTime, prev : 0 .. SharedTime, chained : BOOLEAN]
    BY <1>1, <1>2 DEF SharedTypes
  <1>5. \A e \in log' : e \in log \/ (e.ts = t /\ e.prev = p)
    BY <1>1, <1>2
  <1> QED BY <1>3, <1>4, <1>5

\* The trigger's row is chained to none; the request has read nothing yet.
LEMMA SharedMutate ==
  ASSUME SharedInv, NEW w \in Writers, SharedTrail!Mutate(w)
  PROVE  SharedInv'
  <1>1. /\ auditClock < SharedTime /\ auditClock' = auditClock + 1 /\ mutations' = mutations + 1
        /\ writer' = [writer EXCEPT ![w] = [pc |-> "read", prev |-> 0, ts |-> 0]]
        /\ log' = log \cup {[ts |-> auditClock + 1, prev |-> 0, chained |-> FALSE]}
        /\ UNCHANGED <<recorded, since, pulled>>
    <2>1. [SharedTrail!Idle EXCEPT !.pc = "read"] = [pc |-> "read", prev |-> 0, ts |-> 0]
      BY DEF SharedTrail!Idle
    <2> QED BY <2>1 DEF SharedTrail!Mutate, SharedTrail!client
  <1>2. PICK c : c = auditClock + 1
    OBVIOUS
  <1>3. c \in 1 .. SharedTime /\ c \in Nat /\ c > auditClock /\ auditClock' = c
    BY <1>1, <1>2, SharedStamps
  <1>4. log' = log \cup {[ts |-> c, prev |-> 0, chained |-> FALSE]}
    BY <1>1, <1>2
  <1>5. /\ Stamps' = Stamps \cup {c}
        /\ log' \subseteq [ts : 1 .. SharedTime, prev : 0 .. SharedTime, chained : BOOLEAN]
        /\ \A e \in log' : e \in log \/ (e.ts = c /\ e.prev = 0)
    <2>1. SharedTypes /\ 0 \in 0 .. SharedTime
      BY SharedTypesAre, SharedStamps DEF SharedInv
    <2> QED BY <2>1, <1>3, <1>4, SharedAppend
  <1>6. SharedTypes'
    <2>1. SharedTypes
      BY SharedTypesAre DEF SharedInv
    <2>2. writer' \in [Writers -> [pc : {"idle", "read", "insert", "commit"},
                                   prev : 0 .. SharedTime, ts : 0 .. SharedTime]]
      BY <1>1, <2>1, SharedStamps DEF SharedTypes
    <2>3. log' \subseteq [ts : 1 .. SharedTime, prev : 0 .. SharedTime, chained : BOOLEAN]
      BY <1>5
    <2> QED BY <1>1, <1>3, <2>1, <2>2, <2>3 DEF SharedTypes
  <1>7. \A e \in log' : /\ e.ts \in 1 .. auditClock' /\ e.prev < e.ts
                        /\ e.prev = 0 \/ e.prev \in Stamps'
    <2>1. \A e \in log : /\ e.ts \in 1 .. auditClock' /\ e.prev < e.ts
                         /\ e.prev = 0 \/ e.prev \in Stamps'
      BY <1>3, <1>5, SharedStamps DEF SharedInv
    <2> QED BY <2>1, <1>3, <1>5
  <1>8. ASSUME NEW v \in Writers
        PROVE  /\ writer'[v].prev = 0 \/ writer'[v].prev \in Stamps'
               /\ writer'[v].pc = "commit" => /\ writer'[v].ts \in 1 .. auditClock'
                                              /\ writer'[v].prev < writer'[v].ts
    <2>1. writer'[v] = IF v = w THEN [pc |-> "read", prev |-> 0, ts |-> 0] ELSE writer[v]
      BY <1>1, SharedTypesAre DEF SharedInv, SharedTypes
    <2>2. CASE v = w
      BY <2>1, <2>2
    <2>3. CASE v # w
      BY <2>1, <2>3, <1>3, <1>5, SharedStamps DEF SharedInv
    <2> QED BY <2>2, <2>3
  <1>9. SharedTrail!TypeOK'
    BY <1>6 DEF SharedTrail!TypeOK, SharedTypes, SharedTrail!Event, SharedTrail!Times
  <1> QED BY <1>7, <1>8, <1>9 DEF SharedInv

\* Only the request's own place changes while it reads, inserts or fails.
LEMMA SharedWriterStep ==
  ASSUME SharedInv, NEW w \in Writers,
         writer' \in [Writers -> [pc : {"idle", "read", "insert", "commit"},
                                  prev : 0 .. SharedTime, ts : 0 .. SharedTime]],
         \A v \in Writers \ {w} : writer'[v] = writer[v],
         auditClock' \in auditClock .. SharedTime,
         UNCHANGED <<log, mutations, recorded, since, pulled>>,
         writer'[w].prev = 0 \/ writer'[w].prev \in Stamps,
         writer'[w].pc = "commit" => /\ writer'[w].ts \in 1 .. auditClock'
                                     /\ writer'[w].prev < writer'[w].ts
  PROVE  SharedInv'
  <1>1. Stamps' = Stamps
    BY DEF Stamps
  <1>2. SharedTypes'
    BY SharedTypesAre, SharedStamps DEF SharedInv, SharedTypes
  <1>3. \A e \in log' : /\ e.ts \in 1 .. auditClock' /\ e.prev < e.ts
                        /\ e.prev = 0 \/ e.prev \in Stamps'
    BY <1>1, SharedStamps DEF SharedInv
  <1>4. ASSUME NEW v \in Writers
        PROVE  /\ writer'[v].prev = 0 \/ writer'[v].prev \in Stamps'
               /\ writer'[v].pc = "commit" => /\ writer'[v].ts \in 1 .. auditClock'
                                              /\ writer'[v].prev < writer'[v].ts
    <2>2. CASE v = w
      BY <2>2, <1>1
    <2>3. CASE v # w
      BY <2>3, <1>1, SharedStamps DEF SharedInv
    <2> QED BY <2>2, <2>3
  <1>5. SharedTrail!TypeOK'
    BY <1>2 DEF SharedTrail!TypeOK, SharedTypes, SharedTrail!Event, SharedTrail!Times
  <1> QED BY <1>3, <1>4, <1>5 DEF SharedInv

\* A request reads the last checksum, begins its insert, or fails.
LEMMA SharedWriters ==
  ASSUME SharedInv, NEW w \in Writers,
         SharedTrail!ReadLast(w) \/ SharedTrail!Insert(w) \/ SharedTrail!InsertFails(w)
  PROVE  SharedInv'
  <1>1. /\ writer \in [Writers -> [pc : {"idle", "read", "insert", "commit"},
                                   prev : 0 .. SharedTime, ts : 0 .. SharedTime]]
        /\ writer[w].prev = 0 \/ writer[w].prev \in Stamps
        /\ auditClock \in auditClock .. SharedTime
    BY SharedTypesAre, SharedStamps DEF SharedInv, SharedTypes
  <1>2. CASE SharedTrail!ReadLast(w)
    <2>1. PICK c \in {SharedTrail!LastChecksum, 0} :
             writer' = [writer EXCEPT ![w].pc = "insert", ![w].prev = c]
      BY <1>2 DEF SharedTrail!ReadLast
    <2>2. c \in Stamps \cup {0} /\ c \in 0 .. SharedTime
      <3>1. Max(Stamps \cup {0}) \in Stamps \cup {0}
        BY SharedStamps, MaxIsGreatest
      <3>2. SharedTrail!LastChecksum = Max(Stamps \cup {0})
        BY TrailNames DEF SharedTrail!LastChecksum
      <3> QED BY <3>1, <3>2, SharedStamps
    <2>3. /\ writer' \in [Writers -> [pc : {"idle", "read", "insert", "commit"},
                                      prev : 0 .. SharedTime, ts : 0 .. SharedTime]]
          /\ \A v \in Writers \ {w} : writer'[v] = writer[v]
          /\ writer'[w].pc = "insert" /\ writer'[w].prev = c
      BY <2>1, <2>2, <1>1
    <2>4. UNCHANGED <<auditClock, log, mutations, recorded, since, pulled>>
      BY <1>2 DEF SharedTrail!ReadLast, SharedTrail!client
    <2> QED BY <1>1, <2>2, <2>3, <2>4, SharedWriterStep
  <1>3. CASE SharedTrail!Insert(w)
    <2>1. /\ auditClock < SharedTime /\ auditClock' = auditClock + 1
          /\ writer' = [writer EXCEPT ![w].pc = "commit", ![w].ts = auditClock + 1]
          /\ UNCHANGED <<log, mutations, recorded, since, pulled>>
      BY <1>3 DEF SharedTrail!Insert, SharedTrail!client
    <2>2. PICK c : c = auditClock + 1
      OBVIOUS
    <2>3. c \in 1 .. auditClock' /\ c \in 0 .. SharedTime /\ auditClock' \in auditClock .. SharedTime
      BY <2>1, <2>2, SharedStamps
    <2>a. writer' = [writer EXCEPT ![w].pc = "commit", ![w].ts = c]
      BY <2>1, <2>2
    <2>4. /\ writer' \in [Writers -> [pc : {"idle", "read", "insert", "commit"},
                                      prev : 0 .. SharedTime, ts : 0 .. SharedTime]]
          /\ \A v \in Writers \ {w} : writer'[v] = writer[v]
          /\ writer'[w].pc = "commit" /\ writer'[w].prev = writer[w].prev /\ writer'[w].ts = c
      BY <2>a, <2>3, <1>1
    <2>5. writer[w].prev < c
      BY <1>1, <2>2, SharedStamps
    <2> QED BY <1>1, <2>1, <2>3, <2>4, <2>5, SharedWriterStep
  <1>4. CASE SharedTrail!InsertFails(w)
    <2>1. /\ writer' = [writer EXCEPT ![w] = [pc |-> "idle", prev |-> 0, ts |-> 0]]
          /\ UNCHANGED <<auditClock, log, mutations, recorded, since, pulled>>
      BY <1>4 DEF SharedTrail!InsertFails, SharedTrail!Idle, SharedTrail!client
    <2>2. /\ writer' \in [Writers -> [pc : {"idle", "read", "insert", "commit"},
                                      prev : 0 .. SharedTime, ts : 0 .. SharedTime]]
          /\ \A v \in Writers \ {w} : writer'[v] = writer[v]
          /\ writer'[w].pc = "idle" /\ writer'[w].prev = 0
      BY <2>1, <1>1, SharedStamps
    <2> QED BY <1>1, <2>1, <2>2, SharedWriterStep
  <1> QED BY <1>2, <1>3, <1>4

\* An event goes into the log with the checksum and the time the request holds.
LEMMA SharedCommit ==
  ASSUME SharedInv, NEW w \in Writers, SharedTrail!CommitInsert(w)
  PROVE  SharedInv'
  <1>1. /\ writer[w].pc = "commit"
        /\ log' = log \cup {[ts |-> writer[w].ts, prev |-> writer[w].prev, chained |-> TRUE]}
        /\ recorded' = recorded + 1
        /\ writer' = [writer EXCEPT ![w] = [pc |-> "idle", prev |-> 0, ts |-> 0]]
        /\ UNCHANGED <<auditClock, mutations, since, pulled>>
    BY DEF SharedTrail!CommitInsert, SharedTrail!Idle, SharedTrail!client
  <1>2. PICK t, p : t = writer[w].ts /\ p = writer[w].prev
    OBVIOUS
  <1>3. /\ t \in 1 .. auditClock /\ t \in 1 .. SharedTime /\ p < t /\ p \in 0 .. SharedTime
        /\ p = 0 \/ p \in Stamps
    <2>1. t \in 1 .. auditClock /\ p < t /\ (p = 0 \/ p \in Stamps)
      BY <1>1, <1>2 DEF SharedInv
    <2>2. p \in 0 .. SharedTime
      BY <1>2, SharedTypesAre DEF SharedInv, SharedTypes
    <2> QED BY <2>1, <2>2, SharedStamps
  <1>4. log' = log \cup {[ts |-> t, prev |-> p, chained |-> TRUE]}
    BY <1>1, <1>2
  <1>5. /\ Stamps' = Stamps \cup {t}
        /\ log' \subseteq [ts : 1 .. SharedTime, prev : 0 .. SharedTime, chained : BOOLEAN]
        /\ \A e \in log' : e \in log \/ (e.ts = t /\ e.prev = p)
    BY <1>3, <1>4, SharedAppend, SharedTypesAre DEF SharedInv
  <1>6. SharedTypes'
    <2>1. SharedTypes
      BY SharedTypesAre DEF SharedInv
    <2>2. writer' \in [Writers -> [pc : {"idle", "read", "insert", "commit"},
                                   prev : 0 .. SharedTime, ts : 0 .. SharedTime]]
      BY <1>1, <2>1, SharedStamps DEF SharedTypes
    <2>3. log' \subseteq [ts : 1 .. SharedTime, prev : 0 .. SharedTime, chained : BOOLEAN]
      BY <1>5
    <2> QED BY <1>1, <2>1, <2>2, <2>3 DEF SharedTypes
  <1>7. \A e \in log' : /\ e.ts \in 1 .. auditClock' /\ e.prev < e.ts
                        /\ e.prev = 0 \/ e.prev \in Stamps'
    <2>1. \A e \in log : /\ e.ts \in 1 .. auditClock' /\ e.prev < e.ts
                         /\ e.prev = 0 \/ e.prev \in Stamps'
      BY <1>1, <1>5 DEF SharedInv
    <2> QED BY <2>1, <1>1, <1>3, <1>5
  <1>8. ASSUME NEW v \in Writers
        PROVE  /\ writer'[v].prev = 0 \/ writer'[v].prev \in Stamps'
               /\ writer'[v].pc = "commit" => /\ writer'[v].ts \in 1 .. auditClock'
                                              /\ writer'[v].prev < writer'[v].ts
    <2>1. writer'[v] = IF v = w THEN [pc |-> "idle", prev |-> 0, ts |-> 0] ELSE writer[v]
      BY <1>1, SharedTypesAre DEF SharedInv, SharedTypes
    <2>2. CASE v = w
      BY <2>1, <2>2
    <2>3. CASE v # w
      BY <2>1, <2>3, <1>1, <1>5 DEF SharedInv
    <2> QED BY <2>2, <2>3
  <1>9. SharedTrail!TypeOK'
    BY <1>6 DEF SharedTrail!TypeOK, SharedTypes, SharedTrail!Event, SharedTrail!Times
  <1> QED BY <1>7, <1>8, <1>9 DEF SharedInv

\* A client that pulls changes nothing of the log.
LEMMA SharedPull == ASSUME SharedInv, SharedTrail!Pull PROVE SharedInv'
  <1> DEFINE After == {x \in Stamps : x > since}
             page == {x \in After : SharedTrail!Cardinality({y \in After : y < x}) < PullLimit}
  <1>1. /\ page # {} /\ pulled' = pulled \cup page /\ since' = Max(page)
        /\ UNCHANGED <<auditClock, log, writer, mutations, recorded>>
    BY TrailNames DEF SharedTrail!Pull, SharedTrail!After
  <1>2. page \subseteq Stamps
    OBVIOUS
  <1>3. page \subseteq 0 .. auditClock /\ page \subseteq 1 .. SharedTime
    BY <1>2, SharedStamps
  <1>4. Max(page) \in page
    BY <1>1, <1>3, SharedStamps, MaxIsGreatest
  <1> HIDE DEF page
  <1>5. SharedTypes'
    <2>1. since' \in 0 .. SharedTime /\ pulled' \subseteq 1 .. SharedTime
      <3>1. pulled \subseteq 1 .. SharedTime
        BY SharedTypesAre DEF SharedInv, SharedTypes
      <3>2. since' \in 0 .. SharedTime
        <4>1. since' \in 1 .. SharedTime
          BY <1>1, <1>3, <1>4
        <4> QED BY <4>1, SharedStamps
      <3> QED BY <3>1, <3>2, <1>1, <1>3
    <2> QED BY <2>1, <1>1, SharedTypesAre DEF SharedInv, SharedTypes
  <1>6. SharedTrail!TypeOK'
    BY <1>5 DEF SharedTrail!TypeOK, SharedTypes, SharedTrail!Event, SharedTrail!Times
  <1> QED BY <1>1, <1>6 DEF SharedInv, Stamps

\* Every step keeps the invariant of the shared trail.
LEMMA SharedNext ==
  ASSUME SharedInv, part = "shared_trail", [AllNext]_allVars
  PROVE  SharedInv'
  <1>1. [SharedTrail!Next]_trailData
    BY PartStep
  <1>2. CASE UNCHANGED trailData
    BY <1>2 DEF trailData, SharedInv, Stamps, SharedTrail!TypeOK
  <1>3. CASE SharedTrail!Next
    BY <1>3, SharedMutate, SharedWriters, SharedCommit, SharedPull DEF SharedTrail!Next
  <1> QED BY <1>1, <1>2, <1>3

-----------------------------------------------------------------------------
(* Offline sync: what clients push, and the conflicts that are resolved.   *)

Elems(s) == {s[i] : i \in DOMAIN s}

\* The elements of a sequence are its head and those of its tail.
LEMMA HeadAndTail ==
  ASSUME NEW S, NEW s \in Seq(S), s # <<>>
  PROVE  /\ Head(s) \in Elems(s) /\ Head(s) \in S /\ Tail(s) \in Seq(S)
         /\ Elems(s) = {Head(s)} \cup Elems(Tail(s)) /\ Elems(s) \subseteq S
         /\ Elems(Tail(s)) \subseteq Elems(s)
  <1>1. Len(s) \in Nat /\ Len(s) > 0 /\ DOMAIN s = 1 .. Len(s) /\ Head(s) = s[1]
    OBVIOUS
  <1>2. /\ Tail(s) \in Seq(S) /\ Len(Tail(s)) = Len(s) - 1 /\ DOMAIN Tail(s) = 1 .. Len(s) - 1
        /\ \A i \in 1 .. Len(s) - 1 : Tail(s)[i] = s[i + 1]
    BY <1>1
  <1>3. Head(s) \in Elems(s) /\ \A i \in DOMAIN s : s[i] \in S
    BY <1>1 DEF Elems
  <1>4. ASSUME NEW x \in Elems(Tail(s)) PROVE x \in Elems(s)
    <2>1. PICK i \in 1 .. Len(s) - 1 : x = Tail(s)[i]
      BY <1>2 DEF Elems
    <2>2. x = s[i + 1] /\ i + 1 \in DOMAIN s
      BY <1>1, <1>2, <2>1
    <2> QED BY <2>2 DEF Elems
  <1>5. ASSUME NEW x \in Elems(s), x # Head(s) PROVE x \in Elems(Tail(s))
    <2>1. PICK i \in DOMAIN s : x = s[i]
      BY DEF Elems
    <2>2. i # 1
      BY <1>1, <1>5, <2>1
    <2>3. i - 1 \in 1 .. Len(s) - 1 /\ i = (i - 1) + 1
      BY <1>1, <2>1, <2>2
    <2>4. x = Tail(s)[i - 1]
      BY <1>2, <2>1, <2>3
    <2> QED BY <1>2, <2>3, <2>4 DEF Elems
  <1> QED BY <1>2, <1>3, <1>4, <1>5 DEF Elems

-----------------------------------------------------------------------------
PushTypes ==
  /\ syncClock \in Nat
  /\ edits \in [Mutations -> [fields : SUBSET Fields, ts : Nat]]
  /\ queue \in [Mutations -> Nat] /\ started \in [Mutations -> Nat]
  /\ push \in [Pushers -> [pc : {"idle", "check", "record", "failed"}, batch : Seq(Mutations),
                           todo : Seq(Mutations), fields : SUBSET Fields, clash : BOOLEAN]]
  /\ answered \subseteq Mutations

Accounted(m) == queue[m] > 0 \/ \E f \in edits[m].fields : <<m, f>> \in DOMAIN conflicts
SeenOn(m, f) ==
  \A e \in events : e.field = f /\ edits[m].ts < e.ts /\ e.ts <= started[m]
                    => <<m, f>> \in DOMAIN conflicts
Settled(m) == Accounted(m) /\ \A f \in edits[m].fields : SeenOn(m, f)

\* Where the request of a client is in its batch: what it has left behind is
\* settled, and so are the fields it has checked of the mutation at hand.
Going(p) ==
  LET m == Head(push[p].todo) IN
  /\ push[p].todo # <<>> /\ push[p].batch # <<>>
  /\ Elems(push[p].todo) \subseteq Elems(push[p].batch)
  /\ \A k \in Elems(push[p].batch) \ Elems(push[p].todo) : Settled(k)
  /\ \A f \in edits[m].fields \ push[p].fields : SeenOn(m, f)
  /\ push[p].clash => \E f \in edits[m].fields : <<m, f>> \in DOMAIN conflicts
  /\ push[p].fields \subseteq edits[m].fields
  /\ push[p].pc = "record" => push[p].fields = {} /\ queue[m] > 0

\* A mutation is in the batch of one client, until the batch is answered.
PushInv ==
  /\ PushTypes
  /\ \A e \in events : e.ts \in Nat /\ e.ts <= syncClock
  /\ \A m \in Mutations : started[m] <= syncClock
  /\ \A m \in answered : edits[m] # Pushes!NoEdit /\ started[m] > 0 /\ Settled(m)
  /\ \A p \in Pushers : \A m \in Elems(push[p].batch) :
       edits[m] # Pushes!NoEdit /\ started[m] > 0 /\ m \notin answered
  /\ \A p, q \in Pushers : p # q => Elems(push[p].batch) \cap Elems(push[q].batch) = {}
  /\ \A p \in Pushers : /\ push[p].pc = "failed" => push[p].batch # <<>>
                        /\ push[p].pc \in {"check", "record"} => Going(p)

PushNames == \A s : Pushes!Range(s) = Elems(s)

\* The elements of a sequence are its range.
LEMMA PushNamesHold == PushNames
  BY DEF PushNames, Pushes!Range, Elems

\* The invariant says what a push promises.
LEMMA PushHolds ==
  ASSUME PushInv
  PROVE  Pushes!AnsweredIsAccountedFor /\ Pushes!ServerChangeIsSeen
  <1>1. Pushes!AnsweredIsAccountedFor
    BY DEF PushInv, Settled, Accounted, Pushes!AnsweredIsAccountedFor
  <1>2. Pushes!ServerChangeIsSeen
    BY DEF PushInv, Settled, SeenOn, Pushes!ServerChangeIsSeen
  <1> QED BY <1>1, <1>2

\* No batch has been sent yet.
LEMMA PushInit == ASSUME AllInit, part = "pushes" PROVE PushInv
  <1>1. Pushes!Init
    BY DEF AllInit
  <1>2. Elems(<<>>) = {} /\ <<>> \in Seq(Mutations)
    BY DEF Elems
  <1>3. \A p \in Pushers : push[p] = [pc |-> "idle", batch |-> <<>>, todo |-> <<>>, fields |-> {}, clash |-> FALSE]
    BY <1>1 DEF Pushes!Init, Pushes!NoPush
  <1>4. PushTypes
    <2>1. edits \in [Mutations -> [fields : SUBSET Fields, ts : Nat]]
      BY <1>1 DEF Pushes!Init, Pushes!NoEdit
    <2>2. push \in [Pushers -> [pc : {"idle", "check", "record", "failed"}, batch : Seq(Mutations),
                           todo : Seq(Mutations), fields : SUBSET Fields, clash : BOOLEAN]]
      BY <1>1, <1>2 DEF Pushes!Init, Pushes!NoPush
    <2> QED BY <1>1, <2>1, <2>2 DEF Pushes!Init, PushTypes
  <1>5. \A p \in Pushers : Elems(push[p].batch) = {} /\ push[p].pc = "idle"
    BY <1>2, <1>3
  <1> QED BY <1>1, <1>4, <1>5 DEF Pushes!Init, PushInv

\* What is settled stays settled as long as the mutation is not sent again:
\* events come later, rows are not deleted.
LEMMA SettledStays ==
  ASSUME PushTypes, NEW m \in Mutations, edits'[m] = edits[m], started'[m] = started[m],
         started[m] <= syncClock,
         DOMAIN conflicts \subseteq DOMAIN conflicts', queue'[m] \in Nat, queue'[m] >= queue[m],
         \A e \in events' : e \in events \/ (e.ts \in Nat /\ e.ts > syncClock)
  PROVE  /\ \A f : SeenOn(m, f) => SeenOn(m, f)'
         /\ Accounted(m) => Accounted(m)'
         /\ Settled(m) => Settled(m)'
  <1>1. started[m] \in Nat /\ syncClock \in Nat /\ queue[m] \in Nat
    BY DEF PushTypes
  <1>2. ASSUME NEW f, SeenOn(m, f) PROVE SeenOn(m, f)'
    BY <1>1, <1>2 DEF SeenOn
  <1>3. ASSUME Accounted(m) PROVE Accounted(m)'
    BY <1>1, <1>3 DEF Accounted
  <1> QED BY <1>2, <1>3 DEF Settled

\* A step of one client: what it must do for itself, and what it must not do
\* to the others.
LEMMA OnePusher ==
  ASSUME PushInv, NEW p \in Pushers, PushTypes', UNCHANGED edits,
         \A q \in Pushers \ {p} : push'[q] = push[q],
         \A e \in events' : e \in events \/ (e.ts \in Nat /\ e.ts > syncClock),
         \A e \in events' : e.ts \in Nat /\ e.ts <= syncClock',
         \A m \in Mutations : started'[m] <= syncClock',
         DOMAIN conflicts \subseteq DOMAIN conflicts',
         \A m \in Mutations : queue'[m] >= queue[m],
         \A m \in Mutations : m \notin Elems(push'[p].batch) => started'[m] = started[m],
         \A m \in Elems(push'[p].batch) :
           /\ edits[m] # Pushes!NoEdit /\ started'[m] > 0 /\ m \notin answered'
           /\ \A q \in Pushers \ {p} : m \notin Elems(push[q].batch),
         answered \subseteq answered',
         \A m \in answered' \ answered : m \in Elems(push[p].batch) /\ Settled(m)',
         push'[p].pc = "failed" => push'[p].batch # <<>>,
         push'[p].pc \in {"check", "record"} => Going(p)'
  PROVE  PushInv'
  <1> USE DEF PushInv
  <1>1. \A m \in Mutations : m \notin Elems(push'[p].batch) => (Settled(m) => Settled(m)') /\ \A f : SeenOn(m, f) => SeenOn(m, f)'
    BY SettledStays DEF PushTypes
  <1>2. ASSUME NEW m \in answered'
        PROVE  edits'[m] # Pushes!NoEdit /\ started'[m] > 0 /\ Settled(m)'
    <2>1. m \in Mutations /\ m \notin Elems(push'[p].batch)
      BY <1>2 DEF PushTypes
    <2>2. started'[m] = started[m]
      BY <2>1
    <2>3. CASE m \in answered
      BY <1>1, <2>1, <2>2, <2>3
    <2>4. CASE m \notin answered
      BY <1>2, <2>2, <2>4
    <2> QED BY <2>3, <2>4
  <1>3. ASSUME NEW q \in Pushers, NEW m \in Elems(push'[q].batch)
        PROVE  edits'[m] # Pushes!NoEdit /\ started'[m] > 0 /\ m \notin answered'
    <2>1. CASE q = p
      BY <2>1, <1>3
    <2>2. CASE q # p
      <3>1. push'[q] = push[q] /\ m \in Elems(push[q].batch)
        BY <2>2, <1>3
      <3>2. m \notin Elems(push'[p].batch)
        BY <2>2, <3>1
      <3>3. m \in Mutations
        BY <3>1 DEF PushTypes, Elems
      <3>4. m \notin Elems(push[p].batch)
        BY <2>2, <3>1
      <3> QED BY <3>1, <3>2, <3>3, <3>4
    <2> QED BY <2>1, <2>2
  <1>4. ASSUME NEW q \in Pushers, NEW r \in Pushers, q # r
        PROVE  Elems(push'[q].batch) \cap Elems(push'[r].batch) = {}
    <2>1. CASE q # p /\ r # p
      BY <2>1, <1>4
    <2>2. CASE q = p
      BY <2>2, <1>4
    <2>3. CASE r = p
      BY <2>3, <1>4
    <2> QED BY <2>1, <2>2, <2>3
  <1>5. ASSUME NEW q \in Pushers
        PROVE  /\ push'[q].pc = "failed" => push'[q].batch # <<>>
               /\ push'[q].pc \in {"check", "record"} => Going(q)'
    <2>1. CASE q = p
      BY <2>1
    <2>2. CASE q # p
      <3>1. push'[q] = push[q]
        BY <2>2
      <3> SUFFICES ASSUME push[q].pc \in {"check", "record"} PROVE Going(q)'
        BY <3>1
      <3>2. Going(q)
        OBVIOUS
      <3>3. Elems(push[q].batch) \subseteq Mutations
        BY DEF PushTypes, Elems
      <3>4. \A m \in Elems(push[q].batch) : m \notin Elems(push'[p].batch)
        BY <2>2
      <3>5. \A m \in Elems(push[q].batch) : (Settled(m) => Settled(m)') /\ \A f : SeenOn(m, f) => SeenOn(m, f)'
        BY <1>1, <3>3, <3>4
      <3>6. PICK h : h = Head(push[q].todo)
        OBVIOUS
      <3>7. h \in Elems(push[q].batch) /\ h \in Mutations
        <4>1. push[q].todo \in Seq(Mutations) /\ push[q].todo # <<>> /\ Elems(push[q].todo) \subseteq Elems(push[q].batch)
          BY <3>2 DEF Going, PushTypes
        <4> QED BY <4>1, <3>6, HeadAndTail, <3>3
      <3>8. queue[h] > 0 => queue'[h] > 0
        BY <3>7 DEF PushTypes
      <3> QED BY <3>1, <3>2, <3>5, <3>6, <3>7, <3>8 DEF Going
    <2> QED BY <2>1, <2>2
  <1> QED BY <1>2, <1>3, <1>4, <1>5

\* An edit is of a mutation that nobody has sent; an edit on the server is
\* later than every request.
LEMMA PushEdits ==
  ASSUME PushInv,
         (\E m \in Mutations, F \in SUBSET Fields : Pushes!EditOffline(m, F))
           \/ \E f \in Fields : Pushes!EditOnServer(f)
  PROVE  PushInv'
  <1>1. /\ UNCHANGED <<queue, conflicts, push, started, answered>>
        /\ PushTypes'
        /\ \A m \in Mutations : edits[m] # Pushes!NoEdit => edits'[m] = edits[m]
        /\ \A e \in events' : e \in events \/ (e.ts \in Nat /\ e.ts > syncClock)
        /\ \A e \in events' : e.ts \in Nat /\ e.ts <= syncClock'
        /\ \A m \in Mutations : started'[m] <= syncClock'
    <2>1. CASE \E m \in Mutations, F \in SUBSET Fields : Pushes!EditOffline(m, F)
      <3>1. PICK m \in Mutations, F \in SUBSET Fields : Pushes!EditOffline(m, F)
        BY <2>1
      <3>2. /\ edits[m] = Pushes!NoEdit /\ edits' = [edits EXCEPT ![m] = [fields |-> F, ts |-> syncClock]]
            /\ UNCHANGED <<syncClock, events, queue, conflicts, push, started, answered>>
        BY <3>1 DEF Pushes!EditOffline, Pushes!store, Pushes!history
      <3>3. edits' \in [Mutations -> [fields : SUBSET Fields, ts : Nat]]
        BY <3>2 DEF PushInv, PushTypes
      <3>4. \A k \in Mutations : edits[k] # Pushes!NoEdit => edits'[k] = edits[k]
        BY <3>2 DEF PushInv, PushTypes
      <3> QED BY <3>2, <3>3, <3>4 DEF PushInv, PushTypes
    <2>2. CASE \E f \in Fields : Pushes!EditOnServer(f)
      <3>1. PICK f \in Fields : Pushes!EditOnServer(f)
        BY <2>2
      <3>2. /\ syncClock' = syncClock + 1 /\ events' = events \cup {[field |-> f, ts |-> syncClock + 1]}
            /\ UNCHANGED <<edits, queue, conflicts, push, started, answered>>
        BY <3>1 DEF Pushes!EditOnServer, Pushes!Advance, Pushes!history
      <3>3. syncClock \in Nat /\ syncClock' \in Nat /\ syncClock' > syncClock
        BY <3>2 DEF PushInv, PushTypes
      <3>4. \A e \in events' : e \in events \/ e.ts = syncClock'
        BY <3>2
      <3>5. \A e \in events' : e \in events \/ (e.ts \in Nat /\ e.ts > syncClock)
        BY <3>3, <3>4
      <3>6. \A e \in events' : e.ts \in Nat /\ e.ts <= syncClock'
        BY <3>2, <3>3, <3>4 DEF PushInv
      <3>7. \A m \in Mutations : started[m] <= syncClock'
        BY <3>2, <3>3 DEF PushInv, PushTypes
      <3> QED BY <3>2, <3>3, <3>5, <3>6, <3>7 DEF PushInv, PushTypes
    <2> QED BY <2>1, <2>2
  <1> USE DEF PushInv
  <1>2. ASSUME NEW m \in Mutations, edits[m] # Pushes!NoEdit
        PROVE  /\ edits'[m] = edits[m] /\ (Settled(m) => Settled(m)')
               /\ \A f : SeenOn(m, f) => SeenOn(m, f)'
    <2>1. edits'[m] = edits[m] /\ queue'[m] = queue[m] /\ queue[m] \in Nat /\ queue'[m] >= queue[m]
      BY <1>1, <1>2 DEF PushTypes
    <2> QED BY <1>1, <2>1, SettledStays
  <1>3. \A m \in answered' : edits'[m] # Pushes!NoEdit /\ started'[m] > 0 /\ Settled(m)'
    BY <1>1, <1>2 DEF PushTypes
  <1>4. ASSUME NEW p \in Pushers, NEW m \in Elems(push'[p].batch)
        PROVE  edits'[m] # Pushes!NoEdit /\ started'[m] > 0 /\ m \notin answered'
    <2>1. m \in Elems(push[p].batch)
      BY <1>1, <1>4
    <2>2. m \in Mutations
      BY <2>1 DEF PushTypes, Elems
    <2> QED BY <1>1, <1>2, <2>1, <2>2
  <1>5. ASSUME NEW p \in Pushers, push[p].pc \in {"check", "record"} PROVE Going(p)'
    <2>1. Going(p)
      BY <1>5
    <2>2. \A m \in Elems(push[p].batch) : m \in Mutations /\ edits[m] # Pushes!NoEdit
      BY DEF PushTypes, Elems
    <2>3. PICK h : h = Head(push[p].todo)
      OBVIOUS
    <2>4. h \in Elems(push[p].batch)
      <3>1. push[p].todo \in Seq(Mutations) /\ push[p].todo # <<>> /\ Elems(push[p].todo) \subseteq Elems(push[p].batch)
        BY <2>1 DEF Going, PushTypes
      <3> QED BY <3>1, <2>3, HeadAndTail
    <2>5. \A m \in Elems(push[p].batch) : /\ edits'[m] = edits[m] /\ (Settled(m) => Settled(m)')
                                           /\ \A f : SeenOn(m, f) => SeenOn(m, f)'
      BY <1>2, <2>2
    <2> QED BY <1>1, <2>1, <2>3, <2>4, <2>5 DEF Going
  <1> QED BY <1>1, <1>3, <1>4, <1>5

\* A request begins: nothing of the batch is behind it, nothing is checked.
LEMMA SendKeeps ==
  ASSUME PushInv, NEW p \in Pushers, NEW batch \in Seq(Mutations), batch # <<>>,
         Pushes!Advance, Pushes!Send(p, batch),
         UNCHANGED <<edits, events, queue, conflicts, answered>>,
         \A m \in Elems(batch) : edits[m] # Pushes!NoEdit /\ m \notin answered
                                 /\ \A q \in Pushers \ {p} : m \notin Elems(push[q].batch)
  PROVE  PushInv'
  <1>1. /\ syncClock' = syncClock + 1 /\ syncClock \in Nat /\ syncClock' \in Nat /\ syncClock' > syncClock
        /\ syncClock' > 0
    BY DEF Pushes!Advance, PushInv, PushTypes
  <1>2. PICK h : h = Head(batch)
    OBVIOUS
  <1>3. h \in Elems(batch) /\ h \in Mutations /\ Elems(batch) \subseteq Mutations
    BY <1>2, HeadAndTail
  <1>4. PICK F : F = edits[h].fields
    OBVIOUS
  <1>5. F \in SUBSET Fields
    BY <1>3, <1>4 DEF PushInv, PushTypes
  <1> DEFINE r == [Pushes!NoPush EXCEPT !.pc = "check", !.batch = batch, !.todo = batch, !.fields = F]
  <1>6. /\ r \in [pc : {"idle", "check", "record", "failed"}, batch : Seq(Mutations),
                 todo : Seq(Mutations), fields : SUBSET Fields, clash : BOOLEAN]
        /\ r.pc = "check" /\ r.batch = batch /\ r.todo = batch /\ r.fields = F /\ r.clash = FALSE
    BY <1>5 DEF Pushes!NoPush
  <1>a. push' = [push EXCEPT ![p] = r]
    BY <1>2, <1>4 DEF Pushes!Send
  <1> HIDE DEF r
  <1>7. /\ push' \in [Pushers -> [pc : {"idle", "check", "record", "failed"}, batch : Seq(Mutations),
                                  todo : Seq(Mutations), fields : SUBSET Fields, clash : BOOLEAN]]
        /\ push'[p].pc = "check" /\ push'[p].batch = batch /\ push'[p].todo = batch
        /\ push'[p].fields = F /\ push'[p].clash = FALSE
        /\ \A q \in Pushers \ {p} : push'[q] = push[q]
    BY <1>6, <1>a DEF PushInv, PushTypes
  <1>8. started' = [m \in Mutations |-> IF m \in Elems(batch) THEN syncClock' ELSE started[m]]
    BY PushNamesHold DEF PushNames, Pushes!Send
  <1>9. PushTypes'
    BY <1>1, <1>7, <1>8 DEF PushInv, PushTypes
  <1>10. \A m \in Mutations : /\ started'[m] <= syncClock' /\ (m \in Elems(batch) => started'[m] > 0)
                              /\ (m \notin Elems(batch) => started'[m] = started[m])
    BY <1>1, <1>8 DEF PushInv, PushTypes
  <1>11. Going(p)'
    <2>1. push'[p].todo = push'[p].batch /\ edits' = edits
      BY <1>7
    <2>2. Elems(push'[p].batch) \ Elems(push'[p].todo) = {}
      BY <2>1
    <2>3. edits'[Head(push'[p].todo)].fields \ push'[p].fields = {}
      BY <1>2, <1>4, <1>7
    <2> QED BY <1>2, <1>4, <1>7, <2>1, <2>2, <2>3 DEF Going
  <1>12. \A e \in events' : e \in events /\ e.ts \in Nat /\ e.ts <= syncClock'
    BY <1>1 DEF PushInv
  <1>13. \A m \in Mutations : queue'[m] >= queue[m]
    BY DEF PushInv, PushTypes
  <1>14. \A m \in Elems(push'[p].batch) :
           /\ edits[m] # Pushes!NoEdit /\ started'[m] > 0 /\ m \notin answered'
           /\ \A q \in Pushers \ {p} : m \notin Elems(push[q].batch)
    BY <1>3, <1>7, <1>10
  <1> QED BY <1>7, <1>9, <1>10, <1>11, <1>12, <1>13, <1>14, OnePusher

\* A batch is sent, or sent again.
LEMMA PushSends ==
  ASSUME PushInv, NEW p \in Pushers,
         (\E batch \in Pushes!Batches : Pushes!Push(p, batch)) \/ Pushes!Retry(p)
  PROVE  PushInv'
  <1>1. CASE \E batch \in Pushes!Batches : Pushes!Push(p, batch)
    <2>1. PICK batch \in Pushes!Batches : Pushes!Push(p, batch)
      BY <1>1
    <2>2. batch \in Seq(Mutations) /\ batch # <<>>
      <3>1. PICK n \in 1 .. 2 : batch \in [1 .. n -> Mutations]
        BY <2>1 DEF Pushes!Batches
      <3>2. batch \in Seq(Mutations) /\ Len(batch) = n
        BY <3>1
      <3> QED BY <3>2
    <2>3. \A m \in Elems(batch) : edits[m] # Pushes!NoEdit /\ started[m] = 0
      BY <2>1, PushNamesHold DEF PushNames, Pushes!Push
    <2>4. \A m \in Elems(batch) : m \notin answered /\ \A q \in Pushers : m \notin Elems(push[q].batch)
      BY <2>3 DEF PushInv
    <2> QED BY <2>1, <2>2, <2>3, <2>4, SendKeeps DEF Pushes!Push, Pushes!store
  <1>2. CASE Pushes!Retry(p)
    <2>1. PICK batch : batch = push[p].batch
      OBVIOUS
    <2>2. batch \in Seq(Mutations) /\ batch # <<>>
      BY <1>2, <2>1 DEF PushInv, PushTypes, Pushes!Retry
    <2>3. \A m \in Elems(batch) : edits[m] # Pushes!NoEdit /\ m \notin answered
                                  /\ \A q \in Pushers \ {p} : m \notin Elems(push[q].batch)
      BY <2>1 DEF PushInv
    <2> QED BY <1>2, <2>1, <2>2, <2>3, SendKeeps DEF Pushes!Retry, Pushes!store
  <1> QED BY <1>1, <1>2

PushRecord == [pc : {"idle", "check", "record", "failed"}, batch : Seq(Mutations),
               todo : Seq(Mutations), fields : SUBSET Fields, clash : BOOLEAN]

\* The mutation at hand of a request.
LEMMA AtHand ==
  ASSUME PushInv, NEW p \in Pushers, push[p].pc \in {"check", "record"},
         NEW h, h = Head(push[p].todo)
  PROVE  /\ Going(p) /\ push[p] \in PushRecord /\ h \in Mutations
         /\ h \in Elems(push[p].batch) /\ Elems(push[p].batch) \subseteq Mutations
         /\ Tail(push[p].todo) \in Seq(Mutations)
         /\ Elems(push[p].todo) = {h} \cup Elems(Tail(push[p].todo))
  <1>1. Going(p) /\ push[p] \in PushRecord
    BY DEF PushInv, PushTypes, PushRecord
  <1>2. push[p].todo \in Seq(Mutations) /\ push[p].todo # <<>> /\ push[p].batch \in Seq(Mutations)
        /\ Elems(push[p].todo) \subseteq Elems(push[p].batch)
    BY <1>1 DEF Going, PushRecord
  <1>3. Elems(push[p].batch) \subseteq Mutations
    BY <1>2 DEF Elems
  <1> QED BY <1>1, <1>2, <1>3, HeadAndTail

\* A client's own step that sends nothing and answers nothing.
LEMMA RequestStep ==
  ASSUME PushInv, NEW p \in Pushers, NEW r \in PushRecord,
         push' = [push EXCEPT ![p] = r], r.batch = push[p].batch, r.batch # <<>>,
         queue' \in [Mutations -> Nat], \A m \in Mutations : queue'[m] >= queue[m],
         DOMAIN conflicts \subseteq DOMAIN conflicts',
         UNCHANGED <<syncClock, edits, events, started, answered>>,
         r.pc \in {"check", "record"} => Going(p)'
  PROVE  PushInv'
  <1>1. PushTypes' /\ push'[p] = r /\ \A q \in Pushers \ {p} : push'[q] = push[q]
    BY DEF PushInv, PushTypes, PushRecord
  <1>2. \A m \in Elems(push'[p].batch) :
           /\ edits[m] # Pushes!NoEdit /\ started'[m] > 0 /\ m \notin answered'
           /\ \A q \in Pushers \ {p} : m \notin Elems(push[q].batch)
    BY <1>1 DEF PushInv
  <1>3. \A e \in events' : e \in events /\ e.ts \in Nat /\ e.ts <= syncClock'
    BY DEF PushInv
  <1>4. \A m \in Mutations : started'[m] <= syncClock' /\ started'[m] = started[m]
    BY DEF PushInv
  <1> QED BY <1>1, <1>2, <1>3, <1>4, OnePusher

\* A request that fails leaves its batch to be sent again.
LEMMA FailureKeeps == ASSUME PushInv, NEW p \in Pushers, Pushes!PushFails(p) PROVE PushInv'
  <1> DEFINE r == [push[p] EXCEPT !.pc = "failed"]
  <1>1. /\ push[p].pc \in {"check", "record"} /\ push' = [push EXCEPT ![p] = r]
        /\ UNCHANGED <<syncClock, edits, events, queue, conflicts, started, answered>>
    BY DEF Pushes!PushFails, Pushes!store, PushInv, PushTypes
  <1>2. push[p] \in PushRecord /\ push[p].batch # <<>>
    BY <1>1, AtHand DEF Going
  <1>3. r \in PushRecord /\ r.pc = "failed" /\ r.batch = push[p].batch
    BY <1>2 DEF PushRecord
  <1>4. queue' \in [Mutations -> Nat] /\ \A m \in Mutations : queue'[m] >= queue[m]
    BY <1>1 DEF PushInv, PushTypes
  <1> HIDE DEF r
  <1> QED BY <1>1, <1>2, <1>3, <1>4, RequestStep

\* A field is checked: an event after the edit opens a conflict.
LEMMA CheckKeeps ==
  ASSUME PushInv, NEW p \in Pushers, NEW f \in Fields, Pushes!CheckField(p, f)
  PROVE  PushInv'
  <1>1. PICK h : h = Head(push[p].todo)
    OBVIOUS
  <1> DEFINE found == Pushes!Detected(h, f)
             r == [push[p] EXCEPT !.fields = @ \ {f}, !.clash = @ \/ found]
  <1>2. push[p].pc = "check" /\ f \in push[p].fields
    BY DEF Pushes!CheckField
  <1>3. /\ Going(p) /\ push[p] \in PushRecord /\ h \in Mutations /\ h \in Elems(push[p].batch)
        /\ Elems(push[p].batch) \subseteq Mutations
    BY <1>1, <1>2, AtHand
  <1>4. /\ push' = [push EXCEPT ![p] = r]
        /\ conflicts' = IF found THEN Pushes!Opened(<<h, f>>) ELSE conflicts
        /\ UNCHANGED <<syncClock, edits, events, queue, started, answered>>
    BY <1>1 DEF Pushes!CheckField, Pushes!history, PushInv, PushTypes
  <1>5. PICK b \in BOOLEAN : b = found
    BY DEF Pushes!Detected
  <1>6. /\ r \in PushRecord /\ r.pc = "check" /\ r.batch = push[p].batch /\ r.todo = push[p].todo
        /\ r.fields = push[p].fields \ {f} /\ r.clash = (push[p].clash \/ b)
    BY <1>2, <1>3, <1>5 DEF PushRecord
  <1>7. DOMAIN conflicts' = DOMAIN conflicts \cup (IF b THEN {<<h, f>>} ELSE {})
    BY <1>4, <1>5 DEF Pushes!Opened
  <1>8. b <=> \E e \in events : e.field = f /\ e.ts > edits[h].ts
    BY <1>5 DEF Pushes!Detected
  <1>9. push'[p] = r
    BY <1>4 DEF PushInv, PushTypes
  <1> HIDE DEF r, found
  <1>10. Going(p)'
    <2>1. SeenOn(h, f)'
      <3>1. \A e \in events : e.ts \in Nat /\ edits[h].ts \in Nat
        BY <1>3 DEF PushInv, PushTypes
      <3> QED BY <1>4, <1>7, <1>8, <3>1 DEF SeenOn
    <2>2. \A m \in Mutations : (Settled(m) => Settled(m)') /\ \A g : SeenOn(m, g) => SeenOn(m, g)'
      BY <1>4, <1>7 DEF Settled, Accounted, SeenOn
    <2>3. \A g \in edits[h].fields \ r.fields : SeenOn(h, g)'
      BY <1>1, <1>3, <1>6, <2>1, <2>2 DEF Going
    <2>4. r.clash => \E g \in edits[h].fields : <<h, g>> \in DOMAIN conflicts'
      BY <1>1, <1>2, <1>3, <1>6, <1>7 DEF Going, PushRecord
    <2>5. \A k \in Elems(r.batch) \ Elems(r.todo) : Settled(k)'
      BY <1>3, <1>6, <2>2 DEF Going
    <2>6. r.fields \subseteq edits[h].fields
      BY <1>1, <1>3, <1>6 DEF Going
    <2> QED BY <1>1, <1>3, <1>4, <1>6, <1>9, <2>3, <2>4, <2>5, <2>6 DEF Going
  <1>11. queue' \in [Mutations -> Nat] /\ \A m \in Mutations : queue'[m] >= queue[m]
    BY <1>4 DEF PushInv, PushTypes
  <1> QED BY <1>3, <1>4, <1>6, <1>7, <1>10, <1>11, RequestStep DEF Going

\* A mutation without a conflict is queued.
LEMMA EnqueueKeeps ==
  ASSUME PushInv, NEW p \in Pushers, Pushes!Enqueue(p)
  PROVE  PushInv'
  <1>1. PICK h : h = Head(push[p].todo)
    OBVIOUS
  <1> DEFINE r == [push[p] EXCEPT !.pc = "record"]
  <1>2. push[p].pc = "check" /\ push[p].fields = {}
    BY DEF Pushes!Enqueue, Pushes!Checked
  <1>3. /\ Going(p) /\ push[p] \in PushRecord /\ h \in Mutations /\ h \in Elems(push[p].batch)
        /\ Elems(push[p].batch) \subseteq Mutations
    BY <1>1, <1>2, AtHand
  <1>4. /\ push' = [push EXCEPT ![p] = r] /\ queue' = [queue EXCEPT ![h] = @ + 1]
        /\ UNCHANGED <<syncClock, edits, events, conflicts, started, answered>>
    BY <1>1 DEF Pushes!Enqueue, PushInv, PushTypes
  <1>5. /\ r \in PushRecord /\ r.pc = "record" /\ r.batch = push[p].batch /\ r.todo = push[p].todo
        /\ r.fields = {} /\ r.clash = push[p].clash
    BY <1>2, <1>3 DEF PushRecord
  <1>6. /\ queue' \in [Mutations -> Nat] /\ queue'[h] > 0
        /\ \A m \in Mutations : queue'[m] >= queue[m]
    BY <1>3, <1>4 DEF PushInv, PushTypes
  <1>7. push'[p] = r
    BY <1>4 DEF PushInv, PushTypes
  <1> HIDE DEF r
  <1>8. \A m \in Mutations : (Settled(m) => Settled(m)') /\ \A g : SeenOn(m, g) => SeenOn(m, g)'
    <2> TAKE m \in Mutations
    <2>1. queue[m] \in Nat /\ queue'[m] \in Nat /\ queue'[m] >= queue[m]
      BY <1>6 DEF PushInv, PushTypes
    <2> QED BY <1>4, <2>1 DEF Settled, Accounted, SeenOn
  <1>9. Going(p)'
    <2>1. \A g \in edits[h].fields : SeenOn(h, g)'
      BY <1>1, <1>2, <1>3, <1>8 DEF Going
    <2>2. \A k \in Elems(r.batch) \ Elems(r.todo) : Settled(k)'
      BY <1>3, <1>5, <1>8 DEF Going
    <2> QED BY <1>1, <1>3, <1>4, <1>5, <1>6, <1>7, <2>1, <2>2 DEF Going
  <1> QED BY <1>3, <1>4, <1>5, <1>6, <1>9, RequestStep DEF Going

\* The mutation at hand is settled: the batch goes on, or is answered.
LEMMA FollowingKeeps ==
  ASSUME PushInv, NEW p \in Pushers, Pushes!Following(p), push[p].pc \in {"check", "record"},
         UNCHANGED <<edits, queue, conflicts, started>>,
         syncClock' \in Nat, syncClock' >= syncClock,
         \A e \in events' : e \in events \/ (e.ts \in Nat /\ e.ts > syncClock /\ e.ts <= syncClock'),
         Settled(Head(push[p].todo))
  PROVE  PushInv'
  <1>1. PICK h : h = Head(push[p].todo)
    OBVIOUS
  <1>2. PICK rest : rest = Tail(push[p].todo)
    OBVIOUS
  <1>3. /\ Going(p) /\ push[p] \in PushRecord /\ h \in Elems(push[p].batch)
        /\ Elems(push[p].batch) \subseteq Mutations /\ rest \in Seq(Mutations)
        /\ Elems(push[p].todo) = {h} \cup Elems(rest)
    BY <1>1, <1>2, AtHand
  <1>4. syncClock \in Nat /\ \A m \in Mutations : /\ started[m] <= syncClock /\ started[m] <= syncClock'
                                                  /\ queue[m] \in Nat /\ queue[m] >= queue[m]
    BY DEF PushInv, PushTypes
  <1>5. \A m \in Mutations : Settled(m) => Settled(m)'
    BY <1>4, SettledStays DEF PushInv
  <1>6. \A m \in Elems(push[p].batch) \ Elems(rest) : Settled(m) /\ Settled(m)'
    <2>1. \A m \in Elems(push[p].batch) \ Elems(rest) : Settled(m)
      BY <1>1, <1>3 DEF Going
    <2> QED BY <2>1, <1>3, <1>5
  <1>7. \A e \in events' : e.ts \in Nat /\ e.ts <= syncClock'
    BY <1>4 DEF PushInv
  <1>8. CASE rest = <<>>
    <2>1. /\ push' = [push EXCEPT ![p] = Pushes!NoPush]
          /\ answered' = answered \cup Elems(push[p].batch)
      BY <1>2, <1>8, PushNamesHold DEF Pushes!Following, PushNames
    <2>2. /\ Pushes!NoPush \in PushRecord /\ Pushes!NoPush.pc = "idle"
          /\ Elems(Pushes!NoPush.batch) = {}
      <3>1. <<>> \in Seq(Mutations) /\ Elems(<<>>) = {}
        BY DEF Elems
      <3> QED BY <3>1 DEF Pushes!NoPush, PushRecord
    <2>3. /\ push'[p] = Pushes!NoPush /\ \A q \in Pushers \ {p} : push'[q] = push[q]
          /\ PushTypes'
      BY <1>3, <2>1, <2>2 DEF PushInv, PushTypes, PushRecord
    <2>4. Elems(rest) = {}
      BY <1>8 DEF Elems
    <2>5. \A m \in answered' \ answered : m \in Elems(push[p].batch) /\ Settled(m)'
      BY <1>6, <2>1, <2>4
    <2> QED BY <1>4, <1>7, <2>1, <2>2, <2>3, <2>5, OnePusher
  <1>9. CASE rest # <<>>
    <2>1. PICK g : g = Head(rest)
      OBVIOUS
    <2>2. PICK F : F = edits[g].fields
      OBVIOUS
    <2>3. g \in Mutations /\ g \in Elems(rest) /\ F \in SUBSET Fields
      <3>1. g \in Mutations /\ g \in Elems(rest)
        BY <1>3, <1>9, <2>1, HeadAndTail
      <3> QED BY <3>1, <2>2 DEF PushInv, PushTypes
    <2> DEFINE r == [push[p] EXCEPT !.pc = "check", !.todo = rest, !.clash = FALSE, !.fields = F]
    <2>4. push' = [push EXCEPT ![p] = r] /\ answered' = answered
      BY <1>2, <1>9, <2>1, <2>2 DEF Pushes!Following, PushInv, PushTypes
    <2>5. /\ r \in PushRecord /\ r.pc = "check" /\ r.batch = push[p].batch /\ r.todo = rest
          /\ r.clash = FALSE /\ r.fields = F
      BY <1>3, <2>3 DEF PushRecord
    <2> HIDE DEF r
    <2>6. /\ push'[p] = r /\ \A q \in Pushers \ {p} : push'[q] = push[q]
          /\ PushTypes'
      BY <2>4, <2>5 DEF PushInv, PushTypes, PushRecord
    <2>7. Going(p)'
      <3>1. edits'[Head(push'[p].todo)].fields \ push'[p].fields = {}
        BY <2>1, <2>2, <2>5, <2>6
      <3>2. Elems(push'[p].todo) \subseteq Elems(push'[p].batch)
        BY <1>3, <2>5, <2>6 DEF Going
      <3>3. push'[p].batch # <<>>
        BY <1>3, <2>5, <2>6 DEF Going
      <3> QED BY <1>6, <1>9, <2>1, <2>2, <2>5, <2>6, <3>1, <3>2, <3>3 DEF Going
    <2>8. \A m \in Elems(push'[p].batch) :
             /\ edits[m] # Pushes!NoEdit /\ started'[m] > 0 /\ m \notin answered'
             /\ \A q \in Pushers \ {p} : m \notin Elems(push[q].batch)
      BY <2>4, <2>5, <2>6 DEF PushInv
    <2> QED BY <1>4, <1>7, <2>4, <2>5, <2>6, <2>7, <2>8, OnePusher
  <1> QED BY <1>8, <1>9

\* A mutation with a conflict is left behind ...
LEMMA SkipKeeps == ASSUME PushInv, NEW p \in Pushers, Pushes!SkipConflicting(p) PROVE PushInv'
  <1>1. PICK h : h = Head(push[p].todo)
    OBVIOUS
  <1>2. /\ push[p].pc = "check" /\ push[p].fields = {} /\ push[p].clash /\ Pushes!Following(p)
        /\ UNCHANGED <<syncClock, edits, events, queue, conflicts, started>>
    BY DEF Pushes!SkipConflicting, Pushes!Checked, Pushes!store
  <1>3. Settled(h)
    <2>1. Going(p)
      BY <1>2, AtHand
    <2>2. \E f \in edits[h].fields : <<h, f>> \in DOMAIN conflicts
      BY <1>1, <1>2, <2>1 DEF Going
    <2>3. \A f \in edits[h].fields : SeenOn(h, f)
      BY <1>1, <1>2, <2>1 DEF Going
    <2> QED BY <2>2, <2>3 DEF Settled, Accounted
  <1>4. syncClock' \in Nat /\ syncClock' >= syncClock
    BY <1>2 DEF PushInv, PushTypes
  <1> QED BY <1>1, <1>2, <1>3, <1>4, FollowingKeeps

\* ... and so is one that is queued and recorded.
LEMMA RecordKeeps == ASSUME PushInv, NEW p \in Pushers, Pushes!Record(p) PROVE PushInv'
  <1>1. PICK h : h = Head(push[p].todo)
    OBVIOUS
  <1>2. /\ push[p].pc = "record" /\ Pushes!Following(p) /\ syncClock' = syncClock + 1
        /\ events' = events \cup {[field |-> "NULL", ts |-> syncClock + 1]}
        /\ UNCHANGED <<edits, queue, conflicts, started>>
    BY DEF Pushes!Record, Pushes!Advance
  <1>3. Settled(h)
    <2>1. Going(p)
      BY <1>2, AtHand
    <2>2. push[p].fields = {} /\ queue[h] > 0
      BY <1>1, <1>2, <2>1 DEF Going
    <2>3. \A f \in edits[h].fields : SeenOn(h, f)
      BY <1>1, <2>1, <2>2 DEF Going
    <2> QED BY <2>2, <2>3 DEF Settled, Accounted
  <1>4. syncClock' \in Nat /\ syncClock' > syncClock /\ syncClock' >= syncClock
    BY <1>2 DEF PushInv, PushTypes
  <1>5. \A e \in events' : e \in events \/ e.ts = syncClock'
    BY <1>2
  <1>6. \A e \in events' : e \in events \/ (e.ts \in Nat /\ e.ts > syncClock /\ e.ts <= syncClock')
    BY <1>4, <1>5
  <1> QED BY <1>1, <1>2, <1>3, <1>4, <1>6, FollowingKeeps

\* Every step keeps the invariant of the clients.
LEMMA PushNext ==
  ASSUME PushInv, part = "pushes", [AllNext]_allVars
  PROVE  PushInv'
  <1>1. [Pushes!Next]_syncData
    BY PartStep
  <1>2. CASE UNCHANGED syncData
    <2>1. UNCHANGED <<syncClock, edits, events, queue, conflicts, push, started, answered>>
      BY <1>2 DEF syncData
    <2>2. \A m : Settled(m)' <=> Settled(m)
      BY <2>1 DEF Settled, Accounted, SeenOn
    <2>3. \A p : Going(p)' <=> Going(p)
      BY <2>1, <2>2, ZenonT(40) DEF Going, SeenOn
    <2> QED BY <2>1, <2>2, <2>3 DEF PushInv, PushTypes
  <1>3. CASE Pushes!Next
    BY <1>3, PushEdits, PushSends, FailureKeeps, CheckKeeps, SkipKeeps, EnqueueKeeps, RecordKeeps
       DEF Pushes!Next
  <1> QED BY <1>1, <1>2, <1>3

Distinct(s) == \A i, j \in DOMAIN s : s[i] = s[j] => i = j

\* A sequence without repetitions does not have its head again.
LEMMA HeadIsOnce ==
  ASSUME NEW S, NEW s \in Seq(S), s # <<>>, Distinct(s)
  PROVE  Head(s) \notin Elems(Tail(s)) /\ Distinct(Tail(s))
  <1>1. Len(s) \in Nat /\ Len(s) > 0 /\ DOMAIN s = 1 .. Len(s) /\ Head(s) = s[1] /\ 1 \in DOMAIN s
    OBVIOUS
  <1>2. /\ DOMAIN Tail(s) = 1 .. Len(s) - 1
        /\ \A i \in 1 .. Len(s) - 1 : Tail(s)[i] = s[i + 1] /\ i + 1 \in DOMAIN s /\ i + 1 # 1
    BY <1>1
  <1>3. Head(s) \notin Elems(Tail(s))
    BY <1>1, <1>2 DEF Elems, Distinct
  <1>4. ASSUME NEW i \in DOMAIN Tail(s), NEW j \in DOMAIN Tail(s), Tail(s)[i] = Tail(s)[j]
        PROVE  i = j
    <2>1. i + 1 = j + 1
      BY <1>2, <1>4 DEF Distinct
    <2> QED BY <1>1, <1>2, <2>1
  <1> QED BY <1>3, <1>4 DEF Distinct

-----------------------------------------------------------------------------
ResolveRecord == [pc : {"idle", "check", "record", "failed"}, batch : Seq(Resolved),
                  todo : Seq(Resolved), fields : SUBSET Fields, clash : BOOLEAN]

ResolveTypes ==
  /\ syncClock \in 0 .. ResolveTime
  /\ edits \in [Resolved -> [fields : SUBSET Fields, ts : 0 .. ResolveTime]]
  /\ events \subseteq [field : Fields \cup {"NULL"}, ts : 1 .. ResolveTime]
  /\ queue \in [Resolved -> 0 .. 1] /\ started \in [Resolved -> Nat]
  /\ push \in [Pushers -> ResolveRecord]
  /\ DOMAIN conflicts \subseteq Resolved \X Fields
  /\ \A c \in DOMAIN conflicts : conflicts[c] \in {"local", "remote", "open"}
  /\ DOMAIN reading = {r1} /\ answered \subseteq Resolved /\ retries \in Nat

\* Nothing has been stored for a mutation.
Fresh(m) == queue[m] = 0 /\ \A f \in Fields : <<m, f>> \notin DOMAIN conflicts

\* A request has stored nothing for what it has left of its batch, and opened
\* no conflict for the fields it has left of the mutation at hand.
Ahead(p) ==
  LET m == Head(push[p].todo) IN
  /\ push[p].todo # <<>> /\ Distinct(push[p].todo)
  /\ \A k \in Elems(Tail(push[p].todo)) : Fresh(k)
  /\ push[p].pc = "check" => /\ queue[m] = 0
                             /\ \A f \in push[p].fields : <<m, f>> \notin DOMAIN conflicts

\* No statement fails, so that a batch is sent once; one request resolves.
ResolveInv ==
  /\ ResolveTypes
  /\ \A m \in Resolved : started[m] = 0 => Fresh(m)
  /\ \A p \in Pushers : \A m \in Elems(push[p].todo) : started[m] > 0
  /\ \A p, q \in Pushers : p # q => Elems(push[p].todo) \cap Elems(push[q].todo) = {}
  /\ \A p \in Pushers : push[p].pc # "failed" /\ (push[p].pc \in {"check", "record"} => Ahead(p))
  /\ reading[r1] # <<>> => reading[r1] \in DOMAIN conflicts /\ conflicts[reading[r1]] = "open"

\* The types, spelled out, are those of OfflineSync.
LEMMA ResolveTypesAre == ResolveTypes => Resolves!TypeOK
  <1>1. ASSUME ResolveTypes PROVE Resolves!Range(conflicts) \subseteq {"local", "remote", "open"}
    BY <1>1 DEF ResolveTypes, Resolves!Range
  <1>2. ASSUME ResolveTypes, NEW p \in Pushers PROVE push[p].pc \in {"idle", "check", "record", "failed"}
    BY <1>2 DEF ResolveTypes, ResolveRecord
  <1>3. 0 + 1 = 1
    OBVIOUS
  <1> QED BY <1>1, <1>2, <1>3 DEF ResolveTypes, Resolves!TypeOK, Resolves!Resolution

\* No batch has been sent, no conflict opened.
LEMMA ResolveInit == ASSUME AllInit, part = "resolves" PROVE ResolveInv
  <1>1. Resolves!Init
    BY DEF AllInit
  <1>2. Elems(<<>>) = {} /\ <<>> \in Seq(Resolved) /\ DOMAIN <<>> = {}
    BY DEF Elems
  <1>3. ResolveTime \in Nat
    BY RecordConstants DEF RecordConstants, Resolves!SyncAssumption
  <1>4. ResolveTypes
    <2>1. edits \in [Resolved -> [fields : SUBSET Fields, ts : 0 .. ResolveTime]]
      BY <1>1, <1>3 DEF Resolves!Init, Resolves!NoEdit
    <2>2. push \in [Pushers -> ResolveRecord]
      BY <1>1, <1>2 DEF Resolves!Init, Resolves!NoPush, ResolveRecord
    <2>3. queue \in [Resolved -> 0 .. 1] /\ started \in [Resolved -> Nat] /\ DOMAIN reading = {r1}
      BY <1>1 DEF Resolves!Init
    <2>4. syncClock \in 0 .. ResolveTime
      BY <1>1, <1>3 DEF Resolves!Init
    <2> QED BY <1>1, <1>2, <2>1, <2>2, <2>3, <2>4 DEF Resolves!Init, ResolveTypes
  <1>5. \A p \in Pushers : push[p].todo = <<>> /\ push[p].pc = "idle"
    BY <1>1 DEF Resolves!Init, Resolves!NoPush
  <1>6. \A m \in Resolved : Fresh(m)
    BY <1>1, <1>2 DEF Resolves!Init, Fresh
  <1>7. reading[r1] = <<>>
    BY <1>1 DEF Resolves!Init
  <1> QED BY <1>2, <1>4, <1>5, <1>6, <1>7 DEF ResolveInv

\* A step of one client stores something for the mutation at hand only.
LEMMA OneClient ==
  ASSUME ResolveInv, NEW p \in Pushers, ResolveTypes',
         \A q \in Pushers \ {p} : push'[q] = push[q],
         \A m \in Resolved : started'[m] = 0 => started[m] = 0,
         \A m \in Resolved : started[m] > 0 => started'[m] > 0,
         \A m \in Resolved \ Elems(push[p].todo) :
           /\ queue'[m] = queue[m]
           /\ \A f \in Fields : <<m, f>> \in DOMAIN conflicts' => <<m, f>> \in DOMAIN conflicts,
         \A m \in Elems(push'[p].todo) :
           started'[m] > 0 /\ (m \in Elems(push[p].todo) \/ started[m] = 0),
         push'[p].pc # "failed", push'[p].pc \in {"check", "record"} => Ahead(p)',
         UNCHANGED reading,
         \A c \in DOMAIN conflicts : /\ c \in DOMAIN conflicts'
                                     /\ conflicts[c] = "open" => conflicts'[c] = "open"
  PROVE  ResolveInv'
  <1> USE DEF ResolveInv
  <1>1. ASSUME NEW m \in Resolved, started'[m] = 0 PROVE Fresh(m)'
    <2>1. started[m] = 0 /\ Fresh(m)
      BY <1>1
    <2>2. m \notin Elems(push[p].todo)
      BY <2>1 DEF ResolveTypes
    <2> QED BY <2>1, <2>2 DEF Fresh
  <1>2. ASSUME NEW q \in Pushers PROVE \A m \in Elems(push'[q].todo) : started'[m] > 0
    <2>1. CASE q = p
      BY <2>1
    <2>2. CASE q # p
      BY <2>2 DEF ResolveTypes, ResolveRecord, Elems
    <2> QED BY <2>1, <2>2
  <1>3. ASSUME NEW q \in Pushers, NEW r \in Pushers, q # r
        PROVE  Elems(push'[q].todo) \cap Elems(push'[r].todo) = {}
    <2>1. ASSUME NEW s \in Pushers \ {p} PROVE Elems(push'[s].todo) \cap Elems(push'[p].todo) = {}
      <3>1. push'[s] = push[s] /\ \A m \in Elems(push[s].todo) : started[m] > 0 /\ m \notin Elems(push[p].todo)
        BY <2>1
      <3> QED BY <3>1
    <2>2. CASE q # p /\ r # p
      BY <2>2, <1>3
    <2>3. CASE q = p
      BY <2>1, <2>3, <1>3
    <2>4. CASE r = p
      BY <2>1, <2>4, <1>3
    <2> QED BY <2>2, <2>3, <2>4
  <1>4. ASSUME NEW q \in Pushers
        PROVE  push'[q].pc # "failed" /\ (push'[q].pc \in {"check", "record"} => Ahead(q)')
    <2>1. CASE q = p
      BY <2>1
    <2>2. CASE q # p
      <3>1. push'[q] = push[q]
        BY <2>2
      <3> SUFFICES ASSUME push[q].pc \in {"check", "record"} PROVE Ahead(q)'
        BY <3>1
      <3>2. Ahead(q) /\ push[q].todo \in Seq(Resolved) /\ push[q].todo # <<>> /\ push[q].fields \subseteq Fields
        BY DEF Ahead, ResolveTypes, ResolveRecord
      <3>3. \A k \in Elems(Tail(push[q].todo)) : k \in Resolved /\ k \in Elems(push[q].todo)
        BY <3>2, HeadAndTail
      <3>4. \A k \in Elems(Tail(push[q].todo)) : k \notin Elems(push[p].todo)
        BY <2>2, <3>3
      <3>5. \A k \in Elems(Tail(push[q].todo)) : Fresh(k)'
        BY <3>2, <3>3, <3>4 DEF Ahead, Fresh
      <3>a. Head(push[q].todo) \in Resolved \ Elems(push[p].todo)
        <4>1. Head(push[q].todo) \in Elems(push[q].todo) /\ Head(push[q].todo) \in Resolved
          BY <3>2, HeadAndTail
        <4> QED BY <4>1, <2>2
      <3>6. push[q].pc = "check" =>
              /\ queue'[Head(push[q].todo)] = 0
              /\ \A f \in push[q].fields : <<Head(push[q].todo), f>> \notin DOMAIN conflicts'
        BY <3>2, <3>a DEF Ahead
      <3> QED BY <3>1, <3>2, <3>5, <3>6 DEF Ahead
    <2> QED BY <2>1, <2>2
  <1>5. reading'[r1] # <<>> => reading'[r1] \in DOMAIN conflicts' /\ conflicts'[reading'[r1]] = "open"
    OBVIOUS
  <1> QED BY <1>1, <1>2, <1>3, <1>4, <1>5

\* What a client has at hand.
LEMMA ResolveAtHand ==
  ASSUME ResolveInv, NEW p \in Pushers, push[p].pc \in {"check", "record"},
         NEW h, h = Head(push[p].todo)
  PROVE  /\ Ahead(p) /\ push[p] \in ResolveRecord /\ h \in Resolved
         /\ h \in Elems(push[p].todo) /\ h \notin Elems(Tail(push[p].todo))
         /\ Elems(Tail(push[p].todo)) \subseteq Elems(push[p].todo) /\ Elems(push[p].todo) \subseteq Resolved
         /\ Tail(push[p].todo) \in Seq(Resolved) /\ Distinct(Tail(push[p].todo))
         /\ Elems(push[p].batch) \subseteq Resolved
  <1>1. Ahead(p) /\ push[p] \in ResolveRecord
    BY DEF ResolveInv, ResolveTypes
  <1>2. push[p].todo \in Seq(Resolved) /\ push[p].todo # <<>> /\ Distinct(push[p].todo) /\ push[p].batch \in Seq(Resolved)
    BY <1>1 DEF Ahead, ResolveRecord
  <1>3. Elems(push[p].batch) \subseteq Resolved
    BY <1>2 DEF Elems
  <1> QED BY <1>1, <1>2, <1>3, HeadAndTail, HeadIsOnce

\* Where nothing of the store changes that a mutation depends on.
LEMMA StoreKept ==
  ASSUME ResolveInv, UNCHANGED <<queue, conflicts>>
  PROVE  /\ \A m \in Resolved : /\ queue'[m] = queue[m]
                                /\ \A f \in Fields : <<m, f>> \in DOMAIN conflicts' => <<m, f>> \in DOMAIN conflicts
         /\ \A c \in DOMAIN conflicts : /\ c \in DOMAIN conflicts'
                                        /\ conflicts[c] = "open" => conflicts'[c] = "open"
         /\ \A m : Fresh(m) => Fresh(m)'
  BY DEF Fresh

\* An edit stores nothing.
LEMMA ResolveEdits ==
  ASSUME ResolveInv,
         (\E m \in Resolved, F \in SUBSET Fields : Resolves!EditOffline(m, F))
           \/ \E f \in Fields : Resolves!EditOnServer(f)
  PROVE  ResolveInv'
  <1>1. ResolveTime \in Nat
    BY RecordConstants DEF RecordConstants, Resolves!SyncAssumption
  <1>2. ResolveTypes' /\ UNCHANGED <<queue, conflicts, push, reading, started>>
    <2>1. CASE \E m \in Resolved, F \in SUBSET Fields : Resolves!EditOffline(m, F)
      <3>1. PICK m \in Resolved, F \in SUBSET Fields : Resolves!EditOffline(m, F)
        BY <2>1
      <3>2. /\ edits' = [edits EXCEPT ![m] = [fields |-> F, ts |-> syncClock]]
            /\ UNCHANGED <<syncClock, events, queue, conflicts, push, reading, started, answered, retries>>
        BY <3>1 DEF Resolves!EditOffline, Resolves!store, Resolves!history
      <3>3. edits' \in [Resolved -> [fields : SUBSET Fields, ts : 0 .. ResolveTime]]
        BY <3>2 DEF ResolveInv, ResolveTypes
      <3> QED BY <3>2, <3>3 DEF ResolveInv, ResolveTypes
    <2>2. CASE \E f \in Fields : Resolves!EditOnServer(f)
      <3>1. PICK f \in Fields : Resolves!EditOnServer(f)
        BY <2>2
      <3>2. /\ syncClock < ResolveTime /\ syncClock' = syncClock + 1
            /\ events' = events \cup {[field |-> f, ts |-> syncClock + 1]}
            /\ UNCHANGED <<edits, queue, conflicts, push, reading, started, answered, retries>>
        BY <3>1 DEF Resolves!EditOnServer, Resolves!Advance, Resolves!history
      <3>3. syncClock + 1 \in 1 .. ResolveTime /\ syncClock + 1 \in 0 .. ResolveTime
        BY <1>1, <3>2 DEF ResolveInv, ResolveTypes
      <3>4. events' \subseteq [field : Fields \cup {"NULL"}, ts : 1 .. ResolveTime]
        BY <3>2, <3>3 DEF ResolveInv, ResolveTypes
      <3> QED BY <3>2, <3>3, <3>4 DEF ResolveInv, ResolveTypes
    <2> QED BY <2>1, <2>2
  <1>3. \A p \in Pushers : Ahead(p) => Ahead(p)'
    BY <1>2 DEF Ahead, Fresh
  <1>4. \A m \in Resolved : Fresh(m) => Fresh(m)'
    BY <1>2 DEF Fresh
  <1> QED BY <1>2, <1>3, <1>4 DEF ResolveInv

\* A batch of mutations that were never sent: nothing is stored for them.
LEMMA ResolvePush ==
  ASSUME ResolveInv, NEW p \in Pushers, NEW batch \in Resolves!Batches, Resolves!Push(p, batch)
  PROVE  ResolveInv'
  <1>0. ResolveTime \in Nat
    BY RecordConstants DEF RecordConstants, Resolves!SyncAssumption
  <1>1. batch \in Seq(Resolved) /\ batch # <<>> /\ Distinct(batch)
    <2>1. PICK n \in 1 .. 2 : batch \in [1 .. n -> Resolved]
      BY DEF Resolves!Batches
    <2>2. batch \in Seq(Resolved) /\ Len(batch) = n
      BY <2>1
    <2>3. Distinct(batch)
      BY DEF Resolves!Batches, Resolves!IsInjective, Distinct
    <2> QED BY <2>2, <2>3
  <1>2. \A m \in Elems(batch) : m \in Resolved /\ started[m] = 0 /\ Fresh(m)
    BY <1>1 DEF Resolves!Push, Resolves!Range, Elems, ResolveInv
  <1>3. /\ syncClock' = syncClock + 1 /\ syncClock' \in 0 .. ResolveTime /\ syncClock' \in Nat /\ syncClock' > 0
        /\ UNCHANGED <<edits, events, queue, conflicts, reading, answered, retries>>
    BY <1>0 DEF Resolves!Push, Resolves!Advance, Resolves!store, ResolveInv, ResolveTypes
  <1>4. PICK h : h = Head(batch)
    OBVIOUS
  <1>5. h \in Elems(batch) /\ h \in Resolved /\ \A m \in Elems(Tail(batch)) : m \in Elems(batch)
    BY <1>1, <1>4, HeadAndTail
  <1>6. PICK F \in SUBSET Fields : F = edits[h].fields
    BY <1>5 DEF ResolveInv, ResolveTypes
  <1> DEFINE r == [Resolves!NoPush EXCEPT !.pc = "check", !.batch = batch, !.todo = batch, !.fields = F]
  <1>7. r \in ResolveRecord /\ r.pc = "check" /\ r.todo = batch /\ r.fields = F
    BY <1>1 DEF Resolves!NoPush, ResolveRecord
  <1>8. push' = [push EXCEPT ![p] = r]
    BY <1>4, <1>6 DEF Resolves!Push, Resolves!Send
  <1> HIDE DEF r
  <1>9. /\ push' \in [Pushers -> ResolveRecord] /\ push'[p] = r
        /\ \A q \in Pushers \ {p} : push'[q] = push[q]
    BY <1>7, <1>8 DEF ResolveInv, ResolveTypes
  <1>10. started' = [m \in Resolved |-> IF m \in Elems(batch) THEN syncClock' ELSE started[m]]
    BY DEF Resolves!Push, Resolves!Send, Resolves!Range, Elems
  <1>11. /\ started' \in [Resolved -> Nat]
         /\ \A m \in Resolved : started[m] \in Nat /\ (started'[m] = 0 => started[m] = 0)
                                /\ (started[m] > 0 => started'[m] > 0)
         /\ \A m \in Elems(batch) : started'[m] > 0
    BY <1>2, <1>3, <1>10 DEF ResolveInv, ResolveTypes
  <1>12. ResolveTypes'
    BY <1>3, <1>9, <1>11 DEF ResolveInv, ResolveTypes
  <1>13. Ahead(p)'
    <2>1. \A k \in Elems(batch) : Fresh(k)'
      BY <1>2, <1>3, StoreKept
    <2>2. queue'[h] = 0 /\ \A f \in F : <<h, f>> \notin DOMAIN conflicts'
      BY <1>5, <2>1 DEF Fresh
    <2> QED BY <1>1, <1>4, <1>5, <1>7, <1>9, <2>1, <2>2 DEF Ahead
  <1> QED BY <1>2, <1>3, <1>7, <1>9, <1>11, <1>12, <1>13, StoreKept, OneClient

\* A field that was not checked has no conflict yet.
LEMMA ResolveCheck ==
  ASSUME ResolveInv, NEW p \in Pushers, NEW f \in Fields, Resolves!CheckField(p, f)
  PROVE  ResolveInv' /\ Resolves!ResolutionIsFinal
  <1>1. PICK h : h = Head(push[p].todo)
    OBVIOUS
  <1> DEFINE found == Resolves!Detected(h, f)
             r == [push[p] EXCEPT !.fields = @ \ {f}, !.clash = @ \/ found]
  <1>2. push[p].pc = "check" /\ f \in push[p].fields
    BY DEF Resolves!CheckField
  <1>3. /\ Ahead(p) /\ push[p] \in ResolveRecord /\ h \in Resolved /\ h \in Elems(push[p].todo)
        /\ Elems(push[p].todo) \subseteq Resolved /\ h \notin Elems(Tail(push[p].todo))
        /\ Elems(Tail(push[p].todo)) \subseteq Elems(push[p].todo)
    BY <1>1, <1>2, ResolveAtHand
  <1>4. /\ push' = [push EXCEPT ![p] = r]
        /\ conflicts' = IF found THEN Resolves!Opened(<<h, f>>) ELSE conflicts
        /\ UNCHANGED <<syncClock, edits, events, queue, reading, started, answered, retries>>
    BY <1>1 DEF Resolves!CheckField, Resolves!history, ResolveInv, ResolveTypes
  <1>5. PICK b \in BOOLEAN : b = found
    BY DEF Resolves!Detected
  <1>6. r \in ResolveRecord /\ r.pc = "check" /\ r.todo = push[p].todo /\ r.fields = push[p].fields \ {f}
    BY <1>2, <1>3, <1>5 DEF ResolveRecord
  <1>7. /\ DOMAIN conflicts' = DOMAIN conflicts \cup (IF b THEN {<<h, f>>} ELSE {})
        /\ \A c \in DOMAIN conflicts' : conflicts'[c] = IF b /\ c = <<h, f>> THEN "open" ELSE conflicts[c]
    BY <1>4, <1>5 DEF Resolves!Opened
  <1>8. <<h, f>> \notin DOMAIN conflicts
    BY <1>1, <1>2, <1>3 DEF Ahead
  <1>9. /\ push'[p] = r /\ \A q \in Pushers \ {p} : push'[q] = push[q]
        /\ push' \in [Pushers -> ResolveRecord]
    BY <1>4, <1>6 DEF ResolveInv, ResolveTypes
  <1> HIDE DEF r, found
  <1>10. ResolveTypes'
    <2>1. <<h, f>> \in Resolved \X Fields
      BY <1>3
    <2>2. DOMAIN conflicts' \subseteq Resolved \X Fields
      BY <1>7, <2>1 DEF ResolveInv, ResolveTypes
    <2>3. \A c \in DOMAIN conflicts' : conflicts'[c] \in {"local", "remote", "open"}
      BY <1>7 DEF ResolveInv, ResolveTypes
    <2> QED BY <1>4, <1>9, <2>2, <2>3 DEF ResolveInv, ResolveTypes
  <1>11. \A m \in Resolved \ {h} : /\ queue'[m] = queue[m]
              /\ \A g \in Fields : <<m, g>> \in DOMAIN conflicts' => <<m, g>> \in DOMAIN conflicts
    BY <1>4, <1>7
  <1>12. Ahead(p)'
    <2>1. \A k \in Elems(Tail(push[p].todo)) : Fresh(k)'
      BY <1>3, <1>11 DEF Ahead, Fresh
    <2>2. queue'[h] = 0 /\ \A g \in push[p].fields \ {f} : <<h, g>> \notin DOMAIN conflicts'
      BY <1>1, <1>2, <1>3, <1>4, <1>7 DEF Ahead
    <2> QED BY <1>1, <1>3, <1>6, <1>9, <2>1, <2>2 DEF Ahead
  <1>13. \A c \in DOMAIN conflicts : c \in DOMAIN conflicts' /\ conflicts'[c] = conflicts[c]
    BY <1>7, <1>8
  <1>14. \A m \in Elems(push'[p].todo) : m \in Elems(push[p].todo) /\ m \in Resolved /\ started'[m] > 0
    BY <1>3, <1>4, <1>6, <1>9 DEF ResolveInv
  <1>15. ResolveInv'
    BY <1>3, <1>4, <1>6, <1>9, <1>10, <1>11, <1>12, <1>13, <1>14, OneClient
  <1> QED BY <1>13, <1>15 DEF Resolves!ResolutionIsFinal

\* The mutation at hand is queued, for the first time.
LEMMA ResolveEnqueue ==
  ASSUME ResolveInv, NEW p \in Pushers, Resolves!Enqueue(p)
  PROVE  ResolveInv'
  <1>1. PICK h : h = Head(push[p].todo)
    OBVIOUS
  <1> DEFINE r == [push[p] EXCEPT !.pc = "record"]
  <1>2. push[p].pc = "check"
    BY DEF Resolves!Enqueue, Resolves!Checked
  <1>3. /\ Ahead(p) /\ push[p] \in ResolveRecord /\ h \in Resolved /\ h \in Elems(push[p].todo)
        /\ Elems(push[p].todo) \subseteq Resolved /\ h \notin Elems(Tail(push[p].todo))
        /\ Elems(Tail(push[p].todo)) \subseteq Elems(push[p].todo)
    BY <1>1, <1>2, ResolveAtHand
  <1>4. /\ push' = [push EXCEPT ![p] = r] /\ queue' = [queue EXCEPT ![h] = @ + 1]
        /\ UNCHANGED <<syncClock, edits, events, conflicts, reading, started, answered, retries>>
    BY <1>1 DEF Resolves!Enqueue, ResolveInv, ResolveTypes
  <1>5. r \in ResolveRecord /\ r.pc = "record" /\ r.todo = push[p].todo
    BY <1>3 DEF ResolveRecord
  <1>6. queue[h] = 0
    BY <1>1, <1>2, <1>3 DEF Ahead
  <1>7. queue' \in [Resolved -> 0 .. 1] /\ \A m \in Resolved \ {h} : queue'[m] = queue[m]
    BY <1>3, <1>4, <1>6 DEF ResolveInv, ResolveTypes
  <1> HIDE DEF r
  <1>8. /\ push'[p] = r /\ \A q \in Pushers \ {p} : push'[q] = push[q]
        /\ push' \in [Pushers -> ResolveRecord]
    BY <1>4, <1>5 DEF ResolveInv, ResolveTypes
  <1>9. ResolveTypes'
    BY <1>4, <1>7, <1>8 DEF ResolveInv, ResolveTypes
  <1>10. Ahead(p)'
    <2>1. \A k \in Elems(Tail(push[p].todo)) : Fresh(k)'
      BY <1>3, <1>4, <1>7 DEF Ahead, Fresh
    <2> QED BY <1>3, <1>5, <1>8, <2>1 DEF Ahead
  <1>11. \A m \in Elems(push'[p].todo) : m \in Elems(push[p].todo) /\ m \in Resolved /\ started'[m] > 0
    BY <1>3, <1>4, <1>5, <1>8 DEF ResolveInv
  <1> QED BY <1>3, <1>4, <1>5, <1>7, <1>8, <1>9, <1>10, <1>11, OneClient

\* The batch goes on with a mutation nothing is stored for.
LEMMA ResolveFollowing ==
  ASSUME ResolveInv, NEW p \in Pushers, Resolves!Following(p), push[p].pc \in {"check", "record"},
         UNCHANGED <<edits, queue, conflicts, reading, started, retries>>,
         syncClock' \in 0 .. ResolveTime,
         events' \subseteq [field : Fields \cup {"NULL"}, ts : 1 .. ResolveTime]
  PROVE  ResolveInv'
  <1>1. PICK h : h = Head(push[p].todo)
    OBVIOUS
  <1>2. PICK rest : rest = Tail(push[p].todo)
    OBVIOUS
  <1>3. /\ Ahead(p) /\ push[p] \in ResolveRecord /\ rest \in Seq(Resolved) /\ Distinct(rest)
        /\ Elems(rest) \subseteq Elems(push[p].todo) /\ Elems(push[p].batch) \subseteq Resolved
        /\ Elems(push[p].todo) \subseteq Resolved
    BY <1>1, <1>2, ResolveAtHand
  <1>4. \A m \in Elems(rest) : Fresh(m)
    BY <1>2, <1>3 DEF Ahead
  <1>5. CASE rest = <<>>
    <2>1. push' = [push EXCEPT ![p] = Resolves!NoPush]
      BY <1>2, <1>5 DEF Resolves!Following
    <2>2. answered' \subseteq Resolved
      BY <1>2, <1>3, <1>5 DEF Resolves!Following, Resolves!Range, Elems, ResolveInv, ResolveTypes
    <2>3. /\ Resolves!NoPush \in ResolveRecord /\ Resolves!NoPush.pc = "idle"
          /\ Elems(Resolves!NoPush.todo) = {}
      <3>1. <<>> \in Seq(Resolved) /\ Elems(<<>>) = {}
        BY DEF Elems
      <3> QED BY <3>1 DEF Resolves!NoPush, ResolveRecord
    <2>4. /\ push'[p] = Resolves!NoPush /\ \A q \in Pushers \ {p} : push'[q] = push[q]
          /\ ResolveTypes'
      BY <2>1, <2>2, <2>3 DEF ResolveInv, ResolveTypes
    <2> QED BY <2>3, <2>4, StoreKept, OneClient
  <1>6. CASE rest # <<>>
    <2>1. PICK g : g = Head(rest)
      OBVIOUS
    <2>2. g \in Elems(rest) /\ g \in Resolved /\ Elems(Tail(rest)) \subseteq Elems(rest)
      BY <1>3, <1>6, <2>1, HeadAndTail
    <2>3. PICK F \in SUBSET Fields : F = edits[g].fields
      BY <2>2 DEF ResolveInv, ResolveTypes
    <2> DEFINE r == [push[p] EXCEPT !.pc = "check", !.todo = rest, !.clash = FALSE, !.fields = F]
    <2>4. push' = [push EXCEPT ![p] = r] /\ answered' = answered
      BY <1>2, <1>6, <2>1, <2>3 DEF Resolves!Following, ResolveInv, ResolveTypes
    <2>5. r \in ResolveRecord /\ r.pc = "check" /\ r.todo = rest /\ r.fields = F
      BY <1>3, <2>3 DEF ResolveRecord
    <2> HIDE DEF r
    <2>6. /\ push'[p] = r /\ \A q \in Pushers \ {p} : push'[q] = push[q]
          /\ ResolveTypes'
      BY <2>4, <2>5 DEF ResolveInv, ResolveTypes
    <2>7. Ahead(p)'
      <3>1. \A k \in Elems(rest) : Fresh(k)'
        BY <1>4, StoreKept
      <3>2. queue'[g] = 0 /\ \A f \in F : <<g, f>> \notin DOMAIN conflicts'
        BY <2>2, <3>1 DEF Fresh
      <3> QED BY <1>3, <1>6, <2>1, <2>2, <2>5, <2>6, <3>1, <3>2 DEF Ahead
    <2>8. \A m \in Elems(push'[p].todo) : m \in Elems(push[p].todo) /\ m \in Resolved /\ started'[m] > 0
      BY <1>3, <2>5, <2>6 DEF ResolveInv
    <2> QED BY <2>5, <2>6, <2>7, <2>8, StoreKept, OneClient
  <1> QED BY <1>5, <1>6

\* A mutation is left behind, skipped or recorded.
LEMMA ResolveFollows ==
  ASSUME ResolveInv, NEW p \in Pushers, Resolves!SkipConflicting(p) \/ Resolves!Record(p)
  PROVE  ResolveInv' /\ conflicts' = conflicts
  <1>0. ResolveTime \in Nat
    BY RecordConstants DEF RecordConstants, Resolves!SyncAssumption
  <1>1. CASE Resolves!SkipConflicting(p)
    BY <1>1, ResolveFollowing
       DEF Resolves!SkipConflicting, Resolves!Checked, Resolves!store, ResolveInv, ResolveTypes
  <1>2. CASE Resolves!Record(p)
    <2>1. /\ push[p].pc = "record" /\ Resolves!Following(p)
          /\ syncClock < ResolveTime /\ syncClock' = syncClock + 1
          /\ events' = events \cup {[field |-> "NULL", ts |-> syncClock + 1]}
          /\ UNCHANGED <<edits, queue, conflicts, reading, started, retries>>
      BY <1>2 DEF Resolves!Record, Resolves!Advance
    <2>2. syncClock + 1 \in 1 .. ResolveTime /\ syncClock' \in 0 .. ResolveTime
      BY <1>0, <2>1 DEF ResolveInv, ResolveTypes
    <2>3. events' \subseteq [field : Fields \cup {"NULL"}, ts : 1 .. ResolveTime]
      BY <2>1, <2>2 DEF ResolveInv, ResolveTypes
    <2> QED BY <2>1, <2>2, <2>3, ResolveFollowing
  <1> QED BY <1>1, <1>2

\* A request that found a conflict open updates it while it still is.
LEMMA ResolveResolves ==
  ASSUME ResolveInv,
         (\E c \in DOMAIN conflicts : Resolves!ResolveRead(r1, c))
           \/ \E x \in Resolves!Resolution : Resolves!ResolveWrite(r1, x)
  PROVE  ResolveInv' /\ Resolves!ResolutionIsFinal
  <1>1. /\ UNCHANGED <<syncClock, edits, events, queue, push, started, answered, retries>>
        /\ DOMAIN conflicts' = DOMAIN conflicts /\ DOMAIN reading' = {r1}
        /\ \A c \in DOMAIN conflicts : /\ conflicts'[c] \in {"local", "remote", "open"}
                                       /\ conflicts[c] # "open" => conflicts'[c] = conflicts[c]
        /\ reading'[r1] # <<>> => reading'[r1] \in DOMAIN conflicts' /\ conflicts'[reading'[r1]] = "open"
    <2>1. CASE \E c \in DOMAIN conflicts : Resolves!ResolveRead(r1, c)
      BY <2>1 DEF Resolves!ResolveRead, Resolves!store, Resolves!history, ResolveInv, ResolveTypes
    <2>2. CASE \E x \in Resolves!Resolution : Resolves!ResolveWrite(r1, x)
      <3>1. PICK x \in {"local", "remote"} : Resolves!ResolveWrite(r1, x)
        BY <2>2 DEF Resolves!Resolution
      <3>2. PICK c : c = reading[r1]
        OBVIOUS
      <3>3. /\ c \in DOMAIN conflicts /\ conflicts[c] = "open"
            /\ conflicts' = [conflicts EXCEPT ![c] = x] /\ reading' = [reading EXCEPT ![r1] = <<>>]
            /\ UNCHANGED <<syncClock, edits, events, queue, push, started, answered, retries>>
        BY <3>1, <3>2 DEF Resolves!ResolveWrite, Resolves!history, ResolveInv
      <3>4. reading'[r1] = <<>> /\ DOMAIN reading' = {r1}
        BY <3>3 DEF ResolveInv, ResolveTypes
      <3>5. /\ DOMAIN conflicts' = DOMAIN conflicts
            /\ \A k \in DOMAIN conflicts : conflicts'[k] = IF k = c THEN x ELSE conflicts[k]
        BY <3>3
      <3> QED BY <3>3, <3>4, <3>5 DEF ResolveInv, ResolveTypes
    <2> QED BY <2>1, <2>2
  <1>2. ResolveTypes'
    BY <1>1 DEF ResolveInv, ResolveTypes
  <1>3. \A m : Fresh(m)' <=> Fresh(m)
    BY <1>1 DEF Fresh
  <1>4. \A p \in Pushers : Ahead(p)' <=> Ahead(p)
    BY <1>1, <1>3 DEF Ahead
  <1> QED BY <1>1, <1>2, <1>3, <1>4 DEF ResolveInv, Resolves!ResolutionIsFinal

\* Every step keeps the invariant, and no resolution is changed.
LEMMA ResolveNext ==
  ASSUME ResolveInv, part = "resolves", [AllNext]_allVars
  PROVE  ResolveInv' /\ Resolves!ResolutionIsFinal
  <1>1. [Resolves!Next]_syncData
    BY PartStep
  <1>2. CASE UNCHANGED syncData
    <2>1. UNCHANGED <<syncClock, edits, events, queue, conflicts, push, reading, started, answered, retries>>
      BY <1>2 DEF syncData
    <2>2. (\A m : Fresh(m)' <=> Fresh(m)) /\ (\A p : Ahead(p)' <=> Ahead(p))
      BY <2>1 DEF Fresh, Ahead
    <2> QED BY <2>1, <2>2 DEF ResolveInv, ResolveTypes, Resolves!ResolutionIsFinal
  <1>3. CASE \/ \E m \in Resolved, F \in SUBSET Fields : Resolves!EditOffline(m, F)
             \/ \E f \in Fields : Resolves!EditOnServer(f)
    <2>1. conflicts' = conflicts
      BY <1>3 DEF Resolves!EditOffline, Resolves!EditOnServer, Resolves!store
    <2> QED BY <1>3, <2>1, ResolveEdits DEF Resolves!ResolutionIsFinal
  <1>4. ASSUME NEW p \in Pushers, NEW batch \in Resolves!Batches, Resolves!Push(p, batch)
        PROVE  ResolveInv' /\ Resolves!ResolutionIsFinal
    <2>1. conflicts' = conflicts
      BY <1>4 DEF Resolves!Push, Resolves!store
    <2> QED BY <1>4, <2>1, ResolvePush DEF Resolves!ResolutionIsFinal
  <1>5. ASSUME NEW p \in Pushers, Resolves!Retry(p) \/ Resolves!PushFails(p) PROVE FALSE
    BY <1>5 DEF Resolves!Retry, Resolves!PushFails, ResolveInv, ResolveTypes
  <1>6. ASSUME NEW p \in Pushers,
               Resolves!SkipConflicting(p) \/ Resolves!Enqueue(p) \/ Resolves!Record(p)
        PROVE  ResolveInv' /\ Resolves!ResolutionIsFinal
    <2>1. conflicts' = conflicts
      BY <1>6, ResolveFollows DEF Resolves!Enqueue
    <2> QED BY <1>6, <2>1, ResolveFollows, ResolveEnqueue DEF Resolves!ResolutionIsFinal
  <1>7. CASE Resolves!Next
    BY <1>3, <1>4, <1>5, <1>6, <1>7, ResolveCheck, ResolveResolves DEF Resolves!Next
  <1> QED BY <1>1, <1>2, <1>7

-----------------------------------------------------------------------------
(* The modules of a list that are in a set (Within of Pipeline).           *)

IsKept(f, s, S, m) ==
  f = [n \in 0..m |-> IF n = 0 THEN <<>> ELSE IF s[n] \in S THEN Append(f[n - 1], s[n]) ELSE f[n - 1]]

\* There is such a function for the first m of them ...
LEMMA KeptExists ==
  ASSUME NEW s, NEW S
  PROVE  \A m \in Nat : \E f : IsKept(f, s, S, m)
  <1>1. SUFFICES ASSUME NEW T, T = {m \in Nat : ~\E f : IsKept(f, s, S, m)}, T # {} PROVE FALSE
    OBVIOUS
  <1>2. PICK m \in T : \A k \in T : m <= k
    BY <1>1, LeastNat
  <1>3. CASE m = 0
    <2>1. PICK f : f = [n \in 0..0 |-> <<>>]
      OBVIOUS
    <2>2. \A n \in 0..0 : n = 0
      OBVIOUS
    <2>3. IsKept(f, s, S, 0)
      BY <2>1, <2>2 DEF IsKept
    <2> QED BY <1>1, <1>3, <2>3
  <1>4. CASE m # 0
    <2>1. m \in Nat /\ m - 1 \in Nat /\ ~(m <= m - 1)
      BY <1>1, <1>4
    <2>2. m - 1 \notin T
      BY <1>2, <2>1
    <2>3. PICK f : IsKept(f, s, S, m - 1)
      BY <1>1, <2>1, <2>2
    <2>4. PICK x : x = IF s[m] \in S THEN Append(f[m - 1], s[m]) ELSE f[m - 1]
      OBVIOUS
    <2>5. PICK g : g = [n \in 0..m |-> IF n = m THEN x ELSE f[n]]
      OBVIOUS
    <2>6. \A n \in 0..m : n # m => n \in 0..(m - 1) /\ g[n] = f[n] /\ (n # 0 => n - 1 \in 0..m /\ n - 1 # m /\ g[n - 1] = f[n - 1])
      BY <2>1, <2>5
    <2>7. g[m] = x /\ g[m - 1] = f[m - 1]
      BY <2>1, <2>5
    <2>8. \A n \in 0..(m - 1) : f[n] = IF n = 0 THEN <<>> ELSE IF s[n] \in S THEN Append(f[n - 1], s[n]) ELSE f[n - 1]
      BY <2>3 DEF IsKept
    <2>9. ASSUME NEW n \in 0..m
          PROVE  g[n] = IF n = 0 THEN <<>> ELSE IF s[n] \in S THEN Append(g[n - 1], s[n]) ELSE g[n - 1]
      <3>1. CASE n = m
        BY <1>4, <2>4, <2>7, <3>1
      <3>2. CASE n # m
        BY <2>6, <2>8, <3>2
      <3> QED BY <3>1, <3>2
    <2>10. g = [n \in 0..m |-> g[n]]
      BY <2>5
    <2>11. IsKept(g, s, S, m)
      BY <2>9, <2>10 DEF IsKept
    <2> QED BY <1>1, <2>11
  <1> QED BY <1>3, <1>4

\* ... and it keeps those in the set.
LEMMA KeptIs ==
  ASSUME NEW X, NEW s \in Seq(X), NEW S, NEW f, IsKept(f, s, S, Len(s))
  PROVE  f[Len(s)] \in Seq(X \cap S) /\ Elems(f[Len(s)]) = Elems(s) \cap S
  <1> DEFINE Good(n) == f[n] \in Seq(X \cap S) /\ Elems(f[n]) = {s[i] : i \in 1..n} \cap S
  <1>0. Len(s) \in Nat /\ DOMAIN s = 1..Len(s) /\ \A i \in 1..Len(s) : s[i] \in X
    BY LenProperties, ElementOfSeq
  <1>1. \A n \in 0..Len(s) : f[n] = IF n = 0 THEN <<>> ELSE IF s[n] \in S THEN Append(f[n - 1], s[n]) ELSE f[n - 1]
    BY DEF IsKept
  <1>2. Good(0)
    <2>1. f[0] = <<>>
      BY <1>0, <1>1
    <2>2. <<>> \in Seq(X \cap S) /\ DOMAIN <<>> = {} /\ 1..0 = {}
      OBVIOUS
    <2> QED BY <2>1, <2>2 DEF Elems
  <1>3. ASSUME NEW n \in 0..Len(s), n # 0, Good(n - 1) PROVE Good(n)
    <2>1. n \in 1..Len(s) /\ n - 1 \in 0..Len(s) /\ s[n] \in X /\ n \in Nat
      BY <1>0, <1>3
    <2>2. {s[i] : i \in 1..n} = {s[i] : i \in 1..(n - 1)} \cup {s[n]}
      <3>1. \A i : i \in 1..n <=> i \in 1..(n - 1) \/ i = n
        BY <2>1
      <3> QED BY <3>1
    <2>3. CASE s[n] \in S
      <3>1. f[n] = Append(f[n - 1], s[n])
        BY <1>1, <1>3, <2>1, <2>3
      <3>2. s[n] \in X \cap S
        BY <2>1, <2>3
      <3>3. PICK t \in Seq(X \cap S) : t = f[n - 1]
        BY <1>3
      <3>4. PICK x \in X \cap S : x = s[n]
        BY <3>2
      <3>5. /\ Append(t, x) \in Seq(X \cap S) /\ Len(Append(t, x)) = Len(t) + 1 /\ Len(t) \in Nat
            /\ \A i \in 1..Len(t) : Append(t, x)[i] = t[i]
            /\ Append(t, x)[Len(t) + 1] = x
        BY AppendProperties, LenProperties
      <3>6. \A i : i \in 1..(Len(t) + 1) <=> i \in 1..Len(t) \/ i = Len(t) + 1
        BY <3>5
      <3>7. Elems(Append(t, x)) = Elems(t) \cup {x}
        BY <3>5, <3>6 DEF Elems
      <3> QED BY <1>3, <2>2, <2>3, <3>1, <3>3, <3>4, <3>5, <3>7
    <2>4. CASE s[n] \notin S
      BY <1>1, <1>3, <2>1, <2>2, <2>4
    <2> QED BY <2>3, <2>4
  <1>4. \A n \in 0..Len(s) : Good(n)
    <2> HIDE DEF Good
    <2>1. SUFFICES ASSUME NEW T, T = {n \in 0..Len(s) : ~Good(n)}, T # {} PROVE FALSE
      OBVIOUS
    <2>2. T \subseteq Nat
      BY <1>0, <2>1
    <2>3. PICK n \in T : \A k \in T : n <= k
      BY <2>1, <2>2, LeastNat
    <2>4. n # 0
      BY <1>2, <2>1
    <2>5. n - 1 \in 0..Len(s) /\ ~(n <= n - 1)
      BY <1>0, <2>1, <2>4
    <2> QED BY <1>3, <2>1, <2>3, <2>4, <2>5
  <1>5. Good(Len(s))
    <2> HIDE DEF Good
    <2>1. Len(s) \in 0..Len(s)
      BY <1>0
    <2> QED BY <1>4, <2>1
  <1>6. Elems(s) = {s[i] : i \in 1..Len(s)}
    BY <1>0 DEF Elems
  <1> QED BY <1>5, <1>6

\* So the list has those of the other that are in the set.
LEMMA WithinIs ==
  ASSUME NEW X, NEW s \in Seq(X), NEW S
  PROVE  /\ Announced!Within(s, S) \in Seq(X \cap S) /\ Elems(Announced!Within(s, S)) = Elems(s) \cap S
         /\ Failing!Within(s, S) = Announced!Within(s, S)
  <1>1. Len(s) \in Nat
    BY LenProperties
  <1>2. PICK g : IsKept(g, s, S, Len(s))
    BY <1>1, KeptExists
  <1>3. PICK f : f = CHOOSE h : IsKept(h, s, S, Len(s))
    OBVIOUS
  <1>4. IsKept(f, s, S, Len(s))
    BY <1>2, <1>3, Zenon
  <1>5. Announced!Within(s, S) = f[Len(s)] /\ Failing!Within(s, S) = f[Len(s)]
    BY <1>3 DEF IsKept, Announced!Within, Failing!Within
  <1>6. f[Len(s)] \in Seq(X \cap S) /\ Elems(f[Len(s)]) = Elems(s) \cap S
    BY <1>4, KeptIs
  <1> QED BY <1>5, <1>6

-----------------------------------------------------------------------------
(* The pipeline where changes are announced (Pipeline), under one user's    *)
(* requests and regenerations.                                             *)

Four == {"lims", "design_criteria", "mass_balance", "flowsheet"}
Three == {"design_criteria", "mass_balance", "flowsheet"}
Stage == {"idle", "announce", "cascade", "cascade_set", "begin", "read", "write", "next", "start", "finish",
          "error", "invalidate"}
EdgesOf(M) == {e \in M \X M : e[2] \in Announced!DependsOn[e[1]]}
\* A request under way, about modules of M.
RequestOf(M) == [pc : Stage, mod : M \cup {"none"}, rest : Seq(M), plan : Seq(M), run : BOOLEAN, force : BOOLEAN,
                 targets : SUBSET M, was : SUBSET EdgesOf(M)]
TypesOf(M, st, cr, od, si, q) ==
  /\ st \in [M -> Announced!Status] /\ cr \in BOOLEAN
  /\ si \subseteq od /\ od \subseteq EdgesOf(M)
  /\ q \in RequestOf(M)
  /\ q.pc \notin {"idle", "next"} => q.mod \in M
  /\ q.pc = "cascade_set" => q.rest # <<>>

\* What is about to be set complete is up to date, and what is being derived is
\* not complete.
DerivedBefore(st, od, q) ==
  /\ \/ q.pc \in {"announce", "write", "finish"}
     \/ q.run /\ q.pc \in {"cascade", "cascade_set"}
     => \A e \in od : e[1] # q.mod
  /\ q.pc \in {"read", "write", "error"} => st[q.mod] = "generating"
  /\ q.pc = "write" => \A e \in q.was : e[1] = q.mod
  /\ q.pc = "announce" => q.rest = Announced!Downstream(q.mod)
\* A change that was announced has made what it reaches stale, or is about to.
Told(st, q, e) ==
  \/ e[1] \notin Elems(Announced!Downstream(e[2]))
  \/ st[e[1]] # "complete"
  \/ /\ q.pc \in {"announce", "cascade", "cascade_set"} /\ q.mod = e[2]
     /\ e[1] \in Elems(q.rest)
AnnouncedOf(st, cr, od, si, q) ==
  TypesOf(Four, st, cr, od, si, q) /\ DerivedBefore(st, od, q) /\ \A e \in od \ si : Told(st, q, e)
OneRequest == proc \in [{p1} -> {proc[p1]}]
AnnouncedInv == OneRequest /\ AnnouncedOf(modStatus, criteria, outdated, silent, proc[p1])

\* The tables, cut to the four.
Names == {"lims", "blockmodel", "design_criteria", "mass_balance", "flowsheet", "equipment", "simulation", "opex",
          "economics", "risks"}
LEMMA Tables ==
  /\ \A m \in Four : Announced!Downstream(m) \in Seq(Four)
  /\ Announced!GENERATION_ORDER \in Seq(Names)
  /\ Announced!AutoGenerate = Three /\ Announced!Edited = {"lims", "design_criteria"}
  /\ Announced!Endpoint = {"design_criteria", "mass_balance"}
  /\ \A m \in Four : Announced!Made(m) = {m}
  /\ Announced!DependsOn["lims"] = {} /\ \A m \in Four : m \notin Announced!DependsOn[m]
  <1>1. /\ Announced!STALE_CASCADE["lims"] \in Seq(Names) /\ Announced!STALE_CASCADE["design_criteria"] \in Seq(Names)
        /\ Announced!STALE_CASCADE["mass_balance"] \in Seq(Names) /\ Announced!STALE_CASCADE["flowsheet"] \in Seq(Names)
    <2>1. Announced!STALE_CASCADE["lims"] \in Seq(Names)
      BY DEF Announced!STALE_CASCADE, Names
    <2>2. Announced!STALE_CASCADE["design_criteria"] \in Seq(Names)
      BY DEF Announced!STALE_CASCADE, Names
    <2>3. Announced!STALE_CASCADE["mass_balance"] \in Seq(Names)
      BY DEF Announced!STALE_CASCADE, Names
    <2>4. Announced!STALE_CASCADE["flowsheet"] \in Seq(Names)
      BY DEF Announced!STALE_CASCADE, Names
    <2> QED BY <2>1, <2>2, <2>3, <2>4
  <1>2. ASSUME NEW m \in Four PROVE Announced!Downstream(m) \in Seq(Four)
    <2>1. PICK s \in Seq(Names) : s = Announced!STALE_CASCADE[m]
      BY <1>1 DEF Four
    <2>2. Announced!Downstream(m) = Announced!Within(s, Four)
      BY <2>1 DEF Announced!Downstream, Four
    <2>3. Announced!Within(s, Four) \in Seq(Names \cap Four)
      BY WithinIs
    <2>4. Names \cap Four \subseteq Four
      OBVIOUS
    <2> QED BY <2>2, <2>3, <2>4, SeqMonotonic
  <1>3. Announced!GENERATION_ORDER \in Seq(Names)
    BY DEF Announced!GENERATION_ORDER, Names
  <1>4. /\ Announced!AutoGenerate = Three /\ Announced!Edited = {"lims", "design_criteria"}
        /\ Announced!Endpoint = {"design_criteria", "mass_balance"}
    BY DEF Announced!AutoGenerate, Announced!Edited, Announced!Endpoint, Three
  <1>5. \A m \in Four : Announced!Made(m) = {m}
    BY DEF Announced!Made, Four
  <1>6. Announced!DependsOn["lims"] = {} /\ \A m \in Four : m \notin Announced!DependsOn[m]
    BY DEF Announced!DependsOn, Four
  <1> QED BY <1>2, <1>3, <1>4, <1>5, <1>6

\* The request becomes another.
LEMMA AnnouncedBecomes ==
  ASSUME AnnouncedInv, NEW q, proc' = [proc EXCEPT ![p1] = q],
         AnnouncedOf(modStatus', criteria', outdated', silent', q)
  PROVE  AnnouncedInv'
  <1>1. proc'[p1] = q /\ proc' \in [{p1} -> {proc'[p1]}]
    BY DEF AnnouncedInv, OneRequest
  <1> QED BY <1>1 DEF AnnouncedInv, OneRequest

\* It holds when nothing is generated yet.
LEMMA AnnouncedStart ==
  ASSUME AllInit, part = "announced"
  PROVE  AnnouncedInv
  <1>1. Announced!Init
    BY DEF AllInit
  <1>2. /\ modStatus = [m \in Four |-> "pending"] /\ criteria = FALSE /\ outdated = {} /\ silent = {}
        /\ proc = [p \in {p1} |-> Announced!Idle]
    BY <1>1 DEF Announced!Init, Four
  <1>3. proc[p1] = Announced!Idle /\ OneRequest
    BY <1>2 DEF OneRequest
  <1>4. Announced!Idle \in RequestOf(Four) /\ Announced!Idle.pc = "idle"
    <2>1. <<>> \in Seq(Four)
      OBVIOUS
    <2> QED BY <2>1 DEF Announced!Idle, RequestOf, Stage
  <1>5. TypesOf(Four, modStatus, criteria, outdated, silent, Announced!Idle)
    BY <1>2, <1>4 DEF TypesOf, Announced!Status
  <1>6. DerivedBefore(modStatus, outdated, Announced!Idle)
    BY <1>4 DEF DerivedBefore
  <1> QED BY <1>2, <1>3, <1>5, <1>6 DEF AnnouncedInv, AnnouncedOf

\* What clients send.
LEMMA AnnouncedRequests ==
  ASSUME AnnouncedInv, proc[p1].pc = "idle", NEW m \in Four,
         \/ Announced!Edit(p1, m) \/ Announced!MarkComplete(p1, m) \/ Announced!MarkStale(p1, m) \/ Announced!Generate(p1, m)
  PROVE  AnnouncedInv'
  <1>0. /\ modStatus \in [Four -> Announced!Status] /\ criteria \in BOOLEAN /\ silent \subseteq outdated
        /\ outdated \subseteq EdgesOf(Four) /\ \A e \in outdated \ silent : Told(modStatus, proc[p1], e)
    BY DEF AnnouncedInv, AnnouncedOf, TypesOf
  <1>t. \A e \in outdated \ silent : e[1] \notin Elems(Announced!Downstream(e[2])) \/ modStatus[e[1]] # "complete"
    BY <1>0 DEF Told
  <1>i. /\ Announced!Idle \in RequestOf(Four) /\ Announced!Idle.run = FALSE
        /\ Announced!Idle = [pc |-> "idle", mod |-> "none", rest |-> <<>>, plan |-> <<>>,
                             run |-> FALSE, force |-> FALSE, targets |-> {}, was |-> {}]
    <2>1. <<>> \in Seq(Four)
      OBVIOUS
    <2> QED BY <2>1 DEF Announced!Idle, RequestOf, Stage
  <1>d. Announced!Downstream(m) \in Seq(Four)
    BY Tables
  <1>1. ASSUME Announced!Edit(p1, m) PROVE AnnouncedInv'
    <2>1. PICK q : q = [Announced!Idle EXCEPT !.mod = m, !.rest = Announced!Downstream(m),
                  !.pc = IF m = "design_criteria" THEN "cascade" ELSE "announce"]
      OBVIOUS
    <2>2. proc' = [proc EXCEPT ![p1] = q] /\ Announced!Change({m}, TRUE) /\ UNCHANGED modStatus
      BY <1>1, <2>1 DEF Announced!Edit, Announced!marks, Announced!Become
    <2>3. m \in {"lims", "design_criteria"}
      BY <1>1, Tables DEF Announced!Edit, Announced!marks
    <2>4. /\ q \in RequestOf(Four) /\ q.mod = m /\ q.rest = Announced!Downstream(m) /\ q.run = FALSE
          /\ q.pc = IF m = "design_criteria" THEN "cascade" ELSE "announce"
      BY <1>d, <1>i, <2>1 DEF RequestOf, Stage
    <2>5. PICK new : new = {e \in Four \X {m} : e[2] \in Announced!DependsOn[e[1]]}
      OBVIOUS
    <2>6. outdated' = outdated \cup new /\ silent' = silent /\ criteria' = (criteria \/ "design_criteria" \in {m})
      BY <2>2, <2>5 DEF Announced!Change, Four
    <2>7. new \subseteq EdgesOf(Four) /\ \A e \in new : e[2] = m
      BY <2>5 DEF EdgesOf
    <2>8. TypesOf(Four, modStatus', criteria', outdated', silent', q)
      BY <1>0, <2>2, <2>4, <2>6, <2>7 DEF TypesOf
    <2>9. \A e \in EdgesOf(Four) : e[1] # "lims"
      BY Tables DEF EdgesOf
    <2>10. DerivedBefore(modStatus', outdated', q)
      BY <1>0, <2>2, <2>3, <2>4, <2>6, <2>7, <2>9 DEF DerivedBefore
    <2>11. ASSUME NEW e \in outdated' \ silent' PROVE Told(modStatus', q, e)
      <3>1. CASE e \in new
        BY <2>4, <2>7, <3>1 DEF Told
      <3>2. CASE e \notin new
        BY <1>t, <2>2, <2>6, <3>2 DEF Told
      <3> QED BY <3>1, <3>2
    <2> QED BY <2>2, <2>8, <2>10, <2>11, AnnouncedBecomes DEF AnnouncedOf
  <1>2. ASSUME Announced!MarkComplete(p1, m) PROVE AnnouncedInv'
    <2>1. PICK q : q = [Announced!Idle EXCEPT !.mod = m, !.rest = Announced!Downstream(m), !.pc = "announce"]
      OBVIOUS
    <2>2. proc' = [proc EXCEPT ![p1] = q] /\ Announced!Refresh({m}) /\ UNCHANGED <<modStatus, criteria>>
      BY <1>2, <2>1 DEF Announced!MarkComplete, Announced!marks, Announced!Become
    <2>3. q \in RequestOf(Four) /\ q.mod = m /\ q.rest = Announced!Downstream(m) /\ q.pc = "announce"
      BY <1>d, <1>i, <2>1 DEF RequestOf, Stage
    <2>4. outdated' = {e \in outdated : e[1] # m} /\ silent' = {e \in silent : e[1] # m}
      BY <2>2 DEF Announced!Refresh
    <2>5. TypesOf(Four, modStatus', criteria', outdated', silent', q)
      BY <1>0, <2>2, <2>3, <2>4 DEF TypesOf
    <2>6. DerivedBefore(modStatus', outdated', q)
      BY <2>3, <2>4 DEF DerivedBefore
    <2>7. \A e \in outdated' \ silent' : Told(modStatus', q, e)
      BY <1>t, <2>2, <2>4 DEF Told
    <2> QED BY <2>2, <2>5, <2>6, <2>7, AnnouncedBecomes DEF AnnouncedOf
  <1>3. ASSUME Announced!MarkStale(p1, m) PROVE AnnouncedInv'
    <2>1. modStatus' = [modStatus EXCEPT ![m] = "stale"] /\ UNCHANGED <<criteria, outdated, silent>>
      BY <1>3 DEF Announced!MarkStale, Announced!SetStatus, Announced!ghost, Announced!marks
    <2>2. modStatus' \in [Four -> Announced!Status] /\ \A x \in Four : modStatus'[x] = "complete" => modStatus[x] = "complete"
      BY <1>0, <2>1 DEF Announced!Status
    <2>3. \A e \in outdated : e[1] \in Four
      BY <1>0 DEF EdgesOf
    <2>4. CASE UNCHANGED proc
      <3>1. proc[p1] \in RequestOf(Four) /\ proc[p1].pc = "idle" /\ OneRequest
        BY DEF AnnouncedInv, AnnouncedOf, TypesOf
      <3>2. TypesOf(Four, modStatus', criteria', outdated', silent', proc[p1])
        BY <1>0, <2>1, <2>2, <3>1 DEF TypesOf
      <3>3. DerivedBefore(modStatus', outdated', proc[p1])
        BY <3>1 DEF DerivedBefore
      <3>4. \A e \in outdated' \ silent' : Told(modStatus', proc[p1], e)
        BY <1>t, <2>1, <2>2, <2>3 DEF Told
      <3> QED BY <2>4, <3>1, <3>2, <3>3, <3>4 DEF AnnouncedInv, AnnouncedOf, OneRequest
    <2>5. CASE Announced!Become(p1, [Announced!Idle EXCEPT !.mod = m, !.rest = Announced!Downstream(m), !.pc = "cascade"])
      <3>1. PICK q : q = [Announced!Idle EXCEPT !.mod = m, !.rest = Announced!Downstream(m), !.pc = "cascade"]
        OBVIOUS
      <3>2. proc' = [proc EXCEPT ![p1] = q]
        BY <2>5, <3>1 DEF Announced!Become
      <3>3. q \in RequestOf(Four) /\ q.mod = m /\ q.pc = "cascade" /\ q.run = FALSE
        BY <1>d, <1>i, <3>1 DEF RequestOf, Stage
      <3>4. TypesOf(Four, modStatus', criteria', outdated', silent', q)
        BY <1>0, <2>1, <2>2, <3>3 DEF TypesOf
      <3>5. DerivedBefore(modStatus', outdated', q)
        BY <3>3 DEF DerivedBefore
      <3>6. \A e \in outdated' \ silent' : Told(modStatus', q, e)
        BY <1>t, <2>1, <2>2, <2>3 DEF Told
      <3> QED BY <3>2, <3>4, <3>5, <3>6, AnnouncedBecomes DEF AnnouncedOf
    <2> QED BY <1>3, <2>4, <2>5 DEF Announced!MarkStale
  <1>4. ASSUME Announced!Generate(p1, m) PROVE AnnouncedInv'
    <2>1. PICK q : q = [Announced!Idle EXCEPT !.mod = m, !.pc = "begin"]
      OBVIOUS
    <2>2. proc' = [proc EXCEPT ![p1] = q] /\ UNCHANGED <<modStatus, criteria, outdated, silent>>
      BY <1>4, <2>1 DEF Announced!Generate, Announced!Become, Announced!ghost, Announced!marks
    <2>3. q \in RequestOf(Four) /\ q.mod = m /\ q.pc = "begin"
      BY <1>i, <2>1 DEF RequestOf, Stage
    <2>4. TypesOf(Four, modStatus', criteria', outdated', silent', q)
      BY <1>0, <2>2, <2>3 DEF TypesOf
    <2>5. DerivedBefore(modStatus', outdated', q)
      BY <2>3 DEF DerivedBefore
    <2>6. \A e \in outdated' \ silent' : Told(modStatus', q, e)
      BY <1>t, <2>2 DEF Told
    <2> QED BY <2>2, <2>4, <2>5, <2>6, AnnouncedBecomes DEF AnnouncedOf
  <1> QED BY <1>1, <1>2, <1>3, <1>4

\* A regeneration begins.
LEMMA AnnouncedRegenerates ==
  ASSUME AnnouncedInv, NEW T \in SUBSET Four, NEW f \in BOOLEAN, Announced!Regenerate(p1, T, f)
  PROVE  AnnouncedInv'
  <1>0. /\ TypesOf(Four, modStatus, criteria, outdated, silent, proc[p1]) /\ proc[p1].pc = "idle"
        /\ \A e \in outdated \ silent : Told(modStatus, proc[p1], e)
    BY DEF AnnouncedInv, AnnouncedOf, Announced!Regenerate
  <1>1. PICK plan : plan = Announced!Within(Announced!GENERATION_ORDER, T \cap Announced!AutoGenerate)
    OBVIOUS
  <1>2. plan \in Seq(Four)
    <2>1. plan \in Seq(Names \cap (T \cap Announced!AutoGenerate))
      BY <1>1, Tables, WithinIs
    <2>2. Names \cap (T \cap Announced!AutoGenerate) \subseteq Four
      OBVIOUS
    <2> QED BY <2>1, <2>2, SeqMonotonic
  <1>3. PICK q : q = [Announced!Idle EXCEPT !.pc = "next", !.run = TRUE, !.force = f, !.targets = T, !.plan = plan]
    OBVIOUS
  <1>4. proc' = [proc EXCEPT ![p1] = q] /\ UNCHANGED <<modStatus, criteria, outdated, silent>>
    BY <1>1, <1>3 DEF Announced!Regenerate, Announced!Become, Announced!ghost, Announced!marks
  <1>5. q \in RequestOf(Four) /\ q.pc = "next"
    <2>1. <<>> \in Seq(Four)
      OBVIOUS
    <2> QED BY <1>2, <1>3, <2>1 DEF Announced!Idle, RequestOf, Stage
  <1>6. TypesOf(Four, modStatus', criteria', outdated', silent', q)
    BY <1>0, <1>4, <1>5 DEF TypesOf
  <1>7. DerivedBefore(modStatus', outdated', q)
    BY <1>5 DEF DerivedBefore
  <1>8. \A e \in outdated' \ silent' : Told(modStatus', q, e)
    BY <1>0, <1>4 DEF Told
  <1> QED BY <1>4, <1>6, <1>7, <1>8, AnnouncedBecomes DEF AnnouncedOf

\* A step that changes no data keeps what is derived.
LEMMA AnnouncedQuiet ==
  ASSUME AnnouncedInv, NEW q, q \in RequestOf(Four), proc' = [proc EXCEPT ![p1] = q],
         UNCHANGED <<modStatus, criteria, outdated, silent>>,
         q.pc \notin {"idle", "next"} => q.mod \in Four,
         q.pc \notin {"announce", "write", "error"},
         q.pc = "cascade_set" => q.rest # <<>>,
         q.pc = "read" => modStatus[q.mod] = "generating",
         q.pc = "finish" \/ (q.run /\ q.pc \in {"cascade", "cascade_set"}) => \A e \in outdated : e[1] # q.mod,
         \A e \in outdated \ silent : Told(modStatus, proc[p1], e) => Told(modStatus, q, e)
  PROVE  AnnouncedInv'
  <1>1. TypesOf(Four, modStatus', criteria', outdated', silent', q)
    BY DEF AnnouncedInv, AnnouncedOf, TypesOf
  <1>2. DerivedBefore(modStatus', outdated', q)
    BY DEF DerivedBefore
  <1>3. \A e \in outdated' \ silent' : Told(modStatus', q, e)
    BY DEF AnnouncedInv, AnnouncedOf, Told
  <1> QED BY <1>1, <1>2, <1>3, AnnouncedBecomes DEF AnnouncedOf

\* A status is set and nothing becomes complete but what is up to date.
LEMMA AnnouncedSets ==
  ASSUME AnnouncedInv, NEW q, q \in RequestOf(Four), proc' = [proc EXCEPT ![p1] = q],
         NEW m \in Four, NEW x \in Announced!Status, modStatus' = [modStatus EXCEPT ![m] = x],
         UNCHANGED <<criteria, outdated, silent>>,
         x = "complete" => \A e \in outdated : e[1] # m,
         q.pc \notin {"idle", "next"} => q.mod \in Four,
         q.pc \notin {"announce", "write", "error", "cascade_set"},
         q.pc = "read" => q.mod = m /\ x = "generating",
         q.pc = "finish" \/ (q.run /\ q.pc = "cascade") => \A e \in outdated : e[1] # q.mod,
         \A e \in outdated \ silent : Told(modStatus, proc[p1], e) /\ e[1] # m => Told(modStatus, q, e)
  PROVE  AnnouncedInv'
  <1>0. TypesOf(Four, modStatus, criteria, outdated, silent, proc[p1]) /\ \A e \in outdated \ silent : Told(modStatus, proc[p1], e)
    BY DEF AnnouncedInv, AnnouncedOf
  <1>1. modStatus' \in [Four -> Announced!Status] /\ modStatus'[m] = x /\ \A u \in Four : u # m => modStatus'[u] = modStatus[u]
    BY <1>0 DEF TypesOf
  <1>2. TypesOf(Four, modStatus', criteria', outdated', silent', q)
    BY <1>0, <1>1 DEF TypesOf
  <1>3. DerivedBefore(modStatus', outdated', q)
    BY <1>1 DEF DerivedBefore
  <1>4. ASSUME NEW e \in outdated' \ silent' PROVE Told(modStatus', q, e)
    <2>1. e \in outdated \ silent /\ e[1] \in Four
      BY <1>0 DEF TypesOf, EdgesOf
    <2>2. CASE e[1] = m
      BY <1>1, <2>1, <2>2 DEF Told
    <2>3. CASE e[1] # m
      BY <1>0, <1>1, <2>1, <2>3 DEF Told
    <2> QED BY <2>2, <2>3
  <1> QED BY <1>2, <1>3, <1>4, AnnouncedBecomes DEF AnnouncedOf

\* The cascade.
LEMMA AnnouncedCascades ==
  ASSUME AnnouncedInv,
         Announced!Announce(p1) \/ Announced!CascadeRead(p1) \/ Announced!CascadeSet(p1) \/ Announced!CascadeDone(p1)
  PROVE  AnnouncedInv'
  <1>0. PICK q0 : q0 = proc[p1]
    OBVIOUS
  <1>q. /\ q0 \in RequestOf(Four) /\ OneRequest /\ DerivedBefore(modStatus, outdated, q0)
        /\ (q0.pc \notin {"idle", "next"} => q0.mod \in Four) /\ (q0.pc = "cascade_set" => q0.rest # <<>>)
        /\ \A e \in outdated \ silent : Told(modStatus, q0, e)
    BY <1>0 DEF AnnouncedInv, AnnouncedOf, TypesOf
  <1>1. ASSUME Announced!Announce(p1) PROVE AnnouncedInv'
    <2>1. PICK q : q = [q0 EXCEPT !.pc = "cascade"]
      OBVIOUS
    <2>2. q0.pc = "announce" /\ proc' = [proc EXCEPT ![p1] = q] /\ modStatus' = [modStatus EXCEPT ![q0.mod] = "complete"]
          /\ UNCHANGED <<criteria, outdated, silent>>
      BY <1>0, <1>1, <1>q, <2>1 DEF Announced!Announce, Announced!Goto, Announced!SetStatus, Announced!ghost, Announced!marks, OneRequest
    <2>3. q \in RequestOf(Four) /\ q.pc = "cascade" /\ q.mod = q0.mod /\ q.rest = q0.rest /\ q.mod \in Four
      BY <1>q, <2>1, <2>2 DEF RequestOf, Stage
    <2>4. \A e \in outdated : e[1] # q0.mod
      BY <1>q, <2>2 DEF DerivedBefore
    <2>5. \A e \in outdated \ silent : Told(modStatus, q0, e) => Told(modStatus, q, e)
      BY <2>2, <2>3 DEF Told
    <2>6. "complete" \in Announced!Status
      BY DEF Announced!Status
    <2> QED BY <1>0, <2>2, <2>3, <2>4, <2>5, <2>6, AnnouncedSets
  <1>2. ASSUME Announced!CascadeRead(p1) PROVE AnnouncedInv'
    <2>1. q0.pc = "cascade" /\ q0.rest # <<>> /\ UNCHANGED <<modStatus, criteria, outdated, silent>> /\ q0.mod \in Four
      BY <1>0, <1>2, <1>q DEF Announced!CascadeRead, Announced!ghost, Announced!marks
    <2>2. q0.run => \A e \in outdated : e[1] # q0.mod
      BY <1>q, <2>1 DEF DerivedBefore
    <2>3. CASE modStatus[Head(q0.rest)] \in {"complete", "error"}
      <3>1. PICK q : q = [q0 EXCEPT !.pc = "cascade_set"]
        OBVIOUS
      <3>2. proc' = [proc EXCEPT ![p1] = q]
        BY <1>0, <1>2, <1>q, <2>3, <3>1 DEF Announced!CascadeRead, Announced!Goto, OneRequest
      <3>3. q \in RequestOf(Four) /\ q.pc = "cascade_set" /\ q.mod = q0.mod /\ q.rest = q0.rest /\ q.run = q0.run
        BY <1>q, <3>1 DEF RequestOf, Stage
      <3>4. \A e \in outdated \ silent : Told(modStatus, q0, e) => Told(modStatus, q, e)
        BY <2>1, <3>3 DEF Told
      <3> QED BY <1>0, <2>1, <2>2, <3>2, <3>3, <3>4, AnnouncedQuiet
    <2>4. CASE modStatus[Head(q0.rest)] \notin {"complete", "error"}
      <3>1. PICK q : q = [q0 EXCEPT !.rest = Tail(@)]
        OBVIOUS
      <3>2. proc' = [proc EXCEPT ![p1] = q]
        BY <1>0, <1>2, <2>4, <3>1 DEF Announced!CascadeRead, Announced!Become
      <3>3. q0.rest \in Seq(Four)
        BY <1>q DEF RequestOf
      <3>4. Tail(q0.rest) \in Seq(Four) /\ Elems(q0.rest) = {Head(q0.rest)} \cup Elems(Tail(q0.rest))
        BY <2>1, <3>3, HeadAndTail
      <3>5. q \in RequestOf(Four) /\ q.pc = "cascade" /\ q.mod = q0.mod /\ q.rest = Tail(q0.rest) /\ q.run = q0.run
        BY <1>q, <2>1, <3>1, <3>4 DEF RequestOf, Stage
      <3>6. \A e \in outdated \ silent : Told(modStatus, q0, e) => Told(modStatus, q, e)
        BY <2>1, <2>4, <3>4, <3>5 DEF Told
      <3> QED BY <1>0, <2>1, <2>2, <3>2, <3>5, <3>6, AnnouncedQuiet
    <2> QED BY <2>3, <2>4
  <1>3. ASSUME Announced!CascadeSet(p1) PROVE AnnouncedInv'
    <2>1. PICK q : q = [q0 EXCEPT !.rest = Tail(@), !.pc = "cascade"]
      OBVIOUS
    <2>2. q0.pc = "cascade_set" /\ proc' = [proc EXCEPT ![p1] = q] /\ modStatus' = [modStatus EXCEPT ![Head(q0.rest)] = "stale"]
          /\ UNCHANGED <<criteria, outdated, silent>>
      BY <1>0, <1>3, <2>1 DEF Announced!CascadeSet, Announced!Become, Announced!SetStatus, Announced!ghost, Announced!marks
    <2>3. q0.rest \in Seq(Four) /\ q0.rest # <<>>
      BY <1>q, <2>2 DEF RequestOf
    <2>4. Tail(q0.rest) \in Seq(Four) /\ Elems(q0.rest) = {Head(q0.rest)} \cup Elems(Tail(q0.rest)) /\ Head(q0.rest) \in Four
      BY <2>3, HeadAndTail
    <2>5. q \in RequestOf(Four) /\ q.pc = "cascade" /\ q.mod = q0.mod /\ q.rest = Tail(q0.rest) /\ q.run = q0.run /\ q.mod \in Four
      BY <1>q, <2>1, <2>2, <2>4 DEF RequestOf, Stage
    <2>6. \A e \in outdated \ silent : Told(modStatus, q0, e) /\ e[1] # Head(q0.rest) => Told(modStatus, q, e)
      BY <2>2, <2>4, <2>5 DEF Told
    <2>7. q.run => \A e \in outdated : e[1] # q.mod
      BY <1>q, <2>2, <2>5 DEF DerivedBefore
    <2>8. "stale" \in Announced!Status
      BY DEF Announced!Status
    <2>9. PICK h \in Four : h = Head(q0.rest)
      BY <2>4
    <2>10. /\ modStatus' = [modStatus EXCEPT ![h] = "stale"]
           /\ \A e \in outdated \ silent : Told(modStatus, proc[p1], e) /\ e[1] # h => Told(modStatus, q, e)
      BY <1>0, <2>2, <2>6, <2>9
    <2>11. proc' = [proc EXCEPT ![p1] = q] /\ UNCHANGED <<criteria, outdated, silent>>
      BY <2>2
    <2>12. q \in RequestOf(Four) /\ q.pc = "cascade" /\ q.mod \in Four
      BY <2>5
    <2> QED BY <2>7, <2>8, <2>10, <2>11, <2>12, AnnouncedSets
  <1>4. ASSUME Announced!CascadeDone(p1) PROVE AnnouncedInv'
    <2>1. q0.pc = "cascade" /\ q0.rest = <<>> /\ UNCHANGED <<modStatus, criteria, outdated, silent>> /\ q0.mod \in Four
      BY <1>0, <1>4, <1>q DEF Announced!CascadeDone, Announced!ghost, Announced!marks
    <2>2. Elems(q0.rest) = {}
      BY <2>1 DEF Elems
    <2>3. CASE q0.run
      <3>1. PICK q : q = [q0 EXCEPT !.pc = "finish"]
        OBVIOUS
      <3>2. proc' = [proc EXCEPT ![p1] = q]
        BY <1>0, <1>4, <1>q, <2>3, <3>1 DEF Announced!CascadeDone, Announced!Goto, OneRequest
      <3>3. q \in RequestOf(Four) /\ q.pc = "finish" /\ q.mod = q0.mod
        BY <1>q, <3>1 DEF RequestOf, Stage
      <3>4. \A e \in outdated : e[1] # q.mod
        BY <1>q, <2>1, <2>3, <3>3 DEF DerivedBefore
      <3>5. \A e \in outdated \ silent : Told(modStatus, q0, e) => Told(modStatus, q, e)
        BY <2>2 DEF Told
      <3> QED BY <1>0, <2>1, <3>2, <3>3, <3>4, <3>5, AnnouncedQuiet
    <2>4. CASE ~q0.run
      <3>1. PICK q : q = Announced!Idle
        OBVIOUS
      <3>2. proc' = [proc EXCEPT ![p1] = q]
        BY <1>0, <1>4, <2>4, <3>1 DEF Announced!CascadeDone, Announced!Become
      <3>3. q \in RequestOf(Four) /\ q.pc = "idle"
        <4>1. <<>> \in Seq(Four)
          OBVIOUS
        <4> QED BY <3>1, <4>1 DEF Announced!Idle, RequestOf, Stage
      <3>4. \A e \in outdated \ silent : Told(modStatus, q0, e) => Told(modStatus, q, e)
        BY <2>2 DEF Told
      <3> QED BY <1>0, <2>1, <3>2, <3>3, <3>4, AnnouncedQuiet
    <2> QED BY <2>3, <2>4
  <1> QED BY <1>1, <1>2, <1>3, <1>4

\* Generators and regenerations.
LEMMA AnnouncedGenerates ==
  ASSUME AnnouncedInv,
         \/ Announced!Begin(p1) \/ Announced!Read(p1) \/ Announced!Write(p1) \/ Announced!GenerationFails(p1)
         \/ Announced!Start(p1) \/ Announced!Finish(p1)
  PROVE  AnnouncedInv'
  <1>0. PICK q0 : q0 = proc[p1]
    OBVIOUS
  <1>q. /\ q0 \in RequestOf(Four) /\ OneRequest /\ DerivedBefore(modStatus, outdated, q0)
        /\ (q0.pc \notin {"idle", "next"} => q0.mod \in Four)
        /\ \A e \in outdated \ silent : Told(modStatus, q0, e)
    BY <1>0 DEF AnnouncedInv, AnnouncedOf, TypesOf
  <1>d. /\ modStatus \in [Four -> Announced!Status] /\ criteria \in BOOLEAN /\ silent \subseteq outdated /\ outdated \subseteq EdgesOf(Four)
    BY DEF AnnouncedInv, AnnouncedOf, TypesOf
  <1>s. "generating" \in Announced!Status /\ "complete" \in Announced!Status
    BY DEF Announced!Status
  <1>1. ASSUME Announced!Begin(p1) \/ Announced!Start(p1) PROVE AnnouncedInv'
    <2>1. q0.pc \in {"begin", "start"} /\ modStatus' = [modStatus EXCEPT ![q0.mod] = "generating"]
          /\ UNCHANGED <<criteria, outdated, silent>> /\ q0.mod \in Four
      BY <1>0, <1>1, <1>q DEF Announced!Begin, Announced!Start, Announced!SetStatus, Announced!ghost, Announced!marks
    <2>2. PICK q : /\ proc' = [proc EXCEPT ![p1] = q]
                   /\ q = [q0 EXCEPT !.pc = "read"] \/ q = [q0 EXCEPT !.pc = "begin"]
      BY <1>0, <1>1, <1>q DEF Announced!Begin, Announced!Start, Announced!Goto, OneRequest
    <2>3. q \in RequestOf(Four) /\ q.pc \in {"read", "begin"} /\ q.mod = q0.mod
      BY <1>q, <2>2 DEF RequestOf, Stage
    <2>4. \A e \in outdated \ silent : Told(modStatus, q0, e) => Told(modStatus, q, e)
      BY <2>1 DEF Told
    <2> QED BY <1>0, <1>s, <2>1, <2>2, <2>3, <2>4, AnnouncedSets
  <1>2. ASSUME Announced!Finish(p1) PROVE AnnouncedInv'
    <2>1. q0.pc = "finish" /\ modStatus' = [modStatus EXCEPT ![q0.mod] = "complete"]
          /\ UNCHANGED <<criteria, outdated, silent>> /\ q0.mod \in Four
      BY <1>0, <1>2, <1>q DEF Announced!Finish, Announced!SetStatus, Announced!ghost, Announced!marks
    <2>2. PICK q : proc' = [proc EXCEPT ![p1] = q] /\ q = [q0 EXCEPT !.pc = "next"]
      BY <1>0, <1>2, <1>q DEF Announced!Finish, Announced!Goto, OneRequest
    <2>3. q \in RequestOf(Four) /\ q.pc = "next"
      BY <1>q, <2>2 DEF RequestOf, Stage
    <2>4. \A e \in outdated : e[1] # q0.mod
      BY <1>q, <2>1 DEF DerivedBefore
    <2>5. \A e \in outdated \ silent : Told(modStatus, q0, e) => Told(modStatus, q, e)
      BY <2>1 DEF Told
    <2> QED BY <1>0, <1>s, <2>1, <2>2, <2>3, <2>4, <2>5, AnnouncedSets
  <1>3. ASSUME Announced!Read(p1) PROVE AnnouncedInv'
    <2>1. q0.pc = "read" /\ Announced!Refresh(Announced!Made(q0.mod)) /\ UNCHANGED <<modStatus, criteria>> /\ q0.mod \in Four
      BY <1>0, <1>3, <1>q DEF Announced!Read, Announced!marks
    <2>2. Announced!Made(q0.mod) = {q0.mod}
      BY <2>1, Tables
    <2>3. PICK q : q = [q0 EXCEPT !.pc = "write", !.was = UNION {Announced!Of(m) : m \in Announced!Made(q0.mod)}]
      OBVIOUS
    <2>4. proc' = [proc EXCEPT ![p1] = q]
      BY <1>0, <1>3, <2>3 DEF Announced!Read, Announced!marks, Announced!Become
    <2>5. UNION {Announced!Of(m) : m \in Announced!Made(q0.mod)} = {e \in outdated : e[1] = q0.mod}
      BY <2>2 DEF Announced!Of
    <2>6. {e \in outdated : e[1] = q0.mod} \subseteq EdgesOf(Four)
      BY <1>d
    <2>7. q \in RequestOf(Four) /\ q.pc = "write" /\ q.mod = q0.mod /\ q.was = {e \in outdated : e[1] = q0.mod}
      BY <1>q, <2>3, <2>5, <2>6 DEF RequestOf, Stage
    <2>8. outdated' = {e \in outdated : e[1] # q0.mod} /\ silent' = {e \in silent : e[1] # q0.mod}
      BY <2>1, <2>2 DEF Announced!Refresh
    <2>9. TypesOf(Four, modStatus', criteria', outdated', silent', q)
      BY <1>d, <2>1, <2>7, <2>8 DEF TypesOf
    <2>10. modStatus[q0.mod] = "generating"
      BY <1>q, <2>1 DEF DerivedBefore
    <2>11. DerivedBefore(modStatus', outdated', q)
      BY <2>1, <2>7, <2>8, <2>10 DEF DerivedBefore
    <2>12. \A e \in outdated' \ silent' : Told(modStatus', q, e)
      BY <1>q, <2>1, <2>8 DEF Told
    <2> QED BY <2>4, <2>9, <2>11, <2>12, AnnouncedBecomes DEF AnnouncedOf
  <1>4. ASSUME Announced!Write(p1) PROVE AnnouncedInv'
    <2>1. PICK m \in Four : m = q0.mod /\ q0.pc = "write" /\ Announced!Made(m) = {m}
      BY <1>0, <1>4, <1>q, Tables DEF Announced!Write, Announced!marks
    <2>2. PICK a \in BOOLEAN : a = (~q0.run \/ m = "mass_balance")
      OBVIOUS
    <2>3. Announced!Change({m}, a) /\ UNCHANGED modStatus
      BY <1>0, <1>4, <2>1, <2>2 DEF Announced!Write, Announced!marks
    <2>4. PICK new : new = {e \in Four \X {m} : e[2] \in Announced!DependsOn[e[1]]}
      OBVIOUS
    <2>5. /\ outdated' = outdated \cup new /\ criteria' = (criteria \/ "design_criteria" \in {m})
          /\ silent' = IF a THEN silent ELSE silent \cup new
      BY <2>3, <2>4 DEF Announced!Change, Four
    <2>6. new \subseteq EdgesOf(Four) /\ \A e \in new : e[2] = m /\ e[1] # m
      BY <2>4, Tables DEF EdgesOf
    <2>7. /\ \A e \in outdated : e[1] # m
          /\ \A e \in outdated \ silent : e[1] \notin Elems(Announced!Downstream(e[2])) \/ modStatus[e[1]] # "complete"
      BY <1>q, <2>1 DEF DerivedBefore, Told
    <2>8. CASE a
      <3>1. PICK q : q = [q0 EXCEPT !.pc = "announce", !.was = {}, !.rest = Announced!Downstream(m)]
        OBVIOUS
      <3>2. proc' = [proc EXCEPT ![p1] = q]
        BY <1>0, <1>4, <2>1, <2>2, <2>8, <3>1 DEF Announced!Write, Announced!marks, Announced!Become
      <3>3. q \in RequestOf(Four) /\ q.pc = "announce" /\ q.mod = m /\ q.rest = Announced!Downstream(m)
        BY <1>q, <2>1, <3>1, Tables DEF RequestOf, Stage
      <3>4. TypesOf(Four, modStatus', criteria', outdated', silent', q)
        BY <1>d, <2>3, <2>5, <2>6, <2>8, <3>3 DEF TypesOf
      <3>5. DerivedBefore(modStatus', outdated', q)
        BY <2>5, <2>6, <2>7, <3>3 DEF DerivedBefore
      <3>6. ASSUME NEW e \in outdated' \ silent' PROVE Told(modStatus', q, e)
        <4>1. CASE e \in new
          BY <2>6, <3>3, <4>1 DEF Told
        <4>2. CASE e \notin new
          BY <2>3, <2>5, <2>7, <2>8, <4>2 DEF Told
        <4> QED BY <4>1, <4>2
      <3> QED BY <3>2, <3>4, <3>5, <3>6, AnnouncedBecomes DEF AnnouncedOf
    <2>9. CASE ~a
      <3>1. PICK q : q = [q0 EXCEPT !.pc = "finish", !.was = {}]
        OBVIOUS
      <3>2. proc' = [proc EXCEPT ![p1] = q]
        BY <1>0, <1>4, <2>1, <2>2, <2>9, <3>1 DEF Announced!Write, Announced!marks, Announced!Become
      <3>3. q \in RequestOf(Four) /\ q.pc = "finish" /\ q.mod = m
        BY <1>q, <2>1, <3>1 DEF RequestOf, Stage
      <3>4. TypesOf(Four, modStatus', criteria', outdated', silent', q)
        BY <1>d, <2>3, <2>5, <2>6, <2>9, <3>3 DEF TypesOf
      <3>5. DerivedBefore(modStatus', outdated', q)
        BY <2>5, <2>6, <2>7, <3>3 DEF DerivedBefore
      <3>6. \A e \in outdated' \ silent' : Told(modStatus', q, e)
        BY <2>3, <2>5, <2>7, <2>9 DEF Told
      <3> QED BY <3>2, <3>4, <3>5, <3>6, AnnouncedBecomes DEF AnnouncedOf
    <2> QED BY <2>8, <2>9
  <1>5. ASSUME Announced!GenerationFails(p1) PROVE AnnouncedInv'
    <2>1. q0.pc = "write" /\ q0.mod \in Four /\ outdated' = outdated \cup q0.was /\ UNCHANGED <<modStatus, criteria, silent>>
      BY <1>0, <1>5, <1>q DEF Announced!GenerationFails, Announced!marks
    <2>2. modStatus[q0.mod] = "generating" /\ \A e \in q0.was : e[1] = q0.mod
      BY <1>q, <2>1 DEF DerivedBefore
    <2>3. q0.was \subseteq EdgesOf(Four)
      BY <1>q DEF RequestOf
    <2>4. PICK q : /\ proc' = [proc EXCEPT ![p1] = q]
                   /\ q = Announced!Idle \/ q = [q0 EXCEPT !.pc = "error", !.was = {}]
      <3>1. q0.mod # "opex"
        BY <2>1 DEF Four
      <3> QED BY <1>0, <1>5, <3>1 DEF Announced!GenerationFails, Announced!marks, Announced!Become
    <2>5. q \in RequestOf(Four) /\ (q.pc = "idle" \/ (q.pc = "error" /\ q.mod = q0.mod))
      <3>1. <<>> \in Seq(Four)
        OBVIOUS
      <3>2. CASE q = Announced!Idle
        BY <3>1, <3>2 DEF Announced!Idle, RequestOf, Stage
      <3>3. CASE q = [q0 EXCEPT !.pc = "error", !.was = {}]
        BY <1>q, <3>3 DEF RequestOf, Stage
      <3> QED BY <2>4, <3>2, <3>3
    <2>6. TypesOf(Four, modStatus', criteria', outdated', silent', q)
      BY <1>d, <2>1, <2>3, <2>5 DEF TypesOf
    <2>7. DerivedBefore(modStatus', outdated', q)
      BY <2>1, <2>2, <2>5 DEF DerivedBefore
    <2>8. ASSUME NEW e \in outdated' \ silent' PROVE Told(modStatus', q, e)
      <3>1. CASE e \in q0.was
        BY <2>1, <2>2, <3>1 DEF Told
      <3>2. CASE e \notin q0.was
        BY <1>q, <2>1, <3>2 DEF Told
      <3> QED BY <3>1, <3>2
    <2> QED BY <2>4, <2>6, <2>7, <2>8, AnnouncedBecomes DEF AnnouncedOf
  <1> QED BY <1>1, <1>2, <1>3, <1>4, <1>5

\* A regeneration goes on to the next target, or ends.
LEMMA AnnouncedRuns ==
  ASSUME AnnouncedInv,
         \/ Announced!CheckReadiness(p1) \/ Announced!RecordError(p1) \/ Announced!Invalidate(p1) \/ Announced!RunEnds(p1)
  PROVE  AnnouncedInv'
  <1>0. PICK q0 : q0 = proc[p1]
    OBVIOUS
  <1>q. /\ q0 \in RequestOf(Four) /\ OneRequest /\ DerivedBefore(modStatus, outdated, q0)
        /\ (q0.pc \notin {"idle", "next"} => q0.mod \in Four)
    BY <1>0 DEF AnnouncedInv, AnnouncedOf, TypesOf
  <1>i. Announced!Idle \in RequestOf(Four) /\ Announced!Idle.pc = "idle" /\ <<>> \in Seq(Four)
    <2>1. <<>> \in Seq(Four)
      OBVIOUS
    <2> QED BY <2>1 DEF Announced!Idle, RequestOf, Stage
  <1>1. ASSUME Announced!CheckReadiness(p1) PROVE AnnouncedInv'
    <2>1. q0.pc = "next" /\ q0.plan # <<>> /\ UNCHANGED <<modStatus, criteria, outdated, silent>>
      BY <1>0, <1>1 DEF Announced!CheckReadiness, Announced!ghost, Announced!marks
    <2>2. q0.plan \in Seq(Four)
      BY <1>q DEF RequestOf
    <2>3. Head(q0.plan) \in Four /\ Tail(q0.plan) \in Seq(Four)
      BY <2>1, <2>2, HeadAndTail
    <2>4. PICK q : /\ proc' = [proc EXCEPT ![p1] = q]
                   /\ \/ q = [q0 EXCEPT !.plan = Tail(@), !.mod = Head(q0.plan)]
                      \/ q = [[q0 EXCEPT !.plan = Tail(@), !.mod = Head(q0.plan)] EXCEPT !.pc = "start"]
      BY <1>0, <1>1 DEF Announced!CheckReadiness, Announced!Become
    <2>5. q \in RequestOf(Four) /\ q.pc \in {"next", "start"} /\ q.mod \in Four
      BY <1>q, <2>1, <2>3, <2>4 DEF RequestOf, Stage
    <2>6. \A e \in outdated \ silent : Told(modStatus, q0, e) => Told(modStatus, q, e)
      BY <2>1 DEF Told
    <2> QED BY <1>0, <2>1, <2>4, <2>5, <2>6, AnnouncedQuiet
  <1>2. ASSUME Announced!RecordError(p1) PROVE AnnouncedInv'
    <2>1. q0.pc = "error" /\ q0.mod \in Four /\ modStatus' = [modStatus EXCEPT ![q0.mod] = "error"] /\ UNCHANGED <<criteria, outdated, silent>>
      BY <1>0, <1>2, <1>q DEF Announced!RecordError, Announced!SetStatus, Announced!ghost, Announced!marks
    <2>2. PICK rest : rest = Announced!Within(Announced!Downstream(q0.mod), q0.targets)
      OBVIOUS
    <2>3. rest \in Seq(Four)
      <3>1. Announced!Downstream(q0.mod) \in Seq(Four)
        BY <2>1, Tables
      <3>2. rest \in Seq(Four \cap q0.targets)
        BY <2>2, <3>1, WithinIs
      <3> QED BY <3>2, SeqMonotonic
    <2>4. PICK q : /\ proc' = [proc EXCEPT ![p1] = q]
                   /\ \/ q = [q0 EXCEPT !.pc = "next"]
                      \/ q = [q0 EXCEPT !.pc = "invalidate", !.plan = <<>>, !.rest = rest]
      BY <1>0, <1>2, <2>2 DEF Announced!RecordError, Announced!Become
    <2>5. q \in RequestOf(Four) /\ q.pc \in {"next", "invalidate"} /\ q.mod \in Four
      BY <1>i, <1>q, <2>1, <2>3, <2>4 DEF RequestOf, Stage
    <2>6. \A e \in outdated \ silent : Told(modStatus, q0, e) => Told(modStatus, q, e)
      BY <2>1 DEF Told
    <2>7. "error" \in Announced!Status
      BY DEF Announced!Status
    <2> QED BY <1>0, <2>1, <2>4, <2>5, <2>6, <2>7, AnnouncedSets
  <1>3. ASSUME Announced!Invalidate(p1) PROVE AnnouncedInv'
    <2>1. q0.pc = "invalidate" /\ q0.mod \in Four /\ q0.rest # <<>> /\ modStatus' = [modStatus EXCEPT ![Head(q0.rest)] = "stale"]
          /\ UNCHANGED <<criteria, outdated, silent>>
      BY <1>0, <1>3, <1>q DEF Announced!Invalidate, Announced!SetStatus, Announced!ghost, Announced!marks
    <2>2. q0.rest \in Seq(Four)
      BY <1>q DEF RequestOf
    <2>3. PICK h \in Four : h = Head(q0.rest)
      BY <2>1, <2>2, HeadAndTail
    <2>4. Tail(q0.rest) \in Seq(Four)
      BY <2>1, <2>2, HeadAndTail
    <2>5. PICK q : proc' = [proc EXCEPT ![p1] = q] /\ q = [q0 EXCEPT !.rest = Tail(@)]
      BY <1>0, <1>3 DEF Announced!Invalidate, Announced!Become
    <2>6. q \in RequestOf(Four) /\ q.pc = "invalidate" /\ q.mod \in Four
      BY <1>q, <2>1, <2>4, <2>5 DEF RequestOf
    <2>7. \A e \in outdated \ silent : Told(modStatus, q0, e) => Told(modStatus, q, e)
      BY <2>1 DEF Told
    <2>8. "stale" \in Announced!Status
      BY DEF Announced!Status
    <2> QED BY <1>0, <2>1, <2>3, <2>5, <2>6, <2>7, <2>8, AnnouncedSets
  <1>4. ASSUME Announced!RunEnds(p1) PROVE AnnouncedInv'
    <2>1. q0.pc \in {"next", "invalidate"} /\ UNCHANGED <<modStatus, criteria, outdated, silent>> /\ proc' = [proc EXCEPT ![p1] = Announced!Idle]
      BY <1>0, <1>4 DEF Announced!RunEnds, Announced!Become, Announced!ghost, Announced!marks
    <2>2. PICK q : q = Announced!Idle
      OBVIOUS
    <2>3. q \in RequestOf(Four) /\ q.pc = "idle" /\ proc' = [proc EXCEPT ![p1] = q]
      BY <1>i, <2>1, <2>2
    <2>4. \A e \in outdated \ silent : Told(modStatus, q0, e) => Told(modStatus, q, e)
      BY <2>1 DEF Told
    <2> QED BY <1>0, <2>1, <2>3, <2>4, AnnouncedQuiet
  <1> QED BY <1>1, <1>2, <1>3, <1>4

\* Every step keeps it.
LEMMA AnnouncedNext ==
  ASSUME AnnouncedInv, [Announced!Next]_pipelineData
  PROVE  AnnouncedInv'
  <1>1. CASE UNCHANGED pipelineData
    BY <1>1 DEF pipelineData, AnnouncedInv, AnnouncedOf, OneRequest, TypesOf, DerivedBefore, Told
  <1>2. CASE Announced!Next
    <2>1. ~Announced!Crash
      BY DEF Announced!Crash
    <2>2. CASE \E m \in Four : \/ Announced!Edit(p1, m) \/ Announced!MarkComplete(p1, m) \/ Announced!MarkStale(p1, m)
                               \/ Announced!Generate(p1, m)
      <3>1. proc[p1].pc = "idle"
        BY <2>2 DEF Announced!Edit, Announced!marks, Announced!MarkComplete, Announced!MarkStale, Announced!Generate
      <3> QED BY <2>2, <3>1, AnnouncedRequests
    <2>3. CASE \E T \in SUBSET Announced!AutoGenerate \ {{}}, f \in BOOLEAN : Announced!Regenerate(p1, T, f)
      <3>1. Announced!AutoGenerate \subseteq Four
        BY Tables DEF Three, Four
      <3> QED BY <2>3, <3>1, AnnouncedRegenerates
    <2>4. CASE Announced!Step(p1)
      BY <2>4, AnnouncedCascades, AnnouncedGenerates, AnnouncedRuns DEF Announced!Step
    <2> QED BY <1>2, <2>1, <2>2, <2>3, <2>4, Zenon DEF Announced!Next, Four
  <1> QED BY <1>1, <1>2

\* With one request at a time, no regeneration is crossed.
Uncrossed == crossed = [p \in {p1} |-> {}]
LEMMA NoneCrosses == ASSUME Uncrossed, [Announced!Next]_pipelineData PROVE Uncrossed'
  <1>1. CASE UNCHANGED pipelineData
    BY <1>1 DEF pipelineData, Uncrossed
  <1>2. CASE Announced!Next
    <2>1. ASSUME NEW m PROVE Announced!Crossed(p1, m) = crossed
      BY DEF Announced!Crossed, Uncrossed
    <2>2. ASSUME NEW m, NEW s, Announced!SetStatus(p1, m, s) PROVE Uncrossed'
      BY <2>1, <2>2 DEF Announced!SetStatus, Uncrossed
    <2>3. UNCHANGED crossed => Uncrossed'
      BY DEF Uncrossed
    <2>4. crossed' = [crossed EXCEPT ![p1] = {}] => Uncrossed'
      BY DEF Uncrossed
    <2>5. ASSUME NEW m, crossed' = [Announced!Crossed(p1, m) EXCEPT ![p1] = {}] PROVE Uncrossed'
      BY <2>1, <2>4, <2>5
    <2>6. CASE \E m \in Four : \/ Announced!Edit(p1, m) \/ Announced!MarkComplete(p1, m) \/ Announced!MarkStale(p1, m)
                               \/ Announced!Generate(p1, m)
      BY <2>2, <2>3, <2>6 DEF Announced!Edit, Announced!MarkComplete, Announced!MarkStale, Announced!Generate, Announced!marks
    <2>7. CASE \E T \in SUBSET Announced!AutoGenerate \ {{}}, f \in BOOLEAN : Announced!Regenerate(p1, T, f)
      BY <2>3, <2>7 DEF Announced!Regenerate, Announced!marks
    <2>8. CASE Announced!Announce(p1) \/ Announced!CascadeSet(p1) \/ Announced!Begin(p1) \/ Announced!Start(p1)
               \/ Announced!Finish(p1) \/ Announced!Invalidate(p1)
      BY <2>2, <2>8, Zenon DEF Announced!Announce, Announced!CascadeSet, Announced!Begin, Announced!Start, Announced!Finish,
                        Announced!Invalidate
    <2>9. CASE Announced!CascadeRead(p1) \/ Announced!CascadeDone(p1) \/ Announced!Read(p1) \/ Announced!Write(p1)
               \/ Announced!GenerationFails(p1)
      BY <2>3, <2>9 DEF Announced!CascadeRead, Announced!CascadeDone, Announced!Read, Announced!Write,
                        Announced!GenerationFails, Announced!marks
    <2>10. CASE Announced!CheckReadiness(p1) \/ Announced!RunEnds(p1)
      BY <2>4, <2>10 DEF Announced!CheckReadiness, Announced!RunEnds
    <2>11. CASE Announced!RecordError(p1)
      BY <2>5, <2>11 DEF Announced!RecordError
    <2>12. ~Announced!Crash
      BY DEF Announced!Crash
    <2> QED BY <1>2, <2>6, <2>7, <2>8, <2>9, <2>10, <2>11, <2>12, Zenon DEF Announced!Next, Announced!Step, Four
  <1> QED BY <1>1, <1>2

\* So what is complete at rest is up to date with what was announced.
LEMMA AnnouncedHolds ==
  ASSUME AnnouncedInv, Uncrossed
  PROVE  Announced!TypeOK /\ Announced!AnnouncedIsStale
  <1>0. TypesOf(Four, modStatus, criteria, outdated, silent, proc[p1]) /\ OneRequest
        /\ \A e \in outdated \ silent : Told(modStatus, proc[p1], e)
    BY DEF AnnouncedInv, AnnouncedOf
  <1>1. Announced!TypeOK
    BY <1>0 DEF TypesOf, OneRequest, EdgesOf, Four, Uncrossed, Announced!TypeOK
  <1>2. ASSUME proc[p1].pc = "idle", NEW e \in outdated \ silent
        PROVE  \/ e[1] \in {"opex", "equipment"}
               \/ e[1] \notin {Announced!Downstream(e[2])[i] : i \in 1 .. Len(Announced!Downstream(e[2]))}
               \/ modStatus[e[1]] # "complete"
    <2>1. e[1] \notin Elems(Announced!Downstream(e[2])) \/ modStatus[e[1]] # "complete"
      BY <1>0, <1>2 DEF Told
    <2>2. e[2] \in Four
      BY <1>0 DEF TypesOf, EdgesOf
    <2>3. PICK s \in Seq(Four) : s = Announced!Downstream(e[2])
      BY <2>2, Tables
    <2>4. DOMAIN s = 1..Len(s)
      OBVIOUS
    <2> QED BY <2>1, <2>3, <2>4 DEF Elems
  <1>3. Announced!AnnouncedIsStale
    BY <1>2 DEF Announced!AnnouncedIsStale, Announced!AllIdle
  <1> QED BY <1>1, <1>3

-----------------------------------------------------------------------------
(* The pipeline where generators fail and the process is killed (Pipeline): *)
(* what an unforced regeneration is working on has its sources complete,   *)
(* from the readiness check to the write of the status, but for those that *)
(* another request crossed it on, because it cascades only below them.     *)

RunPc == {"start", "begin", "read", "write", "announce", "cascade", "cascade_set", "finish", "error"}
RunOrder(st, c, q) ==
  /\ q.pc \in {"finish", "error", "invalidate"} => q.run
  /\ q.run /\ ~q.force /\ q.pc \in RunPc =>
       \A d \in Failing!DependsOn[q.mod] \cap RunModules : st[d] = "complete" \/ d \in c
  /\ q.run /\ q.pc \in {"announce", "cascade", "cascade_set"} =>
       q.mod = "mass_balance" /\ Elems(q.rest) \subseteq {"flowsheet"}
  /\ q.pc = "invalidate" =>
       \A d \in q.targets \cap Elems(Failing!Downstream(q.mod)) :
         st[d] = "complete" => d \in Elems(q.rest) \/ d \in c
FailingInv ==
  /\ modStatus \in [RunModules -> Announced!Status] /\ criteria \in BOOLEAN
  /\ silent \subseteq outdated /\ outdated \subseteq EdgesOf(RunModules)
  /\ proc \in [Runs -> RequestOf(RunModules)]
  /\ crossed \in [Runs -> SUBSET RunModules]
  /\ \A x \in Runs : /\ proc[x].pc \notin {"idle", "next"} => proc[x].mod \in RunModules
                     /\ proc[x].pc = "cascade_set" => proc[x].rest # <<>>
                     /\ RunOrder(modStatus, crossed[x], proc[x])

\* What a step of p does to the history of the others: nothing, or m crosses
\* their regenerations.
OwnCrossed(p) ==
  /\ crossed' \in [Runs -> SUBSET RunModules]
  /\ \A x \in Runs \ {p} : crossed'[x] = crossed[x]
Crosses(p, m) ==
  /\ crossed' \in [Runs -> SUBSET RunModules]
  /\ \A x \in Runs \ {p} :
       crossed'[x] = IF proc[x].run THEN crossed[x] \cup {m} ELSE crossed[x]

\* The tables, cut to the modules of the run.
LEMMA FailingTables ==
  /\ \A m \in RunModules : Failing!Downstream(m) \in Seq(RunModules)
  /\ Elems(Failing!Downstream("mass_balance")) \subseteq {"flowsheet"}
  /\ Failing!GENERATION_ORDER \in Seq(Names)
  /\ Failing!AutoGenerate = RunModules
  /\ \A m \in RunModules : Failing!Made(m) = {m}
  /\ Failing!DependsOn = Announced!DependsOn /\ Failing!Status = Announced!Status /\ Failing!Idle = Announced!Idle
  /\ Failing!DependsOn["mass_balance"] = {"design_criteria"} /\ \A m \in RunModules : m \notin Failing!DependsOn[m]
  <1>0. RunModules \subseteq {"design_criteria", "mass_balance", "flowsheet"}
    BY RecordConstants
  <1>1. ASSUME NEW m \in RunModules PROVE Failing!Downstream(m) \in Seq(RunModules)
    <2>1. PICK s : s = Failing!STALE_CASCADE[m]
      OBVIOUS
    <2>2. s \in Seq(Names)
      <3>1. CASE m = "design_criteria"
        BY <2>1, <3>1 DEF Failing!STALE_CASCADE, Names
      <3>2. CASE m = "mass_balance"
        BY <2>1, <3>2 DEF Failing!STALE_CASCADE, Names
      <3>3. CASE m = "flowsheet"
        BY <2>1, <3>3 DEF Failing!STALE_CASCADE, Names
      <3> QED BY <1>0, <3>1, <3>2, <3>3
    <2>3. Failing!Downstream(m) = Failing!Within(s, RunModules)
      BY <2>1 DEF Failing!Downstream
    <2>4. Failing!Within(s, RunModules) \in Seq(Names \cap RunModules)
      <3>1. PICK u \in Seq(Names) : u = s
        BY <2>2
      <3>2. Failing!Within(u, RunModules) = Announced!Within(u, RunModules) /\ Announced!Within(u, RunModules) \in Seq(Names \cap RunModules)
        BY WithinIs
      <3> QED BY <3>1, <3>2
    <2>5. Names \cap RunModules \subseteq RunModules
      OBVIOUS
    <2> QED BY <2>3, <2>4, <2>5, SeqMonotonic
  <1>2. Elems(Failing!Downstream("mass_balance")) \subseteq {"flowsheet"}
    <2>1. PICK s : s = Failing!STALE_CASCADE["mass_balance"]
      OBVIOUS
    <2>2. s = <<"flowsheet", "equipment", "opex", "risks">>
      BY <2>1 DEF Failing!STALE_CASCADE
    <2>3. s \in Seq({"flowsheet", "equipment", "opex", "risks"})
      BY <2>2
    <2>4. Elems(s) \subseteq {"flowsheet", "equipment", "opex", "risks"}
      BY <2>3, ElementOfSeq, LenProperties DEF Elems
    <2>5. Failing!Downstream("mass_balance") = Failing!Within(s, RunModules)
      BY <2>1 DEF Failing!Downstream
    <2>6. Elems(Failing!Within(s, RunModules)) = Elems(s) \cap RunModules
      BY <2>3, WithinIs
    <2> QED BY <1>0, <2>4, <2>5, <2>6
  <1>3. Failing!GENERATION_ORDER \in Seq(Names)
    BY DEF Failing!GENERATION_ORDER, Names
  <1>4. Failing!AutoGenerate = RunModules
    BY <1>0 DEF Failing!AutoGenerate
  <1>5. \A m \in RunModules : Failing!Made(m) = {m}
    BY <1>0 DEF Failing!Made
  <1>6. Failing!DependsOn = Announced!DependsOn
    BY Zenon DEF Failing!DependsOn, Announced!DependsOn
  <1>7. Failing!Status = Announced!Status /\ Failing!Idle = Announced!Idle
    BY Zenon DEF Failing!Status, Announced!Status, Failing!Idle, Announced!Idle
  <1>8. Failing!DependsOn["mass_balance"] = {"design_criteria"} /\ \A m \in RunModules : m \notin Failing!DependsOn[m]
    BY <1>0 DEF Failing!DependsOn
  <1> QED BY <1>1, <1>2, <1>3, <1>4, <1>5, <1>6, <1>7, <1>8

\* Nothing is under way.
LEMMA NothingUnderWay ==
  /\ Failing!Idle \in RequestOf(RunModules) /\ Failing!Idle.pc = "idle" /\ Failing!Idle.run = FALSE
  /\ \A st, c : RunOrder(st, c, Failing!Idle)
  <1>1. <<>> \in Seq(RunModules)
    OBVIOUS
  <1>2. Failing!Idle \in RequestOf(RunModules) /\ Failing!Idle.pc = "idle" /\ Failing!Idle.run = FALSE
    BY <1>1 DEF Failing!Idle, RequestOf, Stage
  <1> QED BY <1>2 DEF RunOrder

\* A request that is no regeneration is free.
LEMMA RequestIsFree ==
  ASSUME NEW st, NEW c, NEW q, q.run = FALSE, q.pc \notin {"finish", "error", "invalidate"}
  PROVE  RunOrder(st, c, q)
  BY DEF RunOrder

\* A step that leaves the history alone, or only empties that of its request.
LEMMA StaysOwnCrossed ==
  ASSUME FailingInv, NEW p \in Runs, UNCHANGED crossed \/ crossed' = [crossed EXCEPT ![p] = {}]
  PROVE  OwnCrossed(p) /\ crossed'[p] \in {crossed[p], {}}
  <1>1. crossed \in [Runs -> SUBSET RunModules]
    BY DEF FailingInv
  <1> QED BY <1>1 DEF OwnCrossed

\* A step that sets a status.
LEMMA SetCrosses ==
  ASSUME FailingInv, NEW p \in Runs, NEW m \in RunModules, NEW s, Failing!SetStatus(p, m, s)
  PROVE  modStatus' = [modStatus EXCEPT ![m] = s] /\ Crosses(p, m) /\ crossed'[p] = crossed[p]
  <1>1. crossed \in [Runs -> SUBSET RunModules]
    BY DEF FailingInv
  <1>2. /\ modStatus' = [modStatus EXCEPT ![m] = s]
        /\ crossed' = [x \in Runs |-> IF x # p /\ proc[x].run THEN crossed[x] \cup {m} ELSE crossed[x]]
    BY DEF Failing!SetStatus, Failing!Crossed
  <1> QED BY <1>1, <1>2 DEF Crosses

\* What another sets crosses a regeneration, and nothing else does.
LEMMA OtherOrder ==
  ASSUME NEW st, NEW c, NEW m, NEW x, NEW q, RunOrder(st, c, q), st \in [RunModules -> Announced!Status]
  PROVE  q.run => RunOrder([st EXCEPT ![m] = x], c \cup {m}, q)
  <1>1. \A d \in RunModules : d # m => [st EXCEPT ![m] = x][d] = st[d]
    OBVIOUS
  <1> QED BY <1>1 DEF RunOrder

\* The request becomes another, whatever becomes of the data.
LEMMA FailingBecomes ==
  ASSUME FailingInv, NEW p \in Runs, NEW q \in RequestOf(RunModules), proc' = [proc EXCEPT ![p] = q],
         \/ UNCHANGED modStatus /\ (UNCHANGED crossed \/ crossed' = [crossed EXCEPT ![p] = {}])
         \/ \E m \in RunModules, x \in Announced!Status : modStatus' = [modStatus EXCEPT ![m] = x] /\ Crosses(p, m),
         \/ UNCHANGED <<criteria, outdated, silent>>
         \/ \E m \in RunModules, a \in BOOLEAN : Failing!Change({m}, a)
         \/ \E S : Failing!Refresh(S) /\ UNCHANGED criteria
         \/ \E W \in SUBSET EdgesOf(RunModules) : outdated' = outdated \cup W /\ UNCHANGED <<criteria, silent>>,
         q.pc \notin {"idle", "next"} => q.mod \in RunModules,
         q.pc = "cascade_set" => q.rest # <<>>,
         RunOrder(modStatus', crossed'[p], q)
  PROVE  FailingInv'
  <1>0. /\ modStatus \in [RunModules -> Announced!Status] /\ criteria \in BOOLEAN /\ silent \subseteq outdated
        /\ outdated \subseteq EdgesOf(RunModules) /\ proc \in [Runs -> RequestOf(RunModules)]
    BY DEF FailingInv
  <1>1. proc'[p] = q /\ proc' \in [Runs -> RequestOf(RunModules)] /\ \A x \in Runs \ {p} : proc'[x] = proc[x]
    BY <1>0
  <1>2. modStatus' \in [RunModules -> Announced!Status]
    BY <1>0
  <1>3. criteria' \in BOOLEAN /\ silent' \subseteq outdated' /\ outdated' \subseteq EdgesOf(RunModules)
    <2>1. CASE UNCHANGED <<criteria, outdated, silent>>
      BY <1>0, <2>1
    <2>2. ASSUME NEW m \in RunModules, NEW a \in BOOLEAN, Failing!Change({m}, a)
          PROVE  criteria' \in BOOLEAN /\ silent' \subseteq outdated' /\ outdated' \subseteq EdgesOf(RunModules)
      <3>1. PICK new : new = {e \in RunModules \X {m} : e[2] \in Failing!DependsOn[e[1]]}
        OBVIOUS
      <3>2. /\ outdated' = outdated \cup new /\ criteria' = (criteria \/ "design_criteria" \in {m})
            /\ silent' = IF a THEN silent ELSE silent \cup new
        BY <2>2, <3>1 DEF Failing!Change
      <3>3. new \subseteq EdgesOf(RunModules)
        BY <3>1, FailingTables DEF EdgesOf
      <3> QED BY <1>0, <3>2, <3>3
    <2>3. ASSUME NEW S, Failing!Refresh(S), UNCHANGED criteria
          PROVE  criteria' \in BOOLEAN /\ silent' \subseteq outdated' /\ outdated' \subseteq EdgesOf(RunModules)
      BY <1>0, <2>3 DEF Failing!Refresh
    <2>4. ASSUME NEW W \in SUBSET EdgesOf(RunModules), outdated' = outdated \cup W /\ UNCHANGED <<criteria, silent>>
          PROVE  criteria' \in BOOLEAN /\ silent' \subseteq outdated' /\ outdated' \subseteq EdgesOf(RunModules)
      BY <1>0, <2>4
    <2> QED BY <2>1, <2>2, <2>3, <2>4
  <1>4. /\ crossed' \in [Runs -> SUBSET RunModules]
        /\ \/ UNCHANGED modStatus /\ OwnCrossed(p)
           \/ \E m \in RunModules, x \in Announced!Status : modStatus' = [modStatus EXCEPT ![m] = x] /\ Crosses(p, m)
    <2>1. CASE UNCHANGED modStatus /\ (UNCHANGED crossed \/ crossed' = [crossed EXCEPT ![p] = {}])
      <3>1. OwnCrossed(p)
        BY <2>1, StaysOwnCrossed
      <3> QED BY <2>1, <3>1 DEF OwnCrossed
    <2>2. CASE \E m \in RunModules, x \in Announced!Status : modStatus' = [modStatus EXCEPT ![m] = x] /\ Crosses(p, m)
      BY <2>2 DEF Crosses
    <2> QED BY <2>1, <2>2
  <1>5. ASSUME NEW x \in Runs \ {p}
        PROVE  /\ proc'[x].pc \notin {"idle", "next"} => proc'[x].mod \in RunModules
               /\ proc'[x].pc = "cascade_set" => proc'[x].rest # <<>>
               /\ RunOrder(modStatus', crossed'[x], proc'[x])
    <2>1. /\ proc[x].pc \notin {"idle", "next"} => proc[x].mod \in RunModules
          /\ proc[x].pc = "cascade_set" => proc[x].rest # <<>>
          /\ RunOrder(modStatus, crossed[x], proc[x])
      BY DEF FailingInv
    <2>2. RunOrder(modStatus', crossed'[x], proc[x])
      <3>1. CASE UNCHANGED modStatus /\ OwnCrossed(p)
        BY <2>1, <3>1 DEF OwnCrossed
      <3>2. ASSUME NEW m \in RunModules, NEW s \in Announced!Status, modStatus' = [modStatus EXCEPT ![m] = s], Crosses(p, m)
            PROVE  RunOrder(modStatus', crossed'[x], proc[x])
        <4>1. CASE proc[x].run
          <5>1. crossed'[x] = crossed[x] \cup {m}
            BY <3>2, <4>1 DEF Crosses
          <5>2. RunOrder([modStatus EXCEPT ![m] = s], crossed[x] \cup {m}, proc[x])
            BY <1>0, <2>1, <4>1, OtherOrder
          <5> QED BY <3>2, <5>1, <5>2
        <4>2. CASE ~proc[x].run
          BY <2>1, <4>2 DEF RunOrder
        <4> QED BY <4>1, <4>2
      <3> QED BY <1>4, <3>1, <3>2
    <2> QED BY <1>1, <2>1, <2>2
  <1>6. ASSUME NEW x \in Runs
        PROVE  /\ proc'[x].pc \notin {"idle", "next"} => proc'[x].mod \in RunModules
               /\ proc'[x].pc = "cascade_set" => proc'[x].rest # <<>>
               /\ RunOrder(modStatus', crossed'[x], proc'[x])
    <2>1. CASE x = p
      BY <1>1, <2>1
    <2> QED BY <1>5, <2>1
  <1> QED BY <1>1, <1>2, <1>3, <1>4, <1>6 DEF FailingInv

\* It holds when nothing is generated yet.
LEMMA FailingStart ==
  ASSUME AllInit, part = "failing"
  PROVE  FailingInv
  <1>1. /\ modStatus = [m \in RunModules |-> "pending"] /\ criteria = FALSE /\ outdated = {} /\ silent = {}
        /\ proc = [p \in Runs |-> Failing!Idle] /\ crossed = [p \in Runs |-> {}]
    BY DEF AllInit, Failing!Init
  <1>2. proc \in [Runs -> RequestOf(RunModules)] /\ \A x \in Runs : proc[x] = Failing!Idle
    BY <1>1, NothingUnderWay
  <1>3. modStatus \in [RunModules -> Announced!Status] /\ crossed \in [Runs -> SUBSET RunModules]
    BY <1>1 DEF Announced!Status
  <1> QED BY <1>1, <1>2, <1>3, NothingUnderWay DEF FailingInv

\* What clients send.
LEMMA FailingRequests ==
  ASSUME FailingInv, NEW p \in Runs, NEW m \in RunModules,
         \/ Failing!Edit(p, m) \/ Failing!MarkComplete(p, m) \/ Failing!MarkStale(p, m) \/ Failing!Generate(p, m)
  PROVE  FailingInv'
  <1>d. Failing!Downstream(m) \in Seq(RunModules)
    BY FailingTables
  <1>1. ASSUME Failing!Edit(p, m) PROVE FailingInv'
    <2>1. PICK q : q = [Failing!Idle EXCEPT !.mod = m, !.rest = Failing!Downstream(m),
                  !.pc = IF m = "design_criteria" THEN "cascade" ELSE "announce"]
      OBVIOUS
    <2>2. proc' = [proc EXCEPT ![p] = q] /\ Failing!Change({m}, TRUE) /\ UNCHANGED <<modStatus, crossed>>
      BY <1>1, <2>1 DEF Failing!Edit, Failing!marks, Failing!Become
    <2>3. q \in RequestOf(RunModules) /\ q.mod = m /\ q.run = FALSE /\ q.pc \in {"cascade", "announce"}
      BY <1>d, <2>1, NothingUnderWay DEF RequestOf, Stage
    <2>4. RunOrder(modStatus', crossed'[p], q)
      BY <2>3, RequestIsFree
    <2>5. \E n \in RunModules, a \in BOOLEAN : Failing!Change({n}, a)
      BY <2>2
    <2> QED BY <2>2, <2>3, <2>4, <2>5, FailingBecomes
  <1>2. ASSUME Failing!MarkComplete(p, m) PROVE FailingInv'
    <2>1. PICK q : q = [Failing!Idle EXCEPT !.mod = m, !.rest = Failing!Downstream(m), !.pc = "announce"]
      OBVIOUS
    <2>2. proc' = [proc EXCEPT ![p] = q] /\ Failing!Refresh({m}) /\ UNCHANGED <<modStatus, crossed, criteria>>
      BY <1>2, <2>1 DEF Failing!MarkComplete, Failing!marks, Failing!Become
    <2>3. q \in RequestOf(RunModules) /\ q.mod = m /\ q.run = FALSE /\ q.pc = "announce"
      BY <1>d, <2>1, NothingUnderWay DEF RequestOf, Stage
    <2>4. RunOrder(modStatus', crossed'[p], q)
      BY <2>3, RequestIsFree
    <2>5. \E S : Failing!Refresh(S) /\ UNCHANGED criteria
      BY <2>2
    <2> QED BY <2>2, <2>3, <2>4, <2>5, FailingBecomes
  <1>3. ASSUME Failing!MarkStale(p, m) PROVE FailingInv'
    <2>1. PICK x \in Announced!Status : x = "stale"
      BY DEF Announced!Status
    <2>2. Failing!SetStatus(p, m, x) /\ UNCHANGED <<criteria, outdated, silent>> /\ proc[p].pc = "idle"
      BY <1>3, <2>1 DEF Failing!MarkStale, Failing!ghost
    <2>s. \E n \in RunModules, s \in Announced!Status : modStatus' = [modStatus EXCEPT ![n] = s] /\ Crosses(p, n)
      BY <2>2, SetCrosses
    <2>3. CASE UNCHANGED proc
      <3>1. PICK q \in RequestOf(RunModules) : q = proc[p]
        BY DEF FailingInv
      <3>2. proc' = [proc EXCEPT ![p] = q]
        BY <2>3, <3>1 DEF FailingInv
      <3>3. q.pc = "idle" /\ RunOrder(modStatus', crossed'[p], q)
        BY <2>2, <3>1 DEF RunOrder, RunPc
      <3> QED BY <2>2, <2>s, <3>2, <3>3, FailingBecomes
    <2>4. CASE Failing!Become(p, [Failing!Idle EXCEPT !.mod = m, !.rest = Failing!Downstream(m), !.pc = "cascade"])
      <3>1. PICK q : q = [Failing!Idle EXCEPT !.mod = m, !.rest = Failing!Downstream(m), !.pc = "cascade"]
        OBVIOUS
      <3>2. proc' = [proc EXCEPT ![p] = q]
        BY <2>4, <3>1 DEF Failing!Become
      <3>3. q \in RequestOf(RunModules) /\ q.mod = m /\ q.run = FALSE /\ q.pc = "cascade"
        BY <1>d, <3>1, NothingUnderWay DEF RequestOf, Stage
      <3>4. RunOrder(modStatus', crossed'[p], q)
        BY <3>3, RequestIsFree
      <3> QED BY <2>2, <2>s, <3>2, <3>3, <3>4, FailingBecomes
    <2> QED BY <1>3, <2>3, <2>4 DEF Failing!MarkStale
  <1>4. ASSUME Failing!Generate(p, m) PROVE FailingInv'
    <2>1. PICK q : q = [Failing!Idle EXCEPT !.mod = m, !.pc = "begin"]
      OBVIOUS
    <2>2. proc' = [proc EXCEPT ![p] = q] /\ UNCHANGED <<modStatus, crossed>> /\ UNCHANGED <<criteria, outdated, silent>>
      BY <1>4, <2>1 DEF Failing!Generate, Failing!Become, Failing!ghost, Failing!marks
    <2>3. q \in RequestOf(RunModules) /\ q.mod = m /\ q.run = FALSE /\ q.pc = "begin"
      BY <2>1, NothingUnderWay DEF RequestOf, Stage
    <2>4. RunOrder(modStatus', crossed'[p], q)
      BY <2>3, RequestIsFree
    <2> QED BY <2>2, <2>3, <2>4, FailingBecomes
  <1> QED BY <1>1, <1>2, <1>3, <1>4

\* A regeneration begins.
LEMMA FailingRegenerates ==
  ASSUME FailingInv, NEW p \in Runs, NEW T \in SUBSET RunModules, NEW f \in BOOLEAN, Failing!Regenerate(p, T, f)
  PROVE  FailingInv'
  <1>1. PICK plan : plan = Failing!Within(Failing!GENERATION_ORDER, T \cap Failing!AutoGenerate)
    OBVIOUS
  <1>2. plan \in Seq(RunModules)
    <2>1. plan \in Seq(Names \cap (T \cap Failing!AutoGenerate))
      <3>1. PICK u \in Seq(Names) : u = Failing!GENERATION_ORDER
        BY FailingTables
      <3>2. PICK S : S = T \cap Failing!AutoGenerate
        OBVIOUS
      <3>3. Failing!Within(u, S) = Announced!Within(u, S) /\ Announced!Within(u, S) \in Seq(Names \cap S)
        BY WithinIs
      <3> QED BY <1>1, <3>1, <3>2, <3>3
    <2>2. Names \cap (T \cap Failing!AutoGenerate) \subseteq RunModules
      OBVIOUS
    <2> QED BY <2>1, <2>2, SeqMonotonic
  <1>3. PICK q : q = [Failing!Idle EXCEPT !.pc = "next", !.run = TRUE, !.force = f, !.targets = T, !.plan = plan]
    OBVIOUS
  <1>4. proc' = [proc EXCEPT ![p] = q] /\ UNCHANGED <<modStatus, crossed>> /\ UNCHANGED <<criteria, outdated, silent>>
    BY <1>1, <1>3 DEF Failing!Regenerate, Failing!Become, Failing!ghost, Failing!marks
  <1>5. q \in RequestOf(RunModules) /\ q.pc = "next"
    BY <1>2, <1>3, NothingUnderWay DEF RequestOf, Stage
  <1>6. RunOrder(modStatus', crossed'[p], q)
    BY <1>5 DEF RunOrder, RunPc
  <1> QED BY <1>4, <1>5, <1>6, FailingBecomes

\* The cascade.
LEMMA FailingCascades ==
  ASSUME FailingInv, NEW p \in Runs, Failing!Announce(p) \/ Failing!CascadeRead(p) \/ Failing!CascadeSet(p) \/ Failing!CascadeDone(p)
  PROVE  FailingInv'
  <1>0. PICK q0 : q0 = proc[p]
    OBVIOUS
  <1>q. /\ q0 \in RequestOf(RunModules) /\ proc \in [Runs -> RequestOf(RunModules)] /\ RunOrder(modStatus, crossed[p], q0) /\ modStatus \in [RunModules -> Announced!Status]
        /\ (q0.pc \notin {"idle", "next"} => q0.mod \in RunModules) /\ (q0.pc = "cascade_set" => q0.rest # <<>>)
    BY <1>0 DEF FailingInv
  <1>1. ASSUME Failing!Announce(p) PROVE FailingInv'
    <2>1. PICK q : q = [q0 EXCEPT !.pc = "cascade"]
      OBVIOUS
    <2>2. q0.pc = "announce" /\ proc' = [proc EXCEPT ![p] = q] /\ UNCHANGED <<criteria, outdated, silent>> /\ q0.mod \in RunModules
      BY <1>0, <1>1, <1>q, <2>1 DEF Failing!Announce, Failing!Goto, Failing!ghost
    <2>s. Failing!SetStatus(p, q0.mod, "complete")
      BY <1>0, <1>1 DEF Failing!Announce
    <2>c. modStatus' = [modStatus EXCEPT ![q0.mod] = "complete"] /\ Crosses(p, q0.mod) /\ crossed'[p] = crossed[p]
      BY <2>s, <2>2, SetCrosses
    <2>3. /\ q \in RequestOf(RunModules) /\ q.pc = "cascade" /\ q.mod = q0.mod /\ q.rest = q0.rest /\ q.run = q0.run /\ q.force = q0.force
          /\ q.mod \in RunModules
      BY <1>q, <2>1, <2>2 DEF RequestOf, Stage
    <2>4. \A d \in RunModules : modStatus[d] = "complete" => modStatus'[d] = "complete"
      BY <1>q, <2>c
    <2>5. RunOrder(modStatus', crossed'[p], q)
      BY <1>q, <2>2, <2>c, <2>3, <2>4 DEF RunOrder, RunPc
    <2>6. \E m \in RunModules, x \in Announced!Status : modStatus' = [modStatus EXCEPT ![m] = x] /\ Crosses(p, m)
      BY <2>2, <2>c DEF Announced!Status
    <2> QED BY <2>2, <2>3, <2>5, <2>6, FailingBecomes
  <1>2. ASSUME Failing!CascadeRead(p) PROVE FailingInv'
    <2>1. q0.pc = "cascade" /\ q0.rest # <<>> /\ UNCHANGED <<modStatus, crossed>> /\ UNCHANGED <<criteria, outdated, silent>> /\ q0.mod \in RunModules
      BY <1>0, <1>2, <1>q DEF Failing!CascadeRead, Failing!ghost, Failing!marks
    <2>2. q0.rest \in Seq(RunModules)
      BY <1>q DEF RequestOf
    <2>3. Tail(q0.rest) \in Seq(RunModules) /\ Elems(q0.rest) = {Head(q0.rest)} \cup Elems(Tail(q0.rest))
      BY <2>1, <2>2, HeadAndTail
    <2>4. PICK q : /\ proc' = [proc EXCEPT ![p] = q]
                   /\ q = [q0 EXCEPT !.pc = "cascade_set"] \/ q = [q0 EXCEPT !.rest = Tail(@)]
      BY <1>0, <1>2, <1>q DEF Failing!CascadeRead, Failing!Become, Failing!Goto
    <2>5. /\ q \in RequestOf(RunModules) /\ q.pc \in {"cascade", "cascade_set"} /\ q.mod = q0.mod /\ q.run = q0.run /\ q.force = q0.force
          /\ (q.pc = "cascade_set" => q.rest = q0.rest) /\ q.rest \in {q0.rest, Tail(q0.rest)}
      BY <1>q, <2>1, <2>3, <2>4 DEF RequestOf, Stage
    <2>6. Elems(q.rest) \subseteq Elems(q0.rest)
      BY <2>3, <2>5
    <2>7. RunOrder(modStatus', crossed'[p], q)
      BY <1>q, <2>1, <2>5, <2>6 DEF RunOrder, RunPc
    <2> QED BY <2>1, <2>4, <2>5, <2>7, FailingBecomes
  <1>3. ASSUME Failing!CascadeSet(p) PROVE FailingInv'
    <2>1. q0.pc = "cascade_set" /\ q0.mod \in RunModules /\ q0.rest # <<>> /\ Failing!SetStatus(p, Head(q0.rest), "stale")
          /\ UNCHANGED <<criteria, outdated, silent>>
      BY <1>0, <1>3, <1>q DEF Failing!CascadeSet, Failing!ghost
    <2>2. q0.rest \in Seq(RunModules)
      BY <1>q DEF RequestOf
    <2>3. Tail(q0.rest) \in Seq(RunModules) /\ Elems(q0.rest) = {Head(q0.rest)} \cup Elems(Tail(q0.rest)) /\ Head(q0.rest) \in RunModules
      BY <2>1, <2>2, HeadAndTail
    <2>4. PICK h \in RunModules : h = Head(q0.rest)
      BY <2>3
    <2>5. PICK q : proc' = [proc EXCEPT ![p] = q] /\ q = [q0 EXCEPT !.rest = Tail(@), !.pc = "cascade"]
      BY <1>0, <1>3 DEF Failing!CascadeSet, Failing!Become
    <2>6. /\ q \in RequestOf(RunModules) /\ q.pc = "cascade" /\ q.mod = q0.mod /\ q.run = q0.run /\ q.force = q0.force
          /\ q.rest = Tail(q0.rest)
      BY <1>q, <2>1, <2>3, <2>5 DEF RequestOf, Stage
    <2>c. modStatus' = [modStatus EXCEPT ![h] = "stale"] /\ Crosses(p, h) /\ crossed'[p] = crossed[p]
      BY <2>1, <2>4, SetCrosses
    <2>7. h \in Elems(q0.rest) /\ Elems(q.rest) \subseteq Elems(q0.rest)
      BY <2>1, <2>3, <2>4, <2>6
    <2>8. CASE q0.run
      <3>1. q0.mod = "mass_balance" /\ h = "flowsheet" /\ Elems(q.rest) \subseteq {"flowsheet"}
        BY <1>q, <2>1, <2>7, <2>8 DEF RunOrder
      <3>2. \A d \in RunModules : d # "flowsheet" => modStatus'[d] = modStatus[d]
        BY <1>q, <2>c, <3>1
      <3>3. Failing!DependsOn[q.mod] = {"design_criteria"}
        BY <2>6, <3>1, FailingTables
      <3> QED
        <4>1. RunOrder(modStatus', crossed'[p], q)
          BY <1>q, <2>1, <2>c, <2>6, <2>8, <3>1, <3>2, <3>3 DEF RunOrder, RunPc
        <4>2. \E m \in RunModules, x \in Announced!Status : modStatus' = [modStatus EXCEPT ![m] = x] /\ Crosses(p, m)
          BY <2>c DEF Announced!Status
        <4>3. q.mod \in RunModules
          BY <2>1, <2>6
        <4> QED BY <2>1, <2>5, <2>6, <4>1, <4>2, <4>3, FailingBecomes
    <2>9. CASE ~q0.run
      <3>1. q.run = FALSE
        BY <1>q, <2>6, <2>9 DEF RequestOf
      <3>2. RunOrder(modStatus', crossed'[p], q)
        BY <2>6, <3>1, RequestIsFree
      <3>3. \E m \in RunModules, x \in Announced!Status : modStatus' = [modStatus EXCEPT ![m] = x] /\ Crosses(p, m)
        BY <2>c DEF Announced!Status
      <3>4. q.mod \in RunModules
        BY <2>1, <2>6
      <3> QED BY <2>1, <2>5, <2>6, <3>2, <3>3, <3>4, FailingBecomes
    <2> QED BY <2>8, <2>9
  <1>4. ASSUME Failing!CascadeDone(p) PROVE FailingInv'
    <2>1. q0.pc = "cascade" /\ UNCHANGED <<modStatus, crossed>> /\ UNCHANGED <<criteria, outdated, silent>> /\ q0.mod \in RunModules
      BY <1>0, <1>4, <1>q DEF Failing!CascadeDone, Failing!ghost, Failing!marks
    <2>2. CASE q0.run
      <3>1. PICK q : q = [q0 EXCEPT !.pc = "finish"]
        OBVIOUS
      <3>2. proc' = [proc EXCEPT ![p] = q]
        BY <1>0, <1>4, <1>q, <2>2, <3>1 DEF Failing!CascadeDone, Failing!Goto
      <3>3. q \in RequestOf(RunModules) /\ q.pc = "finish" /\ q.mod = q0.mod /\ q.run = q0.run /\ q.force = q0.force
        BY <1>q, <3>1 DEF RequestOf, Stage
      <3>4. RunOrder(modStatus', crossed'[p], q)
        BY <1>q, <2>1, <2>2, <3>3 DEF RunOrder, RunPc
      <3> QED BY <2>1, <3>2, <3>3, <3>4, FailingBecomes
    <2>3. CASE ~q0.run
      <3>1. proc' = [proc EXCEPT ![p] = Failing!Idle]
        BY <1>0, <1>4, <2>3 DEF Failing!CascadeDone, Failing!Become
      <3>2. PICK q : q = Failing!Idle
        OBVIOUS
      <3> QED BY <2>1, <3>1, <3>2, NothingUnderWay, FailingBecomes
    <2> QED BY <2>2, <2>3
  <1> QED BY <1>1, <1>2, <1>3, <1>4

\* Generators and regenerations.
LEMMA FailingGenerates ==
  ASSUME FailingInv, NEW p \in Runs,
         \/ Failing!Begin(p) \/ Failing!Read(p) \/ Failing!Write(p) \/ Failing!GenerationFails(p)
         \/ Failing!Start(p) \/ Failing!Finish(p)
  PROVE  FailingInv'
  <1>0. PICK q0 : q0 = proc[p]
    OBVIOUS
  <1>q. /\ q0 \in RequestOf(RunModules) /\ proc \in [Runs -> RequestOf(RunModules)] /\ RunOrder(modStatus, crossed[p], q0) /\ modStatus \in [RunModules -> Announced!Status]
        /\ (q0.pc \notin {"idle", "next"} => q0.mod \in RunModules)
    BY <1>0 DEF FailingInv
  <1>d. outdated \subseteq EdgesOf(RunModules)
    BY DEF FailingInv
  <1>1. ASSUME Failing!Begin(p) \/ Failing!Start(p) PROVE FailingInv'
    <2>1. q0.pc \in {"begin", "start"} /\ Failing!SetStatus(p, q0.mod, "generating")
          /\ UNCHANGED <<criteria, outdated, silent>> /\ q0.mod \in RunModules
      BY <1>0, <1>1, <1>q DEF Failing!Begin, Failing!Start, Failing!ghost
    <2>c. modStatus' = [modStatus EXCEPT ![q0.mod] = "generating"] /\ Crosses(p, q0.mod) /\ crossed'[p] = crossed[p]
      BY <2>1, SetCrosses
    <2>2. PICK q : /\ proc' = [proc EXCEPT ![p] = q]
                   /\ q = [q0 EXCEPT !.pc = "read"] \/ q = [q0 EXCEPT !.pc = "begin"]
      BY <1>0, <1>1, <1>q DEF Failing!Begin, Failing!Start, Failing!Goto
    <2>3. q \in RequestOf(RunModules) /\ q.pc \in {"read", "begin"} /\ q.mod = q0.mod /\ q.run = q0.run /\ q.force = q0.force
      BY <1>q, <2>2 DEF RequestOf, Stage
    <2>4. \A d \in RunModules : d # q0.mod => modStatus'[d] = modStatus[d]
      BY <1>q, <2>c
    <2>5. q0.mod \notin Failing!DependsOn[q0.mod]
      BY <2>1, FailingTables
    <2>6. RunOrder(modStatus', crossed'[p], q)
      BY <1>q, <2>1, <2>c, <2>3, <2>4, <2>5 DEF RunOrder, RunPc
    <2>7. \E m \in RunModules, x \in Announced!Status : modStatus' = [modStatus EXCEPT ![m] = x] /\ Crosses(p, m)
      BY <2>1, <2>c DEF Announced!Status
    <2> QED BY <2>1, <2>2, <2>3, <2>6, <2>7, FailingBecomes
  <1>2. ASSUME Failing!Finish(p) PROVE FailingInv'
    <2>1. q0.pc = "finish" /\ Failing!SetStatus(p, q0.mod, "complete")
          /\ UNCHANGED <<criteria, outdated, silent>> /\ q0.mod \in RunModules
      BY <1>0, <1>2, <1>q DEF Failing!Finish, Failing!ghost
    <2>c. modStatus' = [modStatus EXCEPT ![q0.mod] = "complete"] /\ Crosses(p, q0.mod) /\ crossed'[p] = crossed[p]
      BY <2>1, SetCrosses
    <2>2. PICK q : proc' = [proc EXCEPT ![p] = q] /\ q = [q0 EXCEPT !.pc = "next"]
      BY <1>0, <1>2, <1>q DEF Failing!Finish, Failing!Goto
    <2>3. q \in RequestOf(RunModules) /\ q.pc = "next"
      BY <1>q, <2>2 DEF RequestOf, Stage
    <2>4. RunOrder(modStatus', crossed'[p], q)
      BY <2>3 DEF RunOrder, RunPc
    <2>5. \E m \in RunModules, x \in Announced!Status : modStatus' = [modStatus EXCEPT ![m] = x] /\ Crosses(p, m)
      BY <2>1, <2>c DEF Announced!Status
    <2> QED BY <2>1, <2>2, <2>3, <2>4, <2>5, FailingBecomes
  <1>3. ASSUME Failing!Read(p) PROVE FailingInv'
    <2>1. q0.pc = "read" /\ Failing!Refresh(Failing!Made(q0.mod)) /\ UNCHANGED <<modStatus, crossed>> /\ UNCHANGED criteria /\ q0.mod \in RunModules
      BY <1>0, <1>3, <1>q DEF Failing!Read, Failing!marks
    <2>2. PICK W : W = UNION {Failing!Of(m) : m \in Failing!Made(q0.mod)}
      OBVIOUS
    <2>3. W \subseteq EdgesOf(RunModules)
      BY <1>d, <2>2 DEF Failing!Of
    <2>4. PICK q : proc' = [proc EXCEPT ![p] = q] /\ q = [q0 EXCEPT !.pc = "write", !.was = W]
      BY <1>0, <1>3, <2>2 DEF Failing!Read, Failing!marks, Failing!Become
    <2>5. q \in RequestOf(RunModules) /\ q.pc = "write" /\ q.mod = q0.mod /\ q.run = q0.run /\ q.force = q0.force
      BY <1>q, <2>3, <2>4 DEF RequestOf, Stage
    <2>6. RunOrder(modStatus', crossed'[p], q)
      BY <1>q, <2>1, <2>5 DEF RunOrder, RunPc
    <2>7. \E S : Failing!Refresh(S) /\ UNCHANGED criteria
      BY <2>1
    <2> QED BY <2>1, <2>4, <2>5, <2>6, <2>7, FailingBecomes
  <1>4. ASSUME Failing!Write(p) PROVE FailingInv'
    <2>1. PICK m \in RunModules : m = q0.mod /\ q0.pc = "write" /\ Failing!Made(m) = {m}
      BY <1>0, <1>4, <1>q, FailingTables DEF Failing!Write, Failing!marks
    <2>2. PICK a \in BOOLEAN : a = (~q0.run \/ m = "mass_balance")
      OBVIOUS
    <2>3. Failing!Change({m}, a) /\ UNCHANGED <<modStatus, crossed>>
      BY <1>0, <1>4, <2>1, <2>2 DEF Failing!Write, Failing!marks
    <2>4. \E n \in RunModules, b \in BOOLEAN : Failing!Change({n}, b)
      BY <2>3
    <2>5. CASE a
      <3>1. PICK q : q = [q0 EXCEPT !.pc = "announce", !.was = {}, !.rest = Failing!Downstream(m)]
        OBVIOUS
      <3>2. proc' = [proc EXCEPT ![p] = q]
        BY <1>0, <1>4, <2>1, <2>2, <2>5, <3>1 DEF Failing!Write, Failing!marks, Failing!Become
      <3>3. /\ q \in RequestOf(RunModules) /\ q.pc = "announce" /\ q.mod = m /\ q.rest = Failing!Downstream(m) /\ q.run = q0.run
            /\ q.force = q0.force
        BY <1>q, <2>1, <3>1, FailingTables DEF RequestOf, Stage
      <3>4. q.run => m = "mass_balance" /\ Elems(q.rest) \subseteq {"flowsheet"}
        BY <2>2, <2>5, <3>3, FailingTables
      <3>5. RunOrder(modStatus', crossed'[p], q)
        BY <1>q, <2>1, <2>3, <3>3, <3>4 DEF RunOrder, RunPc
      <3> QED BY <2>3, <2>4, <3>2, <3>3, <3>5, FailingBecomes
    <2>6. CASE ~a
      <3>1. PICK q : q = [q0 EXCEPT !.pc = "finish", !.was = {}]
        OBVIOUS
      <3>2. proc' = [proc EXCEPT ![p] = q]
        BY <1>0, <1>4, <2>1, <2>2, <2>6, <3>1 DEF Failing!Write, Failing!marks, Failing!Become
      <3>3. q \in RequestOf(RunModules) /\ q.pc = "finish" /\ q.mod = m /\ q.run = q0.run /\ q.force = q0.force
        BY <1>q, <2>1, <3>1 DEF RequestOf, Stage
      <3>4. RunOrder(modStatus', crossed'[p], q)
        BY <1>q, <2>1, <2>2, <2>3, <2>6, <3>3 DEF RunOrder, RunPc
      <3> QED BY <2>3, <2>4, <3>2, <3>3, <3>4, FailingBecomes
    <2> QED BY <2>5, <2>6
  <1>5. ASSUME Failing!GenerationFails(p) PROVE FailingInv'
    <2>1. q0.pc = "write" /\ q0.mod \in RunModules /\ outdated' = outdated \cup q0.was /\ UNCHANGED <<modStatus, crossed>> /\ UNCHANGED <<criteria, silent>>
      BY <1>0, <1>5, <1>q DEF Failing!GenerationFails, Failing!marks
    <2>2. \E W \in SUBSET EdgesOf(RunModules) : outdated' = outdated \cup W /\ UNCHANGED <<criteria, silent>>
      BY <1>q, <2>1 DEF RequestOf
    <2>3. PICK q : /\ proc' = [proc EXCEPT ![p] = q]
                   /\ q = Failing!Idle \/ (q = [q0 EXCEPT !.pc = "error", !.was = {}] /\ q0.run)
      <3>1. q0.mod # "opex"
        BY <2>1, RecordConstants
      <3> QED BY <1>0, <1>5, <3>1 DEF Failing!GenerationFails, Failing!marks, Failing!Become
    <2>4. CASE q = Failing!Idle
      BY <2>1, <2>2, <2>3, <2>4, NothingUnderWay, FailingBecomes
    <2>5. CASE q = [q0 EXCEPT !.pc = "error", !.was = {}] /\ q0.run
      <3>1. q \in RequestOf(RunModules) /\ q.pc = "error" /\ q.mod = q0.mod /\ q.run = q0.run /\ q.force = q0.force
        BY <1>q, <2>5 DEF RequestOf, Stage
      <3>2. RunOrder(modStatus', crossed'[p], q)
        BY <1>q, <2>1, <2>5, <3>1 DEF RunOrder, RunPc
      <3> QED BY <2>1, <2>2, <2>3, <2>5, <3>1, <3>2, FailingBecomes
    <2> QED BY <2>3, <2>4, <2>5
  <1> QED BY <1>1, <1>2, <1>3, <1>4, <1>5

\* A regeneration goes on to the next target, or ends.
LEMMA FailingRuns ==
  ASSUME FailingInv, NEW p \in Runs,
         \/ Failing!CheckReadiness(p) \/ Failing!RecordError(p) \/ Failing!Invalidate(p) \/ Failing!RunEnds(p)
  PROVE  FailingInv'
  <1>0. PICK q0 : q0 = proc[p]
    OBVIOUS
  <1>q. /\ q0 \in RequestOf(RunModules) /\ proc \in [Runs -> RequestOf(RunModules)] /\ RunOrder(modStatus, crossed[p], q0) /\ modStatus \in [RunModules -> Announced!Status]
        /\ (q0.pc \notin {"idle", "next"} => q0.mod \in RunModules)
    BY <1>0 DEF FailingInv
  <1>1. ASSUME Failing!CheckReadiness(p) PROVE FailingInv'
    <2>1. q0.pc = "next" /\ q0.plan # <<>> /\ UNCHANGED modStatus /\ crossed' = [crossed EXCEPT ![p] = {}] /\ UNCHANGED <<criteria, outdated, silent>>
      BY <1>0, <1>1 DEF Failing!CheckReadiness, Failing!ghost, Failing!marks
    <2>2. q0.plan \in Seq(RunModules)
      BY <1>q DEF RequestOf
    <2>3. PICK h \in RunModules : h = Head(q0.plan)
      BY <2>1, <2>2, HeadAndTail
    <2>4. Tail(q0.plan) \in Seq(RunModules)
      BY <2>1, <2>2, HeadAndTail
    <2>5. PICK q : /\ proc' = [proc EXCEPT ![p] = q]
                   /\ \/ q = [q0 EXCEPT !.plan = Tail(@), !.mod = h]
                      \/ /\ q = [[q0 EXCEPT !.plan = Tail(@), !.mod = h] EXCEPT !.pc = "start"]
                         /\ Failing!Ready(h) \/ q0.force
      BY <1>0, <1>1, <2>3 DEF Failing!CheckReadiness, Failing!Become
    <2>6. /\ q \in RequestOf(RunModules) /\ q.mod = h /\ q.force = q0.force
          /\ q.pc = "next" \/ (q.pc = "start" /\ (Failing!Ready(h) \/ q.force))
      <3>1. CASE q = [q0 EXCEPT !.plan = Tail(@), !.mod = h]
        BY <1>q, <2>1, <2>4, <3>1 DEF RequestOf, Stage
      <3>2. CASE q = [[q0 EXCEPT !.plan = Tail(@), !.mod = h] EXCEPT !.pc = "start"] /\ (Failing!Ready(h) \/ q0.force)
        <4>1. q = [q0 EXCEPT !.plan = Tail(q0.plan), !.mod = h, !.pc = "start"]
          BY <3>2
        <4>2. q \in RequestOf(RunModules) /\ q.mod = h /\ q.force = q0.force /\ q.pc = "start"
          BY <1>q, <2>1, <2>4, <4>1 DEF RequestOf, Stage
        <4> QED BY <3>2, <4>2
      <3> QED BY <2>5, <3>1, <3>2
    <2>7. Failing!Ready(h) => \A d \in Failing!DependsOn[h] \cap RunModules : modStatus[d] = "complete"
      BY <1>q DEF Failing!Ready, Announced!Status
    <2>8. RunOrder(modStatus', crossed'[p], q)
      BY <2>1, <2>6, <2>7 DEF RunOrder, RunPc
    <2> QED BY <2>1, <2>5, <2>6, <2>8, FailingBecomes
  <1>2. ASSUME Failing!RecordError(p) PROVE FailingInv'
    <2>1. q0.pc = "error" /\ q0.mod \in RunModules /\ UNCHANGED <<criteria, outdated, silent>>
          /\ modStatus' = [modStatus EXCEPT ![q0.mod] = "error"] /\ crossed' = [Failing!Crossed(p, q0.mod) EXCEPT ![p] = {}]
      BY <1>0, <1>2, <1>q DEF Failing!RecordError, Failing!ghost
    <2>c. Crosses(p, q0.mod)
      <3>1. crossed \in [Runs -> SUBSET RunModules]
        BY DEF FailingInv
      <3> QED BY <2>1, <3>1 DEF Failing!Crossed, Crosses
    <2>2. PICK rest : rest = Failing!Within(Failing!Downstream(q0.mod), q0.targets)
      OBVIOUS
    <2>3. rest \in Seq(RunModules) /\ Elems(rest) = Elems(Failing!Downstream(q0.mod)) \cap q0.targets
      <3>1. PICK u \in Seq(RunModules) : u = Failing!Downstream(q0.mod)
        BY <2>1, FailingTables
      <3>2. PICK S : S = q0.targets
        OBVIOUS
      <3>3. /\ Failing!Within(u, S) = Announced!Within(u, S) /\ Announced!Within(u, S) \in Seq(RunModules \cap S)
            /\ Elems(Announced!Within(u, S)) = Elems(u) \cap S
        BY WithinIs
      <3>4. rest \in Seq(RunModules \cap S) /\ Elems(rest) = Elems(u) \cap S
        BY <2>2, <3>1, <3>2, <3>3
      <3>5. rest \in Seq(RunModules)
        BY <3>4, SeqMonotonic
      <3> QED BY <3>1, <3>2, <3>4, <3>5
    <2>4. PICK q : /\ proc' = [proc EXCEPT ![p] = q]
                   /\ \/ q = [q0 EXCEPT !.pc = "next"]
                      \/ q = [q0 EXCEPT !.pc = "invalidate", !.plan = <<>>, !.rest = rest]
      BY <1>0, <1>2, <2>2 DEF Failing!RecordError, Failing!Become
    <2>5. /\ q \in RequestOf(RunModules) /\ q.mod = q0.mod /\ q.targets = q0.targets
          /\ q.pc = "next" \/ (q.pc = "invalidate" /\ q.rest = rest /\ q.run)
      <3>1. <<>> \in Seq(RunModules)
        OBVIOUS
      <3>2. q0.run
        BY <1>q, <2>1 DEF RunOrder
      <3> QED BY <1>q, <2>1, <2>3, <2>4, <3>1, <3>2 DEF RequestOf, Stage
    <2>6. RunOrder(modStatus', crossed'[p], q)
      BY <2>3, <2>5 DEF RunOrder, RunPc
    <2>7. \E m \in RunModules, x \in Announced!Status : modStatus' = [modStatus EXCEPT ![m] = x] /\ Crosses(p, m)
      BY <2>1, <2>c DEF Announced!Status
    <2> QED BY <2>1, <2>4, <2>5, <2>6, <2>7, FailingBecomes
  <1>3. ASSUME Failing!Invalidate(p) PROVE FailingInv'
    <2>1. q0.pc = "invalidate" /\ q0.mod \in RunModules /\ q0.rest # <<>> /\ Failing!SetStatus(p, Head(q0.rest), "stale")
          /\ UNCHANGED <<criteria, outdated, silent>>
      BY <1>0, <1>3, <1>q DEF Failing!Invalidate, Failing!ghost
    <2>2. q0.rest \in Seq(RunModules)
      BY <1>q DEF RequestOf
    <2>3. Tail(q0.rest) \in Seq(RunModules) /\ Elems(q0.rest) = {Head(q0.rest)} \cup Elems(Tail(q0.rest)) /\ Head(q0.rest) \in RunModules
      BY <2>1, <2>2, HeadAndTail
    <2>4. PICK h \in RunModules : h = Head(q0.rest)
      BY <2>3
    <2>5. PICK q : proc' = [proc EXCEPT ![p] = q] /\ q = [q0 EXCEPT !.rest = Tail(@)]
      BY <1>0, <1>3 DEF Failing!Invalidate, Failing!Become
    <2>6. q \in RequestOf(RunModules) /\ q.pc = "invalidate" /\ q.mod = q0.mod /\ q.targets = q0.targets /\ q.rest = Tail(q0.rest) /\ q.run = q0.run
      BY <1>q, <2>1, <2>3, <2>5 DEF RequestOf
    <2>c. modStatus' = [modStatus EXCEPT ![h] = "stale"] /\ Crosses(p, h) /\ crossed'[p] = crossed[p]
      BY <2>1, <2>4, SetCrosses
    <2>7. Elems(q0.rest) = {h} \cup Elems(q.rest)
      BY <2>1, <2>3, <2>4, <2>6
    <2>8. \A d \in RunModules : modStatus'[d] = "complete" => modStatus[d] = "complete" /\ d # h
      BY <1>q, <2>c
    <2>9. q0.targets \subseteq RunModules
      BY <1>q DEF RequestOf
    <2>10. RunOrder(modStatus', crossed'[p], q)
      BY <1>q, <2>1, <2>c, <2>6, <2>7, <2>8, <2>9 DEF RunOrder, RunPc
    <2>11. \E m \in RunModules, x \in Announced!Status : modStatus' = [modStatus EXCEPT ![m] = x] /\ Crosses(p, m)
      BY <2>c DEF Announced!Status
    <2> QED BY <2>1, <2>5, <2>6, <2>10, <2>11, FailingBecomes
  <1>4. ASSUME Failing!RunEnds(p) PROVE FailingInv'
    <2>1. UNCHANGED modStatus /\ crossed' = [crossed EXCEPT ![p] = {}] /\ UNCHANGED <<criteria, outdated, silent>> /\ proc' = [proc EXCEPT ![p] = Failing!Idle]
      BY <1>4 DEF Failing!RunEnds, Failing!Become, Failing!ghost, Failing!marks
    <2>2. PICK q : q = Failing!Idle
      OBVIOUS
    <2> QED BY <2>1, <2>2, NothingUnderWay, FailingBecomes
  <1> QED BY <1>1, <1>2, <1>3, <1>4

\* The process is killed: what the generators had read is out of date again.
LEMMA FailingCrash == ASSUME FailingInv, Failing!Crash PROVE FailingInv'
  <1>1. /\ UNCHANGED modStatus /\ UNCHANGED <<criteria, silent>> /\ outdated' = outdated \cup UNION {proc[p].was : p \in Runs}
        /\ proc' = [p \in Runs |-> Failing!Idle] /\ crossed' = [p \in Runs |-> {}]
    BY DEF Failing!Crash
  <1>2. UNION {proc[p].was : p \in Runs} \subseteq EdgesOf(RunModules)
    BY DEF FailingInv, RequestOf
  <1>3. proc' \in [Runs -> RequestOf(RunModules)] /\ crossed' \in [Runs -> SUBSET RunModules] /\ \A x \in Runs : proc'[x] = Failing!Idle
    BY <1>1, NothingUnderWay
  <1> QED BY <1>1, <1>2, <1>3, NothingUnderWay DEF FailingInv

\* Every step keeps it.
LEMMA FailingNext ==
  ASSUME FailingInv, [Failing!Next]_pipelineData
  PROVE  FailingInv'
  <1>1. CASE UNCHANGED pipelineData
    BY <1>1 DEF pipelineData, FailingInv, RunOrder
  <1>2. CASE Failing!Next
    <2>1. CASE Failing!Crash
      BY <2>1, FailingCrash
    <2>2. ASSUME NEW p \in Runs,
                 \/ \E m \in RunModules : \/ Failing!Edit(p, m) \/ Failing!MarkComplete(p, m)
                                          \/ Failing!MarkStale(p, m) \/ Failing!Generate(p, m)
                 \/ \E T \in SUBSET Failing!AutoGenerate \ {{}}, f \in BOOLEAN : Failing!Regenerate(p, T, f)
                 \/ Failing!Step(p)
          PROVE  FailingInv'
      <3>1. CASE \E m \in RunModules : \/ Failing!Edit(p, m) \/ Failing!MarkComplete(p, m)
                                       \/ Failing!MarkStale(p, m) \/ Failing!Generate(p, m)
        BY <3>1, FailingRequests
      <3>2. CASE \E T \in SUBSET Failing!AutoGenerate \ {{}}, f \in BOOLEAN : Failing!Regenerate(p, T, f)
        BY <3>2, FailingTables, FailingRegenerates
      <3>3. CASE Failing!Step(p)
        BY <3>3, FailingCascades, FailingGenerates, FailingRuns DEF Failing!Step
      <3> QED BY <2>2, <3>1, <3>2, <3>3
    <2> QED BY <1>2, <2>1, <2>2, Zenon DEF Failing!Next
  <1> QED BY <1>1, <1>2

\* So the sources of what a regeneration completes are complete, and nothing
\* below its failure is, unless another set it since.
LEMMA FailingOrder ==
  ASSUME FailingInv
  PROVE  Failing!GeneratedFromComplete /\ Failing!NothingCompleteBelowFailure
  <1>1. ASSUME NEW p \in Runs, Failing!Finish(p), ~proc[p].force, NEW d \in Failing!DependsOn[proc[p].mod] \cap RunModules
        PROVE  modStatus[d] = "complete" \/ d \in crossed[p]
    BY <1>1 DEF FailingInv, Failing!Finish, RunOrder, RunPc
  <1>2. ASSUME NEW p \in Runs, Failing!RunEnds(p), proc[p].pc = "invalidate", NEW d \in proc[p].targets,
               modStatus[d] = "complete", d \notin crossed[p]
        PROVE  \A i \in 1 .. Len(Failing!Downstream(proc[p].mod)) : Failing!Downstream(proc[p].mod)[i] # d
    <2>1. proc[p].rest = <<>> /\ proc[p].mod \in RunModules
      BY <1>2 DEF Failing!RunEnds, FailingInv
    <2>2. Elems(proc[p].rest) = {}
      BY <2>1 DEF Elems
    <2>3. d \notin Elems(Failing!Downstream(proc[p].mod))
      BY <1>2, <2>2 DEF FailingInv, RunOrder
    <2>4. PICK s \in Seq(RunModules) : s = Failing!Downstream(proc[p].mod)
      BY <2>1, FailingTables
    <2>5. DOMAIN s = 1..Len(s)
      OBVIOUS
    <2> QED BY <2>3, <2>4, <2>5 DEF Elems
  <1>3. Failing!GeneratedFromComplete
    BY <1>1 DEF Failing!GeneratedFromComplete
  <1>4. Failing!NothingCompleteBelowFailure
    BY <1>2 DEF Failing!NothingCompleteBelowFailure
  <1> QED BY <1>3, <1>4

-----------------------------------------------------------------------------
(* All of it.                                                              *)

\* Each part keeps its own invariant while it runs.
PartsInv ==
  /\ RuleInv
  /\ part = "designs" => DesignsInv
  /\ part = "gates" => GateInv
  /\ part = "trail" => TrailInv
  /\ part = "shared_trail" => SharedInv
  /\ part = "pushes" => PushInv
  /\ part = "resolves" => ResolveInv
  /\ part = "announced" => AnnouncedInv /\ Uncrossed
  /\ part = "failing" => FailingInv

\* It holds at first ...
LEMMA PartsInit == AllInit => PartsInv
  <1>1. AllInit => (part = "announced" => Uncrossed)
    BY DEF AllInit, Announced!Init, Uncrossed
  <1> QED BY <1>1, RuleInit, DesignsInit, GateInit, TrailInit, SharedInit, PushInit, ResolveInit, AnnouncedStart,
             FailingStart DEF PartsInv

\* ... and after every step.
LEMMA PartsNext == PartsInv /\ [AllNext]_allVars => PartsInv'
  <1> SUFFICES ASSUME PartsInv, [AllNext]_allVars PROVE PartsInv'
    OBVIOUS
  <1>1. part' = part
    BY PartStep
  <1>2. part = "gates" => GateInv'
    BY <1>1, GateNext DEF PartsInv
  <1>3. part = "announced" => AnnouncedInv' /\ Uncrossed'
    BY PartStep, AnnouncedNext, NoneCrosses DEF PartsInv
  <1>4. part = "failing" => FailingInv'
    BY PartStep, FailingNext DEF PartsInv
  <1> QED BY <1>1, <1>2, <1>3, <1>4, RuleNext, DesignsNext, TrailNext, SharedNext, PushNext, ResolveNext
          DEF PartsInv

\* What is recorded adds up, whatever runs at once and whatever fails, for any
\* number of requests, bases, designs, stages, items, risks, mutations and
\* fields (RecordsAddUp of MCRecords: gistm.py, geotech.py, stagegates.py,
\* audit.py, sync.py).
THEOREM AllRecordsAddUp == AllSpec => []RecordsAddUp
  <1>1. AllSpec => []VersionsCount
    BY AllBasesBehave, SpecVersionsCount, PTL
  <1>2. PartsInv /\ VersionsCount => RecordsAddUp
    <2> SUFFICES ASSUME PartsInv, VersionsCount PROVE RecordsAddUp
      OBVIOUS
    <2>1. part = "designs" => Evaluations!TypeOK /\ Evaluations!EvaluatedInForce
      BY DesignsHold DEF PartsInv
    <2>2. part = "rules" => Rules!LowerBoundsDecide
      BY RuleHolds DEF PartsInv
    <2>3. part = "gates" => GateUse!TypeOK /\ GateUse!AllOrNothing
      BY DEF PartsInv, GateInv
    <2>4. part = "trail" => Trail!ChainVerifies /\ Trail!EveryMutationRecorded /\ Trail!PullMissesNothing
      BY TrailHolds DEF PartsInv
    <2>5. part = "shared_trail" => SharedTrail!TypeOK /\ SharedTrail!ChainsBackwards
      BY SharedHolds DEF PartsInv
    <2>6. part = "pushes" => Pushes!AnsweredIsAccountedFor /\ Pushes!ServerChangeIsSeen
      BY PushHolds DEF PartsInv
    <2>7. part = "resolves" => Resolves!TypeOK
      BY ResolveTypesAre DEF PartsInv, ResolveInv
    <2> QED BY <2>1, <2>2, <2>3, <2>4, <2>5, <2>6, <2>7 DEF RecordsAddUp
  <1> QED BY <1>1, <1>2, PartsInit, PartsNext, PTL DEF AllSpec

\* A decision is not taken back by what happens next: a facility that grows
\* keeps the errors of its design, a gate is approved with every item done and
\* no blocking risk, a conflict stays as it was resolved (DecisionsStand of
\* MCRecords: gistm.py, stagegates.py, sync.py).
THEOREM AllDecisionsStand == AllSpec => DecisionsStand
  <1>1. PartsInv /\ PartsInv' /\ [AllNext]_allVars
        => [/\ part = "rules" => Rules!GrowthNeverAbsolves /\ Rules!FloodWarningStays
            /\ part = "gates" => GateUse!ApprovalIsClear
            /\ part = "resolves" => Resolves!ResolutionIsFinal]_allVars
    BY RuleDecisions, GateDecisions, ResolveNext DEF PartsInv
  <1> QED BY <1>1, PartsInit, PartsNext, PTL DEF AllSpec, DecisionsStand

\* At rest, a module that is complete is up to date with every source whose
\* change a cascade announced, whatever the users of a project send and whichever
\* generations fail (PipelineTells of MCRecords: routes/pipeline.py).
THEOREM AllPipelineTells == AllSpec => []PipelineTells
  <1>1. PartsInv => PipelineTells
    BY AnnouncedHolds DEF PartsInv, PipelineTells
  <1> QED BY <1>1, PartsInit, PartsNext, PTL DEF AllSpec

\* However many regenerations and other requests overlap: an unforced regeneration
\* completes a module only while its sources are complete, and one that stops at
\* a failure leaves no target below it complete, except where another request set
\* that very module in the meantime; also where the process is killed in between
\* (PipelineOrder of MCRecords: routes/pipeline.py).
THEOREM AllPipelineOrder == AllSpec => PipelineOrder
  <1>1. PartsInv /\ [AllNext]_allVars
        => [part = "failing" => Failing!GeneratedFromComplete /\ Failing!NothingCompleteBelowFailure]_allVars
    BY FailingOrder DEF PartsInv
  <1> QED BY <1>1, PartsInit, PartsNext, PTL DEF AllSpec, PipelineOrder

\* One basis is active at most (OneActive: gistm.py).
THEOREM AllOneActive == AllSpec => []OneActive
  BY AllBasesBehave, SpecOneActive, PTL

\* An activation replaces the active basis in a single step of BasisRegister
\* (ImplementsRegister: gistm.py).
THEOREM AllImplementsRegister == AllSpec => ImplementsRegister
  BY AllBasesBehave, SpecImplementsRegister, PTL
=============================================================================
