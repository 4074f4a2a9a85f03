-------------------------- MODULE Flowsheets_proofs --------------------------
(***************************************************************************)
(* What holds of flowsheets and of what is compiled from them: the order   *)
(* and the branches, compilations, templates and criteria, the tree of     *)
(* operations.  Each part of MCFlowsheets has an inductive invariant; a     *)
(* step of another part leaves its data alone (PartStep), so that the       *)
(* theorems at the end join them.  The order is for any number of blocks.   *)
(***************************************************************************)
EXTENDS MCFlowsheets, TLAPS, FiniteSetTheorems, WellFoundedInduction, SequenceTheorems

\* The natural numbers are well-founded under <.
LEMMA NatOrder ==
  \E R : IsWellFoundedOn(R, Nat) /\ \A m, n \in Nat : m < n => <<m, n>> \in R
  <1>1. \A m, n \in Nat : m < n => <<m, n>> \in OpToRel(<, Nat)
    BY Zenon DEF OpToRel
  <1> QED BY <1>1, NatLessThanWellFounded, Zenon

\* Some numbers have a least one ...
LEMMA LeastNat ==
  ASSUME NEW T, T \subseteq Nat, T # {}
  PROVE  \E n \in T : \A m \in T : n <= m
  <1>1. PICK R : IsWellFoundedOn(R, Nat) /\ \A m, n \in Nat : m < n => <<m, n>> \in R
    BY NatOrder
  <1>2. PICK n \in T : \A m \in T : ~(<<m, n>> \in R)
    <2>1. IsWellFoundedOn(R, Nat)
      BY <1>1
    <2> QED BY <2>1, WFMin, Zenon
  <1>3. \A m \in T : ~(m < n)
    BY <1>1, <1>2
  <1> QED BY <1>3

sortData == vars
treeData == <<recent, parent, home, treeReq>>
valueData == <<value, source, lims, valueReq>>
branchData == <<edges, labelled, trunk, node, todo, visited, branches>>
compileData == <<drawn, criteria, edits, snapshot, compilation, compileReq>>
templateData == <<tpl, clock, tplReq>>
stepData == <<dcOp, crit, status, snaps, dcReq>>
topologyData == <<input, blocks, links, ends, section, changes>>
cascadeData == <<deps, given, dcQueue, dcOrder, dcTodo, values, updates, alerts, pc>>

\* A step is one of the part that runs, or changes nothing of its data.
LEMMA PartStep ==
  ASSUME [AllNext]_allVars
  PROVE  /\ part' = part
         /\ [Next]_sortData /\ (part # "sort" => UNCHANGED vars)
         /\ part = "tree" => [Tree!Next]_treeData
         /\ part = "shared_tree" => [SharedTree!Next]_treeData
         /\ part = "values" => [NodeValues!Next]_valueData
         /\ part = "branches" => [Subgraphs!Next]_branchData
         /\ part = "compile" => [Compile!Next]_compileData
         /\ part = "compile_race" => [CompileRace!Next]_compileData
         /\ part = "templates" => [TemplateUse!Next]_templateData
         /\ part = "snapshots" => [SnapshotUse!Next]_templateData
         /\ part = "freezes" => [Freezes!Next]_stepData
         /\ part = "steps" => [StepMarks!Next]_stepData
         /\ part = "marks" => [Marks!Next]_stepData
         /\ part = "cascade" => [Cascade!Next]_cascadeData
         /\ part = "topology" => [Topology!Next]_topologyData
  <1>1. CASE UNCHANGED allVars
    BY <1>1 DEF allVars, vars, sortData, treeData, valueData, branchData, compileData, templateData,
       stepData, cascadeData, topologyData
  <1> USE DEF Rest, vars, sortData, treeData, valueData, branchData, compileData, templateData, stepData, cascadeData, topologyData
  <1>2. CASE SortStep
    BY <1>2 DEF SortStep
  <1>3. CASE TreeStep
    BY <1>3 DEF TreeStep
  <1>4. CASE SharedTreeStep
    BY <1>4 DEF SharedTreeStep
  <1>5. CASE ValueStep
    BY <1>5 DEF ValueStep
  <1>6. CASE BranchStep
    BY <1>6 DEF BranchStep
  <1>7. CASE CompileStep
    BY <1>7 DEF CompileStep
  <1>8. CASE MarksStep
    BY <1>8 DEF MarksStep
  <1>9. CASE CompileRaceStep
    BY <1>9 DEF CompileRaceStep
  <1>10. CASE TemplateStep
    BY <1>10 DEF TemplateStep
  <1>11. CASE SnapshotStep
    BY <1>11 DEF SnapshotStep
  <1>12. CASE FreezeStep
    BY <1>12 DEF FreezeStep
  <1>13. CASE StepsStep
    BY <1>13 DEF StepsStep
  <1>14. CASE CascadeStep
    BY <1>14 DEF CascadeStep
  <1>15. CASE TopologyStep
    BY <1>15 DEF TopologyStep
  <1> QED BY <1>1, <1>2, <1>3, <1>4, <1>5, <1>6, <1>7, <1>8, <1>9, <1>10, <1>11, <1>12, <1>13, <1>14, <1>15 DEF AllNext

-----------------------------------------------------------------------------
(* The execution order (TopoSort), for any number of blocks and connections. *)

Last == order[Len(order)]

\* The connection has been counted down: its block was taken, and if it is the
\* block taken last the connection is behind `at'.
Followed(c) == conns[c].from \in Elems(order) /\ (conns[c].from = Last => c < at)
Waiting(v) == {c \in Into(v) : ~Followed(c)}

Taken == at <= Len(conns) => order # <<>>
Degrees == \A v \in Node : in_degree[v] = Cardinality(Waiting(v))
Ready == \A v \in Node : in_degree[v] = 0 <=> v \in Elems(queue) \cup Elems(order)
Once(s) == \A i, j \in DOMAIN s : s[i] = s[j] => i = j
Distinct == Once(queue) /\ Once(order) /\ Elems(queue) \cap Elems(order) = {}

IInv == TypeOK /\ Taken /\ Degrees /\ Ready /\ Distinct /\ OrderRespects

\* A connection has a number, and its blocks are blocks.
LEMMA Conns ==
  ASSUME conns \in Seq(Conn)
  PROVE  /\ \A c \in DOMAIN conns : conns[c].from \in Node /\ conns[c].to \in Node
         /\ \A v : IsFiniteSet(Into(v)) /\ IsFiniteSet(Waiting(v)) /\ Into(v) \subseteq DOMAIN conns
  <1>1. \A c \in DOMAIN conns : conns[c].from \in Node /\ conns[c].to \in Node
    <2> SUFFICES ASSUME NEW c \in DOMAIN conns PROVE conns[c].from \in Node /\ conns[c].to \in Node
      OBVIOUS
    <2>1. conns[c] \in Conn
      OBVIOUS
    <2> QED BY <2>1 DEF Conn
  <1>2. IsFiniteSet(DOMAIN conns)
    <2>1. DOMAIN conns = 1 .. Len(conns) /\ Len(conns) \in Nat
      OBVIOUS
    <2>2. 1 \in Int /\ Len(conns) \in Int
      BY <2>1
    <2>3. IsFiniteSet(1 .. Len(conns))
      BY <2>2, FS_Interval
    <2> QED BY <2>1, <2>3
  <1>3. ASSUME NEW v PROVE IsFiniteSet(Into(v)) /\ IsFiniteSet(Waiting(v)) /\ Into(v) \subseteq DOMAIN conns
    <2>1. Into(v) \in SUBSET DOMAIN conns /\ Waiting(v) \in SUBSET Into(v)
      BY DEF Into, Waiting
    <2> QED BY <1>2, <2>1, FS_Subset
  <1> QED BY <1>1, <1>3

\* Without taking a step: no block is counted down below what waits.
LEMMA NoneWaits ==
  ASSUME TypeOK, Degrees, NEW v \in Node
  PROVE  in_degree[v] = 0 <=> Waiting(v) = {}
  <1>1. IsFiniteSet(Waiting(v))
    BY Conns DEF TypeOK
  <1> QED BY <1>1, FS_EmptySet DEF Degrees

\* What Append does to the elements of a sequence and their number.
LEMMA AppendFacts ==
  ASSUME NEW S, NEW s \in Seq(S), NEW x \in S
  PROVE  /\ Append(s, x) \in Seq(S) /\ Len(Append(s, x)) = Len(s) + 1
         /\ Append(s, x)[Len(s) + 1] = x
         /\ \A i \in DOMAIN s : Append(s, x)[i] = s[i] /\ i \in DOMAIN Append(s, x)
         /\ DOMAIN Append(s, x) = DOMAIN s \cup {Len(s) + 1}
         /\ Elems(Append(s, x)) = Elems(s) \cup {x}
  <1>1. /\ Append(s, x) \in Seq(S) /\ Len(Append(s, x)) = Len(s) + 1
        /\ Append(s, x)[Len(s) + 1] = x
        /\ \A i \in DOMAIN s : Append(s, x)[i] = s[i] /\ i \in DOMAIN Append(s, x)
        /\ DOMAIN Append(s, x) = DOMAIN s \cup {Len(s) + 1}
    OBVIOUS
  <1>2. Elems(Append(s, x)) = Elems(s) \cup {x}
    BY <1>1 DEF Elems
  <1> QED BY <1>1, <1>2

\* What Tail does to the elements of a sequence and their number.
LEMMA TailFacts ==
  ASSUME NEW S, NEW s \in Seq(S), s # <<>>, Once(s)
  PROVE  /\ Head(s) \in S /\ Head(s) \in Elems(s) /\ Tail(s) \in Seq(S) /\ Once(Tail(s))
         /\ Elems(Tail(s)) = Elems(s) \ {Head(s)}
  <1>1. /\ Head(s) \in S /\ Head(s) = s[1] /\ 1 \in DOMAIN s /\ Tail(s) \in Seq(S)
        /\ Len(Tail(s)) = Len(s) - 1 /\ Len(s) \in Nat \ {0}
        /\ DOMAIN s = 1 .. Len(s) /\ DOMAIN Tail(s) = 1 .. Len(s) - 1
        /\ \A i \in DOMAIN Tail(s) : Tail(s)[i] = s[i + 1]
    OBVIOUS
  <1>2. Once(Tail(s))
    BY <1>1 DEF Once
  <1>3. Elems(Tail(s)) \subseteq Elems(s) \ {Head(s)}
    BY <1>1 DEF Elems, Once
  <1>4. ASSUME NEW y \in Elems(s) \ {Head(s)} PROVE y \in Elems(Tail(s))
    <2>1. PICK i \in DOMAIN s : s[i] = y
      BY DEF Elems
    <2>2. i - 1 \in DOMAIN Tail(s) /\ Tail(s)[i - 1] = y
      BY <1>1, <2>1
    <2> QED BY <2>2 DEF Elems
  <1> QED BY <1>1, <1>2, <1>3, <1>4 DEF Elems

\* The sort begins with the blocks that nothing feeds.
LEMMA InitIInv == Init => IInv
  <1> SUFFICES ASSUME Init PROVE IInv
    OBVIOUS
  <1> USE SizeAssumption
  <1>1. conns \in Seq(Conn) /\ queue \in Seq(Node)
    BY DEF Init, SeqUpTo
  <1>2. in_degree \in [Node -> Nat]
    <2>1. \A v \in Node : Cardinality(Into(v)) \in Nat
      BY <1>1, Conns, FS_CardinalityType
    <2> QED BY <2>1 DEF Init, Inlets
  <1>3. TypeOK
    BY <1>1, <1>2 DEF TypeOK, Init
  <1>4. Elems(order) = {}
    BY DEF Init, Elems
  <1>5. Degrees
    BY <1>4 DEF Degrees, Waiting, Followed, Init, Inlets, Into
  <1>6. Ready
    BY <1>4 DEF Ready, Init, Sources
  <1>7. Once(queue)
    <2>1. \A i \in DOMAIN queue : i \in Nat /\ queue[i] \in Nat
      BY <1>1 DEF Node
    <2>2. \A i, j \in DOMAIN queue : i < j => queue[i] < queue[j]
      BY DEF Init, Sources
    <2>3. ASSUME NEW i \in DOMAIN queue, NEW j \in DOMAIN queue, queue[i] = queue[j] PROVE i = j
      <3>1. ~(i < j) /\ ~(j < i)
        BY <2>1, <2>2, <2>3
      <3> QED BY <2>1, <3>1
    <2> QED BY <2>3 DEF Once
  <1>8. Distinct /\ OrderRespects /\ Taken
    BY <1>1, <1>4, <1>7 DEF Distinct, Once, OrderRespects, Taken, Init
  <1> QED BY <1>3, <1>5, <1>6, <1>8 DEF IInv

\* Taking the first block of the queue keeps the invariant.
LEMMA TakeIInv == IInv /\ Take => IInv'
  <1> SUFFICES ASSUME IInv, Take PROVE IInv'
    OBVIOUS
  <1> USE DEF IInv
  <1> DEFINE n == Head(queue)
  <1>1. /\ n \in Node /\ n \in Elems(queue) /\ Tail(queue) \in Seq(Node) /\ Once(Tail(queue))
        /\ Elems(Tail(queue)) = Elems(queue) \ {n} /\ n \notin Elems(order)
    BY TailFacts DEF TypeOK, Distinct, Take
  <1>2. /\ order' \in Seq(Node) /\ Len(order') = Len(order) + 1 /\ order'[Len(order) + 1] = n
        /\ \A i \in DOMAIN order : order'[i] = order[i]
        /\ DOMAIN order' = DOMAIN order \cup {Len(order) + 1}
        /\ Elems(order') = Elems(order) \cup {n} /\ Len(order) \in Nat /\ DOMAIN order = 1 .. Len(order)
    <2>1. order \in Seq(Node) /\ order' = Append(order, n)
      BY DEF TypeOK, Take
    <2>2. Len(order) \in Nat /\ DOMAIN order = 1 .. Len(order)
      BY <2>1
    <2> HIDE DEF n
    <2> QED BY <1>1, <2>1, <2>2, AppendFacts
  <1>3. UNCHANGED <<conns, in_degree>> /\ queue' = Tail(queue) /\ at' = 1 /\ at = Len(conns) + 1 /\ Len(conns) \in Nat
    BY DEF Take, flowsheet, TypeOK
  <1>4. TypeOK'
    BY <1>1, <1>2, <1>3 DEF TypeOK
  <1>5. Taken'
    BY <1>2 DEF Taken
  <1>6. Last' = n
    BY <1>2 DEF Last
  <1>7. ASSUME NEW c \in DOMAIN conns PROVE Followed(c)' <=> Followed(c)
    <2>1. c < at /\ ~(c < at')
      BY <1>3 DEF TypeOK
    <2> QED BY <1>1, <1>2, <1>3, <1>6, <2>1 DEF Followed, Elems
  <1>8. \A v \in Node : Waiting(v)' = Waiting(v)
    BY <1>3, <1>7 DEF Waiting, Into
  <1>9. Degrees'
    BY <1>3, <1>8 DEF Degrees
  <1>10. Elems(queue') \cup Elems(order') = Elems(queue) \cup Elems(order)
    BY <1>1, <1>2, <1>3
  <1>11. Ready'
    BY <1>3, <1>10 DEF Ready, Elems
  <1>12. Once(order')
    <2>1. \A i \in DOMAIN order : order[i] # n
      BY <1>1 DEF Elems
    <2>2. Once(order)
      BY DEF Distinct
    <2> QED BY <1>2, <2>1, <2>2 DEF Once
  <1>13. Distinct'
    <2>1. Once(queue)'
      BY <1>1, <1>3 DEF Once
    <2>2. (Elems(queue) \cap Elems(order))' = {}
      <3>1. Elems(queue)' = Elems(Tail(queue)) /\ Elems(order)' = Elems(order')
        BY <1>3 DEF Elems
      <3> QED BY <1>1, <1>2, <3>1 DEF Distinct
    <2> QED BY <1>12, <2>1, <2>2 DEF Distinct, Once
  <1>14. ASSUME NEW i \in DOMAIN order', NEW c \in Into(order'[i])
         PROVE \E j \in DOMAIN order' : j < i /\ order'[j] = conns[c].from
    <2>1. CASE i \in DOMAIN order
      <3>1. PICK j \in DOMAIN order : j < i /\ order[j] = conns[c].from
        BY <1>2, <2>1 DEF OrderRespects
      <3> QED BY <1>2, <3>1
    <2>2. CASE i = Len(order) + 1
      <3>1. in_degree[n] = 0
        BY <1>1 DEF Ready
      <3>2. c \in Into(n) /\ Waiting(n) = {}
        BY <1>1, <1>2, <2>2, <3>1, NoneWaits
      <3>3. conns[c].from \in Elems(order)
        BY <3>2 DEF Waiting, Followed
      <3>4. PICK j \in DOMAIN order : order[j] = conns[c].from
        BY <3>3 DEF Elems
      <3> QED BY <1>2, <2>2, <3>4
    <2> QED BY <1>2, <2>1, <2>2
  <1>15. OrderRespects'
    BY <1>3, <1>12, <1>14 DEF OrderRespects, Into, Once
  <1> QED BY <1>4, <1>5, <1>9, <1>11, <1>13, <1>15

\* Counting a connection down keeps it.
LEMMA FollowIInv == IInv /\ Follow => IInv'
  <1> SUFFICES ASSUME IInv, Follow PROVE IInv'
    OBVIOUS
  <1> USE DEF IInv
  <1>1. /\ UNCHANGED <<conns, order>> /\ at' = at + 1 /\ at \in DOMAIN conns /\ Len(conns) \in Nat
        /\ at \in Nat /\ at' \in 1 .. Len(conns) + 1 /\ order # <<>> /\ order \in Seq(Node)
    BY DEF Follow, flowsheet, TypeOK, Taken
  <1>2. Last \in Elems(order)
    BY <1>1 DEF Last, Elems
  <1>3. Taken' /\ OrderRespects' /\ Once(order)'
    BY <1>1 DEF Taken, OrderRespects, Into, Distinct, Once
  <1>4. PICK v \in Node : v = conns[at].to
    BY <1>1, Conns DEF TypeOK
  <1>5. ASSUME NEW c \in DOMAIN conns
        PROVE  Followed(c)' <=> Followed(c) \/ (c = at /\ conns[at].from = Last)
    <2>1. c \in Nat
      BY <1>1
    <2>2. c < at' <=> c < at \/ c = at
      BY <1>1, <2>1
    <2> QED BY <1>1, <1>2, <2>2 DEF Followed, Last, Elems
  <1>6. CASE conns[at].from # Last
    <2>1. UNCHANGED <<in_degree, queue>>
      BY <1>6 DEF Follow, Last
    <2>2. \A u \in Node : Waiting(u)' = Waiting(u)
      BY <1>1, <1>5, <1>6 DEF Waiting, Into
    <2>3. TypeOK'
      BY <1>1, <2>1 DEF TypeOK
    <2>4. Degrees' /\ Ready' /\ Distinct'
      <3>1. Degrees'
        BY <2>1, <2>2 DEF Degrees
      <3>2. Ready' /\ Distinct'
        <4>1. Elems(queue)' = Elems(queue) /\ Elems(order)' = Elems(order)
          BY <1>1, <2>1 DEF Elems
        <4>2. Ready'
          BY <2>1, <4>1 DEF Ready
        <4>3. Once(queue)'
          BY <2>1 DEF Distinct, Once
        <4> QED BY <1>3, <4>1, <4>2, <4>3 DEF Distinct
      <3> QED BY <3>1, <3>2
    <2> QED BY <1>3, <2>3, <2>4
  <1>7. CASE conns[at].from = Last
    <2>1. /\ in_degree' = [in_degree EXCEPT ![v] = @ - 1]
          /\ queue' = IF in_degree[v] - 1 = 0 THEN Append(queue, v) ELSE queue
      BY <1>4, <1>7 DEF Follow, Last, IsReady
    <2>2. at \in Waiting(v)
      <3>1. ~Followed(at)
        BY <1>1, <1>7 DEF Followed
      <3> QED BY <1>1, <1>4, <3>1 DEF Waiting, Into
    <2>3. Waiting(v)' = Waiting(v) \ {at}
      <3>1. \A c \in DOMAIN conns : ~Followed(c)' <=> ~Followed(c) /\ c # at
        BY <1>5, <1>7
      <3> QED BY <1>1, <3>1 DEF Waiting, Into
    <2>4. \A u \in Node : u # v => Waiting(u)' = Waiting(u)
      <3>1. \A c \in DOMAIN conns : c # at => (Followed(c)' <=> Followed(c))
        BY <1>5
      <3> QED BY <1>1, <1>4, <3>1 DEF Waiting, Into
    <2>5. in_degree[v] # 0 /\ in_degree[v] \in Nat
      BY <1>4, <2>2, NoneWaits DEF TypeOK
    <2>6. /\ in_degree' \in [Node -> Nat] /\ in_degree'[v] = in_degree[v] - 1
          /\ \A u \in Node : u # v => in_degree'[u] = in_degree[u]
      BY <1>4, <2>1, <2>5 DEF TypeOK
    <2>7. Cardinality(Waiting(v) \ {at}) = Cardinality(Waiting(v)) - 1
      <3>1. IsFiniteSet(Waiting(v))
        BY Conns DEF TypeOK
      <3> QED BY <2>2, <3>1, FS_RemoveElement
    <2>8. Degrees'
      <3>1. ASSUME NEW u \in Node PROVE in_degree'[u] = Cardinality(Waiting(u)')
        BY <1>4, <2>3, <2>4, <2>6, <2>7 DEF Degrees
      <3> QED BY <3>1 DEF Degrees
    <2>9. v \notin Elems(queue) /\ v \notin Elems(order)
      BY <1>4, <2>5 DEF Ready
    <2>10. /\ queue' \in Seq(Node) /\ Once(queue)'
           /\ Elems(queue') = IF in_degree'[v] = 0 THEN Elems(queue) \cup {v} ELSE Elems(queue)
      <3>1. CASE in_degree'[v] # 0
        BY <2>1, <2>5, <2>6, <3>1 DEF TypeOK, Distinct
      <3>2. CASE in_degree'[v] = 0
        <4>1. queue' = Append(queue, v)
          BY <2>1, <2>6, <3>2
        <4>2. queue \in Seq(Node)
          BY DEF TypeOK
        <4>3. /\ queue' \in Seq(Node) /\ queue'[Len(queue) + 1] = v
              /\ \A i \in DOMAIN queue : queue'[i] = queue[i]
              /\ DOMAIN queue' = DOMAIN queue \cup {Len(queue) + 1}
              /\ Elems(queue') = Elems(queue) \cup {v}
          BY <1>4, <4>1, <4>2, AppendFacts
        <4>4. \A i \in DOMAIN queue : queue[i] # v
          BY <2>9 DEF Elems
        <4>5. Once(queue)
          BY DEF Distinct
        <4>6. Once(queue')
          BY <4>3, <4>4, <4>5 DEF Once
        <4> QED BY <3>2, <4>3, <4>6 DEF Once
      <3> QED BY <3>1, <3>2
    <2>11. TypeOK'
      BY <1>1, <2>6, <2>10 DEF TypeOK
    <2>12. Distinct'
      <3>1. Elems(queue') \cap Elems(order) = {}
        BY <2>9, <2>10 DEF Distinct
      <3> QED BY <1>1, <1>3, <2>10, <3>1 DEF Distinct, Elems
    <2>13. Ready'
      <3>1. ASSUME NEW u \in Node PROVE in_degree'[u] = 0 <=> u \in Elems(queue') \cup Elems(order)
        <4>1. CASE u = v
          BY <2>9, <2>10, <4>1
        <4>2. CASE u # v
          BY <2>6, <2>10, <4>2 DEF Ready
        <4> QED BY <4>1, <4>2
      <3> QED BY <1>1, <3>1 DEF Ready, Elems
    <2> QED BY <1>3, <2>8, <2>11, <2>12, <2>13
  <1> QED BY <1>6, <1>7

\* Stuttering.
LEMMA StutterIInv == IInv /\ UNCHANGED vars => IInv'
  <1> SUFFICES ASSUME IInv, UNCHANGED vars PROVE IInv'
    OBVIOUS
  <1> USE DEF IInv, vars, flowsheet
  <1>1. TypeOK' /\ Taken' /\ Once(queue)' /\ Once(order)'
    BY DEF TypeOK, Taken, Distinct, Once
  <1>2. Elems(queue)' = Elems(queue) /\ Elems(order)' = Elems(order)
    BY DEF Elems
  <1>3. Distinct'
    BY <1>1, <1>2 DEF Distinct
  <1>4. Ready'
    BY DEF Ready, Elems
  <1>5. \A v \in Node : Waiting(v)' = Waiting(v)
    BY DEF Waiting, Followed, Last, Into, Elems
  <1>6. Degrees'
    BY <1>5 DEF Degrees
  <1>7. OrderRespects'
    BY DEF OrderRespects, Into
  <1> QED BY <1>1, <1>3, <1>4, <1>6, <1>7

\* What comes before a block of the order: Upstream is the smallest closed set.
LEMMA UpstreamFacts ==
  ASSUME conns \in Seq(Conn), NEW v
  PROVE  /\ Upstream(v) \subseteq Node
         /\ \A u \in Node, w \in Upstream(v) \cup {v} : Feeds(u, w) => u \in Upstream(v)
         /\ \A S \in SUBSET Node : (\A u \in Node, w \in S \cup {v} : Feeds(u, w) => u \in S) => Upstream(v) \subseteq S
  <1>1. Upstream(v) \subseteq Node
    BY DEF Upstream
  <1>2. \A S \in SUBSET Node : (\A u \in Node, w \in S \cup {v} : Feeds(u, w) => u \in S) => Upstream(v) \subseteq S
    BY DEF Upstream
  <1>3. ASSUME NEW u \in Node, NEW w \in Upstream(v) \cup {v}, Feeds(u, w),
               NEW S \in SUBSET Node, \A x \in Node, y \in S \cup {v} : Feeds(x, y) => x \in S
        PROVE  u \in S
    <2>1. w \in S \cup {v}
      BY <1>2, <1>3
    <2> QED BY <1>3, <2>1
  <1>4. ASSUME NEW u \in Node, NEW w \in Upstream(v) \cup {v}, Feeds(u, w) PROVE u \in Upstream(v)
    BY <1>3, <1>4 DEF Upstream
  <1> QED BY <1>1, <1>2, <1>4

\* What is upstream of a block upstream of v is upstream of v.
LEMMA UpstreamGrows ==
  ASSUME conns \in Seq(Conn), NEW v, NEW w \in Upstream(v)
  PROVE  Upstream(w) \subseteq Upstream(v)
  <1>1. /\ Upstream(v) \in SUBSET Node
        /\ \A x \in Node, y \in Upstream(v) \cup {w} : Feeds(x, y) => x \in Upstream(v)
    BY UpstreamFacts
  <1> QED BY <1>1, UpstreamFacts

\* A block is ordered behind everything that is upstream of it.
LEMMA OrderedUpstream ==
  ASSUME IInv, NEW i \in DOMAIN order
  PROVE  /\ Upstream(order[i]) \subseteq {order[j] : j \in {k \in DOMAIN order : k < i}}
         /\ order[i] \notin Upstream(order[i])
  <1>1. PICK S : S = {order[j] : j \in {k \in DOMAIN order : k < i}}
    OBVIOUS
  <1>2. order \in Seq(Node) /\ Len(order) \in Nat /\ DOMAIN order = 1 .. Len(order) /\ conns \in Seq(Conn)
    BY DEF IInv, TypeOK
  <1>3. S \in SUBSET Node
    BY <1>1, <1>2
  <1>4. ASSUME NEW u \in Node, NEW w \in S \cup {order[i]}, Feeds(u, w) PROVE u \in S
    <2>1. PICK k \in DOMAIN order : w = order[k] /\ k <= i
      BY <1>1, <1>2
    <2>2. PICK c \in Into(order[k]) : conns[c].from = u
      BY <1>4, <2>1 DEF Feeds
    <2>3. PICK j \in DOMAIN order : j < k /\ order[j] = u
      BY <2>2 DEF IInv, OrderRespects
    <2> QED BY <1>1, <1>2, <2>1, <2>3
  <1>5. Upstream(order[i]) \subseteq S
    BY <1>2, <1>3, <1>4, UpstreamFacts
  <1>6. order[i] \notin S
    BY <1>1, <1>2 DEF IInv, OrderRespects
  <1> QED BY <1>1, <1>5, <1>6

\* Where every block of a set is fed from the set, one of them is on a cycle.
Fed(A) == \A v \in A : \E u \in A : Feeds(u, v)
\* Blocks each of which is fed by one of them include one on a cycle.
LEMMA FedHasCycle ==
  ASSUME conns \in Seq(Conn), NEW U \in SUBSET Node, U # {}, Fed(U)
  PROVE  \E v \in U : OnCycle(v)
  <1>1. IsFiniteSet(Node)
    BY SizeAssumption, FS_Interval DEF Node
  <1>2. \A A \in SUBSET Node : IsFiniteSet(A) /\ Cardinality(A) \in Nat
    BY <1>1, FS_Subset, FS_CardinalityType
  <1>3. PICK T : T = {Cardinality(A) : A \in {B \in SUBSET U : B # {} /\ Fed(B)}}
    OBVIOUS
  <1>4. T \subseteq Nat /\ T # {}
    <2>1. Cardinality(U) \in T
      BY <1>3
    <2>2. \A A \in SUBSET U : Cardinality(A) \in Nat
      BY <1>2
    <2> QED BY <1>3, <2>1, <2>2
  <1>5. PICK A \in SUBSET U : A # {} /\ Fed(A) /\ \A B \in SUBSET U : B # {} /\ Fed(B) => Cardinality(A) <= Cardinality(B)
    <2>1. PICK n \in T : \A m \in T : n <= m
      BY <1>4, LeastNat
    <2> QED BY <1>3, <2>1
  <1>6. PICK v \in A : TRUE
    BY <1>5
  <1>7. PICK B : B = A \cap Upstream(v)
    OBVIOUS
  <1>8. /\ Upstream(v) \subseteq Node
        /\ \A u \in Node, w \in Upstream(v) \cup {v} : Feeds(u, w) => u \in Upstream(v)
    BY UpstreamFacts
  <1>9. B # {} /\ Fed(B) /\ B \in SUBSET U /\ B \in SUBSET A /\ A \in SUBSET Node
    <2>1. ASSUME NEW w \in A, w \in Upstream(v) \cup {v} PROVE \E u \in B : Feeds(u, w)
      <3>1. PICK u \in A : Feeds(u, w)
        BY <1>5 DEF Fed
      <3>2. u \in Node
        OBVIOUS
      <3> QED BY <1>7, <1>8, <2>1, <3>1, <3>2
    <2> QED BY <1>6, <1>7, <2>1 DEF Fed
  <1>10. Cardinality(A) <= Cardinality(B)
    BY <1>5, <1>9
  <1>11. Cardinality(B) <= Cardinality(A) /\ (Cardinality(A) = Cardinality(B) => A = B)
    BY <1>2, <1>9, FS_Subset
  <1>12. A = B
    <2>1. Cardinality(A) \in Nat /\ Cardinality(B) \in Nat
      BY <1>2, <1>9
    <2> QED BY <1>10, <1>11, <2>1
  <1> QED BY <1>6, <1>7, <1>12 DEF OnCycle

\* A block that the sort leaves out has an inlet that it leaves out.
LEMMA LeavesOutFed == ASSUME IInv PROVE LeftOverIsFed
  <1> SUFFICES ASSUME Done, NEW v \in Node \ Elems(order)
               PROVE  \E c \in Into(v) : conns[c].from \notin Elems(order)
    BY DEF LeftOverIsFed
  <1>1. Elems(queue) = {}
    BY DEF Done, Elems
  <1>2. Waiting(v) # {}
    BY <1>1, NoneWaits DEF IInv, Ready
  <1>3. PICK c \in Into(v) : ~Followed(c)
    BY <1>2 DEF Waiting
  <1>4. c < at
    BY <1>3 DEF IInv, TypeOK, Into, Done
  <1> QED BY <1>3, <1>4 DEF Followed

\* It leaves out what is on a cycle or downstream of one, and nothing else.
LEMMA LeavesOutCyclic == ASSUME IInv PROVE LeftOverIsCyclic
  <1> SUFFICES ASSUME Done, NEW v \in Node
               PROVE  v \in Elems(order) <=> \A u \in Upstream(v) \cup {v} : ~OnCycle(u)
    BY DEF LeftOverIsCyclic
  <1>0. conns \in Seq(Conn)
    BY DEF IInv, TypeOK
  <1>1. ASSUME v \in Elems(order) PROVE \A u \in Upstream(v) \cup {v} : ~OnCycle(u)
    <2>1. PICK i \in DOMAIN order : order[i] = v
      BY <1>1 DEF Elems
    <2>2. ASSUME NEW u \in Upstream(v) \cup {v} PROVE ~OnCycle(u)
      <3>1. PICK j \in DOMAIN order : order[j] = u
        BY <2>1, OrderedUpstream
      <3> QED BY <3>1, OrderedUpstream DEF OnCycle
    <2> QED BY <2>2
  <1>2. ASSUME v \notin Elems(order) PROVE \E u \in Upstream(v) \cup {v} : OnCycle(u)
    <2>1. PICK U : U = (Upstream(v) \cup {v}) \ Elems(order)
      OBVIOUS
    <2>2. U \in SUBSET Node /\ U # {}
      BY <1>0, <1>2, <2>1, UpstreamFacts
    <2>3. Fed(U)
      <3>1. ASSUME NEW w \in U PROVE \E u \in U : Feeds(u, w)
        <4>1. PICK c \in Into(w) : conns[c].from \notin Elems(order)
          BY <2>1, <2>2, LeavesOutFed DEF LeftOverIsFed
        <4>2. conns[c].from \in Node /\ Feeds(conns[c].from, w)
          BY <1>0, <4>1, Conns DEF Feeds, Into
        <4>3. conns[c].from \in Upstream(v)
          BY <1>0, <2>1, <4>2, UpstreamFacts
        <4> QED BY <2>1, <4>1, <4>2, <4>3
      <3> QED BY <3>1 DEF Fed
    <2> QED BY <1>0, <2>1, <2>2, <2>3, FedHasCycle
  <1> QED BY <1>1, <1>2

SortInv == IInv /\ enabled \subseteq Node

\* The enabled blocks are blocks.
LEMMA SortInit == Init => SortInv
  BY InitIInv DEF Init, SortInv

\* Both hold after every step of the sort.
LEMMA SortMoves == ASSUME SortInv, [Next]_vars PROVE SortInv'
  <1>1. UNCHANGED enabled
    BY DEF Next, Take, Follow, flowsheet, vars
  <1> QED BY <1>1, TakeIInv, FollowIInv, StutterIInv DEF SortInv, Next

\* A flowsheet without a cycle has no enabled operation left out.
LEMMA NoFalseWarning == ASSUME SortInv PROVE NoFalseAlarm
  <1> SUFFICES ASSUME Done, ~Cyclic PROVE enabled_ops = topo_order
    BY DEF NoFalseAlarm, CycleDetected
  <1>1. \A v \in Node : v \in Elems(order)
    <2>1. \A v \in Node : \A u \in Upstream(v) \cup {v} : u \in Node
      BY DEF Upstream
    <2> QED BY <2>1, LeavesOutCyclic DEF SortInv, LeftOverIsCyclic, Cyclic
  <1> QED BY <1>1 DEF SortInv, enabled_ops, topo_order

-----------------------------------------------------------------------------
(* Compilations (FlowsheetCompilation), alone or together.                 *)

Ops4 == UNION Sheets
CompileAt == {"idle", "find", "create", "operations", "record", "served", "error", "died"}
AtRest == {"idle", "served", "error", "died"}
RequestOf == [at : CompileAt, of : SUBSET Ops4, left : SUBSET Ops4]
SnapshotOf == [made : BOOLEAN, ops : SUBSET Ops4, criteria : Nat]
CompileTypes ==
  /\ drawn \in Sheets /\ criteria \in Nat /\ edits \in Nat
  /\ snapshot \in [Sheets -> SnapshotOf]
  /\ compilation \in [Sheets -> BOOLEAN]
  /\ compileReq \in [{r1, r2} -> RequestOf]
  /\ \A r \in {r1, r2} : compileReq[r].at \notin AtRest => compileReq[r].of \in Sheets

\* Every way of compiling begins with no snapshot and no compilation.
LEMMA CompileInit ==
  ASSUME AllInit, part \in {"compile", "compile_race"}
  PROVE  /\ CompileTypes /\ edits = 0 /\ criteria <= 1
         /\ \A r \in {r1, r2} : compileReq[r].at = "idle" /\ compileReq[r].left = {}
         /\ \A f \in Sheets : ~compilation[f] /\ snapshot[f] = [made |-> FALSE, ops |-> {}, criteria |-> 0]
  <1>1. Compile!Init
    BY DEF AllInit
  <1> QED BY <1>1 DEF Compile!Init, Compile!NoSnapshot, Compile!NoRequest, CompileTypes, CompileAt,
       AtRest, RequestOf, SnapshotOf

\* What a request does to its own record.
LEMMA RequestGoes ==
  ASSUME CompileTypes, NEW r \in {r1, r2}, NEW a \in CompileAt,
         compileReq' = [compileReq EXCEPT ![r].at = a]
  PROVE  /\ compileReq' \in [{r1, r2} -> RequestOf]
         /\ compileReq'[r].at = a /\ compileReq'[r].of = compileReq[r].of /\ compileReq'[r].left = compileReq[r].left
         /\ \A q \in {r1, r2} : q # r => compileReq'[q] = compileReq[q]
  BY DEF CompileTypes, RequestOf

\* Who made the snapshot has all the operations to add.
LEMMA RequestFills ==
  ASSUME CompileTypes, NEW r \in {r1, r2}, compileReq[r].of \in Sheets,
         compileReq' = [compileReq EXCEPT ![r].at = "operations", ![r].left = compileReq[r].of]
  PROVE  /\ compileReq' \in [{r1, r2} -> RequestOf]
         /\ compileReq'[r].at = "operations" /\ compileReq'[r].of = compileReq[r].of
         /\ compileReq'[r].left = compileReq[r].of
         /\ \A q \in {r1, r2} : q # r => compileReq'[q] = compileReq[q]
  <1>1. compileReq[r].of \in SUBSET Ops4 /\ "operations" \in CompileAt
    BY DEF Ops4, CompileAt
  <1> QED BY <1>1 DEF CompileTypes, RequestOf

\* A request has one operation less to add.
LEMMA RequestAdds ==
  ASSUME CompileTypes, NEW r \in {r1, r2}, NEW o \in compileReq[r].left,
         compileReq' = [compileReq EXCEPT ![r].left = @ \ {o}]
  PROVE  /\ compileReq' \in [{r1, r2} -> RequestOf]
         /\ compileReq'[r].at = compileReq[r].at /\ compileReq'[r].of = compileReq[r].of
         /\ compileReq'[r].left = compileReq[r].left \ {o}
         /\ \A q \in {r1, r2} : q # r => compileReq'[q] = compileReq[q]
  BY DEF CompileTypes, RequestOf

\* What a statement does to the snapshot of a flowsheet.
LEMMA SnapshotMade ==
  ASSUME CompileTypes, NEW f \in Sheets, snapshot' = [snapshot EXCEPT ![f].made = TRUE]
  PROVE  /\ snapshot' \in [Sheets -> SnapshotOf]
         /\ snapshot'[f].made /\ snapshot'[f].ops = snapshot[f].ops /\ snapshot'[f].criteria = snapshot[f].criteria
         /\ \A g \in Sheets : g # f => snapshot'[g] = snapshot[g]
  BY DEF CompileTypes, SnapshotOf

\* An operation is added to one snapshot.
LEMMA SnapshotAdds ==
  ASSUME CompileTypes, NEW f \in Sheets, NEW o \in Ops4, snapshot' = [snapshot EXCEPT ![f].ops = @ \cup {o}]
  PROVE  /\ snapshot' \in [Sheets -> SnapshotOf]
         /\ snapshot'[f].made = snapshot[f].made /\ snapshot'[f].ops = snapshot[f].ops \cup {o}
         /\ snapshot'[f].criteria = snapshot[f].criteria
         /\ \A g \in Sheets : g # f => snapshot'[g] = snapshot[g]
  BY DEF CompileTypes, SnapshotOf

\* The criteria are copied into one snapshot.
LEMMA SnapshotCopies ==
  ASSUME CompileTypes, NEW f \in Sheets, snapshot' = [snapshot EXCEPT ![f].criteria = criteria]
  PROVE  /\ snapshot' \in [Sheets -> SnapshotOf]
         /\ snapshot'[f].made = snapshot[f].made /\ snapshot'[f].ops = snapshot[f].ops
         /\ snapshot'[f].criteria = criteria
         /\ \A g \in Sheets : g # f => snapshot'[g] = snapshot[g]
  BY DEF CompileTypes, SnapshotOf

-----------------------------------------------------------------------------
(* Compilations that overlap: one alone fills a snapshot.                   *)

Opened == \A r \in {r1, r2} : compileReq[r].at = "operations" => snapshot[compileReq[r].of].made
RaceInv == CompileTypes /\ Opened /\ CompileRace!OneWriter

\* It holds at the beginning.
LEMMA RaceBegins == ASSUME AllInit, part = "compile_race" PROVE RaceInv
  BY CompileInit DEF RaceInv, Opened, CompileRace!OneWriter

\* A step that lets no request begin to fill a snapshot, and takes none away.
LEMMA RaceKept ==
  ASSUME RaceInv, CompileTypes',
         \A r \in {r1, r2} : compileReq'[r].at = "operations" =>
            compileReq[r].at = "operations" /\ compileReq'[r].of = compileReq[r].of,
         \A f \in Sheets : snapshot[f].made => snapshot'[f].made
  PROVE  RaceInv'
  <1>1. \A r \in {r1, r2} : compileReq[r].at = "operations" => compileReq[r].of \in Sheets
    BY DEF RaceInv, CompileTypes, AtRest
  <1> QED BY <1>1 DEF RaceInv, Opened, CompileRace!OneWriter

\* The UNIQUE key keeps a second request from filling the snapshot.
LEMMA RaceMoves == ASSUME RaceInv, CompileRace!Next PROVE RaceInv'
  <1>0. CompileTypes /\ Opened /\ CompileRace!OneWriter
    BY DEF RaceInv
  <1>a. \A r \in {r1, r2} : compileReq[r].at \in {"find", "create", "operations", "record"} => compileReq[r].of \in Sheets
    BY <1>0 DEF CompileTypes, AtRest
  <1>1. CASE CompileRace!Save
    <2>1. CompileTypes'
      BY <1>0, <1>1 DEF CompileRace!Save, CompileTypes
    <2> QED BY <1>1, <2>1, RaceKept DEF CompileRace!Save
  <1>2. CASE CompileRace!ChangeOperations
    <2>1. PICK f \in Sheets, o \in Ops4 :
            snapshot' = [snapshot EXCEPT ![f].ops = IF o \in @ THEN @ \ {o} ELSE @ \cup {o}]
      BY <1>2 DEF CompileRace!ChangeOperations, Ops4
    <2>2. PICK X \in SUBSET Ops4 : X = IF o \in snapshot[f].ops THEN snapshot[f].ops \ {o} ELSE snapshot[f].ops \cup {o}
      BY <1>0 DEF CompileTypes, SnapshotOf
    <2>3. snapshot' = [snapshot EXCEPT ![f].ops = X]
      BY <2>1, <2>2
    <2>4. /\ snapshot' \in [Sheets -> SnapshotOf] /\ \A g \in Sheets : snapshot'[g].made = snapshot[g].made
      BY <1>0, <2>3 DEF CompileTypes, SnapshotOf
    <2>5. UNCHANGED <<drawn, criteria, compilation, compileReq>> /\ edits' = edits + 1
      BY <1>2 DEF CompileRace!ChangeOperations
    <2>6. CompileTypes'
      BY <1>0, <2>4, <2>5 DEF CompileTypes
    <2> QED BY <2>4, <2>5, <2>6, RaceKept
  <1>3. ASSUME NEW r \in {r1, r2}, CompileRace!Load(r) PROVE RaceInv'
    <2>1. UNCHANGED <<drawn, criteria, edits, snapshot, compilation>>
      BY <1>3 DEF CompileRace!Load
    <2>2. PICK q : q = [at |-> IF compilation[drawn] THEN "served" ELSE "find", of |-> drawn, left |-> {}]
      OBVIOUS
    <2>3. compileReq' = [compileReq EXCEPT ![r] = q] /\ q.of = drawn /\ q.at \in {"served", "find"}
      BY <1>3, <2>2 DEF CompileRace!Load
    <2>4. q \in RequestOf
      BY <1>0, <2>2 DEF CompileTypes, RequestOf, CompileAt, Ops4
    <2>5. /\ compileReq' \in [{r1, r2} -> RequestOf] /\ compileReq'[r] = q
          /\ \A s \in {r1, r2} : s # r => compileReq'[s] = compileReq[s]
      BY <1>0, <2>3, <2>4 DEF CompileTypes
    <2>6. CompileTypes'
      BY <1>0, <2>1, <2>3, <2>5 DEF CompileTypes
    <2>7. \A s \in {r1, r2} : compileReq'[s].at = "operations" =>
             compileReq[s].at = "operations" /\ compileReq'[s].of = compileReq[s].of
      BY <2>3, <2>5
    <2> QED BY <2>1, <2>6, <2>7, RaceKept
  <1>4. ASSUME NEW r \in {r1, r2}, NEW a \in CompileAt \ {"operations"},
               compileReq' = [compileReq EXCEPT ![r].at = a],
               a \notin AtRest => compileReq[r].of \in Sheets,
               UNCHANGED <<drawn, criteria, edits>>, compilation' \in [Sheets -> BOOLEAN], snapshot' \in [Sheets -> SnapshotOf],
               \A f \in Sheets : snapshot'[f].made = snapshot[f].made
        PROVE  RaceInv'
    <2>1. /\ compileReq' \in [{r1, r2} -> RequestOf] /\ compileReq'[r].at = a /\ compileReq'[r].of = compileReq[r].of
          /\ \A q \in {r1, r2} : q # r => compileReq'[q] = compileReq[q]
      BY <1>0, <1>4, RequestGoes
    <2>2. CompileTypes'
      BY <1>0, <1>4, <2>1 DEF CompileTypes
    <2>3. \A s \in {r1, r2} : compileReq'[s].at = "operations" =>
             compileReq[s].at = "operations" /\ compileReq'[s].of = compileReq[s].of
      BY <1>4, <2>1
    <2> QED BY <1>4, <2>2, <2>3, RaceKept
  <1>5. ASSUME NEW r \in {r1, r2}, CompileRace!FindSnapshot(r) PROVE RaceInv'
    <2>1. PICK a \in {"record", "create"} : a = IF snapshot[compileReq[r].of].made THEN "record" ELSE "create"
      OBVIOUS
    <2>2. a \in CompileAt \ {"operations"}
      BY DEF CompileAt
    <2>3. compileReq' = [compileReq EXCEPT ![r].at = a] /\ UNCHANGED <<drawn, criteria, edits, snapshot, compilation>>
          /\ compileReq[r].at = "find"
      BY <1>5, <2>1 DEF CompileRace!FindSnapshot, CompileRace!Go
    <2>4. compilation' \in [Sheets -> BOOLEAN] /\ snapshot' \in [Sheets -> SnapshotOf]
      BY <1>0, <2>3 DEF CompileTypes
    <2> QED BY <1>4, <1>a, <2>2, <2>3, <2>4
  <1>6. ASSUME NEW r \in {r1, r2}, CompileRace!CreateSnapshot(r) PROVE RaceInv'
    <2>1. PICK f \in Sheets : f = compileReq[r].of /\ compileReq[r].at = "create"
      BY <1>6, <1>a DEF CompileRace!CreateSnapshot
    <2>2. UNCHANGED <<drawn, criteria, edits, compilation>> /\ compilation \in [Sheets -> BOOLEAN] /\ snapshot \in [Sheets -> SnapshotOf]
      BY <1>0, <1>6 DEF CompileRace!CreateSnapshot, CompileTypes
    <2>3. CASE compileReq' = [compileReq EXCEPT ![r].at = "error"] /\ UNCHANGED snapshot
      <3>1. "error" \in CompileAt \ {"operations"}
        BY DEF CompileAt
      <3> QED BY <1>4, <2>1, <2>2, <2>3, <3>1
    <2>4. CASE /\ ~snapshot[f].made
               /\ compileReq' = [compileReq EXCEPT ![r].at = "operations", ![r].left = compileReq[r].of]
               /\ snapshot' = [snapshot EXCEPT ![f].made = TRUE]
      <3>2. /\ compileReq' \in [{r1, r2} -> RequestOf]
            /\ compileReq'[r].at = "operations" /\ compileReq'[r].of = f
            /\ \A q \in {r1, r2} : q # r => compileReq'[q] = compileReq[q]
        BY <1>0, <2>1, <2>4, RequestFills
      <3>3. /\ snapshot' \in [Sheets -> SnapshotOf] /\ snapshot'[f].made
            /\ \A g \in Sheets : g # f => snapshot'[g] = snapshot[g]
        BY <1>0, <2>4, SnapshotMade
      <3>4. CompileTypes'
        BY <1>0, <2>1, <2>2, <3>2, <3>3 DEF CompileTypes
      <3>5. Opened'
        <4>1. ASSUME NEW q \in {r1, r2}, q # r, compileReq'[q].at = "operations"
              PROVE  snapshot'[compileReq'[q].of].made
          <5>1. compileReq[q].at = "operations" /\ compileReq'[q].of = compileReq[q].of
            BY <3>2, <4>1
          <5>2. snapshot[compileReq[q].of].made /\ compileReq[q].of \in Sheets
            BY <1>0, <1>a, <5>1 DEF Opened
          <5> QED BY <3>3, <5>1, <5>2
        <4> QED BY <3>2, <3>3, <4>1 DEF Opened
      <3>6. \A q \in {r1, r2} : q # r /\ compileReq'[q].at = "operations" => compileReq'[q].of # f
        BY <1>0, <2>4, <3>2 DEF Opened
      <3>7. (CompileRace!OneWriter)'
        BY <1>0, <3>2, <3>6 DEF CompileRace!OneWriter
      <3> QED BY <3>4, <3>5, <3>7 DEF RaceInv
    <2> QED BY <1>6, <2>1, <2>3, <2>4 DEF CompileRace!CreateSnapshot, CompileRace!Go
  <1>7. ASSUME NEW r \in {r1, r2}, CompileRace!AddOperation(r) PROVE RaceInv'
    <2>1. PICK f \in Sheets : f = compileReq[r].of /\ compileReq[r].at = "operations"
      BY <1>7, <1>a DEF CompileRace!AddOperation
    <2>2. PICK o \in compileReq[r].left :
            /\ snapshot' = [snapshot EXCEPT ![f].ops = @ \cup {o}]
            /\ compileReq' = [compileReq EXCEPT ![r].left = @ \ {o}]
      BY <1>7, <2>1 DEF CompileRace!AddOperation
    <2>3. UNCHANGED <<drawn, criteria, edits, compilation>> /\ o \in Ops4
      BY <1>0, <1>7 DEF CompileRace!AddOperation, CompileTypes, RequestOf
    <2>4. /\ compileReq' \in [{r1, r2} -> RequestOf]
          /\ compileReq'[r].at = compileReq[r].at /\ compileReq'[r].of = compileReq[r].of
          /\ \A q \in {r1, r2} : q # r => compileReq'[q] = compileReq[q]
      BY <1>0, <2>2, RequestAdds
    <2>5. /\ snapshot' \in [Sheets -> SnapshotOf] /\ snapshot'[f].made = snapshot[f].made
          /\ \A g \in Sheets : g # f => snapshot'[g] = snapshot[g]
      BY <1>0, <2>2, <2>3, SnapshotAdds
    <2>6. CompileTypes'
      BY <1>0, <2>3, <2>4, <2>5 DEF CompileTypes
    <2>7. \A s \in {r1, r2} : compileReq'[s].at = compileReq[s].at /\ compileReq'[s].of = compileReq[s].of
      BY <2>4
    <2>8. \A g \in Sheets : snapshot'[g].made = snapshot[g].made
      BY <2>5
    <2> QED BY <2>6, <2>7, <2>8, RaceKept
  <1>8. ASSUME NEW r \in {r1, r2}, CompileRace!CopyCriteria(r) PROVE RaceInv'
    <2>1. PICK f \in Sheets : f = compileReq[r].of
      BY <1>8, <1>a DEF CompileRace!CopyCriteria
    <2>2. /\ snapshot' = [snapshot EXCEPT ![f].criteria = criteria] /\ compileReq' = [compileReq EXCEPT ![r].at = "record"]
          /\ UNCHANGED <<drawn, criteria, edits, compilation>>
      BY <1>8, <2>1 DEF CompileRace!CopyCriteria, CompileRace!Go
    <2>3. "record" \in CompileAt \ {"operations"} /\ compilation' \in [Sheets -> BOOLEAN]
      BY <1>0, <2>2 DEF CompileAt, CompileTypes
    <2>4. /\ snapshot' \in [Sheets -> SnapshotOf] /\ snapshot'[f].made = snapshot[f].made
          /\ \A g \in Sheets : g # f => snapshot'[g] = snapshot[g]
      BY <1>0, <2>2, SnapshotCopies
    <2>5. \A g \in Sheets : snapshot'[g].made = snapshot[g].made
      BY <2>4
    <2> QED BY <1>4, <2>1, <2>2, <2>3, <2>4, <2>5
  <1>9. ASSUME NEW r \in {r1, r2}, CompileRace!Record(r) PROVE RaceInv'
    <2>1. /\ compileReq' = [compileReq EXCEPT ![r].at = "served"] /\ UNCHANGED <<drawn, criteria, edits, snapshot>>
          /\ compilation' = [compilation EXCEPT ![compileReq[r].of] = TRUE]
      BY <1>9 DEF CompileRace!Record, CompileRace!Go
    <2>2. compilation' \in [Sheets -> BOOLEAN] /\ snapshot' \in [Sheets -> SnapshotOf]
      BY <1>0, <2>1 DEF CompileTypes
    <2>3. "served" \in CompileAt \ {"operations"} /\ "served" \in AtRest
      BY DEF CompileAt, AtRest
    <2> QED BY <1>4, <2>1, <2>2, <2>3
  <1>10. ASSUME NEW r \in {r1, r2}, CompileRace!Die(r) PROVE RaceInv'
    <2>1. compileReq' = [compileReq EXCEPT ![r].at = "died"] /\ UNCHANGED <<drawn, criteria, edits, snapshot, compilation>>
      BY <1>10 DEF CompileRace!Die, CompileRace!Go
    <2>2. compilation' \in [Sheets -> BOOLEAN] /\ snapshot' \in [Sheets -> SnapshotOf]
      BY <1>0, <2>1 DEF CompileTypes
    <2>3. "died" \in CompileAt \ {"operations"} /\ "died" \in AtRest
      BY DEF CompileAt, AtRest
    <2> QED BY <1>4, <2>1, <2>2, <2>3
  <1> QED BY Zenon, <1>1, <1>2, <1>3, <1>5, <1>6, <1>7, <1>8, <1>9, <1>10 DEF CompileRace!Next, CompileRace!Step

-----------------------------------------------------------------------------
(* What compilations leave, when nobody edits the snapshots.               *)

\* The request has the operation still to add, or died before.
Adds(r, f, o) ==
  compileReq[r].of = f /\ o \in compileReq[r].left /\ compileReq[r].at \in {"operations", "died"}
\* A snapshot holds operations of its flowsheet and criteria there have been,
\* and what it lacks somebody has to add.
RowsBounded ==
  /\ edits \in 0 .. 3 /\ criteria <= 1 + edits
  /\ \A f \in Sheets :
       /\ snapshot[f].ops \subseteq f /\ snapshot[f].criteria <= 1 + edits
       /\ ~snapshot[f].made => snapshot[f].ops = {} /\ snapshot[f].criteria = 0
       /\ compilation[f] => snapshot[f].made
       /\ snapshot[f].made => \A o \in f \ snapshot[f].ops : \E r \in {r1, r2} : Adds(r, f, o)
\* Who fills a snapshot has copied no criteria yet.
Filling == \A r \in {r1, r2} :
  /\ compileReq[r].at = "operations" =>
       compileReq[r].left \subseteq compileReq[r].of /\ snapshot[compileReq[r].of].criteria = 0
  /\ compileReq[r].at = "record" => snapshot[compileReq[r].of].made
CompileInv == RaceInv /\ RowsBounded /\ Filling

\* It holds at the beginning.
LEMMA CompileBegins == ASSUME AllInit, part = "compile" PROVE CompileInv
  <1>1. /\ CompileTypes /\ edits = 0 /\ criteria <= 1
        /\ \A r \in {r1, r2} : compileReq[r].at = "idle"
        /\ \A f \in Sheets : ~compilation[f] /\ snapshot[f] = [made |-> FALSE, ops |-> {}, criteria |-> 0]
    BY CompileInit
  <1>2. RaceInv
    BY <1>1 DEF RaceInv, Opened, CompileRace!OneWriter
  <1> QED BY <1>1, <1>2 DEF CompileInv, RowsBounded, Filling

\* Where nobody edits snapshots, a step is one that there is where somebody does.
LEMMA CompileRaceToo == Compile!Next => CompileRace!Next
  <1> USE DEF Compile!Go, CompileRace!Go, Compile!Ended, CompileRace!Ended, Compile!Running, CompileRace!Running
  <1>1. Compile!Save => CompileRace!Save
    BY Zenon DEF Compile!Save, CompileRace!Save
  <1>2. ~Compile!ChangeOperations
    BY DEF Compile!ChangeOperations
  <1>3. \A r : Compile!Load(r) => CompileRace!Load(r)
    BY Zenon DEF Compile!Load, CompileRace!Load
  <1>4. \A r : Compile!FindSnapshot(r) => CompileRace!FindSnapshot(r)
    BY Zenon DEF Compile!FindSnapshot, CompileRace!FindSnapshot
  <1>5. \A r : Compile!CreateSnapshot(r) => CompileRace!CreateSnapshot(r)
    BY Zenon DEF Compile!CreateSnapshot, CompileRace!CreateSnapshot
  <1>6. \A r : Compile!AddOperation(r) => CompileRace!AddOperation(r)
    BY Zenon DEF Compile!AddOperation, CompileRace!AddOperation
  <1>7. \A r : Compile!CopyCriteria(r) => CompileRace!CopyCriteria(r)
    BY Zenon DEF Compile!CopyCriteria, CompileRace!CopyCriteria
  <1>8. \A r : Compile!Record(r) => CompileRace!Record(r)
    BY Zenon DEF Compile!Record, CompileRace!Record
  <1>9. \A r : Compile!Die(r) => CompileRace!Die(r)
    BY Zenon DEF Compile!Die, CompileRace!Die
  <1> QED BY Zenon, <1>1, <1>2, <1>3, <1>4, <1>5, <1>6, <1>7, <1>8, <1>9
       DEF Compile!Next, Compile!Step, CompileRace!Next, CompileRace!Step

\* Only a request goes on: who had something to add still has, or died.
LEMMA OnlyGoes ==
  ASSUME CompileInv, NEW r \in {r1, r2}, NEW q \in RequestOf,
         compileReq' = [compileReq EXCEPT ![r] = q], UNCHANGED <<criteria, edits, snapshot>>,
         q.at # "operations", compileReq[r].at \in {"operations", "died"} => q = [compileReq[r] EXCEPT !.at = "died"],
         q.at = "record" => snapshot[q.of].made,
         compilation' \in [Sheets -> BOOLEAN], \A f \in Sheets : compilation'[f] => compilation[f] \/ snapshot[f].made
  PROVE  RowsBounded' /\ Filling' /\ Compile!Immutable
  <1>0. RowsBounded /\ Filling /\ compileReq \in [{r1, r2} -> RequestOf]
    BY DEF CompileInv, RaceInv, CompileTypes
  <1>1. compileReq'[r] = q /\ \A s \in {r1, r2} : s # r => compileReq'[s] = compileReq[s]
    BY <1>0
  <1>2. ASSUME NEW f, NEW o, NEW s \in {r1, r2}, Adds(s, f, o) PROVE Adds(s, f, o)'
    <2>1. CASE s = r
      <3>1. q = [compileReq[r] EXCEPT !.at = "died"] /\ compileReq[r] \in RequestOf
        BY <1>0, <1>2, <2>1 DEF Adds
      <3>2. q.of = compileReq[r].of /\ q.left = compileReq[r].left /\ q.at = "died"
        BY <3>1 DEF RequestOf
      <3> QED BY <1>1, <1>2, <2>1, <3>2 DEF Adds
    <2> QED BY <1>1, <1>2, <2>1 DEF Adds
  <1>3. RowsBounded'
    <2>1. ASSUME NEW f \in Sheets, snapshot[f].made, NEW o \in f \ snapshot[f].ops
          PROVE  \E s \in {r1, r2} : Adds(s, f, o)'
      <3>1. PICK s \in {r1, r2} : Adds(s, f, o)
        BY <1>0, <2>1 DEF RowsBounded
      <3> QED BY <1>2, <3>1
    <2> QED BY <1>0, <2>1 DEF RowsBounded
  <1>4. Filling'
    BY <1>0, <1>1 DEF Filling
  <1> QED BY <1>3, <1>4 DEF Compile!Immutable

\* Every step of a compilation keeps it, and what is compiled stands.
LEMMA CompileMoves == ASSUME CompileInv, Compile!Next PROVE CompileInv' /\ Compile!Immutable
  <1>0. RaceInv' /\ RaceInv /\ CompileTypes /\ Opened /\ CompileRace!OneWriter /\ RowsBounded /\ Filling
    BY CompileRaceToo, RaceMoves DEF CompileInv, RaceInv
  <1> SUFFICES RowsBounded' /\ Filling' /\ Compile!Immutable
    BY <1>0 DEF CompileInv
  <1>a. \A r \in {r1, r2} : /\ compileReq[r] \in RequestOf
                            /\ compileReq[r].at \in {"find", "create", "operations", "record"} => compileReq[r].of \in Sheets
    BY <1>0 DEF CompileTypes, AtRest
  <1>1. CASE Compile!Save
    <2>1. UNCHANGED <<snapshot, compilation, compileReq>> /\ edits' = edits + 1 /\ edits < 3 /\ criteria' \in {criteria, 0, 1 + edits'}
      BY <1>1 DEF Compile!Save
    <2>2. (\A f \in Sheets : snapshot[f].criteria \in Nat) /\ criteria \in Nat /\ edits \in Nat
      BY <1>0 DEF CompileTypes, SnapshotOf
    <2>3. \A f, o : \A s \in {r1, r2} : Adds(s, f, o)' <=> Adds(s, f, o)
      BY <2>1 DEF Adds
    <2>4. edits' \in 0..3 /\ criteria' <= 1 + edits' /\ \A f \in Sheets : snapshot'[f].criteria <= 1 + edits'
      BY <1>0, <2>1, <2>2 DEF RowsBounded
    <2>5. RowsBounded'
      BY <1>0, <2>1, <2>3, <2>4 DEF RowsBounded
    <2> QED BY <1>0, <2>1, <2>5 DEF Filling, Compile!Immutable
  <1>2. CASE Compile!ChangeOperations
    BY <1>2 DEF Compile!ChangeOperations
  <1>3. ASSUME NEW r \in {r1, r2}, Compile!Load(r) PROVE RowsBounded' /\ Filling' /\ Compile!Immutable
    <2>1. UNCHANGED <<snapshot, criteria, edits, compilation>> /\ compileReq[r].at \notin {"operations", "died"} /\ drawn \in Sheets
      BY <1>0, <1>3 DEF Compile!Load, Compile!Ended, CompileTypes
    <2>2. PICK q : q = [at |-> IF compilation[drawn] THEN "served" ELSE "find", of |-> drawn, left |-> {}]
      OBVIOUS
    <2>3. compileReq' = [compileReq EXCEPT ![r] = q] /\ q.at \in {"served", "find"}
      BY <1>3, <2>2 DEF Compile!Load
    <2>4. q \in RequestOf
      BY <2>1, <2>2 DEF RequestOf, CompileAt, Ops4
    <2>5. compilation' \in [Sheets -> BOOLEAN]
      BY <1>0, <2>1 DEF CompileTypes
    <2> QED BY <2>1, <2>3, <2>4, <2>5, OnlyGoes
  <1>4. ASSUME NEW r \in {r1, r2}, Compile!FindSnapshot(r) PROVE RowsBounded' /\ Filling' /\ Compile!Immutable
    <2>1. PICK q : q = [compileReq[r] EXCEPT !.at = IF snapshot[compileReq[r].of].made THEN "record" ELSE "create"]
      OBVIOUS
    <2>2. compileReq[r].at = "find" /\ compileReq' = [compileReq EXCEPT ![r] = q] /\ UNCHANGED <<criteria, edits, snapshot, compilation>>
      BY <1>0, <1>4, <2>1 DEF Compile!FindSnapshot, Compile!Go, CompileTypes
    <2>3. q \in RequestOf /\ q.at # "operations" /\ (q.at = "record" => snapshot[q.of].made)
      BY <1>a, <2>1 DEF RequestOf, CompileAt
    <2>4. compilation' \in [Sheets -> BOOLEAN]
      BY <1>0, <2>2 DEF CompileTypes
    <2> QED BY <2>2, <2>3, <2>4, OnlyGoes
  <1>5. ASSUME NEW r \in {r1, r2}, Compile!CreateSnapshot(r) PROVE RowsBounded' /\ Filling' /\ Compile!Immutable
    <2>1. PICK f \in Sheets : f = compileReq[r].of /\ compileReq[r].at = "create"
      BY <1>5, <1>a DEF Compile!CreateSnapshot
    <2>2. UNCHANGED <<criteria, edits, compilation>> /\ compilation \in [Sheets -> BOOLEAN]
      BY <1>0, <1>5 DEF Compile!CreateSnapshot, CompileTypes
    <2>3. CASE compileReq' = [compileReq EXCEPT ![r].at = "error"] /\ UNCHANGED snapshot
      <3>1. PICK q : q = [compileReq[r] EXCEPT !.at = "error"]
        OBVIOUS
      <3>2. compileReq' = [compileReq EXCEPT ![r] = q] /\ q \in RequestOf /\ q.at = "error"
        BY <1>0, <1>a, <2>3, <3>1 DEF CompileTypes, RequestOf, CompileAt
      <3> QED BY <2>1, <2>2, <2>3, <3>2, OnlyGoes
    <2>4. CASE /\ ~snapshot[f].made
               /\ compileReq' = [compileReq EXCEPT ![r].at = "operations", ![r].left = compileReq[r].of]
               /\ snapshot' = [snapshot EXCEPT ![f].made = TRUE]
      <3>1. /\ compileReq'[r].at = "operations" /\ compileReq'[r].of = f /\ compileReq'[r].left = f
            /\ \A q \in {r1, r2} : q # r => compileReq'[q] = compileReq[q]
        BY <1>0, <2>1, <2>4, RequestFills
      <3>2. /\ snapshot'[f].made /\ snapshot'[f].ops = snapshot[f].ops /\ snapshot'[f].criteria = snapshot[f].criteria
            /\ \A g \in Sheets : g # f => snapshot'[g] = snapshot[g]
        BY <1>0, <2>4, SnapshotMade
      <3>3. snapshot[f].ops = {} /\ snapshot[f].criteria = 0 /\ ~compilation[f]
        BY <1>0, <2>4 DEF RowsBounded
      <3>4. \A o \in f : Adds(r, f, o)'
        BY <3>1 DEF Adds
      <3>5. ASSUME NEW g, g # f, NEW o, NEW s \in {r1, r2}, Adds(s, g, o) PROVE Adds(s, g, o)'
        BY <2>1, <3>1, <3>5 DEF Adds
      <3>6. RowsBounded'
        <4>1. ASSUME NEW g \in Sheets
              PROVE  /\ snapshot'[g].ops \subseteq g /\ snapshot'[g].criteria <= 1 + edits
                     /\ ~snapshot'[g].made => snapshot'[g].ops = {} /\ snapshot'[g].criteria = 0
                     /\ compilation[g] => snapshot'[g].made
                     /\ snapshot'[g].made => \A o \in g \ snapshot'[g].ops : \E s \in {r1, r2} : Adds(s, g, o)'
          <5>1. CASE g = f
            BY <1>0, <3>2, <3>3, <3>4, <5>1 DEF RowsBounded
          <5>2. CASE g # f
            BY <1>0, <3>2, <3>5, <5>2 DEF RowsBounded
          <5> QED BY <5>1, <5>2
        <4> QED BY <1>0, <2>2, <4>1 DEF RowsBounded
      <3>7. Filling'
        <4>1. ASSUME NEW s \in {r1, r2}, s # r, compileReq[s].at = "operations" PROVE snapshot'[compileReq[s].of].criteria = 0
          BY <1>0, <1>a, <3>2, <4>1 DEF Filling
        <4>2. ASSUME NEW s \in {r1, r2}, s # r, compileReq[s].at = "record" PROVE snapshot'[compileReq[s].of].made
          BY <1>0, <1>a, <3>2, <4>2 DEF Filling
        <4> QED BY <1>0, <3>1, <3>2, <3>3, <4>1, <4>2 DEF Filling
      <3>8. Compile!Immutable
        BY <3>2, <3>3 DEF Compile!Immutable
      <3> QED BY <3>6, <3>7, <3>8
    <2> QED BY <1>5, <2>1, <2>3, <2>4 DEF Compile!CreateSnapshot, Compile!Go
  <1>6. ASSUME NEW r \in {r1, r2}, Compile!AddOperation(r) PROVE RowsBounded' /\ Filling' /\ Compile!Immutable
    <2>1. PICK f \in Sheets : f = compileReq[r].of /\ compileReq[r].at = "operations"
      BY <1>6, <1>a DEF Compile!AddOperation
    <2>2. PICK o \in compileReq[r].left :
            /\ snapshot' = [snapshot EXCEPT ![f].ops = @ \cup {o}]
            /\ compileReq' = [compileReq EXCEPT ![r].left = @ \ {o}]
      BY <1>6, <2>1 DEF Compile!AddOperation
    <2>3. UNCHANGED <<criteria, edits, compilation>>
      BY <1>6 DEF Compile!AddOperation
    <2>4. o \in f /\ o \in Ops4
      <3>1. compileReq[r].left \subseteq f
        BY <1>0, <2>1 DEF Filling
      <3> QED BY <3>1 DEF Ops4
    <2>5. /\ compileReq'[r].at = "operations" /\ compileReq'[r].of = f /\ compileReq'[r].left = compileReq[r].left \ {o}
          /\ \A q \in {r1, r2} : q # r => compileReq'[q] = compileReq[q]
      BY <1>0, <2>1, <2>2, RequestAdds
    <2>6. /\ snapshot'[f].made = snapshot[f].made /\ snapshot'[f].ops = snapshot[f].ops \cup {o}
          /\ snapshot'[f].criteria = snapshot[f].criteria
          /\ \A g \in Sheets : g # f => snapshot'[g] = snapshot[g]
      BY <1>0, <2>2, <2>4, SnapshotAdds
    <2>7. snapshot[f].made /\ snapshot[f].criteria = 0
      BY <1>0, <2>1 DEF Opened, Filling
    <2>8. ASSUME NEW g, NEW p, p # o \/ g # f, NEW s \in {r1, r2}, Adds(s, g, p) PROVE Adds(s, g, p)'
      BY <2>1, <2>5, <2>8 DEF Adds
    <2>9. RowsBounded'
      <3>1. ASSUME NEW g \in Sheets
            PROVE  /\ snapshot'[g].ops \subseteq g /\ snapshot'[g].criteria <= 1 + edits
                   /\ ~snapshot'[g].made => snapshot'[g].ops = {} /\ snapshot'[g].criteria = 0
                   /\ compilation[g] => snapshot'[g].made
                   /\ snapshot'[g].made => \A p \in g \ snapshot'[g].ops : \E s \in {r1, r2} : Adds(s, g, p)'
        <4>1. CASE g = f
          <5>1. \A p \in f \ snapshot'[f].ops : p # o /\ p \in f \ snapshot[f].ops
            BY <2>6
          <5>2. ASSUME NEW p \in f \ snapshot'[f].ops PROVE \E s \in {r1, r2} : Adds(s, f, p)'
            <6>1. PICK s \in {r1, r2} : Adds(s, f, p)
              BY <1>0, <2>7, <5>1 DEF RowsBounded
            <6> QED BY <2>8, <5>1, <6>1
          <5> QED BY <1>0, <2>4, <2>6, <2>7, <4>1, <5>2 DEF RowsBounded
        <4>2. CASE g # f
          <5>1. ASSUME NEW p \in g \ snapshot[g].ops, snapshot[g].made PROVE \E s \in {r1, r2} : Adds(s, g, p)'
            <6>1. PICK s \in {r1, r2} : Adds(s, g, p)
              BY <1>0, <5>1 DEF RowsBounded
            <6> QED BY <2>8, <4>2, <6>1
          <5> QED BY <1>0, <2>6, <4>2, <5>1 DEF RowsBounded
        <4> QED BY <4>1, <4>2
      <3> QED BY <1>0, <2>3, <3>1 DEF RowsBounded
    <2>10. Filling'
      <3>0. \A g \in Sheets : snapshot'[g].criteria = snapshot[g].criteria /\ snapshot'[g].made = snapshot[g].made
        BY <2>6
      <3>1. ASSUME NEW s \in {r1, r2}, compileReq'[s].at = "operations"
            PROVE  compileReq'[s].left \subseteq compileReq'[s].of /\ snapshot'[compileReq'[s].of].criteria = 0
        <4>1. CASE s = r
          <5>1. compileReq[r].left \subseteq f
            BY <1>0, <2>1 DEF Filling
          <5> QED BY <2>5, <2>6, <2>7, <4>1, <5>1
        <4>2. CASE s # r
          <5>1. compileReq'[s] = compileReq[s] /\ compileReq[s].of \in Sheets
            BY <1>a, <2>5, <3>1, <4>2
          <5> QED BY <1>0, <3>0, <3>1, <5>1 DEF Filling
        <4> QED BY <4>1, <4>2
      <3>2. ASSUME NEW s \in {r1, r2}, compileReq'[s].at = "record" PROVE snapshot'[compileReq'[s].of].made
        <4>1. s # r
          BY <2>5, <3>2
        <4>2. compileReq'[s] = compileReq[s] /\ compileReq[s].of \in Sheets
          BY <1>a, <2>5, <3>2, <4>1
        <4> QED BY <1>0, <3>0, <3>2, <4>2 DEF Filling
      <3> QED BY <3>1, <3>2 DEF Filling
    <2>11. Compile!Immutable
      <3>1. ASSUME NEW g \in Sheets, snapshot'[g] # snapshot[g]
            PROVE  /\ snapshot[g].ops \subseteq snapshot'[g].ops /\ snapshot[g].criteria = 0
                   /\ \E s \in {r1, r2} : compileReq[s].of = g /\ compileReq[s].at = "operations"
        BY <2>1, <2>6, <2>7, <3>1
      <3> QED BY <3>1 DEF Compile!Immutable
    <2> QED BY <2>9, <2>10, <2>11
  <1>7. ASSUME NEW r \in {r1, r2}, Compile!CopyCriteria(r) PROVE RowsBounded' /\ Filling' /\ Compile!Immutable
    <2>1. PICK f \in Sheets : f = compileReq[r].of /\ compileReq[r].at = "operations" /\ compileReq[r].left = {}
      BY <1>7, <1>a DEF Compile!CopyCriteria
    <2>2. /\ snapshot' = [snapshot EXCEPT ![f].criteria = criteria]
          /\ compileReq' = [compileReq EXCEPT ![r].at = "record"] /\ UNCHANGED <<criteria, edits, compilation>>
      BY <1>7, <2>1 DEF Compile!CopyCriteria, Compile!Go
    <2>3. "record" \in CompileAt
      BY DEF CompileAt
    <2>4. /\ compileReq'[r].at = "record" /\ compileReq'[r].of = f
          /\ \A q \in {r1, r2} : q # r => compileReq'[q] = compileReq[q]
      BY <1>0, <2>1, <2>2, <2>3, RequestGoes
    <2>5. /\ snapshot'[f].made = snapshot[f].made /\ snapshot'[f].ops = snapshot[f].ops
          /\ snapshot'[f].criteria = criteria
          /\ \A g \in Sheets : g # f => snapshot'[g] = snapshot[g]
      BY <1>0, <2>2, SnapshotCopies
    <2>6. snapshot[f].made /\ snapshot[f].criteria = 0
      BY <1>0, <2>1 DEF Opened, Filling
    <2>7. ASSUME NEW g, NEW p, NEW s \in {r1, r2}, Adds(s, g, p) PROVE Adds(s, g, p)'
      BY <2>1, <2>4, <2>7 DEF Adds
    <2>8. RowsBounded'
      <3>1. ASSUME NEW g \in Sheets
            PROVE  /\ snapshot'[g].ops \subseteq g /\ snapshot'[g].criteria <= 1 + edits
                   /\ ~snapshot'[g].made => snapshot'[g].ops = {} /\ snapshot'[g].criteria = 0
                   /\ compilation[g] => snapshot'[g].made
                   /\ snapshot'[g].made => \A p \in g \ snapshot'[g].ops : \E s \in {r1, r2} : Adds(s, g, p)'
        <4>0. snapshot'[g].ops = snapshot[g].ops /\ snapshot'[g].made = snapshot[g].made
          BY <2>5
        <4>1. ASSUME NEW p \in g \ snapshot[g].ops, snapshot[g].made PROVE \E s \in {r1, r2} : Adds(s, g, p)'
          <5>1. PICK s \in {r1, r2} : Adds(s, g, p)
            BY <1>0, <4>1 DEF RowsBounded
          <5> QED BY <2>7, <5>1
        <4>2. CASE g = f
          BY <1>0, <2>5, <2>6, <4>0, <4>1, <4>2 DEF RowsBounded
        <4>3. CASE g # f
          BY <1>0, <2>5, <4>0, <4>1, <4>3 DEF RowsBounded
        <4> QED BY <4>2, <4>3
      <3> QED BY <1>0, <2>2, <3>1 DEF RowsBounded
    <2>9. Filling'
      <3>1. ASSUME NEW s \in {r1, r2}, s # r, compileReq[s].at = "operations"
            PROVE  compileReq[s].left \subseteq compileReq[s].of /\ snapshot'[compileReq[s].of].criteria = 0
        <4>1. compileReq[s].of # f /\ compileReq[s].of \in Sheets
          BY <1>0, <1>a, <2>1, <3>1 DEF CompileRace!OneWriter
        <4> QED BY <1>0, <2>5, <3>1, <4>1 DEF Filling
      <3>2. ASSUME NEW s \in {r1, r2}, s # r, compileReq[s].at = "record" PROVE snapshot'[compileReq[s].of].made
        <4>1. compileReq[s].of \in Sheets /\ snapshot[compileReq[s].of].made
          BY <1>0, <1>a, <3>2 DEF Filling
        <4> QED BY <2>5, <4>1
      <3> QED BY <2>4, <2>5, <2>6, <3>1, <3>2 DEF Filling
    <2>10. Compile!Immutable
      <3>1. ASSUME NEW g \in Sheets, snapshot'[g] # snapshot[g]
            PROVE  /\ snapshot[g].ops \subseteq snapshot'[g].ops /\ snapshot[g].criteria = 0
                   /\ \E s \in {r1, r2} : compileReq[s].of = g /\ compileReq[s].at = "operations"
        BY <2>1, <2>5, <2>6, <3>1
      <3> QED BY <3>1 DEF Compile!Immutable
    <2> QED BY <2>8, <2>9, <2>10
  <1>8. ASSUME NEW r \in {r1, r2}, Compile!Record(r) PROVE RowsBounded' /\ Filling' /\ Compile!Immutable
    <2>1. PICK q : q = [compileReq[r] EXCEPT !.at = "served"]
      OBVIOUS
    <2>2. /\ compileReq[r].at = "record" /\ compileReq' = [compileReq EXCEPT ![r] = q] /\ UNCHANGED <<criteria, edits, snapshot>>
          /\ compilation' = [compilation EXCEPT ![compileReq[r].of] = TRUE]
      BY <1>0, <1>8, <2>1 DEF Compile!Record, Compile!Go, CompileTypes
    <2>3. q \in RequestOf /\ q.at = "served"
      BY <1>a, <2>1 DEF RequestOf, CompileAt
    <2>4. snapshot[compileReq[r].of].made /\ compileReq[r].of \in Sheets
      BY <1>0, <1>a, <2>2 DEF Filling
    <2>5. compilation' \in [Sheets -> BOOLEAN] /\ \A f \in Sheets : compilation'[f] => compilation[f] \/ snapshot[f].made
      BY <1>0, <2>2, <2>4 DEF CompileTypes
    <2> QED BY <2>2, <2>3, <2>5, OnlyGoes
  <1>9. ASSUME NEW r \in {r1, r2}, Compile!Die(r) PROVE RowsBounded' /\ Filling' /\ Compile!Immutable
    <2>1. PICK q : q = [compileReq[r] EXCEPT !.at = "died"]
      OBVIOUS
    <2>2. compileReq' = [compileReq EXCEPT ![r] = q] /\ UNCHANGED <<criteria, edits, snapshot, compilation>>
      BY <1>0, <1>9, <2>1 DEF Compile!Die, Compile!Go, CompileTypes
    <2>3. q \in RequestOf /\ q.at = "died"
      BY <1>a, <2>1 DEF RequestOf, CompileAt
    <2>4. compilation' \in [Sheets -> BOOLEAN]
      BY <1>0, <2>2 DEF CompileTypes
    <2> QED BY <2>1, <2>2, <2>3, <2>4, OnlyGoes
  <1> QED BY Zenon, <1>1, <1>2, <1>3, <1>4, <1>5, <1>6, <1>7, <1>8, <1>9 DEF Compile!Next, Compile!Step

\* What a compilation names has its operations, but those to be added.
LEMMA CompileGives == ASSUME CompileInv PROVE Compile!TypeOK /\ Compile!RecordedIsWhole
  <1>0. CompileTypes /\ RowsBounded /\ Filling
    BY DEF CompileInv, RaceInv
  <1>1. Compile!RecordedIsWhole
    <2>1. ASSUME NEW f \in Sheets, compilation[f], NEW o \in f \ snapshot[f].ops PROVE \E r \in {r1, r2} : Adds(r, f, o)
      BY <1>0, <2>1 DEF RowsBounded
    <2> QED BY <2>1 DEF Compile!RecordedIsWhole, Adds
  <1>2. ASSUME NEW f \in Sheets
        PROVE  /\ snapshot[f] \in [made : BOOLEAN, ops : SUBSET f, criteria : 0 .. 1 + 3]
               /\ compilation[f] \in BOOLEAN
               /\ ~snapshot[f].made => snapshot[f] = [made |-> FALSE, ops |-> {}, criteria |-> 0]
    <2>1. snapshot[f] \in SnapshotOf /\ compilation[f] \in BOOLEAN
      BY <1>0 DEF CompileTypes
    <2>2. snapshot[f].ops \in SUBSET f /\ snapshot[f].criteria \in 0 .. 1 + 3
      BY <1>0, <2>1 DEF RowsBounded, SnapshotOf
    <2>3. snapshot[f] = [made |-> snapshot[f].made, ops |-> snapshot[f].ops, criteria |-> snapshot[f].criteria]
      BY <2>1 DEF SnapshotOf
    <2>4. ~snapshot[f].made => snapshot[f].made = FALSE /\ snapshot[f].ops = {} /\ snapshot[f].criteria = 0
      BY <1>0, <2>1 DEF RowsBounded, SnapshotOf
    <2>5. snapshot[f].made \in BOOLEAN
      BY <2>1 DEF SnapshotOf
    <2>6. snapshot[f] \in [made : BOOLEAN, ops : SUBSET f, criteria : 0 .. 1 + 3]
      BY <2>2, <2>3, <2>5
    <2> QED BY <2>1, <2>3, <2>4, <2>6
  <1>3. drawn \in Sheets /\ criteria \in 0 .. 1 + 3 /\ edits \in 0 .. 3
    BY <1>0 DEF CompileTypes, RowsBounded
  <1>4. \A r \in {r1, r2} : compileReq[r].at \in Compile!Ended \cup {"find", "create", "operations", "record"}
    BY <1>0 DEF CompileTypes, RequestOf, CompileAt, Compile!Ended
  <1> QED BY <1>1, <1>2, <1>3, <1>4 DEF Compile!TypeOK, Compile!NoSnapshot

-----------------------------------------------------------------------------
(* Branches: the walk along the trunk.                                      *)

Blocks5 == 1 .. 5
Out(n) == {v \in Blocks5 : <<n, v>> \in edges}
Branch5 == [nodes : SUBSET Blocks5, divergence : Blocks5, reconvergence : Blocks5]

\* A branch leaves the trunk at one block and comes back at a later one.
BranchWhole(b) ==
  /\ b.nodes \subseteq visited /\ {b.divergence, b.reconvergence} \subseteq trunk
  /\ b.divergence < b.reconvergence
  /\ b.nodes \subseteq Subgraphs!Below(b.divergence)
  /\ \E n \in b.nodes : b.reconvergence \in Out(n)
WalkTypes ==
  /\ edges \subseteq Blocks5 \X Blocks5 /\ \A u, v \in Blocks5 : <<u, v>> \in edges => u < v
  /\ trunk \in Subgraphs!Paths(edges) /\ trunk \subseteq Blocks5 /\ node \in trunk \cup {0}
  /\ todo \subseteq Out(node) \ trunk /\ visited \subseteq Blocks5 \ trunk
  /\ branches \in Seq(Branch5)
\* What has been walked is walked whole; what the trunk leads to, up to the
\* block that is looked at, is walked or still to do.
Walked ==
  /\ \A n \in visited : Out(n) \ trunk \subseteq visited
  /\ \A t \in trunk : t < node => Out(t) \ trunk \subseteq visited
  /\ node \in trunk => Out(node) \ trunk \subseteq visited \cup todo
WalkInv ==
  /\ WalkTypes /\ Walked
  /\ \A i \in DOMAIN branches : BranchWhole(branches[i])
  /\ \A i, j \in DOMAIN branches : i # j => branches[i].nodes \cap branches[j].nodes = {}

\* The blocks are five numbers and Out is what follows a block.
LEMMA WalkNames ==
  /\ Subgraphs!Node = Blocks5 /\ \A n : Subgraphs!out_edges(n) = Out(n)
  /\ \A n : n \in Blocks5 => n \in Nat \ {0}
  BY DEF Subgraphs!Node, Subgraphs!out_edges, Out, Blocks5

\* The walk begins on the trunk with nothing visited.
LEMMA WalkInit == ASSUME Subgraphs!Init PROVE WalkInv
  <1>1. edges \subseteq Blocks5 \X Blocks5 /\ \A u, v \in Blocks5 : <<u, v>> \in edges => u < v
    <2>1. edges \subseteq {e \in Blocks5 \X Blocks5 : e[1] < e[2]}
      BY WalkNames DEF Subgraphs!Init
    <2> QED BY <2>1
  <1>2. trunk \in Subgraphs!Paths(edges)
    BY DEF Subgraphs!Init, Subgraphs!Trunks
  <1>3. trunk \subseteq Blocks5
    BY <1>2, WalkNames DEF Subgraphs!Paths
  <1>4. node = 0 /\ todo = {} /\ visited = {} /\ branches = <<>>
    BY DEF Subgraphs!Init
  <1>5. 0 \notin trunk /\ \A t \in trunk : ~(t < 0)
    BY <1>3 DEF Blocks5
  <1> QED BY <1>1, <1>2, <1>3, <1>4, <1>5 DEF WalkInv, WalkTypes, Walked

\* The blocks below one: its successors and theirs, all of them later.
LEMMA BelowFacts ==
  ASSUME WalkTypes, NEW n
  PROVE  /\ Subgraphs!Below(n) \subseteq Blocks5
         /\ \A u \in Subgraphs!Below(n) \cup {n} : Out(u) \subseteq Subgraphs!Below(n)
         /\ \A S \in SUBSET Blocks5 : (\A u \in S \cup {n} : Out(u) \subseteq S) => Subgraphs!Below(n) \subseteq S
         /\ n \in Blocks5 => \A m \in Subgraphs!Below(n) : n < m
  <1>1. Subgraphs!Below(n) \subseteq Blocks5
    BY WalkNames DEF Subgraphs!Below
  <1>2. \A S \in SUBSET Blocks5 : (\A u \in S \cup {n} : Out(u) \subseteq S) => Subgraphs!Below(n) \subseteq S
    BY WalkNames DEF Subgraphs!Below
  <1>3. ASSUME NEW u \in Subgraphs!Below(n) \cup {n}, NEW m \in Out(u),
               NEW S \in SUBSET Blocks5, \A x \in S \cup {n} : Out(x) \subseteq S
        PROVE  m \in S
    BY <1>2, <1>3
  <1>4. ASSUME NEW u \in Subgraphs!Below(n) \cup {n}, NEW m \in Out(u) PROVE m \in Subgraphs!Below(n)
    <2>1. m \in Blocks5
      BY DEF Out
    <2>2. \A S \in SUBSET Blocks5 : (\A x \in S \cup {n} : Out(x) \subseteq S) => m \in S
      BY <1>3
    <2> QED BY <2>1, <2>2, WalkNames DEF Subgraphs!Below
  <1>5. ASSUME n \in Blocks5 PROVE \A m \in Subgraphs!Below(n) : n < m
    <2>1. PICK S : S = {m \in Blocks5 : n < m}
      OBVIOUS
    <2>2. \A u \in S \cup {n} : Out(u) \subseteq S
      <3>1. \A u \in Blocks5 : \A v \in Out(u) : u < v /\ v \in Blocks5
        BY DEF WalkTypes, Out
      <3> QED BY <1>5, <2>1, <3>1 DEF Blocks5
    <2> QED BY <1>2, <2>1, <2>2
  <1> QED BY <1>1, <1>2, <1>4, <1>5

\* What a walk collects: its start and, off the trunk, whatever it leads to.
LEMMA CollectFacts ==
  ASSUME WalkTypes, NEW s \in Blocks5, s \notin trunk, s \notin visited
  PROVE  /\ Subgraphs!Collect(s) \subseteq Blocks5 \ (trunk \cup visited) /\ s \in Subgraphs!Collect(s)
         /\ \A n \in Subgraphs!Collect(s) : Out(n) \ (trunk \cup visited) \subseteq Subgraphs!Collect(s)
         /\ \A S \in SUBSET Blocks5 : s \in S /\ (\A u \in S : Out(u) \subseteq S) => Subgraphs!Collect(s) \subseteq S
  <1> DEFINE Open == Blocks5 \ (trunk \cup visited)
  <1>0. Subgraphs!Free = Open
    BY WalkNames DEF Subgraphs!Free
  <1>1. PICK C : C = {S \in SUBSET Open : s \in S /\ \A n \in S : Out(n) \cap Open \subseteq S}
    OBVIOUS
  <1>2. Subgraphs!Collect(s) = {n \in Open : \A S \in C : n \in S}
    BY <1>0, <1>1, WalkNames, Zenon DEF Subgraphs!Collect
  <1>3. s \in Subgraphs!Collect(s) /\ Subgraphs!Collect(s) \subseteq Open
    BY <1>1, <1>2
  <1>4. ASSUME NEW n \in Subgraphs!Collect(s), NEW m \in Out(n), m \in Open PROVE m \in Subgraphs!Collect(s)
    BY <1>1, <1>2, <1>4
  <1>5. ASSUME NEW S \in SUBSET Blocks5, s \in S, \A u \in S : Out(u) \subseteq S PROVE Subgraphs!Collect(s) \subseteq S
    <2>1. S \cap Open \in C
      BY <1>1, <1>5
    <2> QED BY <1>2, <2>1
  <1>6. \A n \in Subgraphs!Collect(s) : Out(n) \ (trunk \cup visited) \subseteq Subgraphs!Collect(s)
    <2>1. \A n : Out(n) \subseteq Blocks5
      BY DEF Out
    <2> QED BY <1>4, <2>1
  <1> QED BY <1>3, <1>5, <1>6

\* Blocks have a least one.
LEMMA LeastOf ==
  ASSUME NEW S \in SUBSET Nat, S # {}
  PROVE  Subgraphs!Min(S) \in S /\ \A x \in S : Subgraphs!Min(S) <= x
  <1>1. \E n \in S : \A x \in S : n <= x
    BY LeastNat
  <1> QED BY <1>1, Zenon DEF Subgraphs!Min

\* Going on along the trunk keeps it.
LEMMA AdvanceKeeps == ASSUME WalkInv, Subgraphs!Advance PROVE WalkInv'
  <1> DEFINE m == Subgraphs!Min(Subgraphs!Later)
  <1>1. /\ todo = {} /\ node' = m /\ todo' = Out(m) \ trunk
        /\ UNCHANGED <<edges, trunk, visited, branches>> /\ Subgraphs!Later # {}
    BY WalkNames DEF Subgraphs!Advance
  <1>2. /\ Subgraphs!Later = {n \in trunk : n > node} /\ trunk \subseteq Blocks5 /\ WalkTypes /\ Walked
    BY DEF Subgraphs!Later, WalkInv, WalkTypes
  <1>3. m \in trunk /\ m > node /\ \A n \in trunk : n > node => m <= n
    <2>1. Subgraphs!Later \in SUBSET Nat
      BY <1>2, WalkNames
    <2>2. m \in Subgraphs!Later /\ \A x \in Subgraphs!Later : m <= x
      BY <1>1, <2>1, LeastOf
    <2> QED BY <1>2, <2>2
  <1> HIDE DEF m
  <1>4. WalkTypes'
    <2>2. (todo \subseteq Out(node) \ trunk)'
      BY <1>1 DEF Out
    <2>3. Subgraphs!Paths(edges)' = Subgraphs!Paths(edges)
      BY <1>1
    <2> QED BY <1>1, <1>2, <1>3, <2>2, <2>3 DEF WalkTypes
  <1>5. Walked'
    <2>1. \A n : Out(n)' = Out(n)
      BY <1>1 DEF Out
    <2>2. \A t \in trunk : t < m => t < node \/ t = node
      <3>1. node \in Nat /\ m \in Nat /\ \A t \in trunk : t \in Nat
        BY <1>2, <1>3, WalkNames DEF WalkTypes
      <3> QED BY <1>3, <3>1
    <2>3. \A t \in trunk : t < m => Out(t) \ trunk \subseteq visited
      BY <1>1, <1>2, <2>2 DEF Walked
    <2>4. Out(m) \ trunk \subseteq visited \cup todo'
      BY <1>1
    <2>5. \A n \in visited : Out(n) \ trunk \subseteq visited
      BY <1>2 DEF Walked
    <2>6. /\ \A n \in visited' : Out(n)' \ trunk' \subseteq visited'
          /\ \A t \in trunk' : t < node' => Out(t)' \ trunk' \subseteq visited'
      BY <1>1, <2>1, <2>3, <2>5
    <2>7. (node \in trunk => Out(node) \ trunk \subseteq visited \cup todo)'
      BY <1>1, <2>4 DEF Out
    <2> QED BY <2>6, <2>7 DEF Walked
  <1>6. \A b : BranchWhole(b)' <=> BranchWhole(b)
    <2>1. \A n : Subgraphs!Below(n)' = Subgraphs!Below(n) /\ Out(n)' = Out(n)
      BY <1>1 DEF Subgraphs!Below, Subgraphs!out_edges, Out
    <2> QED BY <1>1, <2>1 DEF BranchWhole
  <1>7. UNCHANGED branches
    BY <1>1
  <1> QED BY <1>4, <1>5, <1>6, <1>7 DEF WalkInv

\* A block of the walk is taken from what is to do; what it leads to is walked.
LEMMA TakeBranchKeeps == ASSUME WalkInv, Subgraphs!TakeBranch PROVE WalkInv'
  <1>0. WalkTypes /\ Walked /\ trunk \subseteq Blocks5 /\ branches \in Seq(Branch5)
    BY DEF WalkInv, WalkTypes
  <1>1. PICK s \in todo :
          /\ todo' = todo \ {s} /\ UNCHANGED <<edges, trunk, node>>
          /\ IF s \in visited THEN UNCHANGED <<visited, branches>>
             ELSE /\ visited' = visited \cup Subgraphs!Collect(s)
                  /\ \/ UNCHANGED branches
                     \/ \E n \in Subgraphs!Collect(s) \cup {s} : \E t \in Out(n) \cap trunk :
                          branches' = Append(branches, [nodes |-> Subgraphs!Collect(s), divergence |-> node, reconvergence |-> t])
    <2>1. PICK s \in todo :
            /\ todo' = todo \ {s}
            /\ IF s \in visited
               THEN UNCHANGED <<visited, branches>>
               ELSE LET nodes == Subgraphs!Collect(s)
                        E == IF Subgraphs!Merges(s) # {} THEN Subgraphs!Merges(s)
                                ELSE UNION {Subgraphs!Merges(n) : n \in nodes}
                    IN  /\ visited' = visited \cup nodes
                        /\ IF E = {}
                           THEN UNCHANGED branches
                           ELSE \E reconv \in E :
                                  branches' = Append(branches, [nodes |-> nodes, divergence |-> node, reconvergence |-> reconv])
      BY DEF Subgraphs!TakeBranch
    <2>2. UNCHANGED <<edges, trunk, node>>
      BY DEF Subgraphs!TakeBranch
    <2>3. \A n : Subgraphs!Merges(n) = Out(n) \cap trunk
      BY WalkNames DEF Subgraphs!Merges
    <2>4. CASE s \in visited
      BY <2>1, <2>2, <2>4
    <2>5. CASE s \notin visited
      <3>1. PICK K : K = Subgraphs!Collect(s)
        OBVIOUS
      <3>2. PICK E : E = IF Subgraphs!Merges(s) # {} THEN Subgraphs!Merges(s) ELSE UNION {Subgraphs!Merges(n) : n \in K}
        OBVIOUS
      <3>3. /\ visited' = visited \cup K
            /\ IF E = {} THEN UNCHANGED branches
               ELSE \E t \in E : branches' = Append(branches, [nodes |-> K, divergence |-> node, reconvergence |-> t])
        BY <2>1, <2>5, <3>1, <3>2, Zenon
      <3>4. \A t \in E : \E n \in K \cup {s} : t \in Out(n) \cap trunk
        BY <2>3, <3>2
      <3> QED BY <2>1, <2>2, <2>5, <3>1, <3>3, <3>4
    <2> QED BY <2>4, <2>5
  <1>2. s \in Out(node) /\ s \notin trunk /\ s \in Blocks5 /\ node \in trunk /\ node \in Blocks5
    <2>1. s \in Out(node) /\ s \notin trunk /\ node \in trunk \cup {0}
      BY <1>0 DEF WalkTypes
    <2>2. s \in Blocks5 /\ node \in Blocks5
      BY <1>0, <2>1 DEF Out, WalkTypes
    <2> QED BY <2>1, <2>2, WalkNames
  <1>3. \A n : Out(n)' = Out(n) /\ Subgraphs!Below(n)' = Subgraphs!Below(n)
    BY <1>1 DEF Out, Subgraphs!Below, Subgraphs!out_edges
  <1>4. Subgraphs!Paths(edges)' = Subgraphs!Paths(edges)
    BY <1>1
  <1>5. CASE s \in visited
    <2>1. UNCHANGED <<visited, branches>>
      BY <1>1, <1>5
    <2>2. WalkTypes'
      BY <1>0, <1>1, <1>3, <1>4, <2>1 DEF WalkTypes
    <2>3. Walked'
      BY <1>0, <1>1, <1>3, <1>5, <2>1 DEF Walked
    <2>4. \A b : BranchWhole(b)' <=> BranchWhole(b)
      BY <1>1, <1>3, <2>1 DEF BranchWhole
    <2> QED BY <2>1, <2>2, <2>3, <2>4 DEF WalkInv
  <1>6. CASE s \notin visited
    <2>1. PICK K : K = Subgraphs!Collect(s)
      OBVIOUS
    <2>2. /\ K \subseteq Blocks5 \ (trunk \cup visited) /\ s \in K
          /\ \A n \in K : Out(n) \ (trunk \cup visited) \subseteq K
          /\ \A S \in SUBSET Blocks5 : s \in S /\ (\A u \in S : Out(u) \subseteq S) => K \subseteq S
      BY <1>0, <1>2, <1>6, <2>1, CollectFacts
    <2>3. visited' = visited \cup K
      BY <1>1, <1>6, <2>1
    <2>4. K \subseteq Subgraphs!Below(node) /\ \A n \in K : node < n
      <3>1. /\ Subgraphs!Below(node) \in SUBSET Blocks5 /\ s \in Subgraphs!Below(node)
            /\ \A u \in Subgraphs!Below(node) : Out(u) \subseteq Subgraphs!Below(node)
            /\ \A n \in Subgraphs!Below(node) : node < n
        BY <1>0, <1>2, BelowFacts
      <3> QED BY <2>2, <3>1
    <2>5. Walked'
      <3>1. \A n \in visited \cup K : Out(n) \ trunk \subseteq visited \cup K
        BY <1>0, <2>2 DEF Walked
      <3>2. Out(node) \ trunk \subseteq (visited \cup K) \cup (todo \ {s})
        BY <1>0, <1>2, <2>2 DEF Walked
      <3>3. \A t \in trunk : t < node => Out(t) \ trunk \subseteq visited \cup K
        BY <1>0 DEF Walked
      <3>4. (\A n \in visited : Out(n) \ trunk \subseteq visited)'
        BY <1>1, <1>3, <2>3, <3>1
      <3>5. (\A t \in trunk : t < node => Out(t) \ trunk \subseteq visited)'
        BY <1>1, <1>3, <2>3, <3>3
      <3>6. (node \in trunk => Out(node) \ trunk \subseteq visited \cup todo)'
        BY <1>1, <1>3, <2>3, <3>2
      <3> QED BY <3>4, <3>5, <3>6 DEF Walked
    <2>6. \A b : BranchWhole(b) => BranchWhole(b)'
      BY <1>1, <1>3, <2>3 DEF BranchWhole
    <2>7. ASSUME branches' \in Seq(Branch5) PROVE WalkTypes'
      BY <1>0, <1>1, <1>3, <1>4, <2>2, <2>3, <2>7 DEF WalkTypes
    <2>8. CASE UNCHANGED branches
      <3>1. WalkTypes'
        BY <1>0, <2>7, <2>8
      <3> QED BY <2>5, <2>6, <2>8, <3>1 DEF WalkInv
    <2>9. ASSUME NEW n \in K, NEW t \in Out(n) \cap trunk,
                 branches' = Append(branches, [nodes |-> K, divergence |-> node, reconvergence |-> t])
          PROVE  WalkInv'
      <3>1. PICK b : b = [nodes |-> K, divergence |-> node, reconvergence |-> t]
        OBVIOUS
      <3>2. t \in Blocks5 /\ n \in Blocks5 /\ n < t /\ node < n
        BY <1>0, <2>2, <2>4 DEF WalkTypes, Out
      <3>3. b \in Branch5 /\ b.nodes = K /\ b.divergence = node /\ b.reconvergence = t
        BY <1>0, <1>2, <2>2, <3>1, <3>2 DEF Branch5
      <3>4. node < t
        BY <1>2, <3>2, WalkNames
      <3>5. BranchWhole(b)'
        <4>1. t \in Out(n)'
          BY <1>3
        <4> QED BY <1>1, <1>2, <1>3, <2>3, <2>4, <3>3, <3>4, <4>1 DEF BranchWhole
      <3>6. /\ branches' = Append(branches, b) /\ branches' \in Seq(Branch5)
            /\ Len(branches) \in Nat /\ DOMAIN branches = 1 .. Len(branches)
            /\ DOMAIN branches' = 1 .. Len(branches) + 1 /\ branches'[Len(branches) + 1] = b
            /\ \A i \in DOMAIN branches : branches'[i] = branches[i]
        BY <1>0, <2>9, <3>1, <3>3
      <3>7. \A i \in DOMAIN branches : branches[i].nodes \cap K = {}
        BY <2>2 DEF WalkInv, BranchWhole
      <3>8. \A i \in DOMAIN branches' : BranchWhole(branches[i])'
        <4>1. ASSUME NEW i \in DOMAIN branches' PROVE BranchWhole(branches[i])'
          <5>1. CASE i = Len(branches) + 1
            BY <3>5, <3>6, <5>1 DEF BranchWhole
          <5>2. CASE i \in DOMAIN branches
            <6>1. BranchWhole(branches[i])
              BY <5>2 DEF WalkInv
            <6>2. PICK c : c = branches[i] /\ c = branches'[i]
              BY <3>6, <5>2
            <6>3. BranchWhole(c)'
              BY <2>6, <6>1, <6>2
            <6> QED BY <6>2, <6>3 DEF BranchWhole
          <5> QED BY <3>6, <5>1, <5>2
        <4> QED BY <4>1
      <3>9. \A i, j \in DOMAIN branches' : i # j => branches'[i].nodes \cap branches'[j].nodes = {}
        <4>1. \A i, j \in DOMAIN branches : i # j => branches[i].nodes \cap branches[j].nodes = {}
          BY DEF WalkInv
        <4> QED BY <3>3, <3>6, <3>7, <4>1
      <3>10. WalkTypes'
        BY <2>7, <3>6
      <3> QED BY <2>5, <3>8, <3>9, <3>10 DEF WalkInv
    <2>10. Subgraphs!Collect(s) \cup {s} = K
      BY <2>1, <2>2
    <2> QED BY <1>1, <1>6, <2>1, <2>8, <2>9, <2>10
  <1> QED BY <1>5, <1>6

\* Every step of the walk keeps it.
LEMMA WalkMoves == ASSUME WalkInv, [Subgraphs!Next]_branchData PROVE WalkInv'
  <1>1. CASE UNCHANGED branchData
    <2>1. UNCHANGED <<edges, trunk, node, todo, visited, branches>>
      BY <1>1 DEF branchData
    <2>2. \A n : Out(n)' = Out(n) /\ Subgraphs!Below(n)' = Subgraphs!Below(n)
      BY <2>1 DEF Out, Subgraphs!Below, Subgraphs!out_edges
    <2>3. Subgraphs!Paths(edges)' = Subgraphs!Paths(edges)
      BY <2>1
    <2>4. WalkTypes' /\ Walked'
      BY <2>1, <2>2, <2>3 DEF WalkInv, WalkTypes, Walked
    <2>5. \A b : BranchWhole(b)' <=> BranchWhole(b)
      BY <2>1, <2>2 DEF BranchWhole
    <2> QED BY <2>1, <2>4, <2>5 DEF WalkInv
  <1> QED BY <1>1, AdvanceKeeps, TakeBranchKeeps DEF Subgraphs!Next

\* What the runs check of the walk follows from it.
LEMMA WalkGives ==
  ASSUME WalkInv
  PROVE  /\ Subgraphs!TypeOK /\ Subgraphs!Reconverges
         /\ Subgraphs!BranchesDisjoint /\ Subgraphs!AllVisited
  <1>1. WalkTypes /\ Walked
    BY DEF WalkInv
  <1>2. Subgraphs!TypeOK
    <2>1. todo \subseteq Blocks5 \ trunk
      BY <1>1 DEF WalkTypes, Out
    <2> QED BY <1>1, <2>1, WalkNames DEF Subgraphs!TypeOK, WalkTypes, WalkInv, BranchWhole
  <1>3. Subgraphs!BranchesDisjoint
    BY DEF WalkInv, Subgraphs!BranchesDisjoint
  <1>4. Subgraphs!Reconverges
    <2>1. ASSUME NEW i \in DOMAIN branches, NEW b, b = branches[i]
          PROVE  /\ {b.divergence, b.reconvergence} \subseteq trunk /\ b.divergence < b.reconvergence
                 /\ b.nodes \subseteq Subgraphs!Below(b.divergence)
                 /\ b.nodes \cap Subgraphs!in_edges(b.reconvergence) # {}
      <3>1. BranchWhole(b) /\ b.nodes \subseteq Blocks5
        BY <1>1, <2>1 DEF WalkInv, WalkTypes, BranchWhole
      <3>2. PICK n \in b.nodes : b.reconvergence \in Out(n)
        BY <3>1 DEF BranchWhole
      <3>3. n \in Subgraphs!in_edges(b.reconvergence)
        BY <3>1, <3>2, WalkNames DEF Subgraphs!in_edges, Out
      <3> QED BY <3>1, <3>2, <3>3 DEF BranchWhole
    <2> QED BY <2>1 DEF Subgraphs!Reconverges
  <1>5. Subgraphs!AllVisited
    <2> SUFFICES ASSUME Subgraphs!Done, NEW n \in Blocks5, n \notin trunk, NEW t \in trunk, n \in Subgraphs!Below(t)
                 PROVE  n \in visited
      BY WalkNames DEF Subgraphs!AllVisited, Subgraphs!Between
    <2>1. todo = {} /\ \A x \in trunk : ~(x > node)
      BY DEF Subgraphs!Done, Subgraphs!Later
    <2>2. \A x \in trunk : Out(x) \ trunk \subseteq visited
      <3>1. \A x \in trunk : x < node \/ x = node
        <4>1. node \in Nat /\ \A x \in trunk : x \in Nat
          BY <1>1, WalkNames DEF WalkTypes
        <4> QED BY <2>1, <4>1
      <3> QED BY <1>1, <2>1, <3>1 DEF Walked
    <2>3. PICK S : S = trunk \cup visited
      OBVIOUS
    <2>4. S \in SUBSET Blocks5 /\ \A u \in S \cup {t} : Out(u) \subseteq S
      BY <1>1, <2>2, <2>3 DEF Walked, WalkTypes
    <2>5. Subgraphs!Below(t) \subseteq S
      BY <1>1, <2>4, BelowFacts
    <2> QED BY <2>3, <2>5
  <1> QED BY <1>2, <1>3, <1>4, <1>5

-----------------------------------------------------------------------------
(* The theorems about what is compiled.                                     *)

CompiledInv ==
  /\ part = "compile" => CompileInv
  /\ part = "compile_race" => RaceInv
  /\ part = "sort" => SortInv
  /\ part = "branches" => WalkInv

\* What says nothing but of the data of the compilations stays with them.
LEMMA CompileSame == ASSUME CompileInv, UNCHANGED compileData PROVE CompileInv'
  BY DEF compileData, CompileInv, RaceInv, CompileTypes, Opened, CompileRace!OneWriter, RowsBounded, Adds, Filling

\* Each part keeps its invariant, whatever else takes a step.
LEMMA CompiledMoves == ASSUME CompiledInv, [AllNext]_allVars PROVE CompiledInv'
  <1>1. part' = part
    BY PartStep
  <1>2. ASSUME part = "compile" PROVE CompileInv'
    <2>1. [Compile!Next]_compileData /\ CompileInv
      BY <1>2, PartStep DEF CompiledInv
    <2>2. CASE UNCHANGED compileData
      BY <2>1, <2>2, CompileSame
    <2> QED BY <2>1, <2>2, CompileMoves
  <1>3. ASSUME part = "compile_race" PROVE RaceInv'
    <2>1. [CompileRace!Next]_compileData /\ RaceInv
      BY <1>3, PartStep DEF CompiledInv
    <2>2. CASE UNCHANGED compileData
      BY <2>1, <2>2 DEF compileData, RaceInv, CompileTypes, Opened, CompileRace!OneWriter
    <2> QED BY <2>1, <2>2, RaceMoves
  <1>4. ASSUME part = "sort" PROVE SortInv'
    BY <1>4, PartStep, SortMoves DEF CompiledInv, sortData
  <1>5. ASSUME part = "branches" PROVE WalkInv'
    BY <1>5, PartStep, WalkMoves DEF CompiledInv
  <1> QED BY <1>1, <1>2, <1>3, <1>4, <1>5 DEF CompiledInv

\* However requests overlap and wherever they die: what a compilation names
\* has its operations, but for those that the request which made it has still
\* to add or died before adding; one request alone fills a snapshot; the order leaves out what a cycle feeds and nothing
\* else; a block is in one branch, between where it leaves the trunk and
\* where it comes back (CompiledWhole of MCFlowsheets: engines/compile.py,
\* engines/branch_detection.py).
THEOREM AllCompiledWhole == AllSpec => []CompiledWhole
  <1>1. AllInit => CompiledInv
    BY CompileBegins, RaceBegins, SortInit, WalkInit DEF CompiledInv, AllInit
  <1>2. CompiledInv /\ [AllNext]_allVars => CompiledInv'
    BY CompiledMoves
  <1>3. CompiledInv => CompiledWhole
    BY CompileGives, NoFalseWarning, LeavesOutFed, LeavesOutCyclic, WalkGives
       DEF CompiledInv, CompiledWhole, RaceInv, SortInv
  <1> QED BY <1>1, <1>2, <1>3, PTL DEF AllSpec

OrderInv == IF part = "sort" THEN SortInv ELSE order = <<>>

\* Beside whatever runs, the order has every block once, after all that feed
\* it (OrderRespects of TopoSort: "Return op_codes in topological order
\* (Kahn's algorithm)", engines/compile.py).
THEOREM AllOrderRespects == AllSpec => []OrderRespects
  <1>1. AllInit => OrderInv
    BY SortInit DEF AllInit, OrderInv
  <1>2. OrderInv /\ [AllNext]_allVars => OrderInv'
    BY PartStep, SortMoves DEF OrderInv, sortData, vars
  <1>3. OrderInv => OrderRespects
    BY DEF OrderInv, SortInv, IInv, OrderRespects
  <1> QED BY <1>1, <1>2, <1>3, PTL DEF AllSpec

\* The order alone, for any number of blocks and connections: every block of it
\* comes once, and after every block that feeds it.
THEOREM SpecOrderRespects == Spec => [](TypeOK /\ OrderRespects)
  <1>1. SortInv => TypeOK /\ OrderRespects
    BY DEF SortInv, IInv
  <1>2. SortInv /\ [Next]_vars => SortInv'
    BY SortMoves
  <1> QED BY <1>1, <1>2, SortInit, PTL DEF Spec

\* A block that the sort leaves out has an inlet that it leaves out, and those
\* left out are the ones on a cycle or downstream of one: only a cycle keeps a
\* block from being ordered, and a warning is given for no other flowsheet.
THEOREM SpecLeftOverIsFed == Spec => [](LeftOverIsFed /\ LeftOverIsCyclic /\ NoFalseAlarm)
  <1>1. SortInv => LeftOverIsFed /\ LeftOverIsCyclic /\ NoFalseAlarm
    BY LeavesOutFed, LeavesOutCyclic, NoFalseWarning DEF SortInv
  <1>2. SortInv /\ [Next]_vars => SortInv'
    BY SortMoves
  <1> QED BY <1>1, <1>2, SortInit, PTL DEF Spec

-----------------------------------------------------------------------------
(* Circuit templates (CircuitTemplates) under the requests of two.         *)

Rows3 == {t1, t2, t3}
RowOf == [made : Nat, touched : Nat, active : BOOLEAN, snap : BOOLEAN, ops : Nat, crit : Nat]
TemplateTypes ==
  /\ clock \in Nat /\ tpl \in [Rows3 -> RowOf]
  /\ \A t \in Rows3 : tpl[t].touched <= clock /\ tpl[t].made <= tpl[t].touched
  /\ \A t, u \in Rows3 : tpl[t].made > 0 /\ tpl[t].made = tpl[u].made => t = u
\* The criteria of a template are not of an earlier state than its operations.
RowsWhole == \A t \in Rows3 : tpl[t].made > 0 => tpl[t].ops <= tpl[t].crit /\ tpl[t].crit <= clock
\* A request that turned all off finds active only what was touched since; what
\* a clone has read is not of a later state than the criteria of its source.
Under(q) ==
  \/ q = TemplateUse!Idle
  \/ /\ q \in [do : {"off", "on", "clone"}, of : Rows3, ops : Nat, since : Nat]
     /\ tpl[q.of].made > 0
     /\ q.do = "on" => q.since <= clock /\ \A t \in Rows3 : tpl[t].made > 0 /\ tpl[t].active => tpl[t].touched > q.since
     /\ q.do = "clone" => q.ops <= tpl[q.of].crit
RequestTypes ==
  /\ tplReq \in [{r1, r2} -> {tplReq[r1], tplReq[r2]}]
  /\ \A r \in {r1, r2} : Under(tplReq[r])

TemplateInv == TemplateTypes /\ RequestTypes /\ RowsWhole

\* It holds when there is no template.
LEMMA TemplateInit ==
  ASSUME AllInit, part = "templates"
  PROVE  TemplateInv
  <1>1. TemplateUse!Init
    BY DEF AllInit
  <1> QED BY <1>1 DEF TemplateUse!Init, TemplateUse!NoRow, TemplateInv, TemplateTypes,
       RequestTypes, Under, RowsWhole, RowOf, Rows3

\* A template is inserted, or one is changed, at the next tick of the clock.
LEMMA RowChanges ==
  ASSUME TemplateTypes, NEW t \in Rows3, NEW w \in RowOf, clock' = clock + 1, tpl' = [tpl EXCEPT ![t] = w],
         w.touched <= clock + 1, w.made <= w.touched, w.made \in {tpl[t].made, clock + 1}
  PROVE  /\ TemplateTypes' /\ tpl'[t] = w
         /\ \A u \in Rows3 : u # t => tpl'[u] = tpl[u]
  <1>1. tpl' \in [Rows3 -> RowOf] /\ tpl'[t] = w /\ \A u \in Rows3 : u # t => tpl'[u] = tpl[u]
    BY DEF TemplateTypes
  <1>2. \A u \in Rows3 : tpl[u].touched \in Nat /\ tpl[u].made \in Nat /\ tpl[u].touched <= clock /\ tpl[u].made <= tpl[u].touched
    BY DEF TemplateTypes, RowOf
  <1>3. w.touched \in Nat /\ w.made \in Nat /\ clock \in Nat
    BY DEF TemplateTypes, RowOf
  <1>4. \A u \in Rows3 : tpl'[u].touched <= clock' /\ tpl'[u].made <= tpl'[u].touched
    BY <1>1, <1>2, <1>3
  <1>5. \A u, v \in Rows3 : tpl'[u].made > 0 /\ tpl'[u].made = tpl'[v].made => u = v
    BY <1>1, <1>2, <1>3 DEF TemplateTypes
  <1> QED BY <1>1, <1>3, <1>4, <1>5 DEF TemplateTypes

\* What happens to the rows at a tick: a row stays, its criteria do not go
\* back, and it is active as before or is touched.
RowGoesOn(t) ==
  /\ tpl[t].made > 0 => tpl'[t].made > 0 /\ tpl[t].crit <= tpl'[t].crit
  /\ tpl'[t].made > 0 /\ tpl'[t].active =>
       tpl'[t].touched = clock + 1 \/ (tpl[t].made > 0 /\ tpl[t].active /\ tpl'[t].touched = tpl[t].touched)

\* A request that does not take the step is as it was.
LEMMA UnderKept ==
  ASSUME TemplateTypes, TemplateTypes', clock' = clock + 1, \A t \in Rows3 : RowGoesOn(t), NEW q, Under(q)
  PROVE  Under(q)'
  <1>1. CASE q = TemplateUse!Idle
    BY <1>1 DEF Under
  <1>2. CASE q # TemplateUse!Idle
    <2>1. /\ q \in [do : {"off", "on", "clone"}, of : Rows3, ops : Nat, since : Nat]
          /\ tpl[q.of].made > 0
          /\ q.do = "on" => q.since <= clock /\ \A t \in Rows3 : tpl[t].made > 0 /\ tpl[t].active => tpl[t].touched > q.since
          /\ q.do = "clone" => q.ops <= tpl[q.of].crit
      BY <1>2 DEF Under
    <2>2. q.of \in Rows3 /\ q.since \in Nat /\ q.ops \in Nat /\ clock \in Nat
      BY <2>1 DEF TemplateTypes
    <2>3. tpl'[q.of].made > 0 /\ tpl[q.of].crit <= tpl'[q.of].crit
      BY <2>1, <2>2 DEF RowGoesOn
    <2>4. tpl[q.of].crit \in Nat /\ tpl'[q.of].crit \in Nat
      BY <2>2 DEF TemplateTypes, RowOf
    <2>5. q.do = "clone" => q.ops <= tpl'[q.of].crit
      BY <2>1, <2>2, <2>3, <2>4
    <2>6. ASSUME q.do = "on", NEW t \in Rows3, tpl'[t].made > 0, tpl'[t].active PROVE tpl'[t].touched > q.since
      <3>1. tpl'[t].touched = clock + 1 \/ (tpl[t].made > 0 /\ tpl[t].active /\ tpl'[t].touched = tpl[t].touched)
        BY <2>6 DEF RowGoesOn
      <3>2. q.since <= clock
        BY <2>1, <2>6
      <3>3. CASE tpl'[t].touched = clock + 1
        BY <2>2, <3>2, <3>3
      <3>4. CASE tpl[t].made > 0 /\ tpl[t].active /\ tpl'[t].touched = tpl[t].touched
        BY <2>1, <2>6, <3>4
      <3> QED BY <3>1, <3>3, <3>4
    <2>7. q.do = "on" => q.since <= clock'
      BY <2>1, <2>2
    <2> QED BY <2>1, <2>3, <2>5, <2>6, <2>7 DEF Under
  <1> QED BY <1>1, <1>2

\* A tick leaves every request right but the one that takes it, which ends or
\* is right for another reason.
LEMMA TickKeeps ==
  ASSUME TemplateInv, TemplateTypes', RowsWhole', clock' = clock + 1, \A t \in Rows3 : RowGoesOn(t),
         NEW r \in {r1, r2}, NEW q, Under(q)', tplReq' = [tplReq EXCEPT ![r] = q]
  PROVE  TemplateInv'
  <1>1. tplReq \in [{r1, r2} -> {tplReq[r1], tplReq[r2]}] /\ TemplateTypes /\ \A s \in {r1, r2} : Under(tplReq[s])
    BY DEF TemplateInv, RequestTypes
  <1>2. tplReq' \in [{r1, r2} -> {tplReq'[r1], tplReq'[r2]}] /\ \A s \in {r1, r2} : tplReq'[s] \in {q, tplReq[s]}
    BY <1>1
  <1>3. ASSUME NEW s \in {r1, r2} PROVE Under(tplReq[s])'
    <2>1. CASE tplReq'[s] = q
      BY <2>1 DEF Under
    <2>2. CASE tplReq'[s] = tplReq[s]
      <3>1. PICK p : p = tplReq[s]
        OBVIOUS
      <3>2. Under(p)
        BY <1>1, <3>1
      <3>3. Under(p)'
        BY <1>1, <3>2, UnderKept
      <3> QED BY <2>2, <3>1, <3>3 DEF Under
    <2> QED BY <1>2, <2>1, <2>2
  <1> QED BY <1>2, <1>3 DEF TemplateInv, RequestTypes

\* One row changes, or there is a new one; the request that does it ends, or
\* none is under way.
LEMMA RowHolds ==
  ASSUME TemplateInv, NEW r \in {r1, r2}, tplReq' = [tplReq EXCEPT ![r] = TemplateUse!Idle], clock' = clock + 1,
         NEW t \in Rows3, NEW w \in RowOf, tpl' = [tpl EXCEPT ![t] = w],
         w.touched <= clock + 1, w.made <= w.touched, w.made \in {tpl[t].made, clock + 1},
         w.made > 0 => w.ops <= w.crit /\ w.crit <= clock + 1, tpl[t].made > 0 => tpl[t].crit <= w.crit,
         w.made > 0 /\ w.active => w.touched = clock + 1 \/ (tpl[t].made > 0 /\ tpl[t].active /\ w.touched = tpl[t].touched)
  PROVE  TemplateInv'
  <1>1. TemplateTypes /\ RowsWhole
    BY DEF TemplateInv
  <1>2. TemplateTypes' /\ tpl'[t] = w /\ \A u \in Rows3 : u # t => tpl'[u] = tpl[u]
    BY <1>1, RowChanges
  <1>3. \A u \in Rows3 : tpl[u].crit \in Nat /\ tpl[u].made \in Nat
    BY <1>1 DEF TemplateTypes, RowOf
  <1>a. clock \in Nat /\ w.made \in Nat /\ \A u \in Rows3 : tpl[u].crit <= tpl[u].crit
    BY <1>1, <1>3 DEF TemplateTypes, RowOf
  <1>4. RowsWhole'
    <2>1. ASSUME NEW u \in Rows3, tpl'[u].made > 0 PROVE tpl'[u].ops <= tpl'[u].crit /\ tpl'[u].crit <= clock + 1
      <3>1. CASE u = t
        BY <1>2, <2>1, <3>1
      <3>2. CASE u # t
        BY <1>1, <1>2, <1>3, <1>a, <2>1, <3>2 DEF RowsWhole
      <3> QED BY <3>1, <3>2
    <2> QED BY <2>1 DEF RowsWhole
  <1>5. \A u \in Rows3 : RowGoesOn(u)
    <2>1. RowGoesOn(t)
      BY <1>2, <1>3, <1>a DEF RowGoesOn
    <2>2. ASSUME NEW u \in Rows3, u # t PROVE RowGoesOn(u)
      BY <1>2, <1>a, <2>2 DEF RowGoesOn
    <2> QED BY <2>1, <2>2
  <1>6. Under(TemplateUse!Idle)'
    BY DEF Under
  <1> QED BY <1>2, <1>4, <1>5, <1>6, TickKeeps

\* A new template leaves it so.
LEMMA InsertHolds ==
  ASSUME TemplateInv, NEW a \in BOOLEAN, NEW s \in BOOLEAN, NEW o \in Nat, NEW c \in Nat, o <= c, c <= clock + 1,
         TemplateUse!Tick, TemplateUse!Insert(a, s, o, c),
         NEW r \in {r1, r2}, tplReq' = [tplReq EXCEPT ![r] = TemplateUse!Idle]
  PROVE  TemplateInv'
  <1>0. clock + 1 \in Nat /\ clock' = clock + 1
    BY DEF TemplateInv, TemplateTypes, TemplateUse!Tick
  <1>1. PICK w : w = [made |-> clock + 1, touched |-> clock + 1, active |-> a, snap |-> s, ops |-> o, crit |-> c]
    OBVIOUS
  <1>2. PICK t \in Rows3 : ~(tpl[t].made > 0) /\ tpl' = [tpl EXCEPT ![t] = w]
    BY <1>1 DEF TemplateUse!Insert, TemplateUse!There, TemplateUse!Now, Rows3
  <1>3. w \in RowOf /\ w.touched = clock + 1 /\ w.made = clock + 1 /\ w.ops = o /\ w.crit = c
    BY <1>0, <1>1 DEF RowOf
  <1>4. w.touched <= clock + 1 /\ w.made <= w.touched
    BY <1>0, <1>3
  <1> QED BY <1>0, <1>2, <1>3, <1>4, RowHolds

\* Every step keeps it, and an activation ends as it should.
LEMMA TemplateMoves ==
  ASSUME TemplateInv, TemplateUse!Next
  PROVE  TemplateInv' /\ TemplateUse!ActivationWins
  <1>0. /\ clock \in Nat /\ tpl \in [Rows3 -> RowOf] /\ tplReq \in [{r1, r2} -> {tplReq[r1], tplReq[r2]}]
        /\ \A t \in Rows3 : tpl[t].touched <= clock /\ tpl[t].made <= tpl[t].touched
        /\ \A t \in Rows3 : tpl[t].made > 0 => tpl[t].ops <= tpl[t].crit /\ tpl[t].crit <= clock
        /\ \A t \in Rows3 : tpl[t].made \in Nat /\ tpl[t].touched \in Nat /\ tpl[t].ops \in Nat /\ tpl[t].crit \in Nat
        /\ \A r \in {r1, r2} : Under(tplReq[r])
    BY DEF TemplateInv, TemplateTypes, RequestTypes, RowsWhole, RowOf
  <1>i. /\ TemplateUse!Idle = [do |-> "none", of |-> "none", ops |-> 0, since |-> 0]
        /\ clock + 1 \in Nat /\ clock <= clock + 1 /\ clock + 1 <= clock + 1
    BY <1>0 DEF TemplateUse!Idle
  \* Only a request that turns its template on ends an activation.
  <1>b. ASSUME NEW r \in {r1, r2}, NEW q, tplReq' = [tplReq EXCEPT ![r] = q], tplReq[r].do # "on" \/ q # TemplateUse!Idle
        PROVE  TemplateUse!ActivationWins
    <2>1. ASSUME NEW s \in {r1, r2}, tplReq[s].do = "on", tplReq'[s] = TemplateUse!Idle PROVE FALSE
      <3>1. tplReq'[s] \in {tplReq[s], q} /\ (s = r => tplReq'[s] = q) /\ (s # r => tplReq'[s] = tplReq[s])
        BY <1>0, <1>b
      <3>2. tplReq[s] # TemplateUse!Idle
        BY <1>i, <2>1
      <3> QED BY <1>b, <2>1, <3>1, <3>2
    <2> QED BY <2>1 DEF TemplateUse!ActivationWins
  <1>a. ASSUME NEW r \in {r1, r2}, NEW k, TemplateUse!May(r, k)
        PROVE  tplReq[r] = TemplateUse!Idle /\ tplReq[r].do # "on"
    BY <1>a, <1>i DEF TemplateUse!May
  <1>c. ASSUME NEW r \in {r1, r2}, tplReq[r] = TemplateUse!Idle, UNCHANGED tplReq
        PROVE  tplReq' = [tplReq EXCEPT ![r] = TemplateUse!Idle] /\ TemplateUse!ActivationWins
    <2>1. tplReq' = [tplReq EXCEPT ![r] = TemplateUse!Idle]
      BY <1>0, <1>c
    <2>2. tplReq[r].do # "on"
      BY <1>c, <1>i
    <2> QED BY <1>b, <2>1, <2>2
  <1>1. ASSUME NEW r \in {r1, r2}, TemplateUse!Create(r) PROVE TemplateInv' /\ TemplateUse!ActivationWins
    <2>1. tplReq[r] = TemplateUse!Idle /\ UNCHANGED tplReq /\ TemplateUse!Tick
      BY <1>1, <1>a DEF TemplateUse!Create
    <2>2. tplReq' = [tplReq EXCEPT ![r] = TemplateUse!Idle] /\ TemplateUse!ActivationWins
      BY <1>c, <2>1
    <2>3. TemplateUse!Insert(TRUE, FALSE, clock + 1, clock + 1)
      BY <1>1 DEF TemplateUse!Create, TemplateUse!Now
    <2> QED BY <1>i, <2>1, <2>2, <2>3, InsertHolds
  <1>2. ASSUME NEW r \in {r1, r2}, NEW t \in Rows3, tplReq[r] = TemplateUse!Idle, UNCHANGED tplReq, TemplateUse!Tick,
               \/ tpl' = [tpl EXCEPT ![t].touched = clock + 1]
               \/ tpl' = [tpl EXCEPT ![t].active = FALSE, ![t].touched = clock + 1]
               \/ tpl' = [tpl EXCEPT ![t].ops = clock + 1, ![t].crit = clock + 1]
        PROVE  TemplateInv' /\ TemplateUse!ActivationWins
    <2>1. clock' = clock + 1 /\ tpl[t] \in RowOf
      BY <1>0, <1>2 DEF TemplateUse!Tick
    <2>2. PICK w : /\ tpl' = [tpl EXCEPT ![t] = w]
                   /\ \/ w = [tpl[t] EXCEPT !.touched = clock + 1]
                      \/ w = [tpl[t] EXCEPT !.active = FALSE, !.touched = clock + 1]
                      \/ w = [tpl[t] EXCEPT !.ops = clock + 1, !.crit = clock + 1]
      BY <1>0, <1>2
    <2>3. /\ w \in RowOf /\ w.made = tpl[t].made
          /\ (w.touched = clock + 1 /\ w.ops = tpl[t].ops /\ w.crit = tpl[t].crit)
             \/ (w.touched = tpl[t].touched /\ w.ops = clock + 1 /\ w.crit = clock + 1 /\ w.active = tpl[t].active)
      BY <1>i, <2>1, <2>2 DEF RowOf
    <2>4. w.touched <= clock + 1 /\ w.made <= w.touched
      BY <1>0, <2>3
    <2>5. (w.made > 0 => w.ops <= w.crit /\ w.crit <= clock + 1) /\ (tpl[t].made > 0 => tpl[t].crit <= w.crit)
      BY <1>0, <1>i, <2>3
    <2>6. w.made > 0 /\ w.active => w.touched = clock + 1 \/ (tpl[t].made > 0 /\ tpl[t].active /\ w.touched = tpl[t].touched)
      BY <2>3
    <2>7. tplReq' = [tplReq EXCEPT ![r] = TemplateUse!Idle] /\ TemplateUse!ActivationWins
      BY <1>2, <1>c
    <2> QED BY <2>1, <2>2, <2>3, <2>4, <2>5, <2>6, <2>7, RowHolds
  <1>3. ASSUME NEW r \in {r1, r2},
               TemplateUse!Rename(r) \/ TemplateUse!Delete(r) \/ TemplateUse!Edit(r) \/ TemplateUse!Pipeline(r)
        PROVE  TemplateInv' /\ TemplateUse!ActivationWins
    <2>1. tplReq[r] = TemplateUse!Idle /\ UNCHANGED tplReq /\ TemplateUse!Tick
      BY <1>3 DEF TemplateUse!Rename, TemplateUse!Delete, TemplateUse!Edit, TemplateUse!Pipeline, TemplateUse!May
    <2>2. \E t \in Rows3 :
               \/ tpl' = [tpl EXCEPT ![t].touched = clock + 1]
               \/ tpl' = [tpl EXCEPT ![t].active = FALSE, ![t].touched = clock + 1]
               \/ tpl' = [tpl EXCEPT ![t].ops = clock + 1, ![t].crit = clock + 1]
      BY <1>3 DEF TemplateUse!Rename, TemplateUse!Delete, TemplateUse!Edit, TemplateUse!Pipeline,
         TemplateUse!There, TemplateUse!Newest, TemplateUse!Now, Rows3
    <2> QED BY <1>2, <2>1, <2>2
  <1>4. ASSUME NEW r \in {r1, r2}, TemplateUse!Activate(r) \/ TemplateUse!Clone(r)
        PROVE  TemplateInv' /\ TemplateUse!ActivationWins
    <2>1. tplReq[r] = TemplateUse!Idle /\ tplReq[r].do # "on" /\ UNCHANGED <<tpl, clock>>
      BY <1>4, <1>a DEF TemplateUse!Activate, TemplateUse!Clone
    <2>2. PICK t \in Rows3, q \in [do : {"off", "on", "clone"}, of : Rows3, ops : Nat, since : Nat] :
            /\ tpl[t].made > 0 /\ tplReq' = [tplReq EXCEPT ![r] = q] /\ q.of = t
            /\ q.do = "off" \/ (q.do = "clone" /\ q.ops = tpl[t].ops)
      <3>1. CASE TemplateUse!Activate(r)
        <4>1. PICK t \in Rows3 : tpl[t].made > 0 /\ tplReq' = [tplReq EXCEPT ![r] = [TemplateUse!Idle EXCEPT !.do = "off", !.of = t]]
          BY <3>1 DEF TemplateUse!Activate, TemplateUse!There, Rows3
        <4>2. PICK q : q = [TemplateUse!Idle EXCEPT !.do = "off", !.of = t]
          OBVIOUS
        <4>3. q \in [do : {"off", "on", "clone"}, of : Rows3, ops : Nat, since : Nat] /\ q.of = t /\ q.do = "off"
          BY <1>i, <4>2
        <4> QED BY <4>1, <4>2, <4>3
      <3>2. CASE TemplateUse!Clone(r)
        <4>1. PICK t \in Rows3 : tpl[t].made > 0 /\ tplReq' = [tplReq EXCEPT ![r] = [TemplateUse!Idle EXCEPT !.do = "clone", !.of = t, !.ops = tpl[t].ops]]
          BY <3>2 DEF TemplateUse!Clone, TemplateUse!There, TemplateUse!Active, Rows3
        <4>2. PICK q : q = [TemplateUse!Idle EXCEPT !.do = "clone", !.of = t, !.ops = tpl[t].ops]
          OBVIOUS
        <4>3. /\ q \in [do : {"off", "on", "clone"}, of : Rows3, ops : Nat, since : Nat]
              /\ q.of = t /\ q.do = "clone" /\ q.ops = tpl[t].ops
          BY <1>0, <1>i, <4>2
        <4> QED BY <4>1, <4>2, <4>3
      <3> QED BY <1>4, <3>1, <3>2
    <2>3. tplReq' = [tplReq EXCEPT ![r] = q] /\ q # TemplateUse!Idle
      BY <1>i, <2>2
    <2>4. Under(q)
      BY <1>0, <2>2 DEF Under
    <2>5. tplReq' \in [{r1, r2} -> {tplReq'[r1], tplReq'[r2]}] /\ \A s \in {r1, r2} : tplReq'[s] \in {q, tplReq[s]}
      BY <1>0, <2>3
    <2>6. ASSUME NEW s \in {r1, r2} PROVE Under(tplReq[s])'
      <3>1. Under(tplReq[s])
        BY <1>0
      <3> QED BY <2>1, <2>4, <2>5, <3>1 DEF Under
    <2>7. TemplateTypes' /\ RowsWhole'
      BY <2>1 DEF TemplateInv, TemplateTypes, RowsWhole
    <2> QED BY <1>b, <2>1, <2>3, <2>5, <2>6, <2>7 DEF TemplateInv, RequestTypes
  <1>5. ASSUME NEW r \in {r1, r2}, TemplateUse!DeactivateAll(r) PROVE TemplateInv' /\ TemplateUse!ActivationWins
    <2>1. tplReq[r].do = "off" /\ clock' = clock + 1
          /\ tplReq' = [tplReq EXCEPT ![r] = [tplReq[r] EXCEPT !.do = "on", !.since = clock + 1]]
      BY <1>0, <1>5 DEF TemplateUse!DeactivateAll, TemplateUse!Tick, TemplateUse!Now
    <2>2. tplReq[r] \in [do : {"off", "on", "clone"}, of : Rows3, ops : Nat, since : Nat] /\ tpl[tplReq[r].of].made > 0
      BY <1>0, <1>i, <2>1 DEF Under
    <2>3. PICK q : q = [tplReq[r] EXCEPT !.do = "on", !.since = clock + 1]
      OBVIOUS
    <2>a. /\ q \in [do : {"off", "on", "clone"}, of : Rows3, ops : Nat, since : Nat]
          /\ q.do = "on" /\ q.of = tplReq[r].of /\ q.since = clock + 1
      BY <1>i, <2>2, <2>3
    <2>4. \A t \in Rows3 : tpl'[t] = IF tpl[t].made > 0 THEN [tpl[t] EXCEPT !.active = FALSE, !.touched = clock + 1] ELSE tpl[t]
      BY <1>5 DEF TemplateUse!DeactivateAll, TemplateUse!Now, Rows3
    <2>5. \A t \in Rows3 : /\ tpl'[t] \in RowOf /\ tpl'[t].made = tpl[t].made
                           /\ tpl'[t].touched = IF tpl[t].made > 0 THEN clock + 1 ELSE tpl[t].touched
                           /\ tpl'[t].ops = tpl[t].ops /\ tpl'[t].crit = tpl[t].crit
      BY <1>0, <1>i, <2>4 DEF RowOf
    <2>6. \A t \in Rows3 : tpl[t].made > 0 => ~tpl'[t].active
      BY <1>0, <2>4 DEF RowOf
    <2>7. TemplateTypes'
      <3>1. clock' \in Nat /\ \A t \in Rows3 : tpl'[t].touched <= clock' /\ tpl'[t].made <= tpl'[t].touched
        BY <1>0, <1>i, <2>1, <2>5
      <3>2. \A t, u \in Rows3 : tpl'[t].made > 0 /\ tpl'[t].made = tpl'[u].made => t = u
        BY <2>5 DEF TemplateInv, TemplateTypes
      <3>3. tpl' \in [Rows3 -> RowOf]
        <4>1. tpl' = [t \in Rows3 |-> tpl'[t]]
          BY <1>5 DEF TemplateUse!DeactivateAll, Rows3
        <4> QED BY <2>5, <4>1
      <3> QED BY <3>1, <3>2, <3>3 DEF TemplateTypes
    <2>8. RowsWhole'
      <3>1. ASSUME NEW t \in Rows3, tpl'[t].made > 0 PROVE tpl'[t].ops <= tpl'[t].crit /\ tpl'[t].crit <= clock + 1
        <4>1. tpl[t].made > 0
          BY <2>5, <3>1
        <4>2. tpl[t].ops <= tpl[t].crit /\ tpl[t].crit <= clock
          BY <1>0, <4>1
        <4>3. tpl[t].crit <= clock + 1
          BY <1>0, <4>2
        <4>4. tpl'[t].ops = tpl[t].ops /\ tpl'[t].crit = tpl[t].crit
          BY <2>5
        <4> QED BY <4>2, <4>3, <4>4
      <3> QED BY <2>1, <3>1 DEF RowsWhole
    <2>9. \A t \in Rows3 : RowGoesOn(t)
      <3>1. \A t \in Rows3 : tpl[t].crit <= tpl'[t].crit
        BY <1>0, <2>5
      <3> QED BY <2>5, <2>6, <3>1 DEF RowGoesOn
    <2>10. Under(q)'
      <3>1. tpl'[q.of].made > 0
        BY <2>2, <2>5, <2>a
      <3>2. \A t \in Rows3 : tpl'[t].made > 0 => ~tpl'[t].active
        BY <2>5, <2>6
      <3> QED BY <1>i, <2>1, <2>a, <3>1, <3>2 DEF Under
    <2>11. tplReq' = [tplReq EXCEPT ![r] = q] /\ tplReq[r].do # "on"
      BY <2>1, <2>3
    <2> QED BY <1>b, <2>1, <2>7, <2>8, <2>9, <2>10, <2>11, TickKeeps
  <1>6. ASSUME NEW r \in {r1, r2}, TemplateUse!ActivateOne(r) PROVE TemplateInv' /\ TemplateUse!ActivationWins
    <2>1. tplReq[r].do = "on" /\ clock' = clock + 1 /\ tplReq' = [tplReq EXCEPT ![r] = TemplateUse!Idle]
      BY <1>6 DEF TemplateUse!ActivateOne, TemplateUse!Tick
    <2>2. PICK t \in Rows3 : t = tplReq[r].of /\ tpl[t].made > 0
      BY <1>0, <1>i, <2>1 DEF Under
    <2>3. /\ tplReq[r].since <= clock
          /\ \A u \in Rows3 : tpl[u].made > 0 /\ tpl[u].active => tpl[u].touched > tplReq[r].since
      BY <1>0, <1>i, <2>1 DEF Under
    <2>4. PICK w : w = [tpl[t] EXCEPT !.active = TRUE, !.touched = clock + 1]
      OBVIOUS
    <2>5. tpl' = [tpl EXCEPT ![t] = w]
      BY <1>0, <1>6, <2>2, <2>4 DEF TemplateUse!ActivateOne, TemplateUse!Now
    <2>6. /\ w \in RowOf /\ w.touched = clock + 1 /\ w.made = tpl[t].made
          /\ w.ops = tpl[t].ops /\ w.crit = tpl[t].crit
      <3>1. tpl[t] \in RowOf
        BY <1>0
      <3> QED BY <1>i, <2>4, <3>1 DEF RowOf
    <2>a. w.active
      <3>1. tpl[t] \in RowOf
        BY <1>0
      <3> QED BY <2>4, <3>1 DEF RowOf
    <2>b. w.touched <= clock + 1 /\ w.made <= w.touched /\ w.crit <= clock + 1 /\ w.ops <= w.crit /\ tpl[t].crit <= w.crit
      BY <1>0, <1>i, <2>2, <2>6
    <2>7. TemplateInv'
      BY <2>1, <2>5, <2>6, <2>b, RowHolds
    <2>8. tpl'[t] = w /\ \A u \in Rows3 : u # t => tpl'[u] = tpl[u]
      BY <1>0, <2>5
    <2>9. t \in TemplateUse!Active'
      BY <2>2, <2>6, <2>8, <2>a DEF TemplateUse!Active, TemplateUse!There, Rows3
    <2>10. ASSUME NEW u \in TemplateUse!Active', u # t
           PROVE  tpl'[u].touched > tplReq[r].since /\ tpl'[u].touched < clock + 1
      <3>1. u \in Rows3 /\ tpl[u].made > 0 /\ tpl[u].active /\ tpl'[u] = tpl[u]
        BY <2>8, <2>10 DEF TemplateUse!Active, TemplateUse!There, Rows3
      <3>2. tpl[u].touched \in Nat /\ tpl[u].touched <= clock
        BY <1>0, <3>1
      <3> QED BY <1>0, <2>3, <3>1, <3>2
    <2>11. TemplateUse!Latest(TemplateUse!Active)' = {t}
      <3>1. \A u \in TemplateUse!Active' : tpl'[u].touched <= tpl'[t].touched
        <4>1. ASSUME NEW u \in TemplateUse!Active' PROVE tpl'[u].touched <= tpl'[t].touched
          <5>1. u \in Rows3
            BY DEF TemplateUse!Active, TemplateUse!There, Rows3
          <5>2. tpl'[u].touched \in Nat /\ tpl'[t].touched = clock + 1
            BY <2>6, <2>7, <2>8, <5>1 DEF TemplateInv, TemplateTypes, RowOf
          <5> QED BY <1>i, <2>10, <5>2
        <4> QED BY <4>1
      <3>2. \A u \in TemplateUse!Active' : u # t => ~(tpl'[t].touched <= tpl'[u].touched)
        <4>1. ASSUME NEW u \in TemplateUse!Active', u # t PROVE ~(tpl'[t].touched <= tpl'[u].touched)
          <5>1. u \in Rows3
            BY DEF TemplateUse!Active, TemplateUse!There, Rows3
          <5>2. tpl'[u].touched \in Nat /\ tpl'[t].touched = clock + 1
            BY <2>6, <2>7, <2>8, <5>1 DEF TemplateInv, TemplateTypes, RowOf
          <5> QED BY <1>i, <2>10, <4>1, <5>2
        <4> QED BY <4>1
      <3> QED BY <2>9, <3>1, <3>2 DEF TemplateUse!Latest
    <2>12. TemplateUse!ActiveTemplate' = {t} /\ TemplateUse!CopiedFrom' = {t}
      <3>1. TemplateUse!Active' # {}
        BY <2>9
      <3>2. TemplateUse!CopiedFrom' = {t}
        BY <2>11 DEF TemplateUse!CopiedFrom
      <3>3. TemplateUse!ActiveTemplate' = {t}
        BY <2>11, <3>1 DEF TemplateUse!ActiveTemplate
      <3> QED BY <3>2, <3>3
    <2>13. TemplateUse!ActivationWins
      <3>1. ASSUME NEW s \in {r1, r2}, tplReq[s].do = "on", tplReq'[s] = TemplateUse!Idle
            PROVE  s = r
        <4>1. tplReq[s] # TemplateUse!Idle /\ (s # r => tplReq'[s] = tplReq[s])
          BY <1>0, <1>i, <2>1, <3>1
        <4> QED BY <3>1, <4>1
      <3>2. /\ TemplateUse!ActiveTemplate' = {tplReq[r].of} /\ TemplateUse!CopiedFrom' = {tplReq[r].of}
            /\ tplReq[r].of \in TemplateUse!Active'
            /\ \A u \in TemplateUse!Active' \ {tplReq[r].of} : tpl'[u].touched > tplReq[r].since
        BY <2>2, <2>9, <2>10, <2>12
      <3> QED BY <3>1, <3>2 DEF TemplateUse!ActivationWins
    <2> QED BY <2>7, <2>13
  <1>7. ASSUME NEW r \in {r1, r2}, TemplateUse!CloneEnd(r) PROVE TemplateInv' /\ TemplateUse!ActivationWins
    <2>1. /\ tplReq[r].do = "clone" /\ TemplateUse!Tick /\ tplReq' = [tplReq EXCEPT ![r] = TemplateUse!Idle]
          /\ TemplateUse!Insert(TRUE, FALSE, tplReq[r].ops, tpl[tplReq[r].of].crit)
      BY <1>7 DEF TemplateUse!CloneEnd
    <2>2. /\ tplReq[r].ops \in Nat /\ tplReq[r].of \in Rows3 /\ tpl[tplReq[r].of].made > 0
          /\ tplReq[r].ops <= tpl[tplReq[r].of].crit
      BY <1>0, <1>i, <2>1 DEF Under
    <2>3. PICK o, c \in Nat : o = tplReq[r].ops /\ c = tpl[tplReq[r].of].crit
      BY <1>0, <2>2
    <2>4. o <= c /\ c <= clock + 1
      BY <1>0, <2>2, <2>3
    <2>5. TemplateUse!Insert(TRUE, FALSE, o, c)
      BY <2>1, <2>3
    <2>6. TemplateUse!ActivationWins
      BY <1>b, <2>1
    <2> QED BY <2>1, <2>4, <2>5, <2>6, InsertHolds
  <1>8. \A r : ~TemplateUse!Compile(r)
    BY DEF TemplateUse!Compile, TemplateUse!May
  <1>9. \E r \in {r1, r2} : \/ TemplateUse!Create(r) \/ TemplateUse!Compile(r) \/ TemplateUse!Rename(r)
          \/ TemplateUse!Delete(r) \/ TemplateUse!Edit(r) \/ TemplateUse!Activate(r) \/ TemplateUse!DeactivateAll(r)
          \/ TemplateUse!ActivateOne(r) \/ TemplateUse!Clone(r) \/ TemplateUse!CloneEnd(r) \/ TemplateUse!Pipeline(r)
    BY DEF TemplateUse!Next
  <1> QED BY <1>1, <1>3, <1>4, <1>5, <1>6, <1>7, <1>8, <1>9

-----------------------------------------------------------------------------
(* The marks of the steps (DcPipeline) under overlapping requests.          *)

MarksInv == dcReq \in [{r1, r2} -> {dcReq[r1], dcReq[r2]}]

\* Nobody has asked for anything at the beginning.
LEMMA MarksInit ==
  ASSUME AllInit, part = "marks"
  PROVE  MarksInv
  <1>1. Marks!Init
    BY DEF AllInit
  <1> QED BY <1>1 DEF Marks!Init, MarksInv

\* Only the end of a validation takes marks away, none that it had read.
LEMMA MarksMove ==
  ASSUME MarksInv, Marks!Next
  PROVE  MarksInv' /\ Marks!MarksStay
  <1>1. PICK r \in {r1, r2} :
          \/ Marks!Topology(r) \/ Marks!Drop(r) \/ Marks!Insert(r) \/ Marks!Generate(r)
          \/ Marks!Told(r) \/ Marks!Fail(r) \/ Marks!Validate(r) \/ Marks!Mark(r) \/ Marks!Edit(r)
          \/ Marks!Freeze(r) \/ Marks!Previous(r) \/ Marks!Snapshot(r)
    BY DEF Marks!Next
  <1>2. ASSUME NEW new, Marks!Go(r, new) PROVE MarksInv' /\ dcReq'[r] = new
    BY <1>2 DEF Marks!Go, MarksInv
  <1>3. ~Marks!Edit(r) /\ ~Marks!Freeze(r)
    BY DEF Marks!Edit, Marks!Freeze, Marks!May
  <1>4. CASE Marks!Mark(r)
    <2>1. /\ dcReq[r].do = "validate" /\ Marks!Go(r, Marks!Idle)
          /\ status' = dcReq[r].seen \cup {dcReq[r].step}
      BY <1>4 DEF Marks!Mark
    <2>2. MarksInv' /\ dcReq'[r] = Marks!Idle
      BY <1>2, <2>1
    <2>3. (status \ status') \cap dcReq[r].seen = {}
      BY <2>1
    <2> QED BY <2>1, <2>2, <2>3 DEF Marks!MarksStay
  <1>5. ASSUME ~Marks!Mark(r) PROVE status \subseteq status' /\ \E new : Marks!Go(r, new)
    <2>1. \/ Marks!Topology(r) \/ Marks!Drop(r) \/ Marks!Insert(r) \/ Marks!Generate(r)
          \/ Marks!Told(r) \/ Marks!Fail(r) \/ Marks!Validate(r) \/ Marks!Previous(r) \/ Marks!Snapshot(r)
      BY <1>1, <1>3, <1>5
    <2>2. status \subseteq status'
      BY <2>1 DEF Marks!Topology, Marks!Drop, Marks!Insert, Marks!Generate, Marks!Told, Marks!Fail,
         Marks!Validate, Marks!Previous, Marks!Snapshot
    <2>3. \E new : Marks!Go(r, new)
      BY <2>1 DEF Marks!Topology, Marks!Drop, Marks!Insert, Marks!Generate, Marks!Told, Marks!Fail,
         Marks!Validate, Marks!Previous, Marks!Snapshot
    <2> QED BY <2>2, <2>3
  <1> QED BY <1>2, <1>4, <1>5 DEF Marks!MarksStay

-----------------------------------------------------------------------------
VersionsInv ==
  /\ part = "compile" => CompileInv
  /\ part = "templates" => TemplateInv
  /\ part = "marks" => MarksInv

\* Each part keeps its invariant and changes nothing that stands.
LEMMA VersionsStep ==
  ASSUME VersionsInv, [AllNext]_allVars
  PROVE  VersionsInv' /\ (part = "compile" => Compile!Immutable)
         /\ (part = "templates" => TemplateUse!ActivationWins) /\ (part = "marks" => Marks!MarksStay)
  <1>1. part' = part
    BY PartStep
  <1>2. part = "compile" => CompileInv' /\ Compile!Immutable
    <2> SUFFICES ASSUME part = "compile" PROVE CompileInv' /\ Compile!Immutable
      OBVIOUS
    <2>1. [Compile!Next]_compileData /\ CompileInv
      BY PartStep DEF VersionsInv
    <2>2. CASE UNCHANGED compileData
      <3>1. CompileInv'
        BY <2>1, <2>2, CompileSame
      <3> QED BY <2>2, <3>1 DEF compileData, Compile!Immutable
    <2> QED BY <2>1, <2>2, CompileMoves
  <1>3. part = "templates" => TemplateInv' /\ TemplateUse!ActivationWins
    <2> SUFFICES ASSUME part = "templates" PROVE TemplateInv' /\ TemplateUse!ActivationWins
      OBVIOUS
    <2>1. [TemplateUse!Next]_templateData /\ TemplateInv
      BY PartStep DEF VersionsInv
    <2>2. CASE UNCHANGED templateData
      <3>1. TemplateInv'
        BY <2>1, <2>2 DEF templateData, TemplateInv, TemplateTypes, RequestTypes, Under, RowsWhole
      <3>2. ASSUME NEW r, tplReq[r].do = "on", tplReq[r] = TemplateUse!Idle PROVE FALSE
        BY <3>2 DEF TemplateUse!Idle
      <3> QED BY <2>2, <3>1, <3>2 DEF templateData, TemplateUse!ActivationWins
    <2> QED BY <2>1, <2>2, TemplateMoves
  <1>4. part = "marks" => MarksInv' /\ Marks!MarksStay
    <2> SUFFICES ASSUME part = "marks" PROVE MarksInv' /\ Marks!MarksStay
      OBVIOUS
    <2>1. [Marks!Next]_stepData /\ MarksInv
      BY PartStep DEF VersionsInv
    <2>2. CASE UNCHANGED stepData
      BY <2>1, <2>2 DEF stepData, MarksInv, Marks!MarksStay
    <2> QED BY <2>1, <2>2, MarksMove
  <1> QED BY <1>1, <1>2, <1>3, <1>4 DEF VersionsInv

\* However requests overlap and wherever they die: what a compilation stands
\* for loses nothing and only its maker adds to it, where nobody edits
\* snapshots; an activation ends with its template the one that everyone
\* picks; a step marked as validated is unmarked only by a validation that
\* had read the state before (VersionsStand of MCFlowsheets:
\* engines/compile.py, routes/circuit.py, routes/dc_pipeline.py).
THEOREM AllVersionsStand == AllSpec => VersionsStand
  <1>1. AllInit => VersionsInv
    BY CompileBegins, TemplateInit, MarksInit DEF VersionsInv
  <1>2. VersionsInv /\ [AllNext]_allVars => VersionsInv'
    BY VersionsStep
  <1>3. VersionsInv /\ [AllNext]_allVars =>
          [/\ part = "compile" => Compile!Immutable
           /\ part = "templates" => TemplateUse!ActivationWins
           /\ part = "marks" => Marks!MarksStay]_allVars
    BY VersionsStep
  <1> QED BY <1>1, <1>2, <1>3, PTL DEF AllSpec, VersionsStand

-----------------------------------------------------------------------------
(* Templates and snapshots (CircuitTemplates) under the requests of two.    *)

\* A snapshot is not active; what is being cloned is no snapshot.
SnapRows ==
  /\ clock \in Nat /\ tpl \in [Rows3 -> RowOf]
  /\ \A t \in Rows3 : tpl[t].made > 0 /\ tpl[t].snap => ~tpl[t].active
Cloning(q) ==
  \/ q = SnapshotUse!Idle
  \/ q \in [do : {"clone"}, of : Rows3, ops : Nat, since : Nat] /\ tpl[q.of].made > 0 /\ ~tpl[q.of].snap
SnapInv ==
  /\ SnapRows
  /\ tplReq \in [{r1, r2} -> {tplReq[r1], tplReq[r2]}]
  /\ \A r \in {r1, r2} : Cloning(tplReq[r])

\* It holds when there is no template.
LEMMA SnapInit ==
  ASSUME AllInit, part = "snapshots"
  PROVE  SnapInv
  <1>1. SnapshotUse!Init
    BY DEF AllInit
  <1> QED BY <1>1 DEF SnapshotUse!Init, SnapshotUse!NoRow, SnapInv, SnapRows, Cloning, RowOf, Rows3

\* A row that stays a row of its kind leaves the requests right, those that
\* end included.
LEMMA SnapKeeps ==
  ASSUME SnapInv, SnapRows',
         \A t \in Rows3 : tpl[t].made > 0 => tpl'[t].made > 0 /\ tpl'[t].snap = tpl[t].snap,
         tplReq' = tplReq \/ \E r \in {r1, r2} : tplReq' = [tplReq EXCEPT ![r] = SnapshotUse!Idle]
  PROVE  SnapInv'
  <1>1. tplReq' \in [{r1, r2} -> {tplReq'[r1], tplReq'[r2]}]
        /\ \A r \in {r1, r2} : tplReq'[r] \in {tplReq[r], SnapshotUse!Idle}
    BY DEF SnapInv
  <1>2. ASSUME NEW q, Cloning(q) PROVE Cloning(q)'
    BY <1>2 DEF Cloning
  <1>3. ASSUME NEW r \in {r1, r2} PROVE Cloning(tplReq[r])'
    <2>1. CASE tplReq'[r] = SnapshotUse!Idle
      BY <2>1 DEF Cloning
    <2>2. CASE tplReq'[r] = tplReq[r]
      <3>1. PICK q : q = tplReq[r]
        OBVIOUS
      <3>2. Cloning(q)'
        BY <1>2, <3>1 DEF SnapInv
      <3> QED BY <2>2, <3>1, <3>2 DEF Cloning
    <2> QED BY <1>1, <2>1, <2>2
  <1> QED BY <1>1, <1>3 DEF SnapInv

\* One row changes: it is a snapshot as before, or new.
LEMMA SnapRow ==
  ASSUME SnapInv, NEW t \in Rows3, NEW w \in RowOf, clock' \in Nat, tpl' = [tpl EXCEPT ![t] = w],
         w.made > 0, tpl[t].made > 0 => w.snap = tpl[t].snap, w.snap => ~w.active,
         tplReq' = tplReq \/ \E r \in {r1, r2} : tplReq' = [tplReq EXCEPT ![r] = SnapshotUse!Idle]
  PROVE  SnapInv'
  <1>1. tpl' \in [Rows3 -> RowOf] /\ tpl'[t] = w /\ \A u \in Rows3 : u # t => tpl'[u] = tpl[u]
    BY DEF SnapInv, SnapRows
  <1>2. SnapRows'
    BY <1>1 DEF SnapInv, SnapRows
  <1>3. \A u \in Rows3 : tpl[u].made > 0 => tpl'[u].made > 0 /\ tpl'[u].snap = tpl[u].snap
    BY <1>1
  <1> QED BY <1>2, <1>3, SnapKeeps

\* A new template is active and no snapshot, or the other way round.
LEMMA SnapInsert ==
  ASSUME SnapInv, NEW a \in BOOLEAN, NEW s \in BOOLEAN, s => ~a, NEW o \in Nat, NEW c \in Nat,
         SnapshotUse!Tick, SnapshotUse!Insert(a, s, o, c),
         tplReq' = tplReq \/ \E r \in {r1, r2} : tplReq' = [tplReq EXCEPT ![r] = SnapshotUse!Idle]
  PROVE  SnapInv'
  <1>0. clock \in Nat /\ clock + 1 \in Nat /\ clock + 1 > 0 /\ clock' = clock + 1
    BY DEF SnapInv, SnapRows, SnapshotUse!Tick
  <1>1. PICK w : w = [made |-> clock + 1, touched |-> clock + 1, active |-> a, snap |-> s, ops |-> o, crit |-> c]
    OBVIOUS
  <1>2. PICK t \in Rows3 : ~(tpl[t].made > 0) /\ tpl' = [tpl EXCEPT ![t] = w]
    BY <1>1 DEF SnapshotUse!Insert, SnapshotUse!There, SnapshotUse!Now, Rows3
  <1>3. w \in RowOf /\ w.made > 0 /\ (w.snap => ~w.active)
    BY <1>0, <1>1 DEF RowOf
  <1> QED BY <1>0, <1>2, <1>3, SnapRow

\* Every step keeps it.
LEMMA SnapMoves ==
  ASSUME SnapInv, SnapshotUse!Next
  PROVE  SnapInv'
  <1>0. /\ clock \in Nat /\ clock + 1 \in Nat /\ tpl \in [Rows3 -> RowOf] /\ tplReq \in [{r1, r2} -> {tplReq[r1], tplReq[r2]}]
        /\ SnapshotUse!Idle.do = "none"
        /\ \A t \in Rows3 : tpl[t].made > 0 /\ tpl[t].snap => ~tpl[t].active
    BY DEF SnapInv, SnapRows, SnapshotUse!Idle
  <1>1. ASSUME NEW r \in {r1, r2}, SnapshotUse!Create(r) \/ SnapshotUse!Compile(r) PROVE SnapInv'
    <2>1. UNCHANGED tplReq /\ SnapshotUse!Tick
          /\ (SnapshotUse!Insert(TRUE, FALSE, clock + 1, clock + 1) \/ SnapshotUse!Insert(FALSE, TRUE, clock + 1, clock + 1))
      BY <1>1 DEF SnapshotUse!Create, SnapshotUse!Compile, SnapshotUse!Now
    <2>2. CASE SnapshotUse!Insert(TRUE, FALSE, clock + 1, clock + 1)
      BY <1>0, <2>1, <2>2, SnapInsert
    <2>3. CASE SnapshotUse!Insert(FALSE, TRUE, clock + 1, clock + 1)
      BY <1>0, <2>1, <2>3, SnapInsert
    <2> QED BY <2>1, <2>2, <2>3
  <1>2. ASSUME NEW r \in {r1, r2}, SnapshotUse!Delete(r) \/ SnapshotUse!Pipeline(r) PROVE SnapInv'
    <2>1. /\ UNCHANGED tplReq /\ clock' = clock + 1
          /\ \E t \in Rows3 : /\ tpl[t].made > 0
                              /\ \/ tpl' = [tpl EXCEPT ![t].active = FALSE, ![t].touched = clock + 1]
                                 \/ tpl' = [tpl EXCEPT ![t].ops = clock + 1, ![t].crit = clock + 1]
      BY <1>2 DEF SnapshotUse!Delete, SnapshotUse!Pipeline, SnapshotUse!There, SnapshotUse!Newest,
         SnapshotUse!Now, SnapshotUse!Tick, Rows3
    <2>2. PICK t \in Rows3 : /\ tpl[t].made > 0
                             /\ \/ tpl' = [tpl EXCEPT ![t].active = FALSE, ![t].touched = clock + 1]
                                \/ tpl' = [tpl EXCEPT ![t].ops = clock + 1, ![t].crit = clock + 1]
      BY <2>1
    <2>3. PICK w : /\ tpl' = [tpl EXCEPT ![t] = w]
                   /\ \/ w = [tpl[t] EXCEPT !.active = FALSE, !.touched = clock + 1]
                      \/ w = [tpl[t] EXCEPT !.ops = clock + 1, !.crit = clock + 1]
      BY <1>0, <2>2
    <2>4. tpl[t] \in RowOf
      BY <1>0
    <2>5. w \in RowOf /\ w.made = tpl[t].made /\ w.snap = tpl[t].snap
      BY <1>0, <2>3, <2>4 DEF RowOf
    <2>6. w.snap => ~w.active
      <3>1. CASE w = [tpl[t] EXCEPT !.active = FALSE, !.touched = clock + 1]
        BY <2>4, <3>1 DEF RowOf
      <3>2. CASE w = [tpl[t] EXCEPT !.ops = clock + 1, !.crit = clock + 1]
        BY <1>0, <2>2, <2>4, <2>5, <3>2 DEF RowOf
      <3> QED BY <2>3, <3>1, <3>2
    <2> QED BY <1>0, <2>1, <2>2, <2>3, <2>5, <2>6, SnapRow
  <1>3. ASSUME NEW r \in {r1, r2}, SnapshotUse!Clone(r) PROVE SnapInv'
    <2>1. PICK t \in Rows3 : /\ tpl[t].made > 0 /\ tpl[t].active /\ UNCHANGED <<tpl, clock>>
                             /\ tplReq' = [tplReq EXCEPT ![r] = [SnapshotUse!Idle EXCEPT !.do = "clone", !.of = t, !.ops = tpl[t].ops]]
      BY <1>3 DEF SnapshotUse!Clone, SnapshotUse!Active, SnapshotUse!There, Rows3
    <2>2. tpl[t].ops \in Nat /\ ~tpl[t].snap
      BY <1>0, <2>1 DEF RowOf
    <2>a. PICK q : q = [SnapshotUse!Idle EXCEPT !.do = "clone", !.of = t, !.ops = tpl[t].ops]
      OBVIOUS
    <2>3. q \in [do : {"clone"}, of : Rows3, ops : Nat, since : Nat] /\ q.of = t
      BY <2>2, <2>a DEF SnapshotUse!Idle
    <2>4. Cloning(q)'
      BY <2>1, <2>2, <2>3 DEF Cloning
    <2>5. tplReq' \in [{r1, r2} -> {tplReq'[r1], tplReq'[r2]}] /\ \A p \in {r1, r2} : tplReq'[p] \in {tplReq[p], q}
      BY <1>0, <2>1, <2>a
    <2>6. ASSUME NEW p \in {r1, r2} PROVE Cloning(tplReq[p])'
      <3>1. Cloning(tplReq[p])
        BY DEF SnapInv
      <3> QED BY <2>1, <2>4, <2>5, <3>1 DEF Cloning
    <2> QED BY <2>1, <2>5, <2>6 DEF SnapInv, SnapRows
  <1>4. ASSUME NEW r \in {r1, r2}, SnapshotUse!CloneEnd(r) PROVE SnapInv'
    <2>1. /\ tplReq[r].do = "clone" /\ SnapshotUse!Tick /\ tplReq' = [tplReq EXCEPT ![r] = SnapshotUse!Idle]
          /\ SnapshotUse!Insert(TRUE, FALSE, tplReq[r].ops, tpl[tplReq[r].of].crit)
      BY <1>4 DEF SnapshotUse!CloneEnd
    <2>2. tplReq[r].ops \in Nat /\ tplReq[r].of \in Rows3
      BY <1>0, <2>1 DEF SnapInv, Cloning
    <2>3. tpl[tplReq[r].of].crit \in Nat
      BY <1>0, <2>2 DEF RowOf
    <2>4. PICK o \in Nat : o = tplReq[r].ops
      BY <2>2
    <2>5. PICK c \in Nat : c = tpl[tplReq[r].of].crit
      BY <2>3
    <2>6. SnapshotUse!Insert(TRUE, FALSE, o, c)
      BY <2>1, <2>4, <2>5
    <2> QED BY <2>1, <2>6, SnapInsert
  <1>5. ASSUME NEW r \in {r1, r2}, SnapshotUse!DeactivateAll(r) \/ SnapshotUse!ActivateOne(r) PROVE FALSE
    BY <1>0, <1>5 DEF SnapInv, Cloning, SnapshotUse!DeactivateAll, SnapshotUse!ActivateOne
  <1>6. ASSUME NEW r \in {r1, r2}, SnapshotUse!Rename(r) \/ SnapshotUse!Edit(r) \/ SnapshotUse!Activate(r) PROVE FALSE
    BY <1>6 DEF SnapshotUse!Rename, SnapshotUse!Edit, SnapshotUse!Activate, SnapshotUse!May
  <1>7. \E r \in {r1, r2} : \/ SnapshotUse!Create(r) \/ SnapshotUse!Compile(r) \/ SnapshotUse!Rename(r)
          \/ SnapshotUse!Delete(r) \/ SnapshotUse!Edit(r) \/ SnapshotUse!Activate(r) \/ SnapshotUse!DeactivateAll(r)
          \/ SnapshotUse!ActivateOne(r) \/ SnapshotUse!Clone(r) \/ SnapshotUse!CloneEnd(r) \/ SnapshotUse!Pipeline(r)
    BY DEF SnapshotUse!Next
  <1> QED BY <1>1, <1>2, <1>3, <1>4, <1>5, <1>6, <1>7

\* So snapshots stay apart.
LEMMA SnapApart ==
  ASSUME SnapInv
  PROVE  SnapshotUse!SnapshotsApart
  <1>1. \A t \in SnapshotUse!CopiedFrom : ~tpl[t].snap
    BY DEF SnapInv, SnapRows, SnapshotUse!CopiedFrom, SnapshotUse!Latest, SnapshotUse!Active, SnapshotUse!There, Rows3
  <1>2. ASSUME NEW r \in {r1, r2}, tplReq[r].do = "clone" PROVE ~tpl[tplReq[r].of].snap
    <2>1. tplReq[r] # SnapshotUse!Idle
      BY <1>2 DEF SnapshotUse!Idle
    <2> QED BY <2>1 DEF SnapInv, Cloning
  <1> QED BY <1>1, <1>2 DEF SnapshotUse!SnapshotsApart

\* What the rows of the templates are (TypeOK, CloneIsWhole).
LEMMA TemplatesWhole ==
  ASSUME TemplateInv
  PROVE  TemplateUse!TypeOK /\ TemplateUse!CloneIsWhole
  <1>1. \A r \in {r1, r2} : tplReq[r] # TemplateUse!Idle => tplReq[r].of \in TemplateUse!There
    BY DEF TemplateInv, RequestTypes, Under, TemplateUse!There, Rows3
  <1>2. TemplateUse!There \subseteq Rows3 /\ \A t \in TemplateUse!There : tpl[t].made > 0
    BY DEF TemplateUse!There, Rows3
  <1>3. TemplateUse!TypeOK
    BY <1>1, <1>2 DEF TemplateInv, TemplateTypes, TemplateUse!TypeOK
  <1> QED BY <1>2, <1>3 DEF TemplateInv, RowsWhole, TemplateUse!CloneIsWhole

-----------------------------------------------------------------------------
(* Freezing the criteria (DcPipeline) under overlapping requests.           *)

Two == {"flotation", "mill"}
FrozenRows == {<<>>} \cup [Two -> [value : Nat, text : BOOLEAN]]
FreezeReq == [do : {"none", "drop", "insert", "generate", "failed", "previous", "freeze"}, ops : SUBSET Two,
              step : {"none"}, seen : SUBSET Two, rows : FrozenRows, prev : Nat]
SnapOf == [label : {l1, l2}, prev : Nat, rows : FrozenRows]
FreezeTypes ==
  /\ dcOp \subseteq Two /\ crit \in [Two -> Nat] /\ status \subseteq Freezes!AllSteps
  /\ dcReq \in [{r1, r2} -> FreezeReq]
\* Who sets a topology has the criterion of an operation to make, or fails.
Owes(q, o) ==
  \/ q.do \in {"drop", "failed"}
  \/ q.do = "insert" /\ o \in q.seen
  \/ q.do = "generate" /\ o \in q.ops
CritThere ==
  /\ \A o \in dcOp : crit[o] # 0 \/ \E r \in {r1, r2} : Owes(dcReq[r], o)
  /\ \A r \in {r1, r2} : dcReq[r].do \in {"drop", "insert"} => dcReq[r].ops \subseteq dcReq[r].seen
\* A snapshot names an earlier one, and a label is used once.
SnapsFollow ==
  /\ snaps \in Seq(SnapOf)
  /\ \A i \in 1..Len(snaps) : snaps[i].prev < i
  /\ \A i, j \in 1..Len(snaps) : snaps[i].label = snaps[j].label => i = j
  /\ \A r \in {r1, r2} : dcReq[r].do = "freeze" => dcReq[r].prev <= Len(snaps)
FreezeInv == FreezeTypes /\ CritThere /\ SnapsFollow

\* It holds when there is nothing yet.
LEMMA FreezeInit ==
  ASSUME AllInit, part = "freezes"
  PROVE  FreezeInv
  <1>1. Freezes!Init
    BY DEF AllInit
  <1>2. /\ dcOp = {} /\ crit = [o \in Two |-> 0] /\ status = {} /\ snaps = <<>>
        /\ dcReq = [r \in {r1, r2} |-> Freezes!Idle]
    BY <1>1 DEF Freezes!Init, Freezes!None, Two
  <1>3. Freezes!Idle \in FreezeReq /\ Freezes!Idle.do = "none"
    BY DEF Freezes!Idle, FreezeReq, FrozenRows
  <1>4. \A r \in {r1, r2} : dcReq[r].do = "none"
    BY <1>2, <1>3
  <1>5. FreezeTypes
    BY <1>2, <1>3 DEF FreezeTypes
  <1>6. CritThere
    BY <1>2, <1>4 DEF CritThere
  <1>7. SnapsFollow
    BY <1>2, <1>4 DEF SnapsFollow
  <1> QED BY <1>5, <1>6, <1>7 DEF FreezeInv

\* A request goes on: what it owed and no longer owes is there, and what is
\* newly there or no longer has a criterion it owes.
LEMMA FreezeGo ==
  ASSUME FreezeInv, NEW r \in {r1, r2}, NEW q \in FreezeReq, Freezes!Go(r, q),
         dcOp' \subseteq Two, crit' \in [Two -> Nat], status' \subseteq Freezes!AllSteps,
         q.do \in {"drop", "insert"} => q.ops \subseteq q.seen,
         q.do = "freeze" => q.prev <= Len(snaps)',
         \A o \in dcOp' : \/ crit'[o] # 0 \/ Owes(q, o)
                          \/ o \in dcOp /\ crit'[o] = crit[o] /\ ~Owes(dcReq[r], o),
         snaps' \in Seq(SnapOf), Len(snaps) <= Len(snaps)',
         \A i \in 1..Len(snaps)' : snaps'[i].prev < i,
         \A i, j \in 1..Len(snaps)' : snaps'[i].label = snaps'[j].label => i = j
  PROVE  FreezeInv'
  <1>1. dcReq' = [dcReq EXCEPT ![r] = q]
    BY DEF Freezes!Go
  <1>2. dcReq'[r] = q /\ dcReq' \in [{r1, r2} -> FreezeReq] /\ \A s \in {r1, r2} : s # r => dcReq'[s] = dcReq[s]
    BY <1>1 DEF FreezeInv, FreezeTypes
  <1>3. FreezeTypes'
    BY <1>2 DEF FreezeTypes
  <1>4. ASSUME NEW o \in dcOp' PROVE crit'[o] # 0 \/ \E s \in {r1, r2} : Owes(dcReq'[s], o)
    <2>1. CASE crit'[o] # 0 \/ Owes(q, o)
      BY <1>2, <2>1
    <2>2. CASE o \in dcOp /\ crit'[o] = crit[o] /\ ~Owes(dcReq[r], o)
      <3>1. crit[o] # 0 \/ \E s \in {r1, r2} : s # r /\ Owes(dcReq[s], o)
        BY <2>2 DEF FreezeInv, CritThere
      <3> QED BY <1>2, <2>2, <3>1
    <2> QED BY <2>1, <2>2
  <1>5. \A s \in {r1, r2} : dcReq'[s].do \in {"drop", "insert"} => dcReq'[s].ops \subseteq dcReq'[s].seen
    BY <1>2 DEF FreezeInv, CritThere
  <1>6. CritThere'
    BY <1>4, <1>5 DEF CritThere, Owes
  <1>7. ASSUME NEW s \in {r1, r2}, dcReq'[s].do = "freeze" PROVE dcReq'[s].prev <= Len(snaps)'
    <2>1. CASE s = r
      BY <1>2, <1>7, <2>1
    <2>2. CASE s # r
      <3>1. dcReq'[s] = dcReq[s] /\ dcReq[s].prev <= Len(snaps)
        BY <1>2, <1>7, <2>2 DEF FreezeInv, SnapsFollow
      <3>2. dcReq[s].prev \in Nat /\ Len(snaps) \in Nat /\ Len(snaps)' \in Nat
        BY DEF FreezeInv, FreezeTypes, FreezeReq, SnapsFollow
      <3> QED BY <3>1, <3>2
    <2> QED BY <2>1, <2>2
  <1>8. SnapsFollow'
    BY <1>7 DEF SnapsFollow
  <1> QED BY <1>3, <1>6, <1>8 DEF FreezeInv

\* The same where the snapshots stay.
LEMMA FreezeStays ==
  ASSUME FreezeInv, NEW r \in {r1, r2}, NEW q \in FreezeReq, Freezes!Go(r, q), UNCHANGED snaps,
         dcOp' \subseteq Two, crit' \in [Two -> Nat], status' \subseteq Freezes!AllSteps,
         q.do \in {"drop", "insert"} => q.ops \subseteq q.seen,
         q.do = "freeze" => q.prev <= Len(snaps),
         \A o \in dcOp' : \/ crit'[o] # 0 \/ Owes(q, o)
                          \/ o \in dcOp /\ crit'[o] = crit[o] /\ ~Owes(dcReq[r], o)
  PROVE  FreezeInv'
  <1>1. /\ snaps' \in Seq(SnapOf) /\ Len(snaps) <= Len(snaps)' /\ Len(snaps)' = Len(snaps)
        /\ \A i \in 1..Len(snaps)' : snaps'[i].prev < i
        /\ \A i, j \in 1..Len(snaps)' : snaps'[i].label = snaps'[j].label => i = j
    BY DEF FreezeInv, SnapsFollow
  <1> QED BY <1>1, FreezeGo

\* Every step keeps it.
LEMMA FreezeMoves ==
  ASSUME FreezeInv, Freezes!Next
  PROVE  FreezeInv'
  <1>0. /\ dcOp \subseteq Two /\ crit \in [Two -> Nat] /\ status \subseteq Freezes!AllSteps
        /\ dcReq \in [{r1, r2} -> FreezeReq] /\ CritThere /\ SnapsFollow
        /\ \A r \in {r1, r2} : dcReq[r] \in FreezeReq
    BY DEF FreezeInv, FreezeTypes
  <1>i. /\ Freezes!Idle \in FreezeReq /\ Freezes!Idle.do = "none"
        /\ Freezes!Idle = [do |-> "none", ops |-> {}, step |-> "none", seen |-> {}, rows |-> <<>>, prev |-> 0]
    BY DEF Freezes!Idle, FreezeReq, FrozenRows
  <1>m. ASSUME NEW r \in {r1, r2}, NEW k, Freezes!May(r, k)
        PROVE  dcReq[r] = Freezes!Idle /\ \A o : ~Owes(dcReq[r], o)
    BY <1>m, <1>i DEF Freezes!May, Owes
  <1>1. ASSUME NEW r \in {r1, r2}, Freezes!Topology(r) PROVE FreezeInv'
    <2>1. PICK new \in SUBSET Two : /\ Freezes!Go(r, [Freezes!Idle EXCEPT !.do = "drop", !.ops = new, !.seen = new])
                                    /\ crit' = [o \in Two |-> 0] /\ UNCHANGED <<dcOp, status, snaps>>
      BY <1>1 DEF Freezes!Topology, Freezes!None, Two
    <2>2. PICK q : q = [Freezes!Idle EXCEPT !.do = "drop", !.ops = new, !.seen = new]
      OBVIOUS
    <2>3. q \in FreezeReq /\ q.do = "drop" /\ q.ops \subseteq q.seen
      BY <1>i, <2>2 DEF FreezeReq
    <2>4. Freezes!Go(r, q) /\ crit' \in [Two -> Nat] /\ \A o : Owes(q, o)
      BY <2>1, <2>2, <2>3 DEF Owes
    <2> QED BY <1>0, <2>1, <2>3, <2>4, FreezeStays
  <1>2. ASSUME NEW r \in {r1, r2}, Freezes!Drop(r) PROVE FreezeInv'
    <2>1. PICK q : q = [dcReq[r] EXCEPT !.do = "insert"]
      OBVIOUS
    <2>2. dcReq[r].do = "drop" /\ Freezes!Go(r, q) /\ dcOp' = {} /\ UNCHANGED <<crit, status, snaps>>
      BY <1>2, <2>1 DEF Freezes!Drop
    <2>3. q \in FreezeReq /\ q.do = "insert" /\ q.ops = dcReq[r].ops /\ q.seen = dcReq[r].seen
      BY <1>0, <2>1 DEF FreezeReq
    <2>4. q.ops \subseteq q.seen
      BY <1>0, <2>2, <2>3 DEF CritThere
    <2> QED BY <1>0, <2>2, <2>3, <2>4, FreezeStays
  <1>3. ASSUME NEW r \in {r1, r2}, Freezes!Insert(r) PROVE FreezeInv'
    <2>1. /\ dcReq[r].do = "insert" /\ UNCHANGED <<crit, status, snaps>>
          /\ dcReq[r].ops \subseteq dcReq[r].seen
      BY <1>0, <1>3 DEF Freezes!Insert, CritThere
    <2>2. CASE \E o \in dcReq[r].ops : dcOp' = dcOp \cup {o} /\ Freezes!Go(r, [dcReq[r] EXCEPT !.ops = @ \ {o}])
      <3>1. PICK o \in dcReq[r].ops : dcOp' = dcOp \cup {o} /\ Freezes!Go(r, [dcReq[r] EXCEPT !.ops = @ \ {o}])
        BY <2>2
      <3>2. PICK q : q = [dcReq[r] EXCEPT !.ops = @ \ {o}]
        OBVIOUS
      <3>3. q \in FreezeReq /\ q.do = "insert" /\ q.ops = dcReq[r].ops \ {o} /\ q.seen = dcReq[r].seen /\ o \in Two
        BY <1>0, <2>1, <3>2 DEF FreezeReq
      <3>4. Freezes!Go(r, q) /\ dcOp' \subseteq Two /\ q.ops \subseteq q.seen /\ o \in q.seen
        BY <1>0, <2>1, <3>1, <3>2, <3>3
      <3>5. \A p \in dcOp' : Owes(q, p) \/ (p \in dcOp /\ ~Owes(dcReq[r], p))
        BY <2>1, <3>1, <3>3, <3>4 DEF Owes
      <3> QED BY <1>0, <2>1, <3>3, <3>4, <3>5, FreezeStays
    <2>3. CASE dcReq[r].ops = {} /\ UNCHANGED dcOp /\ Freezes!Go(r, [dcReq[r] EXCEPT !.do = "generate", !.ops = dcReq[r].seen])
      <3>1. PICK q : q = [dcReq[r] EXCEPT !.do = "generate", !.ops = dcReq[r].seen]
        OBVIOUS
      <3>2. q \in FreezeReq /\ q.do = "generate" /\ q.ops = dcReq[r].seen /\ q.seen = dcReq[r].seen
        BY <1>0, <3>1 DEF FreezeReq
      <3>3. \A p \in dcOp' : Owes(q, p) \/ (p \in dcOp /\ ~Owes(dcReq[r], p))
        BY <2>1, <2>3, <3>2 DEF Owes
      <3> QED BY <1>0, <2>1, <2>3, <3>1, <3>2, <3>3, FreezeStays
    <2> QED BY <1>3, <2>2, <2>3 DEF Freezes!Insert
  <1>4. ASSUME NEW r \in {r1, r2}, Freezes!Generate(r) PROVE FreezeInv'
    <2>1. PICK o \in dcReq[r].ops : /\ dcReq[r].do = "generate" /\ crit' = [crit EXCEPT ![o] = 1]
                                    /\ Freezes!Go(r, [dcReq[r] EXCEPT !.ops = @ \ {o}]) /\ UNCHANGED <<dcOp, status, snaps>>
      BY <1>4 DEF Freezes!Generate
    <2>2. PICK q : q = [dcReq[r] EXCEPT !.ops = @ \ {o}]
      OBVIOUS
    <2>3. q \in FreezeReq /\ q.do = "generate" /\ q.ops = dcReq[r].ops \ {o} /\ o \in Two
      BY <1>0, <2>1, <2>2 DEF FreezeReq
    <2>4. crit' \in [Two -> Nat] /\ crit'[o] = 1 /\ \A p \in Two : p # o => crit'[p] = crit[p]
      BY <1>0, <2>1, <2>3
    <2>5. \A p \in dcOp' : crit'[p] # 0 \/ Owes(q, p) \/ (p \in dcOp /\ crit'[p] = crit[p] /\ ~Owes(dcReq[r], p))
      BY <1>0, <2>1, <2>3, <2>4 DEF Owes
    <2>6. Freezes!Go(r, q)
      BY <2>1, <2>2
    <2> QED BY <1>0, <2>1, <2>3, <2>4, <2>5, <2>6, FreezeStays
  <1>5. ASSUME NEW r \in {r1, r2}, Freezes!Told(r) PROVE FreezeInv'
    <2>1. /\ dcReq[r].do = "generate" /\ dcReq[r].ops = {} /\ status' = status \cup {"topology", "data_input"}
          /\ Freezes!Go(r, Freezes!Idle) /\ UNCHANGED <<dcOp, crit, snaps>>
      BY <1>5 DEF Freezes!Told
    <2>2. {"topology", "data_input"} \subseteq Freezes!AllSteps
      <3>1. Freezes!BaseSteps[1] = "data_input" /\ Freezes!BaseSteps[2] = "topology" /\ {1, 2} \subseteq DOMAIN Freezes!BaseSteps
        BY DEF Freezes!BaseSteps
      <3> QED BY <3>1 DEF Freezes!AllSteps, Freezes!ToSet
    <2>3. \A o : ~Owes(dcReq[r], o)
      BY <2>1 DEF Owes
    <2> QED BY <1>0, <1>i, <2>1, <2>2, <2>3, FreezeStays
  <1>6. ASSUME NEW r \in {r1, r2}, Freezes!Fail(r) PROVE FreezeInv'
    <2>1. PICK q : q = [Freezes!Idle EXCEPT !.do = "failed"]
      OBVIOUS
    <2>2. Freezes!Go(r, q) /\ UNCHANGED <<dcOp, crit, status, snaps>>
      BY <1>6, <2>1 DEF Freezes!Fail
    <2>3. q \in FreezeReq /\ q.do = "failed" /\ \A o : Owes(q, o)
      BY <1>i, <2>1 DEF FreezeReq, Owes
    <2> QED BY <1>0, <2>2, <2>3, FreezeStays
  <1>7. ASSUME NEW r \in {r1, r2}, Freezes!Edit(r) PROVE FreezeInv'
    <2>1. PICK o \in Two : /\ dcReq[r] = Freezes!Idle /\ (\A p : ~Owes(dcReq[r], p))
                           /\ crit' = [crit EXCEPT ![o] = 1] /\ UNCHANGED <<dcOp, status, snaps, dcReq>>
      BY <1>7, <1>m DEF Freezes!Edit, Two
    <2>2. crit' \in [Two -> Nat] /\ \A p \in Two : crit'[p] = crit[p] \/ crit'[p] = 1
      BY <1>0, <2>1
    <2>3. Freezes!Go(r, Freezes!Idle)
      BY <1>0, <2>1 DEF Freezes!Go
    <2>4. \A p \in dcOp' : crit'[p] # 0 \/ (p \in dcOp /\ crit'[p] = crit[p] /\ ~Owes(dcReq[r], p))
      BY <1>0, <2>1, <2>2
    <2> QED BY <1>0, <1>i, <2>1, <2>2, <2>3, <2>4, FreezeStays
  <1>8. ASSUME NEW r \in {r1, r2}, Freezes!Freeze(r) PROVE FreezeInv'
    <2>1. PICK q : q = [Freezes!Idle EXCEPT !.do = "previous", !.rows = Freezes!Frozen(crit)]
      OBVIOUS
    <2>2. (\A o : ~Owes(dcReq[r], o)) /\ Freezes!Go(r, q) /\ UNCHANGED <<dcOp, crit, status, snaps>>
      BY <1>8, <1>m, <2>1 DEF Freezes!Freeze
    <2>3. Freezes!Frozen(crit) = [o \in Two |-> [value |-> crit[o], text |-> crit[o] # 0]]
      BY DEF Freezes!Frozen, Freezes!Row, Two
    <2>4. Freezes!Frozen(crit) \in FrozenRows
      BY <1>0, <2>3 DEF FrozenRows
    <2>5. q \in FreezeReq /\ q.do = "previous"
      BY <1>i, <2>1, <2>4 DEF FreezeReq
    <2> QED BY <1>0, <2>2, <2>5, FreezeStays
  <1>9. ASSUME NEW r \in {r1, r2}, Freezes!Previous(r) PROVE FreezeInv'
    <2>1. PICK q : q = [dcReq[r] EXCEPT !.do = "freeze", !.prev = Len(snaps)]
      OBVIOUS
    <2>2. dcReq[r].do = "previous" /\ Freezes!Go(r, q) /\ UNCHANGED <<dcOp, crit, status, snaps>>
      BY <1>9, <2>1 DEF Freezes!Previous
    <2>3. Len(snaps) \in Nat /\ Len(snaps) <= Len(snaps)
      BY <1>0 DEF SnapsFollow
    <2>4. q \in FreezeReq /\ q.do = "freeze" /\ q.prev = Len(snaps)
      BY <1>0, <2>1, <2>3 DEF FreezeReq
    <2>5. \A o : ~Owes(dcReq[r], o)
      BY <2>2 DEF Owes
    <2> QED BY <1>0, <2>2, <2>3, <2>4, <2>5, FreezeStays
  <1>10. ASSUME NEW r \in {r1, r2}, Freezes!Snapshot(r) PROVE FreezeInv'
    <2>1. PICK l \in {l1, l2} :
            /\ dcReq[r].do = "freeze" /\ Freezes!Go(r, Freezes!Idle) /\ UNCHANGED <<dcOp, crit, status>>
            /\ \/ UNCHANGED snaps
               \/ l \notin Freezes!Used /\ snaps' = Append(snaps, [label |-> l, prev |-> dcReq[r].prev, rows |-> dcReq[r].rows])
      BY <1>10, Zenon DEF Freezes!Snapshot
    <2>2. \A o : ~Owes(dcReq[r], o)
      BY <2>1 DEF Owes
    <2>3. CASE UNCHANGED snaps
      BY <1>0, <1>i, <2>1, <2>2, <2>3, FreezeStays
    <2>4. CASE l \notin Freezes!Used /\ snaps' = Append(snaps, [label |-> l, prev |-> dcReq[r].prev, rows |-> dcReq[r].rows])
      <3>1. PICK s : s = [label |-> l, prev |-> dcReq[r].prev, rows |-> dcReq[r].rows]
        OBVIOUS
      <3>0. dcReq[r].prev <= Len(snaps) /\ dcReq[r].prev \in Nat /\ dcReq[r].rows \in FrozenRows
        BY <1>0, <2>1 DEF FreezeReq, SnapsFollow
      <3>2. s \in SnapOf /\ s.prev <= Len(snaps) /\ s.prev \in Nat /\ s.label = l
        BY <3>0, <3>1 DEF SnapOf
      <3>3. /\ snaps' \in Seq(SnapOf)
            /\ Len(snaps') = Len(snaps) + 1 /\ Len(snaps) \in Nat /\ snaps'[Len(snaps) + 1] = s
            /\ \A i \in 1..Len(snaps) : snaps'[i] = snaps[i]
        BY <1>0, <2>4, <3>1, <3>2 DEF SnapsFollow
      <3>4. \A i \in 1..Len(snaps) : snaps[i].label # l
        BY <1>0, <2>4 DEF SnapsFollow, Freezes!Used
      <3>a. \A i \in 1..Len(snaps') : i \in 1..Len(snaps) \/ i = Len(snaps) + 1
        BY <3>3
      <3>b. /\ \A i \in 1..Len(snaps) : snaps[i].prev < i
            /\ \A i, j \in 1..Len(snaps) : snaps[i].label = snaps[j].label => i = j
        BY <1>0 DEF SnapsFollow
      <3>5. \A i \in 1..Len(snaps') : snaps'[i].prev < i
        <4>1. \A i \in 1..Len(snaps) : snaps'[i].prev < i
          BY <3>3, <3>b
        <4>2. snaps'[Len(snaps) + 1].prev < Len(snaps) + 1
          BY <3>2, <3>3
        <4> QED BY <3>a, <4>1, <4>2
      <3>6. \A i, j \in 1..Len(snaps') : snaps'[i].label = snaps'[j].label => i = j
        <4>1. \A i \in 1..Len(snaps) : snaps'[i].label = snaps[i].label /\ snaps'[i].label # l
          BY <3>3, <3>4
        <4>2. snaps'[Len(snaps) + 1].label = l
          BY <3>2, <3>3
        <4> QED BY <3>a, <3>b, <4>1, <4>2
      <3>7. Len(snaps) <= Len(snaps')
        BY <3>3
      <3> QED BY <1>0, <1>i, <2>1, <2>2, <3>3, <3>5, <3>6, <3>7, FreezeGo
    <2> QED BY <2>1, <2>3, <2>4
  <1>11. \A r \in {r1, r2} : ~Freezes!Validate(r) /\ ~Freezes!Mark(r)
    BY <1>0 DEF FreezeReq, Freezes!Validate, Freezes!May, Freezes!Mark
  <1>12. \E r \in {r1, r2} :
          \/ Freezes!Topology(r) \/ Freezes!Drop(r) \/ Freezes!Insert(r) \/ Freezes!Generate(r)
          \/ Freezes!Told(r) \/ Freezes!Fail(r) \/ Freezes!Validate(r) \/ Freezes!Mark(r) \/ Freezes!Edit(r)
          \/ Freezes!Freeze(r) \/ Freezes!Previous(r) \/ Freezes!Snapshot(r)
    BY DEF Freezes!Next
  <1> QED BY <1>1, <1>2, <1>3, <1>4, <1>5, <1>6, <1>7, <1>8, <1>9, <1>10, <1>11, <1>12

\* So what is frozen while no topology is being set or failed is whole, and
\* follows an earlier snapshot.
LEMMA FreezesWhole ==
  ASSUME FreezeInv
  PROVE  Freezes!TypeOK /\ Freezes!FrozenWhole
  <1>1. DOMAIN snaps = 1..Len(snaps) /\ Len(snaps) \in Nat
    BY DEF FreezeInv, SnapsFollow
  <1>2. Freezes!TypeOK
    BY <1>1 DEF FreezeInv, FreezeTypes, SnapsFollow, Freezes!TypeOK, Two
  <1>3. ASSUME ~Freezes!Setting, NEW o \in dcOp PROVE Freezes!Frozen(crit)[o].value # 0
    <2>1. \A r \in {r1, r2} : ~Owes(dcReq[r], o)
      BY <1>3 DEF Freezes!Setting, Owes
    <2>2. crit[o] # 0 /\ o \in Two
      BY <1>3, <2>1 DEF FreezeInv, FreezeTypes, CritThere
    <2>3. Freezes!Frozen(crit)[o].value = crit[o]
      BY <2>2 DEF Freezes!Frozen, Freezes!Row, Two
    <2> QED BY <2>2, <2>3
  <1> QED BY <1>2, <1>3 DEF Freezes!FrozenWhole

-----------------------------------------------------------------------------
(* The steps that are shown (DcPipeline), for the operations there can be.  *)

\* A set of at most one step becomes the sequence of it.
LEMMA SetsAsSequences ==
  /\ StepMarks!SetToSeq({}) = <<>>
  /\ \A x : StepMarks!SetToSeq({x}) = <<x>>
  <1>1. \A S : StepMarks!Cardinality(S) = Cardinality(S)
    BY DEF StepMarks!Cardinality, Cardinality
  <1>2. Cardinality({}) = 0 /\ \A x : Cardinality({x}) = 1
    BY FS_EmptySet, FS_Singleton
  <1>3. StepMarks!SetToSeq({}) = <<>>
    <2>1. PICK f : f = <<>>
      OBVIOUS
    <2>2. f \in [1..0 -> {}] /\ StepMarks!IsInjective(f)
      BY <2>1 DEF StepMarks!IsInjective
    <2>3. \A g \in [1..0 -> {}] : g = f
      BY <2>1
    <2>4. StepMarks!SetToSeq({}) \in [1..0 -> {}]
      BY <1>1, <1>2, <2>2, Zenon DEF StepMarks!SetToSeq
    <2> QED BY <2>1, <2>3, <2>4
  <1>4. ASSUME NEW x PROVE StepMarks!SetToSeq({x}) = <<x>>
    <2>1. PICK f : f = <<x>>
      OBVIOUS
    <2>2. f \in [1..1 -> {x}] /\ StepMarks!IsInjective(f)
      BY <2>1 DEF StepMarks!IsInjective
    <2>3. StepMarks!SetToSeq({x}) \in [1..1 -> {x}]
      BY <1>1, <1>2, <2>2, Zenon DEF StepMarks!SetToSeq
    <2> QED BY <2>3
  <1> QED BY <1>3, <1>4

\* Two, one after the other.
LEMMA OneAfter ==
  ASSUME NEW S, NEW b \in S, NEW x \in S
  PROVE  <<b>> \o <<x>> = <<b, x>>
  <1>1. PICK u, v : u = <<b>> /\ v = <<x>>
    OBVIOUS
  <1>2. u \in Seq(S) /\ v \in Seq(S) /\ Len(u) = 1 /\ Len(v) = 1 /\ u[1] = b /\ v[1] = x
    BY <1>1
  <1>3. /\ u \o v \in Seq(S) /\ Len(u \o v) = 2
        /\ \A i \in 1..2 : (u \o v)[i] = IF i <= 1 THEN u[i] ELSE v[i - 1]
    BY <1>2, ConcatProperties
  <1>4. PICK w : w = u \o v
    OBVIOUS
  <1>5. w \in Seq(S) /\ Len(w) = 2 /\ w[1] = b /\ w[2] = x
    BY <1>2, <1>3, <1>4
  <1>6. PICK t : t = <<b, x>>
    OBVIOUS
  <1>7. t \in Seq(S) /\ Len(t) = 2 /\ t[1] = b /\ t[2] = x /\ \A i \in 1..2 : i = 1 \/ i = 2
    BY <1>6
  <1>8. \A i \in 1..Len(w) : w[i] = t[i]
    BY <1>5, <1>7
  <1>9. w = t
    BY <1>5, <1>7, <1>8, SeqEqual
  <1> QED BY <1>1, <1>4, <1>6, <1>9

\* Six sequences, one after the other.
LEMMA Flattened ==
  ASSUME NEW S, NEW s \in Seq(Seq(S)), Len(s) = 6
  PROVE  StepMarks!FlattenSeq(s) = ((((s[1] \o s[2]) \o s[3]) \o s[4]) \o s[5]) \o s[6]
  <1> DEFINE s1 == s[1]
             s2 == s[2]
             s3 == s[3]
             s4 == s[4]
             s5 == s[5]
             s6 == s[6]
  <1>1. s1 \in Seq(S) /\ s2 \in Seq(S) /\ s3 \in Seq(S) /\ s4 \in Seq(S) /\ s5 \in Seq(S) /\ s6 \in Seq(S)
    <2>1. PICK A : A = Seq(S)
      OBVIOUS
    <2>2. s \in Seq(A)
      BY <2>1
    <2>3. \A i \in 1..6 : s[i] \in A
      BY <2>2, ElementOfSeq
    <2> QED BY <2>1, <2>3
  <1>2. Len(s) = 6 /\ s[1] = s1 /\ s[2] = s2 /\ s[3] = s3 /\ s[4] = s4 /\ s[5] = s5 /\ s[6] = s6
    OBVIOUS
  <1> HIDE DEF s1, s2, s3, s4, s5, s6
  <1> DEFINE Eq(f) == f = [i \in 1..Len(s) |-> IF i = 1 THEN s[i] ELSE f[i-1] \o s[i]]
  <1>3. PICK f : f = <<s1, s1 \o s2, (s1 \o s2) \o s3, ((s1 \o s2) \o s3) \o s4, (((s1 \o s2) \o s3) \o s4) \o s5,
                      ((((s1 \o s2) \o s3) \o s4) \o s5) \o s6>>
    OBVIOUS
  <1>4. f[1] = s1 /\ f[2] = f[1] \o s2 /\ f[3] = f[2] \o s3 /\ f[4] = f[3] \o s4 /\ f[5] = f[4] \o s5 /\ f[6] = f[5] \o s6
    BY <1>3
  <1>5. Eq(f)
    <2>1. \A i \in 1..6 : i = 1 \/ i = 2 \/ i = 3 \/ i = 4 \/ i = 5 \/ i = 6
      OBVIOUS
    <2>2. ASSUME NEW i \in 1..6 PROVE f[i] = IF i = 1 THEN s[i] ELSE f[i-1] \o s[i]
      <3>1. CASE i = 1
        BY <1>2, <1>4, <3>1
      <3>2. CASE i = 2
        <4>1. i - 1 = 1
          BY <3>2
        <4> QED BY <1>2, <1>4, <3>2, <4>1, Zenon
      <3>3. CASE i = 3
        <4>1. i - 1 = 2
          BY <3>3
        <4> QED BY <1>2, <1>4, <3>3, <4>1
      <3>4. CASE i = 4
        <4>1. i - 1 = 3
          BY <3>4
        <4> QED BY <1>2, <1>4, <3>4, <4>1
      <3>5. CASE i = 5
        <4>1. i - 1 = 4
          BY <3>5
        <4> QED BY <1>2, <1>4, <3>5, <4>1
      <3>6. CASE i = 6
        <4>1. i - 1 = 5
          BY <3>6
        <4> QED BY <1>2, <1>4, <3>6, <4>1
      <3> QED BY <2>1, <3>1, <3>2, <3>3, <3>4, <3>5, <3>6
    <2>3. f = [i \in 1..6 |-> f[i]]
      BY <1>3
    <2> QED BY <1>2, <2>2, <2>3
  <1>6. ASSUME NEW g, Eq(g) PROVE g[6] = ((((s1 \o s2) \o s3) \o s4) \o s5) \o s6
    <2>1. \A i \in 1..6 : g[i] = IF i = 1 THEN s[i] ELSE g[i-1] \o s[i]
      BY <1>2, <1>6
    <2>2. 1 \in 1..6 /\ 2 \in 1..6 /\ 3 \in 1..6 /\ 4 \in 1..6 /\ 5 \in 1..6 /\ 6 \in 1..6
          /\ 2 - 1 = 1 /\ 3 - 1 = 2 /\ 4 - 1 = 3 /\ 5 - 1 = 4 /\ 6 - 1 = 5
          /\ 2 # 1 /\ 3 # 1 /\ 4 # 1 /\ 5 # 1 /\ 6 # 1
      OBVIOUS
    <2>3. g[1] = s1
      BY <1>2, <2>1, <2>2
    <2>4. g[2] = g[1] \o s2
      BY <1>2, <2>1, <2>2, Zenon
    <2>5. g[3] = g[2] \o s3
      BY <1>2, <2>1, <2>2, Zenon
    <2>6. g[4] = g[3] \o s4
      BY <1>2, <2>1, <2>2, Zenon
    <2>7. g[5] = g[4] \o s5
      BY <1>2, <2>1, <2>2, Zenon
    <2>8. g[6] = g[5] \o s6
      BY <1>2, <2>1, <2>2, Zenon
    <2> QED BY <2>3, <2>4, <2>5, <2>6, <2>7, <2>8
  <1>7. PICK h : h = CHOOSE g : Eq(g)
    OBVIOUS
  <1>8. Eq(h)
    BY <1>5, <1>7, Zenon
  <1>9. StepMarks!FlattenSeq(s) = h[6]
    <2>1. Len(s) # 0
      BY <1>2
    <2>2. StepMarks!FlattenSeq(s) = h[Len(s)]
      BY <1>7, <2>1 DEF StepMarks!FlattenSeq
    <2> QED BY <1>2, <2>2
  <1> QED BY <1>2, <1>6, <1>8, <1>9

\* The steps of a template are the six and those of its operations, each after
\* the one it follows.
StepNames == {"data_input", "topology", "flotation", "comminution", "gravity", "leaching", "auxiliaries", "freeze"}
\* The steps that are shown for the operations of a template, written out.
LEMMA StepsShown ==
  ASSUME NEW P, P \subseteq {"flotation", "regrind", "gravity", "pretreatment", "mill"}
  PROVE  StepMarks!Steps(P) =
           <<"data_input">> \o (IF "flotation" \in P THEN <<"topology", "flotation">> ELSE <<"topology">>)
             \o (IF "gravity" \in P THEN <<"comminution", "gravity">> ELSE <<"comminution">>)
             \o <<"leaching">> \o <<"auxiliaries">> \o <<"freeze">>
  <1>1. /\ StepMarks!BaseSteps = <<"data_input", "topology", "comminution", "leaching", "auxiliaries", "freeze">>
        /\ Len(StepMarks!BaseSteps) = 6
    BY DEF StepMarks!BaseSteps
  <1>2. /\ StepMarks!Conditional = {"flotation", "regrind", "gravity", "pretreatment"}
        /\ StepMarks!After["flotation"] = "topology" /\ StepMarks!After["gravity"] = "comminution"
        /\ StepMarks!After["regrind"] = "flotation" /\ StepMarks!After["pretreatment"] = "gravity"
    BY DEF StepMarks!Conditional, StepMarks!After
  <1> DEFINE Shown(b) == {c \in StepMarks!Conditional \cap P : StepMarks!After[c] = b}
             Part(b) == <<b>> \o StepMarks!SetToSeq(Shown(b))
  <1>3. StepMarks!Conditional \cap P \subseteq {"flotation", "regrind", "gravity", "pretreatment"}
    BY <1>2
  <1>4. Shown("data_input") = {} /\ Shown("leaching") = {} /\ Shown("auxiliaries") = {} /\ Shown("freeze") = {}
    BY <1>2, <1>3
  <1>5. Shown("topology") = IF "flotation" \in P THEN {"flotation"} ELSE {}
    BY <1>2, <1>3
  <1>6. Shown("comminution") = IF "gravity" \in P THEN {"gravity"} ELSE {}
    BY <1>2, <1>3
  <1>a. \A A, B : A = B => StepMarks!SetToSeq(A) = StepMarks!SetToSeq(B)
    OBVIOUS
  <1>b. ASSUME NEW b \in StepNames, Shown(b) = {} PROVE Part(b) = <<b>>
    <2>1. StepMarks!SetToSeq(Shown(b)) = <<>>
      BY <1>b, SetsAsSequences, Zenon
    <2> HIDE DEF Shown
    <2> QED BY <2>1
  <1>c. ASSUME NEW b \in StepNames, NEW x \in StepNames, Shown(b) = {x} PROVE Part(b) = <<b, x>>
    <2>1. StepMarks!SetToSeq(Shown(b)) = <<x>>
      BY <1>c, SetsAsSequences, Zenon
    <2>2. <<b>> \o <<x>> = <<b, x>>
      BY OneAfter
    <2> HIDE DEF Shown
    <2> QED BY <2>1, <2>2
  <1> HIDE DEF Part, Shown
  <1>7. /\ Part("data_input") = <<"data_input">> /\ Part("leaching") = <<"leaching">>
        /\ Part("auxiliaries") = <<"auxiliaries">> /\ Part("freeze") = <<"freeze">>
    BY <1>4, <1>b DEF StepNames
  <1>8. Part("topology") = IF "flotation" \in P THEN <<"topology", "flotation">> ELSE <<"topology">>
    BY <1>5, <1>b, <1>c DEF StepNames
  <1>9. Part("comminution") = IF "gravity" \in P THEN <<"comminution", "gravity">> ELSE <<"comminution">>
    BY <1>6, <1>b, <1>c DEF StepNames
  <1>10. PICK f : f = [i \in 1..6 |-> Part(StepMarks!BaseSteps[i])]
    OBVIOUS
  <1>11. f = <<Part("data_input"), Part("topology"), Part("comminution"), Part("leaching"), Part("auxiliaries"), Part("freeze")>>
    <2>1. f[1] = Part("data_input") /\ f[2] = Part("topology") /\ f[3] = Part("comminution") /\ f[4] = Part("leaching")
          /\ f[5] = Part("auxiliaries") /\ f[6] = Part("freeze")
      BY <1>1, <1>10
    <2>2. f = <<f[1], f[2], f[3], f[4], f[5], f[6]>>
      BY <1>10
    <2> QED BY <2>1, <2>2
  <1>12. StepMarks!Steps(P) = StepMarks!FlattenSeq(f)
    BY <1>1, <1>10 DEF Part, Shown, StepMarks!Steps
  <1>13. /\ Part("data_input") \in Seq(StepNames) /\ Part("topology") \in Seq(StepNames) /\ Part("comminution") \in Seq(StepNames)
         /\ Part("leaching") \in Seq(StepNames) /\ Part("auxiliaries") \in Seq(StepNames) /\ Part("freeze") \in Seq(StepNames)
    <2>1. /\ <<"data_input">> \in Seq(StepNames) /\ <<"leaching">> \in Seq(StepNames) /\ <<"auxiliaries">> \in Seq(StepNames)
          /\ <<"freeze">> \in Seq(StepNames) /\ <<"topology">> \in Seq(StepNames) /\ <<"comminution">> \in Seq(StepNames)
      BY DEF StepNames
    <2>2. <<"topology", "flotation">> \in Seq(StepNames) /\ <<"comminution", "gravity">> \in Seq(StepNames)
      BY DEF StepNames
    <2> QED BY <1>7, <1>8, <1>9, <2>1, <2>2
  <1>14. StepMarks!FlattenSeq(f) =
          ((((Part("data_input") \o Part("topology")) \o Part("comminution")) \o Part("leaching")) \o Part("auxiliaries")) \o Part("freeze")
    <2>1. PICK A : A = Seq(StepNames)
      OBVIOUS
    <2>2. f \in Seq(A) /\ Len(f) = 6
      BY <1>11, <1>13, <2>1
    <2>3. f \in Seq(Seq(StepNames))
      BY <2>1, <2>2
    <2>4. /\ f[1] = Part("data_input") /\ f[2] = Part("topology") /\ f[3] = Part("comminution")
          /\ f[4] = Part("leaching") /\ f[5] = Part("auxiliaries") /\ f[6] = Part("freeze")
      BY <1>11
    <2>5. StepMarks!FlattenSeq(f) = ((((f[1] \o f[2]) \o f[3]) \o f[4]) \o f[5]) \o f[6]
      BY <2>2, <2>3, Flattened
    <2> QED BY <2>4, <2>5, Zenon
  <1> QED BY <1>7, <1>8, <1>9, <1>12, <1>14

\* Those four sequences are in order.
OrderedSteps(s) ==
  /\ \A i, j \in DOMAIN s : s[i] = s[j] => i = j
  /\ \A i, j \in DOMAIN StepMarks!BaseSteps : i < j =>
       \E p, q \in DOMAIN s : p < q /\ s[p] = StepMarks!BaseSteps[i] /\ s[q] = StepMarks!BaseSteps[j]
  /\ \A i \in DOMAIN s : s[i] \in StepMarks!Conditional => i > 1 /\ s[i - 1] = StepMarks!After[s[i]]

\* Each of these sequences has the six steps in their order, and an operation's step after its own.
LEMMA StepsOrdered ==
  ASSUME NEW s, s \in {<<"data_input", "topology", "comminution", "leaching", "auxiliaries", "freeze">>,
                       <<"data_input", "topology", "flotation", "comminution", "leaching", "auxiliaries", "freeze">>,
                       <<"data_input", "topology", "comminution", "gravity", "leaching", "auxiliaries", "freeze">>,
                       <<"data_input", "topology", "flotation", "comminution", "gravity", "leaching", "auxiliaries", "freeze">>}
  PROVE  OrderedSteps(s)
  <1>1. PICK b : b = StepMarks!BaseSteps
    OBVIOUS
  <1>2. b = <<"data_input", "topology", "comminution", "leaching", "auxiliaries", "freeze">> /\ DOMAIN b = 1..6
    BY <1>1 DEF StepMarks!BaseSteps
  <1>3. /\ StepMarks!Conditional = {"flotation", "regrind", "gravity", "pretreatment"}
        /\ StepMarks!After["flotation"] = "topology" /\ StepMarks!After["gravity"] = "comminution"
        /\ StepMarks!After["regrind"] = "flotation" /\ StepMarks!After["pretreatment"] = "gravity"
    BY DEF StepMarks!Conditional, StepMarks!After
  \* Where each base step is.
  <1> DEFINE Places(c, d, e, f, g) ==
        /\ {1, 2, c, d, e, f} \subseteq DOMAIN s /\ 2 < c /\ c < d /\ d < e /\ e < f
        /\ c \in Nat /\ d \in Nat /\ e \in Nat /\ f \in Nat
        /\ s[1] = "data_input" /\ s[2] = "topology" /\ s[c] = "comminution" /\ s[d] = "leaching"
        /\ s[e] = "auxiliaries" /\ s[f] = "freeze"
  <1>4. \E c, d, e, f \in Nat : Places(c, d, e, f, 0)
    <2>1. CASE s = <<"data_input", "topology", "comminution", "leaching", "auxiliaries", "freeze">>
      <3>1. Places(3, 4, 5, 6, 0)
        BY <2>1
      <3> QED BY <3>1
    <2>2. CASE s = <<"data_input", "topology", "flotation", "comminution", "leaching", "auxiliaries", "freeze">>
      <3>1. Places(4, 5, 6, 7, 0)
        BY <2>2
      <3> QED BY <3>1
    <2>3. CASE s = <<"data_input", "topology", "comminution", "gravity", "leaching", "auxiliaries", "freeze">>
      <3>1. Places(3, 5, 6, 7, 0)
        BY <2>3
      <3> QED BY <3>1
    <2>4. CASE s = <<"data_input", "topology", "flotation", "comminution", "gravity", "leaching", "auxiliaries", "freeze">>
      <3>1. Places(4, 6, 7, 8, 0)
        BY <2>4
      <3> QED BY <3>1
    <2> QED BY <2>1, <2>2, <2>3, <2>4
  <1>5. \A i, j \in DOMAIN b : i < j => \E p, q \in DOMAIN s : p < q /\ s[p] = b[i] /\ s[q] = b[j]
    <2>1. PICK c, d, e, f \in Nat : Places(c, d, e, f, 0)
      BY <1>4
    <2>2. PICK w : w = <<1, 2, c, d, e, f>>
      OBVIOUS
    <2>3. \A i \in 1..6 : w[i] \in DOMAIN s /\ s[w[i]] = b[i]
      BY <1>2, <2>1, <2>2
    <2>4. \A i, j \in 1..6 : i < j => w[i] < w[j]
      BY <2>1, <2>2
    <2> QED BY <1>2, <2>3, <2>4
  <1>6. \A i, j \in DOMAIN s : s[i] = s[j] => i = j
    OBVIOUS
  <1>7. \A i \in DOMAIN s : s[i] \in StepMarks!Conditional => i > 1 /\ s[i - 1] = StepMarks!After[s[i]]
    <2>1. CASE s = <<"data_input", "topology", "comminution", "leaching", "auxiliaries", "freeze">>
      BY <1>3, <2>1
    <2>2. CASE s = <<"data_input", "topology", "flotation", "comminution", "leaching", "auxiliaries", "freeze">>
      <3>1. \A i \in DOMAIN s : s[i] \in StepMarks!Conditional => i = 3
        BY <1>3, <2>2
      <3>2. s[3] = "flotation" /\ s[2] = "topology" /\ 3 - 1 = 2
        BY <2>2
      <3> QED BY <1>3, <3>1, <3>2
    <2>3. CASE s = <<"data_input", "topology", "comminution", "gravity", "leaching", "auxiliaries", "freeze">>
      <3>1. \A i \in DOMAIN s : s[i] \in StepMarks!Conditional => i = 4
        BY <1>3, <2>3
      <3>2. s[4] = "gravity" /\ s[3] = "comminution" /\ 4 - 1 = 3
        BY <2>3
      <3> QED BY <1>3, <3>1, <3>2
    <2>4. CASE s = <<"data_input", "topology", "flotation", "comminution", "gravity", "leaching", "auxiliaries", "freeze">>
      <3>1. \A i \in DOMAIN s : s[i] \in StepMarks!Conditional => i = 3 \/ i = 5
        BY <1>3, <2>4
      <3>2. s[3] = "flotation" /\ s[2] = "topology" /\ 3 - 1 = 2 /\ s[5] = "gravity" /\ s[4] = "comminution" /\ 5 - 1 = 4
        BY <2>4
      <3> QED BY <1>3, <3>1, <3>2
    <2> QED BY <2>1, <2>2, <2>3, <2>4
  <1> QED BY <1>1, <1>5, <1>6, <1>7 DEF OrderedSteps

\* What stands where when sequences are put together.
Spots(S, A, B, a1, a4, a5, a6, w) ==
  /\ w \in Seq(S) /\ Len(w) = 4 + Len(A) + Len(B) /\ w[1] = a1
  /\ \A i \in 1..Len(A) : w[1 + i] = A[i]
  /\ \A i \in 1..Len(B) : w[1 + Len(A) + i] = B[i]
  /\ w[2 + Len(A) + Len(B)] = a4 /\ w[3 + Len(A) + Len(B)] = a5 /\ w[4 + Len(A) + Len(B)] = a6
\* Where the parts of such a sequence are.
LEMMA SixSpots ==
  ASSUME NEW S, NEW A \in Seq(S), NEW B \in Seq(S), NEW a1 \in S, NEW a4 \in S, NEW a5 \in S, NEW a6 \in S,
         NEW w, w = ((((<<a1>> \o A) \o B) \o <<a4>>) \o <<a5>>) \o <<a6>>
  PROVE  Spots(S, A, B, a1, a4, a5, a6, w)
  <1>1. PICK q1, q4, q5, q6 : q1 = <<a1>> /\ q4 = <<a4>> /\ q5 = <<a5>> /\ q6 = <<a6>>
    OBVIOUS
  <1>2. /\ q1 \in Seq(S) /\ q4 \in Seq(S) /\ q5 \in Seq(S) /\ q6 \in Seq(S)
        /\ Len(q1) = 1 /\ Len(q4) = 1 /\ Len(q5) = 1 /\ Len(q6) = 1
        /\ q1[1] = a1 /\ q4[1] = a4 /\ q5[1] = a5 /\ q6[1] = a6
    BY <1>1
  <1>3. PICK m, n \in Nat : m = Len(A) /\ n = Len(B)
    BY LenProperties
  <1>4. PICK u1 : u1 = q1 \o A
    OBVIOUS
  <1>5. u1 \in Seq(S) /\ Len(u1) = 1 + m /\ u1[1] = a1 /\ \A i \in 1..m : u1[1 + i] = A[i]
    <2>1. u1 \in Seq(S) /\ Len(u1) = 1 + m /\ \A i \in 1..(1 + m) : u1[i] = IF i <= 1 THEN q1[i] ELSE A[i - 1]
      <3>1. q1 \in Seq(S)
        BY <1>2
      <3>2. /\ q1 \o A \in Seq(S) /\ Len(q1 \o A) = Len(q1) + Len(A)
          /\ \A i \in 1..(Len(q1) + Len(A)) : (q1 \o A)[i] = IF i <= Len(q1) THEN q1[i] ELSE A[i - Len(q1)]
        BY <3>1, ConcatProperties
      <3> QED BY <1>2, <1>3, <1>4, <3>2
    <2>2. \A i \in 1..m : (1 + i) - 1 = i /\ ~(1 + i <= 1) /\ 1 + i \in 1..(1 + m)
      BY <1>3
    <2>3. 1 \in 1..(1 + m) /\ 1 <= 1
      BY <1>3
    <2>4. \A i \in 1..m : u1[1 + i] = A[(1 + i) - 1]
      BY <2>1, <2>2
    <2> QED BY <1>2, <2>1, <2>2, <2>3, <2>4
  <1>6. PICK u2 : u2 = u1 \o B
    OBVIOUS
  <1>7. /\ u2 \in Seq(S) /\ Len(u2) = 1 + m + n /\ \A i \in 1..(1 + m) : u2[i] = u1[i]
        /\ \A i \in 1..n : u2[1 + m + i] = B[i]
    <2>1. /\ u2 \in Seq(S) /\ Len(u2) = (1 + m) + n
          /\ \A i \in 1..((1 + m) + n) : u2[i] = IF i <= 1 + m THEN u1[i] ELSE B[i - (1 + m)]
      <3>1. u1 \in Seq(S)
        BY <1>5
      <3>2. /\ u1 \o B \in Seq(S) /\ Len(u1 \o B) = Len(u1) + Len(B)
          /\ \A i \in 1..(Len(u1) + Len(B)) : (u1 \o B)[i] = IF i <= Len(u1) THEN u1[i] ELSE B[i - Len(u1)]
        BY <3>1, ConcatProperties
      <3> QED BY <1>3, <1>5, <1>6, <3>2
    <2>2. \A i \in 1..n : (1 + m + i) - (1 + m) = i /\ ~(1 + m + i <= 1 + m) /\ 1 + m + i \in 1..((1 + m) + n)
      BY <1>3
    <2>3. \A i \in 1..n : u2[1 + m + i] = B[(1 + m + i) - (1 + m)]
      BY <2>1, <2>2
    <2>4. \A i \in 1..(1 + m) : i \in 1..((1 + m) + n) /\ i <= 1 + m
      BY <1>3
    <2> QED BY <2>1, <2>2, <2>3, <2>4
  <1>8. ASSUME NEW k \in Nat, NEW u \in Seq(S), Len(u) = k, NEW q \in Seq(S), Len(q) = 1
        PROVE  u \o q \in Seq(S) /\ Len(u \o q) = k + 1 /\ (\A i \in 1..k : (u \o q)[i] = u[i]) /\ (u \o q)[k + 1] = q[1]
    <2>1. /\ u \o q \in Seq(S) /\ Len(u \o q) = k + 1
          /\ \A i \in 1..(k + 1) : (u \o q)[i] = IF i <= k THEN u[i] ELSE q[i - k]
      <3>2. /\ u \o q \in Seq(S) /\ Len(u \o q) = Len(u) + Len(q)
          /\ \A i \in 1..(Len(u) + Len(q)) : (u \o q)[i] = IF i <= Len(u) THEN u[i] ELSE q[i - Len(u)]
        BY ConcatProperties
      <3> QED BY <1>8, <3>2
    <2>2. (k + 1) - k = 1 /\ ~(k + 1 <= k) /\ k + 1 \in 1..(k + 1)
      OBVIOUS
    <2>3. (u \o q)[k + 1] = q[(k + 1) - k]
      BY <2>1, <2>2
    <2>4. \A i \in 1..k : i \in 1..(k + 1) /\ i <= k
      OBVIOUS
    <2> QED BY <2>1, <2>2, <2>3, <2>4
  <1>9. PICK k \in Nat : k = 1 + m + n
    BY <1>3
  <1>10. PICK u3 : u3 = u2 \o q4
    OBVIOUS
  <1>11. u3 \in Seq(S) /\ Len(u3) = k + 1 /\ (\A i \in 1..k : u3[i] = u2[i]) /\ u3[k + 1] = a4
    <2>1. u2 \in Seq(S) /\ Len(u2) = k
      BY <1>7, <1>9
    <2>2. u2 \o q4 \in Seq(S) /\ Len(u2 \o q4) = k + 1 /\ (\A i \in 1..k : (u2 \o q4)[i] = u2[i]) /\ (u2 \o q4)[k + 1] = q4[1]
      BY <1>2, <1>8, <2>1
    <2> QED BY <1>2, <1>10, <2>2
  <1>12. PICK u4 : u4 = u3 \o q5
    OBVIOUS
  <1>13. u4 \in Seq(S) /\ Len(u4) = (k + 1) + 1 /\ (\A i \in 1..(k + 1) : u4[i] = u3[i]) /\ u4[(k + 1) + 1] = a5
    <2>1. k + 1 \in Nat
      OBVIOUS
    <2>2. u3 \o q5 \in Seq(S) /\ Len(u3 \o q5) = (k + 1) + 1 /\ (\A i \in 1..(k + 1) : (u3 \o q5)[i] = u3[i])
          /\ (u3 \o q5)[(k + 1) + 1] = q5[1]
      BY <1>2, <1>8, <1>11, <2>1
    <2> QED BY <1>2, <1>12, <2>2
  <1>14. w = u4 \o q6
    BY <1>1, <1>4, <1>6, <1>10, <1>12
  <1>15. /\ w \in Seq(S) /\ Len(w) = ((k + 1) + 1) + 1 /\ (\A i \in 1..((k + 1) + 1) : w[i] = u4[i])
         /\ w[((k + 1) + 1) + 1] = a6
    <2>1. (k + 1) + 1 \in Nat
      OBVIOUS
    <2>2. u4 \o q6 \in Seq(S) /\ Len(u4 \o q6) = ((k + 1) + 1) + 1 /\ (\A i \in 1..((k + 1) + 1) : (u4 \o q6)[i] = u4[i])
          /\ (u4 \o q6)[((k + 1) + 1) + 1] = q6[1]
      BY <1>2, <1>8, <1>13, <2>1
    <2> QED BY <1>2, <1>14, <2>2
  <1>16. (k + 1) + 1 = k + 2 /\ ((k + 1) + 1) + 1 = k + 3
    OBVIOUS
  <1>17. /\ \A i \in 1..k : w[i] = u2[i]
         /\ w[k + 1] = a4 /\ w[k + 2] = a5 /\ w[k + 3] = a6 /\ Len(w) = k + 3
    <2>1. \A i \in 1..k : i \in 1..(k + 1) /\ i \in 1..((k + 1) + 1)
      OBVIOUS
    <2>2. k + 1 \in 1..(k + 1) /\ k + 1 \in 1..((k + 1) + 1) /\ k + 2 \in 1..((k + 1) + 1)
      OBVIOUS
    <2>3. \A i \in 1..k : w[i] = u2[i]
      BY <1>11, <1>13, <1>15, <2>1
    <2>4. w[k + 1] = a4
      BY <1>11, <1>13, <1>15, <2>2
    <2>5. w[k + 2] = a5
      BY <1>13, <1>15, <1>16, <2>2
    <2> QED BY <1>15, <1>16, <2>3, <2>4, <2>5
  <1>18. /\ k + 1 = 2 + m + n /\ k + 2 = 3 + m + n /\ k + 3 = 4 + m + n /\ 1 \in 1..k /\ 1 \in 1..(1 + m)
         /\ \A i \in 1..m : 1 + i \in 1..k /\ 1 + i \in 1..(1 + m)
         /\ \A i \in 1..n : 1 + m + i \in 1..k
    BY <1>3, <1>9
  <1>19. w[1] = a1 /\ \A i \in 1..m : w[1 + i] = A[i]
    BY <1>5, <1>7, <1>17, <1>18
  <1>20. \A i \in 1..n : w[1 + m + i] = B[i]
    BY <1>7, <1>17, <1>18
  <1>21. w[2 + m + n] = a4 /\ w[3 + m + n] = a5 /\ w[4 + m + n] = a6 /\ Len(w) = 4 + m + n
    BY <1>17, <1>18
  <1> QED BY <1>3, <1>15, <1>19, <1>20, <1>21 DEF Spots

\* The operations that a request sets are some of the five.
Five == {"flotation", "regrind", "gravity", "pretreatment", "mill"}
OpsReq == [do : {"none", "drop", "insert", "generate"}, ops : SUBSET Five, step : {"none"}, seen : SUBSET Five,
           rows : {<<>>}, prev : {0}]
OpsInv == dcOp \subseteq Five /\ dcReq \in [{r1} -> OpsReq]

\* There is none at the beginning.
LEMMA OpsInit ==
  ASSUME AllInit, part = "steps"
  PROVE  OpsInv
  <1>1. StepMarks!Init
    BY DEF AllInit
  <1> QED BY <1>1 DEF StepMarks!Init, StepMarks!Idle, OpsInv, OpsReq

\* The request goes on with some of the five.
LEMMA OpsGo ==
  ASSUME OpsInv, NEW q \in OpsReq, StepMarks!Go(r1, q), dcOp' \subseteq Five
  PROVE  OpsInv'
  BY DEF OpsInv, StepMarks!Go

\* Every step keeps it.
LEMMA OpsMove ==
  ASSUME OpsInv, StepMarks!Next
  PROVE  OpsInv'
  <1>0. dcReq[r1] \in OpsReq /\ dcOp \subseteq Five
    BY DEF OpsInv
  <1>i. /\ StepMarks!Idle \in OpsReq
        /\ StepMarks!Idle = [do |-> "none", ops |-> {}, step |-> "none", seen |-> {}, rows |-> <<>>, prev |-> 0]
    BY DEF StepMarks!Idle, OpsReq
  <1>1. ASSUME StepMarks!Topology(r1) PROVE OpsInv'
    <2>1. PICK new \in SUBSET Five :
            StepMarks!Go(r1, [StepMarks!Idle EXCEPT !.do = "drop", !.ops = new, !.seen = new]) /\ dcOp' = dcOp
      BY <1>1 DEF StepMarks!Topology, Five
    <2>2. PICK q : q = [StepMarks!Idle EXCEPT !.do = "drop", !.ops = new, !.seen = new]
      OBVIOUS
    <2>3. StepMarks!Go(r1, q) /\ q \in OpsReq
      BY <1>i, <2>1, <2>2 DEF OpsReq
    <2> QED BY <1>0, <2>1, <2>3, OpsGo
  <1>2. ASSUME StepMarks!Drop(r1) \/ StepMarks!Insert(r1) \/ StepMarks!Generate(r1)
        PROVE  OpsInv'
    <2>1. PICK q : /\ StepMarks!Go(r1, q)
                   /\ \/ q = [dcReq[r1] EXCEPT !.do = "insert"]
                      \/ \E o : q = [dcReq[r1] EXCEPT !.ops = @ \ {o}]
                      \/ q = [dcReq[r1] EXCEPT !.do = "generate", !.ops = dcReq[r1].seen]
      BY <1>2 DEF StepMarks!Drop, StepMarks!Insert, StepMarks!Generate
    <2>2. q \in OpsReq
      BY <1>0, <2>1 DEF OpsReq
    <2>3. dcReq[r1].ops \subseteq Five
      BY <1>0 DEF OpsReq
    <2>4. dcOp' \subseteq Five
      BY <1>0, <1>2, <2>3 DEF StepMarks!Drop, StepMarks!Insert, StepMarks!Generate
    <2> QED BY <2>1, <2>2, <2>4, OpsGo
  <1>3. ASSUME StepMarks!Told(r1) PROVE OpsInv'
    <2>1. dcOp' = dcOp /\ StepMarks!Go(r1, StepMarks!Idle)
      BY <1>3 DEF StepMarks!Told
    <2> QED BY <1>0, <1>i, <2>1, OpsGo
  <1>4. ~(StepMarks!Fail(r1) \/ StepMarks!Validate(r1) \/ StepMarks!Edit(r1) \/ StepMarks!Freeze(r1))
    BY DEF StepMarks!Fail, StepMarks!Validate, StepMarks!Edit, StepMarks!Freeze, StepMarks!May
  <1>5. ~(StepMarks!Mark(r1) \/ StepMarks!Previous(r1) \/ StepMarks!Snapshot(r1))
    BY <1>0 DEF OpsReq, StepMarks!Mark, StepMarks!Previous, StepMarks!Snapshot
  <1>6. \E r \in {r1} :
          \/ StepMarks!Topology(r) \/ StepMarks!Drop(r) \/ StepMarks!Insert(r) \/ StepMarks!Generate(r)
          \/ StepMarks!Told(r) \/ StepMarks!Fail(r) \/ StepMarks!Validate(r) \/ StepMarks!Mark(r) \/ StepMarks!Edit(r)
          \/ StepMarks!Freeze(r) \/ StepMarks!Previous(r) \/ StepMarks!Snapshot(r)
    BY DEF StepMarks!Next
  <1> QED BY <1>1, <1>2, <1>3, <1>4, <1>5, <1>6

\* So the steps that are shown are those of the operations, in order.
LEMMA StepsRight ==
  ASSUME OpsInv
  PROVE  StepMarks!StepsInOrder /\ StepMarks!EveryStepShown
  <1>1. PICK s : s = StepMarks!Steps(dcOp)
    OBVIOUS
  <1>2. s = <<"data_input">> \o (IF "flotation" \in dcOp THEN <<"topology", "flotation">> ELSE <<"topology">>)
             \o (IF "gravity" \in dcOp THEN <<"comminution", "gravity">> ELSE <<"comminution">>)
             \o <<"leaching">> \o <<"auxiliaries">> \o <<"freeze">>
    <2>1. dcOp \subseteq {"flotation", "regrind", "gravity", "pretreatment", "mill"}
      BY DEF OpsInv, Five
    <2> QED BY <1>1, <2>1, StepsShown
  <1> DEFINE A == IF "flotation" \in dcOp THEN <<"topology", "flotation">> ELSE <<"topology">>
             B == IF "gravity" \in dcOp THEN <<"comminution", "gravity">> ELSE <<"comminution">>
  <1>a. /\ <<"topology", "flotation">> \in Seq(StepNames) /\ <<"topology">> \in Seq(StepNames)
        /\ <<"comminution", "gravity">> \in Seq(StepNames) /\ <<"comminution">> \in Seq(StepNames)
    BY DEF StepNames
  <1>b. PICK a, c \in Seq(StepNames) : a = A /\ c = B
    BY <1>a
  <1>c. s = ((((<<"data_input">> \o a) \o c) \o <<"leaching">>) \o <<"auxiliaries">>) \o <<"freeze">>
    BY <1>2, <1>b
  <1>d. /\ "data_input" \in StepNames /\ "leaching" \in StepNames /\ "auxiliaries" \in StepNames /\ "freeze" \in StepNames
    BY DEF StepNames
  <1>e. /\ s \in Seq(StepNames) /\ Len(s) = 4 + Len(a) + Len(c) /\ s[1] = "data_input"
        /\ \A i \in 1..Len(a) : s[1 + i] = a[i]
        /\ \A i \in 1..Len(c) : s[1 + Len(a) + i] = c[i]
        /\ s[2 + Len(a) + Len(c)] = "leaching" /\ s[3 + Len(a) + Len(c)] = "auxiliaries" /\ s[4 + Len(a) + Len(c)] = "freeze"
    <2>1. Spots(StepNames, a, c, "data_input", "leaching", "auxiliaries", "freeze", s)
      BY <1>c, <1>d, SixSpots
    <2> QED BY <2>1 DEF Spots
  <1>3. /\ s \in {<<"data_input", "topology", "comminution", "leaching", "auxiliaries", "freeze">>,
                  <<"data_input", "topology", "flotation", "comminution", "leaching", "auxiliaries", "freeze">>,
                  <<"data_input", "topology", "comminution", "gravity", "leaching", "auxiliaries", "freeze">>,
                  <<"data_input", "topology", "flotation", "comminution", "gravity", "leaching", "auxiliaries", "freeze">>}
        /\ "flotation" \in dcOp => \E i \in DOMAIN s : s[i] = "flotation"
        /\ "gravity" \in dcOp => \E i \in DOMAIN s : s[i] = "gravity"
    <2>1. CASE "flotation" \notin dcOp /\ "gravity" \notin dcOp
      <3>a. a = <<"topology">> /\ c = <<"comminution">>
        BY <1>b, <2>1
      <3>b. Len(a) = 1 /\ Len(c) = 1 /\ a[1] = "topology" /\ c[1] = "comminution"
        BY <3>a
      <3>c. Len(s) = 6 /\ s[1] = "data_input" /\ s[2] = "topology" /\ s[3] = "comminution" /\ s[4] = "leaching" /\ s[5] = "auxiliaries" /\ s[6] = "freeze"
        BY <1>e, <3>b
      <3>d. s \in Seq(StepNames)
        BY <1>e
      <3>1. s = <<"data_input", "topology", "comminution", "leaching", "auxiliaries", "freeze">>
        BY <3>c, <3>d
      <3> QED BY <2>1, <3>1
    <2>2. CASE "flotation" \in dcOp /\ "gravity" \notin dcOp
      <3>a. a = <<"topology", "flotation">> /\ c = <<"comminution">>
        BY <1>b, <2>2
      <3>b. Len(a) = 2 /\ Len(c) = 1 /\ a[1] = "topology" /\ a[2] = "flotation" /\ c[1] = "comminution"
        BY <3>a
      <3>c. Len(s) = 7 /\ s[1] = "data_input" /\ s[2] = "topology" /\ s[3] = "flotation" /\ s[4] = "comminution" /\ s[5] = "leaching" /\ s[6] = "auxiliaries" /\ s[7] = "freeze"
        BY <1>e, <3>b
      <3>d. s \in Seq(StepNames)
        BY <1>e
      <3>1. s = <<"data_input", "topology", "flotation", "comminution", "leaching", "auxiliaries", "freeze">>
        BY <3>c, <3>d
      <3>2. 3 \in DOMAIN s /\ s[3] = "flotation"
        BY <3>1
      <3> QED BY <2>2, <3>1, <3>2
    <2>3. CASE "flotation" \notin dcOp /\ "gravity" \in dcOp
      <3>a. a = <<"topology">> /\ c = <<"comminution", "gravity">>
        BY <1>b, <2>3
      <3>b. Len(a) = 1 /\ Len(c) = 2 /\ a[1] = "topology" /\ c[1] = "comminution" /\ c[2] = "gravity"
        BY <3>a
      <3>c. Len(s) = 7 /\ s[1] = "data_input" /\ s[2] = "topology" /\ s[3] = "comminution" /\ s[4] = "gravity" /\ s[5] = "leaching" /\ s[6] = "auxiliaries" /\ s[7] = "freeze"
        BY <1>e, <3>b
      <3>d. s \in Seq(StepNames)
        BY <1>e
      <3>1. s = <<"data_input", "topology", "comminution", "gravity", "leaching", "auxiliaries", "freeze">>
        BY <3>c, <3>d
      <3>2. 4 \in DOMAIN s /\ s[4] = "gravity"
        BY <3>1
      <3> QED BY <2>3, <3>1, <3>2
    <2>4. CASE "flotation" \in dcOp /\ "gravity" \in dcOp
      <3>a. a = <<"topology", "flotation">> /\ c = <<"comminution", "gravity">>
        BY <1>b, <2>4
      <3>b. Len(a) = 2 /\ Len(c) = 2 /\ a[1] = "topology" /\ a[2] = "flotation" /\ c[1] = "comminution" /\ c[2] = "gravity"
        BY <3>a
      <3>c. Len(s) = 8 /\ s[1] = "data_input" /\ s[2] = "topology" /\ s[3] = "flotation" /\ s[4] = "comminution" /\ s[5] = "gravity" /\ s[6] = "leaching" /\ s[7] = "auxiliaries" /\ s[8] = "freeze"
        BY <1>e, <3>b
      <3>d. s \in Seq(StepNames)
        BY <1>e
      <3>1. s = <<"data_input", "topology", "flotation", "comminution", "gravity", "leaching", "auxiliaries", "freeze">>
        BY <3>c, <3>d
      <3>2. 3 \in DOMAIN s /\ s[3] = "flotation" /\ 5 \in DOMAIN s /\ s[5] = "gravity"
        BY <3>1
      <3> QED BY <2>4, <3>1, <3>2
    <2> QED BY <2>1, <2>2, <2>3, <2>4
  <1>4. OrderedSteps(s)
    BY <1>3, StepsOrdered
  <1>5. StepMarks!StepsInOrder
    BY <1>1, <1>4 DEF StepMarks!StepsInOrder, OrderedSteps
  <1>6. /\ \A o \in dcOp \cap StepMarks!Conditional : o \in {"flotation", "regrind", "gravity", "pretreatment"}
        /\ StepMarks!After["flotation"] = "topology" /\ StepMarks!After["gravity"] = "comminution"
        /\ StepMarks!After["regrind"] = "flotation" /\ StepMarks!After["pretreatment"] = "gravity"
    BY DEF StepMarks!Conditional, StepMarks!After
  <1>7. StepMarks!ToSet(StepMarks!BaseSteps) = {"data_input", "topology", "comminution", "leaching", "auxiliaries", "freeze"}
    BY DEF StepMarks!ToSet, StepMarks!BaseSteps
  \* Those of regrind and of pretreatment are not among the names there are.
  <1>8. \A i \in DOMAIN s : s[i] # "regrind" /\ s[i] # "pretreatment"
    <2>1. \A i \in DOMAIN s : s[i] \in StepNames
      BY <1>e
    <2> QED BY <2>1 DEF StepNames
  <1>9. ASSUME NEW o \in dcOp \cap StepMarks!Conditional
        PROVE  (\E i \in DOMAIN s : s[i] = o) <=> StepMarks!After[o] \in StepMarks!ToSet(StepMarks!BaseSteps)
    <2>1. CASE o = "flotation"
      BY <1>3, <1>6, <1>7, <1>9, <2>1
    <2>2. CASE o = "gravity"
      BY <1>3, <1>6, <1>7, <1>9, <2>2
    <2>3. CASE o = "regrind"
      BY <1>6, <1>7, <1>8, <2>3
    <2>4. CASE o = "pretreatment"
      BY <1>6, <1>7, <1>8, <2>4
    <2> QED BY <1>6, <1>9, <2>1, <2>2, <2>3, <2>4
  <1>10. \A o : o \in StepMarks!ToSet(s) <=> \E i \in DOMAIN s : s[i] = o
    BY DEF StepMarks!ToSet
  <1>11. StepMarks!EveryStepShown
    BY <1>1, <1>9, <1>10 DEF StepMarks!EveryStepShown
  <1> QED BY <1>5, <1>11

WholeInv ==
  /\ part = "templates" => TemplateInv
  /\ part = "snapshots" => SnapInv
  /\ part = "freezes" => FreezeInv
  /\ part = "steps" => OpsInv

\* Each part keeps its invariant.
LEMMA WholeStep ==
  ASSUME WholeInv, [AllNext]_allVars
  PROVE  WholeInv'
  <1>1. part' = part
    BY PartStep
  <1>2. part = "templates" => TemplateInv'
    <2> SUFFICES ASSUME part = "templates" PROVE TemplateInv'
      OBVIOUS
    <2>1. [TemplateUse!Next]_templateData /\ TemplateInv
      BY PartStep DEF WholeInv
    <2>2. CASE UNCHANGED templateData
      BY <2>1, <2>2 DEF templateData, TemplateInv, TemplateTypes, RequestTypes, Under, RowsWhole
    <2> QED BY <2>1, <2>2, TemplateMoves
  <1>3. part = "snapshots" => SnapInv'
    <2> SUFFICES ASSUME part = "snapshots" PROVE SnapInv'
      OBVIOUS
    <2>1. [SnapshotUse!Next]_templateData /\ SnapInv
      BY PartStep DEF WholeInv
    <2>2. CASE UNCHANGED templateData
      BY <2>1, <2>2 DEF templateData, SnapInv, SnapRows, Cloning
    <2> QED BY <2>1, <2>2, SnapMoves
  <1>4. part = "freezes" => FreezeInv'
    <2> SUFFICES ASSUME part = "freezes" PROVE FreezeInv'
      OBVIOUS
    <2>1. [Freezes!Next]_stepData /\ FreezeInv
      BY PartStep DEF WholeInv
    <2>2. CASE UNCHANGED stepData
      BY <2>1, <2>2 DEF stepData, FreezeInv, FreezeTypes, CritThere, Owes, SnapsFollow
    <2> QED BY <2>1, <2>2, FreezeMoves
  <1>5. part = "steps" => OpsInv'
    <2> SUFFICES ASSUME part = "steps" PROVE OpsInv'
      OBVIOUS
    <2>1. [StepMarks!Next]_stepData /\ OpsInv
      BY PartStep DEF WholeInv
    <2>2. CASE UNCHANGED stepData
      BY <2>1, <2>2 DEF stepData, OpsInv
    <2> QED BY <2>1, <2>2, OpsMove
  <1> QED BY <1>1, <1>2, <1>3, <1>4, <1>5 DEF WholeInv

\* However requests overlap: the criteria of a clone are not of an earlier
\* state than its operations, nothing is cloned from a snapshot, and while no
\* topology is being set or failed half-way, what is frozen has a criterion
\* for every operation and follows an earlier version.  The steps of the
\* pipeline are in the order of the process, and the conditional ones that
\* are shown are those anchored to a step that always is (VersionsWhole of
\* MCFlowsheets: routes/circuit.py, routes/dc_pipeline.py).
THEOREM AllVersionsWhole == AllSpec => []VersionsWhole
  <1>1. AllInit => WholeInv
    BY TemplateInit, SnapInit, FreezeInit, OpsInit DEF WholeInv
  <1>2. WholeInv /\ [AllNext]_allVars => WholeInv'
    BY WholeStep
  <1>3. WholeInv => VersionsWhole
    BY TemplatesWhole, SnapApart, FreezesWhole, StepsRight DEF WholeInv, VersionsWhole
  <1> QED BY <1>1, <1>2, <1>3, PTL DEF AllSpec

-----------------------------------------------------------------------------
(* The cascade of design criteria (DcCascade): lists, and what is in them.  *)

IsSome(f, s, S, m) ==
  f = [n \in 0..m |-> IF n = 0 THEN <<>> ELSE IF s[n] \in S THEN Append(f[n - 1], s[n]) ELSE f[n - 1]]

\* The function that keeps those of a list that are in a set: there is one ...
LEMMA SomeExists ==
  ASSUME NEW s, NEW S
  PROVE  \A m \in Nat : \E f : IsSome(f, s, S, m)
  <1>1. SUFFICES ASSUME NEW T, T = {m \in Nat : ~\E f : IsSome(f, s, S, m)}, T # {} PROVE FALSE
    OBVIOUS
  <1>2. PICK m \in T : \A k \in T : m <= k
    BY <1>1, LeastNat
  <1>3. CASE m = 0
    <2>1. PICK f : f = [n \in 0..0 |-> <<>>]
      OBVIOUS
    <2>2. \A n \in 0..0 : n = 0
      OBVIOUS
    <2>3. IsSome(f, s, S, 0)
      BY <2>1, <2>2 DEF IsSome
    <2> QED BY <1>1, <1>3, <2>3
  <1>4. CASE m # 0
    <2>1. m \in Nat /\ m - 1 \in Nat /\ ~(m <= m - 1)
      BY <1>1, <1>4
    <2>2. m - 1 \notin T
      BY <1>2, <2>1
    <2>3. PICK f : IsSome(f, s, S, m - 1)
      BY <1>1, <2>1, <2>2
    <2>4. PICK x : x = IF s[m] \in S THEN Append(f[m - 1], s[m]) ELSE f[m - 1]
      OBVIOUS
    <2>5. PICK g : g = [n \in 0..m |-> IF n = m THEN x ELSE f[n]]
      OBVIOUS
    <2>6. \A n \in 0..m : n # m => n \in 0..(m - 1) /\ g[n] = f[n] /\ (n # 0 => n - 1 \in 0..m /\ n - 1 # m /\ g[n - 1] = f[n - 1])
      BY <2>1, <2>5
    <2>7. g[m] = x /\ g[m - 1] = f[m - 1]
      BY <2>1, <2>5
    <2>8. \A n \in 0..(m - 1) : f[n] = IF n = 0 THEN <<>> ELSE IF s[n] \in S THEN Append(f[n - 1], s[n]) ELSE f[n - 1]
      BY <2>3 DEF IsSome
    <2>9. ASSUME NEW n \in 0..m
          PROVE  g[n] = IF n = 0 THEN <<>> ELSE IF s[n] \in S THEN Append(g[n - 1], s[n]) ELSE g[n - 1]
      <3>1. CASE n = m
        BY <1>4, <2>4, <2>7, <3>1
      <3>2. CASE n # m
        BY <2>6, <2>8, <3>2
      <3> QED BY <3>1, <3>2
    <2>10. g = [n \in 0..m |-> g[n]]
      BY <2>5
    <2>11. IsSome(g, s, S, m)
      BY <2>9, <2>10 DEF IsSome
    <2> QED BY <1>1, <2>11
  <1> QED BY <1>3, <1>4

\* The elements of a list come after what they depend on in S.
Follows(s, S, dep) == \A i \in DOMAIN s : dep[s[i]] \cap S \subseteq {s[j] : j \in 1 .. (i - 1)}

\* ... and it has those of the set, each once and in their order.
LEMMA SomeIs ==
  ASSUME NEW X, NEW s \in Seq(X), NEW S, NEW f, IsSome(f, s, S, Len(s)), Once(s), NEW dep
  PROVE  /\ f[Len(s)] \in Seq(X) /\ Elems(f[Len(s)]) = Elems(s) \cap S /\ Once(f[Len(s)])
         /\ Follows(s, S, dep) => Follows(f[Len(s)], S, dep)
  <1> DEFINE Upto(n) == {s[i] : i \in 1..n}
             Good(n) == /\ f[n] \in Seq(X) /\ Elems(f[n]) = Upto(n) \cap S /\ Once(f[n])
                        /\ Follows(s, S, dep) => Follows(f[n], S, dep)
  <1>0. Len(s) \in Nat /\ DOMAIN s = 1..Len(s) /\ \A i \in 1..Len(s) : s[i] \in X
    BY LenProperties, ElementOfSeq
  <1>1. \A n \in 0..Len(s) : f[n] = IF n = 0 THEN <<>> ELSE IF s[n] \in S THEN Append(f[n - 1], s[n]) ELSE f[n - 1]
    BY DEF IsSome
  <1>2. Good(0)
    <2>1. f[0] = <<>>
      BY <1>0, <1>1
    <2>2. <<>> \in Seq(X) /\ DOMAIN <<>> = {} /\ 1..0 = {}
      OBVIOUS
    <2> QED BY <2>1, <2>2 DEF Elems, Once, Follows
  <1>3. ASSUME NEW n \in 0..Len(s), n # 0, Good(n - 1) PROVE Good(n)
    <2>1. n \in 1..Len(s) /\ n - 1 \in 0..Len(s) /\ s[n] \in X /\ n \in Nat
      BY <1>0, <1>3
    <2>2. Upto(n) = Upto(n - 1) \cup {s[n]}
      <3>1. \A i : i \in 1..n <=> i \in 1..(n - 1) \/ i = n
        BY <2>1
      <3> QED BY <3>1
    <2>0. s[n] \notin Upto(n - 1)
      <3>1. \A i \in 1..(n - 1) : i \in DOMAIN s /\ n \in DOMAIN s /\ i # n
        BY <1>0, <2>1
      <3> QED BY <3>1 DEF Once
    <2>3. CASE s[n] \in S
      <3>1. f[n] = Append(f[n - 1], s[n])
        BY <1>1, <1>3, <2>1, <2>3
      <3>3. PICK t \in Seq(X) : t = f[n - 1]
        BY <1>3
      <3>4. PICK x \in X : x = s[n]
        BY <2>1
      <3>5. /\ Append(t, x) \in Seq(X) /\ Len(Append(t, x)) = Len(t) + 1 /\ Len(t) \in Nat
            /\ \A i \in 1..Len(t) : Append(t, x)[i] = t[i]
            /\ Append(t, x)[Len(t) + 1] = x
            /\ DOMAIN t = 1..Len(t) /\ DOMAIN Append(t, x) = 1..(Len(t) + 1)
        BY AppendProperties, LenProperties
      <3>6. \A i : i \in 1..(Len(t) + 1) <=> i \in 1..Len(t) \/ i = Len(t) + 1
        BY <3>5
      <3>7. Elems(Append(t, x)) = Elems(t) \cup {x}
        BY <3>5, <3>6 DEF Elems
      <3>8. Elems(t) = Upto(n - 1) \cap S /\ Once(t) /\ (Follows(s, S, dep) => Follows(t, S, dep))
        BY <1>3, <3>3
      <3>9. \A i \in 1..Len(t) : t[i] # x
        <4>1. x \notin Elems(t)
          BY <2>0, <3>4, <3>8
        <4> QED BY <3>5, <4>1 DEF Elems
      <3>10. Once(Append(t, x))
        BY <3>5, <3>6, <3>8, <3>9 DEF Once
      <3>11. ASSUME Follows(s, S, dep) PROVE Follows(Append(t, x), S, dep)
        <4> SUFFICES ASSUME NEW i \in 1..(Len(t) + 1)
                     PROVE  dep[Append(t, x)[i]] \cap S \subseteq {Append(t, x)[j] : j \in 1 .. (i - 1)}
          BY <3>5 DEF Follows
        <4>1. CASE i \in 1..Len(t)
          <5>1. {Append(t, x)[j] : j \in 1 .. (i - 1)} = {t[j] : j \in 1 .. (i - 1)}
            <6>1. \A j \in 1 .. (i - 1) : Append(t, x)[j] = t[j]
              BY <3>5, <4>1
            <6> QED BY <6>1
          <5>2. dep[t[i]] \cap S \subseteq {t[j] : j \in 1 .. (i - 1)}
            BY <3>5, <3>8, <3>11, <4>1 DEF Follows
          <5> QED BY <3>5, <4>1, <5>1, <5>2
        <4>2. CASE i = Len(t) + 1
          <5>1. {Append(t, x)[j] : j \in 1 .. (i - 1)} = Elems(t)
            <6>1. i - 1 = Len(t)
              BY <3>5, <4>2
            <6>2. \A j \in 1 .. Len(t) : Append(t, x)[j] = t[j]
              BY <3>5
            <6> QED BY <3>5, <6>1, <6>2 DEF Elems
          <5>2. dep[x] \cap S \subseteq Upto(n - 1)
            BY <1>0, <2>1, <3>4, <3>11 DEF Follows
          <5> QED BY <3>5, <3>8, <4>2, <5>1, <5>2
        <4> QED BY <3>6, <4>1, <4>2
      <3>12. Elems(Append(t, x)) = Upto(n) \cap S
        BY <2>2, <2>3, <3>4, <3>7, <3>8
      <3>13. f[n] = Append(t, x)
        BY <3>1, <3>3, <3>4
      <3> HIDE DEF Upto
      <3> QED BY <3>5, <3>10, <3>11, <3>12, <3>13
    <2>4. CASE s[n] \notin S
      BY <1>1, <1>3, <2>1, <2>2, <2>4
    <2> QED BY <2>3, <2>4
  <1>4. \A n \in 0..Len(s) : Good(n)
    <2> HIDE DEF Good
    <2>1. SUFFICES ASSUME NEW T, T = {n \in 0..Len(s) : ~Good(n)}, T # {} PROVE FALSE
      OBVIOUS
    <2>2. T \subseteq Nat
      BY <1>0, <2>1
    <2>3. PICK n \in T : \A k \in T : n <= k
      BY <2>1, <2>2, LeastNat
    <2>4. n # 0
      BY <1>2, <2>1
    <2>5. n - 1 \in 0..Len(s) /\ ~(n <= n - 1)
      BY <1>0, <2>1, <2>4
    <2> QED BY <1>3, <2>1, <2>3, <2>4, <2>5
  <1>5. Good(Len(s))
    <2> HIDE DEF Good
    <2>1. Len(s) \in 0..Len(s)
      BY <1>0
    <2> QED BY <1>4, <2>1
  <1>6. Elems(s) = Upto(Len(s))
    BY <1>0 DEF Elems
  <1> QED BY <1>5, <1>6

\* What Those of DcCascade takes from a list: the elements in the set, each
\* once, and after what they depend on in the set if so they were in the list.
LEMMA ThoseAre ==
  ASSUME NEW X, NEW s \in Seq(X), NEW S, Once(s), NEW dep
  PROVE  /\ Cascade!Those(s, S) \in Seq(X) /\ Elems(Cascade!Those(s, S)) = Elems(s) \cap S /\ Once(Cascade!Those(s, S))
         /\ Follows(s, S, dep) => Follows(Cascade!Those(s, S), S, dep)
  <1>1. Len(s) \in Nat
    BY LenProperties
  <1>2. PICK g : IsSome(g, s, S, Len(s))
    BY <1>1, SomeExists
  <1>3. PICK f : f = CHOOSE h : IsSome(h, s, S, Len(s))
    OBVIOUS
  <1>4. IsSome(f, s, S, Len(s))
    BY <1>2, <1>3, Zenon
  <1>5. Cascade!Those(s, S) = f[Len(s)]
    BY <1>3 DEF IsSome, Cascade!Those
  <1>6. /\ f[Len(s)] \in Seq(X) /\ Elems(f[Len(s)]) = Elems(s) \cap S /\ Once(f[Len(s)])
        /\ Follows(s, S, dep) => Follows(f[Len(s)], S, dep)
    BY <1>4, SomeIs
  <1> QED BY <1>5, <1>6

\* A list in which nothing occurs twice has as many elements as it is long.
LEMMA OnceLen ==
  ASSUME NEW X, NEW s \in Seq(X), Once(s)
  PROVE  IsFiniteSet(Elems(s)) /\ Cardinality(Elems(s)) = Len(s) /\ Elems(s) \subseteq X
  <1>1. Len(s) \in Nat /\ DOMAIN s = 1..Len(s) /\ \A i \in 1..Len(s) : s[i] \in X
    BY LenProperties, ElementOfSeq
  <1>2. PICK f : f = [i \in 1..Len(s) |-> s[i]]
    OBVIOUS
  <1>3. f \in Bijection(1..Len(s), Elems(s))
    <2>1. f \in Injection(1..Len(s), Elems(s))
      BY <1>1, <1>2 DEF Injection, Once, Elems, IsInjective
    <2>2. \A y \in Elems(s) : \E i \in 1..Len(s) : f[i] = y
      BY <1>1, <1>2 DEF Elems
    <2> QED BY <2>1, <2>2 DEF Bijection, Surjection, Injection
  <1>4. ExistsBijection(1..Len(s), Elems(s))
    BY <1>3 DEF ExistsBijection
  <1>5. IsFiniteSet(1..Len(s))
    <2>1. 1 \in Int /\ Len(s) \in Int
      BY <1>1
    <2> QED BY <2>1, FS_Interval
  <1>6. IsFiniteSet(Elems(s))
    BY <1>4, <1>5, FS_Bijection
  <1>7. Cardinality(Elems(s)) = Len(s)
    BY <1>1, <1>4, FS_CountingElements
  <1>8. Elems(s) \subseteq X
    BY <1>1 DEF Elems
  <1> QED BY <1>6, <1>7, <1>8

\* One list after another that shares no element with it.
LEMMA ConcatOnce ==
  ASSUME NEW X, NEW s \in Seq(X), NEW t \in Seq(X), Once(s), Once(t), Elems(s) \cap Elems(t) = {}
  PROVE  s \o t \in Seq(X) /\ Once(s \o t) /\ Elems(s \o t) = Elems(s) \cup Elems(t)
  <1>1. /\ s \o t \in Seq(X) /\ Len(s \o t) = Len(s) + Len(t)
        /\ \A i \in 1..Len(s) : (s \o t)[i] = s[i]
        /\ \A i \in 1..Len(t) : (s \o t)[Len(s) + i] = t[i]
    BY ConcatProperties
  <1>2. /\ Len(s) \in Nat /\ Len(t) \in Nat /\ DOMAIN s = 1..Len(s) /\ DOMAIN t = 1..Len(t)
        /\ DOMAIN (s \o t) = 1..(Len(s) + Len(t))
    BY <1>1, LenProperties
  <1>3. PICK u \in Seq(X) : u = s \o t
    BY <1>1
  <1>4. \A i \in 1..(Len(s) + Len(t)) : (i \in 1..Len(s) /\ u[i] = s[i]) \/ ((i - Len(s)) \in 1..Len(t) /\ u[i] = t[i - Len(s)])
    <2> SUFFICES ASSUME NEW i \in 1..(Len(s) + Len(t)), i \notin 1..Len(s)
                 PROVE  (i - Len(s)) \in 1..Len(t) /\ u[i] = t[i - Len(s)]
      BY <1>1, <1>3
    <2>1. (i - Len(s)) \in 1..Len(t) /\ Len(s) + (i - Len(s)) = i
      BY <1>2
    <2> QED BY <1>1, <1>3, <2>1
  <1>5. DOMAIN u = 1..(Len(s) + Len(t))
    BY <1>2, <1>3
  <1>6. \A i \in 1..Len(s) : i \in DOMAIN u /\ u[i] = s[i]
    BY <1>1, <1>2, <1>3
  <1>7. \A i \in 1..Len(t) : Len(s) + i \in DOMAIN u /\ u[Len(s) + i] = t[i]
    BY <1>1, <1>2, <1>3
  <1>8. Elems(u) = Elems(s) \cup Elems(t)
    BY <1>2, <1>4, <1>5, <1>6, <1>7 DEF Elems
  <1>9. Once(u)
    <2> SUFFICES ASSUME NEW i \in 1..(Len(s) + Len(t)), NEW j \in 1..(Len(s) + Len(t)), u[i] = u[j] PROVE i = j
      BY <1>5 DEF Once
    <2>1. \A k \in 1..Len(s), m \in 1..Len(t) : s[k] # t[m]
      BY <1>2 DEF Elems
    <2>2. CASE i \in 1..Len(s) /\ j \in 1..Len(s)
      BY <1>2, <1>6, <2>2 DEF Once
    <2>3. CASE i \in 1..Len(s) /\ j \notin 1..Len(s)
      BY <1>4, <2>1, <2>3
    <2>4. CASE i \notin 1..Len(s) /\ j \in 1..Len(s)
      BY <1>4, <2>1, <2>4
    <2>5. CASE i \notin 1..Len(s) /\ j \notin 1..Len(s)
      <3>1. i - Len(s) = j - Len(s)
        BY <1>2, <1>4, <2>5 DEF Once
      <3> QED BY <1>2, <3>1
    <2> QED BY <2>2, <2>3, <2>4, <2>5
  <1> QED BY <1>3, <1>8, <1>9

-----------------------------------------------------------------------------
(* The cascade: its order, what it has calculated, and what it has written. *)

\* What a formula makes of the values that its node depends on ...
Formulated(D, p) ==
  LET sum[S \in SUBSET D] == IF S = {} THEN 1 ELSE LET x == CHOOSE x \in S : TRUE IN p[x] + sum[S \ {x}]
  IN  sum[D] % 4
Given(dep, v, k) == Formulated(dep[k], [d \in dep[k] |-> v[d]])

\* ... depends on nothing else.
LEMMA FormulaIs ==
  ASSUME NEW k, NEW v
  PROVE  Cascade!Formula(k, v) = Given(deps, v, k)
  BY Zenon DEF Cascade!Formula, Given, Formulated

\* A formula reads the nodes it depends on and nothing else.
LEMMA FormulaOf ==
  ASSUME NEW dep, NEW v, NEW w, NEW k, \A d \in dep[k] : v[d] = w[d]
  PROVE  Given(dep, v, k) = Given(dep, w, k)
  <1>1. [d \in dep[k] |-> v[d]] = [d \in dep[k] |-> w[d]]
    OBVIOUS
  <1> QED BY <1>1 DEF Given

Nodes0 == Cascade!Nodes
Keys0 == Cascade!Keys
Down == Cascade!Downstream
Before0 == Cascade!Start(given)

\* The registry and the change, and which values are written at all.
CascadeTypes ==
  /\ deps \in [Nodes0 -> SUBSET Keys0] /\ \A k \in Nodes0 : k \notin deps[k]
  /\ given \in Cascade!Given /\ pc \in {"sort", "calculate", "done"}
  /\ dcOrder \in Seq(Nodes0) /\ dcQueue \in Seq(Nodes0) /\ dcTodo \in Seq(Nodes0)

\* Kahn's order: a node after all nodes it depends on, and the queue has some
\* of those for which no such node is left.
Sorted ==
  /\ Once(dcOrder) /\ Once(dcQueue) /\ Elems(dcOrder) \cap Elems(dcQueue) = {}
  /\ Follows(dcOrder, Nodes0, deps)
  /\ \A k \in Elems(dcQueue) : deps[k] \cap Nodes0 \subseteq Elems(dcOrder)

\* What has been calculated: nothing before the order is there, all in the end.
Finished == IF pc = "sort" THEN {} ELSE Down \ Elems(dcTodo)
\* What is calculated does not depend on what is not, and fits the values that
\* there are now.
FitsFor(list, done, D, dep, g, v) ==
  /\ Once(list) /\ Elems(list) \subseteq D
  /\ \A i \in DOMAIN list : dep[list[i]] \cap D \subseteq done \cup {list[j] : j \in 1 .. (i - 1)}
  /\ \A k \in done : /\ dep[k] \cap D \subseteq done
                     /\ k \notin g.manual \cup g.fails => v[k] = Given(dep, v, k)
Fits == FitsFor(dcTodo, Finished, Down, deps, given, values)
\* Nothing else is written, nothing manual, and the updates say what was.
Kept ==
  /\ values = [k \in Keys0 |-> values[k]]
  /\ \A k \in Keys0 : k \notin Finished \/ k \in given.manual => values[k] = Before0[k]
  /\ updates = {k \in Keys0 : values[k] # Before0[k]}
Unbegun == updates = {} /\ dcTodo = <<>> /\ \A k \in Keys0 : values[k] = Before0[k]

CascadeInv ==
  /\ CascadeTypes /\ Sorted
  /\ pc = "sort" => Unbegun /\ values = [k \in Keys0 |-> values[k]]
  /\ pc # "sort" => \/ alerts = {"cycle"} /\ Unbegun
                    \/ Down = {} /\ Unbegun
                    \/ Fits /\ Kept
  /\ pc = "calculate" => Fits /\ Kept
  /\ pc = "done" => dcTodo = <<>>

\* The nodes of the registry are listed once each.
LEMMA Registry ==
  /\ Calculated \in Seq(Nodes0) /\ Once(Calculated) /\ Elems(Calculated) = Nodes0 /\ Nodes0 \subseteq Keys0
  /\ IsFiniteSet(Nodes0) /\ Cardinality(Nodes0) = Len(Calculated)
  <1>1. /\ Calculated \in Seq({Calculated[i] : i \in DOMAIN Calculated})
        /\ \A i, j \in DOMAIN Calculated : Calculated[i] = Calculated[j] => i = j
    BY FlowsheetConstants DEF Cascade!CascadeConstants
  <1>2. Calculated \in Seq(Nodes0) /\ Once(Calculated) /\ Elems(Calculated) = Nodes0 /\ Nodes0 \subseteq Keys0
    BY <1>1 DEF Nodes0, Cascade!Nodes, Elems, Once, Keys0, Cascade!Keys
  <1>3. PICK s \in Seq(Nodes0) : s = Calculated
    BY <1>2
  <1> QED BY <1>2, <1>3, OnceLen

\* What is downstream are nodes; a node is if it depends on a changed key or on
\* a node that is.
LEMMA DownFacts ==
  /\ Down \subseteq Nodes0
  /\ \A k \in Nodes0 : deps[k] \cap (given.changed \cup Down) # {} => k \in Down
  <1> DEFINE closed == {S \in SUBSET Nodes0 : \A k \in Nodes0 : deps[k] \cap (given.changed \cup S) # {} => k \in S}
  <1>1. Down = {k \in Nodes0 : \A S \in closed : k \in S}
    BY DEF Down, Cascade!Downstream, Nodes0
  <1>2. ASSUME NEW k \in Nodes0, deps[k] \cap (given.changed \cup Down) # {} PROVE k \in Down
    <2>1. ASSUME NEW S \in closed PROVE k \in S
      <3>1. Down \subseteq S
        BY <1>1, <2>1
      <3>2. deps[k] \cap (given.changed \cup S) # {}
        BY <1>2, <3>1
      <3> QED BY <2>1, <3>2
    <2> QED BY <1>1, <1>2, <2>1
  <1> QED BY <1>1, <1>2

\* The same registry and the same change have the same downstream.
LEMMA DownSame ==
  ASSUME deps' = deps, given' = given
  PROVE  Down' = Down /\ Nodes0' = Nodes0 /\ Keys0' = Keys0 /\ Before0' = Before0
  BY DEF Down, Cascade!Downstream, Nodes0, Cascade!Nodes, Keys0, Cascade!Keys, Before0, Cascade!Start

\* It holds when the criteria have been entered.
LEMMA CascadeInit == AllInit /\ part = "cascade" => CascadeInv
  <1> SUFFICES ASSUME AllInit, part = "cascade" PROVE CascadeInv
    OBVIOUS
  <1>1. Cascade!Init
    BY DEF AllInit
  <1>2. dcQueue = Cascade!Those(Calculated, {k \in Nodes0 : deps[k] \cap Nodes0 = {}})
    BY <1>1 DEF Cascade!Init, Nodes0
  <1>3. /\ dcOrder = <<>> /\ dcTodo = <<>> /\ values = Before0 /\ updates = {} /\ pc = "sort" /\ given \in Cascade!Given
        /\ deps \in [Nodes0 -> SUBSET Keys0] /\ \A k \in Nodes0 : k \notin deps[k]
    BY <1>1 DEF Cascade!Init, Before0, Nodes0, Keys0
  <1>4. dcQueue \in Seq(Nodes0) /\ Once(dcQueue) /\ Elems(dcQueue) = Nodes0 \cap {k \in Nodes0 : deps[k] \cap Nodes0 = {}}
    <2>1. PICK s \in Seq(Nodes0) : s = Calculated
      BY Registry
    <2>2. PICK S : S = {k \in Nodes0 : deps[k] \cap Nodes0 = {}}
      OBVIOUS
    <2>3. Once(s) /\ Elems(s) = Nodes0
      BY <2>1, Registry
    <2>4. Cascade!Those(s, S) \in Seq(Nodes0) /\ Elems(Cascade!Those(s, S)) = Elems(s) \cap S /\ Once(Cascade!Those(s, S))
      BY <2>3, ThoseAre
    <2> QED BY <1>2, <2>1, <2>2, <2>3, <2>4
  <1>5. PICK e : e = <<>>
    OBVIOUS
  <1>6. e \in Seq(Nodes0) /\ DOMAIN e = {}
    BY <1>5
  <1>7. CascadeTypes
    BY <1>3, <1>4, <1>5, <1>6 DEF CascadeTypes
  <1>8. Elems(dcOrder) = {} /\ Once(dcOrder) /\ Follows(dcOrder, Nodes0, deps)
    BY <1>3, <1>5, <1>6 DEF Elems, Once, Follows
  <1>9. Sorted
    BY <1>4, <1>8 DEF Sorted
  <1>10. Unbegun /\ values = [k \in Keys0 |-> values[k]]
    BY <1>3 DEF Unbegun, Before0, Cascade!Start, Keys0
  <1> QED BY <1>3, <1>7, <1>9, <1>10 DEF CascadeInv

\* The next node of the order: what it frees is in neither list yet.
LEMMA CascadePop ==
  ASSUME CascadeInv, Cascade!Pop
  PROVE  CascadeInv'
  <1>1. /\ pc = "sort" /\ dcQueue # <<>> /\ dcOrder' = Append(dcOrder, Head(dcQueue))
        /\ dcQueue' = Tail(dcQueue) \o Cascade!Freed(Head(dcQueue))
        /\ deps' = deps /\ given' = given /\ dcTodo' = dcTodo /\ values' = values /\ updates' = updates
        /\ alerts' = alerts /\ pc' = pc
    BY DEF Cascade!Pop, Cascade!registry
  <1>2. CascadeTypes /\ Sorted /\ Unbegun /\ values = [k \in Keys0 |-> values[k]]
    BY <1>1 DEF CascadeInv
  <1>3. Down' = Down /\ Nodes0' = Nodes0 /\ Keys0' = Keys0 /\ Before0' = Before0
    BY <1>1, DownSame
  <1>4. PICK q \in Seq(Nodes0), o \in Seq(Nodes0) : q = dcQueue /\ o = dcOrder
    BY <1>2 DEF CascadeTypes
  <1>5. Once(q) /\ Once(o) /\ Elems(o) \cap Elems(q) = {} /\ q # <<>>
    BY <1>1, <1>2, <1>4 DEF Sorted
  <1>6. /\ Head(q) \in Nodes0 /\ Head(q) \in Elems(q) /\ Tail(q) \in Seq(Nodes0) /\ Once(Tail(q))
        /\ Elems(Tail(q)) = Elems(q) \ {Head(q)}
    BY <1>5, TailFacts
  <1>7. PICK n \in Nodes0, t \in Seq(Nodes0) : n = Head(q) /\ t = Tail(q)
    BY <1>6
  <1>8. PICK S : S = {k \in Nodes0 : n \in deps[k] /\ deps[k] \cap Nodes0 \subseteq Elems(o) \cup {n}}
    OBVIOUS
  <1>9. PICK f \in Seq(Nodes0) : f = Cascade!Those(Calculated, S) /\ Elems(f) = S /\ Once(f)
    <2>1. PICK s \in Seq(Nodes0) : s = Calculated /\ Once(s) /\ Elems(s) = Nodes0
      BY Registry
    <2>2. Cascade!Those(s, S) \in Seq(Nodes0) /\ Elems(Cascade!Those(s, S)) = Elems(s) \cap S /\ Once(Cascade!Those(s, S))
      BY <2>1, ThoseAre
    <2> QED BY <1>8, <2>1, <2>2
  <1>10. Cascade!Freed(Head(dcQueue)) = f
    BY <1>4, <1>7, <1>8, <1>9 DEF Cascade!Freed, Cascade!Popped, Elems, Nodes0
  <1>11. /\ \A k \in Elems(q) : deps[k] \cap Nodes0 \subseteq Elems(o)
         /\ \A k \in Elems(o) : deps[k] \cap Nodes0 \subseteq Elems(o)
    <2>1. \A i \in DOMAIN o : deps[o[i]] \cap Nodes0 \subseteq {o[j] : j \in 1 .. (i - 1)}
      BY <1>2, <1>4 DEF Sorted, Follows
    <2>2. \A i \in DOMAIN o : \A j \in 1 .. (i - 1) : j \in DOMAIN o
      OBVIOUS
    <2> QED BY <1>2, <1>4, <2>1, <2>2 DEF Sorted, Elems
  <1>12. n \in Elems(q) /\ n \notin Elems(o) /\ \A k \in Nodes0 : k \notin deps[k]
    BY <1>2, <1>5, <1>6, <1>7 DEF CascadeTypes
  <1>13. Elems(f) \cap Elems(q) = {} /\ Elems(f) \cap Elems(o) = {} /\ n \notin Elems(f)
    BY <1>8, <1>9, <1>11, <1>12
  <1>14. t \o f \in Seq(Nodes0) /\ Once(t \o f) /\ Elems(t \o f) = Elems(t) \cup Elems(f)
    <2>1. Once(t) /\ Elems(t) \cap Elems(f) = {}
      BY <1>6, <1>7, <1>13
    <2> QED BY <1>9, <2>1, ConcatOnce
  <1>15. dcQueue' = t \o f /\ dcOrder' = Append(o, n)
    BY <1>1, <1>4, <1>7, <1>10
  <1>16. /\ Append(o, n) \in Seq(Nodes0) /\ Len(Append(o, n)) = Len(o) + 1
         /\ Append(o, n)[Len(o) + 1] = n
         /\ \A i \in DOMAIN o : Append(o, n)[i] = o[i] /\ i \in DOMAIN Append(o, n)
         /\ DOMAIN Append(o, n) = DOMAIN o \cup {Len(o) + 1}
         /\ Elems(Append(o, n)) = Elems(o) \cup {n}
    BY AppendFacts
  <1>17. Len(o) \in Nat /\ DOMAIN o = 1 .. Len(o)
    OBVIOUS
  <1>18. PICK u \in Seq(Nodes0) : u = Append(o, n)
    BY <1>16
  <1>19. Once(u)
    <2>1. \A i \in DOMAIN o : o[i] # n
      BY <1>12 DEF Elems
    <2> QED BY <1>5, <1>16, <1>17, <1>18, <2>1 DEF Once
  <1>20. Follows(u, Nodes0, deps)
    <2> SUFFICES ASSUME NEW i \in DOMAIN u PROVE deps[u[i]] \cap Nodes0 \subseteq {u[j] : j \in 1 .. (i - 1)}
      BY DEF Follows
    <2>1. CASE i \in DOMAIN o
      <3>1. {u[j] : j \in 1 .. (i - 1)} = {o[j] : j \in 1 .. (i - 1)}
        <4>1. \A j \in 1 .. (i - 1) : u[j] = o[j]
          BY <1>16, <1>17, <1>18, <2>1
        <4> QED BY <4>1
      <3>2. deps[o[i]] \cap Nodes0 \subseteq {o[j] : j \in 1 .. (i - 1)}
        BY <1>2, <1>4, <2>1 DEF Sorted, Follows
      <3> QED BY <1>16, <1>18, <2>1, <3>1, <3>2
    <2>2. CASE i = Len(o) + 1
      <3>1. {u[j] : j \in 1 .. (i - 1)} = Elems(o)
        <4>1. i - 1 = Len(o)
          BY <1>17, <2>2
        <4>2. \A j \in 1 .. Len(o) : u[j] = o[j]
          BY <1>16, <1>17, <1>18
        <4> QED BY <1>17, <4>1, <4>2 DEF Elems
      <3> QED BY <1>11, <1>12, <1>16, <1>18, <2>2, <3>1
    <2> QED BY <1>16, <1>18, <2>1, <2>2
  <1>21. \A k \in Elems(t \o f) : deps[k] \cap Nodes0 \subseteq Elems(u)
    BY <1>6, <1>7, <1>8, <1>9, <1>11, <1>14, <1>16, <1>18
  <1>22. Elems(u) \cap Elems(t \o f) = {}
    BY <1>5, <1>6, <1>7, <1>13, <1>14, <1>16, <1>18
  <1>23. PICK w \in Seq(Nodes0) : w = t \o f
    BY <1>14
  <1>24. dcQueue' = w /\ dcOrder' = u
    BY <1>15, <1>18, <1>23
  <1>25. Sorted'
    BY <1>1, <1>3, <1>14, <1>19, <1>20, <1>21, <1>22, <1>23, <1>24 DEF Sorted
  <1>26. CascadeTypes'
    BY <1>1, <1>2, <1>3, <1>24 DEF CascadeTypes
  <1>27. Unbegun' /\ values' = [k \in Keys0' |-> values'[k]]
    BY <1>1, <1>2, <1>3 DEF Unbegun
  <1>28. pc' = "sort"
    BY <1>1
  <1> QED BY <1>25, <1>26, <1>27, <1>28 DEF CascadeInv

\* The end without a calculation: a cycle, or nothing downstream.
LEMMA CascadeEnds ==
  ASSUME CascadeInv, Cascade!Cyclic \/ Cascade!Nothing
  PROVE  CascadeInv'
  <1>1. /\ pc = "sort" /\ pc' = "done" /\ (alerts' = {"cycle"} \/ Down = {})
        /\ dcOrder' = dcOrder /\ dcQueue' = dcQueue
        /\ deps' = deps /\ given' = given /\ dcTodo' = dcTodo /\ values' = values /\ updates' = updates
    BY DEF Cascade!Cyclic, Cascade!Nothing, Cascade!registry, Down
  <1>2. CascadeTypes /\ Sorted /\ Unbegun
    BY <1>1 DEF CascadeInv
  <1>3. Down' = Down /\ Nodes0' = Nodes0 /\ Keys0' = Keys0 /\ Before0' = Before0
    BY <1>1, DownSame
  <1>4. CascadeTypes' /\ Sorted' /\ Unbegun'
    BY <1>1, <1>2, <1>3 DEF CascadeTypes, Sorted, Unbegun
  <1>5. dcTodo' = <<>> /\ pc' # "sort" /\ pc' # "calculate"
    BY <1>1, <1>2 DEF Unbegun
  <1> QED BY <1>1, <1>3, <1>4, <1>5 DEF CascadeInv

\* The order is whole: what is downstream is to be calculated in it.
LEMMA CascadeOrdered ==
  ASSUME CascadeInv, Cascade!Ordered
  PROVE  CascadeInv'
  <1>1. /\ pc = "sort" /\ pc' = "calculate" /\ Len(dcOrder) = Len(Calculated)
        /\ dcTodo' = Cascade!Those(dcOrder, Down)
        /\ dcOrder' = dcOrder /\ dcQueue' = dcQueue
        /\ deps' = deps /\ given' = given /\ values' = values /\ updates' = updates
    BY DEF Cascade!Ordered, Cascade!registry, Down
  <1>2. CascadeTypes /\ Sorted /\ Unbegun /\ values = [k \in Keys0 |-> values[k]]
    BY <1>1 DEF CascadeInv
  <1>3. Down' = Down /\ Nodes0' = Nodes0 /\ Keys0' = Keys0 /\ Before0' = Before0
    BY <1>1, DownSame
  <1>4. PICK o \in Seq(Nodes0) : o = dcOrder
    BY <1>2 DEF CascadeTypes
  <1>5. Once(o) /\ Follows(o, Nodes0, deps) /\ Len(o) = Len(Calculated)
    BY <1>1, <1>2, <1>4 DEF Sorted
  <1>6. Elems(o) = Nodes0
    <2>1. Elems(o) \in SUBSET Nodes0 /\ Cardinality(Elems(o)) = Len(o)
      BY <1>5, OnceLen
    <2> QED BY <1>5, <2>1, Registry, FS_Subset
  <1>7. Down \subseteq Nodes0
    BY DownFacts
  <1>8. Follows(o, Down, deps)
    BY <1>5, <1>7 DEF Follows
  <1>9. PICK D : D = Down
    OBVIOUS
  <1>10. /\ Cascade!Those(o, D) \in Seq(Nodes0) /\ Elems(Cascade!Those(o, D)) = Elems(o) \cap D
         /\ Once(Cascade!Those(o, D)) /\ Follows(Cascade!Those(o, D), D, deps)
    <2>1. Follows(o, D, deps)
      BY <1>8, <1>9
    <2> QED BY <1>5, <2>1, ThoseAre
  <1>11. PICK t \in Seq(Nodes0) : t = dcTodo'
    BY <1>1, <1>4, <1>9, <1>10
  <1>12. Elems(t) = Down /\ Once(t) /\ Follows(t, Down, deps)
    BY <1>1, <1>4, <1>6, <1>7, <1>9, <1>10, <1>11
  <1>13. Finished' = {}
    BY <1>1, <1>3, <1>11, <1>12 DEF Finished
  <1>14. Fits'
    <2>1. Elems(dcTodo') = Down /\ Once(dcTodo')
      BY <1>11, <1>12
    <2>2. \A i \in DOMAIN dcTodo' : deps[dcTodo'[i]] \cap Down \subseteq {dcTodo'[j] : j \in 1 .. (i - 1)}
      BY <1>11, <1>12 DEF Follows
    <2> QED BY <1>1, <1>3, <1>13, <2>1, <2>2 DEF Fits, FitsFor
  <1>15. Kept'
    <2>1. \A k \in Keys0 : values[k] = Before0[k]
      BY <1>2 DEF Unbegun
    <2>2. updates = {}
      BY <1>2 DEF Unbegun
    <2>3. {k \in Keys0 : values[k] # Before0[k]} = {}
      BY <2>1
    <2> QED BY <1>1, <1>2, <1>3, <2>1, <2>2, <2>3 DEF Kept
  <1>16. CascadeTypes' /\ Sorted'
    BY <1>1, <1>2, <1>3, <1>11 DEF CascadeTypes, Sorted
  <1> QED BY <1>1, <1>14, <1>15, <1>16 DEF CascadeInv

\* A formula is evaluated: it fits what there is, and goes on fitting.
LEMMA CascadeCalculates ==
  ASSUME CascadeInv, Cascade!Recalculate
  PROVE  CascadeInv'
  <1> DEFINE k == Head(dcTodo)
             x == Cascade!Formula(k, values)
             writes == k \notin given.manual /\ k \notin given.fails /\ x # values[k]
  <1>1. /\ pc = "calculate" /\ pc' = pc /\ dcTodo # <<>> /\ dcTodo' = Tail(dcTodo)
        /\ values' = IF writes THEN [values EXCEPT ![k] = x] ELSE values
        /\ updates' = IF writes THEN updates \cup {k} ELSE updates
        /\ dcOrder' = dcOrder /\ dcQueue' = dcQueue /\ deps' = deps /\ given' = given
    BY DEF Cascade!Recalculate, Cascade!registry, Cascade!Skipped, Cascade!Meaningful
  <1>2. CascadeTypes /\ Sorted /\ Fits /\ Kept
    BY <1>1 DEF CascadeInv
  <1>3. Down' = Down /\ Nodes0' = Nodes0 /\ Keys0' = Keys0 /\ Before0' = Before0
    BY <1>1, DownSame
  <1>4. PICK s \in Seq(Nodes0) : s = dcTodo
    BY <1>2 DEF CascadeTypes
  <1>5. Once(s) /\ s # <<>> /\ Elems(s) \subseteq Down
    BY <1>1, <1>2, <1>4 DEF Fits, FitsFor
  <1>6. /\ Head(s) \in Nodes0 /\ Head(s) \in Elems(s) /\ Tail(s) \in Seq(Nodes0) /\ Once(Tail(s))
        /\ Elems(Tail(s)) = Elems(s) \ {Head(s)}
    BY <1>5, TailFacts
  <1>7. PICK n \in Nodes0, t \in Seq(Nodes0) : n = Head(s) /\ t = Tail(s)
    BY <1>6
  <1>8. PICK F : F = Finished
    OBVIOUS
  <1>9. F = Down \ Elems(s) /\ Finished' = F \cup {n} /\ n \notin F /\ n \in Down /\ F \subseteq Nodes0
    <2>1. Finished = Down \ Elems(s)
      BY <1>1, <1>4 DEF Finished
    <2>2. Finished' = Down \ (Elems(s) \ {n})
      BY <1>1, <1>3, <1>4, <1>6, <1>7 DEF Finished
    <2> QED BY <1>5, <1>6, <1>7, <1>8, <2>1, <2>2, DownFacts
  <1>10. /\ Len(s) \in Nat \ {0} /\ DOMAIN s = 1 .. Len(s) /\ DOMAIN t = 1 .. (Len(s) - 1) /\ n = s[1]
         /\ \A i \in DOMAIN t : t[i] = s[i + 1] /\ i + 1 \in DOMAIN s
    BY <1>5, <1>7
  <1>11. /\ \A i \in DOMAIN s : deps[s[i]] \cap Down \subseteq F \cup {s[j] : j \in 1 .. (i - 1)}
         /\ \A m \in F : deps[m] \cap Down \subseteq F /\ (m \notin given.manual \cup given.fails => values[m] = Given(deps, values, m))
    BY <1>2, <1>4, <1>8 DEF Fits, FitsFor
  <1>12. deps[n] \cap Down \subseteq F
    <2>1. 1 \in DOMAIN s /\ 1 .. (1 - 1) = {}
      BY <1>10
    <2>2. deps[s[1]] \cap Down \subseteq F \cup {s[j] : j \in 1 .. (1 - 1)}
      BY <1>11, <2>1
    <2>3. {s[j] : j \in 1 .. (1 - 1)} = {}
      BY <2>1
    <2> QED BY <1>10, <2>2, <2>3
  <1>13. ASSUME NEW i \in DOMAIN t
         PROVE  deps[t[i]] \cap Down \subseteq (F \cup {n}) \cup {t[j] : j \in 1 .. (i - 1)}
    <2>1. t[i] = s[i + 1] /\ i + 1 \in DOMAIN s /\ i \in Nat
      BY <1>10
    <2>2. deps[s[i + 1]] \cap Down \subseteq F \cup {s[j] : j \in 1 .. ((i + 1) - 1)}
      BY <1>11, <2>1
    <2>3. ASSUME NEW j \in 1 .. ((i + 1) - 1) PROVE s[j] \in {n} \cup {t[h] : h \in 1 .. (i - 1)}
      <3>1. CASE j = 1
        BY <1>10, <3>1
      <3>2. CASE j # 1
        <4>1. j - 1 \in 1 .. (i - 1) /\ j - 1 \in DOMAIN t /\ (j - 1) + 1 = j
          BY <1>10, <2>1, <3>2
        <4>2. t[j - 1] = s[j]
          BY <1>10, <4>1
        <4> QED BY <4>1, <4>2
      <3> QED BY <3>1, <3>2
    <2>4. \A z : z \in {s[j] : j \in 1 .. ((i + 1) - 1)} => z \in {n} \cup {t[h] : h \in 1 .. (i - 1)}
      BY <2>3
    <2>5. PICK R, Q : R = {s[j] : j \in 1 .. ((i + 1) - 1)} /\ Q = {t[h] : h \in 1 .. (i - 1)}
      OBVIOUS
    <2>6. deps[t[i]] \cap Down \subseteq F \cup R /\ R \subseteq {n} \cup Q
      BY <2>1, <2>2, <2>4, <2>5
    <2>7. deps[t[i]] \cap Down \subseteq (F \cup {n}) \cup Q
      BY <2>6
    <2> QED BY <2>5, <2>7
  <1>14. PICK y, v : y = Cascade!Formula(n, values) /\ v = values
    OBVIOUS
  <1>15. y = Given(deps, v, n)
    BY <1>14, FormulaIs
  <1>16. k = n /\ x = y
    BY <1>4, <1>7, <1>14
  <1>17. PICK w : w = values'
    OBVIOUS
  <1>18. /\ n \notin given.manual /\ n \notin given.fails /\ y # v[n] => w = [v EXCEPT ![n] = y] /\ updates' = updates \cup {n}
         /\ ~(n \notin given.manual /\ n \notin given.fails /\ y # v[n]) => w = v /\ updates' = updates
    BY <1>1, <1>14, <1>16, <1>17
  <1> HIDE DEF k, x, writes
  <1>19. v = [m \in Keys0 |-> v[m]] /\ n \in Keys0
    BY <1>2, <1>14, Registry DEF Kept
  <1>20. /\ \A m \in Keys0 : m # n => w[m] = v[m]
         /\ w = [m \in Keys0 |-> w[m]]
         /\ n \notin given.manual \cup given.fails => w[n] = y
         /\ n \in given.manual \cup given.fails => w[n] = v[n]
         /\ w[n] = v[n] => updates' = updates
         /\ w[n] # v[n] => updates' = updates \cup {n}
    <2>1. CASE n \notin given.manual /\ n \notin given.fails /\ y # v[n]
      <3>1. w = [v EXCEPT ![n] = y] /\ updates' = updates \cup {n}
        BY <1>18, <2>1
      <3>2. PICK u : u = [m \in Keys0 |-> IF m = n THEN y ELSE v[m]]
        OBVIOUS
      <3>3. w = u
        BY <1>19, <3>1, <3>2
      <3> QED BY <1>19, <2>1, <3>1, <3>2, <3>3
    <2>2. CASE ~(n \notin given.manual /\ n \notin given.fails /\ y # v[n])
      <3>1. w = v /\ updates' = updates
        BY <1>18, <2>2
      <3> QED BY <1>19, <2>2, <3>1
    <2> QED BY <2>1, <2>2
  <1>21. ASSUME NEW m \in F \cup {n}
         PROVE  /\ deps[m] \cap Down \subseteq F
                /\ m \notin given.manual \cup given.fails => w[m] = Given(deps, w, m)
    <2>1. deps[m] \cap Down \subseteq F /\ m \in Nodes0 /\ m \in Keys0
      BY <1>9, <1>11, <1>12, Registry
    <2>2. n \notin deps[m]
      BY <1>9, <2>1
    <2>3. deps[m] \subseteq Keys0
      BY <1>2, <2>1 DEF CascadeTypes
    <2>4. \A d \in deps[m] : v[d] = w[d]
      BY <1>20, <2>2, <2>3
    <2>5. Given(deps, v, m) = Given(deps, w, m)
      BY <2>4, FormulaOf
    <2>6. CASE m = n
      BY <1>15, <1>20, <2>1, <2>5, <2>6
    <2>7. CASE m # n
      BY <1>11, <1>14, <1>20, <2>1, <2>5, <2>7
    <2> QED BY <2>6, <2>7
  <1>22. dcTodo' = t /\ Elems(t) = Elems(s) \ {n} /\ Once(t)
    BY <1>1, <1>4, <1>6, <1>7
  <1>23. Fits'
    <2>1. Once(t) /\ Elems(t) \subseteq Down
      BY <1>5, <1>22
    <2>2. \A m \in F \cup {n} : deps[m] \cap Down \subseteq F \cup {n} /\ (m \notin given.manual \cup given.fails => w[m] = Given(deps, w, m))
      BY <1>21
    <2>3. PICK G : G = F \cup {n}
      OBVIOUS
    <2>4. \A i \in DOMAIN t : deps[t[i]] \cap Down \subseteq G \cup {t[j] : j \in 1 .. (i - 1)}
      BY <1>13, <2>3
    <2>5. \A m \in G : deps[m] \cap Down \subseteq G /\ (m \notin given.manual \cup given.fails => w[m] = Given(deps, w, m))
      BY <2>2, <2>3
    <2>6. Finished' = G /\ dcTodo' = t /\ values' = w /\ deps' = deps /\ given' = given /\ Down' = Down
      BY <1>1, <1>3, <1>9, <1>17, <1>22, <2>3
    <2>7. FitsFor(t, G, Down, deps, given, w)
      BY <2>1, <2>4, <2>5 DEF FitsFor
    <2> QED BY <2>6, <2>7 DEF Fits
  <1>24. Kept'
    <2>1. \A m \in Keys0 : m \notin F \/ m \in given.manual => v[m] = Before0[m]
      BY <1>2, <1>8, <1>14 DEF Kept
    <2>2. updates = {m \in Keys0 : v[m] # Before0[m]}
      BY <1>2, <1>14 DEF Kept
    <2>3. v[n] = Before0[n]
      BY <1>9, <1>19, <2>1
    <2>4. \A m \in Keys0 : m \notin F \cup {n} \/ m \in given.manual => w[m] = Before0[m]
      BY <1>20, <2>1, <2>3
    <2>5. updates' = {m \in Keys0 : w[m] # Before0[m]}
      <3>1. CASE w[n] = v[n]
        BY <1>20, <2>2, <3>1
      <3>2. CASE w[n] # v[n]
        <4>1. \A m : m \in updates \cup {n} <=> m \in Keys0 /\ w[m] # Before0[m]
          BY <1>19, <1>20, <2>2, <2>3, <3>2
        <4> QED BY <1>20, <3>2, <4>1
      <3> QED BY <3>1, <3>2
    <2> QED BY <1>1, <1>3, <1>9, <1>17, <1>20, <2>4, <2>5 DEF Kept
  <1>25. CascadeTypes' /\ Sorted'
    BY <1>1, <1>2, <1>3, <1>22 DEF CascadeTypes, Sorted
  <1> QED BY <1>1, <1>23, <1>24, <1>25 DEF CascadeInv

\* Nothing is left to calculate.
LEMMA CascadeDone ==
  ASSUME CascadeInv, Cascade!Done \/ UNCHANGED cascadeData
  PROVE  CascadeInv'
  <1>1. /\ \/ pc' = pc /\ alerts' = alerts
           \/ pc = "calculate" /\ dcTodo = <<>> /\ pc' = "done"
        /\ dcOrder' = dcOrder /\ dcQueue' = dcQueue
        /\ deps' = deps /\ given' = given /\ dcTodo' = dcTodo /\ values' = values /\ updates' = updates
    BY DEF Cascade!Done, Cascade!registry, cascadeData
  <1>2. Down' = Down /\ Nodes0' = Nodes0 /\ Keys0' = Keys0 /\ Before0' = Before0
    BY <1>1, DownSame
  <1>3. CascadeTypes' /\ Sorted' /\ (Unbegun => Unbegun') /\ (Kept /\ Fits => Kept' /\ Fits')
    BY <1>1, <1>2 DEF CascadeInv, CascadeTypes, Sorted, Unbegun, Kept, Fits, FitsFor, Finished
  <1> QED BY <1>1, <1>2, <1>3 DEF CascadeInv

\* So the invariant is kept, and says what is promised.
LEMMA CascadeStepKeeps ==
  ASSUME CascadeInv, [Cascade!Next]_cascadeData
  PROVE  CascadeInv'
  <1>1. \/ Cascade!Pop \/ Cascade!Cyclic \/ Cascade!Nothing \/ Cascade!Ordered \/ Cascade!Recalculate \/ Cascade!Done
        \/ UNCHANGED cascadeData
    BY DEF Cascade!Next
  <1> QED BY <1>1, CascadePop, CascadeEnds, CascadeOrdered, CascadeCalculates, CascadeDone

\* So what the runs check of a cascade follows from it.
LEMMA CascadeGives ==
  ASSUME CascadeInv
  PROVE  Cascade!TypeOK /\ Cascade!Settled /\ Cascade!OverrideKept /\ Cascade!UpdatesTold
  <1>1. CascadeTypes /\ Sorted
    BY DEF CascadeInv
  <1>2. \/ Unbegun /\ (pc # "done" \/ alerts = {"cycle"} \/ Down = {})
        \/ Fits /\ Kept /\ (pc = "done" => dcTodo = <<>>) /\ pc # "sort"
    BY <1>1 DEF CascadeInv, CascadeTypes
  <1>3. PICK none : none = {}
    OBVIOUS
  <1>4. /\ updates \subseteq Down /\ updates = {k \in Keys0 : values[k] # Before0[k]}
        /\ \A k \in Keys0 : k \in given.manual => values[k] = Before0[k]
        /\ Elems(dcTodo) \subseteq Down
    <2>1. CASE Unbegun
      <3>1. updates = {} /\ dcTodo = <<>> /\ \A k \in Keys0 : values[k] = Before0[k]
        BY <2>1 DEF Unbegun
      <3>2. {k \in Keys0 : values[k] # Before0[k]} = {}
        BY <3>1
      <3>3. Elems(dcTodo) = {}
        BY <3>1 DEF Elems
      <3> QED BY <3>1, <3>2, <3>3
    <2>2. CASE Fits /\ Kept
      <3>1. Finished \subseteq Down
        BY DEF Finished
      <3> QED BY <2>2, <3>1 DEF Fits, FitsFor, Kept
    <2> QED BY <1>2, <2>1, <2>2
  <1>5. Cascade!UpdatesTold
    BY <1>4 DEF Cascade!UpdatesTold, Keys0, Before0
  <1>6. Cascade!OverrideKept
    <2>1. given.manual \subseteq Keys0
      BY <1>1, Registry DEF CascadeTypes, Cascade!Given, Cascade!AtMost, Nodes0
    <2> QED BY <1>4, <2>1 DEF Cascade!OverrideKept, Before0
  <1>7. Cascade!TypeOK
    <2>1. PICK q \in Seq(Nodes0), o \in Seq(Nodes0) : q = dcQueue /\ o = dcOrder
      BY <1>1 DEF CascadeTypes
    <2>2. Once(q) /\ Once(o) /\ Elems(o) \cap Elems(q) = {}
      BY <1>1, <2>1 DEF Sorted
    <2>3. /\ IsFiniteSet(Elems(q)) /\ Cardinality(Elems(q)) = Len(q) /\ Elems(q) \subseteq Nodes0
          /\ IsFiniteSet(Elems(o)) /\ Cardinality(Elems(o)) = Len(o) /\ Elems(o) \subseteq Nodes0
      BY <2>2, OnceLen
    <2>4. PICK Q, O : Q = Elems(q) /\ O = Elems(o)
      OBVIOUS
    <2>5. Cardinality(O \cup Q) = Cardinality(O) + Cardinality(Q) - Cardinality(O \cap Q)
      BY <2>3, <2>4, FS_Union
    <2>6. Cardinality(O \cap Q) = 0
      BY <2>2, <2>4, FS_EmptySet
    <2>7. Cardinality(O \cup Q) <= Cardinality(Nodes0)
      <3>1. O \cup Q \in SUBSET Nodes0
        BY <2>3, <2>4
      <3> QED BY <3>1, Registry, FS_Subset
    <2>8. Len(o) + Len(q) <= Len(Calculated)
      <3>1. Len(o) \in Nat /\ Len(q) \in Nat /\ Len(Calculated) \in Nat
        BY Registry, LenProperties
      <3> QED BY <2>3, <2>4, <2>5, <2>6, <2>7, <3>1, Registry
    <2>9. Cascade!Popped = Elems(o)
      BY <2>1 DEF Cascade!Popped, Elems
    <2>10. \A i \in DOMAIN dcTodo : dcTodo[i] \in Down
      BY <1>4 DEF Elems
    <2>11. Len(dcOrder) + Len(dcQueue) <= Len(Calculated) /\ Len(dcOrder) = Cardinality(Cascade!Popped)
      BY <2>1, <2>3, <2>8, <2>9
    <2>12. pc \in {"sort", "calculate", "done"}
      BY <1>1 DEF CascadeTypes
    <2>13. updates \subseteq Cascade!Downstream /\ \A i \in DOMAIN dcTodo : dcTodo[i] \in Cascade!Downstream
      BY <1>4, <2>10 DEF Down
    <2>14. Len(dcOrder) = Cascade!Cardinality(Cascade!Popped)
      BY <2>11, Zenon DEF Cascade!Cardinality, Cardinality
    <2> QED BY <2>11, <2>12, <2>13, <2>14 DEF Cascade!TypeOK
  <1>8. Cascade!Settled
    <2> SUFFICES ASSUME pc = "done", alerts # {"cycle"}, NEW k \in Nodes0,
                        deps[k] \cap (given.changed \cup updates) # {}, k \notin given.manual \cup given.fails
                 PROVE  values[k] = Cascade!Formula(k, values)
      BY DEF Cascade!Settled, Nodes0
    <2>1. k \in Down
      <3>1. deps[k] \cap (given.changed \cup Down) # {}
        BY <1>4
      <3> QED BY <3>1, DownFacts
    <2>2. Fits /\ dcTodo = <<>>
      BY <1>2, <2>1
    <2>3. Finished = Down
      <3>1. Elems(dcTodo) = {}
        BY <2>2 DEF Elems
      <3> QED BY <3>1 DEF Finished
    <2>4. values[k] = Given(deps, values, k)
      BY <2>1, <2>2, <2>3 DEF Fits, FitsFor
    <2> QED BY <2>4, FormulaIs
  <1> QED BY <1>5, <1>6, <1>7, <1>8

\* A cascade ends with every calculated criterion that it may write equal to
\* its formula for the values there are then; it overwrites nothing manual and
\* tells exactly what it changed (CascadeSettles of MCFlowsheets:
\* engines/dc_cascade.py), for every registry and every change.
THEOREM AllCascadeSettles == AllSpec => []CascadeSettles
  <1> DEFINE Held == part = "cascade" => CascadeInv
  <1>1. AllInit => Held
    BY CascadeInit
  <1>2. Held /\ [AllNext]_allVars => Held'
    <2> SUFFICES ASSUME Held, [AllNext]_allVars, part' = "cascade" PROVE CascadeInv'
      OBVIOUS
    <2>1. part = "cascade"
      BY PartStep
    <2>2. [Cascade!Next]_cascadeData
      BY <2>1, PartStep
    <2> QED BY <2>1, <2>2, CascadeStepKeeps
  <1>3. Held => CascadeSettles
    BY CascadeGives DEF CascadeSettles
  <1> HIDE DEF Held
  <1> QED BY <1>1, <1>2, <1>3, PTL DEF AllSpec

-----------------------------------------------------------------------------
(* The drawn flowsheet (FlowsheetTopology): what follows a block.           *)

Closed(C, L) == \A l \in L : l[1] \in C => l[2] \in C
After1(L, S) == S \cup {e[2] : e \in {l \in L : l[1] \in S}}
IsSpread(f, L, b, m) == f = [n \in 0..m |-> IF n = 0 THEN {b} ELSE After1(L, f[n - 1])]

\* What can be reached over so many links, link after link: there is such a
\* function ...
LEMMA SpreadExists ==
  ASSUME NEW L, NEW b
  PROVE  \A m \in Nat : \E f : IsSpread(f, L, b, m)
  <1>1. SUFFICES ASSUME NEW T, T = {m \in Nat : ~\E f : IsSpread(f, L, b, m)}, T # {} PROVE FALSE
    OBVIOUS
  <1>2. PICK m \in T : \A k \in T : m <= k
    BY <1>1, LeastNat
  <1>3. CASE m = 0
    <2>1. PICK f : f = [n \in 0..0 |-> {b}]
      OBVIOUS
    <2>2. \A n \in 0..0 : n = 0
      OBVIOUS
    <2>3. IsSpread(f, L, b, 0)
      BY <2>1, <2>2 DEF IsSpread
    <2> QED BY <1>1, <1>3, <2>3
  <1>4. CASE m # 0
    <2>1. m \in Nat /\ m - 1 \in Nat /\ ~(m <= m - 1)
      BY <1>1, <1>4
    <2>2. m - 1 \notin T
      BY <1>2, <2>1
    <2>3. PICK f : IsSpread(f, L, b, m - 1)
      BY <1>1, <2>1, <2>2
    <2>4. PICK x : x = After1(L, f[m - 1])
      OBVIOUS
    <2>5. PICK g : g = [n \in 0..m |-> IF n = m THEN x ELSE f[n]]
      OBVIOUS
    <2>6. \A n \in 0..m : n # m => n \in 0..(m - 1) /\ g[n] = f[n] /\ (n # 0 => n - 1 \in 0..m /\ n - 1 # m /\ g[n - 1] = f[n - 1])
      BY <2>1, <2>5
    <2>7. g[m] = x /\ g[m - 1] = f[m - 1]
      BY <2>1, <2>5
    <2>8. \A n \in 0..(m - 1) : f[n] = IF n = 0 THEN {b} ELSE After1(L, f[n - 1])
      BY <2>3 DEF IsSpread
    <2>9. ASSUME NEW n \in 0..m
          PROVE  g[n] = IF n = 0 THEN {b} ELSE After1(L, g[n - 1])
      <3>1. CASE n = m
        BY <1>4, <2>4, <2>7, <3>1
      <3>2. CASE n # m
        BY <2>6, <2>8, <3>2
      <3> QED BY <3>1, <3>2
    <2>10. g = [n \in 0..m |-> g[n]]
      BY <2>5
    <2>11. IsSpread(g, L, b, m)
      BY <2>9, <2>10 DEF IsSpread
    <2> QED BY <1>1, <2>11
  <1> QED BY <1>3, <1>4

\* ... it stays in every set that is closed under the links ...
LEMMA SpreadWithin ==
  ASSUME NEW L, NEW b, NEW m \in Nat, NEW f, IsSpread(f, L, b, m), NEW C, b \in C, Closed(C, L)
  PROVE  f[m] \subseteq C
  <1>1. \A n \in 0..m : f[n] = IF n = 0 THEN {b} ELSE After1(L, f[n - 1])
    BY DEF IsSpread
  <1>2. SUFFICES ASSUME NEW T, T = {n \in 0..m : ~(f[n] \subseteq C)}, T # {} PROVE FALSE
    <2>1. m \in 0..m
      OBVIOUS
    <2> QED BY <1>2, <2>1
  <1>3. T \subseteq Nat
    BY <1>2
  <1>4. PICK n \in T : \A k \in T : n <= k
    BY <1>2, <1>3, LeastNat
  <1>5. n # 0
    <2>1. f[0] = {b}
      BY <1>1
    <2> QED BY <1>2, <2>1
  <1>6. n - 1 \in 0..m /\ ~(n <= n - 1)
    BY <1>2, <1>5
  <1>7. f[n - 1] \subseteq C /\ f[n] = After1(L, f[n - 1])
    BY <1>1, <1>2, <1>4, <1>5, <1>6
  <1>8. f[n] \subseteq C
    BY <1>7 DEF After1, Closed
  <1> QED BY <1>2, <1>8

\* ... and is closed itself after as many links as there are blocks.
LEMMA SpreadCloses ==
  ASSUME NEW L, NEW B, IsFiniteSet(B), NEW b \in B, \A l \in L : l[2] \in B,
         NEW f, IsSpread(f, L, b, Cardinality(B))
  PROVE  Closed(f[Cardinality(B)], L) /\ b \in f[Cardinality(B)]
  <1> DEFINE Good(n) == f[n] \subseteq B /\ b \in f[n] /\ (Closed(f[n], L) \/ Cardinality(f[n]) >= n + 1)
  <1>0. PICK m \in Nat : m = Cardinality(B)
    BY FS_CardinalityType
  <1>1. \A n \in 0..m : f[n] = IF n = 0 THEN {b} ELSE After1(L, f[n - 1])
    BY <1>0 DEF IsSpread
  <1>2. Good(0)
    <2>1. f[0] = {b}
      BY <1>1
    <2>2. Cardinality({b}) = 1
      BY FS_Singleton
    <2> QED BY <2>1, <2>2
  <1>3. ASSUME NEW n \in 0..m, n # 0, Good(n - 1) PROVE Good(n)
    <2>1. n - 1 \in 0..m /\ n \in Nat /\ f[n] = After1(L, f[n - 1])
      BY <1>1, <1>3
    <2>2. PICK S, R : S = f[n - 1] /\ R = f[n]
      OBVIOUS
    <2>3. R = S \cup {e[2] : e \in {l \in L : l[1] \in S}} /\ S \subseteq B /\ b \in S
      BY <1>3, <2>1, <2>2 DEF After1
    <2>4. R \subseteq B /\ S \subseteq R
      BY <2>3
    <2>5. CASE Closed(S, L)
      <3>1. R = S
        BY <2>3, <2>5 DEF Closed
      <3> QED BY <2>2, <2>3, <2>5, <3>1
    <2>6. CASE ~Closed(S, L)
      <3>1. S # R
        BY <2>3, <2>6 DEF Closed
      <3>2. Cardinality(S) >= n
        BY <1>3, <2>1, <2>2, <2>6
      <3>3. IsFiniteSet(R)
        BY <2>4, FS_Subset
      <3>4. Cardinality(S) <= Cardinality(R) /\ (Cardinality(R) = Cardinality(S) => R = S) /\ IsFiniteSet(S)
        BY <2>4, <3>3, FS_Subset
      <3>5. Cardinality(S) \in Nat /\ Cardinality(R) \in Nat
        BY <3>3, <3>4, FS_CardinalityType
      <3>6. Cardinality(R) >= n + 1
        BY <2>1, <3>1, <3>2, <3>4, <3>5
      <3> QED BY <2>2, <2>3, <2>4, <3>6
    <2> QED BY <2>5, <2>6
  <1>4. \A n \in 0..m : Good(n)
    <2> HIDE DEF Good
    <2>1. SUFFICES ASSUME NEW T, T = {n \in 0..m : ~Good(n)}, T # {} PROVE FALSE
      OBVIOUS
    <2>2. T \subseteq Nat
      BY <1>0, <2>1
    <2>3. PICK n \in T : \A k \in T : n <= k
      BY <2>1, <2>2, LeastNat
    <2>4. n # 0
      BY <1>2, <2>1
    <2>5. n - 1 \in 0..m /\ ~(n <= n - 1)
      BY <1>0, <2>1, <2>4
    <2> QED BY <1>3, <2>1, <2>3, <2>4, <2>5
  <1>5. PICK S : S = f[m]
    OBVIOUS
  <1>6. S \subseteq B /\ b \in S /\ (Closed(S, L) \/ Cardinality(S) >= m + 1)
    <2>1. m \in 0..m
      OBVIOUS
    <2>2. Good(m)
      BY <1>4, <2>1
    <2> QED BY <1>5, <2>2
  <1>7. Cardinality(S) <= m /\ Cardinality(S) \in Nat
    BY <1>0, <1>6, FS_Subset, FS_CardinalityType
  <1> QED BY <1>0, <1>5, <1>6, <1>7

\* So what follows a block is the least set with it that is closed.
LEMMA FromIs ==
  ASSUME IsFiniteSet(blocks), NEW b \in blocks, \A l \in links : l[2] \in blocks
  PROVE  /\ b \in Topology!From(b) /\ Closed(Topology!From(b), links)
         /\ \A C : b \in C /\ Closed(C, links) => Topology!From(b) \subseteq C
  <1>1. PICK m \in Nat : m = Cardinality(blocks)
    BY FS_CardinalityType
  <1>2. PICK g : IsSpread(g, links, b, m)
    BY <1>1, SpreadExists
  <1>3. PICK f : f = CHOOSE h : IsSpread(h, links, b, m)
    OBVIOUS
  <1>4. IsSpread(f, links, b, m)
    BY <1>2, <1>3, Zenon
  <1>5. Topology!From(b) = f[m]
    <2>1. Topology!Cardinality(blocks) = m
      BY <1>1, Zenon DEF Topology!Cardinality, Cardinality
    <2> QED BY <1>3, <2>1 DEF IsSpread, After1, Topology!From
  <1>6. Closed(f[m], links) /\ b \in f[m]
    BY <1>1, <1>4, SpreadCloses
  <1>7. ASSUME NEW C, b \in C, Closed(C, links) PROVE f[m] \subseteq C
    BY <1>4, <1>7, SpreadWithin
  <1> QED BY <1>5, <1>6, <1>7

\* A set that is closed but for the links of a block, without the dore, shows
\* that the dore is not reached without the block.
LEMMA OnTheWayIs ==
  ASSUME IsFiniteSet(blocks), NEW b, NEW C, "ROM_bin" \in C, "dore" \notin C,
         \A l \in links : l[1] \in C => l[2] \in C \cup {b}, b \notin C
  PROVE  Topology!OnTheWay(b)
  <1>1. PICK m \in Nat : m = Cardinality(blocks)
    BY FS_CardinalityType
  <1>2. PICK K : K = {l \in links : b \notin {l[1], l[2]}}
    OBVIOUS
  <1>3. PICK g : IsSpread(g, K, "ROM_bin", m)
    BY <1>1, SpreadExists
  <1>4. PICK f : f = CHOOSE h : IsSpread(h, K, "ROM_bin", m)
    OBVIOUS
  <1>5. IsSpread(f, K, "ROM_bin", m)
    BY <1>3, <1>4, Zenon
  <1>6. Topology!OnTheWay(b) <=> "dore" \notin f[m]
    <2>1. Topology!Cardinality(blocks) = m
      BY <1>1, Zenon DEF Topology!Cardinality, Cardinality
    <2> QED BY <1>2, <1>4, <2>1 DEF IsSpread, After1, Topology!OnTheWay
  <1>7. Closed(C, K)
    BY <1>2 DEF Closed
  <1>8. f[m] \subseteq C
    BY <1>5, <1>7, SpreadWithin
  <1> QED BY <1>6, <1>8

\* Connections in a row.
LEMMA Chain2 == ASSUME NEW a, NEW b PROVE Topology!Chain(<<a, b>>) = {<<a, b>>}
  BY DEF Topology!Chain
\* The connections of three to eight blocks drawn one after the other.
LEMMA Chain3 == ASSUME NEW a, NEW b, NEW c PROVE Topology!Chain(<<a, b, c>>) = {<<a, b>>, <<b, c>>}
  BY DEF Topology!Chain
\* Of four.
LEMMA Chain4 ==
  ASSUME NEW a, NEW b, NEW c, NEW d PROVE Topology!Chain(<<a, b, c, d>>) = {<<a, b>>, <<b, c>>, <<c, d>>}
  BY DEF Topology!Chain
\* Of five.
LEMMA Chain5 ==
  ASSUME NEW a, NEW b, NEW c, NEW d, NEW e
  PROVE  Topology!Chain(<<a, b, c, d, e>>) = {<<a, b>>, <<b, c>>, <<c, d>>, <<d, e>>}
  BY DEF Topology!Chain
\* Of six.
LEMMA Chain6 ==
  ASSUME NEW a, NEW b, NEW c, NEW d, NEW e, NEW f
  PROVE  Topology!Chain(<<a, b, c, d, e, f>>) = {<<a, b>>, <<b, c>>, <<c, d>>, <<d, e>>, <<e, f>>}
  BY DEF Topology!Chain
\* Of seven.
LEMMA Chain7 ==
  ASSUME NEW a, NEW b, NEW c, NEW d, NEW e, NEW f, NEW g
  PROVE  Topology!Chain(<<a, b, c, d, e, f, g>>) = {<<a, b>>, <<b, c>>, <<c, d>>, <<d, e>>, <<e, f>>, <<f, g>>}
  BY DEF Topology!Chain
\* Of eight.
LEMMA Chain8 ==
  ASSUME NEW a, NEW b, NEW c, NEW d, NEW e, NEW f, NEW g, NEW h
  PROVE  Topology!Chain(<<a, b, c, d, e, f, g, h>>) = {<<a, b>>, <<b, c>>, <<c, d>>, <<d, e>>, <<e, f>>, <<f, g>>, <<g, h>>}
  BY DEF Topology!Chain

Feeders == {"flocculant", "lime", "NaCN", "laboratory"}
EndsOf(E) == {e[1] : e \in E} \cup {e[2] : e \in E}

\* Links are between blocks, and none into where reagents and samples enter;
\* every other block follows the bin; blocks without a link are open ends.
Leads(B, L, O) ==
  /\ \A l \in L : l[1] \in B /\ l[2] \in B /\ l[2] \notin Feeders
  /\ \A C : "ROM_bin" \in C /\ Closed(C, L) => B \ Feeders \subseteq C
  /\ \A b \in B : (\E l \in L : l[1] = b) \/ b \in O

\* What is drawn next follows one of the blocks.
Attached(E, s, B, O, Q) ==
  /\ \A l \in E : l[2] \notin Feeders
  /\ \A C : s \in C /\ Closed(C, E) => EndsOf(E) \ Feeders \subseteq C
  /\ \A b \in O : (\E l \in E : l[1] = b) \/ b \in Q
  /\ \A b \in EndsOf(E) : (\E l \in E : l[1] = b) \/ b \in Q \/ b \in B

\* So it leads on after it.
LEMMA LeadsOn ==
  ASSUME NEW B, NEW L, NEW O, NEW E, NEW s \in B \ Feeders, NEW Q, Leads(B, L, O), Attached(E, s, B, O, Q)
  PROVE  Leads(B \cup EndsOf(E), L \cup E, Q)
  <1>1. \A l \in L \cup E : l[1] \in B \cup EndsOf(E) /\ l[2] \in B \cup EndsOf(E) /\ l[2] \notin Feeders
    BY DEF Leads, Attached, EndsOf
  <1>2. ASSUME NEW C, "ROM_bin" \in C, Closed(C, L \cup E) PROVE (B \cup EndsOf(E)) \ Feeders \subseteq C
    <2>1. Closed(C, L) /\ Closed(C, E)
      BY <1>2 DEF Closed
    <2>2. B \ Feeders \subseteq C
      BY <1>2, <2>1 DEF Leads
    <2>3. EndsOf(E) \ Feeders \subseteq C
      BY <2>1, <2>2 DEF Attached
    <2> QED BY <2>2, <2>3
  <1>3. ASSUME NEW b \in B \cup EndsOf(E) PROVE (\E l \in L \cup E : l[1] = b) \/ b \in Q
    <2>1. CASE b \in B
      BY <2>1 DEF Leads, Attached
    <2>2. CASE b \notin B
      BY <1>3, <2>2 DEF Attached
    <2> QED BY <2>1, <2>2
  <1> QED BY <1>1, <1>2, <1>3 DEF Leads

\* What a union of connections joins, and what is closed under it.
LEMMA UnionEnds ==
  ASSUME NEW D, NEW E
  PROVE  /\ EndsOf(D \cup E) = EndsOf(D) \cup EndsOf(E)
         /\ \A C : Closed(C, D \cup E) <=> Closed(C, D) /\ Closed(C, E)
  BY DEF EndsOf, Closed

\* The blocks, section by section.
First == {"ROM_bin", "conveyor_1", "crusher_1", "screen_1", "stockpile", "conveyor_2", "crusher_2", "HPGR",
          "SAG_mill", "sump_1", "pump_1", "cyclones", "pebble_crusher", "ball_mill", "sump_2", "pump_2",
          "Knelson", "ICR", "gravity_pump", "EW_gravity", "conditioner", "rougher", "cleaner", "column", "scavenger"}
Early == First \cup {"concentrate_thickener"}
Oxidised == {"POX", "POX_neutralisation", "POX_thickener", "leach_thickener", "leach_pump", "aeration"}
Front == (Early \cup {"IsaMill"}) \cup Oxidised
Tanks == {"heap", "heap_pond", "carbon_screen", "vat_1", "vat_2", "leach_1", "leach_2", "CIP_1", "CIP_2", "CIL_1", "CIL_2"}
Late == {"strip_solution", "heater", "elution", "pregnant_tank", "EW_1", "EW_2", "furnace", "dore"}
Tails == {"CN_destruction", "CN_neutralisation", "tailings_thickener", "filter", "TSF", "process_water"}

\* Reception: from the bin to the second conveyor.
Receives == {<<"ROM_bin", "conveyor_1">>, <<"conveyor_1", "crusher_1">>, <<"crusher_1", "screen_1">>,
             <<"screen_1", "stockpile">>, <<"stockpile", "conveyor_2">>, <<"screen_1", "crusher_2">>, <<"crusher_2", "screen_1">>}
\* The reception leads from the bin to its second conveyor.
LEMMA ReceptionLeads ==
  /\ Leads(EndsOf(Receives), Receives, {"conveyor_2"})
  /\ EndsOf(Receives) \subseteq First /\ "ROM_bin" \in EndsOf(Receives) /\ "conveyor_2" \in EndsOf(Receives)
  <1>1. EndsOf(Receives) = {"ROM_bin", "conveyor_1", "crusher_1", "screen_1", "stockpile", "conveyor_2", "crusher_2"}
    BY DEF EndsOf, Receives
  <1>2. \A l \in Receives : l[1] \in EndsOf(Receives) /\ l[2] \in EndsOf(Receives) /\ l[2] \notin Feeders
    <2>1. \A l \in Receives : l[2] \notin Feeders
      BY DEF Receives, Feeders
    <2> QED BY <2>1 DEF EndsOf
  <1>3. ASSUME NEW C, "ROM_bin" \in C, Closed(C, Receives) PROVE EndsOf(Receives) \subseteq C
    BY <1>1, <1>3 DEF Closed, Receives
  <1>4. \A b \in EndsOf(Receives) : (\E l \in Receives : l[1] = b) \/ b \in {"conveyor_2"}
    BY <1>1 DEF Receives
  <1>5. EndsOf(Receives) \subseteq First /\ "ROM_bin" \in EndsOf(Receives) /\ "conveyor_2" \in EndsOf(Receives)
    BY <1>1 DEF First
  <1> QED BY <1>2, <1>3, <1>4, <1>5 DEF Leads

\* Grinding: with a SAG mill and its pebbles, with one alone, or without.
Balls(g) == {<<g, "ball_mill">>, <<"ball_mill", "sump_2">>, <<"sump_2", "pump_2">>, <<"pump_2", "cyclones">>}
Sags(g) == {<<g, "SAG_mill">>, <<"SAG_mill", "sump_1">>, <<"sump_1", "pump_1">>, <<"pump_1", "cyclones">>}
Pebbles == {<<"SAG_mill", "pebble_crusher">>, <<"pebble_crusher", "sump_1">>}
\* Every grinding circuit leads from where it is fed to the cyclones.
LEMMA GrindingLeads ==
  ASSUME NEW g \in First, NEW B, g \in B,
         NEW E \in {Balls(g), (Balls("cyclones") \cup Sags(g)) \cup {}, (Balls("cyclones") \cup Sags(g)) \cup Pebbles}
  PROVE  Attached(E, g, B, {g}, {"cyclones"}) /\ EndsOf(E) \subseteq First /\ "cyclones" \in EndsOf(E)
  <1>1. CASE E = Balls(g)
    <2>1. EndsOf(E) = {g, "ball_mill", "sump_2", "pump_2", "cyclones"}
      BY <1>1 DEF EndsOf, Balls
    <2>2. \A l \in E : l[2] \notin Feeders
      BY <1>1 DEF Balls, Feeders
    <2>3. ASSUME NEW C, g \in C, Closed(C, E) PROVE EndsOf(E) \subseteq C
      BY <1>1, <2>1, <2>3 DEF Closed, Balls
    <2>4. /\ \A b \in {g} : (\E l \in E : l[1] = b) \/ b \in {"cyclones"}
          /\ \A b \in EndsOf(E) : (\E l \in E : l[1] = b) \/ b \in {"cyclones"}
      BY <1>1, <2>1 DEF Balls
    <2>5. EndsOf(E) \subseteq First /\ "cyclones" \in EndsOf(E)
      BY <2>1 DEF First
    <2> QED BY <2>2, <2>3, <2>4, <2>5 DEF Attached
  <1>2. CASE E = (Balls("cyclones") \cup Sags(g)) \cup {}
    <2>1. EndsOf(E) = {g, "SAG_mill", "sump_1", "pump_1", "ball_mill", "sump_2", "pump_2", "cyclones"}
      BY <1>2 DEF EndsOf, Balls, Sags
    <2>2. \A l \in E : l[2] \notin Feeders
      BY <1>2 DEF Balls, Sags, Feeders
    <2>3. ASSUME NEW C, g \in C, Closed(C, E) PROVE EndsOf(E) \subseteq C
      BY <1>2, <2>1, <2>3 DEF Closed, Balls, Sags
    <2>4. /\ \A b \in {g} : (\E l \in E : l[1] = b) \/ b \in {"cyclones"}
          /\ \A b \in EndsOf(E) : (\E l \in E : l[1] = b) \/ b \in {"cyclones"}
      BY <1>2, <2>1 DEF Balls, Sags
    <2>5. EndsOf(E) \subseteq First /\ "cyclones" \in EndsOf(E)
      BY <2>1 DEF First
    <2> QED BY <2>2, <2>3, <2>4, <2>5 DEF Attached
  <1>3. CASE E = (Balls("cyclones") \cup Sags(g)) \cup Pebbles
    <2>1. EndsOf(E) = {g, "SAG_mill", "sump_1", "pump_1", "ball_mill", "sump_2", "pump_2", "cyclones", "pebble_crusher"}
      BY <1>3 DEF EndsOf, Balls, Sags, Pebbles
    <2>2. \A l \in E : l[2] \notin Feeders
      BY <1>3 DEF Balls, Sags, Pebbles, Feeders
    <2>3. ASSUME NEW C, g \in C, Closed(C, E) PROVE EndsOf(E) \subseteq C
      BY <1>3, <2>1, <2>3 DEF Closed, Balls, Sags, Pebbles
    <2>4. /\ \A b \in {g} : (\E l \in E : l[1] = b) \/ b \in {"cyclones"}
          /\ \A b \in EndsOf(E) : (\E l \in E : l[1] = b) \/ b \in {"cyclones"}
      BY <1>3, <2>1 DEF Balls, Sags, Pebbles
    <2>5. EndsOf(E) \subseteq First /\ "cyclones" \in EndsOf(E)
      BY <2>1 DEF First
    <2> QED BY <2>2, <2>3, <2>4, <2>5 DEF Attached
  <1> QED BY <1>1, <1>2, <1>3

\* Gravity, beside the cyclones.
Gravities == {<<"cyclones", "Knelson">>, <<"Knelson", "ICR">>, <<"ICR", "gravity_pump">>, <<"gravity_pump", "EW_gravity">>,
              <<"Knelson", "cyclones">>}
\* Gravity leads back to the cyclones or to its own electrowinning.
LEMMA GravityLeads ==
  ASSUME NEW B, "cyclones" \in B
  PROVE  /\ Attached(Gravities, "cyclones", B, {"cyclones"}, {"cyclones", "EW_gravity"})
         /\ EndsOf(Gravities) \subseteq First
  <1>1. EndsOf(Gravities) = {"cyclones", "Knelson", "ICR", "gravity_pump", "EW_gravity"}
    BY DEF EndsOf, Gravities
  <1>2. \A l \in Gravities : l[2] \notin Feeders
    BY DEF Gravities, Feeders
  <1>3. ASSUME NEW C, "cyclones" \in C, Closed(C, Gravities) PROVE EndsOf(Gravities) \subseteq C
    BY <1>1, <1>3 DEF Closed, Gravities
  <1>4. \A b \in EndsOf(Gravities) : (\E l \in Gravities : l[1] = b) \/ b \in {"cyclones", "EW_gravity"}
    BY <1>1 DEF Gravities
  <1>5. EndsOf(Gravities) \subseteq First
    BY <1>1 DEF First
  <1> QED BY <1>2, <1>3, <1>4, <1>5 DEF Attached

\* Flotation, from the cyclones to the thickener of the concentrate.
Floats == {<<"cyclones", "conditioner">>, <<"conditioner", "rougher">>, <<"rougher", "cleaner">>, <<"cleaner", "column">>,
           <<"column", "concentrate_thickener">>, <<"rougher", "scavenger">>, <<"scavenger", "cleaner">>,
           <<"scavenger", "cyclones">>}
\* Flotation leads from the cyclones to the concentrate.
LEMMA FlotationLeads ==
  ASSUME NEW B, "cyclones" \in B
  PROVE  /\ Attached(Floats, "cyclones", B, {"cyclones", "EW_gravity"}, {"concentrate_thickener", "EW_gravity"})
         /\ EndsOf(Floats) \subseteq Early /\ "concentrate_thickener" \in EndsOf(Floats)
  <1>1. EndsOf(Floats) = {"cyclones", "conditioner", "rougher", "cleaner", "column", "concentrate_thickener", "scavenger"}
    BY DEF EndsOf, Floats
  <1>2. \A l \in Floats : l[2] \notin Feeders
    BY DEF Floats, Feeders
  <1>3. ASSUME NEW C, "cyclones" \in C, Closed(C, Floats) PROVE EndsOf(Floats) \subseteq C
    BY <1>1, <1>3 DEF Closed, Floats
  <1>4. /\ \A b \in {"cyclones", "EW_gravity"} : (\E l \in Floats : l[1] = b) \/ b \in {"concentrate_thickener", "EW_gravity"}
        /\ \A b \in EndsOf(Floats) : (\E l \in Floats : l[1] = b) \/ b \in {"concentrate_thickener", "EW_gravity"}
    BY <1>1 DEF Floats
  <1>5. EndsOf(Floats) \subseteq Early /\ "concentrate_thickener" \in EndsOf(Floats)
    BY <1>1 DEF Early, First
  <1> QED BY <1>2, <1>3, <1>4, <1>5 DEF Attached

\* A single connection.
LEMMA OneLeads ==
  ASSUME NEW a, NEW b, b \notin Feeders, NEW B, a \in B, NEW O, NEW Q, O \subseteq Q \cup {a}, b \in Q
  PROVE  Attached({<<a, b>>}, a, B, O, Q) /\ EndsOf({<<a, b>>}) = {a, b}
  <1>1. EndsOf({<<a, b>>}) = {a, b}
    BY DEF EndsOf
  <1>2. \A l \in {<<a, b>>} : l[1] = a /\ l[2] = b
    OBVIOUS
  <1> QED BY <1>1, <1>2 DEF Attached, Closed

\* Before leaching: thickening and aeration, after pressure oxidation or without.
Thickens(p) == {<<p, "leach_thickener">>, <<"leach_thickener", "leach_pump">>, <<"leach_pump", "aeration">>}
Oxidises(p) == {<<p, "POX">>, <<"POX", "POX_neutralisation">>, <<"POX_neutralisation", "POX_thickener">>}
Reagents == {<<"flocculant", "leach_thickener">>, <<"lime", "leach_thickener">>, <<"NaCN", "aeration">>}
Preleaches(p) == {({} \cup Thickens(p)) \cup Reagents, (Oxidises(p) \cup Thickens("POX_thickener")) \cup Reagents}
\* What comes before leaching leads to the aeration.
LEMMA PreleachLeads ==
  ASSUME NEW p \in Early \cup {"IsaMill"}, NEW B, p \in B,
         NEW E \in Preleaches(p)
  PROVE  /\ Attached(E, p, B, {p, "EW_gravity"}, {"aeration", "EW_gravity"})
         /\ EndsOf(E) \subseteq (Oxidised \cup Feeders) \cup {p}
         /\ {"aeration", "leach_thickener", "flocculant", "lime", "NaCN"} \subseteq EndsOf(E)
         /\ \A l \in E : l[1] = p \/ l[1] \in Oxidised \cup Feeders
         /\ "POX" \in EndsOf(E) /\ p # "POX" => \A l \in E : l[1] = p => l[2] = "POX"
  <1>1. CASE E = ({} \cup Thickens(p)) \cup Reagents
    <2>1. EndsOf(E) = {p, "leach_thickener", "leach_pump", "aeration", "flocculant", "lime", "NaCN"}
      BY <1>1 DEF EndsOf, Thickens, Reagents
    <2>2. \A l \in E : l[2] \notin Feeders
      BY <1>1 DEF Thickens, Reagents, Feeders
    <2>3. ASSUME NEW C, p \in C, Closed(C, E) PROVE EndsOf(E) \ Feeders \subseteq C
      BY <1>1, <2>1, <2>3 DEF Closed, Thickens, Reagents, Feeders
    <2>4. /\ \A b \in {p, "EW_gravity"} : (\E l \in E : l[1] = b) \/ b \in {"aeration", "EW_gravity"}
          /\ \A b \in EndsOf(E) : (\E l \in E : l[1] = b) \/ b \in {"aeration", "EW_gravity"}
      BY <1>1, <2>1 DEF Thickens, Reagents
    <2>5. /\ EndsOf(E) \subseteq (Oxidised \cup Feeders) \cup {p}
          /\ {"aeration", "leach_thickener", "flocculant", "lime", "NaCN"} \subseteq EndsOf(E)
      BY <2>1 DEF Oxidised, Feeders
    <2>6. \A l \in E : l[1] = p \/ l[1] \in Oxidised \cup Feeders
      BY <1>1 DEF Thickens, Reagents, Oxidised, Feeders
    <2>7. "POX" \in EndsOf(E) /\ p # "POX" => \A l \in E : l[1] = p => l[2] = "POX"
      <3>1. p \notin {"flocculant", "lime", "NaCN", "POX_thickener", "POX_neutralisation", "leach_thickener", "leach_pump"}
        BY DEF Early, First
      <3> QED BY <1>1, <2>1, <3>1 DEF Thickens, Reagents
    <2> QED BY <2>2, <2>3, <2>4, <2>5, <2>6, <2>7 DEF Attached
  <1>2. CASE E = (Oxidises(p) \cup Thickens("POX_thickener")) \cup Reagents
    <2>1. EndsOf(E) = {p, "POX", "POX_neutralisation", "POX_thickener", "leach_thickener", "leach_pump", "aeration", "flocculant", "lime", "NaCN"}
      BY <1>2 DEF EndsOf, Oxidises, Thickens, Reagents
    <2>2. \A l \in E : l[2] \notin Feeders
      BY <1>2 DEF Oxidises, Thickens, Reagents, Feeders
    <2>3. ASSUME NEW C, p \in C, Closed(C, E) PROVE EndsOf(E) \ Feeders \subseteq C
      BY <1>2, <2>1, <2>3 DEF Closed, Oxidises, Thickens, Reagents, Feeders
    <2>4. /\ \A b \in {p, "EW_gravity"} : (\E l \in E : l[1] = b) \/ b \in {"aeration", "EW_gravity"}
          /\ \A b \in EndsOf(E) : (\E l \in E : l[1] = b) \/ b \in {"aeration", "EW_gravity"}
      BY <1>2, <2>1 DEF Oxidises, Thickens, Reagents
    <2>5. /\ EndsOf(E) \subseteq (Oxidised \cup Feeders) \cup {p}
          /\ {"aeration", "leach_thickener", "flocculant", "lime", "NaCN"} \subseteq EndsOf(E)
      BY <2>1 DEF Oxidised, Feeders
    <2>6. \A l \in E : l[1] = p \/ l[1] \in Oxidised \cup Feeders
      BY <1>2 DEF Oxidises, Thickens, Reagents, Oxidised, Feeders
    <2>7. "POX" \in EndsOf(E) /\ p # "POX" => \A l \in E : l[1] = p => l[2] = "POX"
      <3>1. p \notin {"flocculant", "lime", "NaCN", "POX_thickener", "POX_neutralisation", "leach_thickener", "leach_pump"}
        BY DEF Early, First
      <3> QED BY <1>2, <2>1, <3>1 DEF Oxidises, Thickens, Reagents
    <2> QED BY <2>2, <2>3, <2>4, <2>5, <2>6, <2>7 DEF Attached
  <1> QED BY <1>1, <1>2 DEF Preleaches

\* Leaching: on a heap, in vats, or in tanks with the carbon in the pulp or in
\* the leach.  Each goes to the carbon screen through a block of its own.
Heaps == {<<"aeration", "heap">>, <<"heap", "heap_pond">>, <<"heap_pond", "carbon_screen">>}
Vats == {<<"aeration", "vat_1">>, <<"vat_1", "vat_2">>, <<"vat_2", "carbon_screen">>}
Pulps == {<<"aeration", "leach_1">>, <<"leach_1", "leach_2">>, <<"leach_2", "CIP_1">>, <<"CIP_1", "CIP_2">>,
            <<"CIP_2", "carbon_screen">>, <<"carbon_screen", "CIP_1">>}
Carbons == {<<"aeration", "CIL_1">>, <<"CIL_1", "CIL_2">>, <<"CIL_2", "carbon_screen">>, <<"carbon_screen", "CIL_1">>}
\* Every way of leaching leads from the aeration to the carbon screen.
LEMMA LeachingLeads ==
  ASSUME NEW E \in {Heaps, Vats, Pulps, Carbons}, NEW B, "aeration" \in B
  PROVE  /\ Attached(E, "aeration", B, {"aeration", "EW_gravity"}, {"carbon_screen", "EW_gravity"})
         /\ EndsOf(E) \subseteq Tanks \cup {"aeration"} /\ "carbon_screen" \in EndsOf(E)
         /\ \A l \in E : l[1] = "aeration" \/ l[1] \in Tanks
         /\ "heap" \in EndsOf(E) => \A l \in E : l[1] = "aeration" => l[2] = "heap"
         /\ "vat_1" \in EndsOf(E) => \A l \in E : l[1] = "aeration" => l[2] = "vat_1"
         /\ "CIL_1" \in EndsOf(E) => \A l \in E : l[1] = "aeration" => l[2] = "CIL_1"
         /\ "CIP_1" \in EndsOf(E) => \A l \in E : l[1] \in {"aeration", "leach_1", "leach_2"} => l[2] \in {"leach_1", "leach_2", "CIP_1"}
  <1>1. CASE E = Heaps
    <2>1. EndsOf(E) = {"aeration", "heap", "heap_pond", "carbon_screen"}
      BY <1>1 DEF EndsOf, Heaps
    <2>2. \A l \in E : l[2] \notin Feeders
      BY <1>1 DEF Heaps, Feeders
    <2>3. ASSUME NEW C, "aeration" \in C, Closed(C, E) PROVE EndsOf(E) \subseteq C
      BY <1>1, <2>1, <2>3 DEF Closed, Heaps
    <2>4. /\ \A b \in {"aeration", "EW_gravity"} : (\E l \in E : l[1] = b) \/ b \in {"carbon_screen", "EW_gravity"}
          /\ \A b \in EndsOf(E) : (\E l \in E : l[1] = b) \/ b \in {"carbon_screen", "EW_gravity"}
      BY <1>1, <2>1 DEF Heaps
    <2>5. EndsOf(E) \subseteq Tanks \cup {"aeration"} /\ "carbon_screen" \in EndsOf(E)
      BY <2>1 DEF Tanks
    <2>6. \A l \in E : l[1] = "aeration" \/ l[1] \in Tanks
      BY <1>1 DEF Heaps, Tanks
    <2>7. /\ "heap" \in EndsOf(E) => \A l \in E : l[1] = "aeration" => l[2] = "heap"
          /\ "vat_1" \in EndsOf(E) => \A l \in E : l[1] = "aeration" => l[2] = "vat_1"
          /\ "CIL_1" \in EndsOf(E) => \A l \in E : l[1] = "aeration" => l[2] = "CIL_1"
          /\ "CIP_1" \in EndsOf(E) => \A l \in E : l[1] \in {"aeration", "leach_1", "leach_2"} => l[2] \in {"leach_1", "leach_2", "CIP_1"}
      BY <1>1, <2>1 DEF Heaps
    <2> QED BY <2>2, <2>3, <2>4, <2>5, <2>6, <2>7 DEF Attached
  <1>2. CASE E = Vats
    <2>1. EndsOf(E) = {"aeration", "vat_1", "vat_2", "carbon_screen"}
      BY <1>2 DEF EndsOf, Vats
    <2>2. \A l \in E : l[2] \notin Feeders
      BY <1>2 DEF Vats, Feeders
    <2>3. ASSUME NEW C, "aeration" \in C, Closed(C, E) PROVE EndsOf(E) \subseteq C
      BY <1>2, <2>1, <2>3 DEF Closed, Vats
    <2>4. /\ \A b \in {"aeration", "EW_gravity"} : (\E l \in E : l[1] = b) \/ b \in {"carbon_screen", "EW_gravity"}
          /\ \A b \in EndsOf(E) : (\E l \in E : l[1] = b) \/ b \in {"carbon_screen", "EW_gravity"}
      BY <1>2, <2>1 DEF Vats
    <2>5. EndsOf(E) \subseteq Tanks \cup {"aeration"} /\ "carbon_screen" \in EndsOf(E)
      BY <2>1 DEF Tanks
    <2>6. \A l \in E : l[1] = "aeration" \/ l[1] \in Tanks
      BY <1>2 DEF Vats, Tanks
    <2>7. /\ "heap" \in EndsOf(E) => \A l \in E : l[1] = "aeration" => l[2] = "heap"
          /\ "vat_1" \in EndsOf(E) => \A l \in E : l[1] = "aeration" => l[2] = "vat_1"
          /\ "CIL_1" \in EndsOf(E) => \A l \in E : l[1] = "aeration" => l[2] = "CIL_1"
          /\ "CIP_1" \in EndsOf(E) => \A l \in E : l[1] \in {"aeration", "leach_1", "leach_2"} => l[2] \in {"leach_1", "leach_2", "CIP_1"}
      BY <1>2, <2>1 DEF Vats
    <2> QED BY <2>2, <2>3, <2>4, <2>5, <2>6, <2>7 DEF Attached
  <1>3. CASE E = Pulps
    <2>1. EndsOf(E) = {"aeration", "leach_1", "leach_2", "CIP_1", "CIP_2", "carbon_screen"}
      BY <1>3 DEF EndsOf, Pulps
    <2>2. \A l \in E : l[2] \notin Feeders
      BY <1>3 DEF Pulps, Feeders
    <2>3. ASSUME NEW C, "aeration" \in C, Closed(C, E) PROVE EndsOf(E) \subseteq C
      BY <1>3, <2>1, <2>3 DEF Closed, Pulps
    <2>4. /\ \A b \in {"aeration", "EW_gravity"} : (\E l \in E : l[1] = b) \/ b \in {"carbon_screen", "EW_gravity"}
          /\ \A b \in EndsOf(E) : (\E l \in E : l[1] = b) \/ b \in {"carbon_screen", "EW_gravity"}
      BY <1>3, <2>1 DEF Pulps
    <2>5. EndsOf(E) \subseteq Tanks \cup {"aeration"} /\ "carbon_screen" \in EndsOf(E)
      BY <2>1 DEF Tanks
    <2>6. \A l \in E : l[1] = "aeration" \/ l[1] \in Tanks
      BY <1>3 DEF Pulps, Tanks
    <2>7. /\ "heap" \in EndsOf(E) => \A l \in E : l[1] = "aeration" => l[2] = "heap"
          /\ "vat_1" \in EndsOf(E) => \A l \in E : l[1] = "aeration" => l[2] = "vat_1"
          /\ "CIL_1" \in EndsOf(E) => \A l \in E : l[1] = "aeration" => l[2] = "CIL_1"
          /\ "CIP_1" \in EndsOf(E) => \A l \in E : l[1] \in {"aeration", "leach_1", "leach_2"} => l[2] \in {"leach_1", "leach_2", "CIP_1"}
      BY <1>3, <2>1 DEF Pulps
    <2> QED BY <2>2, <2>3, <2>4, <2>5, <2>6, <2>7 DEF Attached
  <1>4. CASE E = Carbons
    <2>1. EndsOf(E) = {"aeration", "CIL_1", "CIL_2", "carbon_screen"}
      BY <1>4 DEF EndsOf, Carbons
    <2>2. \A l \in E : l[2] \notin Feeders
      BY <1>4 DEF Carbons, Feeders
    <2>3. ASSUME NEW C, "aeration" \in C, Closed(C, E) PROVE EndsOf(E) \subseteq C
      BY <1>4, <2>1, <2>3 DEF Closed, Carbons
    <2>4. /\ \A b \in {"aeration", "EW_gravity"} : (\E l \in E : l[1] = b) \/ b \in {"carbon_screen", "EW_gravity"}
          /\ \A b \in EndsOf(E) : (\E l \in E : l[1] = b) \/ b \in {"carbon_screen", "EW_gravity"}
      BY <1>4, <2>1 DEF Carbons
    <2>5. EndsOf(E) \subseteq Tanks \cup {"aeration"} /\ "carbon_screen" \in EndsOf(E)
      BY <2>1 DEF Tanks
    <2>6. \A l \in E : l[1] = "aeration" \/ l[1] \in Tanks
      BY <1>4 DEF Carbons, Tanks
    <2>7. /\ "heap" \in EndsOf(E) => \A l \in E : l[1] = "aeration" => l[2] = "heap"
          /\ "vat_1" \in EndsOf(E) => \A l \in E : l[1] = "aeration" => l[2] = "vat_1"
          /\ "CIL_1" \in EndsOf(E) => \A l \in E : l[1] = "aeration" => l[2] = "CIL_1"
          /\ "CIP_1" \in EndsOf(E) => \A l \in E : l[1] \in {"aeration", "leach_1", "leach_2"} => l[2] \in {"leach_1", "leach_2", "CIP_1"}
      BY <1>4, <2>1 DEF Carbons
    <2> QED BY <2>2, <2>3, <2>4, <2>5, <2>6, <2>7 DEF Attached
  <1> QED BY <1>1, <1>2, <1>3, <1>4

\* Stripping, electrowinning and the furnace, after the carbon screen.
Strips == {<<"carbon_screen", "strip_solution">>, <<"strip_solution", "heater">>, <<"heater", "elution">>, <<"elution", "pregnant_tank">>,
           <<"pregnant_tank", "EW_1">>, <<"EW_1", "EW_2">>, <<"EW_2", "furnace">>, <<"furnace", "dore">>,
           <<"elution", "strip_solution">>}
\* The elution leads from the carbon screen to the dore.
LEMMA AdrLeads ==
  ASSUME NEW B
  PROVE  /\ Attached(Strips, "carbon_screen", B, {"carbon_screen", "EW_gravity"}, {"dore", "EW_gravity"})
         /\ EndsOf(Strips) \subseteq Late \cup {"carbon_screen"} /\ {"dore"} \subseteq EndsOf(Strips)
         /\ \A l \in Strips : l[1] \in Late \cup {"carbon_screen"}
  <1>1. EndsOf(Strips) = {"carbon_screen", "strip_solution", "heater", "elution", "pregnant_tank", "EW_1", "EW_2", "furnace", "dore"}
    BY DEF EndsOf, Strips
  <1>2. \A l \in Strips : l[2] \notin Feeders
    BY DEF Strips, Feeders
  <1>3. ASSUME NEW C, "carbon_screen" \in C, Closed(C, Strips) PROVE EndsOf(Strips) \ Feeders \subseteq C
    BY <1>1, <1>3 DEF Closed, Strips, Feeders
  <1>4. /\ \A b \in {"carbon_screen", "EW_gravity"} : (\E l \in Strips : l[1] = b) \/ b \in {"dore", "EW_gravity"}
        /\ \A b \in EndsOf(Strips) : (\E l \in Strips : l[1] = b) \/ b \in {"dore", "EW_gravity"} \/ b \in B
    BY <1>1 DEF Strips
  <1>5. EndsOf(Strips) \subseteq Late \cup {"carbon_screen"} /\ {"dore"} \subseteq EndsOf(Strips)
    BY <1>1 DEF Late
  <1>6. \A l \in Strips : l[1] \in Late \cup {"carbon_screen"}
    BY DEF Strips, Late
  <1> QED BY <1>2, <1>3, <1>4, <1>5, <1>6 DEF Attached

\* The tailings, after the carbon screen, and their water.
Detoxes == {<<"carbon_screen", "CN_destruction">>, <<"CN_destruction", "CN_neutralisation">>, <<"CN_neutralisation", "tailings_thickener">>,
            <<"tailings_thickener", "filter">>, <<"filter", "TSF">>, <<"tailings_thickener", "process_water">>,
            <<"process_water", "leach_thickener">>, <<"laboratory", "CN_destruction">>}
\* The tailings lead from the carbon screen to the storage facility.
LEMMA TailingsLead ==
  ASSUME NEW B, "leach_thickener" \in B
  PROVE  /\ Attached(Detoxes, "carbon_screen", B, {"dore", "EW_gravity"}, {"dore", "TSF", "EW_gravity"})
         /\ EndsOf(Detoxes) \subseteq (Tails \cup Feeders) \cup {"carbon_screen", "leach_thickener"} /\ {"TSF", "laboratory"} \subseteq EndsOf(Detoxes)
         /\ \A l \in Detoxes : l[1] \in (Tails \cup Feeders) \cup {"carbon_screen"}
  <1>1. EndsOf(Detoxes) = {"carbon_screen", "CN_destruction", "CN_neutralisation", "tailings_thickener", "filter", "TSF", "process_water", "leach_thickener", "laboratory"}
    BY DEF EndsOf, Detoxes
  <1>2. \A l \in Detoxes : l[2] \notin Feeders
    BY DEF Detoxes, Feeders
  <1>3. ASSUME NEW C, "carbon_screen" \in C, Closed(C, Detoxes) PROVE EndsOf(Detoxes) \ Feeders \subseteq C
    BY <1>1, <1>3 DEF Closed, Detoxes, Feeders
  <1>4. /\ \A b \in {"dore", "EW_gravity"} : (\E l \in Detoxes : l[1] = b) \/ b \in {"dore", "TSF", "EW_gravity"}
        /\ \A b \in EndsOf(Detoxes) : (\E l \in Detoxes : l[1] = b) \/ b \in {"dore", "TSF", "EW_gravity"} \/ b \in B
    BY <1>1 DEF Detoxes
  <1>5. EndsOf(Detoxes) \subseteq (Tails \cup Feeders) \cup {"carbon_screen", "leach_thickener"} /\ {"TSF", "laboratory"} \subseteq EndsOf(Detoxes)
    BY <1>1 DEF Tails, Feeders
  <1>6. \A l \in Detoxes : l[1] \in (Tails \cup Feeders) \cup {"carbon_screen"}
    BY DEF Detoxes, Tails, Feeders
  <1> QED BY <1>2, <1>3, <1>4, <1>5, <1>6 DEF Attached

\* The sections share no block.
LEMMA Apart ==
  /\ "concentrate_thickener" \notin First /\ "IsaMill" \notin Early
  /\ \A b \in Oxidised : b \notin Early \cup {"IsaMill"}
  /\ \A b \in Tanks : b \notin Front
  /\ \A b \in Feeders \cup (Late \cup Tails) : b \notin Front \cup Tanks
  /\ {"ROM_bin", "conveyor_2", "cyclones"} \subseteq First /\ {"leach_1", "leach_2", "carbon_screen", "heap", "vat_1", "CIL_1", "CIP_1"} \subseteq Tanks
  /\ {"POX", "aeration", "leach_thickener"} \subseteq Oxidised
  <1>1. "concentrate_thickener" \notin First /\ "IsaMill" \notin Early
    BY DEF Early, First
  <1>2. \A b \in Oxidised : b \notin Early \cup {"IsaMill"}
    BY DEF Early, First, Oxidised
  <1>3. \A b \in Tanks : b \notin Front
    BY DEF Front, Early, First, Oxidised, Tanks
  <1>4. \A b \in Feeders : b \notin Front \cup Tanks
    BY DEF Front, Early, First, Oxidised, Tanks, Feeders
  <1>5. \A b \in Late : b \notin Front \cup Tanks
    BY DEF Front, Early, First, Oxidised, Tanks, Late
  <1>6. \A b \in Tails : b \notin Front \cup Tanks
    BY DEF Front, Early, First, Oxidised, Tanks, Tails
  <1>7. {"ROM_bin", "conveyor_2", "cyclones"} \subseteq First /\ {"leach_1", "leach_2", "carbon_screen", "heap", "vat_1", "CIL_1", "CIP_1"} \subseteq Tanks
    BY DEF First, Tanks
  <1>8. {"POX", "aeration", "leach_thickener"} \subseteq Oxidised
    BY DEF Oxidised
  <1> QED BY <1>1, <1>2, <1>3, <1>4, <1>5, <1>6, <1>7, <1>8

\* Where b is drawn, every link out of C leads to b.
Cut(b, C, B, L) == b \in B => \A l \in L : l[1] \in C => l[2] \in C \cup {b}
\* The way of the ore leads through each unit that treats it.
Ways(B, L) ==
  /\ Cut("concentrate_thickener", First, B, L)
  /\ Cut("IsaMill", Early, B, L)
  /\ Cut("POX", Early \cup {"IsaMill"}, B, L)
  /\ Cut("heap", Front, B, L) /\ Cut("vat_1", Front, B, L) /\ Cut("CIL_1", Front, B, L)
  /\ Cut("CIP_1", Front \cup {"leach_1", "leach_2"}, B, L)
Inside(B, L) == \A l \in L : l[1] \in B /\ l[2] \in B

\* Before the leach there are no units but the first.
LEMMA WaysEarly ==
  ASSUME NEW B, NEW L, B \subseteq Early, "concentrate_thickener" \in B => Inside(B, L)
  PROVE  Ways(B, L)
  <1>1. /\ "IsaMill" \notin B /\ "POX" \notin B
        /\ "heap" \notin B /\ "vat_1" \notin B /\ "CIL_1" \notin B /\ "CIP_1" \notin B
    BY Apart DEF Front
  <1>2. Cut("concentrate_thickener", First, B, L)
    BY DEF Cut, Early, Inside
  <1> HIDE DEF Early, First, Front
  <1> QED BY <1>1, <1>2 DEF Ways, Cut

\* There is no way round the IsaMill.
LEMMA WaysIsa ==
  ASSUME NEW B, NEW L, B \subseteq Early, Inside(B, L), NEW p \in B, "concentrate_thickener" \in B => p = "concentrate_thickener"
  PROVE  Ways(B \cup {p, "IsaMill"}, L \cup {<<p, "IsaMill">>})
  <1> DEFINE D == B \cup {p, "IsaMill"}
             M == L \cup {<<p, "IsaMill">>}
  <1>1. /\ "POX" \notin D
        /\ "heap" \notin D /\ "vat_1" \notin D /\ "CIL_1" \notin D /\ "CIP_1" \notin D
    <2>1. \A b \in Tanks \cup {"POX"} : b \notin Early \cup {"IsaMill"}
      BY Apart DEF Front
    <2>2. D \subseteq Early \cup {"IsaMill"}
      OBVIOUS
    <2>3. {"POX", "heap", "vat_1", "CIL_1", "CIP_1"} \subseteq Tanks \cup {"POX"}
      BY Apart
    <2> HIDE DEF D
    <2> QED BY <2>1, <2>2, <2>3
  <1>2. \A l \in M : l \in L \/ (l[1] = p /\ l[2] = "IsaMill")
    OBVIOUS
  <1>3. Cut("concentrate_thickener", First, D, M)
    <2> SUFFICES ASSUME "concentrate_thickener" \in D, NEW l \in M, l[1] \in First PROVE l[2] \in First \cup {"concentrate_thickener"}
      BY DEF Cut
    <2>1. "concentrate_thickener" \in B
      OBVIOUS
    <2>2. l \in L
      BY <1>2, <2>1, Apart
    <2> QED BY <2>2 DEF Inside, Early
  <1>4. Cut("IsaMill", Early, D, M)
    <2>1. \A l \in M : l[2] \in Early \cup {"IsaMill"}
      BY <1>2 DEF Inside
    <2> QED BY <2>1 DEF Cut
  <1> HIDE DEF D, M, Early, First, Front
  <1>5. Ways(D, M)
    BY <1>1, <1>3, <1>4 DEF Ways, Cut
  <1> QED BY <1>5 DEF D, M

\* Nor round the pressure oxidation.
LEMMA WaysPre ==
  ASSUME NEW B, NEW L, B \subseteq Early \cup {"IsaMill"}, Inside(B, L), Ways(B, L),
         NEW p \in {"cyclones", "concentrate_thickener", "IsaMill"},
         "concentrate_thickener" \in B => p # "cyclones",
         "IsaMill" \in B => p = "IsaMill", p \in B,
         NEW E, EndsOf(E) \subseteq (Oxidised \cup Feeders) \cup {p},
         \A l \in E : l[1] = p \/ l[1] \in Oxidised \cup Feeders,
         "POX" \in EndsOf(E) => \A l \in E : l[1] = p => l[2] = "POX"
  PROVE  Ways(B \cup EndsOf(E), L \cup E)
  <1> DEFINE D == B \cup EndsOf(E)
             M == L \cup E
  <1>1. \A b \in Oxidised \cup Feeders : b \notin Early \cup {"IsaMill"}
    BY Apart DEF Front
  <1>2. \A b \in Tanks : b \notin (Early \cup {"IsaMill"}) /\ b \notin Oxidised /\ b \notin Feeders
    BY Apart DEF Front
  <1>3. p \in Early \cup {"IsaMill"} /\ (p \in First => p = "cyclones") /\ (p \in Early => p # "IsaMill")
    BY Apart DEF Early
  <1>4. D \subseteq (Early \cup {"IsaMill"}) \cup (Oxidised \cup Feeders)
    BY <1>3
  <1>5. "heap" \notin D /\ "vat_1" \notin D /\ "CIL_1" \notin D /\ "CIP_1" \notin D
    <2> HIDE DEF D
    <2>1. {"heap", "vat_1", "CIL_1", "CIP_1"} \subseteq Tanks
      BY Apart
    <2> QED BY <1>2, <1>4, <2>1
  <1>6. "concentrate_thickener" \in D => "concentrate_thickener" \in B
    <2>1. "concentrate_thickener" \in Early
      BY DEF Early
    <2> QED BY <1>1, <2>1
  <1>7. "IsaMill" \in D => "IsaMill" \in B
    BY <1>1
  <1>8. Cut("concentrate_thickener", First, D, M)
    <2> SUFFICES ASSUME "concentrate_thickener" \in D, NEW l \in M, l[1] \in First PROVE l[2] \in First \cup {"concentrate_thickener"}
      BY DEF Cut
    <2>1. l[1] \in Early
      BY DEF Early
    <2>2. l \notin E
      BY <1>1, <1>3, <1>6, <2>1
    <2> QED BY <1>6, <2>2 DEF Ways, Cut
  <1>9. Cut("IsaMill", Early, D, M)
    <2> SUFFICES ASSUME "IsaMill" \in D, NEW l \in M, l[1] \in Early PROVE l[2] \in Early \cup {"IsaMill"}
      BY DEF Cut
    <2>1. l \notin E
      BY <1>1, <1>3, <1>7
    <2> QED BY <1>7, <2>1 DEF Ways, Cut
  <1>10. Cut("POX", Early \cup {"IsaMill"}, D, M)
    <2> SUFFICES ASSUME "POX" \in D, NEW l \in M, l[1] \in Early \cup {"IsaMill"} PROVE l[2] \in (Early \cup {"IsaMill"}) \cup {"POX"}
      BY DEF Cut
    <2>1. "POX" \in EndsOf(E)
      BY <1>1, Apart
    <2>2. CASE l \in E
      BY <1>1, <2>1, <2>2
    <2>3. CASE l \in L
      BY <2>3 DEF Inside
    <2> QED BY <2>2, <2>3
  <1> HIDE DEF D, M
  <1>11. Ways(D, M)
    BY <1>5, <1>8, <1>9, <1>10 DEF Ways, Cut
  <1> QED BY <1>11 DEF D, M

\* Nor round the leaching that is drawn.
LEMMA WaysLeach ==
  ASSUME NEW B, NEW L, B \subseteq Front \cup Feeders, Inside(B, L), \A l \in L : l[2] \notin Feeders, Ways(B, L),
         NEW E, EndsOf(E) \subseteq Tanks \cup {"aeration"},
         \A l \in E : l[1] = "aeration" \/ l[1] \in Tanks,
         "heap" \in EndsOf(E) => \A l \in E : l[1] = "aeration" => l[2] = "heap",
         "vat_1" \in EndsOf(E) => \A l \in E : l[1] = "aeration" => l[2] = "vat_1",
         "CIL_1" \in EndsOf(E) => \A l \in E : l[1] = "aeration" => l[2] = "CIL_1",
         "CIP_1" \in EndsOf(E) => \A l \in E : l[1] \in {"aeration", "leach_1", "leach_2"} => l[2] \in {"leach_1", "leach_2", "CIP_1"}
  PROVE  Ways(B \cup EndsOf(E), L \cup E)
  <1> DEFINE D == B \cup EndsOf(E)
             M == L \cup E
  <1>1. \A b \in Tanks \cup {"aeration"} : b \notin Early \cup {"IsaMill"}
    BY Apart DEF Front
  <1>2. \A b \in Tanks : b \notin Front /\ b \notin Feeders
    BY Apart
  <1>3. \A l \in L : l[2] \in Front
    BY DEF Inside
  <1>4. "aeration" \in Oxidised /\ Oxidised \subseteq Front /\ "POX" # "aeration"
    BY Apart DEF Front
  <1>5. \A l \in E : l[1] \notin Early \cup {"IsaMill"}
    BY <1>1
  <1>6. \A l \in E : l[1] \in Front => l[1] = "aeration"
    BY <1>2
  <1>7. /\ "concentrate_thickener" \in D => "concentrate_thickener" \in B
        /\ "IsaMill" \in D => "IsaMill" \in B
        /\ "POX" \in D => "POX" \in B
    <2>1. "concentrate_thickener" \in Early /\ "POX" \in Front
      BY Apart DEF Early, Front
    <2>2. "concentrate_thickener" \notin EndsOf(E) /\ "IsaMill" \notin EndsOf(E) /\ "POX" \notin EndsOf(E)
      BY <1>1, <1>2, <1>4, <2>1
    <2> QED BY <2>2
  <1>8. /\ Cut("concentrate_thickener", First, D, M) /\ Cut("IsaMill", Early, D, M)
        /\ Cut("POX", Early \cup {"IsaMill"}, D, M)
    <2>1. \A l \in M : l[1] \in Early \cup {"IsaMill"} => l \in L
      BY <1>5
    <2>2. First \subseteq Early
      BY DEF Early
    <2>3. /\ Cut("concentrate_thickener", First, B, L) /\ Cut("IsaMill", Early, B, L)
          /\ Cut("POX", Early \cup {"IsaMill"}, B, L)
      BY DEF Ways
    <2> HIDE DEF D, M
    <2> QED BY <1>7, <2>1, <2>2, <2>3 DEF Cut
  <1>9. \A b \in {"heap", "vat_1", "CIL_1", "CIP_1"} : b \in D => b \in EndsOf(E)
    <2>1. {"heap", "vat_1", "CIL_1", "CIP_1"} \subseteq Tanks
      BY Apart
    <2> QED BY <1>2, <2>1
  <1>10. Cut("heap", Front, D, M) /\ Cut("vat_1", Front, D, M) /\ Cut("CIL_1", Front, D, M)
    BY <1>3, <1>6, <1>9 DEF Cut
  <1>11. Cut("CIP_1", Front \cup {"leach_1", "leach_2"}, D, M)
    BY <1>3, <1>6, <1>9 DEF Cut
  <1> HIDE DEF D, M
  <1>12. Ways(D, M)
    BY <1>8, <1>10, <1>11 DEF Ways
  <1> QED BY <1>12 DEF D, M

\* What is drawn after the carbon screen opens no way round a treatment.
LEMMA WaysLate ==
  ASSUME NEW B, NEW L, Ways(B, L),
         NEW E, EndsOf(E) \subseteq ((Late \cup Tails) \cup Feeders) \cup {"carbon_screen", "leach_thickener"},
         \A l \in E : l[1] \in ((Late \cup Tails) \cup Feeders) \cup {"carbon_screen"}
  PROVE  Ways(B \cup EndsOf(E), L \cup E)
  <1> DEFINE D == B \cup EndsOf(E)
             M == L \cup E
             C == Front \cup {"leach_1", "leach_2"}
  <1>1. \A l \in M : l[1] \in C => l \in L
    <2>1. "carbon_screen" \notin C
      BY Apart
    <2>2. \A b \in (Late \cup Tails) \cup Feeders : b \notin C
      BY Apart
    <2> HIDE DEF C
    <2> QED BY <2>1, <2>2
  <1>2. \A b \in {"concentrate_thickener", "IsaMill", "POX", "heap", "vat_1", "CIL_1", "CIP_1"} : b \in D => b \in B
    <2>1. \A b \in {"concentrate_thickener", "IsaMill", "POX", "heap", "vat_1", "CIL_1", "CIP_1"} :
             b \in Front \cup Tanks /\ b # "carbon_screen" /\ b # "leach_thickener"
      BY Apart DEF Early, Front
    <2>2. \A b \in (Late \cup Tails) \cup Feeders : b \notin Front \cup Tanks
      BY Apart
    <2> QED BY <2>1, <2>2
  <1>3. First \subseteq C /\ Early \subseteq C /\ Early \cup {"IsaMill"} \subseteq C /\ Front \subseteq C
    BY DEF Early, Front
  <1> HIDE DEF D, M, C
  <1>4. Ways(D, M)
    <2>1. /\ Cut("concentrate_thickener", First, B, L) => Cut("concentrate_thickener", First, D, M)
          /\ Cut("IsaMill", Early, B, L) => Cut("IsaMill", Early, D, M)
      BY <1>1, <1>2, <1>3 DEF Cut
    <2>2. Cut("POX", Early \cup {"IsaMill"}, B, L) => Cut("POX", Early \cup {"IsaMill"}, D, M)
      BY <1>1, <1>2, <1>3 DEF Cut
    <2>3. /\ Cut("heap", Front, B, L) => Cut("heap", Front, D, M)
          /\ Cut("vat_1", Front, B, L) => Cut("vat_1", Front, D, M)
          /\ Cut("CIL_1", Front, B, L) => Cut("CIL_1", Front, D, M)
      BY <1>1, <1>2, <1>3 DEF Cut
    <2>4. Cut("CIP_1", C, B, L) => Cut("CIP_1", C, D, M)
      BY <1>1, <1>2 DEF Cut
    <2> QED BY <2>1, <2>2, <2>3, <2>4 DEF Ways, C
  <1> QED BY <1>4 DEF D, M

-----------------------------------------------------------------------------
(* The sections one after the other: what is drawn when each begins.        *)

Sound(B, L, O) == Leads(B, L, O) /\ Ways(B, L) /\ "ROM_bin" \in B
At1 == section = 1 /\ blocks = {} /\ links = {} /\ ends = Topology!None
At2 == /\ section = 2 /\ Sound(blocks, links, {"conveyor_2"}) /\ "conveyor_2" \in blocks /\ blocks \subseteq First
       /\ ends = Topology!None
At3 == /\ section = 3 /\ ends.grind \in First /\ Sound(blocks, links, {ends.grind}) /\ ends.grind \in blocks
       /\ blocks \subseteq First
At4 == section = 4 /\ Sound(blocks, links, {"cyclones"}) /\ "cyclones" \in blocks /\ blocks \subseteq First
At5 == section = 5 /\ Sound(blocks, links, {"cyclones", "EW_gravity"}) /\ "cyclones" \in blocks /\ blocks \subseteq First
At6 == /\ section = 6 /\ Sound(blocks, links, {ends.leach, "EW_gravity"}) /\ ends.leach \in blocks /\ blocks \subseteq Early
       /\ ends.leach \in {"cyclones", "concentrate_thickener"}
       /\ "concentrate_thickener" \in blocks => ends.leach = "concentrate_thickener"
At7 == /\ section = 7 /\ Sound(blocks, links, {ends.leach, "EW_gravity"}) /\ ends.leach \in blocks
       /\ blocks \subseteq Early \cup {"IsaMill"}
       /\ ends.leach \in {"cyclones", "concentrate_thickener", "IsaMill"}
       /\ "concentrate_thickener" \in blocks => ends.leach # "cyclones"
       /\ "IsaMill" \in blocks => ends.leach = "IsaMill"
Reagent == {"flocculant", "lime", "NaCN"}
At8 == /\ section = 8 /\ Sound(blocks, links, {"aeration", "EW_gravity"}) /\ blocks \subseteq Front \cup Feeders
       /\ {"aeration", "leach_thickener"} \subseteq blocks /\ Reagent \subseteq blocks
At9 == /\ section = 9 /\ Sound(blocks, links, {"carbon_screen", "EW_gravity"}) /\ blocks \subseteq (Front \cup Feeders) \cup Tanks
       /\ {"carbon_screen", "leach_thickener"} \subseteq blocks /\ Reagent \subseteq blocks /\ ends.screen = "carbon_screen"
At10 == /\ section = 10 /\ Sound(blocks, links, {"dore", "EW_gravity"})
        /\ blocks \subseteq ((Front \cup Feeders) \cup Tanks) \cup Late
        /\ {"carbon_screen", "leach_thickener", "dore"} \subseteq blocks /\ Reagent \subseteq blocks
        /\ ends.screen = "carbon_screen"
At11 == /\ section = 11 /\ Sound(blocks, links, {"dore", "TSF", "EW_gravity"})
        /\ blocks \subseteq (((Front \cup Feeders) \cup Tanks) \cup Late) \cup Tails
        /\ {"dore", "TSF"} \subseteq blocks /\ Feeders \subseteq blocks
\* Where a section that is still to come begins.
EndsKept ==
  /\ ends = [grind |-> ends.grind, leach |-> ends.leach, screen |-> ends.screen]
  /\ section <= 5 => ends.leach = "cyclones"
TopologyInv ==
  EndsKept /\ (At1 \/ At2 \/ At3 \/ At4 \/ At5 \/ At6 \/ At7 \/ At8 \/ At9 \/ At10 \/ At11)

\* The links of what is sound are between its blocks.
LEMMA SoundInside ==
  ASSUME NEW B, NEW L, NEW O, Sound(B, L, O)
  PROVE  Inside(B, L) /\ \A l \in L : l[2] \notin Feeders
  BY DEF Sound, Leads, Inside

\* A section that draws E.
Draws(E) == /\ links' = links \cup E /\ blocks' = blocks \cup EndsOf(E) /\ section' = section + 1
\* A section of the drawing adds the connections and the blocks they join.
LEMMA DrawIs ==
  ASSUME NEW E, Topology!Draw(E)
  PROVE  Draws(E)
  BY DEF Topology!Draw, Draws, EndsOf, Topology!Ends

\* What begins with one section goes on where it attaches, and nothing else is
\* drawn where the section is left out.
LEMMA DrawSound ==
  ASSUME NEW E, Draws(E), NEW O, NEW Q, NEW s \in blocks \ Feeders, Sound(blocks, links, O), Attached(E, s, blocks, O, Q),
         Ways(blocks \cup EndsOf(E), links \cup E)
  PROVE  Sound(blocks', links', Q)
  <1>1. Leads(blocks, links, O) /\ "ROM_bin" \in blocks
    BY DEF Sound
  <1>2. PICK B, L : B = blocks /\ L = links
    OBVIOUS
  <1>3. s \in B \ Feeders /\ Leads(B, L, O) /\ Attached(E, s, B, O, Q)
    BY <1>1, <1>2
  <1>4. Leads(B \cup EndsOf(E), L \cup E, Q)
    BY <1>3, LeadsOn
  <1>5. blocks' = B \cup EndsOf(E) /\ links' = L \cup E
    BY <1>2 DEF Draws
  <1> QED BY <1>1, <1>2, <1>4, <1>5 DEF Sound

\* A section left out leaves the drawing as it is.
LEMMA DrawNothing ==
  ASSUME Draws({}), NEW O, NEW Q, Sound(blocks, links, O), O \subseteq Q
  PROVE  blocks' = blocks /\ links' = links /\ section' = section + 1 /\ Sound(blocks', links', Q)
  <1>1. blocks' = blocks /\ links' = links /\ section' = section + 1
    BY DEF Draws, EndsOf
  <1>2. Sound(blocks, links, Q)
    BY DEF Sound, Leads
  <1> QED BY <1>1, <1>2

\* None of the early blocks is where a reagent enters.
LEMMA NoFeeder ==
  \A b \in Front \cup Tanks : b \notin Feeders
  BY Apart

\* The reception is drawn as the invariant says.
LEMMA ReceptionDrawn ==
  ASSUME At1, EndsKept, Topology!Reception
  PROVE  TopologyInv'
  <1> DEFINE E == Topology!Chain(<<"ROM_bin", "conveyor_1", "crusher_1", "screen_1", "stockpile", "conveyor_2">>)
                   \cup {<<"screen_1", "crusher_2">>, <<"crusher_2", "screen_1">>}
  <1>1. Topology!Draw(E) /\ ends' = ends /\ section = 1
    BY DEF Topology!Reception, Topology!Plain
  <1>2. E = Receives
    BY Chain6 DEF Receives
  <1>3. links' = Receives /\ blocks' = EndsOf(Receives) /\ section' = 2
    BY <1>1, <1>2, DrawIs DEF Draws, At1
  <1>4. Ways(EndsOf(Receives), Receives)
    BY ReceptionLeads, WaysEarly, Apart DEF Early
  <1>5. At2'
    BY <1>1, <1>3, <1>4, ReceptionLeads DEF At1, At2, Sound, Topology!None
  <1>6. EndsKept'
    BY <1>1, <1>3 DEF EndsKept
  <1> QED BY <1>5, <1>6 DEF TopologyInv

\* So is the HPGR, if there is one.
LEMMA HpgrDrawn ==
  ASSUME At2, EndsKept, Topology!Hpgr
  PROVE  TopologyInv'
  <1>1. /\ section = 2
        /\ \/ Topology!Draw({}) /\ ends' = ends
           \/ Topology!Draw(Topology!Chain(<<"conveyor_2", "HPGR">>)) /\ ends' = [ends EXCEPT !.grind = "HPGR"]
    BY DEF Topology!Hpgr
  <1>2. ends = [grind |-> "conveyor_2", leach |-> "cyclones", screen |-> "none"] /\ "conveyor_2" \in First
    BY Apart DEF At2, Topology!None
  <1>3. CASE Topology!Draw({}) /\ ends' = ends
    <2>1. Draws({})
      BY <1>3, DrawIs
    <2>2. PICK O : O = {"conveyor_2"}
      OBVIOUS
    <2>3. blocks' = blocks /\ section' = 3 /\ Sound(blocks', links', O)
      BY <1>1, <2>1, <2>2, DrawNothing DEF At2
    <2>4. ends'.grind = "conveyor_2"
      BY <1>2, <1>3
    <2>5. At3'
      BY <1>2, <2>2, <2>3, <2>4 DEF At2, At3
    <2>6. EndsKept'
      BY <1>2, <1>3, <2>3 DEF EndsKept
    <2> QED BY <2>5, <2>6 DEF TopologyInv
  <1>4. CASE Topology!Draw(Topology!Chain(<<"conveyor_2", "HPGR">>)) /\ ends' = [ends EXCEPT !.grind = "HPGR"]
    <2>1. PICK E, O, Q : E = {<<"conveyor_2", "HPGR">>} /\ O = {"conveyor_2"} /\ Q = {"HPGR"}
      OBVIOUS
    <2>2. Draws(E)
      BY <1>4, <2>1, Chain2, DrawIs
    <2>3. "HPGR" \notin Feeders /\ "HPGR" \in First /\ "conveyor_2" \notin Feeders
      BY DEF Feeders, First
    <2>4. Attached(E, "conveyor_2", blocks, O, Q) /\ EndsOf(E) = {"conveyor_2", "HPGR"}
      BY <2>1, <2>3, OneLeads DEF At2
    <2>5. blocks \cup EndsOf(E) \subseteq First
      BY <1>2, <2>3, <2>4 DEF At2
    <2>6. Ways(blocks \cup EndsOf(E), links \cup E)
      BY <2>5, WaysEarly, Apart DEF Early
    <2>7. Sound(blocks', links', Q)
      <3>1. "conveyor_2" \in blocks \ Feeders /\ Sound(blocks, links, O)
        BY <2>1, <2>3 DEF At2
      <3> QED BY <2>2, <2>4, <2>6, <3>1, DrawSound
    <2>8. ends' = [grind |-> "HPGR", leach |-> "cyclones", screen |-> "none"]
      BY <1>2, <1>4
    <2>9. section' = 3 /\ blocks' = blocks \cup EndsOf(E)
      BY <1>1, <2>2 DEF Draws
    <2>10. At3'
      BY <2>1, <2>3, <2>4, <2>5, <2>7, <2>8, <2>9 DEF At3
    <2>11. EndsKept'
      BY <2>8, <2>9 DEF EndsKept
    <2> QED BY <2>10, <2>11 DEF TopologyInv
  <1> QED BY <1>1, <1>3, <1>4

\* So is the grinding circuit.
LEMMA GrindingDrawn ==
  ASSUME At3, EndsKept, Topology!Grinding
  PROVE  TopologyInv'
  <1>1. PICK g \in First : g = ends.grind
    BY DEF At3
  <1>2. /\ ends' = ends /\ section = 3
        /\ \E E \in {Balls(g), (Balls("cyclones") \cup Sags(g)) \cup {}, (Balls("cyclones") \cup Sags(g)) \cup Pebbles} :
             Topology!Draw(E)
    <2>1. /\ Topology!Chain(<<g, "ball_mill", "sump_2", "pump_2", "cyclones">>) = Balls(g)
          /\ Topology!Chain(<<"cyclones", "ball_mill", "sump_2", "pump_2", "cyclones">>) = Balls("cyclones")
          /\ Topology!Chain(<<g, "SAG_mill", "sump_1", "pump_1", "cyclones">>) = Sags(g)
          /\ Topology!Chain(<<"SAG_mill", "pebble_crusher", "sump_1">>) = Pebbles
      BY Chain3, Chain5 DEF Balls, Sags, Pebbles
    <2>2. PICK sag, det : sag = Topology!Flag("sag") /\ det = Topology!Detailed
      OBVIOUS
    <2>3. /\ ends' = ends /\ section = 3
          /\ Topology!Draw((Topology!Chain(<<IF sag THEN "cyclones" ELSE g, "ball_mill", "sump_2", "pump_2", "cyclones">>)
                    \cup (IF sag THEN Topology!Chain(<<g, "SAG_mill", "sump_1", "pump_1", "cyclones">>) ELSE {}))
                    \cup IF sag /\ det THEN Topology!Chain(<<"SAG_mill", "pebble_crusher", "sump_1">>) ELSE {})
      BY <1>1, <2>2 DEF Topology!Grinding
    <2>4. CASE ~sag
      <3>1. ((Balls(g) \cup {}) \cup {}) = Balls(g)
        OBVIOUS
      <3>2. Topology!Draw((Balls(g) \cup {}) \cup {})
        BY <2>1, <2>3, <2>4
      <3> QED BY <2>3, <3>1, <3>2
    <2>5. CASE sag /\ ~det
      <3>1. Topology!Draw((Balls("cyclones") \cup Sags(g)) \cup {})
        BY <2>1, <2>3, <2>5
      <3> QED BY <2>3, <3>1
    <2>6. CASE sag /\ det
      <3>1. Topology!Draw((Balls("cyclones") \cup Sags(g)) \cup Pebbles)
        BY <2>1, <2>3, <2>6
      <3> QED BY <2>3, <3>1
    <2> QED BY <2>4, <2>5, <2>6
  <1>3. PICK E \in {Balls(g), (Balls("cyclones") \cup Sags(g)) \cup {}, (Balls("cyclones") \cup Sags(g)) \cup Pebbles} : Topology!Draw(E)
    BY <1>2
  <1>4. Draws(E)
    BY <1>3, DrawIs
  <1>5. PICK O, Q : O = {g} /\ Q = {"cyclones"}
    OBVIOUS
  <1>6. Attached(E, g, blocks, O, Q) /\ EndsOf(E) \subseteq First /\ "cyclones" \in EndsOf(E)
    BY <1>1, <1>3, <1>5, GrindingLeads DEF At3
  <1>7. blocks \cup EndsOf(E) \subseteq First
    BY <1>6 DEF At3
  <1>8. Ways(blocks \cup EndsOf(E), links \cup E)
    BY <1>7, WaysEarly, Apart DEF Early
  <1>9. Sound(blocks', links', Q)
    <2>1. g \in blocks \ Feeders /\ Sound(blocks, links, O)
      BY <1>1, <1>5, NoFeeder DEF At3, Front, Early
    <2> QED BY <1>4, <1>6, <1>8, <2>1, DrawSound
  <1>10. section' = 4 /\ blocks' = blocks \cup EndsOf(E)
    BY <1>2, <1>4 DEF Draws
  <1>11. At4' /\ EndsKept'
    BY <1>2, <1>5, <1>6, <1>7, <1>9, <1>10 DEF At4, EndsKept
  <1> QED BY <1>11 DEF TopologyInv

\* So is the gravity circuit, if there is one.
LEMMA GravityDrawn ==
  ASSUME At4, EndsKept, Topology!Gravity
  PROVE  TopologyInv'
  <1>1. ends' = ends /\ section = 4 /\ (Topology!Draw({}) \/ Topology!Draw(Gravities))
    <2>1. Topology!Chain(<<"cyclones", "Knelson", "ICR", "gravity_pump", "EW_gravity">>) \cup {<<"Knelson", "cyclones">>} = Gravities
      BY Chain5 DEF Gravities
    <2> QED BY <2>1 DEF Topology!Gravity, Topology!Plain
  <1>2. PICK O, Q : O = {"cyclones"} /\ Q = {"cyclones", "EW_gravity"}
    OBVIOUS
  <1>3. CASE Topology!Draw({})
    <2>1. Draws({})
      BY <1>3, DrawIs
    <2>2. Sound(blocks, links, O) /\ O \subseteq Q
      BY <1>2 DEF At4
    <2>3. blocks' = blocks /\ section' = 5 /\ Sound(blocks', links', Q)
      BY <1>1, <2>1, <2>2, DrawNothing
    <2> QED BY <1>1, <1>2, <2>3 DEF At4, At5, EndsKept, TopologyInv
  <1>4. CASE Topology!Draw(Gravities)
    <2>1. Draws(Gravities)
      BY <1>4, DrawIs
    <2>2. Attached(Gravities, "cyclones", blocks, O, Q) /\ EndsOf(Gravities) \subseteq First
      BY <1>2, GravityLeads DEF At4
    <2>3. blocks \cup EndsOf(Gravities) \subseteq First
      BY <2>2 DEF At4
    <2>4. Ways(blocks \cup EndsOf(Gravities), links \cup Gravities)
      BY <2>3, WaysEarly, Apart DEF Early
    <2>5. "cyclones" \in blocks \ Feeders /\ Sound(blocks, links, O)
      BY <1>2, NoFeeder, Apart DEF At4, Front, Early
    <2>6. Sound(blocks', links', Q)
      BY <2>1, <2>2, <2>4, <2>5, DrawSound
    <2>7. section' = 5 /\ blocks' = blocks \cup EndsOf(Gravities)
      BY <1>1, <2>1 DEF Draws
    <2>8. At5' /\ EndsKept'
      BY <1>1, <1>2, <2>3, <2>5, <2>6, <2>7 DEF At5, EndsKept
    <2> QED BY <2>8 DEF TopologyInv
  <1> QED BY <1>1, <1>3, <1>4

\* So is flotation, if there is any.
LEMMA FlotationDrawn ==
  ASSUME At5, EndsKept, Topology!Flotation
  PROVE  TopologyInv'
  <1>1. /\ section = 5
        /\ \/ Topology!Draw({}) /\ ends' = ends
           \/ Topology!Draw(Floats) /\ ends' = [ends EXCEPT !.leach = "concentrate_thickener"]
    <2>1. (Topology!Chain(<<"cyclones", "conditioner", "rougher", "cleaner", "column", "concentrate_thickener">>)
            \cup Topology!Chain(<<"rougher", "scavenger", "cleaner">>)) \cup {<<"scavenger", "cyclones">>} = Floats
      BY Chain3, Chain6 DEF Floats
    <2> QED BY <2>1 DEF Topology!Flotation
  <1>2. /\ ends = [grind |-> ends.grind, leach |-> ends.leach, screen |-> ends.screen] /\ ends.leach = "cyclones"
        /\ "cyclones" \in blocks \ Feeders /\ blocks \subseteq First
    BY <1>1, NoFeeder, Apart DEF EndsKept, At5, Front, Early
  <1>3. PICK O : O = {"cyclones", "EW_gravity"}
    OBVIOUS
  <1>4. CASE Topology!Draw({}) /\ ends' = ends
    <2>1. Draws({})
      BY <1>4, DrawIs
    <2>2. Sound(blocks, links, O)
      BY <1>3 DEF At5
    <2>3. blocks' = blocks /\ section' = 6 /\ Sound(blocks', links', O)
      BY <1>1, <2>1, <2>2, DrawNothing
    <2>4. "concentrate_thickener" \notin blocks /\ blocks \subseteq Early
      BY <1>2, Apart DEF Early
    <2>5. At6' /\ EndsKept'
      BY <1>2, <1>3, <1>4, <2>3, <2>4 DEF At6, EndsKept
    <2> QED BY <2>5 DEF TopologyInv
  <1>5. CASE Topology!Draw(Floats) /\ ends' = [ends EXCEPT !.leach = "concentrate_thickener"]
    <2>1. Draws(Floats)
      BY <1>5, DrawIs
    <2>2. PICK Q : Q = {"concentrate_thickener", "EW_gravity"}
      OBVIOUS
    <2>3. Attached(Floats, "cyclones", blocks, O, Q) /\ EndsOf(Floats) \subseteq Early /\ "concentrate_thickener" \in EndsOf(Floats)
      BY <1>2, <1>3, <2>2, FlotationLeads
    <2>4. blocks \cup EndsOf(Floats) \subseteq Early
      BY <1>2, <2>3 DEF Early
    <2>5. Inside(blocks, links)
      BY SoundInside DEF At5
    <2>6. Inside(blocks \cup EndsOf(Floats), links \cup Floats)
      BY <2>5 DEF Inside, EndsOf
    <2>7. Ways(blocks \cup EndsOf(Floats), links \cup Floats)
      BY <2>4, <2>6, WaysEarly
    <2>8. Sound(blocks, links, O)
      BY <1>3 DEF At5
    <2>9. Sound(blocks', links', Q)
      BY <1>2, <2>1, <2>3, <2>7, <2>8, DrawSound
    <2>10. section' = 6 /\ blocks' = blocks \cup EndsOf(Floats)
      BY <1>1, <2>1 DEF Draws
    <2>11. ends' = [grind |-> ends.grind, leach |-> "concentrate_thickener", screen |-> ends.screen]
      BY <1>2, <1>5
    <2>12. /\ ends'.leach = "concentrate_thickener"
           /\ ends' = [grind |-> ends'.grind, leach |-> ends'.leach, screen |-> ends'.screen]
      BY <2>11
    <2>13. At6' /\ EndsKept'
      BY <2>2, <2>3, <2>4, <2>9, <2>10, <2>12 DEF At6, EndsKept
    <2> QED BY <2>13 DEF TopologyInv
  <1> QED BY <1>1, <1>4, <1>5

\* So is the IsaMill, if there is one.
LEMMA IsamillDrawn ==
  ASSUME At6, EndsKept, Topology!Isamill
  PROVE  TopologyInv'
  <1>1. /\ section = 6
        /\ \/ Topology!Draw({}) /\ ends' = ends
           \/ Topology!Draw({<<ends.leach, "IsaMill">>}) /\ ends' = [ends EXCEPT !.leach = "IsaMill"]
    BY DEF Topology!Isamill
  <1>2. /\ ends = [grind |-> ends.grind, leach |-> ends.leach, screen |-> ends.screen]
        /\ ends.leach \in {"cyclones", "concentrate_thickener"} /\ ends.leach \in blocks /\ blocks \subseteq Early
        /\ "concentrate_thickener" \in blocks => ends.leach = "concentrate_thickener"
    BY DEF EndsKept, At6
  <1>3. PICK p, O : p = ends.leach /\ O = {p, "EW_gravity"}
    OBVIOUS
  <1>4. Sound(blocks, links, O) /\ p \in blocks \ Feeders
    <2>1. p \in Front
      BY <1>2, <1>3 DEF Front
    <2> QED BY <1>2, <1>3, <2>1, NoFeeder DEF At6
  <1>5. CASE Topology!Draw({}) /\ ends' = ends
    <2>1. Draws({})
      BY <1>5, DrawIs
    <2>2. blocks' = blocks /\ section' = 7 /\ Sound(blocks', links', O)
      BY <1>1, <1>4, <2>1, DrawNothing
    <2>3. "IsaMill" \notin blocks
      BY <1>2, Apart
    <2>4. At7' /\ EndsKept'
      BY <1>2, <1>3, <1>5, <2>2, <2>3 DEF At7, EndsKept
    <2> QED BY <2>4 DEF TopologyInv
  <1>6. CASE Topology!Draw({<<ends.leach, "IsaMill">>}) /\ ends' = [ends EXCEPT !.leach = "IsaMill"]
    <2>1. PICK E, Q : E = {<<p, "IsaMill">>} /\ Q = {"IsaMill", "EW_gravity"}
      OBVIOUS
    <2>2. Draws(E)
      BY <1>3, <1>6, <2>1, DrawIs
    <2>3. Attached(E, p, blocks, O, Q) /\ EndsOf(E) = {p, "IsaMill"}
      <3>1. "IsaMill" \notin Feeders
        BY DEF Feeders
      <3> QED BY <1>3, <1>4, <2>1, <3>1, OneLeads
    <2>4. Ways(blocks \cup EndsOf(E), links \cup E)
      <3>1. Inside(blocks, links)
        BY SoundInside DEF At6
      <3>2. Ways(blocks \cup {p, "IsaMill"}, links \cup {<<p, "IsaMill">>})
        BY <1>2, <1>3, <3>1, WaysIsa
      <3> QED BY <2>1, <2>3, <3>2
    <2>5. Sound(blocks', links', Q)
      BY <1>4, <2>2, <2>3, <2>4, DrawSound
    <2>6. section' = 7 /\ blocks' = blocks \cup {p, "IsaMill"}
      BY <1>1, <2>2, <2>3 DEF Draws
    <2>7. ends' = [grind |-> ends.grind, leach |-> "IsaMill", screen |-> ends.screen]
      BY <1>2, <1>6
    <2>8. /\ ends'.leach = "IsaMill"
          /\ ends' = [grind |-> ends'.grind, leach |-> ends'.leach, screen |-> ends'.screen]
      BY <2>7
    <2>9. At7' /\ EndsKept'
      BY <1>2, <1>3, <2>1, <2>5, <2>6, <2>8 DEF At7, EndsKept
    <2> QED BY <2>9 DEF TopologyInv
  <1> QED BY <1>1, <1>5, <1>6

\* So is what comes before leaching.
LEMMA PreleachDrawn ==
  ASSUME At7, EndsKept, Topology!Preleach
  PROVE  TopologyInv'
  <1>1. PICK p : p = ends.leach
    OBVIOUS
  <1>2. /\ section = 7 /\ ends' = ends
        /\ \E E \in Preleaches(p) : Topology!Draw(E)
    <2>1. /\ Topology!Chain(<<p, "POX", "POX_neutralisation", "POX_thickener">>) = Oxidises(p)
          /\ Topology!Chain(<<p, "leach_thickener", "leach_pump", "aeration">>) = Thickens(p)
          /\ Topology!Chain(<<"POX_thickener", "leach_thickener", "leach_pump", "aeration">>) = Thickens("POX_thickener")
      BY Chain4 DEF Oxidises, Thickens
    <2>2. PICK pox : pox = Topology!Flag("pox")
      OBVIOUS
    <2>3. /\ section = 7 /\ ends' = ends
          /\ Topology!Draw(((IF pox THEN Topology!Chain(<<p, "POX", "POX_neutralisation", "POX_thickener">>) ELSE {})
                \cup Topology!Chain(<<IF pox THEN "POX_thickener" ELSE p, "leach_thickener", "leach_pump", "aeration">>)) \cup Reagents)
      BY <1>1, <2>2 DEF Topology!Preleach, Reagents
    <2>4. CASE pox
      <3>1. Topology!Draw((Oxidises(p) \cup Thickens("POX_thickener")) \cup Reagents)
        BY <2>1, <2>3, <2>4
      <3> QED BY <2>3, <3>1 DEF Preleaches
    <2>5. CASE ~pox
      <3>1. Topology!Draw(({} \cup Thickens(p)) \cup Reagents)
        BY <2>1, <2>3, <2>5
      <3> QED BY <2>3, <3>1 DEF Preleaches
    <2> QED BY <2>4, <2>5
  <1>3. PICK E \in Preleaches(p) : Topology!Draw(E)
    BY <1>2
  <1>4. Draws(E)
    BY <1>3, DrawIs
  <1>5. PICK O, Q : O = {p, "EW_gravity"} /\ Q = {"aeration", "EW_gravity"}
    OBVIOUS
  <1>6. /\ p \in blocks /\ blocks \subseteq Early \cup {"IsaMill"} /\ Sound(blocks, links, O)
        /\ p \in {"cyclones", "concentrate_thickener", "IsaMill"}
        /\ "concentrate_thickener" \in blocks => p # "cyclones"
        /\ "IsaMill" \in blocks => p = "IsaMill"
    BY <1>1, <1>5 DEF At7
  <1>7. /\ Attached(E, p, blocks, O, Q)
        /\ EndsOf(E) \subseteq (Oxidised \cup Feeders) \cup {p}
        /\ {"aeration", "leach_thickener", "flocculant", "lime", "NaCN"} \subseteq EndsOf(E)
        /\ \A l \in E : l[1] = p \/ l[1] \in Oxidised \cup Feeders
        /\ "POX" \in EndsOf(E) /\ p # "POX" => \A l \in E : l[1] = p => l[2] = "POX"
    <2>1. p \in Early \cup {"IsaMill"}
      BY <1>6
    <2> QED BY <1>3, <1>5, <1>6, <2>1, PreleachLeads
  <1>8. Ways(blocks \cup EndsOf(E), links \cup E)
    <2>1. p # "POX"
      BY <1>6
    <2>2. Inside(blocks, links) /\ Ways(blocks, links)
      BY SoundInside DEF At7, Sound
    <2> QED BY <1>6, <1>7, <2>1, <2>2, WaysPre
  <1>9. p \in blocks \ Feeders
    BY <1>6, NoFeeder DEF Front
  <1>10. Sound(blocks', links', Q)
    BY <1>4, <1>6, <1>7, <1>8, <1>9, DrawSound
  <1>11. section' = 8 /\ blocks' = blocks \cup EndsOf(E)
    BY <1>2, <1>4 DEF Draws
  <1>12. blocks \cup EndsOf(E) \subseteq Front \cup Feeders
    BY <1>6, <1>7 DEF Front
  <1>13. At8' /\ EndsKept'
    BY <1>2, <1>5, <1>7, <1>10, <1>11, <1>12 DEF At8, EndsKept, Reagent
  <1> QED BY <1>13 DEF TopologyInv

\* So is the leaching.
LEMMA LeachingDrawn ==
  ASSUME At8, EndsKept, Topology!Leaching
  PROVE  TopologyInv'
  <1>1. /\ section = 8 /\ ends' = [ends EXCEPT !.screen = "carbon_screen"]
        /\ \E E \in {Heaps, Vats, Pulps, Carbons} : Topology!Draw(E)
    <2>1. /\ Topology!Chain(<<"aeration", "heap", "heap_pond", "carbon_screen">>) = Heaps
          /\ Topology!Chain(<<"aeration", "vat_1", "vat_2", "carbon_screen">>) = Vats
          /\ Topology!Chain(<<"aeration", "leach_1", "leach_2", "CIP_1", "CIP_2", "carbon_screen", "CIP_1">>) = Pulps
          /\ Topology!Chain(<<"aeration", "CIL_1", "CIL_2", "carbon_screen", "CIL_1">>) = Carbons
      BY Chain4, Chain5, Chain7 DEF Heaps, Vats, Pulps, Carbons
    <2>2. PICK heap, vat, cip : heap = Topology!Flag("heap") /\ vat = Topology!Flag("vat") /\ cip = (Topology!Leach = "CIP")
      OBVIOUS
    <2>3. /\ section = 8 /\ ends' = [ends EXCEPT !.screen = "carbon_screen"]
          /\ Topology!Draw(IF heap THEN Heaps ELSE IF vat THEN Vats ELSE IF cip THEN Pulps ELSE Carbons)
      BY <2>1, <2>2 DEF Topology!Leaching
    <2> QED BY <2>3
  <1>2. PICK E \in {Heaps, Vats, Pulps, Carbons} : Topology!Draw(E)
    BY <1>1
  <1>3. Draws(E)
    BY <1>2, DrawIs
  <1>4. PICK O, Q : O = {"aeration", "EW_gravity"} /\ Q = {"carbon_screen", "EW_gravity"}
    OBVIOUS
  <1>5. /\ Sound(blocks, links, O) /\ "aeration" \in blocks \ Feeders /\ blocks \subseteq Front \cup Feeders
        /\ Inside(blocks, links) /\ \A l \in links : l[2] \notin Feeders
    <2>1. "aeration" \in Front
      BY Apart DEF Front
    <2> QED BY <1>4, <2>1, NoFeeder, SoundInside DEF At8
  <1>6. /\ Attached(E, "aeration", blocks, O, Q)
        /\ EndsOf(E) \subseteq Tanks \cup {"aeration"} /\ "carbon_screen" \in EndsOf(E)
    BY <1>4, <1>5, LeachingLeads
  <1>7. Ways(blocks \cup EndsOf(E), links \cup E)
    <2>1. Ways(blocks, links)
      BY <1>5 DEF Sound
    <2>2. PICK B, L : B = blocks /\ L = links
      OBVIOUS
    <2>3. B \subseteq Front \cup Feeders /\ Inside(B, L) /\ (\A l \in L : l[2] \notin Feeders) /\ Ways(B, L)
      BY <1>5, <2>1, <2>2
    <2>4. Ways(B \cup EndsOf(E), L \cup E)
      BY <1>5, <2>3, LeachingLeads, WaysLeach
    <2> QED BY <2>2, <2>4
  <1>8. Sound(blocks', links', Q)
    BY <1>3, <1>5, <1>6, <1>7, DrawSound
  <1>9. section' = 9 /\ blocks' = blocks \cup EndsOf(E)
    BY <1>1, <1>3 DEF Draws
  <1>10. blocks' \subseteq (Front \cup Feeders) \cup Tanks
    <2>1. "aeration" \in Front
      BY Apart DEF Front
    <2> QED BY <1>5, <1>6, <1>9, <2>1
  <1>11. /\ ends'.screen = "carbon_screen"
         /\ ends' = [grind |-> ends'.grind, leach |-> ends'.leach, screen |-> ends'.screen]
    BY <1>1 DEF EndsKept
  <1>12. {"carbon_screen", "leach_thickener"} \subseteq blocks' /\ Reagent \subseteq blocks'
    BY <1>6, <1>9 DEF At8
  <1>13. At9' /\ EndsKept'
    BY <1>4, <1>8, <1>9, <1>10, <1>11, <1>12 DEF At9, EndsKept, Reagent
  <1> QED BY <1>13 DEF TopologyInv

\* So is the elution.
LEMMA AdrDrawn ==
  ASSUME At9, EndsKept, Topology!Adr
  PROVE  TopologyInv'
  <1>1. section = 9 /\ ends' = ends /\ Topology!Draw(Strips)
    <2>1. ends.screen = "carbon_screen"
      BY DEF At9
    <2>2. ({<<"carbon_screen", "strip_solution">>}
             \cup Topology!Chain(<<"strip_solution", "heater", "elution", "pregnant_tank", "EW_1", "EW_2", "furnace", "dore">>))
            \cup {<<"elution", "strip_solution">>} = Strips
      BY Chain8 DEF Strips
    <2> QED BY <2>1, <2>2 DEF Topology!Adr, Topology!Plain
  <1>2. Draws(Strips)
    BY <1>1, DrawIs
  <1>3. PICK O, Q : O = {"carbon_screen", "EW_gravity"} /\ Q = {"dore", "EW_gravity"}
    OBVIOUS
  <1>4. Sound(blocks, links, O) /\ "carbon_screen" \in blocks \ Feeders
    BY <1>3, NoFeeder, Apart DEF At9
  <1>5. /\ Attached(Strips, "carbon_screen", blocks, O, Q)
        /\ EndsOf(Strips) \subseteq Late \cup {"carbon_screen"} /\ "dore" \in EndsOf(Strips)
        /\ \A l \in Strips : l[1] \in Late \cup {"carbon_screen"}
    BY <1>3, AdrLeads
  <1>6. Ways(blocks \cup EndsOf(Strips), links \cup Strips)
    <2>1. Ways(blocks, links)
      BY <1>4 DEF Sound
    <2>2. /\ EndsOf(Strips) \subseteq ((Late \cup Tails) \cup Feeders) \cup {"carbon_screen", "leach_thickener"}
          /\ \A l \in Strips : l[1] \in ((Late \cup Tails) \cup Feeders) \cup {"carbon_screen"}
      BY <1>5
    <2> QED BY <2>1, <2>2, WaysLate
  <1>7. Sound(blocks', links', Q)
    BY <1>2, <1>4, <1>5, <1>6, DrawSound
  <1>8. section' = 10 /\ blocks' = blocks \cup EndsOf(Strips)
    BY <1>1, <1>2 DEF Draws
  <1>9. blocks' \subseteq ((Front \cup Feeders) \cup Tanks) \cup Late
    <2>1. "carbon_screen" \in Tanks
      BY Apart
    <2> QED BY <1>5, <1>8, <2>1 DEF At9
  <1>10. {"carbon_screen", "leach_thickener", "dore"} \subseteq blocks' /\ Reagent \subseteq blocks'
    BY <1>5, <1>8 DEF At9
  <1>11. At10' /\ EndsKept'
    BY <1>1, <1>3, <1>7, <1>8, <1>9, <1>10 DEF At9, At10, EndsKept, Reagent
  <1> QED BY <1>11 DEF TopologyInv

\* So are the tailings.
LEMMA TailingsDrawn ==
  ASSUME At10, EndsKept, Topology!Tailings
  PROVE  TopologyInv'
  <1>1. section = 10 /\ ends' = ends /\ Topology!Draw(Detoxes)
    <2>1. ends.screen = "carbon_screen"
      BY DEF At10
    <2>2. (({<<"carbon_screen", "CN_destruction">>}
             \cup Topology!Chain(<<"CN_destruction", "CN_neutralisation", "tailings_thickener", "filter", "TSF">>))
            \cup Topology!Chain(<<"tailings_thickener", "process_water", "leach_thickener">>))
            \cup {<<"laboratory", "CN_destruction">>} = Detoxes
      BY Chain3, Chain5 DEF Detoxes
    <2> QED BY <2>1, <2>2 DEF Topology!Tailings, Topology!Plain
  <1>2. Draws(Detoxes)
    BY <1>1, DrawIs
  <1>3. PICK O, Q : O = {"dore", "EW_gravity"} /\ Q = {"dore", "TSF", "EW_gravity"}
    OBVIOUS
  <1>4. Sound(blocks, links, O) /\ "carbon_screen" \in blocks \ Feeders /\ "leach_thickener" \in blocks
    BY <1>3, NoFeeder, Apart DEF At10
  <1>5. /\ Attached(Detoxes, "carbon_screen", blocks, O, Q)
        /\ EndsOf(Detoxes) \subseteq (Tails \cup Feeders) \cup {"carbon_screen", "leach_thickener"}
        /\ {"TSF", "laboratory"} \subseteq EndsOf(Detoxes)
        /\ \A l \in Detoxes : l[1] \in (Tails \cup Feeders) \cup {"carbon_screen"}
    BY <1>3, <1>4, TailingsLead
  <1>6. Ways(blocks \cup EndsOf(Detoxes), links \cup Detoxes)
    <2>1. Ways(blocks, links)
      BY <1>4 DEF Sound
    <2>2. /\ EndsOf(Detoxes) \subseteq ((Late \cup Tails) \cup Feeders) \cup {"carbon_screen", "leach_thickener"}
          /\ \A l \in Detoxes : l[1] \in ((Late \cup Tails) \cup Feeders) \cup {"carbon_screen"}
      BY <1>5
    <2> QED BY <2>1, <2>2, WaysLate
  <1>7. Sound(blocks', links', Q)
    BY <1>2, <1>4, <1>5, <1>6, DrawSound
  <1>8. section' = 11 /\ blocks' = blocks \cup EndsOf(Detoxes)
    BY <1>1, <1>2 DEF Draws
  <1>9. blocks' \subseteq (((Front \cup Feeders) \cup Tanks) \cup Late) \cup Tails
    BY <1>4, <1>5, <1>8 DEF At10
  <1>10. {"dore", "TSF"} \subseteq blocks' /\ Feeders \subseteq blocks'
    BY <1>5, <1>8 DEF At10, Feeders, Reagent
  <1>11. At11' /\ EndsKept'
    BY <1>1, <1>3, <1>7, <1>8, <1>9, <1>10 DEF At11, EndsKept
  <1> QED BY <1>11 DEF TopologyInv

\* Every section draws in its turn, or the drawing begins anew.
LEMMA TopologyMoves ==
  ASSUME TopologyInv, [Topology!Next]_topologyData
  PROVE  TopologyInv'
  <1>1. CASE UNCHANGED topologyData
    BY <1>1 DEF topologyData, TopologyInv, EndsKept, At1, At2, At3, At4, At5, At6, At7, At8, At9, At10, At11
  <1>2. CASE Topology!ChangeTemplate
    <2>1. At1' /\ EndsKept'
      BY <1>2 DEF Topology!ChangeTemplate, At1, EndsKept, Topology!None
    <2> QED BY <2>1 DEF TopologyInv
  <1>3. EndsKept
    BY DEF TopologyInv
  <1>4. CASE Topology!Reception
    <2>1. At1
      BY <1>4 DEF Topology!Reception, TopologyInv, At2, At3, At4, At5, At6, At7, At8, At9, At10, At11
    <2> QED BY <1>3, <1>4, <2>1, ReceptionDrawn
  <1>5. CASE Topology!Hpgr
    <2>1. At2
      BY <1>5 DEF Topology!Hpgr, TopologyInv, At1, At3, At4, At5, At6, At7, At8, At9, At10, At11
    <2> QED BY <1>3, <1>5, <2>1, HpgrDrawn
  <1>6. CASE Topology!Grinding
    <2>1. At3
      BY <1>6 DEF Topology!Grinding, TopologyInv, At1, At2, At4, At5, At6, At7, At8, At9, At10, At11
    <2> QED BY <1>3, <1>6, <2>1, GrindingDrawn
  <1>7. CASE Topology!Gravity
    <2>1. At4
      BY <1>7 DEF Topology!Gravity, TopologyInv, At1, At2, At3, At5, At6, At7, At8, At9, At10, At11
    <2> QED BY <1>3, <1>7, <2>1, GravityDrawn
  <1>8. CASE Topology!Flotation
    <2>1. At5
      BY <1>8 DEF Topology!Flotation, TopologyInv, At1, At2, At3, At4, At6, At7, At8, At9, At10, At11
    <2> QED BY <1>3, <1>8, <2>1, FlotationDrawn
  <1>9. CASE Topology!Isamill
    <2>1. At6
      BY <1>9 DEF Topology!Isamill, TopologyInv, At1, At2, At3, At4, At5, At7, At8, At9, At10, At11
    <2> QED BY <1>3, <1>9, <2>1, IsamillDrawn
  <1>10. CASE Topology!Preleach
    <2>1. At7
      BY <1>10 DEF Topology!Preleach, TopologyInv, At1, At2, At3, At4, At5, At6, At8, At9, At10, At11
    <2> QED BY <1>3, <1>10, <2>1, PreleachDrawn
  <1>11. CASE Topology!Leaching
    <2>1. At8
      BY <1>11 DEF Topology!Leaching, TopologyInv, At1, At2, At3, At4, At5, At6, At7, At9, At10, At11
    <2> QED BY <1>3, <1>11, <2>1, LeachingDrawn
  <1>12. CASE Topology!Adr
    <2>1. At9
      BY <1>12 DEF Topology!Adr, TopologyInv, At1, At2, At3, At4, At5, At6, At7, At8, At10, At11
    <2> QED BY <1>3, <1>12, <2>1, AdrDrawn
  <1>13. CASE Topology!Tailings
    <2>1. At10
      BY <1>13 DEF Topology!Tailings, TopologyInv, At1, At2, At3, At4, At5, At6, At7, At8, At9, At11
    <2> QED BY <1>3, <1>13, <2>1, TailingsDrawn
  <1> QED BY <1>1, <1>2, <1>4, <1>5, <1>6, <1>7, <1>8, <1>9, <1>10, <1>11, <1>12, <1>13 DEF Topology!Next

\* The blocks that can be drawn are finitely many.
LEMMA Few ==
  ASSUME NEW a, NEW b, NEW c, NEW d
  PROVE  IsFiniteSet({a, b, c, d})
  <1>1. IsFiniteSet({a}) /\ IsFiniteSet({b}) /\ IsFiniteSet({c}) /\ IsFiniteSet({d})
    BY FS_Singleton
  <1>2. IsFiniteSet({a} \cup {b}) /\ IsFiniteSet({c} \cup {d})
    BY <1>1, FS_Union
  <1>3. IsFiniteSet(({a} \cup {b}) \cup ({c} \cup {d}))
    BY <1>2, FS_Union
  <1>4. {a, b, c, d} = ({a} \cup {b}) \cup ({c} \cup {d})
    OBVIOUS
  <1> QED BY <1>3, <1>4

\* There are finitely many blocks.
LEMMA Finitely ==
  IsFiniteSet((((Front \cup Feeders) \cup Tanks) \cup Late) \cup Tails)
  <1>1. IsFiniteSet(Feeders)
    BY Few DEF Feeders
  <1>2. IsFiniteSet(Late)
    <2>1. Late = {"strip_solution", "heater", "elution", "pregnant_tank"} \cup {"EW_1", "EW_2", "furnace", "dore"}
      BY DEF Late
    <2> QED BY <2>1, Few, FS_Union
  <1>3. IsFiniteSet(Tails)
    <2>1. Tails = {"CN_destruction", "CN_neutralisation", "tailings_thickener", "filter"} \cup {"TSF", "TSF", "TSF", "process_water"}
      BY DEF Tails
    <2> QED BY <2>1, Few, FS_Union
  <1>4. IsFiniteSet(Tanks)
    <2>1. Tanks = ({"heap", "heap_pond", "carbon_screen", "vat_1"} \cup {"vat_2", "leach_1", "leach_2", "CIP_1"})
                    \cup {"CIP_2", "CIP_2", "CIL_1", "CIL_2"}
      BY DEF Tanks
    <2> QED BY <2>1, Few, FS_Union
  <1>5. IsFiniteSet(Oxidised)
    <2>1. Oxidised = {"POX", "POX_neutralisation", "POX_thickener", "leach_thickener"}
                       \cup {"leach_pump", "leach_pump", "leach_pump", "aeration"}
      BY DEF Oxidised
    <2> QED BY <2>1, Few, FS_Union
  <1>6. IsFiniteSet(First)
    <2>1. First = (({"ROM_bin", "conveyor_1", "crusher_1", "screen_1"} \cup {"stockpile", "conveyor_2", "crusher_2", "HPGR"})
                    \cup ({"SAG_mill", "sump_1", "pump_1", "cyclones"} \cup {"pebble_crusher", "ball_mill", "sump_2", "pump_2"}))
                   \cup (({"Knelson", "ICR", "gravity_pump", "EW_gravity"} \cup {"conditioner", "rougher", "cleaner", "column"})
                    \cup {"scavenger", "scavenger", "scavenger", "scavenger"})
      BY DEF First
    <2> QED BY <2>1, Few, FS_Union
  <1>7. IsFiniteSet(Front)
    <2>1. IsFiniteSet({"concentrate_thickener"}) /\ IsFiniteSet({"IsaMill"})
      BY FS_Singleton
    <2> QED BY <1>5, <1>6, <2>1, FS_Union DEF Front, Early
  <1> QED BY <1>1, <1>2, <1>3, <1>4, <1>7, FS_Union

\* A whole drawing leads on.
LEMMA TopologyGives ==
  ASSUME TopologyInv
  PROVE  Topology!OreGoesOn /\ Topology!NoDeadEnd /\ Topology!TreatmentOnTheWay
  <1> SUFFICES ASSUME section = 11 PROVE Topology!OreGoesOn /\ Topology!NoDeadEnd /\ Topology!TreatmentOnTheWay
    BY DEF Topology!OreGoesOn, Topology!NoDeadEnd, Topology!TreatmentOnTheWay, Topology!Drawn
  <1>1. At11
    BY DEF TopologyInv, At1, At2, At3, At4, At5, At6, At7, At8, At9, At10
  <1>2. IsFiniteSet(blocks)
    <2>1. blocks \in SUBSET ((((Front \cup Feeders) \cup Tanks) \cup Late) \cup Tails)
      BY <1>1 DEF At11
    <2> QED BY <2>1, Finitely, FS_Subset
  <1>3. Leads(blocks, links, {"dore", "TSF", "EW_gravity"}) /\ Ways(blocks, links) /\ "ROM_bin" \in blocks
    BY <1>1 DEF At11, Sound
  <1>4. {"dore", "TSF"} \subseteq blocks /\ Feeders \subseteq blocks
    BY <1>1 DEF At11
  <1>5. "dore" \notin Feeders /\ "TSF" \notin Feeders /\ "ROM_bin" \notin Feeders
    BY DEF Feeders
  <1>6. Topology!OreGoesOn
    <2>1. /\ "ROM_bin" \in Topology!From("ROM_bin") /\ Closed(Topology!From("ROM_bin"), links)
          /\ \A C : "ROM_bin" \in C /\ Closed(C, links) => Topology!From("ROM_bin") \subseteq C
      BY <1>2, <1>3, FromIs DEF Leads
    <2>2. blocks \ Feeders \subseteq Topology!From("ROM_bin")
      BY <1>3, <2>1 DEF Leads
    <2>3. Topology!From("ROM_bin") \subseteq blocks \ Feeders
      <3>1. Closed(blocks \ Feeders, links)
        BY <1>3 DEF Leads, Closed
      <3> QED BY <1>3, <1>5, <2>1, <3>1
    <2>4. blocks \ Topology!From("ROM_bin") = Feeders /\ {"dore", "TSF"} \subseteq Topology!From("ROM_bin")
      BY <1>4, <1>5, <2>2, <2>3
    <2> QED BY <2>4 DEF Topology!OreGoesOn, Feeders
  <1>7. Topology!NoDeadEnd
    BY <1>3 DEF Leads, Topology!NoDeadEnd
  <1>8. Topology!TreatmentOnTheWay
    <2> SUFFICES ASSUME NEW b \in blocks, b \in Topology!Treatment PROVE Topology!OnTheWay(b)
      BY DEF Topology!TreatmentOnTheWay
    <2>1. \A C \in {First, Early, Early \cup {"IsaMill"}, Front, Front \cup {"leach_1", "leach_2"}} :
             "ROM_bin" \in C /\ "dore" \notin C
      <3>1. "ROM_bin" \in First /\ "dore" \in Late
        BY Apart DEF Late
      <3>2. "dore" \notin Front \cup Tanks /\ {"leach_1", "leach_2"} \subseteq Tanks
        BY <3>1, Apart
      <3> QED BY <3>1, <3>2 DEF Front, Early
    <2>2. ASSUME NEW C \in {First, Early, Early \cup {"IsaMill"}, Front, Front \cup {"leach_1", "leach_2"}},
                 Cut(b, C, blocks, links), b \notin C
          PROVE  Topology!OnTheWay(b)
      <3>1. \A l \in links : l[1] \in C => l[2] \in C \cup {b}
        BY <2>2 DEF Cut
      <3> QED BY <1>2, <2>1, <2>2, <3>1, OnTheWayIs
    <2>3. /\ "concentrate_thickener" \notin First /\ "IsaMill" \notin Early /\ "POX" \notin Early \cup {"IsaMill"}
          /\ "heap" \notin Front /\ "vat_1" \notin Front /\ "CIL_1" \notin Front
          /\ "CIP_1" \notin Front \cup {"leach_1", "leach_2"}
      BY Apart
    <2>4. b \in {"concentrate_thickener", "IsaMill", "POX", "heap", "vat_1", "CIP_1", "CIL_1"}
      BY DEF Topology!Treatment
    <2> HIDE DEF First, Early, Front
    <2>5. CASE b = "concentrate_thickener"
      BY <1>3, <2>2, <2>3, <2>5 DEF Ways
    <2>6. CASE b = "IsaMill"
      BY <1>3, <2>2, <2>3, <2>6 DEF Ways
    <2>7. CASE b = "POX"
      BY <1>3, <2>2, <2>3, <2>7 DEF Ways
    <2>8. CASE b \in {"heap", "vat_1", "CIL_1"}
      BY <1>3, <2>2, <2>3, <2>8 DEF Ways
    <2>9. CASE b = "CIP_1"
      BY <1>3, <2>2, <2>3, <2>9 DEF Ways
    <2> QED BY <2>4, <2>5, <2>6, <2>7, <2>8, <2>9
  <1> QED BY <1>6, <1>7, <1>8

\* Whatever is drawn, ore reaches dore and tailings through every block of the
\* treatment, and no block is a dead end (DrawingLeadsOn of MCFlowsheets:
\* routes/flowsheets.py).
THEOREM AllDrawingLeadsOn == AllSpec => []DrawingLeadsOn
  <1> DEFINE Held == part = "topology" => TopologyInv
  <1>1. AllInit => Held
    <2> SUFFICES ASSUME AllInit, part = "topology" PROVE TopologyInv
      OBVIOUS
    <2>1. At1 /\ EndsKept
      BY DEF AllInit, Topology!Init, At1, EndsKept, Topology!None
    <2> QED BY <2>1 DEF TopologyInv
  <1>2. Held /\ [AllNext]_allVars => Held'
    <2> SUFFICES ASSUME Held, [AllNext]_allVars, part' = "topology" PROVE TopologyInv'
      OBVIOUS
    <2>1. part = "topology"
      BY PartStep
    <2>2. [Topology!Next]_topologyData
      BY <2>1, PartStep
    <2> QED BY <2>1, <2>2, TopologyMoves
  <1>3. Held => DrawingLeadsOn
    BY TopologyGives DEF DrawingLeadsOn
  <1> HIDE DEF Held
  <1> QED BY <1>1, <1>2, <1>3, PTL DEF AllSpec

-----------------------------------------------------------------------------
(* The tree of operations (FlowsheetTree), for any operations, requests and *)
(* endpoints.                                                              *)

T(Nodes, Requests, Uses) == INSTANCE FlowsheetTree WITH req <- treeReq,
  Node <- Nodes, Request <- Requests, Catalogue <- {"cil"}, Size <- 2, Kinds <- Uses

Names4 == {"cil", "principal"}
Listed == {recent[i] : i \in DOMAIN recent}
Alive(Nd) == {n \in Nd : parent[n] \notin {"unborn", "deleted"}}
Stages == {"idle", "create", "check", "insert", "update", "touch", "apply", "spin", "refused"}
ReqOf(Nd) == [pc : Stages, node : Nd \cup {"none"}, target : Nd \cup {"root", "none"},
              template : Names4 \cup {"none"}, last : Nd \cup {"root"}]

\* The rows: names are unique, and an operation is of a template there is.
TreeRows(Nd) ==
  /\ recent \in Seq(Names4) /\ \A i, j \in DOMAIN recent : recent[i] = recent[j] => i = j
  /\ parent \in [Nd -> Nd \cup {"root", "unborn", "deleted"}] /\ home \in [Nd -> Names4 \cup {"none"}]
  /\ \A n \in Nd : parent[n] = "unborn" <=> home[n] = "none"
  /\ \A n \in Nd : home[n] # "none" => home[n] \in Listed
\* What is below an operation is of its template.
OneTemplate(Nd) == \A n \in Alive(Nd) : parent[n] \in Nd => parent[n] \in Alive(Nd) /\ home[parent[n]] = home[n]
\* What a request has found out still holds when it writes, whatever others do:
\* the template is there, and the operation it was shown is of it.
Found(Nd, q) ==
  /\ q.pc \in {"check", "insert", "update", "touch", "apply"} => q.template \in Listed
  /\ q.pc = "insert" /\ q.target \in Nd => home[q.target] = q.template
  /\ q.pc = "apply" /\ q.last \in Nd => home[q.last] = q.template
  /\ q.pc = "update" => /\ q.node \in Nd /\ q.target \in Nd \cup {"root"} /\ home[q.node] # "none"
                        /\ q.target \in Nd => home[q.target] = home[q.node]
TreeReqs(Nd, Rq) == treeReq \in [Rq -> ReqOf(Nd)] /\ \A r \in Rq : Found(Nd, treeReq[r])

TreeInv(Nd, Rq) == TreeRows(Nd) /\ OneTemplate(Nd) /\ TreeReqs(Nd, Rq)
Reserved(Nd) == Nd \cap {"root", "unborn", "deleted", "none"} = {}

\* It holds before there is a template.
LEMMA TreeInit ==
  ASSUME NEW Nd, NEW Rq, NEW Kn, Reserved(Nd), T(Nd, Rq, Kn)!Init
  PROVE  TreeInv(Nd, Rq)
  <1>1. recent = <<>> /\ Listed = {}
    BY DEF T!Init, Listed
  <1>2. treeReq = [r \in Rq |-> [pc |-> "idle", node |-> "none", target |-> "none", template |-> "none", last |-> "root"]]
    BY DEF T!Init, T!Idle
  <1>3. parent = [n \in Nd |-> "unborn"] /\ home = [n \in Nd |-> "none"]
    BY DEF T!Init
  <1> QED BY <1>1, <1>2, <1>3 DEF TreeInv, TreeRows, OneTemplate, TreeReqs, Found, ReqOf, Stages, Alive

\* A template that is updated comes first; the names are what they were.
LEMMA FrontFacts ==
  ASSUME NEW Nd, NEW Rq, NEW Kn, TreeRows(Nd), NEW t \in Listed, recent' = T(Nd, Rq, Kn)!ToFront(t)
  PROVE  /\ recent' \in Seq(Names4) /\ Listed' = Listed
         /\ \A i, j \in DOMAIN recent' : recent'[i] = recent'[j] => i = j
  <1>1. PICK k \in DOMAIN recent : /\ recent[k] = t
          /\ recent' = [i \in DOMAIN recent |-> IF i = 1 THEN t ELSE IF i <= k THEN recent[i - 1] ELSE recent[i]]
    <2>1. \E k \in DOMAIN recent : recent[k] = t
      BY DEF Listed
    <2>2. PICK k : k = CHOOSE i \in DOMAIN recent : recent[i] = t
      OBVIOUS
    <2>3. k \in DOMAIN recent /\ recent[k] = t
      BY <2>1, <2>2, Zenon
    <2> QED BY <2>2, <2>3 DEF T!ToFront
  <1>2. /\ recent \in Seq(Names4) /\ Len(recent) \in Nat /\ DOMAIN recent = 1 .. Len(recent)
        /\ \A i, j \in DOMAIN recent : recent[i] = recent[j] => i = j
        /\ \A i \in DOMAIN recent : recent[i] \in Names4
    BY DEF TreeRows
  <1>3. DOMAIN recent' = DOMAIN recent /\ recent' \in Seq(Names4)
    <2>1. \A i \in 1 .. Len(recent) : (IF i = 1 THEN t ELSE IF i <= k THEN recent[i - 1] ELSE recent[i]) \in Names4
      BY <1>1, <1>2
    <2> QED BY <1>1, <1>2, <2>1
  <1>4. ASSUME NEW i \in DOMAIN recent
        PROVE  recent'[i] = IF i = 1 THEN recent[k] ELSE IF i <= k THEN recent[i - 1] ELSE recent[i]
    BY <1>1
  <1>5. ASSUME NEW i \in DOMAIN recent, NEW j \in DOMAIN recent, recent'[i] = recent'[j] PROVE i = j
    BY <1>1, <1>2, <1>4, <1>5
  <1>6. Listed' \subseteq Listed
    <2>1. ASSUME NEW i \in DOMAIN recent PROVE \E j \in DOMAIN recent : recent'[i] = recent[j]
      BY <1>1, <1>2, <1>4
    <2> QED BY <1>3, <2>1 DEF Listed
  <1>7. Listed \subseteq Listed'
    <2>1. ASSUME NEW j \in DOMAIN recent PROVE \E i \in DOMAIN recent : recent'[i] = recent[j]
      <3>1. CASE j = k
        <4>1. 1 \in DOMAIN recent /\ recent'[1] = recent[k]
          BY <1>1, <1>2, <1>4
        <4> QED BY <3>1, <4>1
      <3>2. CASE j < k
        <4>1. j + 1 \in DOMAIN recent /\ recent'[j + 1] = recent[j]
          BY <1>1, <1>2, <1>4, <3>2
        <4> QED BY <4>1
      <3>3. CASE j > k
        <4>1. recent'[j] = recent[j]
          BY <1>1, <1>2, <1>4, <3>3
        <4> QED BY <4>1
      <3> QED BY <1>2, <3>1, <3>2, <3>3
    <2> QED BY <1>3, <2>1 DEF Listed
  <1> QED BY <1>3, <1>5, <1>6, <1>7

\* The templates have names.
LEMMA ListedNames == ASSUME NEW Nd, TreeRows(Nd) PROVE Listed \subseteq Names4 /\ "none" \notin Listed
  BY DEF TreeRows, Listed, Names4

\* A request moves on; the others keep what they have found out.
LEMMA ReqMoves ==
  ASSUME NEW Nd, NEW Rq, TreeInv(Nd, Rq), NEW r \in Rq, NEW q \in ReqOf(Nd),
         treeReq' = [treeReq EXCEPT ![r] = q], TreeRows(Nd)', OneTemplate(Nd)', Found(Nd, q)',
         Listed \subseteq Listed', \A n \in Nd : home[n] # "none" => home'[n] = home[n]
  PROVE  TreeInv(Nd, Rq)'
  <1>1. treeReq \in [Rq -> ReqOf(Nd)] /\ \A s \in Rq : Found(Nd, treeReq[s])
    BY DEF TreeInv, TreeReqs
  <1>2. treeReq' \in [Rq -> ReqOf(Nd)] /\ treeReq'[r] = q /\ \A s \in Rq : s # r => treeReq'[s] = treeReq[s]
    BY <1>1
  <1>3. "none" \notin Listed
    BY ListedNames DEF TreeInv
  <1>4. ASSUME NEW p, Found(Nd, p) PROVE Found(Nd, p)'
    BY <1>3, <1>4 DEF Found
  <1>5. ASSUME NEW s \in Rq PROVE Found(Nd, treeReq[s])'
    <2>1. PICK p : p = IF s = r THEN q ELSE treeReq[s]
      OBVIOUS
    <2>2. Found(Nd, p)'
      BY <1>1, <1>4, <2>1
    <2>3. treeReq'[s] = p
      BY <1>2, <2>1
    <2> QED BY <2>2, <2>3 DEF Found
  <1> QED BY <1>2, <1>5 DEF TreeInv, TreeReqs

\* ... and no operation with it.
LEMMA ReqOnly ==
  ASSUME NEW Nd, NEW Rq, TreeInv(Nd, Rq), NEW r \in Rq, NEW q \in ReqOf(Nd),
         treeReq' = [treeReq EXCEPT ![r] = q], UNCHANGED <<recent, parent, home>>, Found(Nd, q)
  PROVE  TreeInv(Nd, Rq)'
  <1>1. TreeRows(Nd)' /\ OneTemplate(Nd)' /\ Listed' = Listed
    BY DEF TreeInv, TreeRows, OneTemplate, Alive, Listed
  <1>2. Found(Nd, q)'
    BY <1>1 DEF Found
  <1> QED BY <1>1, <1>2, ReqMoves

\* A request that ends.
LEMMA ReqEnds ==
  ASSUME NEW Nd, NEW Rq, NEW Kn, TreeInv(Nd, Rq), NEW r \in Rq, T(Nd, Rq, Kn)!End(r), UNCHANGED <<recent, parent, home>>
  PROVE  TreeInv(Nd, Rq)'
  <1>1. PICK q \in ReqOf(Nd) : q.pc = "idle" /\ treeReq' = [treeReq EXCEPT ![r] = q]
    BY DEF T!End, T!Idle, ReqOf, Stages
  <1>2. Found(Nd, q)
    BY <1>1 DEF Found
  <1> QED BY <1>1, <1>2, ReqOnly

\* The record of a request that goes on.
LEMMA ReqGoes ==
  ASSUME NEW Nd, NEW Rq, NEW Kn, TreeReqs(Nd, Rq), NEW r \in Rq, NEW a \in Stages, T(Nd, Rq, Kn)!Go(r, a)
  PROVE  \E q \in ReqOf(Nd) : /\ treeReq' = [treeReq EXCEPT ![r] = q] /\ q.pc = a
           /\ q.node = treeReq[r].node /\ q.target = treeReq[r].target
           /\ q.template = treeReq[r].template /\ q.last = treeReq[r].last
  <1>1. treeReq[r] \in ReqOf(Nd)
    BY DEF TreeReqs
  <1>2. PICK q : q = [treeReq[r] EXCEPT !.pc = a]
    OBVIOUS
  <1>3. treeReq' = [treeReq EXCEPT ![r] = q]
    BY <1>2 DEF TreeReqs, T!Go
  <1>4. /\ q \in ReqOf(Nd) /\ q.pc = a /\ q.node = treeReq[r].node /\ q.target = treeReq[r].target
        /\ q.template = treeReq[r].template /\ q.last = treeReq[r].last
    BY <1>1, <1>2 DEF ReqOf
  <1> QED BY <1>3, <1>4, Zenon

\* The templates there are and the operations of them, by name.
LEMMA TreeNames ==
  ASSUME NEW Nd, NEW Rq, NEW Kn
  PROVE  /\ T(Nd, Rq, Kn)!Names = Listed /\ T(Nd, Rq, Kn)!Live = Alive(Nd)
         /\ T(Nd, Rq, Kn)!Template = Names4
  BY DEF T!Names, T!Live, T!Template, Listed, Alive, Names4

\* The record of a request that begins.
Idle0 == [pc |-> "idle", node |-> "none", target |-> "none", template |-> "none", last |-> "root"]

\* An operation is born under one of its template, or as a root.
Birth(Nd, Rq, Kn, n, p, t) ==
  /\ TreeRows(Nd) /\ OneTemplate(Nd) /\ n \in Nd /\ parent[n] = "unborn"
  /\ p \in Alive(Nd) \cup {"root"} /\ t \in Listed /\ (p \in Nd => home[p] = t)
  /\ T(Nd, Rq, Kn)!Insert(n, p, t) /\ UNCHANGED recent
\* A new operation is of the template of its parent.
LEMMA Born ==
  ASSUME NEW Nd, NEW Rq, NEW Kn, NEW n, NEW p, NEW t, Reserved(Nd), Birth(Nd, Rq, Kn, n, p, t)
  PROVE  /\ TreeRows(Nd)' /\ OneTemplate(Nd)' /\ Listed' = Listed
         /\ \A m \in Nd : home[m] # "none" => home'[m] = home[m]
         /\ parent'[n] = p /\ home'[n] = t /\ Alive(Nd)' = Alive(Nd) \cup {n} /\ n \notin Alive(Nd)
         /\ \A m \in Nd : m # n => parent'[m] = parent[m] /\ home'[m] = home[m]
  <1>0. /\ TreeRows(Nd) /\ OneTemplate(Nd) /\ n \in Nd /\ parent[n] = "unborn"
        /\ p \in Alive(Nd) \cup {"root"} /\ t \in Listed /\ (p \in Nd => home[p] = t)
        /\ T(Nd, Rq, Kn)!Insert(n, p, t) /\ UNCHANGED recent
    BY DEF Birth
  <1>1. Listed' = Listed /\ t \in Names4 /\ t # "none" /\ home[n] = "none"
    BY <1>0, ListedNames DEF Listed, TreeRows
  <1>2. /\ p \in Nd \cup {"root"} /\ p \notin {"unborn", "deleted"} /\ p # n
    BY <1>0 DEF Alive, Reserved
  <1>3. /\ parent' \in [Nd -> Nd \cup {"root", "unborn", "deleted"}] /\ home' \in [Nd -> Names4 \cup {"none"}]
        /\ parent'[n] = p /\ home'[n] = t
        /\ \A m \in Nd : m # n => parent'[m] = parent[m] /\ home'[m] = home[m]
    BY <1>0, <1>1, <1>2 DEF TreeRows, T!Insert
  <1>4. TreeRows(Nd)'
    BY <1>0, <1>1, <1>2, <1>3 DEF TreeRows
  <1>5. Alive(Nd)' = Alive(Nd) \cup {n} /\ n \notin Alive(Nd)
    BY <1>0, <1>2, <1>3 DEF Alive
  <1>6. ASSUME NEW m \in Alive(Nd)', parent'[m] \in Nd
        PROVE  parent'[m] \in Alive(Nd)' /\ home'[parent'[m]] = home'[m]
    <2>1. CASE m = n
      BY <1>0, <1>2, <1>3, <1>5, <1>6, <2>1 DEF Reserved
    <2>2. CASE m # n
      <3>1. m \in Alive(Nd) /\ parent'[m] = parent[m] /\ home'[m] = home[m]
        BY <1>0, <1>3, <1>5, <2>2 DEF Alive
      <3>2. parent[m] \in Alive(Nd) /\ home[parent[m]] = home[m]
        BY <1>0, <1>6, <3>1 DEF OneTemplate
      <3> QED BY <1>3, <1>5, <3>1, <3>2 DEF Alive
    <2> QED BY <2>1, <2>2
  <1>7. OneTemplate(Nd)'
    BY <1>0, <1>6 DEF OneTemplate
  <1> QED BY <1>1, <1>3, <1>4, <1>5, <1>7

\* An operation is moved under one of its template, or becomes a root.
LEMMA MovedUnder ==
  ASSUME NEW Nd, TreeRows(Nd), OneTemplate(Nd), Reserved(Nd), NEW n \in Alive(Nd),
         NEW p \in Alive(Nd) \cup {"root"}, p \in Nd => home[p] = home[n],
         parent' = [parent EXCEPT ![n] = p], UNCHANGED <<recent, home>>
  PROVE  TreeRows(Nd)' /\ OneTemplate(Nd)' /\ Listed' = Listed
  <1>1. Listed' = Listed
    BY DEF Listed
  <1>2. p \in Nd \cup {"root"} /\ p \notin {"unborn", "deleted"} /\ n \in Nd /\ parent[n] # "unborn"
    BY DEF Alive, Reserved
  <1>3. /\ parent' \in [Nd -> Nd \cup {"root", "unborn", "deleted"}]
        /\ parent'[n] = p /\ \A m \in Nd : m # n => parent'[m] = parent[m]
    BY <1>2 DEF TreeRows
  <1>4. TreeRows(Nd)'
    BY <1>1, <1>2, <1>3 DEF TreeRows
  <1>5. Alive(Nd)' = Alive(Nd)
    BY <1>2, <1>3 DEF Alive
  <1>6. ASSUME NEW m \in Alive(Nd)', parent'[m] \in Nd
        PROVE  parent'[m] \in Alive(Nd)' /\ home'[parent'[m]] = home'[m]
    <2>1. CASE m = n
      BY <1>2, <1>3, <1>5, <1>6, <2>1 DEF Reserved
    <2>2. CASE m # n
      BY <1>3, <1>5, <1>6, <2>2 DEF OneTemplate, Alive
    <2> QED BY <2>1, <2>2
  <1>7. OneTemplate(Nd)'
    BY <1>6 DEF OneTemplate
  <1> QED BY <1>1, <1>4, <1>7

\* What is below an operation has the children of what it has, and of it.
LEMMA BelowClosed ==
  ASSUME NEW Nd, NEW Rq, NEW Kn, NEW n
  PROVE  /\ T(Nd, Rq, Kn)!Below(n) \subseteq Nd
         /\ \A m \in Alive(Nd) : parent[m] \in T(Nd, Rq, Kn)!Below(n) \cup {n} => m \in T(Nd, Rq, Kn)!Below(n)
  <1>1. T(Nd, Rq, Kn)!Below(n) \subseteq Nd
    BY DEF T!Below
  <1>2. ASSUME NEW m \in Alive(Nd), parent[m] \in T(Nd, Rq, Kn)!Below(n) \cup {n},
               NEW S \in SUBSET Nd, T(Nd, Rq, Kn)!Children(S \cup {n}) \subseteq S
        PROVE  m \in S
    <2>1. parent[m] \in S \cup {n}
      BY <1>2 DEF T!Below
    <2> QED BY <1>2, <2>1, TreeNames DEF T!Children
  <1>3. ASSUME NEW m \in Alive(Nd), parent[m] \in T(Nd, Rq, Kn)!Below(n) \cup {n} PROVE m \in T(Nd, Rq, Kn)!Below(n)
    <2>1. m \in Nd
      BY DEF Alive
    <2> QED BY <1>2, <1>3, <2>1 DEF T!Below
  <1> QED BY <1>1, <1>3

\* An operation goes with all that is below it.
LEMMA GoneWhole ==
  ASSUME NEW Nd, NEW Rq, NEW Kn, TreeRows(Nd), OneTemplate(Nd), Reserved(Nd), NEW n \in Alive(Nd),
         parent' = [m \in Nd |-> IF m \in T(Nd, Rq, Kn)!Below(n) \cup {n} THEN "deleted" ELSE parent[m]],
         UNCHANGED <<recent, home>>
  PROVE  /\ TreeRows(Nd)' /\ OneTemplate(Nd)' /\ Listed' = Listed
         /\ Alive(Nd)' = Alive(Nd) \ (T(Nd, Rq, Kn)!Below(n) \cup {n})
         /\ \A m \in Alive(Nd)' : parent'[m] = parent[m]
  <1>1. Listed' = Listed
    BY DEF Listed
  <1>2. PICK S : S = T(Nd, Rq, Kn)!Below(n) \cup {n}
    OBVIOUS
  <1>3. S \subseteq Nd /\ \A m \in Alive(Nd) : parent[m] \in S => m \in S
    BY <1>2, BelowClosed DEF Alive
  <1>4. \A m \in Nd : parent'[m] = IF m \in S THEN "deleted" ELSE parent[m]
    BY <1>2
  <1>5. Alive(Nd)' = Alive(Nd) \ S
    BY <1>4 DEF Alive
  <1>6. \A m \in S : parent[m] # "unborn"
    <2>1. ASSUME NEW m \in S, m # n PROVE m \in Alive(Nd)
      <3>1. m \in T(Nd, Rq, Kn)!Below(n)
        BY <1>2, <2>1
      <3>2. T(Nd, Rq, Kn)!Children(Alive(Nd) \cup {n}) \subseteq Alive(Nd) /\ Alive(Nd) \in SUBSET Nd
        BY TreeNames DEF T!Children, Alive
      <3> QED BY <3>1, <3>2 DEF T!Below
    <2> QED BY <2>1 DEF Alive
  <1>7. TreeRows(Nd)'
    <2>1. parent' \in [Nd -> Nd \cup {"root", "unborn", "deleted"}]
      BY <1>4 DEF TreeRows
    <2> QED BY <1>1, <1>4, <1>6, <2>1 DEF TreeRows
  <1>8. \A m \in Alive(Nd)' : parent'[m] = parent[m]
    BY <1>4, <1>5 DEF Alive
  <1>9. OneTemplate(Nd)'
    <2>1. ASSUME NEW m \in Alive(Nd)', parent'[m] \in Nd
          PROVE  parent'[m] \in Alive(Nd)' /\ home'[parent'[m]] = home'[m]
      <3>1. m \in Alive(Nd) /\ m \notin S /\ parent'[m] = parent[m]
        BY <1>5, <1>8
      <3> QED BY <1>3, <1>5, <2>1, <3>1 DEF OneTemplate
    <2> QED BY <2>1 DEF OneTemplate
  <1> QED BY <1>1, <1>2, <1>5, <1>7, <1>8, <1>9

\* What a request reads changes its own record alone.
LEMMA ReadingKeeps ==
  ASSUME NEW Nd, NEW Rq, NEW Kn, Reserved(Nd), TreeInv(Nd, Rq), NEW r \in Rq,
         \/ T(Nd, Rq, Kn)!FindTemplate(r) \/ T(Nd, Rq, Kn)!ReadPatch(r) \/ T(Nd, Rq, Kn)!ReadUnroot(r)
         \/ T(Nd, Rq, Kn)!CheckAdd(r) \/ T(Nd, Rq, Kn)!Fails(r)
  PROVE  TreeInv(Nd, Rq)'
  <1>0. TreeRows(Nd) /\ OneTemplate(Nd) /\ TreeReqs(Nd, Rq) /\ Found(Nd, treeReq[r]) /\ treeReq[r] \in ReqOf(Nd)
    BY DEF TreeInv, TreeReqs
  <1>1. CASE T(Nd, Rq, Kn)!FindTemplate(r)
    <2>1. UNCHANGED <<recent, parent, home>>
      BY <1>1 DEF T!FindTemplate
    <2>5. PICK p \in Alive(Nd) \cup {"root"} : treeReq' = [treeReq EXCEPT ![r] =
            [Idle0 EXCEPT !.target = p, !.pc = IF recent = <<>> THEN "create" ELSE "check",
                                       !.template = IF recent = <<>> THEN "none" ELSE Head(recent)]]
      BY <1>1 DEF T!FindTemplate, T!Active, T!Live, Alive, T!Idle, Idle0
    <2>6. PICK a, t : a = (IF recent = <<>> THEN "create" ELSE "check") /\ t = IF recent = <<>> THEN "none" ELSE Head(recent)
      OBVIOUS
    <2>2. PICK q : treeReq' = [treeReq EXCEPT ![r] = q] /\ q = [Idle0 EXCEPT !.target = p, !.pc = a, !.template = t]
      BY <2>5, <2>6
    <2>3. recent # <<>> => Head(recent) \in Listed
      BY <1>0 DEF TreeRows, Listed
    <2>4. q \in ReqOf(Nd) /\ Found(Nd, q)
      <3>1. p \in Nd \cup {"root", "none"} /\ Listed \subseteq Names4
        BY <1>0, ListedNames DEF Alive
      <3>2. q.pc = a /\ q.node = "none" /\ q.target = p /\ q.template = t /\ q.last = "root"
        BY <2>2 DEF Idle0
      <3>3. q \in ReqOf(Nd)
        BY <2>2, <2>3, <2>6, <3>1 DEF ReqOf, Stages, Idle0
      <3> QED BY <2>3, <2>6, <3>2, <3>3 DEF Found
    <2> QED BY <2>1, <2>2, <2>4, ReqOnly
  <1>2. CASE T(Nd, Rq, Kn)!ReadPatch(r)
    <2>1. UNCHANGED <<recent, parent, home>>
      BY <1>2 DEF T!ReadPatch
    <2>2. PICK n \in Alive(Nd), p \in Alive(Nd) :
            /\ T(Nd, Rq, Kn)!ValidParent(p, home[n])
            /\ \E a \in {"update", "spin"} : treeReq' = [treeReq EXCEPT ![r] =
                 [Idle0 EXCEPT !.pc = a, !.node = n, !.target = p, !.template = home[n]]]
      <3>1. PICK n \in Alive(Nd), p \in Alive(Nd) :
            /\ T(Nd, Rq, Kn)!ValidParent(p, home[n])
            /\ \E a \in {"no", "never"} : treeReq' = [treeReq EXCEPT ![r] =
                 [Idle0 EXCEPT !.pc = IF a = "no" THEN "update" ELSE "spin",
                                            !.node = n, !.target = p, !.template = home[n]]]
        BY <1>2 DEF T!ReadPatch, T!Live, Alive, T!Idle, Idle0, T!Descends
      <3> QED BY <3>1
    <2>7. PICK a \in {"update", "spin"} : treeReq' = [treeReq EXCEPT ![r] =
            [Idle0 EXCEPT !.pc = a, !.node = n, !.target = p, !.template = home[n]]]
      BY <2>2
    <2>3. PICK q : /\ treeReq' = [treeReq EXCEPT ![r] = q]
                   /\ q = [Idle0 EXCEPT !.pc = a, !.node = n, !.target = p, !.template = home[n]]
      BY <2>7
    <2>4. n \in Nd /\ p \in Nd /\ home[n] # "none" /\ home[n] \in Listed /\ home[n] \in Names4
      BY <1>0, ListedNames DEF Alive, TreeRows
    <2>5. home[p] = home[n]
      BY <2>2, <2>4 DEF T!ValidParent, Reserved
    <2>6. q \in ReqOf(Nd) /\ Found(Nd, q)
      <3>1. q.pc = a /\ q.node = n /\ q.target = p /\ q.template = home[n] /\ q.last = "root"
        BY <2>3 DEF Idle0
      <3>2. q \in ReqOf(Nd)
        BY <2>3, <2>4 DEF ReqOf, Stages, Idle0
      <3> QED BY <2>4, <2>5, <3>1, <3>2 DEF Found
    <2> QED BY <2>1, <2>3, <2>6, ReqOnly
  <1>3. CASE T(Nd, Rq, Kn)!ReadUnroot(r)
    <2>1. UNCHANGED <<recent, parent, home>>
      BY <1>3 DEF T!ReadUnroot
    <2>5. PICK n \in Alive(Nd) : treeReq' = [treeReq EXCEPT ![r] =
            [Idle0 EXCEPT !.pc = "update", !.node = n, !.target = "root", !.template = home[n]]]
      BY <1>3 DEF T!ReadUnroot, T!Live, Alive, T!Idle, Idle0
    <2>2. PICK q : /\ treeReq' = [treeReq EXCEPT ![r] = q]
                   /\ q = [Idle0 EXCEPT !.pc = "update", !.node = n, !.target = "root", !.template = home[n]]
      BY <2>5
    <2>3. n \in Nd /\ home[n] # "none" /\ home[n] \in Listed /\ home[n] \in Names4
      BY <1>0, ListedNames DEF Alive, TreeRows
    <2>4. q \in ReqOf(Nd) /\ Found(Nd, q)
      <3>1. q.pc = "update" /\ q.node = n /\ q.target = "root" /\ q.template = home[n] /\ q.last = "root"
        BY <2>2 DEF Idle0
      <3>2. q \in ReqOf(Nd)
        BY <2>2, <2>3 DEF ReqOf, Stages, Idle0
      <3> QED BY <2>3, <3>1, <3>2 DEF Found, Reserved
    <2> QED BY <2>1, <2>2, <2>4, ReqOnly
  <1>4. CASE T(Nd, Rq, Kn)!CheckAdd(r)
    <2>1. UNCHANGED <<recent, parent, home>> /\ treeReq[r].pc = "check"
      BY <1>4 DEF T!CheckAdd
    <2>2. CASE T(Nd, Rq, Kn)!End(r)
      BY <2>1, <2>2, ReqEnds
    <2>3. CASE T(Nd, Rq, Kn)!ValidParent(treeReq[r].target, treeReq[r].template) /\ T(Nd, Rq, Kn)!Go(r, "insert")
      <3>1. T(Nd, Rq, Kn)!Go(r, "insert")
        BY <2>3
      <3>2. PICK q \in ReqOf(Nd) : /\ treeReq' = [treeReq EXCEPT ![r] = q] /\ q.pc = "insert"
              /\ q.target = treeReq[r].target /\ q.template = treeReq[r].template
        <4>1. TreeReqs(Nd, Rq) /\ "insert" \in Stages
          BY <1>0 DEF Stages
        <4> QED BY <3>1, <4>1, ReqGoes
      <3>3. Found(Nd, q)
        BY <1>0, <2>1, <2>3, <3>2 DEF Found, T!ValidParent, Reserved
      <3> QED BY <2>1, <3>2, <3>3, ReqOnly
    <2> QED BY <1>4, <2>2, <2>3 DEF T!CheckAdd
  <1>5. CASE T(Nd, Rq, Kn)!Fails(r)
    BY <1>5, ReqEnds DEF T!Fails
  <1> QED BY <1>1, <1>2, <1>3, <1>4, <1>5

\* A template comes to the front of the list, or is new there.
LEMMA Listing ==
  ASSUME NEW Nd, NEW Rq, NEW Kn, Reserved(Nd), TreeInv(Nd, Rq), NEW r \in Rq,
         \/ T(Nd, Rq, Kn)!CreateTemplate(r) \/ T(Nd, Rq, Kn)!Touch(r) \/ T(Nd, Rq, Kn)!ApplyTemplate(r)
  PROVE  TreeInv(Nd, Rq)'
  <1>0. /\ TreeRows(Nd) /\ OneTemplate(Nd) /\ TreeReqs(Nd, Rq) /\ Found(Nd, treeReq[r]) /\ treeReq[r] \in ReqOf(Nd)
        /\ UNCHANGED <<parent, home>>
    BY DEF TreeInv, TreeReqs, T!CreateTemplate, T!Touch, T!ApplyTemplate
  <1>1. ASSUME recent' \in Seq(Names4), \A i, j \in DOMAIN recent' : recent'[i] = recent'[j] => i = j,
               Listed \subseteq Listed'
        PROVE  TreeRows(Nd)' /\ OneTemplate(Nd)'
    BY <1>0, <1>1 DEF TreeRows, OneTemplate, Alive
  <1>2. ASSUME NEW t \in Names4 \ Listed, recent' = <<t>> \o recent
        PROVE  /\ recent' \in Seq(Names4) /\ \A i, j \in DOMAIN recent' : recent'[i] = recent'[j] => i = j
               /\ Listed' = Listed \cup {t}
    <2>1. /\ recent \in Seq(Names4) /\ Len(recent) \in Nat /\ DOMAIN recent = 1 .. Len(recent)
          /\ \A i, j \in DOMAIN recent : recent[i] = recent[j] => i = j
      BY <1>0 DEF TreeRows
    <2>2. <<t>> \in Seq(Names4) /\ Len(<<t>>) = 1 /\ <<t>>[1] = t
      OBVIOUS
    <2>3. /\ recent' \in Seq(Names4) /\ Len(recent') = Len(recent) + 1 /\ DOMAIN recent' = 1 .. Len(recent) + 1
          /\ recent'[1] = t /\ \A i \in 1 .. Len(recent) : recent'[i + 1] = recent[i]
      BY <1>2, <2>1, <2>2
    <2>4. \A i \in DOMAIN recent' : i = 1 \/ (i - 1 \in DOMAIN recent /\ recent'[i] = recent[i - 1])
      BY <2>1, <2>3
    <2>5. \A i \in DOMAIN recent : recent[i] # t
      BY <1>2 DEF Listed
    <2>6. \A i, j \in DOMAIN recent' : recent'[i] = recent'[j] => i = j
      BY <2>1, <2>3, <2>4, <2>5
    <2>7. Listed' = Listed \cup {t}
      <3>1. Listed' \subseteq Listed \cup {t}
        BY <2>3, <2>4 DEF Listed
      <3>2. t \in Listed'
        BY <2>1, <2>3 DEF Listed
      <3>3. Listed \subseteq Listed'
        <4>1. \A i \in DOMAIN recent : i + 1 \in DOMAIN recent' /\ recent'[i + 1] = recent[i]
          BY <2>1, <2>3
        <4> QED BY <4>1 DEF Listed
      <3> QED BY <3>1, <3>2, <3>3
    <2> QED BY <2>3, <2>6, <2>7
  <1>3. CASE T(Nd, Rq, Kn)!CreateTemplate(r)
    <2>1. CASE T(Nd, Rq, Kn)!End(r) /\ UNCHANGED recent
      BY <1>0, <2>1, ReqEnds
    <2>2. CASE /\ "principal" \notin Listed /\ recent' = <<"principal">> \o recent
               /\ treeReq' = [treeReq EXCEPT ![r].pc = "check", ![r].template = "principal"]
      <3>1. /\ TreeRows(Nd)' /\ OneTemplate(Nd)' /\ Listed' = Listed \cup {"principal"}
        BY <1>1, <1>2, <2>2 DEF Names4
      <3>2. PICK q : q = [treeReq[r] EXCEPT !.pc = "check", !.template = "principal"]
        OBVIOUS
      <3>3. treeReq' = [treeReq EXCEPT ![r] = q]
        BY <1>0, <2>2, <3>2 DEF TreeReqs
      <3>4. q \in ReqOf(Nd) /\ q.pc = "check" /\ q.template = "principal"
        BY <1>0, <3>2 DEF ReqOf, Names4, Stages
      <3>5. Found(Nd, q)'
        BY <3>1, <3>4 DEF Found
      <3> QED BY <1>0, <3>1, <3>3, <3>4, <3>5, ReqMoves
    <2> QED BY <1>3, <2>1, <2>2, TreeNames DEF T!CreateTemplate
  <1>4. CASE T(Nd, Rq, Kn)!Touch(r)
    <2>1. PICK t \in Listed : recent' = T(Nd, Rq, Kn)!ToFront(t) /\ T(Nd, Rq, Kn)!End(r)
      BY <1>0, <1>4 DEF T!Touch, Found
    <2>2. TreeRows(Nd)' /\ OneTemplate(Nd)' /\ Listed' = Listed
      BY <1>0, <1>1, <2>1, FrontFacts
    <2>3. PICK q \in ReqOf(Nd) : q.pc = "idle" /\ treeReq' = [treeReq EXCEPT ![r] = q]
      BY <2>1 DEF T!End, T!Idle, ReqOf, Stages
    <2>4. Found(Nd, q)'
      BY <2>3 DEF Found
    <2> QED BY <1>0, <2>2, <2>3, <2>4, ReqMoves
  <1>5. CASE T(Nd, Rq, Kn)!ApplyTemplate(r)
    <2>5. PICK a \in {"refused", "apply"} :
            /\ treeReq' = [treeReq EXCEPT ![r] = [Idle0 EXCEPT !.pc = a, !.template = "cil"]]
            /\ \/ a = "refused" /\ UNCHANGED recent
               \/ a = "apply" /\ "cil" \notin Listed /\ recent' = <<"cil">> \o recent
      BY <1>5 DEF T!ApplyTemplate, T!Names, Listed, T!Idle, Idle0
    <2>1. PICK q : treeReq' = [treeReq EXCEPT ![r] = q] /\ q = [Idle0 EXCEPT !.pc = a, !.template = "cil"]
      BY <2>5
    <2>6. q.pc = a /\ q.node = "none" /\ q.target = "none" /\ q.template = "cil" /\ q.last = "root"
      BY <2>1 DEF Idle0
    <2>2. q \in ReqOf(Nd) /\ q.template = "cil" /\ q.last = "root"
      BY <2>1, <2>6 DEF ReqOf, Names4, Stages, Idle0
    <2>3. CASE q.pc = "refused" /\ UNCHANGED recent
      <3>1. Found(Nd, q)
        BY <2>3 DEF Found
      <3> QED BY <1>0, <2>1, <2>2, <2>3, <3>1, ReqOnly
    <2>4. CASE q.pc = "apply" /\ "cil" \notin Listed /\ recent' = <<"cil">> \o recent
      <3>1. TreeRows(Nd)' /\ OneTemplate(Nd)' /\ Listed' = Listed \cup {"cil"}
        BY <1>1, <1>2, <2>4 DEF Names4
      <3>2. Found(Nd, q)'
        BY <2>2, <2>4, <3>1 DEF Found, Reserved
      <3> QED BY <1>0, <2>1, <2>2, <3>1, <3>2, ReqMoves
    <2> QED BY <2>3, <2>4, <2>5, <2>6
  <1> QED BY <1>3, <1>4, <1>5

\* An operation is inserted, moved or deleted.
LEMMA Writing ==
  ASSUME NEW Nd, NEW Rq, NEW Kn, Reserved(Nd), TreeInv(Nd, Rq), NEW r \in Rq,
         \/ T(Nd, Rq, Kn)!InsertNode(r) \/ T(Nd, Rq, Kn)!UpdateNode(r)
         \/ T(Nd, Rq, Kn)!DeleteNode(r) \/ T(Nd, Rq, Kn)!ApplyNode(r)
  PROVE  TreeInv(Nd, Rq)'
  <1>0. /\ TreeRows(Nd) /\ OneTemplate(Nd) /\ TreeReqs(Nd, Rq) /\ Found(Nd, treeReq[r]) /\ treeReq[r] \in ReqOf(Nd)
        /\ UNCHANGED recent
    BY DEF TreeInv, TreeReqs, T!InsertNode, T!UpdateNode, T!DeleteNode, T!ApplyNode
  <1>1. CASE T(Nd, Rq, Kn)!InsertNode(r)
    <2>1. CASE T(Nd, Rq, Kn)!End(r) /\ UNCHANGED <<parent, home>>
      BY <1>0, <2>1, ReqEnds
    <2>2. CASE /\ T(Nd, Rq, Kn)!KeyHolds(treeReq[r].target) /\ T(Nd, Rq, Kn)!Go(r, "touch")
               /\ \E n \in Nd : parent[n] = "unborn" /\ T(Nd, Rq, Kn)!Insert(n, treeReq[r].target, treeReq[r].template)
      <3>7. PICK p \in Alive(Nd) \cup {"root"} : p = treeReq[r].target
        BY <2>2, TreeNames DEF T!KeyHolds
      <3>8. PICK t \in Listed : t = treeReq[r].template
        BY <1>0, <1>1 DEF T!InsertNode, Found
      <3>1. PICK n \in Nd :
              /\ parent[n] = "unborn" /\ T(Nd, Rq, Kn)!Insert(n, p, t)
              /\ p = treeReq[r].target /\ t = treeReq[r].template
        BY <2>2, <3>7, <3>8
      <3>2. p \in Nd => home[p] = t
        BY <1>0, <1>1, <3>1 DEF Found, T!InsertNode
      <3>3. TreeRows(Nd)' /\ OneTemplate(Nd)' /\ Listed' = Listed /\ \A m \in Nd : home[m] # "none" => home'[m] = home[m]
        <4>1. Birth(Nd, Rq, Kn, n, p, t)
          BY <1>0, <3>1, <3>7, <3>8, <3>2 DEF Birth
        <4> QED BY <4>1, Born
      <3>4. T(Nd, Rq, Kn)!Go(r, "touch")
        BY <2>2
      <3>5. PICK q \in ReqOf(Nd) : treeReq' = [treeReq EXCEPT ![r] = q] /\ q.pc = "touch" /\ q.template = t
        <4>1. TreeReqs(Nd, Rq) /\ "touch" \in Stages
          BY <1>0 DEF Stages
        <4> QED BY <3>1, <3>4, <4>1, ReqGoes
      <3>6. Found(Nd, q)'
        BY <3>3, <3>5 DEF Found
      <3> QED BY <3>3, <3>5, <3>6, ReqMoves
    <2> QED BY <1>1, <2>1, <2>2 DEF T!InsertNode
  <1>2. CASE T(Nd, Rq, Kn)!UpdateNode(r)
    <2>1. CASE T(Nd, Rq, Kn)!End(r) /\ UNCHANGED parent
      BY <1>0, <1>2, <2>1, ReqEnds DEF T!UpdateNode
    <2>2. CASE /\ treeReq[r].node \in Alive(Nd) /\ T(Nd, Rq, Kn)!KeyHolds(treeReq[r].target)
               /\ parent' = [parent EXCEPT ![treeReq[r].node] = treeReq[r].target] /\ T(Nd, Rq, Kn)!Go(r, "touch")
      <3>1. PICK n \in Alive(Nd), p \in Alive(Nd) \cup {"root"} :
              n = treeReq[r].node /\ p = treeReq[r].target /\ parent' = [parent EXCEPT ![n] = p]
        BY <2>2, TreeNames DEF T!KeyHolds
      <3>2. (p \in Nd => home[p] = home[n]) /\ UNCHANGED home /\ treeReq[r].template \in Listed
        BY <1>0, <1>2, <3>1 DEF Found, T!UpdateNode
      <3>3. TreeRows(Nd)' /\ OneTemplate(Nd)' /\ Listed' = Listed
        BY <1>0, <3>1, <3>2, MovedUnder
      <3>4. T(Nd, Rq, Kn)!Go(r, "touch")
        BY <2>2
      <3>5. PICK q \in ReqOf(Nd) : treeReq' = [treeReq EXCEPT ![r] = q] /\ q.pc = "touch" /\ q.template = treeReq[r].template
        <4>1. TreeReqs(Nd, Rq) /\ "touch" \in Stages
          BY <1>0 DEF Stages
        <4> QED BY <3>4, <4>1, ReqGoes
      <3>6. Found(Nd, q)'
        BY <3>2, <3>3, <3>5 DEF Found
      <3> QED BY <3>2, <3>3, <3>5, <3>6, ReqMoves
    <2> QED BY <1>2, <2>1, <2>2, TreeNames DEF T!UpdateNode
  <1>3. CASE T(Nd, Rq, Kn)!DeleteNode(r)
    <2>5. PICK n \in Alive(Nd) :
            /\ parent' = [m \in Nd |-> IF m \in T(Nd, Rq, Kn)!Below(n) \cup {n} THEN "deleted" ELSE parent[m]]
            /\ treeReq' = [treeReq EXCEPT ![r] = [Idle0 EXCEPT !.pc = "touch", !.template = home[n]]]
            /\ UNCHANGED home
      BY <1>3 DEF T!DeleteNode, T!Live, Alive, T!Idle, Idle0
    <2>1. PICK q : treeReq' = [treeReq EXCEPT ![r] = q] /\ q = [Idle0 EXCEPT !.pc = "touch", !.template = home[n]]
      BY <2>5
    <2>2. TreeRows(Nd)' /\ OneTemplate(Nd)' /\ Listed' = Listed
      BY <1>0, <2>5, GoneWhole
    <2>3. home[n] \in Listed /\ home[n] \in Names4
      BY <1>0, ListedNames DEF Alive, TreeRows
    <2>4. q \in ReqOf(Nd) /\ Found(Nd, q)'
      <3>1. q.pc = "touch" /\ q.template = home[n]
        BY <2>1 DEF Idle0
      <3>2. q \in ReqOf(Nd)
        BY <2>1, <2>3 DEF ReqOf, Stages, Idle0
      <3> QED BY <2>2, <2>3, <3>1, <3>2 DEF Found
    <2>6. \A m \in Nd : home'[m] = home[m]
      BY <2>5
    <2> QED BY <2>1, <2>2, <2>4, <2>6, ReqMoves
  <1>4. CASE T(Nd, Rq, Kn)!ApplyNode(r)
    <2>1. CASE T(Nd, Rq, Kn)!End(r) /\ UNCHANGED <<parent, home>>
      BY <1>0, <2>1, ReqEnds
    <2>2. CASE /\ T(Nd, Rq, Kn)!KeyHolds(treeReq[r].last)
               /\ \E n \in Nd : /\ parent[n] = "unborn" /\ T(Nd, Rq, Kn)!Insert(n, treeReq[r].last, treeReq[r].template)
                                /\ \E c \in BOOLEAN : treeReq' = [treeReq EXCEPT ![r] =
                                     IF c THEN T(Nd, Rq, Kn)!Idle ELSE [treeReq[r] EXCEPT !.last = n]]
      <3>7. PICK p \in Alive(Nd) \cup {"root"} : p = treeReq[r].last
        BY <2>2, TreeNames DEF T!KeyHolds
      <3>8. PICK t \in Listed : t = treeReq[r].template
        BY <1>0, <1>4 DEF T!ApplyNode, Found
      <3>1. PICK n \in Nd :
              /\ parent[n] = "unborn" /\ T(Nd, Rq, Kn)!Insert(n, p, t)
              /\ p = treeReq[r].last /\ t = treeReq[r].template
              /\ \E c \in BOOLEAN : treeReq' = [treeReq EXCEPT ![r] =
                                     IF c THEN T(Nd, Rq, Kn)!Idle ELSE [treeReq[r] EXCEPT !.last = n]]
        BY <2>2, <3>7, <3>8
      <3>2. (p \in Nd => home[p] = t) /\ treeReq[r].pc = "apply"
        BY <1>0, <1>4, <3>1 DEF Found, T!ApplyNode
      <3>9. p \in Nd => home[p] = t
        BY <3>2
      <3>10. TreeRows(Nd)' /\ OneTemplate(Nd)' /\ Listed' = Listed /\ \A m \in Nd : home[m] # "none" => home'[m] = home[m]
        <4>1. Birth(Nd, Rq, Kn, n, p, t)
          BY <1>0, <3>1, <3>7, <3>8, <3>9 DEF Birth
        <4> QED BY <4>1, Born
      <3>11. home'[n] = t
        BY <1>0, <3>1 DEF TreeRows, T!Insert
      <3>3. /\ TreeRows(Nd)' /\ OneTemplate(Nd)' /\ Listed' = Listed /\ home'[n] = t
            /\ \A m \in Nd : home[m] # "none" => home'[m] = home[m]
        BY <3>10, <3>11
      <3>4. PICK q : /\ treeReq' = [treeReq EXCEPT ![r] = q]
                     /\ q = T(Nd, Rq, Kn)!Idle \/ q = [treeReq[r] EXCEPT !.last = n]
        BY <3>1
      <3>5. CASE q = T(Nd, Rq, Kn)!Idle
        <4>1. q \in ReqOf(Nd) /\ q.pc = "idle"
          BY <3>5 DEF ReqOf, Stages, T!Idle
        <4>2. Found(Nd, q)'
          BY <4>1 DEF Found
        <4> QED BY <3>3, <3>4, <4>1, <4>2, ReqMoves
      <3>6. CASE q = [treeReq[r] EXCEPT !.last = n]
        <4>1. q \in ReqOf(Nd) /\ q.pc = "apply" /\ q.last = n /\ q.template = t
          BY <1>0, <3>1, <3>2, <3>6 DEF ReqOf
        <4>2. Found(Nd, q)'
          BY <3>3, <4>1 DEF Found
        <4> QED BY <3>3, <3>4, <4>1, <4>2, ReqMoves
      <3> QED BY <3>4, <3>5, <3>6
    <2> QED BY <1>4, <2>1, <2>2 DEF T!ApplyNode
  <1> QED BY <1>1, <1>2, <1>3, <1>4

\* Every step of any request keeps the rows and what was found.
LEMMA TreeMoves ==
  ASSUME NEW Nd, NEW Rq, NEW Kn, Reserved(Nd), TreeInv(Nd, Rq), T(Nd, Rq, Kn)!Next
  PROVE  TreeInv(Nd, Rq)'
  BY ReadingKeeps, Listing, Writing DEF T!Next, T!Step

-----------------------------------------------------------------------------
(* One user alone: the operations of a template are a tree with one root.   *)

\* Every set of operations has one whose parent is outside: no cycle.
Grounded(Nd) == \A S \in SUBSET Alive(Nd) : S # {} => \E x \in S : parent[x] \notin S
OneRootEach(Nd) == \A x, y \in Alive(Nd) :
  parent[x] = "root" /\ parent[y] = "root" /\ home[x] = home[y] => x = y
\* What the one request has found out of the tree holds when it writes.
FoundAlone(Nd, Rq, Kn, q) ==
  /\ q.pc = "update" => q.target \in Nd /\ q.target # q.node /\ q.target \notin T(Nd, Rq, Kn)!Below(q.node)
  /\ q.pc = "insert" /\ q.target = "root" => \A x \in Alive(Nd) : home[x] = q.template => parent[x] # "root"
  /\ q.pc = "apply" /\ q.last = "root" => \A x \in Nd : home[x] # q.template
AloneInv(Nd, r, Kn) ==
  /\ TreeInv(Nd, {r}) /\ Grounded(Nd) /\ OneRootEach(Nd)
  /\ FoundAlone(Nd, {r}, Kn, treeReq[r])

\* It holds before there is an operation.
LEMMA AloneInit ==
  ASSUME NEW Nd, NEW r, NEW Kn, Reserved(Nd), T(Nd, {r}, Kn)!Init
  PROVE  AloneInv(Nd, r, Kn)
  <1>1. TreeInv(Nd, {r})
    BY TreeInit
  <1>2. Alive(Nd) = {}
    BY DEF T!Init, Alive
  <1>3. treeReq[r].pc = "idle"
    BY DEF T!Init, T!Idle
  <1> QED BY <1>1, <1>2, <1>3 DEF AloneInv, Grounded, OneRootEach, FoundAlone

\* The parent of what is below an operation is it or is below it too.
LEMMA BelowParents ==
  ASSUME NEW Nd, NEW Rq, NEW Kn, NEW n \in Nd
  PROVE  \A x \in T(Nd, Rq, Kn)!Below(n) : x \in Alive(Nd) /\ parent[x] \in T(Nd, Rq, Kn)!Below(n) \cup {n}
  <1>1. PICK B : B = T(Nd, Rq, Kn)!Below(n)
    OBVIOUS
  <1>2. B \subseteq Nd /\ \A m \in Alive(Nd) : parent[m] \in B \cup {n} => m \in B
    BY <1>1, BelowClosed
  <1>3. PICK S : S = {x \in B : x \in Alive(Nd) /\ parent[x] \in B \cup {n}}
    OBVIOUS
  <1>4. S \in SUBSET Nd
    BY <1>2, <1>3
  <1>5. T(Nd, Rq, Kn)!Children(S \cup {n}) \subseteq S
    BY <1>2, <1>3, TreeNames DEF T!Children
  <1>6. \A x \in B : x \in S
    BY <1>1, <1>4, <1>5 DEF T!Below
  <1> QED BY <1>1, <1>3, <1>6

\* A birth, a move and a deletion leave no cycle.
LEMMA BornGrounded ==
  ASSUME NEW Nd, OneTemplate(Nd), Reserved(Nd), Grounded(Nd), NEW n \in Nd, n \notin Alive(Nd),
         Alive(Nd)' = Alive(Nd) \cup {n}, parent'[n] \in Alive(Nd) \cup {"root"},
         \A m \in Nd : m # n => parent'[m] = parent[m]
  PROVE  Grounded(Nd)'
  <1>1. ASSUME NEW S \in SUBSET (Alive(Nd)'), S # {} PROVE \E x \in S : parent'[x] \notin S
    <2>1. CASE S \ {n} = {}
      <3>1. S = {n} /\ n # "root"
        BY <1>1, <2>1 DEF Reserved
      <3> QED BY <3>1
    <2>2. CASE S \ {n} # {}
      <3>1. S \ {n} \in SUBSET Alive(Nd)
        BY <1>1
      <3>2. PICK x \in S \ {n} : parent[x] \notin S \ {n}
        BY <2>2, <3>1 DEF Grounded
      <3>3. x \in Alive(Nd) /\ x \in Nd /\ parent'[x] = parent[x]
        BY <3>1, <3>2 DEF Alive
      <3>4. parent[x] # n
        BY <3>3 DEF OneTemplate
      <3> QED BY <3>2, <3>3, <3>4
    <2> QED BY <2>1, <2>2
  <1> QED BY <1>1 DEF Grounded

\* An operation moved where it is not below leaves no cycle.
LEMMA MovedGrounded ==
  ASSUME NEW Nd, NEW Rq, NEW Kn, Grounded(Nd), NEW n \in Alive(Nd), NEW p, p # n, p \notin T(Nd, Rq, Kn)!Below(n),
         Alive(Nd)' = Alive(Nd), parent'[n] = p, \A m \in Nd : m # n => parent'[m] = parent[m]
  PROVE  Grounded(Nd)'
  <1>1. PICK B : B = T(Nd, Rq, Kn)!Below(n) \cup {n}
    OBVIOUS
  <1>2. p \notin B /\ n \in B /\ \A m \in Alive(Nd) : parent[m] \in B => m \in B
    BY <1>1, BelowClosed
  <1>3. ASSUME NEW S \in SUBSET (Alive(Nd)'), S # {} PROVE \E x \in S : parent'[x] \notin S
    <2>0. \A x \in S : x # n => parent'[x] = parent[x]
      BY DEF Alive
    <2>1. CASE S \ B # {}
      <3>1. S \ B \in SUBSET Alive(Nd)
        BY <1>3
      <3>2. PICK x \in S \ B : parent[x] \notin S \ B
        BY <2>1, <3>1 DEF Grounded
      <3> QED BY <1>2, <2>0, <3>1, <3>2
    <2>2. CASE S \ B = {} /\ n \in S
      BY <1>2, <2>2
    <2>3. CASE n \notin S
      <3>1. S \in SUBSET Alive(Nd)
        BY <1>3
      <3>2. PICK x \in S : parent[x] \notin S
        BY <1>3, <3>1 DEF Grounded
      <3> QED BY <2>0, <2>3, <3>2
    <2> QED BY <2>1, <2>2, <2>3
  <1> QED BY <1>3 DEF Grounded

\* Nor does the deletion of an operation with all below it.
LEMMA FewerGrounded ==
  ASSUME NEW Nd, Grounded(Nd), OneRootEach(Nd), Alive(Nd)' \subseteq Alive(Nd),
         \A m \in Alive(Nd)' : parent'[m] = parent[m] /\ home'[m] = home[m]
  PROVE  Grounded(Nd)' /\ OneRootEach(Nd)'
  <1>1. ASSUME NEW S \in SUBSET (Alive(Nd)'), S # {} PROVE \E x \in S : parent'[x] \notin S
    <2>1. S \in SUBSET Alive(Nd)
      OBVIOUS
    <2>2. PICK x \in S : parent[x] \notin S
      BY <1>1, <2>1 DEF Grounded
    <2> QED BY <2>2
  <1>2. OneRootEach(Nd)'
    BY DEF OneRootEach
  <1> QED BY <1>1, <1>2 DEF Grounded

\* It speaks of the rows alone.
LEMMA AloneStill ==
  ASSUME NEW Nd, NEW r, NEW Kn, AloneInv(Nd, r, Kn), UNCHANGED <<parent, home>>
  PROVE  Grounded(Nd)' /\ OneRootEach(Nd)' /\ Alive(Nd)' = Alive(Nd)
  <1>1. Alive(Nd)' = Alive(Nd)
    BY DEF Alive
  <1> QED BY <1>1, FewerGrounded DEF AloneInv, Alive

\* The steps that leave the tree as it is.
LEMMA AloneReads ==
  ASSUME NEW Nd, NEW r, NEW Kn, Reserved(Nd), "unroot" \notin Kn, AloneInv(Nd, r, Kn), TreeInv(Nd, {r})',
         \/ T(Nd, {r}, Kn)!FindTemplate(r) \/ T(Nd, {r}, Kn)!ReadPatch(r) \/ T(Nd, {r}, Kn)!ReadUnroot(r)
         \/ T(Nd, {r}, Kn)!CheckAdd(r) \/ T(Nd, {r}, Kn)!Fails(r) \/ T(Nd, {r}, Kn)!CreateTemplate(r)
         \/ T(Nd, {r}, Kn)!Touch(r) \/ T(Nd, {r}, Kn)!ApplyTemplate(r)
  PROVE  AloneInv(Nd, r, Kn)'
  <1>1. UNCHANGED <<parent, home>>
    BY DEF T!FindTemplate, T!ReadPatch, T!ReadUnroot, T!CheckAdd, T!Fails, T!CreateTemplate, T!Touch, T!ApplyTemplate
  <1>2. Grounded(Nd)' /\ OneRootEach(Nd)' /\ Alive(Nd)' = Alive(Nd)
    BY <1>1, AloneStill
  <1>3. TreeReqs(Nd, {r}) /\ treeReq \in [{r} -> ReqOf(Nd)] /\ treeReq[r] \in ReqOf(Nd) /\ TreeRows(Nd)
    BY DEF AloneInv, TreeInv, TreeReqs
  <1>4. SUFFICES FoundAlone(Nd, {r}, Kn, treeReq[r])'
    BY <1>2 DEF AloneInv
  <1>5. ASSUME treeReq'[r].pc \notin {"update", "insert", "apply"} PROVE FoundAlone(Nd, {r}, Kn, treeReq[r])'
    BY <1>5 DEF FoundAlone
  <1>6. ASSUME T(Nd, {r}, Kn)!End(r) PROVE FoundAlone(Nd, {r}, Kn, treeReq[r])'
    <2>1. treeReq'[r].pc = "idle"
      BY <1>3, <1>6 DEF T!End, T!Idle
    <2> QED BY <1>5, <2>1
  <1>7. CASE T(Nd, {r}, Kn)!FindTemplate(r)
    <2>5. PICK p \in Alive(Nd) \cup {"root"} : treeReq' = [treeReq EXCEPT ![r] =
            [Idle0 EXCEPT !.target = p, !.pc = IF recent = <<>> THEN "create" ELSE "check",
                                       !.template = IF recent = <<>> THEN "none" ELSE Head(recent)]]
      BY <1>7 DEF T!FindTemplate, T!Active, T!Live, Alive, T!Idle, Idle0
    <2>1. treeReq'[r].pc \in {"create", "check"}
      BY <1>3, <2>5 DEF Idle0
    <2> QED BY <1>5, <2>1
  <1>8. CASE T(Nd, {r}, Kn)!ReadPatch(r)
    <2>1. PICK n \in Alive(Nd), p \in Alive(Nd), a \in {"yes", "no", "never"} :
            /\ p # n /\ (a = "no" => p \notin T(Nd, {r}, Kn)!Below(n))
            /\ treeReq' = [treeReq EXCEPT ![r] =
                 [Idle0 EXCEPT !.pc = IF a = "no" THEN "update" ELSE "spin",
                               !.node = n, !.target = p, !.template = home[n]]]
      BY <1>8 DEF T!ReadPatch, T!Live, Alive, T!Idle, Idle0, T!Descends, T!InSubtree
    <2>2. /\ treeReq'[r].pc = IF a = "no" THEN "update" ELSE "spin"
          /\ treeReq'[r].node = n /\ treeReq'[r].target = p
      BY <1>3, <2>1 DEF Idle0
    <2>3. T(Nd, {r}, Kn)!Below(n)' = T(Nd, {r}, Kn)!Below(n)
      BY <1>1 DEF T!Below, T!Children, T!Live
    <2>4. CASE a = "no"
      <3>1. p \in Nd /\ p # n /\ p \notin T(Nd, {r}, Kn)!Below(n)
        BY <2>1, <2>4 DEF Alive
      <3> QED BY <2>2, <2>3, <2>4, <3>1 DEF FoundAlone
    <2>5. CASE a # "no"
      BY <1>5, <2>2, <2>5
    <2> QED BY <2>4, <2>5
  <1>9. CASE T(Nd, {r}, Kn)!ReadUnroot(r)
    BY <1>9 DEF T!ReadUnroot
  <1>10. CASE T(Nd, {r}, Kn)!CheckAdd(r)
    <2>1. CASE T(Nd, {r}, Kn)!End(r)
      BY <1>6, <2>1
    <2>2. CASE /\ treeReq[r].target = "root" => T(Nd, {r}, Kn)!Roots(treeReq[r].template) = {}
               /\ T(Nd, {r}, Kn)!Go(r, "insert")
      <3>0. T(Nd, {r}, Kn)!Go(r, "insert") /\ "insert" \in Stages
        BY <2>2 DEF Stages
      <3>1. PICK q \in ReqOf(Nd) : /\ treeReq' = [treeReq EXCEPT ![r] = q] /\ q.pc = "insert"
              /\ q.target = treeReq[r].target /\ q.template = treeReq[r].template
        BY <1>3, <3>0, ReqGoes
      <3>2. treeReq'[r] = q
        BY <1>3, <3>1
      <3>3. q.target = "root" => \A x \in Alive(Nd) : home[x] = q.template => parent[x] # "root"
        BY <2>2, <3>1 DEF T!Roots, T!Live, Alive
      <3> QED BY <1>1, <1>2, <3>1, <3>2, <3>3 DEF FoundAlone
    <2> QED BY <1>10, <2>1, <2>2 DEF T!CheckAdd
  <1>11. CASE T(Nd, {r}, Kn)!Fails(r)
    BY <1>6, <1>11 DEF T!Fails
  <1>12. CASE T(Nd, {r}, Kn)!CreateTemplate(r)
    <2>1. CASE T(Nd, {r}, Kn)!End(r)
      BY <1>6, <2>1
    <2>2. CASE treeReq' = [treeReq EXCEPT ![r].pc = "check", ![r].template = "principal"]
      <3>1. treeReq'[r].pc = "check"
        BY <1>3, <2>2 DEF ReqOf
      <3> QED BY <1>5, <3>1
    <2> QED BY <1>12, <2>1, <2>2 DEF T!CreateTemplate
  <1>13. CASE T(Nd, {r}, Kn)!Touch(r)
    BY <1>6, <1>13 DEF T!Touch
  <1>14. CASE T(Nd, {r}, Kn)!ApplyTemplate(r)
    <2>1. PICK a \in {"refused", "apply"} :
            /\ treeReq' = [treeReq EXCEPT ![r] = [Idle0 EXCEPT !.pc = a, !.template = "cil"]]
            /\ a = "apply" => "cil" \notin Listed
      BY <1>14 DEF T!ApplyTemplate, T!Names, Listed, T!Idle, Idle0
    <2>2. treeReq'[r].pc = a /\ treeReq'[r].template = "cil"
      BY <1>3, <2>1 DEF Idle0
    <2>3. a = "apply" => \A x \in Nd : home[x] # "cil"
      BY <1>3, <2>1 DEF TreeRows
    <2> QED BY <1>1, <2>1, <2>2, <2>3 DEF FoundAlone
  <1> QED BY <1>7, <1>8, <1>9, <1>10, <1>11, <1>12, <1>13, <1>14

\* An operation is born a root only where there is none.
LEMMA BornRoot ==
  ASSUME NEW Nd, OneRootEach(Nd), Reserved(Nd), NEW n \in Nd, NEW p, NEW t,
         p = "root" => \A x \in Alive(Nd) : home[x] = t => parent[x] # "root",
         parent'[n] = p, home'[n] = t, Alive(Nd)' = Alive(Nd) \cup {n}, n \notin Alive(Nd),
         \A m \in Nd : m # n => parent'[m] = parent[m] /\ home'[m] = home[m]
  PROVE  OneRootEach(Nd)'
  <1>1. \A x \in Alive(Nd) : x # n /\ parent'[x] = parent[x] /\ home'[x] = home[x]
    BY DEF Alive
  <1>2. \A x, y \in Alive(Nd) \cup {n} :
          parent'[x] = "root" /\ parent'[y] = "root" /\ home'[x] = home'[y] => x = y
    BY <1>1 DEF OneRootEach
  <1> QED BY <1>2 DEF OneRootEach

\* The steps that write the tree.
LEMMA AloneWrites ==
  ASSUME NEW Nd, NEW r, NEW Kn, Reserved(Nd), AloneInv(Nd, r, Kn), TreeInv(Nd, {r})',
         \/ T(Nd, {r}, Kn)!InsertNode(r) \/ T(Nd, {r}, Kn)!UpdateNode(r)
         \/ T(Nd, {r}, Kn)!DeleteNode(r) \/ T(Nd, {r}, Kn)!ApplyNode(r)
  PROVE  AloneInv(Nd, r, Kn)'
  <1>1. /\ TreeReqs(Nd, {r}) /\ treeReq \in [{r} -> ReqOf(Nd)] /\ treeReq[r] \in ReqOf(Nd)
        /\ TreeRows(Nd) /\ OneTemplate(Nd) /\ Grounded(Nd) /\ OneRootEach(Nd)
        /\ Found(Nd, treeReq[r]) /\ FoundAlone(Nd, {r}, Kn, treeReq[r]) /\ UNCHANGED recent
    BY DEF AloneInv, TreeInv, TreeReqs, T!InsertNode, T!UpdateNode, T!DeleteNode, T!ApplyNode
  <1>2. ASSUME Grounded(Nd)', OneRootEach(Nd)', treeReq'[r].pc \notin {"update", "insert", "apply"}
        PROVE  AloneInv(Nd, r, Kn)'
    BY <1>2 DEF AloneInv, FoundAlone
  <1>3. ASSUME T(Nd, {r}, Kn)!End(r), UNCHANGED <<parent, home>> PROVE AloneInv(Nd, r, Kn)'
    <2>1. treeReq'[r].pc = "idle"
      BY <1>1, <1>3 DEF T!End, T!Idle
    <2> QED BY <1>2, <1>3, <2>1, AloneStill
  <1>4. ASSUME T(Nd, {r}, Kn)!Go(r, "touch") PROVE treeReq'[r].pc = "touch"
    BY <1>1, <1>4 DEF T!Go, ReqOf
  <1>5. CASE T(Nd, {r}, Kn)!InsertNode(r)
    <2>1. CASE T(Nd, {r}, Kn)!End(r) /\ UNCHANGED <<parent, home>>
      BY <1>3, <2>1
    <2>2. CASE /\ T(Nd, {r}, Kn)!KeyHolds(treeReq[r].target) /\ T(Nd, {r}, Kn)!Go(r, "touch")
               /\ \E n \in Nd : parent[n] = "unborn" /\ T(Nd, {r}, Kn)!Insert(n, treeReq[r].target, treeReq[r].template)
      <3>1. PICK p \in Alive(Nd) \cup {"root"} : p = treeReq[r].target
        BY <2>2, TreeNames DEF T!KeyHolds
      <3>2. PICK t \in Listed : t = treeReq[r].template
        BY <1>1, <1>5 DEF T!InsertNode, Found
      <3>3. PICK n \in Nd :
              /\ parent[n] = "unborn" /\ T(Nd, {r}, Kn)!Insert(n, p, t)
              /\ p = treeReq[r].target /\ t = treeReq[r].template
        BY <2>2, <3>1, <3>2
      <3>4. p \in Nd => home[p] = t
        BY <1>1, <1>5, <3>3 DEF Found, T!InsertNode
      <3>5. p = "root" => \A x \in Alive(Nd) : home[x] = t => parent[x] # "root"
        BY <1>1, <1>5, <3>3 DEF FoundAlone, T!InsertNode
      <3>6. /\ parent'[n] = p /\ home'[n] = t /\ Alive(Nd)' = Alive(Nd) \cup {n} /\ n \notin Alive(Nd)
            /\ \A m \in Nd : m # n => parent'[m] = parent[m] /\ home'[m] = home[m]
        <4>1. Birth(Nd, {r}, Kn, n, p, t)
          BY <1>1, <3>1, <3>2, <3>3, <3>4 DEF Birth
        <4> QED BY <4>1, Born
      <3>7. Grounded(Nd)'
        BY <1>1, <3>6, BornGrounded
      <3>8. OneRootEach(Nd)'
        BY <1>1, <3>5, <3>6, BornRoot
      <3> QED BY <1>2, <1>4, <2>2, <3>7, <3>8
    <2> QED BY <1>5, <2>1, <2>2 DEF T!InsertNode
  <1>6. CASE T(Nd, {r}, Kn)!UpdateNode(r)
    <2>1. CASE T(Nd, {r}, Kn)!End(r) /\ UNCHANGED parent
      BY <1>3, <1>6, <2>1 DEF T!UpdateNode
    <2>2. CASE /\ treeReq[r].node \in Alive(Nd) /\ T(Nd, {r}, Kn)!KeyHolds(treeReq[r].target)
               /\ parent' = [parent EXCEPT ![treeReq[r].node] = treeReq[r].target] /\ T(Nd, {r}, Kn)!Go(r, "touch")
      <3>1. PICK n \in Alive(Nd), p \in Alive(Nd) \cup {"root"} :
              n = treeReq[r].node /\ p = treeReq[r].target /\ parent' = [parent EXCEPT ![n] = p]
        BY <2>2, TreeNames DEF T!KeyHolds
      <3>2. p \in Nd /\ p # n /\ p \notin T(Nd, {r}, Kn)!Below(n) /\ n \in Nd /\ UNCHANGED home
        BY <1>1, <1>6, <3>1 DEF FoundAlone, T!UpdateNode, Alive
      <3>3. parent'[n] = p /\ \A m \in Nd : m # n => parent'[m] = parent[m]
        BY <1>1, <3>1, <3>2 DEF TreeRows
      <3>4. Alive(Nd)' = Alive(Nd)
        BY <3>1, <3>2, <3>3 DEF Alive, Reserved
      <3>5. Grounded(Nd)'
        BY <1>1, <3>2, <3>3, <3>4, MovedGrounded
      <3>6. OneRootEach(Nd)'
        <4>1. p # "root" /\ \A x \in Alive(Nd) : x \in Nd
          BY <3>2 DEF Reserved, Alive
        <4> QED BY <1>1, <3>2, <3>3, <3>4, <4>1 DEF OneRootEach
      <3> QED BY <1>2, <1>4, <2>2, <3>5, <3>6
    <2> QED BY <1>6, <2>1, <2>2, TreeNames DEF T!UpdateNode
  <1>7. CASE T(Nd, {r}, Kn)!DeleteNode(r)
    <2>1. PICK n \in Alive(Nd) :
            /\ parent' = [m \in Nd |-> IF m \in T(Nd, {r}, Kn)!Below(n) \cup {n} THEN "deleted" ELSE parent[m]]
            /\ treeReq' = [treeReq EXCEPT ![r] = [Idle0 EXCEPT !.pc = "touch", !.template = home[n]]]
            /\ UNCHANGED home
      BY <1>7 DEF T!DeleteNode, T!Live, Alive, T!Idle, Idle0
    <2>2. Alive(Nd)' \subseteq Alive(Nd) /\ \A m \in Alive(Nd)' : parent'[m] = parent[m]
      BY <1>1, <2>1, GoneWhole
    <2>3. Grounded(Nd)' /\ OneRootEach(Nd)'
      BY <1>1, <2>1, <2>2, FewerGrounded
    <2>4. treeReq'[r].pc = "touch"
      BY <1>1, <2>1 DEF Idle0
    <2> QED BY <1>2, <2>3, <2>4
  <1>8. CASE T(Nd, {r}, Kn)!ApplyNode(r)
    <2>1. CASE T(Nd, {r}, Kn)!End(r) /\ UNCHANGED <<parent, home>>
      BY <1>3, <2>1
    <2>2. CASE /\ T(Nd, {r}, Kn)!KeyHolds(treeReq[r].last)
               /\ \E n \in Nd : /\ parent[n] = "unborn" /\ T(Nd, {r}, Kn)!Insert(n, treeReq[r].last, treeReq[r].template)
                                /\ \E c \in BOOLEAN : treeReq' = [treeReq EXCEPT ![r] =
                                     IF c THEN T(Nd, {r}, Kn)!Idle ELSE [treeReq[r] EXCEPT !.last = n]]
      <3>1. PICK p \in Alive(Nd) \cup {"root"} : p = treeReq[r].last
        BY <2>2, TreeNames DEF T!KeyHolds
      <3>2. PICK t \in Listed : t = treeReq[r].template
        BY <1>1, <1>8 DEF T!ApplyNode, Found
      <3>3. PICK n \in Nd :
              /\ parent[n] = "unborn" /\ T(Nd, {r}, Kn)!Insert(n, p, t)
              /\ p = treeReq[r].last /\ t = treeReq[r].template
              /\ \E c \in BOOLEAN : treeReq' = [treeReq EXCEPT ![r] =
                                     IF c THEN T(Nd, {r}, Kn)!Idle ELSE [treeReq[r] EXCEPT !.last = n]]
        BY <2>2, <3>1, <3>2
      <3>4. p \in Nd => home[p] = t
        BY <1>1, <1>8, <3>3 DEF Found, T!ApplyNode
      <3>5. p = "root" => \A x \in Alive(Nd) : home[x] = t => parent[x] # "root"
        BY <1>1, <1>8, <3>3 DEF FoundAlone, T!ApplyNode, Alive
      <3>6. /\ parent'[n] = p /\ home'[n] = t /\ Alive(Nd)' = Alive(Nd) \cup {n} /\ n \notin Alive(Nd)
            /\ \A m \in Nd : m # n => parent'[m] = parent[m] /\ home'[m] = home[m]
        <4>1. Birth(Nd, {r}, Kn, n, p, t)
          BY <1>1, <3>1, <3>2, <3>3, <3>4 DEF Birth
        <4> QED BY <4>1, Born
      <3>7. Grounded(Nd)'
        BY <1>1, <3>6, BornGrounded
      <3>8. OneRootEach(Nd)'
        BY <1>1, <3>5, <3>6, BornRoot
      <3>9. PICK q : /\ treeReq' = [treeReq EXCEPT ![r] = q]
                     /\ q = T(Nd, {r}, Kn)!Idle \/ q = [treeReq[r] EXCEPT !.last = n]
        BY <3>3
      <3>10. treeReq'[r] = q
        BY <1>1, <3>9
      <3>11. q.pc = "idle" \/ (q.pc = "apply" /\ q.last = n)
        BY <1>1, <1>8, <3>9 DEF T!Idle, T!ApplyNode, ReqOf
      <3>12. CASE q.pc = "idle"
        BY <1>2, <3>7, <3>8, <3>10, <3>12
      <3>13. CASE q.pc = "apply" /\ q.last = n
        <4>1. n # "root"
          BY DEF Reserved
        <4> QED BY <3>7, <3>8, <3>10, <3>13, <4>1 DEF AloneInv, FoundAlone
      <3> QED BY <3>11, <3>12, <3>13
    <2> QED BY <1>8, <2>1, <2>2 DEF T!ApplyNode
  <1> QED BY <1>5, <1>6, <1>7, <1>8

\* Every step of the only request keeps it.
LEMMA AloneMoves ==
  ASSUME NEW Nd, NEW r, NEW Kn, Reserved(Nd), "unroot" \notin Kn, AloneInv(Nd, r, Kn), T(Nd, {r}, Kn)!Next
  PROVE  AloneInv(Nd, r, Kn)'
  <1>1. TreeInv(Nd, {r})'
    BY TreeMoves DEF AloneInv
  <1> QED BY <1>1, AloneReads, AloneWrites DEF T!Next, T!Step

\* No operation is below itself, and a template has one root.
LEMMA AloneGives ==
  ASSUME NEW Nd, NEW r, NEW Kn, AloneInv(Nd, r, Kn)
  PROVE  T(Nd, {r}, Kn)!Acyclic /\ T(Nd, {r}, Kn)!OneRoot
  <1>1. ASSUME NEW n \in Alive(Nd), n \in T(Nd, {r}, Kn)!Below(n) PROVE FALSE
    <2>1. PICK S : S = T(Nd, {r}, Kn)!Below(n)
      OBVIOUS
    <2>2. n \in S /\ \A x \in S : x \in Alive(Nd) /\ parent[x] \in S
      BY <1>1, <2>1, BelowParents DEF Alive
    <2>3. S \in SUBSET Alive(Nd) /\ S # {}
      BY <2>2
    <2> QED BY <2>2, <2>3 DEF AloneInv, Grounded
  <1>2. ASSUME NEW t PROVE Cardinality(T(Nd, {r}, Kn)!Roots(t)) <= 1
    <2>1. PICK S : S = T(Nd, {r}, Kn)!Roots(t)
      OBVIOUS
    <2>2. \A x, y \in S : x = y
      BY <2>1, TreeNames DEF AloneInv, OneRootEach, T!Roots
    <2>3. CASE S = {}
      BY <2>1, <2>3, FS_EmptySet
    <2>4. ASSUME NEW x \in S PROVE Cardinality(S) <= 1
      <3>1. S = {x}
        BY <2>2, <2>4
      <3>2. Cardinality({x}) = 1
        BY FS_Singleton
      <3> QED BY <3>1, <3>2
    <2> QED BY <2>1, <2>3, <2>4
  <1>3. T(Nd, {r}, Kn)!Acyclic
    BY <1>1, TreeNames DEF T!Acyclic, T!OnCycle
  <1>4. T(Nd, {r}, Kn)!OneRoot
    <2>1. \A S : T(Nd, {r}, Kn)!Cardinality(S) = Cardinality(S)
      BY DEF T!Cardinality, Cardinality
    <2> QED BY <1>2, <2>1 DEF T!OneRoot
  <1> QED BY <1>3, <1>4

\* A step that leaves the tree alone keeps its invariant.
LEMMA TreeSame ==
  ASSUME NEW Nd, NEW Rq, TreeInv(Nd, Rq), UNCHANGED <<recent, parent, home, treeReq>>
  PROVE  TreeInv(Nd, Rq)'
  BY DEF TreeInv, TreeRows, OneTemplate, TreeReqs, Found, Alive, Listed

\* Nor does such a step disturb the only request.
LEMMA AloneSame ==
  ASSUME NEW Nd, NEW r, NEW Kn, AloneInv(Nd, r, Kn), UNCHANGED <<recent, parent, home, treeReq>>
  PROVE  AloneInv(Nd, r, Kn)'
  <1>1. TreeInv(Nd, {r})' /\ Grounded(Nd)' /\ OneRootEach(Nd)' /\ Alive(Nd)' = Alive(Nd)
    BY TreeSame, AloneStill DEF AloneInv
  <1>2. \A n : T(Nd, {r}, Kn)!Below(n)' = T(Nd, {r}, Kn)!Below(n)
    BY DEF T!Below, T!Children, T!Live
  <1> QED BY <1>1, <1>2 DEF AloneInv, FoundAlone

-----------------------------------------------------------------------------
(* The parts of the tree, and the values of one operation.                  *)

\* The nodes of the runs are none of the marks.
LEMMA TreeReserved == Reserved({n1, n2, n3, n4}) /\ Reserved({n1, n2, n3})
  BY FlowsheetConstants DEF Tree!TreeAssumption, SharedTree!TreeAssumption, Reserved

UsesAlone == {"add", "patch", "delete", "apply"}
UsesShared == {"add", "unroot", "delete", "apply"}

\* They are the tree of any operations, requests and endpoints, with theirs.
LEMMA TreeIsT ==
  /\ Tree!Init => T({n1, n2, n3, n4}, {r1}, UsesAlone)!Init
  /\ Tree!Next => T({n1, n2, n3, n4}, {r1}, UsesAlone)!Next
  /\ T({n1, n2, n3, n4}, {r1}, UsesAlone)!Acyclic => Tree!Acyclic
  /\ T({n1, n2, n3, n4}, {r1}, UsesAlone)!OneRoot => Tree!OneRoot
  <1> USE DEF UsesAlone
  <1>1. Tree!Init => T({n1, n2, n3, n4}, {r1}, UsesAlone)!Init
    BY Zenon DEF Tree!Init, T!Init, Tree!Idle, T!Idle
  <1>2. Tree!Next => T({n1, n2, n3, n4}, {r1}, UsesAlone)!Next
    <2>1. \A r : Tree!FindTemplate(r) => T({n1, n2, n3, n4}, {r1}, UsesAlone)!FindTemplate(r)
      BY Zenon
         DEF Tree!FindTemplate, T!FindTemplate, Tree!Live, T!Live, Tree!Idle, T!Idle, Tree!Active, T!Active
    <2>2. \A r : Tree!ReadPatch(r) => T({n1, n2, n3, n4}, {r1}, UsesAlone)!ReadPatch(r)
      BY Zenon
         DEF Tree!ReadPatch, T!ReadPatch, Tree!Live, T!Live, Tree!ValidParent, T!ValidParent, Tree!Descends,
             T!Descends, Tree!Below, T!Below, Tree!Children, T!Children, Tree!OnCycle, T!OnCycle, Tree!InSubtree,
             T!InSubtree, Tree!Idle, T!Idle
    <2>3. \A r : Tree!ReadUnroot(r) => T({n1, n2, n3, n4}, {r1}, UsesAlone)!ReadUnroot(r)
      BY Zenon DEF Tree!ReadUnroot, T!ReadUnroot, Tree!Live, T!Live, Tree!Idle, T!Idle
    <2>4. \A r : Tree!DeleteNode(r) => T({n1, n2, n3, n4}, {r1}, UsesAlone)!DeleteNode(r)
      BY Zenon
         DEF Tree!DeleteNode, T!DeleteNode, Tree!Live, T!Live, Tree!Below, T!Below, Tree!Children, T!Children,
             Tree!Idle, T!Idle
    <2>5. \A r : Tree!ApplyTemplate(r) => T({n1, n2, n3, n4}, {r1}, UsesAlone)!ApplyTemplate(r)
      BY Zenon DEF Tree!ApplyTemplate, T!ApplyTemplate, Tree!Names, T!Names, Tree!Idle, T!Idle
    <2>6. \A r : Tree!CreateTemplate(r) => T({n1, n2, n3, n4}, {r1}, UsesAlone)!CreateTemplate(r)
      BY Zenon
         DEF Tree!CreateTemplate, T!CreateTemplate, Tree!End, T!End, Tree!Idle, T!Idle, Tree!Names, T!Names
    <2>7. \A r : Tree!CheckAdd(r) => T({n1, n2, n3, n4}, {r1}, UsesAlone)!CheckAdd(r)
      BY Zenon
         DEF Tree!CheckAdd, T!CheckAdd, Tree!ValidParent, T!ValidParent, Tree!Live, T!Live, Tree!Roots, T!Roots,
             Tree!Go, T!Go, Tree!End, T!End, Tree!Idle, T!Idle
    <2>8. \A r : Tree!InsertNode(r) => T({n1, n2, n3, n4}, {r1}, UsesAlone)!InsertNode(r)
      BY Zenon
         DEF Tree!InsertNode, T!InsertNode, Tree!KeyHolds, T!KeyHolds, Tree!Live, T!Live, Tree!Insert, T!Insert,
             Tree!Go, T!Go, Tree!End, T!End, Tree!Idle, T!Idle
    <2>9. \A r : Tree!Touch(r) => T({n1, n2, n3, n4}, {r1}, UsesAlone)!Touch(r)
      BY Zenon DEF Tree!Touch, T!Touch, Tree!ToFront, T!ToFront, Tree!End, T!End, Tree!Idle, T!Idle
    <2>10. \A r : Tree!UpdateNode(r) => T({n1, n2, n3, n4}, {r1}, UsesAlone)!UpdateNode(r)
      BY Zenon DEF Tree!UpdateNode, T!UpdateNode, Tree!Live, T!Live, Tree!KeyHolds, T!KeyHolds, Tree!Go, T!Go,
             Tree!End, T!End, Tree!Idle, T!Idle
    <2>11. \A r : Tree!ApplyNode(r) => T({n1, n2, n3, n4}, {r1}, UsesAlone)!ApplyNode(r)
      BY Zenon
         DEF Tree!ApplyNode, T!ApplyNode, Tree!KeyHolds, T!KeyHolds, Tree!Live, T!Live, Tree!Insert, T!Insert,
             Tree!Idle, T!Idle, Tree!End, T!End, Tree!Cardinality, T!Cardinality
    <2>12. \A r : Tree!Fails(r) => T({n1, n2, n3, n4}, {r1}, UsesAlone)!Fails(r)
      BY Zenon DEF Tree!Fails, T!Fails, Tree!End, T!End, Tree!Idle, T!Idle
    <2> QED BY Zenon, <2>1, <2>2, <2>3, <2>4, <2>5, <2>6, <2>7, <2>8, <2>9, <2>10, <2>11, <2>12
       DEF Tree!Next, T!Next, Tree!Step, T!Step
  <1>3. T({n1, n2, n3, n4}, {r1}, UsesAlone)!Acyclic => Tree!Acyclic
    BY Zenon
       DEF Tree!Acyclic, T!Acyclic, Tree!OnCycle, T!OnCycle, Tree!Below, T!Below, Tree!Children, T!Children,
           Tree!Live, T!Live
  <1>4. T({n1, n2, n3, n4}, {r1}, UsesAlone)!OneRoot => Tree!OneRoot
    BY Zenon DEF Tree!OneRoot, T!OneRoot, Tree!Roots, T!Roots, Tree!Live, T!Live, Tree!Template, T!Template,
           Tree!Cardinality, T!Cardinality
  <1> QED BY <1>1, <1>2, <1>3, <1>4

\* The same of the tree under several requests.
LEMMA SharedTreeIsT ==
  /\ SharedTree!Init => T({n1, n2, n3}, {r1, r2}, UsesShared)!Init
  /\ SharedTree!Next => T({n1, n2, n3}, {r1, r2}, UsesShared)!Next
  /\ T({n1, n2, n3}, {r1, r2}, UsesShared)!TypeOK => SharedTree!TypeOK
  /\ T({n1, n2, n3}, {r1, r2}, UsesShared)!SameTemplate => SharedTree!SameTemplate
  /\ T({n1, n2, n3}, {r1, r2}, UsesShared)!CreatedOnce => SharedTree!CreatedOnce
  <1> USE DEF UsesShared
  <1>1. SharedTree!Init => T({n1, n2, n3}, {r1, r2}, UsesShared)!Init
    BY Zenon DEF SharedTree!Init, T!Init, SharedTree!Idle, T!Idle
  <1>2. SharedTree!Next => T({n1, n2, n3}, {r1, r2}, UsesShared)!Next
    <2>1. \A r : SharedTree!FindTemplate(r) => T({n1, n2, n3}, {r1, r2}, UsesShared)!FindTemplate(r)
      BY Zenon DEF SharedTree!FindTemplate, T!FindTemplate, SharedTree!Live, T!Live, SharedTree!Idle, T!Idle,
             SharedTree!Active, T!Active
    <2>2. \A r : SharedTree!ReadPatch(r) => T({n1, n2, n3}, {r1, r2}, UsesShared)!ReadPatch(r)
      BY Zenon
         DEF SharedTree!ReadPatch, T!ReadPatch, SharedTree!Live, T!Live, SharedTree!ValidParent, T!ValidParent,
             SharedTree!Descends, T!Descends, SharedTree!Below, T!Below, SharedTree!Children, T!Children,
             SharedTree!OnCycle, T!OnCycle, SharedTree!InSubtree, T!InSubtree, SharedTree!Idle, T!Idle
    <2>3. \A r : SharedTree!ReadUnroot(r) => T({n1, n2, n3}, {r1, r2}, UsesShared)!ReadUnroot(r)
      BY Zenon DEF SharedTree!ReadUnroot, T!ReadUnroot, SharedTree!Live, T!Live, SharedTree!Idle, T!Idle
    <2>4. \A r : SharedTree!DeleteNode(r) => T({n1, n2, n3}, {r1, r2}, UsesShared)!DeleteNode(r)
      BY Zenon DEF SharedTree!DeleteNode, T!DeleteNode, SharedTree!Live, T!Live, SharedTree!Below, T!Below,
             SharedTree!Children, T!Children, SharedTree!Idle, T!Idle
    <2>5. \A r : SharedTree!ApplyTemplate(r) => T({n1, n2, n3}, {r1, r2}, UsesShared)!ApplyTemplate(r)
      BY Zenon DEF SharedTree!ApplyTemplate, T!ApplyTemplate, SharedTree!Names, T!Names, SharedTree!Idle, T!Idle
    <2>6. \A r : SharedTree!CreateTemplate(r) => T({n1, n2, n3}, {r1, r2}, UsesShared)!CreateTemplate(r)
      BY Zenon DEF SharedTree!CreateTemplate, T!CreateTemplate, SharedTree!End, T!End, SharedTree!Idle, T!Idle,
             SharedTree!Names, T!Names
    <2>7. \A r : SharedTree!CheckAdd(r) => T({n1, n2, n3}, {r1, r2}, UsesShared)!CheckAdd(r)
      BY Zenon
         DEF SharedTree!CheckAdd, T!CheckAdd, SharedTree!ValidParent, T!ValidParent, SharedTree!Live, T!Live,
             SharedTree!Roots, T!Roots, SharedTree!Go, T!Go, SharedTree!End, T!End, SharedTree!Idle, T!Idle
    <2>8. \A r : SharedTree!InsertNode(r) => T({n1, n2, n3}, {r1, r2}, UsesShared)!InsertNode(r)
      BY Zenon
         DEF SharedTree!InsertNode, T!InsertNode, SharedTree!KeyHolds, T!KeyHolds, SharedTree!Live, T!Live,
             SharedTree!Insert, T!Insert, SharedTree!Go, T!Go, SharedTree!End, T!End, SharedTree!Idle, T!Idle
    <2>9. \A r : SharedTree!Touch(r) => T({n1, n2, n3}, {r1, r2}, UsesShared)!Touch(r)
      BY Zenon
         DEF SharedTree!Touch, T!Touch, SharedTree!ToFront, T!ToFront, SharedTree!End, T!End, SharedTree!Idle,
             T!Idle
    <2>10. \A r : SharedTree!UpdateNode(r) => T({n1, n2, n3}, {r1, r2}, UsesShared)!UpdateNode(r)
      BY Zenon
         DEF SharedTree!UpdateNode, T!UpdateNode, SharedTree!Live, T!Live, SharedTree!KeyHolds, T!KeyHolds,
             SharedTree!Go, T!Go, SharedTree!End, T!End, SharedTree!Idle, T!Idle
    <2>11. \A r : SharedTree!ApplyNode(r) => T({n1, n2, n3}, {r1, r2}, UsesShared)!ApplyNode(r)
      BY Zenon DEF SharedTree!ApplyNode, T!ApplyNode, SharedTree!KeyHolds, T!KeyHolds, SharedTree!Live, T!Live,
             SharedTree!Insert, T!Insert, SharedTree!Idle, T!Idle, SharedTree!End, T!End,
             SharedTree!Cardinality, T!Cardinality
    <2>12. \A r : SharedTree!Fails(r) => T({n1, n2, n3}, {r1, r2}, UsesShared)!Fails(r)
      BY Zenon DEF SharedTree!Fails, T!Fails, SharedTree!End, T!End, SharedTree!Idle, T!Idle
    <2> QED BY Zenon, <2>1, <2>2, <2>3, <2>4, <2>5, <2>6, <2>7, <2>8, <2>9, <2>10, <2>11, <2>12
       DEF SharedTree!Next, T!Next, SharedTree!Step, T!Step
  <1>3. T({n1, n2, n3}, {r1, r2}, UsesShared)!TypeOK => SharedTree!TypeOK
    BY Zenon DEF SharedTree!TypeOK, T!TypeOK, SharedTree!Template, T!Template, SharedTree!Live, T!Live,
           SharedTree!Names, T!Names
  <1>4. T({n1, n2, n3}, {r1, r2}, UsesShared)!SameTemplate => SharedTree!SameTemplate
    BY Zenon DEF SharedTree!SameTemplate, T!SameTemplate, SharedTree!Live, T!Live
  <1>5. T({n1, n2, n3}, {r1, r2}, UsesShared)!CreatedOnce => SharedTree!CreatedOnce
    BY Zenon DEF SharedTree!CreatedOnce, T!CreatedOnce, SharedTree!Cardinality, T!Cardinality
  <1> QED BY <1>1, <1>2, <1>3, <1>4, <1>5

\* What the invariant of the tree says in the words of FlowsheetTree.
LEMMA TreeGives ==
  ASSUME NEW Nd, NEW Rq, NEW Kn, TreeInv(Nd, Rq)
  PROVE  T(Nd, Rq, Kn)!TypeOK /\ T(Nd, Rq, Kn)!SameTemplate /\ T(Nd, Rq, Kn)!CreatedOnce
  <1>1. TreeRows(Nd) /\ OneTemplate(Nd) /\ TreeReqs(Nd, Rq)
    BY DEF TreeInv
  <1>2. T(Nd, Rq, Kn)!SameTemplate
    BY <1>1, TreeNames DEF T!SameTemplate, OneTemplate
  <1>3. T(Nd, Rq, Kn)!TypeOK
    <2>1. \A n \in Alive(Nd) : home[n] \in Listed
      BY <1>1 DEF TreeRows, Alive
    <2>2. \A r \in Rq : treeReq[r].pc \in Stages
      BY <1>1 DEF TreeReqs, ReqOf
    <2>3. recent \in Seq(T(Nd, Rq, Kn)!Template)
      BY <1>1, TreeNames DEF TreeRows
    <2> QED BY <1>1, <2>1, <2>2, <2>3, TreeNames DEF T!TypeOK, TreeRows, Stages
  <1>4. T(Nd, Rq, Kn)!CreatedOnce
    <2>1. PICK S : S = {i \in DOMAIN recent : recent[i] = "principal"}
      OBVIOUS
    <2>2. \A i, j \in S : i = j
      BY <1>1, <2>1 DEF TreeRows
    <2>3. Cardinality(S) <= 1
      <3>1. CASE S = {}
        BY <3>1, FS_EmptySet
      <3>2. ASSUME NEW x \in S PROVE Cardinality(S) <= 1
        <4>1. S = {x}
          BY <2>2, <3>2
        <4>2. Cardinality({x}) = 1
          BY FS_Singleton
        <4> QED BY <4>1, <4>2
      <3> QED BY <3>1, <3>2
    <2>4. T(Nd, Rq, Kn)!Cardinality(S) = Cardinality(S)
      BY DEF T!Cardinality, Cardinality
    <2> QED BY <2>1, <2>3, <2>4 DEF T!CreatedOnce
  <1> QED BY <1>2, <1>3, <1>4

\* A patch of one user writes upon what it read: values_source is told of the
\* values there are.
ValuesFields == {"recovery", "water", "grade"}
ValuesInv ==
  /\ value \in [ValuesFields -> {"null", "set"}] /\ source = NodeValues!Told(value)
  /\ valueReq = [r \in {r1} |-> valueReq[r1]]
  /\ valueReq[r1].pc = "write" => valueReq[r1].read = value /\ valueReq[r1].body \in NodeValues!Body

\* It holds at the beginning.
LEMMA ValuesInit == ASSUME NodeValues!Init PROVE ValuesInv
  <1>1. valueReq = [r \in {r1} |-> NodeValues!Idle]
    BY DEF NodeValues!Init
  <1>2. valueReq[r1] = NodeValues!Idle /\ NodeValues!Idle.pc = "idle"
    BY <1>1 DEF NodeValues!Idle
  <1> QED BY <1>1, <1>2 DEF NodeValues!Init, ValuesInv, ValuesFields

\* Every step keeps it.
LEMMA ValuesMove == ASSUME ValuesInv, [NodeValues!Next]_valueData PROVE ValuesInv'
  <1>1. CASE UNCHANGED valueData
    BY <1>1 DEF valueData, ValuesInv, NodeValues!Told
  <1>2. CASE NodeValues!Read(r1)
    <2>1. UNCHANGED <<value, source>>
      BY <1>2 DEF NodeValues!Read
    <2>2. PICK b \in NodeValues!Body : valueReq' = [valueReq EXCEPT ![r1] = [pc |-> "write", body |-> b, read |-> value]]
      BY <1>2 DEF NodeValues!Read
    <2>3. PICK q : q = [pc |-> "write", body |-> b, read |-> value]
      OBVIOUS
    <2>4. valueReq' = [valueReq EXCEPT ![r1] = q] /\ q.read = value /\ q.body = b
      BY <2>2, <2>3
    <2>5. valueReq' = [r \in {r1} |-> q]
      BY <2>4 DEF ValuesInv
    <2> QED BY <2>1, <2>4, <2>5 DEF ValuesInv, NodeValues!Told
  <1>3. CASE NodeValues!Write(r1)
    <2>1. PICK b \in NodeValues!Body : b = valueReq[r1].body /\ valueReq[r1].read = value
      BY <1>3 DEF NodeValues!Write, ValuesInv
    <2>2. value' = NodeValues!Merged(value, b) /\ source' = NodeValues!Told(NodeValues!Merged(value, b))
      BY <1>3, <2>1 DEF NodeValues!Write
    <2>3. value' \in [ValuesFields -> {"null", "set"}] /\ source' = NodeValues!Told(value)'
      <3>1. NodeValues!Merged(value, b) \in [ValuesFields -> {"null", "set"}]
        BY <2>1 DEF NodeValues!Merged, NodeValues!Body, ValuesInv, ValuesFields
      <3> QED BY <2>2, <3>1 DEF NodeValues!Told
    <2>4. valueReq' = [valueReq EXCEPT ![r1] = NodeValues!Idle] /\ NodeValues!Idle.pc = "idle"
      BY <1>3 DEF NodeValues!Write, NodeValues!Idle
    <2>5. valueReq' = [r \in {r1} |-> valueReq'[r1]] /\ valueReq'[r1].pc = "idle"
      BY <2>4 DEF ValuesInv
    <2> QED BY <2>3, <2>5 DEF ValuesInv
  <1> QED BY <1>1, <1>2, <1>3 DEF NodeValues!Next

\* So what a user entered is shown.
LEMMA ValuesGive == ASSUME ValuesInv PROVE NodeValues!ShownAsEntered
  <1>1. ASSUME NEW f \in ValuesFields, value[f] = "set" PROVE NodeValues!Shown(f) = "manual"
    BY <1>1 DEF ValuesInv, NodeValues!Shown, NodeValues!Told, ValuesFields
  <1>2. ASSUME \A f \in ValuesFields : value[f] # "set" PROVE \A f \in ValuesFields : NodeValues!Shown(f) # "manual"
    BY <1>2 DEF NodeValues!Shown
  <1>3. \A f \in ValuesFields : value[f] = "set" => NodeValues!Shown(f) = "manual"
    BY <1>1
  <1>4. (NodeValues!NodeSource = "manual") <=> "manual" \in {NodeValues!Shown(f) : f \in ValuesFields}
    BY DEF NodeValues!NodeSource, ValuesFields
  <1> QED BY <1>2, <1>3, <1>4 DEF NodeValues!ShownAsEntered, ValuesFields

TreesInv ==
  /\ part = "tree" => AloneInv({n1, n2, n3, n4}, r1, UsesAlone)
  /\ part = "shared_tree" => TreeInv({n1, n2, n3}, {r1, r2})
  /\ part = "values" => ValuesInv

\* The tree of operations stays one, with one root, under the requests of one
\* user; with several, an operation and its parent stay of one template and the
\* flowsheet is created once; a value that a user entered is shown as entered
\* (TreeHolds of MCFlowsheets: routes/flowsheet_tree.py).
THEOREM AllTreeHolds == AllSpec => []TreeHolds
  <1>1. AllInit => TreesInv
    <2>1. AllInit /\ part = "tree" => AloneInv({n1, n2, n3, n4}, r1, UsesAlone)
      BY TreeReserved, TreeIsT, AloneInit DEF AllInit
    <2>2. AllInit /\ part = "shared_tree" => TreeInv({n1, n2, n3}, {r1, r2})
      BY TreeReserved, SharedTreeIsT, TreeInit DEF AllInit
    <2>3. AllInit /\ part = "values" => ValuesInv
      BY ValuesInit DEF AllInit
    <2> QED BY <2>1, <2>2, <2>3 DEF TreesInv
  <1>2. TreesInv /\ [AllNext]_allVars => TreesInv'
    <2> SUFFICES ASSUME TreesInv, [AllNext]_allVars PROVE TreesInv'
      OBVIOUS
    <2>0. part' = part
      BY PartStep
    <2>1. ASSUME part = "tree" PROVE AloneInv({n1, n2, n3, n4}, r1, UsesAlone)'
      <3>1. [Tree!Next]_treeData /\ AloneInv({n1, n2, n3, n4}, r1, UsesAlone)
        BY <2>1, PartStep DEF TreesInv
      <3>2. CASE UNCHANGED treeData
        BY <3>1, <3>2, AloneSame DEF treeData
      <3>3. CASE Tree!Next
        <4>1. T({n1, n2, n3, n4}, {r1}, UsesAlone)!Next /\ "unroot" \notin UsesAlone
          BY <3>3, TreeIsT DEF UsesAlone
        <4> QED BY <3>1, <4>1, TreeReserved, AloneMoves
      <3> QED BY <3>1, <3>2, <3>3
    <2>2. ASSUME part = "shared_tree" PROVE TreeInv({n1, n2, n3}, {r1, r2})'
      <3>1. [SharedTree!Next]_treeData /\ TreeInv({n1, n2, n3}, {r1, r2})
        BY <2>2, PartStep DEF TreesInv
      <3>2. CASE UNCHANGED treeData
        BY <3>1, <3>2, TreeSame DEF treeData
      <3>3. CASE SharedTree!Next
        <4>1. T({n1, n2, n3}, {r1, r2}, UsesShared)!Next
          BY <3>3, SharedTreeIsT
        <4> QED BY <3>1, <4>1, TreeReserved, TreeMoves
      <3> QED BY <3>1, <3>2, <3>3
    <2>3. ASSUME part = "values" PROVE ValuesInv'
      BY <2>3, PartStep, ValuesMove DEF TreesInv
    <2> QED BY <2>0, <2>1, <2>2, <2>3 DEF TreesInv
  <1>3. TreesInv => TreeHolds
    BY AloneGives, TreeGives, TreeIsT, SharedTreeIsT, ValuesGive DEF TreesInv, TreeHolds
  <1> QED BY <1>1, <1>2, <1>3, PTL DEF AllSpec
=============================================================================
