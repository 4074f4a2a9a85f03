------------------------------ MODULE Branches ------------------------------
(***************************************************************************)
(* The branches of a compiled flowsheet (engines/branch_detection.py).     *)
(* Successors are Python sets, so that the loop takes them in any order.   *)
(* A flowsheet with a cycle has no branches; in one without, blocks can be *)
(* numbered along the flow, and a path is the set of its blocks.           *)
(***************************************************************************)
EXTENDS Naturals, Sequences, FiniteSets, FiniteSetsExt

CONSTANTS
  N,            \* blocks
  Labels        \* how many of them at most the user gave a branch_label

VARIABLES
  edges, labelled,
  trunk,
  node,         \* the trunk node whose successors are being looked at
  todo,         \* those of them that are left
  visited,
  branches

vars == <<edges, labelled, trunk, node, todo, visited, branches>>

Node == 1 .. N
out_edges(n) == {v \in Node : <<n, v>> \in edges}
in_edges(n) == {v \in Node : <<v, n>> \in edges}
NextOf(P, a) == Min({b \in P : b > a})

\* Paths from a source to a sink.
Paths(E) ==
  {P \in SUBSET Node \ {{}} :
     /\ \A v \in Node : <<v, Min(P)>> \notin E /\ <<Max(P), v>> \notin E
     /\ \A a \in P \ {Max(P)} : <<a, NextOf(P, a)>> \in E}

\* Fewest labelled blocks, then fewest blocks; of equal ones the names decide.
Better(P, Q, L) ==
  \/ Cardinality(P \cap L) < Cardinality(Q \cap L)
  \/ Cardinality(P \cap L) = Cardinality(Q \cap L) /\ Cardinality(P) < Cardinality(Q)
Trunks(E, L) == {P \in Paths(E) : \A Q \in Paths(E) : ~Better(Q, P, L)}

Init ==
  /\ edges \in SUBSET {e \in Node \X Node : e[1] < e[2]}
  /\ labelled \in {L \in SUBSET Node : Cardinality(L) <= Labels}
  /\ trunk \in Trunks(edges, labelled)
  /\ node = 0 /\ todo = {} /\ visited = {} /\ branches = <<>>

Later == {n \in trunk : n > node}

Advance ==
  /\ todo = {} /\ Later # {}
  /\ node' = Min(Later)
  /\ todo' = out_edges(Min(Later)) \ trunk
  /\ UNCHANGED <<edges, labelled, trunk, visited, branches>>

\* _collect_branch: what is reached from start without the trunk and what is
\* visited, the smallest set that has start and the successors of its members;
\* and the order of the walk, which starts at start.
Free == Node \ (trunk \cup visited)
Collect(start) ==
  LET closed == {S \in SUBSET Free : start \in S /\ \A n \in S : out_edges(n) \cap Free \subseteq S}
  IN  {n \in Free : \A S \in closed : n \in S}

Merges(n) == out_edges(n) \cap trunk

\* One off-trunk successor.  _find_reconvergence takes the first block of the
\* walk that has the trunk among its successors: of those, the nearest to start
\* if it is start, else whichever the sets put first.
TakeBranch ==
  \E start \in todo :
    /\ todo' = todo \ {start}
    /\ IF start \in visited
       THEN UNCHANGED <<visited, branches>>
       ELSE LET nodes == Collect(start)
                ends == IF Merges(start) # {} THEN Merges(start) ELSE UNION {Merges(n) : n \in nodes}
            IN  /\ visited' = visited \cup nodes
                /\ IF ends = {}
                   THEN UNCHANGED branches
                   ELSE \E reconv \in ends :
                          branches' = Append(branches, [nodes |-> nodes, divergence |-> node, reconvergence |-> reconv])
    /\ UNCHANGED <<edges, labelled, trunk, node>>

Next == Advance \/ TakeBranch
Spec == Init /\ [][Next]_vars

Done == todo = {} /\ Later = {}

-----------------------------------------------------------------------------
\* What comes after n: the smallest set with its successors and theirs.
Below(n) ==
  LET closed == {S \in SUBSET Node : \A u \in S \cup {n} : out_edges(u) \subseteq S}
  IN  {m \in Node : \A S \in closed : m \in S}
Between(n) == n \notin trunk /\ (\E t \in trunk : n \in Below(t)) /\ Below(n) \cap trunk # {}
Members == UNION {branches[i].nodes : i \in DOMAIN branches}

TypeOK ==
  /\ trunk \in Paths(edges) /\ node \in trunk \cup {0}
  /\ todo \subseteq Node \ trunk /\ visited \subseteq Node \ trunk
  /\ \A i \in DOMAIN branches : branches[i].nodes \subseteq visited

\* "A branch is a subgraph that diverges from the main trunk at a node and
\* reconverges at another node downstream", and is reached from the first.
Reconverges ==
  \A i \in DOMAIN branches :
    /\ {branches[i].divergence, branches[i].reconvergence} \subseteq trunk
    /\ branches[i].divergence < branches[i].reconvergence
    /\ branches[i].nodes \subseteq Below(branches[i].divergence)
    /\ branches[i].nodes \cap in_edges(branches[i].reconvergence) # {}

\* A block is in one branch: its op code is not counted twice.
BranchesDisjoint ==
  \A i, j \in DOMAIN branches : i # j => branches[i].nodes \cap branches[j].nodes = {}

\* Nothing on a path between two trunk nodes escapes the walk.
AllVisited == Done => \A n \in Node : Between(n) => n \in visited

\* "A branch node = any node NOT in trunk that lies on a path between two trunk
\* nodes": there are no others in a branch,
OnlyBetween == \A n \in Members : Between(n)
\* and each of those is in one.
AllBetween == Done => \A n \in Node : Between(n) => n \in Members
=============================================================================
