----------------------------- MODULE DcCascade -----------------------------
(* The cascade of design criteria (engines/dc_cascade.py): changed keys,   *)
(* the nodes downstream of them, a topological order of the registry, and  *)
(* one formula after the other.  The values are small numbers, a formula   *)
(* the sum of what it depends on.  Each run takes one registry and change. *)
EXTENDS Naturals, Sequences, FiniteSets

CONSTANTS NodeSeq,  \* the calculated parameters, in the order of the registry
          Inputs,   \* parameters that no formula calculates
          MaxChanged, \* bound on the keys of a change
          MaxValue  \* the registry's max of every node
(* What the constants must satisfy. *)
CascadeConstants ==
  /\ MaxValue \in Nat /\ MaxChanged \in Nat /\ IsFiniteSet(Inputs)
  /\ NodeSeq \in Seq({NodeSeq[i] : i \in DOMAIN NodeSeq})
  /\ \A i, j \in DOMAIN NodeSeq : NodeSeq[i] = NodeSeq[j] => i = j

VARIABLES deps,     \* depends_on of each node
          given,    \* manual nodes, nodes whose formula fails, changed keys
          queue, order,  \* Kahn's queue and the order so far
          todo,     \* recalc_order that is left
          values, updates, alerts, pc
registry == <<deps, given>>
vars == <<deps, given, queue, order, todo, values, updates, alerts, pc>>

Nodes == {NodeSeq[i] : i \in DOMAIN NodeSeq}
Keys == Nodes \cup Inputs
AtMost(n, S) == {T \in SUBSET S : Cardinality(T) <= n}
Given == [manual : AtMost(1, Nodes), fails : AtMost(1, Nodes), changed : AtMost(MaxChanged, Keys) \ {{}}]
(* Those of a list that are in S, in its order. *)
Those(list, S) ==
  LET some[n \in 0 .. Len(list)] == IF n = 0 THEN <<>>
                                    ELSE IF list[n] \in S THEN Append(some[n - 1], list[n]) ELSE some[n - 1]
  IN  some[Len(list)]

Start(g) == [k \in Keys |-> IF k \in g.changed THEN 2 ELSE 0]

Init == /\ deps \in [Nodes -> SUBSET Keys] /\ \A k \in Nodes : k \notin deps[k]
        /\ given \in Given
        /\ queue = Those(NodeSeq, {k \in Nodes : deps[k] \cap Nodes = {}}) /\ order = <<>>
        /\ todo = <<>> /\ values = Start(given)
        /\ updates = {} /\ alerts = {} /\ pc = "sort"

(* Variant: the nodes that depend on a changed key themselves. *)
DownstreamOne == {k \in Nodes : deps[k] \cap given.changed # {}}
(* Breadth first over the reverse edges, as the smallest set that is closed. *)
Downstream ==
  LET closed == {S \in SUBSET Nodes : \A k \in Nodes : deps[k] \cap (given.changed \cup S) # {} => k \in S}
  IN {k \in Nodes : \A S \in closed : k \in S}

Popped == {order[i] : i \in DOMAIN order}
(* The children whose in-degree comes to nought with n. *)
Freed(n) == Those(NodeSeq, {k \in Nodes : n \in deps[k] /\ deps[k] \cap Nodes \subseteq Popped \cup {n}})

Pop == /\ pc = "sort" /\ queue # <<>> /\ Downstream # {}
       /\ order' = Append(order, Head(queue))
       /\ queue' = Tail(queue) \o Freed(Head(queue))
       /\ UNCHANGED <<registry, todo, values, updates, alerts, pc>>
(* A cycle is an error, which the caller gets as an alert. *)
Cyclic == /\ pc = "sort" /\ queue = <<>> /\ Len(order) # Len(NodeSeq) /\ Downstream # {}
          /\ alerts' = {"cycle"} /\ pc' = "done"
          /\ UNCHANGED <<registry, queue, order, todo, values, updates>>
Nothing == /\ pc = "sort" /\ Downstream = {} /\ pc' = "done"
           /\ UNCHANGED <<registry, queue, order, todo, values, updates, alerts>>
Ordered == /\ pc = "sort" /\ queue = <<>> /\ Len(order) = Len(NodeSeq) /\ Downstream # {}
           /\ todo' = Those(order, Downstream)
           /\ pc' = "calculate"
           /\ UNCHANGED <<registry, queue, order, values, updates, alerts>>

(* A formula is given the values its node depends on.                       *)
Formula(k, v) ==
  LET params == [d \in deps[k] |-> v[d]]
      sum[S \in SUBSET deps[k]] == IF S = {} THEN 1 ELSE LET x == CHOOSE x \in S : TRUE IN params[x] + sum[S \ {x}]
  IN  sum[deps[k]] % 4
(* The registry says min and max, the code reads min_value and max_value:   *)
(* no node has a bound.                                                    *)
Bounded(k) == FALSE

Skipped(k) == k \in given.manual
Meaningful(k, x) == x # values[k]

Recalculate ==
  /\ pc = "calculate" /\ todo # <<>> /\ todo' = Tail(todo)
  /\ LET k == Head(todo)
         x == Formula(k, values)
         writes == ~Skipped(k) /\ k \notin given.fails /\ Meaningful(k, x)
     IN /\ values' = IF writes THEN [values EXCEPT ![k] = x] ELSE values
        /\ updates' = IF writes THEN updates \cup {k} ELSE updates
        /\ alerts' = IF (~Skipped(k) /\ k \in given.fails) \/ (writes /\ Bounded(k) /\ x > MaxValue)
                     THEN alerts \cup {k} ELSE alerts
  /\ UNCHANGED <<registry, queue, order, pc>>
Done == /\ pc = "calculate" /\ todo = <<>> /\ pc' = "done"
        /\ UNCHANGED <<registry, queue, order, todo, values, updates, alerts>>

Next == Pop \/ Cyclic \/ Nothing \/ Ordered \/ Recalculate \/ Done
Spec == Init /\ [][Next]_vars

-----------------------------------------------------------------------------
(* Each node is popped once; the nodes to calculate are downstream. *)
TypeOK == /\ Len(order) + Len(queue) <= Len(NodeSeq) /\ Len(order) = Cardinality(Popped)
          /\ \A i \in DOMAIN todo : todo[i] \in Downstream
          /\ updates \subseteq Downstream /\ pc \in {"sort", "calculate", "done"}

(* After the cascade every node it may write holds what its formula gives   *)
(* for the values as they are now: nothing was calculated from a value that *)
(* was calculated later, and nothing downstream was forgotten.             *)
Settled == pc = "done" /\ alerts # {"cycle"} =>
  \A k \in Nodes : deps[k] \cap (given.changed \cup updates) # {} /\ k \notin given.manual \cup given.fails =>
    values[k] = Formula(k, values)

(* Never overwrite an engineer's manual override (_cascade_recalculate_impl) *)
OverrideKept == \A k \in given.manual : values[k] = Start(given)[k]

(* The updates are what changed, no more and no less: run_cascade writes     *)
(* them and nothing else to the rows.                                      *)
UpdatesTold == updates = {k \in Keys : values[k] # Start(given)[k]}

(* A calculated value out of the registry's bounds is told ("Check bounds"). *)
BoundsTold == pc = "done" => \A k \in updates : values[k] > MaxValue => k \in alerts
=============================================================================
