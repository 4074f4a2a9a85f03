------------------------------ MODULE TopoSort ------------------------------
(***************************************************************************)
(* The execution order of a compiled flowsheet: _topo_sort of              *)
(* engines/compile.py, Kahn's algorithm over blocks and connections, a     *)
(* step per block taken and per connection followed; and what              *)
(* compile_flowsheet concludes from its result.                            *)
(***************************************************************************)
EXTENDS Naturals, Sequences, FiniteSets

CONSTANTS
  N,            \* blocks
  MaxConn,      \* connections
  Ops           \* op codes

ASSUME SizeAssumption == N \in Nat /\ MaxConn \in Nat

VARIABLES
  conns,        \* connections between blocks, in the order of the flowsheet
  op, enabled,  \* of the blocks
  in_degree, queue, order,
  at            \* the connection that is looked at, of the block taken last

vars == <<conns, op, enabled, in_degree, queue, order, at>>
flowsheet == <<conns, op, enabled>>

Node == 1 .. N
Conn == [from : Node, to : Node]
SeqUpTo(S, n) == UNION {[1 .. k -> S] : k \in 0 .. n}
Elems(s) == {s[i] : i \in DOMAIN s}
Into(v) == {c \in DOMAIN conns : conns[c].to = v}

Inlets(v) == Cardinality(Into(v))

TypeOK ==
  /\ conns \in Seq(Conn)
  /\ in_degree \in [Node -> Nat]
  /\ queue \in Seq(Node) /\ order \in Seq(Node)
  /\ at \in 1 .. Len(conns) + 1

\* deque([n for n, d in in_degree.items() if d == 0])
Sources(q) ==
  /\ Elems(q) = {v \in Node : in_degree[v] = 0}
  /\ \A i, j \in DOMAIN q : i < j => q[i] < q[j]

Init ==
  /\ conns \in SeqUpTo(Conn, MaxConn)
  /\ op \in [Node -> Ops]
  /\ enabled \in SUBSET Node
  /\ in_degree = [v \in Node |-> Inlets(v)]
  /\ queue \in {q \in SeqUpTo(Node, N) : Sources(q)}
  /\ order = <<>>
  /\ at = Len(conns) + 1

Take ==
  /\ at > Len(conns) /\ queue # <<>>
  /\ order' = Append(order, Head(queue))
  /\ queue' = Tail(queue)
  /\ at' = 1
  /\ UNCHANGED <<flowsheet, in_degree>>

\* Variant: a block is ready when one of its inlets is not.
ReadyAtOne(d) == d <= 1
IsReady(d) == d = 0

\* out_edges of the block are its connections in their order.
Follow ==
  /\ at <= Len(conns)
  /\ IF conns[at].from = order[Len(order)]
     THEN LET v == conns[at].to
          IN  /\ in_degree' = [in_degree EXCEPT ![v] = @ - 1]
              /\ queue' = IF IsReady(in_degree[v] - 1) THEN Append(queue, v) ELSE queue
     ELSE UNCHANGED <<in_degree, queue>>
  /\ at' = at + 1
  /\ UNCHANGED <<flowsheet, order>>

Next == Take \/ Follow
Spec == Init /\ [][Next]_vars

Done == at > Len(conns) /\ queue = <<>>

\* What compile_flowsheet makes of it: the op codes of enabled blocks, those
\* that were ordered, and the warning CYCLE_DETECTED.
enabled_ops == {op[v] : v \in enabled}
topo_order == {op[v] : v \in Elems(order)} \cap enabled_ops
CycleDetected == enabled_ops # topo_order

-----------------------------------------------------------------------------
\* The blocks that come before v, by however many connections: the smallest set
\* that has those that feed v, and those that feed its members.
Feeds(u, v) == \E c \in Into(v) : conns[c].from = u
Upstream(v) ==
  LET closed == {S \in SUBSET Node : \A u \in Node, w \in S \cup {v} : Feeds(u, w) => u \in S}
  IN  {u \in Node : \A S \in closed : u \in S}
OnCycle(v) == v \in Upstream(v)
Cyclic == \E v \in Node : OnCycle(v)

\* A block comes after every block that feeds it, and once
\* ("Return op_codes in topological order (Kahn's algorithm)").
OrderRespects ==
  /\ \A i \in DOMAIN order : \A c \in Into(order[i]) :
       \E j \in DOMAIN order : j < i /\ order[j] = conns[c].from
  /\ \A i, j \in DOMAIN order : order[i] = order[j] => i = j

\* What is left over is fed by what is left over: nothing was forgotten.
LeftOverIsFed ==
  Done => \A v \in Node \ Elems(order) : \E c \in Into(v) : conns[c].from \notin Elems(order)

\* "returns only the op_codes that could be ordered before the cycle blocked
\* progress": exactly the blocks on a cycle or downstream of one are left over.
LeftOverIsCyclic ==
  Done => \A v \in Node : v \in Elems(order) <=> \A u \in Upstream(v) \cup {v} : ~OnCycle(u)

\* A warning is given only for a flowsheet with a cycle.
NoFalseAlarm == Done /\ CycleDetected => Cyclic

\* "the caller can detect the cycle by comparing the returned set vs the full
\* set of enabled ops": one that has an enabled block on it is.
CycleIsDetected == Done /\ (\E v \in enabled : OnCycle(v)) => CycleDetected
=============================================================================
