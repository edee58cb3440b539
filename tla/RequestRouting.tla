--------------------------- MODULE RequestRouting ---------------------------
(***************************************************************************)
(* scheduling/request_routing.py: the routers, as functions of the         *)
(* allocator a.  A route is a sequence of nodes.  What a node takes for a  *)
(* layer and what the way to another one takes are given by a record c:    *)
(*   c.layer[n]    layer_latency_ms, Inf when n is overloaded              *)
(*   c.rtt[n][m]   n.get_rtt_to(m), Inf when it has not been measured      *)
(***************************************************************************)
EXTENDS LayerAllocation

CONSTANT Latencies    \* the latencies there may be when a request is routed

Inf == -1
Cost == Nat \cup {Inf}

ASSUME LatencyAssumption ==
  \A c \in Latencies : /\ c.layer \in [Node -> Cost]
                       /\ \A n \in Node : c.rtt[n] \in [Node -> Cost]

Plus(x, y) == IF x = Inf \/ y = Inf THEN Inf ELSE x + y
Less(x, y) == x # Inf /\ (y = Inf \/ x < y)

\* The listed nodes with start_layer and end_layer.
HasRange(a, n) == n \in Listed(a) /\ RangeIn(a, n) # NoRange
Ranged(a) == {n \in Node : HasRange(a, n)}
Active(a) == {n \in Ranged(a) : a.objs[n].listed.active}
-----------------------------------------------------------------------------
(* DynamicProgrammingRouting.find_optimal_path.  The entry of a node is    *)
(* its dp value with the path that the parents lead back along.            *)

\* Mutant: a route may start at any active node.
Heads_anywhere(a, c) ==
  [n \in Node |-> IF n \in Active(a)
                  THEN [cost |-> c.layer[n], path |-> <<n>>]
                  ELSE [cost |-> Inf, path |-> <<>>]]

\* "Initialize with nodes starting at layer 0"
Heads(a, c) ==
  [n \in Node |-> IF n \in Active(a) /\ RangeIn(a, n)[1] = 0
                  THEN [cost |-> c.layer[n], path |-> <<n>>]
                  ELSE [cost |-> Inf, path |-> <<>>]]

\* The active nodes that end at layer l and have been reached.
Reached(a, best, l) ==
  {j \in Active(a) : RangeIn(a, j)[2] = l /\ best[j].cost # Inf}

\* Mutant: the way from node to node costs nothing.
Extended_no_rtt(c, e, j, n) ==
  [cost |-> Plus(e.cost, c.layer[n]), path |-> Append(e.path, n)]

\* The entry e of j extended by n.
Extended(c, e, j, n) ==
  [cost |-> Plus(Plus(e.cost, c.rtt[j][n]), c.layer[n]), path |-> Append(e.path, n)]

\* An entry that no other undercuts: which of equals is left open.
Cheapest(E) == CHOOSE e \in E : \A f \in E : ~Less(f.cost, e.cost)

\* "Transitions: j -> i if end(j) == start(i)", for every node i that starts at l.
\* These do not follow each other, so the order among them does not matter.
Relaxed(a, c, best, l) ==
  [n \in Node |->
     IF HasRange(a, n) /\ RangeIn(a, n)[1] = l
     THEN Cheapest({best[n]} \cup {Extended(c, best[j], j, n) : j \in Reached(a, best, l)})
     ELSE best[n]]

\* The nodes are taken in the order of start_layer.
Relaxations(a, c) ==
  FoldLeft(LAMBDA best, l : Relaxed(a, c, best, l), Heads(a, c), [k \in 1..NumLayers |-> k - 1])

\* "Pick best terminal node that ends at num_layers"
Terminal(best, ends) ==
  IF ends = {} THEN <<>> ELSE Cheapest({best[n] : n \in ends}).path
ShortestPath(a, best) == Terminal(best, Reached(a, best, NumLayers))
find_optimal_path(a, c) == ShortestPath(a, Relaxations(a, c))
-----------------------------------------------------------------------------
(* RoundRobinPipelineRouting.                                              *)

\* pipeline_discovery: all chains of nodes in S from layer l to the last.
Chains(a, S, l) ==
  LET from[k \in 0..NumLayers] ==
        IF k = NumLayers THEN {<<>>}
        ELSE UNION {{<<n>> \o c : c \in from[RangeIn(a, n)[2]]} :
                      n \in {m \in S : RangeIn(a, m)[1] = k}}
  IN from[l]

\* Mutant: the tail starts where the last node that is kept starts.
Repairs_from_start(a, c, busy) ==
  LET Viable(n) == n \in Listed(a) \ busy
      Split(i) == IF i = 0 THEN 0 ELSE RangeIn(a, c[i])[1]
      Tails(i) == Chains(a, Ranged(a) \ busy, Split(i))
      splits == {i \in 0 .. Len(c) - 1 : /\ \A j \in 1..i : Viable(c[j])
                                         /\ i > 0 => HasRange(a, c[i])
                                         /\ Tails(i) # {}}
  IN IF splits = {} THEN {}
     ELSE LET i == CHOOSE i \in splits : \A k \in splits : k <= i
          IN {SubSeq(c, 1, i) \o s : s \in Tails(i)}

\* _attempt_repair_pipeline: keep the longest prefix that can be completed.
Repairs(a, c, busy) ==
  LET Viable(n) == n \in Listed(a) \ busy
      Split(i) == IF i = 0 THEN 0 ELSE RangeIn(a, c[i])[2]
      Tails(i) == Chains(a, Ranged(a) \ busy, Split(i))
      splits == {i \in 0 .. Len(c) - 1 : /\ \A j \in 1..i : Viable(c[j])
                                         /\ i > 0 => HasRange(a, c[i])
                                         /\ Tails(i) # {}}
  IN IF splits = {} THEN {}
     ELSE LET i == CHOOSE i \in splits : \A k \in splits : k <= i
          IN {SubSeq(c, 1, i) \o s : s \in Tails(i)}

\* The first cached pipeline from the cursor on whose nodes are present, not
\* overloaded and of known latency, or a repair of it; the cursor may be anywhere.
RrPaths(a, cache, busy) ==
  LET Viable(c) == \A i \in DOMAIN c : c[i] \in Listed(a) \ busy
  IN {<<>>} \cup {c \in cache : Viable(c)} \cup UNION {Repairs(a, c, busy) : c \in cache}
-----------------------------------------------------------------------------
(* What a route is worth.                                                  *)

\* It runs through adjacent ranges from layer 0 to the last.
Covers(a, p) ==
  /\ \A i \in DOMAIN p : HasRange(a, p[i])
  /\ RangeIn(a, p[1])[1] = 0 /\ RangeIn(a, p[Len(p)])[2] = NumLayers
  /\ \A i \in 1 .. Len(p) - 1 : RangeIn(a, p[i])[2] = RangeIn(a, p[i + 1])[1]

\* What it costs to go through the nodes of p one after the other; a request that
\* is not routed waits, which counts as Inf.
Onward(c, w, n) ==
  [at |-> n, cost |-> Plus(Plus(w.cost, c.rtt[w.at][n]), c.layer[n])]
CostOf(c, p) ==
  IF p = <<>> THEN Inf
  ELSE FoldLeft(LAMBDA w, n : Onward(c, w, n),
                [at |-> Head(p), cost |-> c.layer[Head(p)]], Tail(p)).cost

\* No chain of active nodes is cheaper.
Shortest(a, c, p) ==
  \A q \in Chains(a, Active(a), 0) : ~Less(CostOf(c, q), CostOf(c, p))
=============================================================================
