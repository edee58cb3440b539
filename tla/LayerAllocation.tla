--------------------------- MODULE LayerAllocation ---------------------------
(***************************************************************************)
(* scheduling/layer_allocation.py: the allocator of decoder layers to      *)
(* nodes, as functions of its state, with the capacity rules of            *)
(* scheduling/node.py.  Layers are 0 .. NumLayers-1, a range <<s, e>> is   *)
(* half open.                                                              *)
(*                                                                         *)
(* A Node object of the program is a record                                *)
(*   range    start_layer and end_layer, or NoRange                        *)
(*   active   is_active                                                    *)
(*   manual   manual_layer_assignment                                      *)
(* Two objects with the same node_id can exist at a time: the one in the   *)
(* list `nodes` and a later one that `allocate` put into node_id_to_node.  *)
(*                                                                         *)
(* An allocator record has                                                 *)
(*   nodes       the list, ids in decreasing capacity                      *)
(*   objs        for each id its "listed" object and its "second" one      *)
(*   entry       which of them node_id_to_node holds, or "none"            *)
(*   allocation  node_allocation                                           *)
(*   hosts,load  hosting_nodes and current_kv_size of every layer          *)
(***************************************************************************)
EXTENDS Integers, Sequences, SequencesExt, FiniteSets, Lists

CONSTANTS
  Node,
  NumLayers,      \* num_layers
  Mem,            \* parameter memory of each node
  LayerSize,      \* parameter memory of a decoder layer
  EmbedSize,      \* parameter memory of the embedding, and of the LM head
  TieEmbedding,   \* whether they share it on one node
  KvMem,          \* KV cache memory of each node
  Power           \* compute power of each node

ASSUME MeshAssumption ==
  /\ IsFiniteSet(Node)
  /\ NumLayers \in Nat \ {0} /\ LayerSize \in Nat \ {0} /\ EmbedSize \in Nat
  /\ TieEmbedding \in BOOLEAN
  /\ Mem \in [Node -> Nat] /\ KvMem \in [Node -> Nat] /\ Power \in [Node -> Nat \ {0}]

Layer == 0 .. NumLayers - 1
NoRange == <<>>
RangeOfLayers == {<<s, e>> : s \in Layer, e \in 1..NumLayers}
Layers(r) == IF r = NoRange THEN {} ELSE r[1] .. r[2] - 1

\* get_decoder_layer_capacity(include_input_embed, include_lm_head)
Capacity(n, embed, head) ==
  (Mem[n] - (IF embed THEN EmbedSize ELSE 0)
          - (IF head /\ ~(embed /\ TieEmbedding) THEN EmbedSize ELSE 0)) \div LayerSize

BaseCapacity(n) == Capacity(n, FALSE, FALSE)

\* per_decoder_layer_kv_cache_memory of a node with range r
KvPerLayer(n, r) == KvMem[n] \div (r[2] - r[1])

NewNode == [range |-> NoRange, active |-> FALSE, manual |-> FALSE]

EmptyAllocator ==
  [nodes |-> <<>>,
   objs |-> [n \in Node |-> [listed |-> NewNode, second |-> NewNode]],
   entry |-> [n \in Node |-> "none"],
   allocation |-> [n \in Node |-> NoRange],
   hosts |-> [l \in Layer |-> {}],
   load |-> [l \in Layer |-> 0]]

Registered(a) == {n \in Node : a.entry[n] # "none"}
Listed(a) == {a.nodes[i] : i \in DOMAIN a.nodes}

\* The Node object that node_id_to_node holds for n, and its end_layer.
EntryObject(a, n) == a.objs[n][a.entry[n]]
-----------------------------------------------------------------------------
(* The primitives.                                                         *)

\* allocate object w of node n to r, which must not be empty: an earlier range
\* of n stays in hosts and load unless the caller has deallocated it.
allocate(a, n, w, r) ==
  [a EXCEPT !.entry[n] = w,
            !.objs[n][w].range = r,
            !.allocation[n] = r,
            !.hosts = [l \in Layer |-> IF l \in Layers(r) THEN @[l] \cup {n} ELSE @[l]],
            !.load = [l \in Layer |-> IF l \in Layers(r) THEN @[l] + KvPerLayer(n, r) ELSE @[l]]]

\* Mutant: the layers stop being hosted but keep the load.
deallocate_keeps_load(a, n, w) ==
  LET r == a.objs[n][w].range
  IN IF r = NoRange THEN a
     ELSE [a EXCEPT !.allocation[n] = NoRange,
                    !.hosts = [l \in Layer |-> @[l] \ {n}],
                    !.objs[n][w] = [@ EXCEPT !.range = NoRange, !.active = FALSE]]


\* Mutant: the range is cleared first, and the share is all of the KV memory.
deallocate_cleared_first(a, n, w) ==
  LET r == a.objs[n][w].range
  IN IF r = NoRange THEN a
     ELSE [a EXCEPT !.allocation[n] = NoRange,
                    !.hosts = [l \in Layer |-> @[l] \ {n}],
                    !.load = [l \in Layer |-> IF l \in Layers(r) THEN @[l] - KvMem[n] ELSE @[l]],
                    !.objs[n][w] = [@ EXCEPT !.range = NoRange, !.active = FALSE]]

deallocate(a, n, w) ==
  LET r == a.objs[n][w].range
      Hosted(l) == l \in Layers(r) /\ n \in a.hosts[l]
  IN IF r = NoRange THEN a
     ELSE [a EXCEPT
             !.allocation[n] = NoRange,
             !.hosts = [l \in Layer |-> IF Hosted(l) THEN @[l] \ {n} ELSE @[l]],
             !.load = [l \in Layer |-> IF Hosted(l) THEN @[l] - KvPerLayer(n, r) ELSE @[l]],
             !.objs[n][w] = [@ EXCEPT !.range = NoRange, !.active = FALSE]]

reallocate(a, n, w, r) == allocate(deallocate(a, n, w), n, w, r)

\* A node that is not registered joins the list, which stays sorted.
declare(a, n, obj) ==
  LET before == Selected(a.nodes, {m \in Node : BaseCapacity(m) >= BaseCapacity(n)})
      after  == Selected(a.nodes, {m \in Node : BaseCapacity(m) < BaseCapacity(n)})
  IN IF a.entry[n] # "none" THEN a
     ELSE [a EXCEPT !.nodes = before \o <<n>> \o after,
                    !.objs[n].listed = obj, !.entry[n] = "listed"]

LightestLayer(a) ==
  CHOOSE l \in Layer : \A k \in Layer : a.load[l] < a.load[k] \/ (a.load[l] = a.load[k] /\ l <= k)

\* _adjust_end_layer_for_tail
EndLayer(n, start) ==
  LET Upto(c) == IF start + c < NumLayers THEN start + c ELSE NumLayers
      e == Upto(Capacity(n, start = 0, FALSE))
  IN IF e = NumLayers THEN Upto(Capacity(n, start = 0, TRUE)) ELSE e

\* The range `join` gives a declared node, and whether `allocate` refuses it.
JoinRange(a, n) == <<LightestLayer(a), EndLayer(n, LightestLayer(a))>>
join_raises(a, n) == JoinRange(a, n)[2] <= JoinRange(a, n)[1]
join(a, n, w) == allocate(a, n, w, JoinRange(a, n))

\* Mutant: the node stays in the shared list.
leave_keeps_listed(a, n) == [deallocate(a, n, a.entry[n]) EXCEPT !.entry[n] = "none"]

\* leave of a registered node
leave(a, n) ==
  LET b == deallocate(a, n, a.entry[n])
  IN [b EXCEPT !.entry[n] = "none",
               !.nodes = Selected(@, Node \ {n}),
               !.objs[n] = [listed |-> NewNode, second |-> NewNode]]

JoinLeftOver(a, n) ==
  IF a.allocation[n] # NoRange \/ join_raises(a, n) THEN a ELSE join(a, n, "listed")
allocate_left_over_nodes(a) ==
  FoldLeft(JoinLeftOver, a, a.nodes)

\* Some chain of adjacent allocations leads from layer 0 to NumLayers.
has_full_pipeline(a) ==
  LET Next(l) == {EntryObject(a, n).range[2] :
                    n \in {m \in Registered(a) : /\ a.allocation[m] # NoRange
                                                 /\ a.allocation[m][1] = l
                                                 /\ EntryObject(a, m).range # NoRange}}
      reach[l \in 0..NumLayers] ==
        l = NumLayers \/ \E e \in Next(l) : e > l /\ e <= NumLayers /\ reach[e]
  IN reach[0]
-----------------------------------------------------------------------------
(* adjust_pipeline_layers: water-filling of one pipeline, a sequence of    *)
(* nodes.  The level is exact here; the bisection's rounding is left out.  *)

StageCap(pl, i) ==
  IF i = 1 THEN Capacity(pl[i], TRUE, FALSE)
  ELSE Capacity(pl[i], FALSE, i = Len(pl))

\* The layers left for the stages outside S when those of S are full, and the
\* power of the stages outside S.
LeftOver(pl, S) == NumLayers - SumOf([i \in DOMAIN pl |-> StageCap(pl, i)], S)
OpenPower(pl, S) == SumOf([i \in DOMAIN pl |-> Power[pl[i]]], DOMAIN pl \ S)

\* At the water level num/den exactly the stages of S are full.
AtLevel(pl, S, num, den) ==
  /\ num >= 0
  /\ \A i \in S : StageCap(pl, i) * den <= num * Power[pl[i]]
  /\ \A i \in DOMAIN pl \ S : StageCap(pl, i) * den > num * Power[pl[i]]

Saturated(pl) ==
  CHOOSE S \in SUBSET DOMAIN pl : AtLevel(pl, S, LeftOver(pl, S), OpenPower(pl, S))

\* Each stage gets the floor of its share ...
Shares(pl, S, num, den) ==
  [i \in DOMAIN pl |->
     IF i \in S THEN [floor |-> StageCap(pl, i), rest |-> 0, full |-> TRUE]
     ELSE [floor |-> (num * Power[pl[i]]) \div den,
           rest |-> (num * Power[pl[i]]) % den, full |-> FALSE]]

\* ... and the layers that remain go to the largest remainders.
RoundUp(share) ==
  LET I == DOMAIN share
      remaining == NumLayers - SumOf([i \in I |-> share[i].floor], I)
      Ahead(i) == {j \in I : /\ ~share[j].full
                            /\ \/ share[j].rest > share[i].rest
                               \/ share[j].rest = share[i].rest /\ j < i}
  IN [i \in I |-> share[i].floor +
                  (IF ~share[i].full /\ Cardinality(Ahead(i)) < remaining THEN 1 ELSE 0)]

StageShares(pl, S) == Shares(pl, S, LeftOver(pl, S), OpenPower(pl, S))
StageCounts(pl) == RoundUp(StageShares(pl, Saturated(pl)))

\* adjust_pipeline_layers first deallocates the pipeline's nodes ...
ClearStages(a, pl) == FoldLeft(LAMBDA b, n : deallocate(b, n, "listed"), a, pl)

\* ... and then gives them consecutive ranges.
Layout(pl, counts) ==
  [i \in DOMAIN pl |->
     [n |-> pl[i], range |-> <<SumOf(counts, 1 .. i - 1), SumOf(counts, 1 .. i)>>]]
LayStage(a, s) ==
  IF s.range[2] <= s.range[1] THEN a ELSE allocate(a, s.n, "listed", s.range)
LayStages(a, pl) == FoldLeft(LayStage, a, Layout(pl, StageCounts(pl)))
-----------------------------------------------------------------------------
(* global_allocation of DynamicProgrammingLayerAllocator.  An assignment   *)
(* maps positions of the list to pipelines 1 .. k, or to 0: skipped.       *)

\* The layers a pipeline still needs after one more node, which holds the LM head
\* if it seems to close it, and after its nodes pl; 0 or less when closed.
After(r, n) ==
  IF r - BaseCapacity(n) <= 0 THEN r - Capacity(n, FALSE, TRUE) ELSE r - BaseCapacity(n)
Residual(pl) ==
  FoldLeft(After, NumLayers - Capacity(Head(pl), TRUE, FALSE), Tail(pl))

PipelineOf(a, f, j) ==
  LET at == Selected([i \in DOMAIN a.nodes |-> i], {i \in DOMAIN f : f[i] = j})
  IN [x \in DOMAIN at |-> a.nodes[at[x]]]

\* Every pipeline closes, with its last node.
Closes(pl) ==
  /\ pl # <<>> /\ Residual(pl) <= 0
  /\ \A x \in 1 .. Len(pl) - 1 : Residual(SubSeq(pl, 1, x)) > 0

Assignments(a, k) ==
  {f \in [DOMAIN a.nodes -> 0..k] : \A j \in 1..k : Closes(PipelineOf(a, f, j))}

Stages(f) == Cardinality({i \in DOMAIN f : f[i] # 0})

Plans(a) == UNION {{<<k, f>> : f \in Assignments(a, k)} : k \in 1 .. Len(a.nodes)}

\* The best assignments: most k^2 per stage, then fewest pipelines.
Best(plans) ==
  LET Score(p, q) == p[1] * p[1] * Stages(q[2]) - q[1] * q[1] * Stages(p[2])
  IN {p \in plans : \A q \in plans : Score(p, q) > 0 \/ (Score(p, q) = 0 /\ p[1] <= q[1])}

\* f skips a node that g uses, after the same choices for the nodes before it.
SkipsSooner(f, g) ==
  \E i \in DOMAIN f : /\ f[i] = 0 /\ g[i] # 0
                     /\ \A h \in DOMAIN f : h < i => f[h] = g[h]

\* Of equally good assignments the code finds the one that skips the earlier nodes:
\* "Option 1: Skip this node" yields to a cheaper option only. Which of equal
\* pipelines a node joins is fixed as well, and not specified here.
FirstFound(plans) == {p \in plans : \A q \in plans : ~SkipsSooner(q[2], p[2])}

PipelinesOf(a, p) == [j \in 1 .. p[1] |-> PipelineOf(a, p[2], j)]

\* Without a plan the result is empty.
BestPlan(a) ==
  IF Plans(a) = {} THEN <<>>
  ELSE PipelinesOf(a, CHOOSE p \in FirstFound(Best(Plans(a))) : TRUE)

\* The pipelines' nodes are cleared; the pipelines are laid out and the nodes left
\* over join.  Without a plan nothing changes.
ClearPlan(a, plan) == FoldLeft(ClearStages, a, plan)
LayPlan(a, plan) ==
  IF plan = <<>> THEN a ELSE allocate_left_over_nodes(FoldLeft(LayStages, a, plan))
ApplyPlan(a, plan) == LayPlan(ClearPlan(a, plan), plan)

\* deallocate every node that has a range, for a global rebalance
ClearAll(a) == ClearStages(a, a.nodes)
-----------------------------------------------------------------------------
(* Truncation: find_turning_points and _run_warmup_and_truncate.           *)

RangeIn(a, n) == a.objs[n].listed.range

\* The per-layer paths the latencies may make optimal.
HostPaths(a) ==
  {p \in [Layer -> Listed(a)] : \A l \in Layer : l \in Layers(RangeIn(a, p[l]))}

\* Drop what a node hosts after the path first leaves it ...
TailCut(a, p, n) ==
  LET left == {l \in Layer \ {0} : /\ p[l - 1] = n /\ p[l] # n
                                   /\ l \in Layers(RangeIn(a, n))}
      cut == CHOOSE l \in left : \A k \in left : l <= k
  IN IF left = {} THEN a ELSE reallocate(a, n, "listed", <<RangeIn(a, n)[1], cut>>)

\* ... and before the path first uses it.
HeadCut(a, p, n) ==
  LET used == {l \in Layer : p[l] = n}
      first == CHOOSE l \in used : \A k \in used : l <= k
  IN IF used = {} \/ first <= RangeIn(a, n)[1] THEN a
     ELSE reallocate(a, n, "listed", <<first, RangeIn(a, n)[2]>>)

\* No truncation happens when a layer has no host or no path has finite latency.
Truncations(a) ==
  {a} \cup {FoldLeft(LAMBDA b, n : HeadCut(b, p, n),
                     FoldLeft(LAMBDA b, n : TailCut(b, p, n), a, a.nodes), a.nodes) :
              p \in HostPaths(a)}
=============================================================================
