--------------------------- MODULE MeshScheduler ---------------------------
(***************************************************************************)
(* The central scheduler of the mesh (scheduling/scheduler.py) with the    *)
(* RPC handlers that feed it (backend/server/rpc_connection_handler.py),   *)
(* its router (scheduling/request_routing.py), and the worker nodes that   *)
(* call it (parallax/p2p/server.py).                                       *)
(*                                                                         *)
(* Three threads share the allocator: the event thread drains the queues   *)
(* of updates, joins and leaves and checks heartbeats; the main thread     *)
(* waits for enough nodes and bootstraps; the dispatch thread, which it    *)
(* starts then, routes requests.  The event loop's order does not bind     *)
(* the queues, since an event may arrive between any two drains.           *)
(***************************************************************************)
EXTENDS RequestRouting

CONSTANTS
  MinNodes,     \* min_nodes_bootstrapping
  Manual,       \* the range of a manually assigned node, or NoRange
  Routing,      \* "rr" (round robin, the default) or "dp"
  Faults,       \* which members of MeshFault may happen
  Stable,       \* nodes that do not fail
  MaxFaults     \* bound on crashes, departures and silences

\* crash: a node stops without a word; leave: it shuts down; restart: it starts
\* again while the scheduler still knows it; silent: no announcement of a live node
\* arrives for heartbeat_timeout seconds; give_up: no bootstrap comes within five
\* minutes; overlap: the bootstraps of the main and event threads overlap.
MeshFault == {"crash", "leave", "restart", "silent", "give_up", "overlap"}

ASSUME SchedulerAssumption ==
  /\ MinNodes \in Nat
  /\ Manual \in [Node -> {r \in RangeOfLayers : r[1] < r[2]} \cup {NoRange}]
  /\ Routing \in {"rr", "dp"} /\ Faults \subseteq MeshFault
  /\ Stable \subseteq Node /\ MaxFaults \in Nat

VARIABLES
  alloc,       \* the allocator
  boot,        \* _bootstrapped and _bootstrapped_event
  main,        \* the main thread: "waiting", "booting" or "done"
  plan,        \* the plans the bootstraps of the main and the event thread are about
               \* to apply
  joins,       \* _pending_joins
  leaves,      \* _pending_leaves
  updates,     \* _pending_node_updates
  event,       \* the event thread: "loop", "joins" or "manual" (in _process_joins,
               \* the latter after a manual node), "boot" (about to bootstrap
               \* after joins), "booting" or "dead" (an exception has left
               \* _event_loop)
  pipelines,   \* RoundRobinPipelineRouting._pipelines
  found,       \* the ranges they were discovered with (history)
  route,       \* what the last routing table was worth when it was made
  node,        \* each node's state
  told,        \* the layers each node serves
  rejoining,   \* nodes whose node_update waits for a join to be processed
  faults       \* crashes, departures and silences so far

allocating == <<alloc, boot, main, plan>>
queues == <<joins, leaves, updates>>
routing == <<pipelines, found, route>>
workers == <<node, told, rejoining, faults>>
vars == <<alloc, boot, main, plan, joins, leaves, updates, event,
          pipelines, found, route, node, told, rejoining, faults>>

NotDiscovered == {<<"none">>}
NoPlans == [main |-> <<>>, event |-> <<>>]
NoRoute == [covers |-> TRUE, kept |-> TRUE, served |-> TRUE, shortest |-> TRUE]

Init ==
  /\ alloc = EmptyAllocator /\ boot = FALSE
  /\ main = "waiting" /\ plan = NoPlans
  /\ joins = <<>> /\ leaves = <<>> /\ updates = <<>> /\ event = "loop"
  /\ pipelines = NotDiscovered /\ found = [n \in Node |-> NoRange] /\ route = NoRoute
  /\ node = [n \in Node |-> "off"] /\ told = [n \in Node |-> NoRange]
  /\ rejoining = {} /\ faults = 0

InQueue(q, n) == \E i \in DOMAIN q : q[i].id = n
-----------------------------------------------------------------------------
(* Worker nodes and the RPC handlers.                                      *)

Join(n, obj) == joins' = Append(joins, [id |-> n, obj |-> obj])

\* A node process starts and calls node_join, which queues the join and waits for
\* an allocation.  The node is JOINING, so not active.
Start(n) ==
  /\ node[n] = "off"
  /\ ~InQueue(joins, n)
  /\ \/ "restart" \in Faults
     \/ n \notin Registered(alloc) /\ ~InQueue(leaves, n)
  /\ node' = [node EXCEPT ![n] = "joining"]
  /\ told' = [told EXCEPT ![n] = Manual[n]]
  /\ Join(n, [range |-> Manual[n], active |-> FALSE, manual |-> Manual[n] # NoRange])
  /\ UNCHANGED <<allocating, leaves, updates, event, routing, rejoining, faults>>

\* get_layer_allocation
LayerAllocationOf(n) == IF n \in Registered(alloc) THEN alloc.allocation[n] ELSE NoRange

\* node_join is answered and the node loads its layers.
JoinAnswered(n) ==
  /\ node[n] = "joining" /\ LayerAllocationOf(n) # NoRange
  /\ node' = [node EXCEPT ![n] = "loading"]
  /\ told' = [told EXCEPT ![n] = IF Manual[n] # NoRange THEN @ ELSE LayerAllocationOf(n)]
  /\ UNCHANGED <<allocating, queues, event, routing, rejoining, faults>>

\* node_join gives up after five minutes without an allocation and the process
\* exits.  A node the scheduler knows meets this only when no bootstrap comes in
\* all that time, which counts as a fault.
JoinGivesUp(n) ==
  /\ node[n] = "joining" /\ ~InQueue(joins, n) /\ LayerAllocationOf(n) = NoRange
  /\ "give_up" \in Faults \/ n \notin Registered(alloc)
  /\ node' = [node EXCEPT ![n] = "off"]
  /\ UNCHANGED <<allocating, queues, event, routing, told, rejoining, faults>>

\* The executor has loaded the layers.
Loaded(n) ==
  /\ node[n] = "loading"
  /\ node' = [node EXCEPT ![n] = "ready"]
  /\ UNCHANGED <<allocating, queues, event, routing, told, rejoining, faults>>

\* Mutant: only the first allocation is adopted.
Adopt_keeps_range(n, r) ==
  /\ node' = [node EXCEPT ![n] = IF r = NoRange THEN "waiting" ELSE IF @ = "waiting" THEN "loading" ELSE @]
  /\ told' = [told EXCEPT ![n] = IF @ = NoRange THEN r ELSE @]

\* What the announcer does with the answer to node_update: without an allocation
\* the node is JOINING again, a new one makes it reload.
Adopt(n, r) ==
  /\ node' = [node EXCEPT ![n] = IF r = NoRange THEN "waiting"
                                 ELSE IF r # told[n] \/ @ = "waiting" THEN "loading" ELSE @]
  /\ told' = [told EXCEPT ![n] = IF r = NoRange THEN @ ELSE r]

\* node_update of a node the scheduler knows.
Update(n) ==
  /\ node[n] \in {"loading", "ready", "waiting"}
  /\ n \in Registered(alloc) /\ ~InQueue(updates, n) /\ n \notin rejoining
  /\ updates' = Append(updates, [id |-> n, active |-> node[n] = "ready"])
  /\ Adopt(n, LayerAllocationOf(n))
  /\ UNCHANGED <<allocating, joins, leaves, event, routing, rejoining, faults>>

\* node_update of a node the scheduler does not know: the handler joins it again,
\* with the layers it serves, and waits.
Rejoin(n) ==
  /\ node[n] \in {"loading", "ready", "waiting"}
  /\ n \notin Registered(alloc) /\ ~InQueue(joins, n) /\ n \notin rejoining
  /\ Join(n, [range |-> told[n], active |-> node[n] = "ready", manual |-> FALSE])
  /\ rejoining' = rejoining \cup {n}
  /\ UNCHANGED <<allocating, leaves, updates, event, routing, node, told, faults>>

\* The wait ends with an allocation, or after five seconds without one; the
\* event thread has seen the join by then.
RejoinAnswered(n) ==
  /\ n \in rejoining /\ ~InQueue(joins, n)
  /\ rejoining' = rejoining \ {n}
  /\ Adopt(n, LayerAllocationOf(n))
  /\ UNCHANGED <<allocating, queues, event, routing, faults>>

Stop(n, fault) ==
  /\ fault \in Faults /\ n \notin Stable /\ faults < MaxFaults
  /\ node[n] # "off"
  /\ node' = [node EXCEPT ![n] = "off"]
  /\ told' = [told EXCEPT ![n] = NoRange]
  /\ rejoining' = rejoining \ {n} /\ faults' = faults + 1
  /\ UNCHANGED <<allocating, joins, updates, event, routing>>

Crash(n) == Stop(n, "crash") /\ UNCHANGED leaves

\* GradientServer.shutdown; the join must have been answered.
Leave(n) ==
  /\ node[n] # "joining"
  /\ Stop(n, "leave")
  /\ leaves' = Append(leaves, [id |-> n])
-----------------------------------------------------------------------------
(* Bootstrap and leave, on a pair of allocator and bootstrap flag.         *)

\* Mutant: the result of the allocation is not looked at.
Booted_unchecked(a, p) == [a |-> ApplyPlan(a, p), boot |-> TRUE]

\* bootstrap once the plan is made; it succeeds when there is a pipeline.
Checked(a, p) == [a |-> a, boot |-> p # <<>> /\ has_full_pipeline(a)]
Booted(a, p) == Checked(ApplyPlan(a, p), p)
Bootstrap(a) == Booted(a, BestPlan(a))

EnoughNodes(a) == Len(a.nodes) >= MinNodes

\* A global rebalance clears everything first and does not count the nodes.
Rebalanced(a) == Bootstrap(ClearAll(a))

IsManual(a, n) == a.objs[n].listed.manual

\* Mutant: a departure that breaks the pipeline is not repaired.
LeaveOutcomes_no_rebalance(a, b, n) == {[a |-> leave(a, n), boot |-> b]}

\* What Scheduler.leave of a registered node can lead to.  Nothing more is done
\* when all nodes are manual, in particular when none is left.  The other test
\* of should_global_rebalance is off: rebalance_threshold is infinite.
LeaveOutcomes(a, b, n) ==
  LET c == leave(a, n)
  IN IF has_full_pipeline(c) \/ c.nodes = <<>> \/ \E m \in Listed(c) : IsManual(c, m)
     THEN {[a |-> c, boot |-> b]}
     ELSE {IF has_full_pipeline(d) THEN [a |-> d, boot |-> b] ELSE Rebalanced(d) :
             d \in Truncations(c)}

Install(o) == alloc' = o.a /\ boot' = o.boot
-----------------------------------------------------------------------------
(* The event thread.                                                       *)

\* Mutant: is_active is not applied.
ProcessUpdate_load_only ==
  /\ event = "loop" /\ updates # <<>>
  /\ updates' = Tail(updates)
  /\ UNCHANGED <<allocating, joins, leaves, event, routing, workers>>

ProcessUpdate ==
  /\ event = "loop" /\ updates # <<>>
  /\ updates' = Tail(updates)
  /\ LET u == Head(updates)
     IN alloc' = IF u.id \notin Registered(alloc) THEN alloc
                 ELSE [alloc EXCEPT !.objs[u.id][alloc.entry[u.id]].active = u.active]
  /\ UNCHANGED <<boot, main, plan, joins, leaves, event, routing, workers>>

\* Scheduler.join of queue entry j, and whether allocate refuses it. A second
\* object of a known node takes over node_id_to_node only when it is allocated.
Joined(a, b, j) ==
  LET known == a.entry[j.id] # "none"
      w == IF known THEN "second" ELSE "listed"
      d == IF known THEN [a EXCEPT !.objs[j.id].second = j.obj] ELSE declare(a, j.id, j.obj)
      m == allocate(d, j.id, w, j.obj.range)
      Result(x, y, raised) == [a |-> x, boot |-> y, raised |-> raised]
  IN IF j.obj.manual THEN Result(m, b \/ has_full_pipeline(m), FALSE)
     ELSE IF ~b THEN Result(IF known THEN a ELSE d, b, FALSE)
     ELSE IF join_raises(d, j.id) THEN Result(IF known THEN a ELSE d, b, TRUE)
     ELSE Result(join(d, j.id, w), b, FALSE)

\* One entry of _process_joins, between two of which the main thread may run.
ProcessJoin ==
  /\ event \in {"loop", "joins", "manual"} /\ joins # <<>>
  /\ LET s == Joined(alloc, boot, Head(joins))
     IN ~s.raised /\ Install(s)
  /\ joins' = Tail(joins)
  /\ event' = IF Head(joins).obj.manual THEN "manual" ELSE IF event = "loop" THEN "joins" ELSE event
  /\ UNCHANGED <<main, plan, leaves, updates, routing, workers>>

\* No handler catches the exception of a join: the thread ends.
JoinRaises ==
  /\ event \in {"loop", "joins", "manual"} /\ joins # <<>>
  /\ LET s == Joined(alloc, boot, Head(joins))
     IN s.raised /\ Install(s)
  /\ joins' = Tail(joins)
  /\ event' = "dead"
  /\ UNCHANGED <<main, plan, leaves, updates, routing, workers>>

\* The queue is empty; a bootstrap follows if there has been none, no node was
\* manual and there are enough nodes.
JoinsDone ==
  /\ event \in {"joins", "manual"} /\ joins = <<>>
  /\ event' = IF event = "joins" /\ ~boot /\ EnoughNodes(alloc) THEN "boot" ELSE "loop"
  /\ UNCHANGED <<allocating, queues, routing, workers>>

EventBoots ==
  /\ event = "boot"
  /\ event' = "loop"
  /\ Install([Bootstrap(alloc) EXCEPT !.boot = boot \/ @])
  /\ UNCHANGED <<main, plan, queues, routing, workers>>

\* The same bootstrap, with the main thread running between the deallocations and
\* the allocations: no lock keeps the two apart.
EventPlans ==
  /\ "overlap" \in Faults
  /\ event = "boot" /\ Plans(alloc) # {}
  /\ plan' = [plan EXCEPT !.event = BestPlan(alloc)] /\ event' = "booting"
  /\ alloc' = ClearPlan(alloc, plan'.event)
  /\ UNCHANGED <<boot, main, queues, routing, workers>>

EventApplies ==
  /\ event = "booting"
  /\ alloc' = LayPlan(alloc, plan.event)
  /\ boot' = (boot \/ has_full_pipeline(alloc'))
  /\ plan' = [plan EXCEPT !.event = <<>>] /\ event' = "loop"
  /\ UNCHANGED <<main, queues, routing, workers>>

\* A departure of a node the scheduler does not know is only logged.
ProcessLeave ==
  /\ event = "loop" /\ leaves # <<>>
  /\ leaves' = Tail(leaves)
  /\ LET n == Head(leaves).id
     IN IF n \in Registered(alloc)
        THEN \E o \in LeaveOutcomes(alloc, boot, n) : Install(o)
        ELSE UNCHANGED <<alloc, boot>>
  /\ UNCHANGED <<main, plan, joins, updates, event, routing, workers>>

\* Nobody refreshes the listed object of n: the node is down or has not finished
\* joining, or the updates go to another object.
Stale(n) == node[n] \in {"off", "joining"} \/ alloc.entry[n] # "listed"

\* checking_node_heartbeat finds n's listed object active and overdue.
Overdue(n) == event = "loop" /\ n \in Listed(alloc) /\ alloc.objs[n].listed.active /\ Stale(n)

HeartbeatTimeout(n) ==
  /\ Overdue(n)
  /\ \E o \in LeaveOutcomes(alloc, boot, n) : Install(o)
  /\ UNCHANGED <<main, plan, queues, event, routing, workers>>

\* The announcements of a live node have failed, which is only logged there, until
\* the node is overdue.  It is evicted and does not know.
SilentTimeout(n) ==
  /\ "silent" \in Faults /\ n \notin Stable /\ faults < MaxFaults
  /\ event = "loop" /\ n \in Listed(alloc) /\ alloc.objs[n].listed.active
  /\ ~Stale(n) /\ ~InQueue(updates, n)
  /\ \E o \in LeaveOutcomes(alloc, boot, n) : Install(o)
  /\ faults' = faults + 1
  /\ UNCHANGED <<main, plan, queues, event, routing, node, told, rejoining>>
-----------------------------------------------------------------------------
(* The main thread: _wait_for_bootstrap.                                   *)

MainBoots ==
  /\ main = "waiting" /\ ~boot /\ EnoughNodes(alloc) /\ alloc.nodes # <<>>
  /\ Install(Bootstrap(alloc))
  /\ main' = IF boot' THEN "done" ELSE "waiting"
  /\ UNCHANGED <<plan, queues, event, routing, workers>>

\* The same bootstrap, with the event thread running between the deallocations
\* and the allocations.
MainPlans ==
  /\ "overlap" \in Faults
  /\ main = "waiting" /\ ~boot /\ EnoughNodes(alloc) /\ Plans(alloc) # {}
  /\ plan' = [plan EXCEPT !.main = BestPlan(alloc)] /\ main' = "booting"
  /\ alloc' = ClearPlan(alloc, plan'.main)
  /\ UNCHANGED <<boot, queues, event, routing, workers>>

MainApplies ==
  /\ main = "booting"
  /\ alloc' = LayPlan(alloc, plan.main)
  /\ boot' = (boot \/ has_full_pipeline(alloc'))
  /\ main' = IF has_full_pipeline(alloc') THEN "done" ELSE "waiting"
  /\ plan' = [plan EXCEPT !.main = <<>>]
  /\ UNCHANGED <<queues, event, routing, workers>>

MainSeesBoot ==
  /\ main = "waiting" /\ boot
  /\ main' = "done"
  /\ UNCHANGED <<alloc, boot, plan, queues, event, routing, workers>>
-----------------------------------------------------------------------------
(* The dispatch thread.                                                    *)

\* The node, if it is up, serves the layers the scheduler has on its books.
Serves(n) == node[n] = "off" \/ (node[n] = "ready" /\ told[n] = RangeIn(alloc, n))

\* What the routing table p is worth: whether its nodes have the ranges that the
\* pipelines were discovered with, and whether it is a shortest one.
Routed(p, shortest) ==
  route' = [covers |-> p = <<>> \/ Covers(alloc, p),
            kept |-> \A i \in DOMAIN p : RangeIn(alloc, p[i]) = found'[p[i]],
            served |-> \A i \in DOMAIN p : Serves(p[i]),
            shortest |-> shortest]

\* Latencies, which depend on the load, may be any when a request is routed.
DispatchDp ==
  /\ main = "done" /\ Routing = "dp"
  /\ UNCHANGED <<allocating, queues, event, pipelines, found, workers>>
  /\ \E c \in Latencies : LET p == find_optimal_path(alloc, c)
                          IN Routed(p, Shortest(alloc, c, p))

\* The round-robin router discovers its pipelines once; which nodes are overloaded
\* is left open.
DispatchRr ==
  /\ main = "done" /\ Routing = "rr"
  /\ IF alloc.nodes # <<>> /\ pipelines = NotDiscovered
     THEN /\ pipelines' = Chains(alloc, Ranged(alloc), 0)
          /\ found' = [n \in Node |-> RangeIn(alloc, n)]
     ELSE UNCHANGED <<pipelines, found>>
  /\ \E p \in IF alloc.nodes = <<>> THEN {<<>>}
              ELSE UNION {RrPaths(alloc, pipelines', busy) : busy \in SUBSET Listed(alloc)} :
       Routed(p, TRUE)
  /\ UNCHANGED <<allocating, queues, event, workers>>
-----------------------------------------------------------------------------
Next ==
  \/ \E n \in Node : \/ Start(n) \/ JoinAnswered(n) \/ JoinGivesUp(n) \/ Loaded(n)
                     \/ Update(n) \/ Rejoin(n) \/ RejoinAnswered(n) \/ Crash(n) \/ Leave(n)
                     \/ HeartbeatTimeout(n) \/ SilentTimeout(n)
  \/ ProcessUpdate \/ ProcessJoin \/ JoinRaises \/ JoinsDone
  \/ EventBoots \/ EventPlans \/ EventApplies \/ ProcessLeave
  \/ MainBoots \/ MainPlans \/ MainApplies \/ MainSeesBoot
  \/ DispatchDp \/ DispatchRr

\* The scheduler's threads keep running; a node that is up keeps announcing itself
\* every ten seconds and finishes loading; stable nodes start.  The scheduler's
\* part is weak fairness with the enabling conditions spelled out: each of these
\* steps ends its own condition.
Fairness ==
  /\ []<>(joins = <<>> \/ event = "dead")
  /\ []<>(leaves = <<>> \/ event = "dead")
  /\ \A n \in Node : []<>~Overdue(n)
  /\ []<>~(main = "waiting" /\ (boot \/ (EnoughNodes(alloc) /\ Plans(alloc) # {})))
  /\ []<>(event \in {"loop", "dead"}) /\ []<>(main # "booting")
  /\ WF_vars(ProcessUpdate)
  /\ \A n \in Node : /\ WF_vars(JoinAnswered(n)) /\ WF_vars(JoinGivesUp(n))
                     /\ WF_vars(Loaded(n)) /\ WF_vars(Update(n))
                     /\ WF_vars(Rejoin(n)) /\ WF_vars(RejoinAnswered(n))
  /\ \A n \in Stable : WF_vars(Start(n))

Spec == Init /\ [][Next]_vars
FairSpec == Spec /\ Fairness
-----------------------------------------------------------------------------
\* The variables keep their types.
TypeOK ==
  /\ Listed(alloc) \subseteq Node
  /\ \A n \in Node : /\ alloc.allocation[n] \in RangeOfLayers \cup {NoRange}
                     /\ alloc.entry[n] \in {"none", "listed", "second"}
                     /\ told[n] \in RangeOfLayers \cup {NoRange}
                     /\ node[n] \in {"off", "joining", "loading", "ready", "waiting"}
  /\ \A l \in Layer : alloc.load[l] \in Nat
  /\ rejoining \subseteq Node /\ boot \in BOOLEAN
  /\ event \in {"loop", "joins", "manual", "boot", "booting", "dead"}
  /\ main \in {"waiting", "booting", "done"}

\* "Ensure Scheduler and allocator share the same node list to avoid divergence":
\* the list, node_id_to_node and node_allocation describe the same objects.
NodesAgree ==
  /\ Len(alloc.nodes) = Cardinality(Listed(alloc))
  /\ Listed(alloc) = Registered(alloc)
  /\ \A n \in Node : /\ alloc.entry[n] # "second"
                     /\ alloc.allocation[n] # NoRange =>
                          n \in Registered(alloc) /\ alloc.allocation[n] = RangeIn(alloc, n)

Hosts(l) == {n \in Node : l \in Layers(alloc.allocation[n])}

\* What join decides by, hosting_nodes and current_kv_size of every layer, is what
\* the current allocations amount to after any history ("avoid double counting
\* loads").
LoadsMatch ==
  \A l \in Layer :
    /\ alloc.hosts[l] = Hosts(l)
    /\ alloc.load[l] = SumOf([n \in Hosts(l) |-> KvPerLayer(n, alloc.allocation[n])], Hosts(l))

\* "During bootstrap (no full pipeline yet), only declare nodes": the scheduler
\* counts as bootstrapped only while the allocations form a full pipeline.
BootstrappedHasPipeline == boot => has_full_pipeline(alloc)

\* The event thread survives every join.
EventLoopAlive == event # "dead"

\* A routing table names nodes whose layers "exactly cover [0, num_layers)", by
\* the scheduler's own books at the time it is made.
RoutesCover == route.covers

\* The round-robin router goes on with the pipelines it once discovered, and repairs
\* them: a route that it takes from there covers the model as well, unless a node on
\* it has meanwhile been given other layers.
CachedRoutesCover == route.kept => route.covers

\* "a minimum-latency node sequence": what the relaxation returns is as cheap as
\* any chain of active nodes, and it returns nothing only when every chain has a
\* node that is overloaded or a way that is not measured.
RoutesShortest == route.shortest

\* "prevent scheduler from sending requests during rebalancing": a routing table
\* names no node that is up but still serves other layers or loads them.
RoutesServed == route.served

\* "evicts nodes inactive for heartbeat_timeout seconds": a node that stays down
\* leaves the registry.
Evicted ==
  \A n \in Node : (node[n] = "off" /\ n \in Registered(alloc))
                    ~> (node[n] # "off" \/ n \notin Registered(alloc))

\* Every node that stays up serves the layers the scheduler believes it serves,
\* and the scheduler knows that it is ready.
InService(n) ==
  /\ node[n] = "ready" /\ told[n] = LayerAllocationOf(n) /\ told[n] # NoRange
  /\ alloc.objs[n].listed.active

\* Once failures stop, the mesh settles: a pipeline stands and every node that is
\* up, the stable ones among them, is in service for good, whatever it was when a
\* departure or an eviction changed the allocations.
Settles ==
  <>[](/\ boot /\ has_full_pipeline(alloc)
       /\ \A n \in Node : n \in Stable \/ node[n] # "off" => InService(n))
=============================================================================
