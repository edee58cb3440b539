# A TLA+ model of the inference mesh

This directory holds TLA+ modules for the core of the repository and for its
web client, the TLC configurations that check them on small instances, and TLAPS
proofs, for every instance, of the safety properties of the cache manager, the
executor pipeline, the mesh scheduler, the status feed, the pages and the chat.
`PROJECT.json` says for each definition which lines it translates, for each run what it checks, and for
each property which plausible bug of the code would break it (the definitions
marked `Mutant:` in the modules; they are used for nothing else).

## 1. The system

A model is cut into ranges of decoder layers. Worker nodes hold a range each; a
chain of nodes whose ranges meet from layer 0 to the last is a pipeline. A
central scheduler hands out the ranges and routes each request over a pipeline;
the nodes of the route then compute it token by token, in a ring.

| Part (source) | State | Operations | Where it is hard |
|---|---|---|---|
| KV cache manager (`parallax/server/cache_manager.py`, `cache/allocator.py`) | free blocks, free slots, block tables, context lengths, recurrent state of slots | allocate, append, free | partial failure of an allocation; ids reused in any order |
| Batch scheduler (`parallax/server/scheduler.py`) | wait queue, running set, ready flags, metric | enqueue, admit, form batch, cancel, evict | full cache, two limits per batch, admission called twice per iteration |
| Executor loop (`parallax/server/executor/`) | scheduler, cache, finished list | drain sockets, handle tokens / stages / aborts, run a batch, release on error | forward and abort messages in any order, half-failed batches, timeouts |
| HTTP server of the first peer (`http_server.py`) | one record per open request | submit, disconnect, token, error | disconnection at any time; last token |
| Layer allocator (`scheduling/layer_allocation.py`, `node.py`) | node list, registry, allocations, hosts and load per layer | allocate, deallocate, declare, join, leave, global allocation | the books must agree after any history |
| Mesh scheduler (`scheduling/scheduler.py`) | three queues, bootstrap flag, three threads | bootstrap, join, leave, update, heartbeat, dispatch | unlocked threads, stale queued events, crashes |
| Routers (`request_routing.py`) | the round-robin router's cached pipelines and cursor | relax; discover, route, repair | a cheapest path over ranges that overlap; cached state outlives what it was made from |
| RPC handlers and node (`backend/server/rpc_connection_handler.py`, `parallax/p2p/server.py`) | status and range of the node | node_join, node_update, node_leave, announce, reload, shut down | restarts, rejoins, a node that never hears of its new range |
| Launcher, shared state (`launch.py`, `shared_state.py`) | multi-key dictionary between processes | reload on change | non-atomic update (not modelled yet) |
| Backend (`request_handler.py`, `scheduler_manage.py`) | routing retries, model switch | forward, retry, stop / start | timeouts against late answers (not modelled yet) |
| Prefix cache (`radix_cache.py`) | tree | insert, match, evict | not connected to the cache manager at this commit |
| Web: stream client (`frontend/src/services/http-stream.ts`, `api.ts`) | reader and abort controller, shared by all connections; timers | send, time out, read, abort, reconnect | connections overlap and act on each other's reader |
| Web: cluster service (`services/cluster.tsx`) | cluster info, node list, model list, configuration | snapshot, reset, fetch models, init | resets and snapshots in any order; the model name has three sources |
| Web: routers and pages (`router/`, `pages/`, `drawer-layout.tsx`, `model-select.tsx`, `number-input.tsx`) | location, timers, dialogs, calls of init | navigate, continue, select, toggle, answer | timers and answers that come after what they were started for |
| Web: chat (`services/chat.tsx`, `chat-helper.tsx`, `chat-input.tsx`) | status, messages, the open request | generate, regenerate, stop, clear, chunk, close, error | chunks cut anywhere; every prefix of a text is shown |
| Web: dialog and message list (`components/mui/dialog/`, `chat-messages.tsx`) | open, loading; scroll position and flags | open, confirm, submit, dismiss; grow, scroll | handlers that throw or wait; browser events that come late |
| SGLang / vLLM executors, models, kernels, sampling, CLI, themes, markdown, event log | | | external engines, numerics, styling or pure I/O |

They interact so: the HTTP server puts requests on a socket of the first
executor; its loop moves them through batch scheduler and cache manager and puts
hidden states on the wire to the next executor; the last executor's tokens go
back to the first. Aborts are broadcast by the first one. The nodes call the
mesh scheduler over RPC every ten seconds, and the answer to that call is how
they learn of a new range. The web client reads the scheduler's status as a
stream, starts the scheduler with a model (`scheduler/init`), and chats through
the same completion endpoint as any client. Inside it the cluster service feeds
the pages, the routers and the chat service.

What makes each part correct: the cache never shares or loses a block or a slot;
exactly the running requests are resident; a batch keeps its limits; the stages
of a pipeline agree on the position of a request; nobody's loop is ended by a
message; every client is answered. The allocator's list, registry, allocations
and loads agree; the scheduler believes in a pipeline only when there is one;
the event thread survives; a route covers the model by nodes that really serve
it; after failures stop, the mesh settles. The web client's pages end up with the
scheduler's current report and do not go back to an earlier one; timers act on what is true when they
fire; nothing but the user's choice restarts the scheduler; an answer belongs to
its question; a dialog waits for its handler.

## 2. Modules

| Module | Models | State and actions |
|---|---|---|
| `KVPoolOps` | what the cache manager does to counts of free blocks and slots and to context lengths, as functions of a pool record | none |
| `KVPool` | abstract specification: a pool that allocates, grows and frees requests by count | `pool` |
| `CacheManager` | the cache manager with block identities | free and used blocks and slots, tables, contexts, slot state; `AllocateRequest`, `RefuseRequest`, `AppendSlot`, `FreeRequest`, `WriteState` |
| `Lists` | selecting the elements of a list that satisfy a test (a fold), and sums | none |
| `BatchScheduler` | the batch scheduler as functions of a record (on top of `KVPoolOps`) | none |
| `Executor` | a ring of executors with their messages, the HTTP server and the clients | scheduler and cache per peer, messages in flight, what each client sees |
| `LayerAllocation` | the allocator, water-filling, DP planning and truncation as functions of an allocator record | none |
| `RequestRouting` | both routers as functions of the allocator, the latencies and the cache; what a route is worth | none |
| `MeshScheduler` | the three scheduler threads, the RPC handlers and the nodes | see its VARIABLES |
| `ClusterService` | what the web client makes of a snapshot: cluster info, merged nodes, rows, model name | none |
| `HttpStream` | the stream client | `conn`, `body`, `reader`, `ctrl`, `timers` |
| `ClusterFeed` | `ClusterProvider` on top of `HttpStream`, with the scheduler that writes the snapshots | adds the wire, the scheduler, `info`, `nodes`, the model list and name |
| `Pages` | routers, setup and join page, model select, the chat page's layout and its dialogs | see its VARIABLES |
| `ChatHelper` | the two parsers of generated text, and a reference reading of the formats | none |
| `ChatService` | `ChatProvider`, its event stream, the input and the message buttons | status, messages, requests, reader |
| `AlertDialog`, `MessageView`, `ChatView` | the dialog; the scrolling list; the list under the dialog | see their VARIABLES |
| `MCCacheManager`, `MCExecutor`, `MCMesh`, `MCFeed`, `MCPages`, `MCChat` | instances for TLC | |
| `FoldLemmas` | what a left fold computes, for any operation | |
| `CacheManagerProofs`, `SchedulerProofs`, `ExecutorProofs`, `MeshProofs`, `ClusterFeedProofs`, `PagesProofs`, `ChatProofs` | inductive invariants, lemmas and theorems (section 5) | |

Composition: `CacheManager` implements `KVPool` (run `cm_hybrid`, property
`PoolSpec`: counts are the refinement mapping), and `Executor` uses the
operators `KVPool` is made of, so what the executor's model assumes of its cache
is what the detailed cache is shown to do. `MeshScheduler` is `LayerAllocation`
and `RequestRouting` plus threads, queues and nodes. `ClusterFeed` is `HttpStream`
and `ClusterService` composed. `Pages` takes less of it for granted than it does:
its `Feed` delivers any snapshot or a reset at any time. `ChatView` composes the
dialog with the list behind it.

### How the actions correspond to the code

`CacheManager`: an action is one call of the cache manager; the calls come from
one thread. Which free block is taken is left open (`Picks`).

`Executor`: an iteration of `run_loop` drains its sockets and then schedules one
batch. Handling one message is one step and scheduling is another, since what
has not arrived when the drain ends is handled one iteration later. A forward
call is waited for, so forwards arrive in order; abort calls are not, so they
arrive at any time. An exception that leaves `run_loop` makes the peer not
`alive`. The outcomes the clock, the model or the network choose (a timeout, a
failing batch, an EOS token, a lost message) are nondeterministic; `Faults` says
which of them a run allows.

`LayerAllocation`: functions from allocator to allocator. Two `Node` objects of
the same id can exist, which matters when a node restarts: `objs[n]` has the one
in the list and a second one, and `entry[n]` says which of them
`node_id_to_node` holds.

`MeshScheduler`: an action of the event thread is one drain step of
`_event_loop`; their order in the loop does not bind them because an event may
arrive between any two drains. The joins are drained one at a time
(`ProcessJoin`), and the bootstrap that may follow them is a step of its own
(`JoinsDone`, `EventBoots`): each join wakes the main thread, which calls the
same unlocked `bootstrap()`. A join that raises ends the thread (`JoinRaises`).
`MainPlans` and `MainApplies`, and `EventPlans` and `EventApplies`, split the two
bootstraps between clearing and allocating (fault `overlap`).
`SilentTimeout` evicts a live node whose announcements were lost; it comes back
through `Rejoin`, with the range and status it still has, and `rejoining` holds
the nodes whose announcer waits for that join. `mesh_live` shows that it ends up
in service again. `DispatchDp` and `DispatchRr` route one request; of the table
that was made `route` keeps only what it was worth, and `found` the ranges with
which the round-robin router discovered its pipelines.

`RequestRouting`: `find_optimal_path` is the relaxation of
`DynamicProgrammingRouting`: `Heads` are its initial entries, `Relaxed` relaxes
every node that starts at one layer, and `Relaxations` takes the layers in their
order, which is the order of `sorted` up to the end layers: nodes that start at
the same layer do not follow each other. An entry has the dp value and the path
that its parents lead back along. `Chains` is `pipeline_discovery`, `Repairs` the
repair of a pipeline that has lost a node or has one that is overloaded. What a
route is worth is said without the relaxation: `Covers` looks at the ranges of the
route's nodes, and `Shortest` compares its cost, added up along the route, with
that of every chain.

The web modules: JavaScript runs a callback to its end, and promise reactions
before the next timer or event. An action is therefore an event (a timer, an
answer, a chunk, a click) with everything that follows it at once: the state
setters, the renders and the effects whose dependencies changed. In `HttpStream`
a reaction that is due (`Settled`) runs before anything else (`Quiet`). Two things
are read from React rather than from this repository: an effect's cleanup runs
before the effect runs again or the component goes, and the state of a component
goes with it. The production build is modelled, where effects run once when a
component is mounted.

`ClusterFeed`: the scheduler writes a snapshot to each open body and the wire
holds at most one (`Writes`); `TimesOut`, `Rejects`, `IsRefused`, `FindsNoReader`,
`IsDone` and `ReadBreaks` are the ways a connection ends, with `reset` where the
code calls `onError`. `abort` is part of the client's interface though nobody
calls it. `Pages`: `Renders` is what follows any event that changes location,
cluster info or configuration; `Forget` marks the call of a setup page that was
left, whose answer still navigates. An error that the scheduler answers with has
the type of a success, so `Returns` may happen without `Serve`. `ChatService`: a
line of the body has two pieces, so a chunk may end inside it. `Disconnect`
contains both calls of `onClose`: the one of `disconnect` and the one of the
loop whose read was cancelled. `MessageView`: positions are steps larger than
the code's tolerances; the animation of `scrollTo` and late scroll events are
the browser's.

Operators on allocators take intermediate results as parameters rather than
through LET (`Shares`, `RoundUp`, `Checked`): TLC's coverage statistics, which
tell whether every action fires, expand a LET definition at each of its uses.

### Abstractions

- Requests have unique ids; token values, tensors and sampling are left out, a
  token only is or is not EOS.
- One pipeline per executor model; the routing table is fixed.
- Water-filling uses the exact level, not the bisection's rounding. Of equally good
  DP plans the one that skips the earlier nodes is taken, as in the code
  (`FirstFound`); which of two equal pipelines a node joins is a fixed choice, but
  not necessarily the code's.
- What a node and a way take is a constant table, and any of `Latencies` may hold
  when a request is routed: loads and measurements change in between. For the
  round-robin router, which goes by it only to skip nodes, any set of nodes may be
  overloaded. Among equally cheap paths the choice is left open.
- A manual range ends within the model. Beyond it `allocate` raises
  (`layer_allocation.py:184`) after it has booked the node.
- `last_heartbeat` is the predicate `Stale`: nobody refreshes the object.
- At most one update per node is queued; a node finishes loading in one step
  (`Loaded`), so a late READY of an executor that is being replaced is not seen.
- A join is processed within the five seconds a rejoining node waits.
- `rebalance_threshold` is infinite and warm-up is off at bootstrap, as the
  backend configures them; truncation after a departure is modelled.
- Web: a message of the status stream arrives whole, texts of a model are
  sequences of tags and words, white space is left out. `Pages` starts with the
  list of models loaded. The setting local or remote is passed on only. An IME
  composition only withholds Enter. `close` of `useAlertDialog` is not called
  anywhere. The copy buttons and the markdown renderer are left out. A report may
  be any status the client handles; the scheduler of this commit sends only
  `waiting` and `available`.

## 3. Runs

Passing runs:

| Run | Question | Bounds |
|---|---|---|
| `cm_hybrid` | conservation, no aliasing, tables and contexts, slot state, refinement of `KVPool` | 3 requests, 5 blocks of 2 tokens, 3 slots, contexts to 6: requests compete for blocks, refusals and growth over a block boundary occur; symmetric in requests, blocks and slots |
| `ex_single` | residency, batch limits, release, with cancellations, timeouts, failed and half-failed batches | 3 requests, running set of 2, 3 tokens per batch, 3 blocks, context limit 4 (prompts are refused) |
| `ex_pipeline` | stages in step, one step at a time, no peer dies, with lost messages | 3 peers, 2 requests; memory runs out at the last peer first |
| `ex_live` | clients answered, memory returned | 2 peers, enough memory; cancellations |
| `mesh_safety` | allocator books, bootstrap flag, dynamic-programming routes | 3 nodes of different sizes, 3 layers, 2 crashes, departures or evictions of live nodes; 4 tables of latencies, in which the node or the way that costs most differs, one node is overloaded, or one way is not measured |
| `mesh_manual` | list, registry and allocations with manual assignments, and when a join raises half way | 2 manual nodes, an automatic one too small for any layer; 2 crashes or departures |
| `mesh_race` | books and cached routes when two bootstraps overlap | 3 equal nodes that stay, any two of which hold the model, so that the second bootstrap may pick other nodes than the first one; symmetric in the nodes |
| `mesh_live` | settling after a departure or an eviction | 3 nodes, one leaves and may come back, or is evicted alive and rejoins |

The symmetry of `mesh_race` is sound because none of its nodes differs from another in
memory, KV memory, power, latency or assignment, and what the allocator chooses it
chooses by a node's place in its list.

Three layers on three nodes of different sizes are enough for every branch of
the allocator: two nodes are needed for a pipeline, the third joins as a replica
of a part, a departure breaks the pipeline or does not, and it is repaired by
truncation or by a rebalance.

Runs of the web client:

| Run | Question | Bounds |
|---|---|---|
| `web_feed` | reconnects, order of the reports, justified alarm, convergence | 3 connections at a time, 1 timeout or abort, 2 faults, 1 change among 4 snapshots: with one timeout two connections overlap for good, which is what the shared reader is sensitive to, and a third identity is needed for the connection that replaces one while its body is still referred to |
| `web_pages` | stale timers, unasked restarts, direction | 2 models, 5 reports, 3 moves of the user, 2 calls of init in flight, 1 change: enough to leave a page with its call in flight and come back before the answer, or to choose twice |
| `web_chat` | status, answers, thoughts, ends | 2 requests, 3 formats with 7 texts, 2 changes of the cluster: a stop, an error or a regeneration between two requests, chunks cut anywhere |
| `web_view` | the dialog's handlers, following the stream, ceasing to | 3 positions, 3 updates, 3 gestures: an update while timers of the two before it still run, and a gesture between any two browser events |

The passing mesh runs exclude what the disagreements below start from: restarts of
a known node, in `mesh_safety` the departure of the last node and nodes too small
for the lightest layer (such a node joins in `mesh_manual`), and overlapping
bootstraps outside `mesh_race`, which does not check the loads. `CachedRoutesCover` says less than "a route covers the model":
the round-robin router does not notice when a node of a cached pipeline is given
other layers, and then the route that it takes covers the model no more. That
happens even when nobody leaves: with three equal nodes the main thread bootstraps
two of them while the third is being declared, a request is routed, and then the
event thread's own bootstrap, which it was about to make, clears and
moves them. What is left and is checked is that nothing else breaks a route: not the
caching as such, not an overloaded node, not the repair.

`NeverBack` is about the time before the first timeout or abort. From then on two
connections are open (see below), and TLC finds that the older one's report may
come after the newer one's when the condition `extra = 0` is dropped. `FollowsStream`
leaves out the gestures that `chat-messages.tsx:110` does not take for scrolling
up: one with the keyboard, or downwards during the animation, which it ends. Such a
gesture may leave the view short of the bottom until the next message or click
though `userScrolledUpRef` is not set, as TLC finds without `astray`. And
`StopsOnlyWhenMoved` lets a cut of the messages stop the following: when messages
that are cut are followed by new ones and a timer of an earlier update has reset the
auto-scroll flag, `onScroll` takes the lower position for the user's.

### Disagreements of code and text

They need no run of their own: each shows up when a configuration is changed as
the table says and checks only the property named.

| Property | Configuration | What the code does, against which text |
|---|---|---|
| `Served` | `ex_live`, `NumPeers = 1`, `PeerBlocks <- ScarceBlocks`, `MicroBatchRatio = 1`, `MaxTokens = 4`, `Faults = {}` | a request taken from the wait queue while `allocate_request` fails is neither put back nor reported, and its client waits for ever (`server/scheduler.py:231`); line 11: "We admit requests when capacity allows" |
| `RoutesCover` | `mesh_race` | the event thread's bootstrap moves the nodes of a pipeline that the router has cached since the main thread's (`request_routing.py:299`), though no node has left; line 221: "exactly covers [0, num_layers)" |
| `RoutesCover` | `mesh_safety`, `Power <- EvenPower`, `Routing = "rr"`, `Faults = {"leave"}`, `MaxFaults = 1` | pipelines are discovered once: a node that leaves and joins again with other layers keeps its old place (`request_routing.py:299`); line 221: "exactly covers [0, num_layers)", and line 227 names `reset_pipelines()`, which does not exist |
| `EventLoopAlive` | `mesh_safety`, `Mem <- TinyMem`, `Power <- EvenPower`, `MinNodes = 1`, `Faults = {}` | a node without room for the lightest layer makes `allocate` raise, which ends the event thread (`scheduling/scheduler.py:595`); line 430: "Run the scheduler concurrently until `stop()` is called." |
| `RoutesServed` | `mesh_safety`, `Power <- EvenPower`, `Faults = {"leave"}`, `Stable = {n1, n2}`, `MaxFaults = 1` | an update queued before a rebalance is applied after it and makes a node ready for layers it has not loaded (`scheduling/scheduler.py:575`); `p2p/server.py:682`: "prevent scheduler from sending requests during rebalancing" |
| `SlotIdempotent` | `cm_hybrid`, `NeedsBlocks = FALSE`, `Block = {}` | with linear layers only, a second allocate of a request loses its first slot (`cache_manager.py:248`); `tests/test_cache_manager.py:150`: "returns True without re-allocating" |
| `MetricFresh` | `ex_single` | the running-requests metric is stale after evict and admit (`server/scheduler.py:249`); line 245: "Reflect current running requests metric after admission" |
| `TimedOutReleased` | `ex_live`, `Faults = {"timeout", "loss"}` | the timeout handler fails on a missing attribute before it releases (`base_executor.py:440`); its message: "Aborting and releasing resources." |
| `BatchFits` | `ex_pipeline` | peers after the first count a prefill as zero tokens (`server/scheduler.py:304`); line 56: "prefill + decode tokens in a single batch" |
| `FinishedBatchSent` | `ex_live`, `NumPeers = 3` | intermediate peers never send or clear their finished list (`base_executor.py:413`); line 412: "Send finished batch to next peer" |
| `AnswerComplete` | `ex_single` | an answer that ends by length lacks its last token (`http_server.py:337`); line 336: "Only process and send non-EOS tokens" |
| `Evicted` | `mesh_live`, `Faults = {"crash"}` | a node that dies before it is ready is never evicted (`scheduling/scheduler.py:294`); `scheduling/README.md:79`: "evicts nodes inactive for `heartbeat_timeout` seconds" |
| `NodesAgree` | `mesh_safety`, `Faults = {"crash", "restart"}` | a restarted node has two objects, and list and registry diverge (`layer_allocation.py:174`); `scheduling/scheduler.py:72`: "share the same node list to avoid divergence" |
| `BootstrappedHasPipeline` | `mesh_safety`, `Faults = {"leave"}`, `Mem <- BigMem`, `MinNodes = 1`, `Stable = {}`, `MaxFaults = 3` | the scheduler stays bootstrapped when the last node leaves (`scheduling/scheduler.py:366`); line 592: "no full pipeline yet" |
| `NoPeerDies` | `ex_pipeline`, `Faults = {"half_error"}` | a batch whose decodes fail releases its prefills too, which the next peers already compute; the next decode of such a request ends the executor there (`base_executor.py:516`, `server/scheduler.py:133`); line 135: "Decode request {rid} must already be admitted" |
| `LoadsMatch` | `mesh_race` | overlapping bootstraps count every load twice (`scheduling/scheduler.py:558`); `layer_allocation.py:363`: "avoid double counting loads" |
| `RoutesServed` | `mesh_race` | the round-robin router uses nodes that are still loading (`request_routing.py:386`); `p2p/server.py:682`: "prevent scheduler from sending requests during rebalancing" |

In the web client four things were met while modelling that no module states as
a property:

- "Please go back to the previous step to add more nodes, or choose a smaller
  model" (`pages/join.tsx:88`) is shown while the cluster is waiting, but while it
  is waiting the setup page goes straight back without calling init
  (`pages/setup.tsx:41`), and reports overwrite the choice of a model
  (`services/cluster.tsx:258`).
- A timeout starts a second reconnect timer beside that of the fetch it aborts
  (`http-stream.ts:142` and `213`): from then on there are two connections.
  `StreamsAccounted` counts them.
- Both streams decode chunks without the `stream` option
  (`http-stream.ts:190`, `chat.tsx:454`): a character of several bytes that a chunk
  cuts in two is lost.
- `initScheduler` takes an answer for a success when its type is
  `scheduler_init` (`api.ts:24`), which the scheduler's error answers also have.

## 4. Fairness

`Executor!Fairness`: every peer keeps draining its sockets and iterating, which
`run_loop` does without condition. Clients need not submit and no failure need
happen. The iteration's part is written as "infinitely often not busy, or
infinitely often an iteration" with `Busy` spelled out, because ENABLED of that
action is expensive to evaluate; it is weak fairness of the iteration.

`MeshScheduler!Fairness`: the event thread drains each queue and checks
heartbeats twice a second while it lives, the main thread polls once a second,
nodes announce themselves every ten seconds, finish loading, and stable nodes are
started. Where a step always ends its own enabling condition, weak fairness is
written as `[]<>` of the condition being false. Dispatch, crashes, departures and silences
are not fair.

`ClusterFeed!Fairness`: the scheduler answers and writes, timers fire, reactions
run. Timeouts, refusals and broken bodies are bounded faults; each loop that has
something to read does so, because a read that has data is settled by the
browser. `Pages!Fairness`: timers fire and calls of init are answered; the feed
need not deliver anything. `ChatService!Fairness`: the server answers a request
and an open body goes on and ends; the client has no timeout, so `AnswerEnds` rests
on that. `ChatView!Fairness`: the browser draws frames, animates and reports
positions, and timers fire; neither user nor stream is fair.

## 5. Proofs

A theorem holds for every value of the constants that satisfies the ASSUMEs of
the modules, which every TLC run evaluates on its instance: any number of peers,
requests, blocks, connections, models, messages and any bound on failures. Each
inductive invariant was first checked by TLC. The types of the cache manager,
`SlotIdempotent` and `SetupWaits` are proved only; no run repeats them.

### The cache manager (`CacheManagerProofs`)

- `TypeCorrect`, `BlockConservation`, `NoBlockAliasing`, `TablesFit` and
  `StateIsolation`: `Spec => []P` for the properties of the same idea in
  `CacheManager`;
- `SlotConservation` and the action property `SlotsAreKept`, on a shard that has
  attention layers. The hypothesis is needed: without it a slot is lost
  (`SlotIdempotent` in section 3);
- `CacheRefinesPool`: the cache with block identities implements the counting
  pool `KVPool`, whose operations the executor's model uses.

One inductive invariant `Inv` carries them. Blocks: conservation alone is not
inductive, since a free gives back what the table lists, so the table must list
blocks that are used, each once and in one table only, and as many as the context
needs; `BlockInv` is the conjunction. Slots: `SlotInv` says that used and free
slots partition the slots, that requests hold different used slots, and that a
slot's state belongs to its owner. With attention layers, `SlotsOwned` (each used
slot has an owner) and `TableWithSlot` (who has a slot has a table) are added;
the second makes the early return of `allocate_request` cover every owner of a
slot, which is exactly what fails without attention layers. The refinement needs
the cardinalities of the free sets, hence `FiniteAssumption`.

### The executor pipeline (`SchedulerProofs`, `ExecutorProofs`)

For any number of peers and requests and with every failure of the model
(cancellations, aborts, lost messages, timeouts, failed and half-failed batches),
on shards with an attention layer (`NeedsBlocks`, as above):

- `ResidencyHolds`: at every peer exactly the running requests hold memory;
- `StepsAreSequential`: two steps of a request are never pending at once;
- `AnsweredIsReleased`: an answered client has nothing left at the first peer;
- `ExecutorTypes`: no peer hands out more blocks than it has or runs more than
  `max_batch_size` requests;
- `BatchesFit`: a batch keeps both limits. Its hypothesis `NumPeers = 1` is needed:
  the peers after the first count a prefill as zero tokens (section 3);
- `CachesAdvanceTogether`: at two peers that both hold a request, the earlier one is
  level with the later one or one token ahead;
- `NoExceptionEscapes`: no `run_loop` ends by an exception. Its hypothesis, a single
  node or no `half_error`, is needed: when a batch fails between its prefills and
  its decodes, a later peer keeps or gets a request that an earlier one has
  released (`NoPeerDies` in section 3).

`SchedulerProofs` has the facts about the scheduler's record that the steps
share. `Good` says that the running list has no request twice and not too many,
that exactly its requests are resident, and that the counts of the pool are
`Backed`: there are disjoint sets of blocks of the sizes the counts claim. That
witness is what keeps `free_blocks` within its bounds when memory is released, and
it is the counting view of what `CacheRefinesPool` shows of the real cache.

`ExecInv` is the inductive invariant. `PeersInv` (each peer is `Good`) and `FirstInv`
(at the first peer no request both waits and runs, and answered ones do neither)
are local. `OneStepAtATime` is not: a message in flight, a ready request and a
request being computed are places of the same token, and `PlacesInv` says that a
request is in at most one of them over all peers. Every step moves requests from
one place to the next (`Follows`), so it suffices that no step copies one. For
this a request must be nowhere when it enters: one that is on its way from the
HTTP server to the first peer (`NewInv`) or not yet submitted (`IdleInv`). `MessagesInv` gives the messages their shape.

The last two theorems need what those places say about the caches, `AllInv`. In a
pipeline it adds `PipeInv`:

- `LevelInv`: the place of a request's pending step fixes the contexts of all peers
  that hold it. When a prefill has come to peer p (queued there, or in a message to
  it), contexts before p have the prompt's length and from p on there are none; when a
  decode has, contexts before p are one token longer than those from p on. `ContextsInStep` alone
  is not inductive: a step must come to a peer that is exactly one behind. With
  `Steady` (no `half_error`) the peers in between do hold the request, so that a decode
  finds it running.
- `FreshInv`: a request that the first peer has not taken has no context anywhere,
  which is where the levels of a prefill start.
- `DoomInv`: an abort that is on its way concerns a request that is over: it is in no
  step, is in one abort per peer, and the peers not yet told still hold it. Otherwise an abort could reach a
  peer that does not run the request, and end it.

On a single node there are no messages, and `AloneInv` says that it has nobody to tell.
That a step stays on its level is proved per stage of an iteration (flush, admission,
timeouts, batch, release) for one peer's record, and then per action.

The scheduler loops over lists (admission, batch formation, release), which the
model writes as folds. `FoldLemmas` proves once, for a constant operator `Op`,
what a fold over a list of any length preserves, by a least counterexample
instead of an induction schema; the other modules instantiate it for each loop
body. Its hypothesis `WellOrdered` (every set of naturals has a least element) is
discharged there by a lemma `LeastElement`, so that an instance brings no library
into the prover's context.

### The mesh scheduler (`MeshProofs`)

For any number of nodes and layers, any memory, KV memory and power, any manual
assignment, and any number of joins, departures, crashes, silences and evictions:

- `BooksAgree`: the list names each registered node once, and `node_allocation` has
  the range of the object in the list;
- `LoadsAreTrue`: the hosts and the load of every layer are what the allocations
  amount to, after any sequence of bootstraps, joins, water-filling, truncations
  and rebalances;
- `MeshTypes`: among others, no load falls below zero;
- `BootedServes`: while the scheduler counts as bootstrapped, its allocations form a
  full pipeline: `BootstrappedHasPipeline`;
- `DpRoutesCover` and `DpRoutesShortest`: what the relaxation of the
  dynamic-programming router returns covers the layers exactly, and no chain of
  active nodes is cheaper, for any latencies.

Hypotheses, and why they are there:

- `NodesHold`: the first stage of a pipeline can be any node, so each must hold the
  embedding; the code raises ValueError when the capacity of a stage is not positive
  (`layer_allocation.py:377`), and a bootstrap that raises is not modelled.
- `Orderly`: neither a restart of a node that the scheduler still knows nor
  overlapping bootstraps. Each breaks the books (`NodesAgree`, `LoadsMatch` in
  section 3).
- For `BootedServes` only: no node is manual (`NoneManual`), and a bootstrapped mesh is
  never left without a node. After a departure among manual nodes nothing is
  repaired, and the last departure leaves the flag set (`BootstrappedHasPipeline` in
  section 3).
- `Routing = "dp"`, for the two theorems on routes only: the round-robin router goes
  by a cache that may be stale (`RoutesCover` in section 3).

`MeshInv` is the inductive invariant. Its core is `Books`: the allocator is well typed,
`Agreed` (list, map and allocations) and `Balanced` (hosts and loads). `allocate` adds to
the loads without looking at an earlier range, so it keeps the balance only for a
node without a range; every caller must therefore have deallocated the node or be
handed a new one. For joins that is `FreshJoins`: the pending joins are of different
nodes, none of which the scheduler knows. For `LayStages` it is that the pipelines of
a plan are disjoint and name listed nodes, all cleared before. A layout must also
stay within the layers, which rests on the water-filling: `LevelExists` (some set of
stages is saturated at the level that it leaves, by raising the level stage by
stage), `SharesFit` and `RoundedUp` (the floors and the largest remainders add up to
`NumLayers`), `LayoutFits`. `BestExists` shows that the best plans are not an empty set
(the scores are compared as fractions), and `FirstExists` that one of them skips the
earlier nodes. `SumOf` is a fold over a set;
`SumsExist` and `SumTake` give it its equations.

`BootedServes` adds the flag to the invariant (`PipelineStands`). It must be known what
each operation makes of a pipeline. `has_full_pipeline` is a recursion over the layers;
`PipelineReached` replaces it by `Piped`: the first layer is in every set of layers that
contains the end of the model and is closed under stepping back over an
allocation. From there:

- `PipedGrows`: new allocations break no pipeline, so joins and left-over nodes do not;
- `ClosedHolds`: the capacities of a pipeline that closes, summed over its stages, are
  at least `NumLayers`. The planner subtracts the LM head at the node that seems to be
  the last and water-filling at the one that is, so this is an induction over the
  stages;
- `RoundedUp` then gives the stages exactly `NumLayers` layers, `LaidPiped` makes a
  ladder of their ranges, and `LayStagesBooks` keeps it while the later pipelines are
  laid out on other nodes;
- `LeaveOutcomesBooks`: a departure ends with a full pipeline, with the flag cleared by a
  bootstrap that failed, or with no node.

The routes. The relaxation is a fold over the layers, and what an entry is worth
depends on the entries of all layers before. `RelaxationsSettled` gives it a
description without the order, a fixed point: when it is done, the entry of a node is
the cheapest among its initial one and the extensions of the final entries that end
where it starts, because a layer's step leaves the entries of all other layers alone. From there by induction over
the start layer, as a least counterexample:

- `EntriesSound`: an entry that has been reached is a chain of ranges from layer 0
  to its node, and its cost is what the chain costs. The path
  that is returned then covers the layers (`DpRoutesCover`);
- `ChainNotCheaper`: along any chain the costs added up so far never undercut the
  entry of the node they have come to, since that entry was compared with the
  extension of the one before. For the whole chain this is `DpRoutesShortest`.

`ChainsExist` shows that the recursion of `Chains` has a solution, from which
`ChainsRun` follows: its elements run through adjacent ranges.

### The web client

- `ClusterFeedProofs`: `ReconnectsAccounted` (never without a connection or a
  reconnect timer, and only timeouts and aborts add one), `AlarmsAreJustified` and
  `NeverStepsBack`. The first two need the stream or the provider alone. The third
  needs both: `SingleInv` says that while nothing is doubled a connection reads from
  its own body, that there is at most one report in it, no older than what is shown, and
  that before it is open there is none. The assumption on snapshots gives their nodes a type only.
- `PagesProofs`: `TimersAreCurrent`, `SetupWaitsForItsCall` and the action property
  `OnlyChoicesCommit`. `PagesInv` adds to the properties that `canAutoCommit` is left
  set only after a choice of a model; what `Renders` does is proved once.
- `ChatProofs`: `StatusMatches` and `AnswersBelong`. The second speaks of what has been
  delivered; `ChatInv` must also say which part of the body is still to come, that
  is, where in the two pieces of which line the reading stands (`IsAt`), so that any
  chunk, cut anywhere, leads to another such place.
- `ChatProofs` also has the page around the conversation (an instance of `ChatView`):
  `DialogAlwaysWaits`, and `FollowsUnlessMoved`: `StopsOnlyWhenMoved` for any list,
  messages and timers. Its invariant `UpInv`: a position above the one `onScroll` saw
  last has been raised.

### Only model-checked

- All liveness (`Served`, `MemoryReturned`, `Settles`, `Converges`, `Directed`,
  `AnswerEnds`, `FollowsStream`): fairness and ENABLED are beyond the prover.
- `ThoughtsHidden`: the parsers of `ChatHelper` agree with the reference `Reading` only
  on texts that follow their format (the instance's `Outputs`). To relate a loop over
  tags to a reading token by token, for every such text, needs an induction over the text.
- `CachedRoutesCover`, and `NodesAgree` of `mesh_race`, whose overlapping bootstraps the
  theorem excludes; `NodesAgree` of `mesh_manual` is within it.

## 6. Plan

Done: cache, batch scheduler, executor ring, allocator, routers, mesh scheduler, and
the web client from its streams to its dialogs. Next, in this order:

1. `NodeLifecycle`: announcer, shared state and launcher as processes, with the
   non-atomic multi-key update and the late READY of a replaced executor; then
   replace `Loaded` in `MeshScheduler` by it.
2. `RequestHandler`: backend request handler and `SchedulerManage`: retries of
   the routing table and of the call, the five-second wait against a late
   dispatch, model switching.
3. `WaterFilling`: the bisection on bounded integers against the exact level;
   the greedy allocator and its look-ahead against `has_full_pipeline`.
4. `RadixCache`: insert, match, evict with lock counts, against a set of
   prefixes.

Not modelled and not planned: themes, icons, markdown rendering and
notifications of the web client (styling), the command line (process start-up),
models, kernels and sampling (numerics), the engines behind the SGLang and vLLM
executors (external), and the event log (append-only output).
