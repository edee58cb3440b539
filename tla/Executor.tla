------------------------------ MODULE Executor ------------------------------
(***************************************************************************)
(* parallax/server/executor: the run loops of a pipeline of executors.     *)
(* Peer 1 is the first peer (it talks to the HTTP server and owns the      *)
(* InitialRequests), peer NumPeers the last; NumPeers = 1 is a single      *)
(* node.  parallax/p2p/server.py carries the messages: a sender waits for  *)
(* the answer to each forward call, so forward messages reach the next     *)
(* peer of the ring in order; abort calls go to every other peer and are   *)
(* not waited for, so they arrive at any time.                             *)
(*                                                                         *)
(* An iteration of run_loop drains its sockets, handles what it drained    *)
(* and then schedules one batch.  Draining stops when a socket is empty,   *)
(* and what has not arrived yet is handled in a later iteration, so the    *)
(* handling of one message (RecvHttp, RecvPeer) and the scheduling half of *)
(* the iteration (the Run actions) are separate steps.                     *)
(***************************************************************************)
EXTENDS BatchScheduler

CONSTANTS
  NumPeers,      \* executors of the pipeline
  PeerBlocks,    \* KV blocks of each peer
  PromptLens,    \* prompt lengths of client requests
  MaxNews,       \* max_tokens of client requests; none is like a large one
  MaxSeqLen,     \* max_sequence_length
  Faults         \* which failures of FaultKind may happen

Peer  == 1..NumPeers
FirstPeer == 1
LastPeer == NumPeers

\* cancel: a client disconnects; timeout: a running request is found overdue;
\* batch_error: the model fails on a batch; half_error: it fails on the decodes
\* of a batch whose prefills are dispatched; loss: an RPC fails.
FaultKind == {"cancel", "timeout", "batch_error", "half_error", "loss"}

ASSUME PipelineAssumption ==
  /\ NumPeers \in Nat \ {0}
  /\ PeerBlocks \in [1..NumPeers -> Nat]
  /\ PromptLens \subseteq Nat \ {0} /\ MaxNews \subseteq Nat
  /\ MaxSeqLen \in Nat \ {0}
  /\ Faults \subseteq FaultKind

VARIABLES
  sched,      \* each peer's scheduler and cache
  finished,   \* each peer's finished_batch: request ids
  alive,      \* FALSE once an exception has left the peer's run_loop
  forward,    \* forward messages in flight to each peer, a queue
  aborts,     \* abort messages in flight to each peer, a set
  http_in,    \* messages from the HTTP server to the first executor
  client,     \* what the client of each request sees
  received,   \* how many tokens other than EOS the HTTP server has received
  text,       \* how many tokens are in the text it returns
  timed_out   \* requests the first peer has found to be timed out

vars == <<sched, finished, alive, forward, aborts, http_in, client, received, text, timed_out>>

Init ==
  /\ sched = [p \in Peer |-> NewScheduler(PeerBlocks[p], 0)]
  /\ finished = [p \in Peer |-> <<>>]
  /\ alive = [p \in Peer |-> TRUE]
  /\ forward = [p \in Peer |-> <<>>]
  /\ aborts = [p \in Peer |-> {}]
  /\ http_in = <<>>
  /\ client = [r \in Request |-> "idle"]
  /\ received = [r \in Request |-> 0]
  /\ text = [r \in Request |-> 0]
  /\ timed_out = {}
-----------------------------------------------------------------------------
(* The HTTP server: parallax/server/http_server.py.                        *)

Submit(r, n, k) ==
  /\ client[r] = "idle"
  /\ client' = [client EXCEPT ![r] = "waiting"]
  /\ http_in' = Append(http_in, [kind |-> "new", rid |-> r, len |-> n, max_new |-> k])
  /\ UNCHANGED <<sched, finished, alive, forward, aborts, received, text, timed_out>>

\* A client that disconnects before the request is finished.
Disconnect(r) ==
  /\ "cancel" \in Faults
  /\ client[r] = "waiting"
  /\ client' = [client EXCEPT ![r] = "gone"]
  /\ http_in' = Append(http_in, [kind |-> "abort", rid |-> r, len |-> 0, max_new |-> 0])
  /\ UNCHANGED <<sched, finished, alive, forward, aborts, received, text, timed_out>>
-----------------------------------------------------------------------------
(* handle_input_requests.  A view is what it may change at one peer.       *)

View(p) == [s |-> sched[p], finished |-> finished[p], dead |-> FALSE,
            client |-> client,
            received |-> received, text |-> text]

Install(p, v) ==
  /\ sched' = [sched EXCEPT ![p] = v.s]
  /\ finished' = [finished EXCEPT ![p] = v.finished]
  /\ alive' = [alive EXCEPT ![p] = ~v.dead]
  /\ client' = v.client
  /\ received' = v.received
  /\ text' = v.text

Release(s, rid) == [s EXCEPT !.pool = free_request(@, rid)]

\* Mutant: a finished request gives its memory back but is not evicted.
HandleToken_not_evicted(v, rid, eos) ==
  IF rid \notin Ids(v.s.running) \/ ~has_request(v.s.pool, rid)
  THEN v
  ELSE LET old == get_running_request(v.s, rid)
           req == [old EXCEPT !.out = @ + 1, !.total = @ + 1, !.status = "decode"]
       IN [v EXCEPT
             !.s = IF is_done(req, eos) THEN Release(@, rid) ELSE enque_request(@, req),
             !.client[rid] = IF is_done(req, eos) THEN "done" ELSE @]

\* Mutant: the other peers are not told of a finished request.
HandleToken_untold(v, rid, eos) ==
  IF rid \notin Ids(v.s.running) \/ ~has_request(v.s.pool, rid)
  THEN v
  ELSE LET old == get_running_request(v.s, rid)
           req == [old EXCEPT !.out = @ + 1, !.total = @ + 1, !.status = "decode"]
       IN [v EXCEPT
             !.s = IF is_done(req, eos) THEN Release(evict_request(@, rid), rid)
                   ELSE enque_request(@, req),
             !.client[rid] = IF @ = "waiting" /\ is_done(req, eos) THEN "done" ELSE @]

CountToken(counts, rid) == [counts EXCEPT ![rid] = counts[rid] + 1]

\* The HTTP server is sent a token: it adds it to the text unless it is reported
\* as the last one, and drops what belongs to a client that has left.
HandleHttpToken(v, rid, eos, last) ==
  IF v.client[rid] # "waiting" THEN v
  ELSE [v EXCEPT !.received = IF eos THEN @ ELSE CountToken(@, rid),
                 !.text = IF last THEN @ ELSE CountToken(@, rid),
                 !.client = IF last THEN [@ EXCEPT ![rid] = "done"] ELSE @]

CommitNewToken(req) ==
  [req EXCEPT !.out = req.out + 1, !.total = req.total + 1, !.status = "decode"]

\* First peer, a token for rid: commit it, finish the request or make it ready
\* for the next step, and tell the HTTP server.  A request that finishes only
\* because it was aborted is not reported as finished.
HandleToken(v, rid, eos) ==
  IF rid \notin Ids(v.s.running) \/ ~has_request(v.s.pool, rid)
  THEN v
  ELSE LET req  == CommitNewToken(get_running_request(v.s, rid))
           done == is_done(req, eos)
           w == [v EXCEPT
                   !.s = IF done THEN Release(evict_request(@, rid), rid)
                         ELSE enque_request(@, req),
                   !.finished = IF done /\ FirstPeer # LastPeer THEN Append(@, rid) ELSE @]
       IN HandleHttpToken(w, rid, eos, eos \/ req.out >= req.max_new)

HandleTokens(v, msg, eos) ==
  FoldLeft(LAMBDA w, m : HandleToken(w, m.rid, m.rid \in eos), v, msg)

\* Mutant: an abort releases the memory and leaves the request running.
HandleAbort_keeps_running(p, v, rid) == [v EXCEPT !.s = Release(@, rid)]

\* Other peers, an abort: release, then evict.  evict_request raises for a
\* request that is not running, and the exception leaves run_loop.
HandleAbort(p, v, rid) ==
  LET w == [v EXCEPT !.s = Release(@, rid)]
  IN IF v.dead THEN v
     ELSE IF rid \notin Ids(v.s.running)
          THEN [w EXCEPT !.dead = TRUE]
          ELSE [w EXCEPT !.s = evict_request(@, rid),
                         !.finished = IF p # LastPeer THEN Append(@, rid) ELSE @]

\* The IntermediateRequest of a message: the sender's total_length becomes its
\* current_position, and no prompt length comes with it.
proto_to_request(m) ==
  [rid |-> m.rid, status |-> m.status, prompt_len |-> 0, total |-> m.pos,
   out |-> 0, max_new |-> 0, ready |-> FALSE, abort |-> FALSE]

\* Other peers, an active IntermediateRequest; enque_request may raise as well.
HandleStage(v, m) ==
  LET req == proto_to_request(m)
  IN IF v.dead \/ enque_raises(v.s, req)
     THEN [v EXCEPT !.dead = TRUE]
     ELSE [v EXCEPT !.s = enque_request(@, req)]

\* A prompt that leaves no room for an answer is cut, though never below five
\* tokens; the answer is limited to the room that is left.
KeptPrompt(n) ==
  IF n >= MaxSeqLen THEN Min({n, Max({5, MaxSeqLen - 10})}) ELSE n

AllowedNew(n, k) == IF n + k >= MaxSeqLen THEN Max({0, MaxSeqLen - n}) ELSE k

\* _handle_raw_request: the InitialRequest of a client's request.
InitialRequest(m) ==
  LET len == KeptPrompt(m.len)
  IN [rid |-> m.rid, status |-> "prefill", prompt_len |-> len, total |-> len, out |-> 0,
      max_new |-> AllowedNew(len, m.max_new), ready |-> FALSE, abort |-> FALSE]

\* The HTTP server is told that a request is refused.
NotifyError(c, rid) == [c EXCEPT ![rid] = IF @ = "waiting" THEN "error" ELSE @]

\* The first peer takes a message of the HTTP server: a new request, or the
\* cancellation of one.  InitialRequest refuses max_new_tokens below 1 and the
\* error is reported; cancelling a request that is not running raises.
RecvHttp ==
  /\ alive[FirstPeer] /\ http_in # <<>>
  /\ http_in' = Tail(http_in)
  /\ LET m == Head(http_in)
         running == Ids(sched[FirstPeer].running)
         allowed == AllowedNew(KeptPrompt(m.len), m.max_new)
     IN \/ /\ m.kind = "new" /\ allowed > 0
           /\ sched' = [sched EXCEPT ![FirstPeer] = enque_request(@, InitialRequest(m))]
           /\ UNCHANGED client
        \/ /\ m.kind = "new" /\ allowed = 0
           /\ client' = NotifyError(client, m.rid)
           /\ UNCHANGED sched
        \/ /\ m.kind = "abort" /\ m.rid \in running
           /\ sched' = [sched EXCEPT ![FirstPeer] = cancel_request(@, m.rid)]
           /\ UNCHANGED client
        \/ /\ m.kind = "abort" /\ m.rid \notin running
           /\ UNCHANGED <<sched, client>>
  /\ UNCHANGED <<finished, alive, forward, aborts, received, text, timed_out>>

\* Peer p takes the next forward message: at the first peer the tokens of the
\* last one (eos are those that end their request), elsewhere hidden states.
RecvForward(p) ==
  /\ alive[p] /\ forward[p] # <<>>
  /\ forward' = [forward EXCEPT ![p] = Tail(@)]
  /\ IF p = FirstPeer
     THEN \E eos \in SUBSET Ids(Head(forward[p])) :
            Install(p, HandleTokens(View(p), Head(forward[p]), eos))
     ELSE Install(p, FoldLeft(HandleStage, View(p), Head(forward[p])))
  /\ UNCHANGED <<aborts, http_in, timed_out>>

RecvAbort(p) ==
  /\ alive[p]
  /\ \E rids \in aborts[p] :
       /\ aborts' = [aborts EXCEPT ![p] = @ \ {rids}]
       /\ Install(p, FoldLeft(LAMBDA v, rid : HandleAbort(p, v, rid), View(p), rids))
  /\ UNCHANGED <<forward, http_in, timed_out>>

\* A sender whose RPC fails logs the exception and drops the message.
Lose(p) ==
  /\ "loss" \in Faults
  /\ \/ /\ forward[p] # <<>>
        /\ forward' = [forward EXCEPT ![p] = Tail(@)]
        /\ UNCHANGED aborts
     \/ /\ \E rids \in aborts[p] : aborts' = [aborts EXCEPT ![p] = @ \ {rids}]
        /\ UNCHANGED forward
  /\ UNCHANGED <<sched, finished, alive, http_in, client, received, text, timed_out>>
-----------------------------------------------------------------------------
(* The scheduling half of an iteration of run_loop.                        *)

\* "Send finished batch": only the first peer sends its list and clears it.
Flush(p) ==
  [q \in Peer |-> IF p = FirstPeer /\ q # FirstPeer /\ finished[p] # <<>>
                  THEN aborts[q] \cup {finished[p]} ELSE aborts[q]]

\* Mutant: the list is not cleared after it is sent.
FlushedBatch_kept(p) == finished[p]

FlushedBatch(p) == IF p = FirstPeer THEN <<>> ELSE finished[p]

\* Mutant: the position counts the token being computed, as at a single node.
Outgoing_next_position(p, reqs) ==
  [i \in DOMAIN reqs |->
     [rid |-> reqs[i].rid,
      status |-> IF p = LastPeer THEN "decode" ELSE reqs[i].status,
      pos |-> reqs[i].total + 1]]

\* What a peer puts on the wire for a processed batch: the last peer turns
\* every request into a decode request, the others keep the status.
Outgoing(p, reqs) ==
  [i \in DOMAIN reqs |->
     [rid |-> reqs[i].rid,
      status |-> IF p = LastPeer THEN "decode" ELSE reqs[i].status,
      pos |-> reqs[i].total]]

Send(f, p, reqs) ==
  IF reqs = <<>> \/ FirstPeer = LastPeer THEN f
  ELSE [f EXCEPT ![(p % NumPeers) + 1] = Append(@, Outgoing(p, reqs))]

Prefills(batch) == Selected(batch, {q \in Range(batch) : q.status = "prefill"})
Decodes(batch)  == Selected(batch, {q \in Range(batch) : q.status = "decode"})

\* prepare_batch_inputs: prefills are allocated already, decodes grow.
Grow(pool, batch) ==
  FoldLeft(LAMBDA g, q : [ok |-> g.ok /\ append_ok(g.pool, q.rid),
                          pool |-> append_slot(g.pool, q.rid)],
           [ok |-> TRUE, pool |-> pool], Decodes(batch))

\* Admission, the timeout check (whose handler fails before it releases
\* anything) and admission again in form_batch, for timed out requests rids.
Scheduled(p, rids) ==
  admit_requests(get_timed_out_requests(admit_requests(sched[p]), rids))

\* Which running requests the clock may find timed out.
Overdue(p) ==
  IF "timeout" \in Faults THEN SUBSET Ids(sched[p].running) ELSE {{}}

\* The batch of an iteration, whether its memory suffices, and the peer's state
\* when it is about to be processed.
Iteration(p, rids) ==
  LET s == Scheduled(p, rids)
      grown == Grow(s.pool, Batch(s))
  IN [batch |-> Batch(s), ok |-> grown.ok,
      view |-> [View(p) EXCEPT !.s = [form_batch(s) EXCEPT !.pool = grown.pool],
                               !.finished = FlushedBatch(p)]]

\* Mutant: the failed batch is evicted and its memory is kept.
ReleaseAndEvict_evicts_only(s, rid) ==
  IF rid \in Ids(s.running) THEN evict_request(s, rid) ELSE s

\* "Naive error handling: release and evict all requests in the batch"; nobody
\* else is told.
ReleaseAndEvict(s, rid) ==
  LET t == Release(s, rid)
  IN IF rid \in Ids(s.running) THEN evict_request(t, rid) ELSE t

ReleaseBatch(v, batch) ==
  [v EXCEPT !.s = FoldLeft(LAMBDA t, q : ReleaseAndEvict(t, q.rid), @, batch)]

\* Dispatch of a processed batch at a single node: its tokens are handled at once.
Locally(v, reqs, eos) == IF FirstPeer = LastPeer THEN HandleTokens(v, reqs, eos) ELSE v

NewTokens(reqs) == IF FirstPeer = LastPeer THEN SUBSET Ids(reqs) ELSE {{}}

\* What precedes the batch: the finished list is flushed, timeouts are found.
BeforeBatch(p, rids) ==
  /\ timed_out' = IF p = FirstPeer THEN timed_out \cup rids ELSE timed_out
  /\ aborts' = Flush(p)
  /\ UNCHANGED http_in

\* An iteration whose batch, possibly empty, is processed and dispatched, the
\* prefills before the decodes.
RunBatch(p) ==
  /\ alive[p]
  /\ \E rids \in Overdue(p) :
       LET it == Iteration(p, rids)
       IN /\ it.ok
          /\ BeforeBatch(p, rids)
          /\ \E eos \in NewTokens(it.batch) :
               Install(p, Locally(it.view, Prefills(it.batch) \o Decodes(it.batch), eos))
          /\ forward' = Send(Send(forward, p, Prefills(it.batch)), p, Decodes(it.batch))

\* An iteration that fails before anything is dispatched: a decode that finds
\* no free block, or an error of the model.
RunFails(p) ==
  /\ alive[p]
  /\ \E rids \in Overdue(p) :
       LET it == Iteration(p, rids)
       IN /\ it.batch # <<>>
          /\ ~it.ok \/ "batch_error" \in Faults
          /\ BeforeBatch(p, rids)
          /\ Install(p, ReleaseBatch(it.view, it.batch))
          /\ UNCHANGED forward

\* An iteration whose prefills are dispatched before its decodes fail: the
\* whole batch is released, the dispatched prefills included.
RunHalfFails(p) ==
  /\ alive[p] /\ "half_error" \in Faults
  /\ \E rids \in Overdue(p) :
       LET it == Iteration(p, rids)
           prefills == Prefills(it.batch)
       IN /\ it.ok /\ prefills # <<>> /\ Decodes(it.batch) # <<>>
          /\ BeforeBatch(p, rids)
          /\ \E eos \in NewTokens(prefills) :
               Install(p, ReleaseBatch(Locally(it.view, prefills, eos), it.batch))
          /\ forward' = Send(forward, p, prefills)

Next ==
  \/ \E r \in Request : \/ \E n \in PromptLens, k \in MaxNews : Submit(r, n, k)
                        \/ Disconnect(r)
  \/ RecvHttp
  \/ \E p \in Peer : \/ RecvForward(p) \/ RecvAbort(p) \/ Lose(p)
                     \/ RunBatch(p) \/ RunFails(p) \/ RunHalfFails(p)

\* An iteration of p's loop would change something.
Busy(p) ==
  /\ alive[p]
  /\ \/ Scheduled(p, {}) # sched[p]
     \/ Batch(Scheduled(p, {})) # <<>>
     \/ FlushedBatch(p) # finished[p]

\* Each executor's loop keeps iterating and draining its sockets; clients need
\* not submit, and failures need not happen.  The second conjunct is weak
\* fairness of the iterations, with their enabling condition spelled out.
Fairness ==
  /\ WF_vars(RecvHttp)
  /\ \A p \in Peer : []<>~Busy(p) \/ []<><<RunBatch(p) \/ RunFails(p)>>_vars
  /\ \A p \in Peer : WF_vars(RecvForward(p)) /\ WF_vars(RecvAbort(p))

Spec == Init /\ [][Next]_vars

FairSpec == Spec /\ Fairness
-----------------------------------------------------------------------------
Resident(p) == {r \in Request : has_request(sched[p].pool, r)}

Queued(p) == Ids(sched[p].wait)

\* The token count of a batch as the model computes it: all of a prefill's
\* tokens, whatever its prompt_len field says.
TrueTokens(reqs) ==
  FoldLeft(LAMBDA n, q : n + (IF q.status = "prefill" THEN q.total ELSE 1), 0, reqs)

\* Where the next step of r is pending: queued or ready at a peer, or in a
\* forward message.
Places(r) ==
  {<<p, 0>> : p \in {q \in Peer :
                \/ r \in Queued(q)
                \/ \E i \in DOMAIN sched[q].running :
                     sched[q].running[i].rid = r /\ sched[q].running[i].ready}}
  \cup UNION {{<<p, i>> : i \in {j \in DOMAIN forward[p] : r \in Ids(forward[p][j])}} :
                p \in Peer}

\* The variables keep their types; no peer hands out more blocks than it has.
TypeOK ==
  /\ \A p \in Peer :
       /\ sched[p].pool.free_blocks \in 0..PeerBlocks[p]
       /\ Ids(sched[p].running) \cup Queued(p) \subseteq Request
       /\ Len(sched[p].running) <= MaxBatchSize
       /\ Range(finished[p]) \subseteq Request
       /\ \A rids \in aborts[p] : Range(rids) \subseteq Request
       /\ \A i \in DOMAIN forward[p] : Ids(forward[p][i]) \subseteq Request
  /\ alive \in [Peer -> BOOLEAN]
  /\ client \in [Request -> {"idle", "waiting", "done", "error", "gone"}]
  /\ received \in [Request -> Nat] /\ text \in [Request -> Nat]
  /\ timed_out \subseteq Request

\* "Running Requests: inflight requests with KV-cache residency": at every peer
\* exactly the running requests hold cache memory, whatever was cancelled,
\* finished, aborted or released after an error.
ResidencyMatches == \A p \in Peer : Resident(p) = Ids(sched[p].running)

\* No batch that form_batch returns holds more tokens than
\* max_num_tokens_per_batch or more requests than micro_batch_size.
BatchFits ==
  \A p \in Peer : LET batch == Batch(Scheduled(p, {}))
                  IN TrueTokens(batch) <= MaxTokens /\ Len(batch) <= MicroBatchSize

\* A request is at one place of the pipeline at a time: two steps of the same
\* request are never computed concurrently.
OneStepAtATime == \A r \in Request : Cardinality(Places(r)) <= 1

\* The KV caches of the peers advance together: an earlier stage is level with a
\* later one or one token ahead, so no stage attends to a missing or a
\* repeated position.
ContextsInStep ==
  \A p, q \in Peer : \A r \in Resident(p) \cap Resident(q) :
    p < q => LET c == sched[p].pool.context[r] - sched[q].pool.context[r]
             IN c \in {0, 1}

\* No exception of enque_request or evict_request leaves a run_loop: an abort
\* message finds its request running and so does a decode step.
NoPeerDies == \A p \in Peer : alive[p]

\* When the client has its final answer, the first peer has let go of the
\* request: it is neither queued nor running nor resident there.
DoneIsReleased ==
  \A r \in Request : client[r] \in {"done", "error"} =>
    r \notin Resident(FirstPeer) \cup Queued(FirstPeer) \cup Ids(sched[FirstPeer].running)

\* "Reflect current running requests metric after admission": the shared
\* current_requests is the number of running requests.
MetricFresh == \A p \in Peer : sched[p].metric = Len(sched[p].running)

\* "Only process and send non-EOS tokens": a finished answer contains every
\* token the HTTP server received except EOS.
AnswerComplete == \A r \in Request : client[r] = "done" => text[r] = received[r]

\* Every client that waits is eventually answered (or leaves).
Served == \A r \in Request : client[r] = "waiting" ~> client[r] # "waiting"

\* Memory that a request holds at any peer is eventually returned.
MemoryReturned == \A r \in Request, p \in Peer : r \in Resident(p) ~> r \notin Resident(p)

\* "Aborting and releasing resources": a request found to be timed out
\* eventually leaves the first peer.
TimedOutReleased ==
  \A r \in Request : r \in timed_out ~> r \notin Ids(sched[FirstPeer].running)

\* "Send finished batch to next peer": no peer keeps its finished list.
FinishedBatchSent == \A p \in Peer : finished[p] # <<>> ~> finished[p] = <<>>
=============================================================================
