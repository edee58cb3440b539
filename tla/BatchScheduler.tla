--------------------------- MODULE BatchScheduler ---------------------------
(***************************************************************************)
(* parallax/server/scheduler.py: the continuous-batching scheduler of one  *)
(* executor, as functions of its state, so that one iteration of the       *)
(* executor's loop can make several scheduler and cache calls.             *)
(*                                                                         *)
(* A request record stands for an InitialRequest (first peer) or an        *)
(* IntermediateRequest (other peers):                                      *)
(*   rid         request id                                                *)
(*   status      "prefill" or "decode" (a finished request leaves)         *)
(*   prompt_len  prompt length; 0 in every IntermediateRequest, whose      *)
(*               constructor does not set it                               *)
(*   total       total_length                                              *)
(*   out         output_length                                             *)
(*   max_new     max_new_tokens                                            *)
(*   ready, abort   the two flags                                          *)
(*                                                                         *)
(* A scheduler record has                                                  *)
(*   wait      _wait_queue                                                 *)
(*   running   _running_requests, an OrderedDict, as a sequence            *)
(*   pool      the cache manager                                           *)
(*   metric    current_requests in the shared state                        *)
(*   reported  _last_reported_running_requests                             *)
(***************************************************************************)
EXTENDS KVPoolOps, Lists, FiniteSets

CONSTANTS
  MaxBatchSize,      \* max_batch_size
  MicroBatchRatio,   \* micro_batch_ratio
  MaxTokens          \* max_num_tokens_per_batch

ASSUME BatchAssumption ==
  MaxBatchSize \in Nat \ {0} /\ MicroBatchRatio \in Nat \ {0} /\ MaxTokens \in Nat

MicroBatchSize ==
  IF MaxBatchSize \div MicroBatchRatio > 1 THEN MaxBatchSize \div MicroBatchRatio ELSE 1

NewScheduler(blocks, slots) ==
  [wait |-> <<>>, running |-> <<>>, pool |-> EmptyPool(blocks, slots),
   metric |-> 0, reported |-> 0]

Ids(reqs) == {reqs[i].rid : i \in DOMAIN reqs}

Without(reqs, rid) == Selected(reqs, {q \in Range(reqs) : q.rid # rid})

get_running_request(s, rid) ==
  s.running[CHOOSE i \in DOMAIN s.running : s.running[i].rid = rid]

\* Whether enque_request raises ValueError.
enque_raises(s, req) == req.status = "decode" /\ req.rid \notin Ids(s.running)

\* Mutant: a decode request is stored without being marked ready.
enque_request_not_ready(s, req) ==
  IF req.status = "decode"
  THEN [s EXCEPT !.running = Append(Without(@, req.rid), req)]
  ELSE [s EXCEPT !.wait = Append(@, [req EXCEPT !.ready = TRUE])]

\* A decode request replaces its running entry and moves to the end; a prefill
\* request joins the wait queue.
enque_request(s, req) ==
  LET ready == [req EXCEPT !.ready = TRUE]
  IN IF req.status = "decode"
     THEN [s EXCEPT !.running = Append(Without(@, req.rid), ready)]
     ELSE [s EXCEPT !.wait = Append(@, ready)]

\* evict_request of a running request (the callers check; absent, it raises).
evict_request(s, rid) ==
  [s EXCEPT !.running = Without(s.running, rid), !.metric = Len(Without(s.running, rid))]

SetAbort(reqs, rids) ==
  [i \in DOMAIN reqs |-> IF reqs[i].rid \in rids THEN [reqs[i] EXCEPT !.abort = TRUE]
                                                ELSE reqs[i]]

\* cancel_request of a running request; absent, it raises and nothing changes.
cancel_request(s, rid) == [s EXCEPT !.running = SetAbort(@, {rid})]

\* check_and_update_request_status: max_total_length is prompt_len + max_new,
\* so the two length tests coincide.
is_done(req, eos) == req.abort \/ eos \/ req.out >= req.max_new

\* Mutant: the capacity test admits one request too many.
AdmitOne_one_over(s, req) ==
  IF Len(s.running) > MaxBatchSize
  THEN [s EXCEPT !.wait = Append(@, req)]
  ELSE IF req.rid \in Ids(s.running) \/ ~allocate_ok(s.pool, req.rid, req.total)
       THEN s
       ELSE [s EXCEPT !.pool = allocate_request(@, req.rid, req.total),
                      !.running = Append(@, req)]

\* One round of admit_requests' loop.  A request the cache refuses is
\* popped and not put back.
AdmitOne(s, req) ==
  IF Len(s.running) >= MaxBatchSize
  THEN [s EXCEPT !.wait = Append(@, req)]
  ELSE IF \/ req.rid \in Ids(s.running)
          \/ /\ ~has_request(s.pool, req.rid)
             /\ ~allocate_ok(s.pool, req.rid, req.total)
       THEN s
       ELSE [s EXCEPT
               !.pool = IF has_request(@, req.rid) THEN @
                        ELSE allocate_request(@, req.rid, req.total),
               !.running = Append(@, req)]

\* The metric is written only when the count differs from the last report
\* made here; evict_request reports without recording that it did.
ReportRunning(s) ==
  IF Len(s.running) # s.reported
  THEN [s EXCEPT !.metric = Len(s.running), !.reported = Len(s.running)]
  ELSE s

admit_requests(s) ==
  ReportRunning(FoldLeft(AdmitOne, [s EXCEPT !.wait = <<>>], s.wait))

\* get_timed_out_requests marks the timed out requests and does no more.
get_timed_out_requests(s, rids) == [s EXCEPT !.running = SetAbort(@, rids)]

Cost(req) == IF req.status = "prefill" THEN req.prompt_len ELSE 1

Tokens(reqs) == FoldLeft(LAMBDA n, req : n + Cost(req), 0, reqs)

\* Mutant: the cost of the batch so far is not added up.
Consider_alone(batch, req) ==
  IF Len(batch) >= MicroBatchSize \/ Cost(req) > MaxTokens THEN batch
  ELSE Append(batch, req)

\* One candidate of form_batch's two loops.
Consider(batch, req) ==
  IF Len(batch) >= MicroBatchSize \/ Cost(req) + Tokens(batch) > MaxTokens
  THEN batch
  ELSE Append(batch, req)

Ready(s, status) ==
  Selected(s.running, {q \in Range(s.running) : q.ready /\ q.status = status})

\* The batch form_batch returns: ready prefills first, then ready decodes.
Batch(s) == FoldLeft(Consider, <<>>, Ready(s, "prefill") \o Ready(s, "decode"))

\* Mutant: the requests of the batch stay ready.
form_batch_stays_ready(s) == s

ClearReady(reqs, rids) ==
  [i \in DOMAIN reqs |-> IF reqs[i].rid \in rids THEN [reqs[i] EXCEPT !.ready = FALSE]
                                                ELSE reqs[i]]

\* The state form_batch leaves: the ready flags of the batch are cleared.
form_batch(s) == [s EXCEPT !.running = ClearReady(@, Ids(Batch(s)))]
=============================================================================
