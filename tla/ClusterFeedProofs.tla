------------------------- MODULE ClusterFeedProofs --------------------------
(***************************************************************************)
(* Proofs about the web client's status feed, for any number of            *)
(* connections, any set of snapshots and any bounds: the accounting of     *)
(* reconnects, that the pages see no earlier report again, and the alarm.   *)
(*                                                                         *)
(* The stream half and the provider half of the state meet only in the     *)
(* wire, so each has an inductive invariant of its own.                    *)
(***************************************************************************)
EXTENDS ClusterFeed, FiniteSetTheorems, SequenceTheorems, TLAPS

(* What the inductions start from: a set of naturals that is not empty has *)
(* a least element.                                                        *)
LEMMA LeastElement == \A T \in SUBSET Nat : T # {} => \E x \in T : \A y \in T : x <= y
<1> SUFFICES ASSUME NEW T \in SUBSET Nat, T # {} PROVE \E x \in T : \A y \in T : x <= y
  OBVIOUS
<1>1. \E x \in T : \A y \in T : ~(<<y, x>> \in OpToRel(<, Nat))
  BY NatLessThanWellFounded, WFMin
<1>2. \A x, y \in Nat : <<y, x>> \in OpToRel(<, Nat) <=> y < x
  BY DEF OpToRel
<1>3. PICK x \in T : \A y \in T : ~(y < x)
  BY <1>1, <1>2
<1> QED BY <1>3

Phase == {"idle", "fetching", "late", "aborted", "reading"}

StreamTypeOK ==
    /\ conn \in [Conn -> [phase : Phase, on : Conn \cup {None}]]
    /\ reader \in Conn \cup {None} /\ ctrl \in Conn \cup {None}
    /\ timers \in Nat /\ extra \in Nat

\* The accounts balance, and ctrl and reader name connections.
StreamInv == StreamTypeOK /\ StreamsAccounted
-----------------------------------------------------------------------------
(* Live changes with the phases alone, and as a finite set.                *)
LEMMA LiveFinite ==
    ASSUME StreamTypeOK
    PROVE  IsFiniteSet(Live) /\ Cardinality(Live) \in Nat
<1>1. IsFiniteSet(Live)
  BY StreamAssumption, FS_Subset DEF Live
<1> QED BY <1>1, FS_CardinalityType

LEMMA SameBalance ==
    ASSUME NEW k \in Nat, NEW a \in Nat, NEW b \in Nat, NEW c \in Nat, NEW d \in Nat,
           a - b = c - d, k + c = 1 + d
    PROVE  k + a = 1 + b
  OBVIOUS

LEMMA SamePhases ==
    ASSUME StreamInv, StreamTypeOK',
           \A c \in Conn : conn'[c].phase # "idle" <=> conn[c].phase # "idle",
           timers' - extra' = timers - extra
    PROVE  StreamInv'
<1>1. Live' = Live
  BY DEF Live
<1>2. Cardinality(Live) \in Nat /\ Cardinality(Live') = Cardinality(Live)
  BY <1>1, LiveFinite DEF StreamInv
<1>3. timers \in Nat /\ extra \in Nat /\ timers' \in Nat /\ extra' \in Nat
  BY DEF StreamInv, StreamTypeOK
<1>4. StreamsAccounted'
  <2>1. PICK k \in Nat : k = Cardinality(Live)
    BY <1>2
  <2>2. k + timers = 1 + extra
    BY <2>1 DEF StreamInv, StreamsAccounted
  <2>3. k + timers' = 1 + extra'
    BY <1>3, <2>2, SameBalance
  <2> QED BY <1>2, <2>1, <2>3 DEF StreamsAccounted
<1> QED BY <1>4 DEF StreamInv

LEMMA SendInv ==
    ASSUME StreamInv, NEW c \in Conn, Send(c)
    PROVE  StreamInv'
<1>1. StreamTypeOK'
  BY DEF Send, StreamInv, StreamTypeOK, Phase
<1>2. c \notin Live
  BY DEF Send, Reusable, Idle, Live
<1>3. Live' = Live \cup {c}
  BY DEF Send, Live, StreamInv, StreamTypeOK
<1>4. Cardinality(Live') = Cardinality(Live) + 1
  BY <1>2, <1>3, LiveFinite, FS_AddElement DEF StreamInv
<1>5. StreamsAccounted'
  BY <1>4, LiveFinite DEF Send, StreamInv, StreamsAccounted, StreamTypeOK
<1> QED BY <1>1, <1>5 DEF StreamInv

(* A connection that ends pays with a timer.                               *)
LEMMA FinishInv ==
    ASSUME StreamInv, NEW c \in Conn, conn[c].phase # "idle", Finish(c), UNCHANGED extra
    PROVE  StreamInv'
<1>1. StreamTypeOK'
  BY DEF Finish, CleanupReader, Reconnects, Idle, StreamInv, StreamTypeOK, Phase
<1>2. c \in Live
  BY DEF Live
<1>3. Live' = Live \ {c}
  BY DEF Finish, Idle, Live, StreamInv, StreamTypeOK
<1>4. Cardinality(Live') = Cardinality(Live) - 1
  BY <1>2, <1>3, LiveFinite, FS_RemoveElement DEF StreamInv
<1>5. StreamsAccounted'
  BY <1>4, LiveFinite DEF Finish, Reconnects, StreamInv, StreamsAccounted, StreamTypeOK
<1> QED BY <1>1, <1>5 DEF StreamInv

LEMMA FetchTimeoutInv ==
    ASSUME StreamInv, NEW c \in Conn, FetchTimeout(c)
    PROVE  StreamInv'
<1> DEFINE late == [conn EXCEPT ![c].phase = "late"]
<1>1. late \in [Conn -> [phase : Phase, on : Conn \cup {None}]]
  BY DEF StreamInv, StreamTypeOK, Phase
<1>2. \A d \in Conn : late[d].phase # "idle" <=> conn[d].phase # "idle"
  BY DEF FetchTimeout, StreamInv, StreamTypeOK
<1>3. conn' = ConnAborted(late)
  BY DEF FetchTimeout
<1> HIDE DEF late
<1>4. conn' \in [Conn -> [phase : Phase, on : Conn \cup {None}]]
  BY <1>1, <1>3 DEF ConnAborted, StreamInv, StreamTypeOK, Phase
<1>5. \A d \in Conn : conn'[d].phase # "idle" <=> late[d].phase # "idle"
  BY <1>1, <1>3 DEF ConnAborted, StreamInv, StreamTypeOK
<1>6. UNCHANGED <<reader, ctrl>> /\ timers' = timers + 1 /\ extra' = extra + 1
  BY DEF FetchTimeout, Reconnects
<1>7. StreamTypeOK' /\ timers' - extra' = timers - extra
  BY <1>4, <1>6 DEF StreamInv, StreamTypeOK
<1> QED BY <1>2, <1>5, <1>7, SamePhases

LEMMA AbortInv ==
    ASSUME StreamInv, Abort
    PROVE  StreamInv'
<1>1. conn' = ConnAborted(conn)
  BY DEF Abort
<1>2. conn' \in [Conn -> [phase : Phase, on : Conn \cup {None}]]
  BY <1>1 DEF ConnAborted, StreamInv, StreamTypeOK, Phase
<1>3. \A d \in Conn : conn'[d].phase # "idle" <=> conn[d].phase # "idle"
  BY <1>1 DEF ConnAborted, StreamInv, StreamTypeOK
<1>4. StreamTypeOK'
  BY <1>2 DEF Abort, Reconnects, StreamInv, StreamTypeOK
<1> QED BY <1>3, <1>4, SamePhases
        DEF Abort, Reconnects, StreamInv, StreamTypeOK

LEMMA ConnectedInv ==
    ASSUME StreamInv, NEW c \in Conn, Connected(c) \/ Chunk(c)
    PROVE  StreamInv'
<1>1. StreamTypeOK'
  BY DEF Connected, Chunk, StreamInv, StreamTypeOK, Phase
<1>2. \A d \in Conn : conn'[d].phase # "idle" <=> conn[d].phase # "idle"
  BY DEF Connected, Chunk, StreamInv, StreamTypeOK
<1> QED BY <1>1, <1>2, SamePhases
        DEF Connected, Chunk, StreamInv, StreamTypeOK

LEMMA SameStream ==
    ASSUME StreamInv, UNCHANGED <<conn, reader, ctrl, timers, extra>>
    PROVE  StreamInv'
BY DEF StreamInv, StreamTypeOK, StreamsAccounted, Live

LEMMA StreamStep ==
    ASSUME StreamInv, [Next]_vars
    PROVE  StreamInv'
<1>1. CASE Sends
  BY <1>1, SendInv DEF Sends
<1>2. CASE TimesOut
  BY <1>2, FetchTimeoutInv DEF TimesOut
<1>3. CASE Rejects
  BY <1>3, FinishInv DEF Rejects, FetchRejects, Fault
<1>4. CASE IsRefused
  BY <1>4, FinishInv DEF IsRefused, Refused, Fault
<1>5. CASE Connects \/ Receives
  BY <1>5, ConnectedInv DEF Connects, Receives
<1>6. CASE FindsNoReader
  BY <1>6, FinishInv DEF FindsNoReader, ReadsNothing
<1>7. CASE IsDone
  BY <1>7, FinishInv DEF IsDone, Done
<1>8. CASE ReadBreaks
  BY <1>8, FinishInv DEF ReadBreaks, ReadFails
<1>9. CASE Aborts
  BY <1>9, AbortInv DEF Aborts
<1>10. CASE Stops
  BY <1>10, SameStream DEF Stops, BodyStops, Fault
<1>11. CASE Writes \/ Changes \/ ListArrives \/ ListFails \/ ListRetries \/ UNCHANGED vars
  BY <1>11, SameStream
     DEF Writes, Changes, ListArrives, ListFails, ListRetries, vars, streamVars
<1> QED
  BY <1>1, <1>2, <1>3, <1>4, <1>5, <1>6, <1>7, <1>8, <1>9, <1>10, <1>11 DEF Next
-----------------------------------------------------------------------------
(* What is in flight came from the scheduler.                              *)
Report == [of : Snapshot, at : Nat]
WireInv == backend \in Snapshot /\ changes \in Nat /\ wire \in [Conn -> Seq(Report)]

LEMMA WireStep ==
    ASSUME WireInv, StreamInv, [Next]_vars
    PROVE  WireInv'
<1>1. CASE Sends
  BY <1>1, EmptySeq DEF Sends, Scheduler, WireInv
<1>2. CASE Receives
  <2>1. PICK c \in Conn : /\ Chunk(c) /\ wire[conn[c].on] # << >>
                          /\ wire' = [wire EXCEPT ![conn[c].on] = Tail(@)]
                          /\ UNCHANGED Scheduler
    BY <1>2 DEF Receives
  <2>2. conn[c].on \in Conn
    BY <2>1 DEF Chunk, StreamInv, StreamTypeOK
  <2>3. wire[conn[c].on] \in Seq(Report) /\ wire[conn[c].on] # << >>
    BY <2>1, <2>2 DEF WireInv
  <2>4. Tail(wire[conn[c].on]) \in Seq(Report)
    BY <2>3, HeadTailProperties
  <2> QED BY <2>1, <2>2, <2>4 DEF Scheduler, WireInv
<1>3. CASE Writes
  <2>1. [of |-> backend, at |-> changes] \in Report
    BY DEF Report, WireInv
  <2> QED BY <1>3, <2>1 DEF Writes, Scheduler, WireInv
<1>4. CASE Changes
  BY <1>4 DEF Changes, WireInv
<1>5. CASE \/ TimesOut \/ Rejects \/ IsRefused \/ Connects \/ FindsNoReader \/ IsDone
           \/ ReadBreaks \/ Aborts \/ Stops \/ ListArrives \/ ListFails \/ ListRetries
           \/ UNCHANGED vars
  BY <1>5 DEF TimesOut, Rejects, IsRefused, Connects, FindsNoReader, IsDone, ReadBreaks,
              Aborts, Stops, ListArrives, ListFails, ListRetries, vars, Scheduler, WireInv
<1> QED BY <1>1, <1>2, <1>3, <1>4, <1>5 DEF Next

(* What a step may do to what the pages see: one whole snapshot that the   *)
(* scheduler has written, the offline state, or nothing.                   *)
LEMMA ProviderStep ==
    ASSUME WireInv, StreamInv, [Next]_vars
    PROVE  \/ UNCHANGED <<info, nodes>>
           \/ info' = InitialClusterInfo /\ nodes' = << >>
           \/ \E snap \in Snapshot : info' = InfoOf(snap) /\ nodes' = MergeNodes(nodes, snap.nodes)
<1>1. CASE Receives
  <2>1. PICK c \in Conn : /\ Chunk(c) /\ wire[conn[c].on] # << >>
                          /\ OnMessage(Head(wire[conn[c].on]).of)
    BY <1>1 DEF Receives
  <2>2. conn[c].on \in Conn
    BY <2>1 DEF Chunk, StreamInv, StreamTypeOK
  <2>3. wire[conn[c].on] \in Seq(Report) /\ wire[conn[c].on] # << >>
    BY <2>1, <2>2 DEF WireInv
  <2>4. Head(wire[conn[c].on]) \in Report
    BY <2>3, HeadTailProperties
  <2>5. Head(wire[conn[c].on]).of \in Snapshot
    BY <2>4 DEF Report
  <2> QED BY <2>1, <2>5 DEF OnMessage
<1>2. CASE TimesOut \/ Rejects \/ FindsNoReader \/ ReadBreaks
  BY <1>2 DEF TimesOut, Rejects, FindsNoReader, ReadBreaks, OnError
<1>3. CASE \/ Sends \/ IsRefused \/ Connects \/ IsDone \/ Aborts \/ Stops \/ Writes \/ Changes
           \/ ListArrives \/ ListFails \/ ListRetries \/ UNCHANGED vars
  BY <1>3 DEF Sends, IsRefused, Connects, IsDone, Aborts, Stops, Writes, Changes,
              ListArrives, ListFails, ListRetries, vars, providerVars, pageVars
<1> QED BY <1>1, <1>2, <1>3 DEF Next

LEMMA FeedInvariants == Spec => [](StreamInv /\ WireInv)
<1>1. Init => StreamInv
  <2> SUFFICES ASSUME Init PROVE StreamInv
    OBVIOUS
  <2>1. StreamTypeOK
    BY DEF Init, StreamInit, StreamTypeOK, Idle, Phase
  <2>2. Live = {}
    BY DEF Init, StreamInit, Idle, Live
  <2>3. StreamsAccounted
    BY <2>2, FS_EmptySet DEF Init, StreamInit, StreamsAccounted
  <2> QED BY <2>1, <2>3 DEF StreamInv
<1>2. Init => WireInv
  BY EmptySeq DEF Init, WireInv
<1> QED BY <1>1, <1>2, StreamStep, WireStep, PTL DEF Spec

(* The client is never without a connection or a reconnect timer, and only *)
(* timeouts and aborts add one: for any number of connections, faults and  *)
(* restarts of the scheduler.                                              *)
THEOREM ReconnectsAccounted == Spec => []StreamsAccounted
<1>1. StreamInv => StreamsAccounted
  BY DEF StreamInv
<1> QED BY <1>1, FeedInvariants, PTL
-----------------------------------------------------------------------------
(* The pages never step back.                                              *)

BodyInv == body \in [Conn -> {"none", "open", "ended", "errored"}]

LEMMA BodyStep ==
    ASSUME StreamInv, BodyInv, [Next]_vars
    PROVE  BodyInv'
<1> USE DEF BodyInv
<1>1. CASE Sends
  BY <1>1 DEF Sends, Send
<1>2. BodyAborted \in [Conn -> {"none", "open", "ended", "errored"}]
  BY DEF BodyAborted
<1>3. CASE TimesOut \/ Aborts
  BY <1>2, <1>3 DEF TimesOut, FetchTimeout, Aborts, Abort
<1>4. ASSUME NEW c \in Conn, Finish(c) PROVE BodyInv'
  BY <1>4 DEF Finish, CleanupReader
<1>5. CASE Rejects \/ IsRefused \/ FindsNoReader \/ IsDone \/ ReadBreaks
  BY <1>4, <1>5 DEF Rejects, FetchRejects, IsRefused, Refused, FindsNoReader, ReadsNothing, IsDone,
                    Done, ReadBreaks, ReadFails
<1>6. CASE Connects
  BY <1>6 DEF Connects, Connected
<1>7. CASE Stops
  BY <1>7 DEF Stops, BodyStops
<1>8. CASE Receives \/ Writes \/ Changes \/ ListArrives \/ ListFails \/ ListRetries \/ UNCHANGED vars
  BY <1>8 DEF Receives, Chunk, Writes, Changes, ListArrives, ListFails, ListRetries, vars, streamVars
<1> QED BY <1>1, <1>3, <1>5, <1>6, <1>7, <1>8 DEF Next

\* A single connection reads from its own body, which holds at most one report,
\* and none before it is open.
SingleInv ==
    extra = 0 =>
        /\ shown \in Nat /\ shown <= changes
        /\ \A c \in Conn :
             /\ conn[c].phase = "reading" =>
                  /\ conn[c].on = c /\ reader = c
                  /\ wire[c] # << >> => /\ Tail(wire[c]) = << >>
                                        /\ shown <= Head(wire[c]).at /\ Head(wire[c]).at <= changes
             /\ conn[c].phase \in {"fetching", "late", "aborted"} =>
                  wire[c] = << >> /\ body[c] # "open"

(* Without timeouts and aborts there is one connection or one timer.       *)
LEMMA OneLive ==
    ASSUME StreamInv, extra = 0, NEW c \in Live, NEW d \in Live
    PROVE  c = d
<1> SUFFICES ASSUME c # d PROVE FALSE
  OBVIOUS
<1>1. IsFiniteSet(Live) /\ Cardinality(Live) \in Nat
  BY LiveFinite DEF StreamInv
<1>2. Cardinality({c}) = 1 /\ IsFiniteSet({c})
  BY FS_Singleton
<1>3. Cardinality({c} \cup {d}) = 2 /\ IsFiniteSet({c} \cup {d})
  BY <1>2, FS_AddElement
<1>4. Cardinality({c} \cup {d}) <= Cardinality(Live)
  BY <1>1, <1>3, FS_Subset
<1>5. timers \in Nat /\ Cardinality(Live) + timers = 1
  BY DEF StreamInv, StreamTypeOK, StreamsAccounted
<1> QED BY <1>1, <1>3, <1>4, <1>5

(* The end of the only connection leaves none.                             *)
LEMMA FinishSingle ==
    ASSUME StreamInv, SingleInv, NEW c \in Live, Finish(c),
           UNCHANGED <<extra, shown, changes>>
    PROVE  SingleInv'
<1> SUFFICES ASSUME extra = 0 PROVE SingleInv'
  BY DEF SingleInv
<1>1. \A d \in Conn : conn'[d].phase = "idle"
  BY OneLive DEF Finish, Idle, Live, StreamInv, StreamTypeOK
<1> QED BY <1>1 DEF SingleInv

LEMMA SingleStep ==
    ASSUME StreamInv, BodyInv, WireInv, SingleInv, [Next]_vars
    PROVE  SingleInv' /\ (extra = 0 => shown' >= shown)
<1>1. extra \in Nat /\ changes \in Nat
  BY DEF StreamInv, StreamTypeOK, WireInv
<1>2. CASE TimesOut \/ Aborts
  <2>1. extra' = extra + 1 /\ shown' = shown
    BY <1>2 DEF TimesOut, FetchTimeout, OnError, Aborts, Abort, providerVars, pageVars
  <2> QED BY <1>1, <2>1 DEF SingleInv
<1>3. CASE Rejects \/ IsRefused \/ FindsNoReader \/ IsDone \/ ReadBreaks
  <2>1. UNCHANGED <<extra, shown, changes>>
    BY <1>3 DEF Rejects, FetchRejects, IsRefused, Refused, FindsNoReader, ReadsNothing, IsDone, Done,
                ReadBreaks, ReadFails, Fault, OnError, Scheduler, providerVars, pageVars
  <2>2. \E c \in Live : Finish(c)
    BY <1>3 DEF Rejects, FetchRejects, IsRefused, Refused, FindsNoReader, ReadsNothing, IsDone, Done,
                ReadBreaks, ReadFails, Live
  <2>3. SingleInv'
    BY <2>1, <2>2, FinishSingle
  <2> QED BY <1>1, <2>1, <2>3 DEF SingleInv
<1>4. CASE Sends
  <2>1. UNCHANGED <<extra, shown, changes, reader>>
    BY <1>4 DEF Sends, Send, Scheduler, providerVars, pageVars
  <2>2. PICK c \in Conn : /\ conn' = [conn EXCEPT ![c] = [phase |-> "fetching", on |-> None]]
                          /\ body' = [body EXCEPT ![c] = "none"]
                          /\ wire' = [wire EXCEPT ![c] = << >>]
    BY <1>4 DEF Sends, Send
  <2>3. \A d \in Conn \ {c} : conn'[d] = conn[d] /\ body'[d] = body[d] /\ wire'[d] = wire[d]
    BY <2>2
  <2>4. conn'[c].phase = "fetching" /\ body'[c] # "open" /\ wire'[c] = << >>
    BY <2>2 DEF StreamInv, StreamTypeOK, BodyInv, WireInv
  <2> QED BY <1>1, <2>1, <2>3, <2>4 DEF SingleInv
<1>5. CASE Connects
  <2>1. UNCHANGED <<extra, shown, changes, wire>>
    BY <1>5 DEF Connects, Connected, Scheduler, providerVars, pageVars
  <2>2. PICK c \in Conn : /\ conn[c].phase \in {"fetching", "late"} /\ reader' = c
                          /\ conn' = [conn EXCEPT ![c] = [phase |-> "reading", on |-> c]]
                          /\ body' = [body EXCEPT ![c] = "open"]
    BY <1>5 DEF Connects, Connected
  <2>3. conn'[c].phase = "reading" /\ conn'[c].on = c
    BY <2>2 DEF StreamInv, StreamTypeOK
  <2>4. ASSUME extra = 0 PROVE \A d \in Conn \ {c} : conn'[d].phase = "idle"
    BY <2>2, <2>4, OneLive DEF Live, StreamInv, StreamTypeOK
  <2>5. extra = 0 => wire[c] = << >>
    BY <2>2 DEF SingleInv
  <2> QED BY <1>1, <2>1, <2>2, <2>3, <2>4, <2>5 DEF SingleInv
<1>6. CASE Receives
  <2>1. UNCHANGED <<extra, changes, body, reader>>
    BY <1>6 DEF Receives, Chunk, Scheduler
  <2>2. PICK c \in Conn : /\ conn[c].phase = "reading" /\ wire[conn[c].on] # << >>
                          /\ conn' = [conn EXCEPT ![c].on = reader]
                          /\ shown' = Head(wire[conn[c].on]).at
                          /\ wire' = [wire EXCEPT ![conn[c].on] = Tail(@)]
    BY <1>6 DEF Receives, Chunk
  <2> SUFFICES ASSUME extra = 0 PROVE SingleInv' /\ shown' >= shown
    BY <2>1, <2>2 DEF SingleInv
  <2>3. /\ conn[c].on = c /\ reader = c /\ Tail(wire[c]) = << >>
        /\ shown <= Head(wire[c]).at /\ Head(wire[c]).at <= changes
    BY <2>2 DEF SingleInv
  <2>4. wire[c] \in Seq(Report) /\ wire[c] # << >>
    BY <2>2, <2>3 DEF WireInv
  <2>5. Head(wire[c]).at \in Nat
    <3>1. Head(wire[c]) \in Report
      BY <2>4, HeadTailProperties
    <3> QED BY <3>1 DEF Report
  <2>6. \A d \in Conn \ {c} : conn'[d].phase = "idle"
    BY <2>2, OneLive DEF Live, StreamInv, StreamTypeOK
  <2>7. conn'[c].phase = "reading" /\ conn'[c].on = c /\ wire'[c] = << >>
    BY <2>2, <2>3 DEF StreamInv, StreamTypeOK, WireInv
  <2>8. shown' \in Nat /\ shown' <= changes' /\ shown' >= shown
    BY <1>1, <2>1, <2>2, <2>3, <2>5 DEF SingleInv
  <2>9. reader' = c
    BY <2>1, <2>3
  <2> QED BY <2>6, <2>7, <2>8, <2>9 DEF SingleInv
<1>7. CASE Writes
  <2>1. UNCHANGED <<extra, changes, shown, conn, body, reader>>
    BY <1>7 DEF Writes, streamVars, Scheduler, providerVars, pageVars
  <2>2. PICK c \in Conn : /\ body[c] = "open"
                          /\ wire' = [wire EXCEPT ![c] = <<[of |-> backend, at |-> changes]>>]
    BY <1>7 DEF Writes
  <2>3. /\ Head(wire'[c]).at = changes /\ Tail(wire'[c]) = << >>
        /\ \A d \in Conn \ {c} : wire'[d] = wire[d]
    BY <2>2 DEF WireInv
  <2> QED BY <1>1, <2>1, <2>2, <2>3 DEF SingleInv
<1>8. CASE Stops
  <2>1. UNCHANGED <<extra, changes, shown, conn, reader, wire>>
    BY <1>8 DEF Stops, BodyStops, Fault, Scheduler, providerVars, pageVars
  <2>2. \A d \in Conn : body'[d] = body[d] \/ body'[d] # "open"
    BY <1>8 DEF Stops, BodyStops, BodyInv
  <2> QED BY <1>1, <2>1, <2>2 DEF SingleInv
<1>9. CASE Changes
  <2>1. UNCHANGED <<extra, shown, conn, reader, wire, body>> /\ changes' = changes + 1
    BY <1>9 DEF Changes, streamVars, providerVars, pageVars
  <2>2. extra = 0 => \A c \in Conn : conn[c].phase = "reading" /\ wire[c] # << >> =>
                        Head(wire[c]).at <= changes + 1
    <3> SUFFICES ASSUME extra = 0, NEW c \in Conn, conn[c].phase = "reading", wire[c] # << >>
                 PROVE  Head(wire[c]).at <= changes + 1
      OBVIOUS
    <3>1. wire[c] \in Seq(Report) /\ Head(wire[c]).at <= changes
      BY DEF WireInv, SingleInv
    <3>2. Head(wire[c]) \in Report
      BY <3>1, HeadTailProperties
    <3>3. Head(wire[c]).at \in Nat
      BY <3>2 DEF Report
    <3> QED BY <1>1, <3>1, <3>3
  <2> QED BY <1>1, <2>1, <2>2 DEF SingleInv
<1>10. CASE ListArrives \/ ListFails \/ ListRetries \/ UNCHANGED vars
  <2>1. UNCHANGED <<extra, changes, shown, conn, body, reader, wire>>
    BY <1>10 DEF ListArrives, ListFails, ListRetries, vars, streamVars, Scheduler, providerVars, pageVars
  <2> QED BY <1>1, <2>1 DEF SingleInv
<1> QED
  BY <1>2, <1>3, <1>4, <1>5, <1>6, <1>7, <1>8, <1>9, <1>10 DEF Next

(* While no connection has timed out or been aborted, the pages never step *)
(* back to an earlier report, however connections are refused, end or      *)
(* break and whatever is still in their bodies (http-stream.ts, send).     *)
THEOREM NeverStepsBack == Spec => NeverBack
<1>1. Init => BodyInv /\ SingleInv
  <2> SUFFICES ASSUME Init PROVE BodyInv /\ SingleInv
    OBVIOUS
  <2>1. BodyInv
    BY DEF Init, StreamInit, BodyInv
  <2>2. \A c \in Conn : conn[c].phase = "idle"
    BY DEF Init, StreamInit, Idle
  <2> QED BY <2>1, <2>2 DEF Init, SingleInv
<1>2. StreamInv /\ WireInv /\ BodyInv /\ SingleInv /\ [Next]_vars
        => BodyInv' /\ SingleInv' /\ [extra = 0 => shown' >= shown]_vars
  BY BodyStep, SingleStep
<1> QED BY <1>1, <1>2, FeedInvariants, PTL DEF Spec, NeverBack
-----------------------------------------------------------------------------
(* The alarm of the join page.                                             *)

NodeEntry == [id : NodeId, status : NodeStatus]

KeepOne(S, kept, x) == IF x \in S THEN Append(kept, x) ELSE kept
Keep == INSTANCE FoldLemmas WITH Op <- KeepOne

(* A filtered list is a list of the same kind.                             *)
LEMMA SelectedIsSeq ==
    ASSUME NEW A, NEW seq \in Seq(A), NEW S
    PROVE  Selected(seq, S) \in Seq(A)
<1> DEFINE B == Seq(A)
<1> DEFINE empty == << >>
<1>1. empty \in B /\ \A kept \in B, x \in A : KeepOne(S, kept, x) \in B
  BY AppendProperties, EmptySeq DEF KeepOne
<1>2. Keep!Fold(S, empty, seq) \in B
  <2> HIDE DEF B, empty
  <2> QED BY <1>1, LeastElement, Keep!FoldLeftIn DEF Keep!WellOrdered
<1>3. Keep!Fold(S, empty, seq) = Selected(seq, S)
  BY Zenon DEF Keep!Fold, Selected, KeepOne, FoldLeft, MapThenFoldSet,
               Keep!MapThenFoldSet, Max, Keep!Max
<1> QED BY <1>2, <1>3

LEMMA MarkFailedIsSeq ==
    ASSUME NEW seq \in Seq(NodeEntry)
    PROVE  /\ MarkFailed(seq) \in Seq(NodeEntry) /\ Len(MarkFailed(seq)) = Len(seq)
           /\ \A i \in 1..Len(seq) : MarkFailed(seq)[i].status = "failed"
<1>1. DOMAIN seq = 1..Len(seq) /\ Len(seq) \in Nat
  BY LenProperties
<1>2. \A i \in 1..Len(seq) : seq[i] \in NodeEntry
  BY ElementOfSeq
<1>3. \A i \in 1..Len(seq) : /\ [seq[i] EXCEPT !.status = "failed"] \in NodeEntry
                             /\ [seq[i] EXCEPT !.status = "failed"].status = "failed"
  BY <1>2 DEF NodeEntry, NodeStatus
<1>4. MarkFailed(seq) \in [1..Len(seq) -> NodeEntry]
  BY <1>1, <1>3 DEF MarkFailed
<1>5. MarkFailed(seq) \in Seq(NodeEntry)
  BY <1>1, <1>4, SeqDef
<1>6. Len(MarkFailed(seq)) = Len(seq)
  BY <1>1, <1>4, <1>5, LenProperties
<1> QED BY <1>1, <1>3, <1>5, <1>6 DEF MarkFailed

(* Merging keeps the type, and nodes that are gone silence the alarm.      *)
LEMMA MergeFacts ==
    ASSUME NEW prev \in Seq(NodeEntry), NEW next \in Seq(NodeEntry)
    PROVE  /\ MergeNodes(prev, next) \in Seq(NodeEntry)
           /\ \/ MergeNodes(prev, next) = next
              \/ \E i \in DOMAIN MergeNodes(prev, next) :
                    MergeNodes(prev, next)[i].status # "available"
<1> DEFINE gone == Offline(prev, next)
<1>1. gone \in Seq(NodeEntry)
  BY SelectedIsSeq DEF Offline
<1> HIDE DEF gone
<1>2. /\ MarkFailed(gone) \in Seq(NodeEntry) /\ Len(MarkFailed(gone)) = Len(gone)
      /\ \A i \in 1..Len(gone) : MarkFailed(gone)[i].status = "failed"
  BY <1>1, MarkFailedIsSeq
<1>3. MergeNodes(prev, next) = next \/ MergeNodes(prev, next) = next \o MarkFailed(gone)
  BY DEF MergeNodes, gone
<1>4. next \o MarkFailed(gone) \in Seq(NodeEntry)
  BY <1>2, ConcatProperties
<1>5. CASE MarkFailed(gone) = << >>
  BY <1>3, <1>4, <1>5, ConcatEmptySeq
<1>6. CASE MarkFailed(gone) # << >>
  <2>1. Len(gone) \in Nat /\ Len(gone) > 0 /\ Len(next) \in Nat
    BY <1>1, <1>2, <1>6, LenProperties, EmptySeq
  <2>2. /\ Len(next) + 1 \in 1..(Len(next) + Len(gone))
        /\ (next \o MarkFailed(gone))[Len(next) + 1] = MarkFailed(gone)[1]
    BY <1>2, <2>1, ConcatProperties
  <2>3. DOMAIN (next \o MarkFailed(gone)) = 1..(Len(next) + Len(gone))
    BY <1>2, <1>4, ConcatProperties, LenProperties
  <2>4. MarkFailed(gone)[1].status # "available"
    BY <1>2, <2>1
  <2> QED BY <1>3, <1>4, <2>2, <2>3, <2>4
<1> QED BY <1>5, <1>6

AlarmInv == nodes \in Seq(NodeEntry) /\ AlarmJustified

LEMMA AlarmStep ==
    ASSUME AlarmInv, WireInv, StreamInv, [Next]_vars
    PROVE  AlarmInv'
<1>1. CASE UNCHANGED <<info, nodes>>
  BY <1>1 DEF AlarmInv, AlarmJustified
<1>2. CASE info' = InitialClusterInfo /\ nodes' = << >>
  <2>1. nodes' \in Seq(NodeEntry)
    BY <1>2, EmptySeq
  <2>2. ~IsError(info', nodes')
    BY <1>2 DEF IsError, InitialClusterInfo
  <2> QED BY <2>1, <2>2 DEF AlarmInv, AlarmJustified
<1>3. ASSUME NEW snap \in Snapshot, info' = InfoOf(snap),
             nodes' = MergeNodes(nodes, snap.nodes)
      PROVE  AlarmInv'
  <2>1. snap.nodes \in Seq(NodeEntry)
    BY SnapshotAssumption DEF NodeEntry
  <2>2. /\ nodes' \in Seq(NodeEntry)
        /\ \/ nodes' = snap.nodes
           \/ \E i \in DOMAIN nodes' : nodes'[i].status # "available"
    BY <1>3, <2>1, MergeFacts DEF AlarmInv
  <2>3. IsError(info', nodes') => nodes' = snap.nodes
    BY <2>2 DEF IsError
  <2>4. IsError(info', nodes') => IsError(InfoOf(snap), snap.nodes)
    BY <1>3, <2>3
  <2> QED BY <1>3, <2>2, <2>4 DEF AlarmInv, AlarmJustified
<1> QED BY <1>1, <1>2, <1>3, ProviderStep

(* The join page tells the user to go back for more nodes only on a report *)
(* of the scheduler that says so by itself: never because of nodes that    *)
(* are gone, or of a list and a status of different moments.               *)
THEOREM AlarmsAreJustified == Spec => []AlarmJustified
<1>1. Init => AlarmInv
  BY EmptySeq DEF Init, AlarmInv, AlarmJustified, IsError, InitialClusterInfo
<1>2. AlarmInv => AlarmJustified
  BY DEF AlarmInv
<1> QED BY <1>1, <1>2, AlarmStep, FeedInvariants, PTL DEF Spec
=============================================================================
