----------------------------- MODULE HttpStream -----------------------------
(***************************************************************************)
(* The stream client of the web frontend (services/http-stream.ts) with    *)
(* autoReconnect, as ClusterProvider creates it. Every send is a           *)
(* connection of its own, but `reader' and `abortController' are variables *)
(* of the client and shared by all of them. The event loop runs callbacks  *)
(* to completion: a callback with the promise reactions that follow it     *)
(* without waiting for the network or a timer is one action.               *)
(***************************************************************************)
EXTENDS Naturals, FiniteSets

CONSTANTS
    Conn,       \* connections that may exist at a time; an ended one is reused
    None,       \* undefined
    MaxExtra,   \* bound: fetch timeouts and calls of abort
    MaxFaults   \* bound: failed fetches, refused requests, closed or broken streams

ASSUME StreamAssumption ==
    /\ IsFiniteSet(Conn) /\ None \notin Conn
    /\ MaxExtra \in Nat /\ MaxFaults \in Nat

VARIABLES
    conn,    \* per connection: what send is waiting for, and the reader it waits on
    body,    \* per connection: the response body: none, open, ended or errored
    reader,  \* whose reader the variable holds
    ctrl,    \* whose AbortController the variable holds
    timers,  \* reconnect timers that run
    extra,   \* timeouts and aborts so far
    faults   \* faults so far

streamVars == <<conn, body, reader, ctrl, timers, extra, faults>>

\* The phases are idle; fetching, while the 5 s timeout runs; late, when it has
\* fired and the fetch goes on; aborted, when the fetch is about to reject; reading.
Idle == [phase |-> "idle", on |-> None]

\* ClusterProvider calls send when it is mounted; until then its effect is a
\* timer that is due.
StreamInit ==
    /\ conn = [c \in Conn |-> Idle]
    /\ body = [c \in Conn |-> "none"]
    /\ reader = None /\ ctrl = None
    /\ timers = 1 /\ extra = 0 /\ faults = 0

Live == {c \in Conn : conn[c].phase # "idle"}

\* Nothing refers to the body of c any more.
Reusable(c) ==
    /\ conn[c] = Idle
    /\ reader # c
    /\ \A d \in Conn : conn[d].on # c

\* A new connection; which of the free ones it gets does not matter.
NewConn == CHOOSE c \in Conn : Reusable(c)

\* The promise that connection c waits for is settled: its reaction runs before
\* any timer or network event.
Settled(c) ==
    \/ conn[c].phase = "aborted"
    \/ /\ conn[c].phase = "reading"
       /\ conn[c].on = None \/ body[conn[c].on] \in {"ended", "errored"}

Quiet == \A c \in Conn : ~Settled(c)

Fault == faults < MaxFaults /\ faults' = faults + 1 /\ UNCHANGED extra

-----------------------------------------------------------------------------
(* Pieces of the handlers.                                                 *)

\* cleanupReader: cancel the reader that the variable holds, whoever it
\* belongs to. Cancelling a broken body rejects, and the variable stays.
CleanupReader ==
    IF reader # None /\ body[reader] # "errored"
    THEN body' = [body EXCEPT ![reader] = "ended"] /\ reader' = None
    ELSE UNCHANGED <<body, reader>>

\* onStatusChange with 'disconnected' or 'error': a reconnect timer starts.
Reconnects == timers' = timers + 1

\* Mutant: a connection that ends schedules no reconnect.
FinishSilently(c) ==
    /\ CleanupReader
    /\ conn' = [conn EXCEPT ![c] = Idle]
    /\ ctrl' = None
    /\ UNCHANGED timers

\* Mutant: catch and finally both report the end.
FinishTwice(c) ==
    /\ CleanupReader
    /\ conn' = [conn EXCEPT ![c] = Idle]
    /\ ctrl' = None
    /\ timers' = timers + 2

\* The end of a connection: cleanup, status change and the finally handler,
\* which forgets the shared controller.
Finish(c) ==
    /\ CleanupReader
    /\ conn' = [conn EXCEPT ![c] = Idle]
    /\ ctrl' = None
    /\ Reconnects

\* abortController?.abort(): a pending fetch will reject, an open body breaks.
ConnAborted(conns) ==
    IF ctrl # None /\ conns[ctrl].phase \in {"fetching", "late"}
    THEN [conns EXCEPT ![ctrl].phase = "aborted"] ELSE conns

BodyAborted ==
    IF ctrl # None /\ body[ctrl] = "open" THEN [body EXCEPT ![ctrl] = "errored"] ELSE body

-----------------------------------------------------------------------------
(* The actions. OnMessage and onError of the provider are conjoined where  *)
(* the client calls them.                                                  *)

\* A reconnect timer fires, or the provider is mounted: send.
Send(c) ==
    /\ Quiet /\ timers > 0 /\ Reusable(c) /\ c = NewConn
    /\ timers' = timers - 1
    /\ conn' = [conn EXCEPT ![c] = [phase |-> "fetching", on |-> None]]
    /\ body' = [body EXCEPT ![c] = "none"]
    /\ ctrl' = c
    /\ UNCHANGED <<reader, extra, faults>>

\* Five seconds without an answer: abort, report an error, call onError.
FetchTimeout(c) ==
    /\ Quiet /\ conn[c].phase = "fetching" /\ extra < MaxExtra
    /\ conn' = ConnAborted([conn EXCEPT ![c].phase = "late"])
    /\ body' = BodyAborted
    /\ Reconnects
    /\ extra' = extra + 1
    /\ UNCHANGED <<reader, ctrl, faults>>

\* The fetch rejects: catch and finally; onError is called.
FetchRejects(c) ==
    /\ \/ conn[c].phase = "aborted" /\ UNCHANGED <<extra, faults>>
       \/ Quiet /\ conn[c].phase \in {"fetching", "late"} /\ Fault
    /\ Finish(c)

\* The answer is not a stream: an error without a call of onError.
Refused(c) ==
    /\ Quiet /\ conn[c].phase \in {"fetching", "late"}
    /\ Fault
    /\ Finish(c)

\* The answer is a stream; the reader of any other connection is replaced.
Connected(c) ==
    /\ Quiet /\ conn[c].phase \in {"fetching", "late"}
    /\ conn' = [conn EXCEPT ![c] = [phase |-> "reading", on |-> c]]
    /\ body' = [body EXCEPT ![c] = "open"]
    /\ reader' = c
    /\ UNCHANGED <<ctrl, timers, extra, faults>>

\* A chunk arrives on the reader that the loop waits on. The next read is on
\* the reader that the shared variable holds by now.
Chunk(c) ==
    /\ Quiet /\ conn[c].phase = "reading" /\ conn[c].on # None
    /\ body[conn[c].on] = "open"
    /\ conn' = [conn EXCEPT ![c].on = reader]
    /\ UNCHANGED <<body, reader, ctrl, timers, extra, faults>>

\* reader.read() on undefined: the loop throws; onError is called.
ReadsNothing(c) ==
    /\ conn[c].phase = "reading" /\ conn[c].on = None
    /\ Finish(c)
    /\ UNCHANGED <<extra, faults>>

\* The body has ended or was cancelled: done.
Done(c) ==
    /\ conn[c].phase = "reading" /\ conn[c].on # None
    /\ body[conn[c].on] = "ended"
    /\ Finish(c)
    /\ UNCHANGED <<extra, faults>>

\* The body is broken: the read rejects; onError is called.
ReadFails(c) ==
    /\ conn[c].phase = "reading" /\ conn[c].on # None
    /\ body[conn[c].on] = "errored"
    /\ Finish(c)
    /\ UNCHANGED <<extra, faults>>

\* abort(), which ClusterProvider never calls.
Abort ==
    /\ Quiet /\ extra < MaxExtra
    /\ body' = IF reader # None /\ BodyAborted[reader] = "open"
               THEN [BodyAborted EXCEPT ![reader] = "ended"] ELSE BodyAborted
    /\ conn' = ConnAborted(conn)
    /\ reader' = None /\ ctrl' = None
    /\ Reconnects
    /\ extra' = extra + 1
    /\ UNCHANGED faults

\* The server ends a body, or the network breaks it.
BodyStops(c) ==
    /\ Quiet /\ body[c] = "open"
    /\ \E how \in {"ended", "errored"} : body' = [body EXCEPT ![c] = how]
    /\ Fault
    /\ UNCHANGED <<conn, reader, ctrl, timers>>

-----------------------------------------------------------------------------
(* Every connection that ends, for whatever reason, starts exactly one     *)
(* reconnect timer (onStatusChange, line 84), so the client is never       *)
(* without a connection or a timer; only a timeout and a call of abort,    *)
(* which report a change of status of their own besides the end of the     *)
(* connection they cause, add one, and nothing ever takes one back.        *)
StreamsAccounted == Cardinality(Live) + timers = 1 + extra
=============================================================================
