----------------------------- MODULE ClusterFeed ----------------------------
(***************************************************************************)
(* ClusterProvider (services/cluster.tsx) on top of its stream client: the *)
(* scheduler writes its status to every open body once a second, the       *)
(* client's callbacks update what the pages see, and the list of models is *)
(* fetched until it arrives.                                               *)
(***************************************************************************)
EXTENDS HttpStream, ClusterService

CONSTANTS
    NodeId,      \* ids of nodes
    Snapshot,    \* what the scheduler may report
    MaxChanges,  \* bound: changes of the scheduler's state
    Host         \* 'cluster' or 'node': who serves the page

ASSUME SnapshotAssumption ==
    \A snap \in Snapshot : snap.nodes \in Seq([id : NodeId, status : NodeStatus])

VARIABLES
    wire,       \* per body: the report written and not yet read, of a snapshot
                \* at the time when there had been so many changes
    backend,    \* what the scheduler would report now
    changes,    \* changes of it so far
    info,       \* clusterInfo
    nodes,      \* nodeInfoList
    shown,      \* the time of the report that the pages have seen last (history)
    list,       \* the fetch of the model list: fetching, sleeping, loaded or off
    modelName   \* the model name of the configuration

pageVars == <<info, nodes, shown>>
providerVars == <<pageVars, list, modelName>>
vars == <<streamVars, wire, backend, changes, providerVars>>

\* updateModelList returns at once when a node serves the page.
Init ==
    /\ StreamInit
    /\ wire = [c \in Conn |-> << >>]
    /\ backend \in Snapshot /\ changes = 0
    /\ info = InitialClusterInfo /\ nodes = << >> /\ shown = 0
    /\ list = (IF Host = "node" THEN "off" ELSE "fetching")
    /\ modelName = NoModel

\* The effect on the model name, when clusterInfo or the list has changed.
ModelNameEffect(newInfo, newList) ==
    modelName' = IF newInfo = info /\ newList = list THEN modelName
                 ELSE ModelNameAfter(newInfo, newList = "loaded", modelName)

\* The provider's onMessage.
OnMessage(snap) ==
    /\ info' = InfoOf(snap)
    /\ nodes' = MergeNodes(nodes, snap.nodes)
    /\ ModelNameEffect(InfoOf(snap), list)
    /\ UNCHANGED list

\* The provider's onError: reset.
OnError ==
    /\ info' = InitialClusterInfo /\ nodes' = << >>
    /\ ModelNameEffect(InitialClusterInfo, list)
    /\ UNCHANGED <<list, shown>>

-----------------------------------------------------------------------------
Scheduler == <<backend, changes>>

\* A new connection starts with an empty wire.
Sends == \E c \in Conn :
    /\ Send(c)
    /\ wire' = [wire EXCEPT ![c] = << >>]
    /\ UNCHANGED <<Scheduler, providerVars>>

TimesOut == \E c \in Conn :
    FetchTimeout(c) /\ OnError /\ UNCHANGED <<wire, Scheduler>>

Rejects == \E c \in Conn :
    FetchRejects(c) /\ OnError /\ UNCHANGED <<wire, Scheduler>>

IsRefused == \E c \in Conn :
    Refused(c) /\ UNCHANGED <<wire, Scheduler, providerVars>>

Connects == \E c \in Conn :
    Connected(c) /\ UNCHANGED <<wire, Scheduler, providerVars>>

\* A loop takes the report from the body it waits on.
Receives == \E c \in Conn :
    /\ Chunk(c)
    /\ wire[conn[c].on] # << >>
    /\ OnMessage(Head(wire[conn[c].on]).of)
    /\ shown' = Head(wire[conn[c].on]).at
    /\ wire' = [wire EXCEPT ![conn[c].on] = Tail(@)]
    /\ UNCHANGED Scheduler

FindsNoReader == \E c \in Conn :
    ReadsNothing(c) /\ OnError /\ UNCHANGED <<wire, Scheduler>>

IsDone == \E c \in Conn :
    Done(c) /\ UNCHANGED <<wire, Scheduler, providerVars>>

ReadBreaks == \E c \in Conn :
    ReadFails(c) /\ OnError /\ UNCHANGED <<wire, Scheduler>>

Aborts == Abort /\ UNCHANGED <<wire, Scheduler, providerVars>>

\* What the server wrote before the end of a body has been read.
Stops == \E c \in Conn :
    BodyStops(c) /\ wire[c] = << >> /\ UNCHANGED <<wire, Scheduler, providerVars>>

\* stream_cluster_status yields a snapshot, every second while the body is open.
Writes == \E c \in Conn :
    /\ body[c] = "open" /\ wire[c] = << >>
    /\ wire' = [wire EXCEPT ![c] = <<[of |-> backend, at |-> changes]>>]
    /\ UNCHANGED <<streamVars, Scheduler, providerVars>>

\* The scheduler's state changes.
Changes ==
    /\ changes < MaxChanges /\ changes' = changes + 1
    /\ \E s \in Snapshot \ {backend} : backend' = s
    /\ UNCHANGED <<streamVars, wire, providerVars>>

\* getModelList answers.
ListArrives ==
    /\ list = "fetching" /\ list' = "loaded"
    /\ ModelNameEffect(info, "loaded")
    /\ UNCHANGED <<streamVars, wire, Scheduler, pageVars>>

\* Mutant: the loop gives up.
ListGivesUp ==
    /\ list = "fetching" /\ list' = "off"
    /\ faults < MaxFaults /\ faults' = faults + 1
    /\ UNCHANGED <<conn, body, reader, ctrl, timers, extra, wire, Scheduler, pageVars, modelName>>

\* getModelList throws; the loop sleeps two seconds.
ListFails ==
    /\ list = "fetching" /\ list' = "sleeping"
    /\ faults < MaxFaults /\ faults' = faults + 1
    /\ UNCHANGED <<conn, body, reader, ctrl, timers, extra, wire, Scheduler, pageVars, modelName>>

\* The loop tries again.
ListRetries ==
    /\ list = "sleeping" /\ list' = "fetching"
    /\ UNCHANGED <<streamVars, wire, Scheduler, pageVars, modelName>>

Next ==
    \/ Sends \/ TimesOut \/ Rejects \/ IsRefused \/ Connects \/ Receives
    \/ FindsNoReader \/ IsDone \/ ReadBreaks \/ Aborts \/ Stops
    \/ Writes \/ Changes \/ ListArrives \/ ListFails \/ ListRetries

\* Timers fire, servers answer and write, and the event loop runs reactions
\* whose promise is settled. Faults and changes need not happen.
Fairness ==
    /\ WF_vars(Sends) /\ WF_vars(Connects)
    /\ WF_vars(FindsNoReader) /\ WF_vars(IsDone) /\ WF_vars(ReadBreaks)
    /\ \A c \in Conn :
         /\ WF_vars(FetchRejects(c) /\ conn[c].phase = "aborted" /\ OnError
                    /\ UNCHANGED <<wire, Scheduler>>)
         /\ WF_vars(Chunk(c) /\ Receives)
         /\ WF_vars(body[c] = "open" /\ wire[c] = << >> /\ Writes)
    /\ WF_vars(ListArrives) /\ WF_vars(ListRetries)

Spec == Init /\ [][Next]_vars /\ Fairness

-----------------------------------------------------------------------------
(* While no connection has timed out or been aborted, the pages never step *)
(* back to an earlier report: the end of a connection, the reader that     *)
(* stays when its body broke, and the wire of the next one leave nothing   *)
(* old to read (send and its handlers, onMessage). A timeout and an abort  *)
(* leave two connections, which may overtake each other.                   *)
NeverBack == [][extra = 0 => shown' >= shown]_vars

(* "Your selected model requires more nodes. Please go back" (join.tsx,    *)
(* 88) is shown only when the scheduler itself reports that it waits with  *)
(* all the nodes that were asked for: never for nodes that are gone, or    *)
(* for a list and a status of different moments.                           *)
AlarmJustified ==
    IsError(info, nodes) =>
        \E snap \in Snapshot : info = InfoOf(snap) /\ IsError(InfoOf(snap), snap.nodes)

(* Whatever timed out, was refused, broke or was aborted before: in the    *)
(* end the pages show what the scheduler reports, and go on showing it,    *)
(* with a row for every reported node at its status, rows that are failed  *)
(* or waiting for the others, as many rows as nodes are wanted, and a      *)
(* model selected when the scheduler hosts or offers one. This is what     *)
(* auto-reconnect, the retries of the model list and the shared reader     *)
(* must come to.                                                           *)
Shows(snap) ==
    /\ info = InfoOf(snap)
    /\ \A rows \in {NodeRows(info, nodes)} :
         /\ Len(rows) >= Len(snap.nodes) /\ (snap.model # NoModel => Len(rows) >= snap.num)
         /\ \A i \in DOMAIN rows :
              rows[i] = IF i <= Len(snap.nodes) THEN snap.nodes[i].status
                        ELSE IF i <= Len(nodes) THEN "failed" ELSE "waiting"
    /\ (snap.model # NoModel \/ (Host = "cluster" /\ ModelList # << >>)) => modelName # NoModel

Converges == <>[]Shows(backend)
=============================================================================
