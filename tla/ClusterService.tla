--------------------------- MODULE ClusterService ---------------------------
(***************************************************************************)
(* What the web client keeps of the cluster (services/cluster.tsx), as     *)
(* functions of what it receives. A snapshot is one cluster_status message *)
(* of the scheduler; the join command and the hardware of a node, which    *)
(* are only displayed, are left out.                                       *)
(***************************************************************************)
EXTENDS Naturals, Lists

CONSTANTS
    Model,      \* names of models
    NoModel,    \* the empty name
    ModelList   \* the models the scheduler offers, in its order

ASSUME ModelAssumption ==
    /\ NoModel \notin Model
    /\ ModelList \in Seq(Model)

NodeStatus == {"waiting", "available", "failed"}

ClusterStatus == {"offline", "idle", "waiting", "available", "rebalancing", "failed"}

\* The status a scheduler may report for a hosted model.
ReportedStatus == ClusterStatus \ {"offline", "idle"}

\* INITIAL_CLUSTER_INFO
InitialClusterInfo ==
    [status |-> "offline", model |-> NoModel, num |-> 4, need |-> FALSE]

\* JavaScript's ||, over names
Or(a, b) == IF a # NoModel THEN a ELSE b

\* setClusterInfo in onMessage: without a model the status is idle.
InfoOf(snap) ==
    [status |-> IF snap.model # NoModel THEN snap.status ELSE "idle",
     model  |-> snap.model, num |-> snap.num, need |-> snap.need]

-----------------------------------------------------------------------------
(* The list of nodes: entries are [id, status].                            *)

Ids(list) == {list[i].id : i \in DOMAIN list}

MarkFailed(list) == [i \in DOMAIN list |-> [list[i] EXCEPT !.status = "failed"]]

\* prevOnlineNodes, and prevOfflineNodes before they are marked.
Online(prev, next) == Selected(prev, {n \in ToSet(prev) : n.id \in Ids(next)})
Offline(prev, next) == Selected(prev, {n \in ToSet(prev) : n.id \notin Ids(next)})

\* Mutant: the nodes that are gone keep the status they had.
MergeNodesKeepStatus(prev, next) ==
    IF next = Online(prev, next) THEN next \o Offline(prev, next) ELSE next

\* setNodeInfoList in onMessage: nodes that are gone stay, as failed, as long
\* as nothing else changes.
MergeNodes(prev, next) ==
    IF next = Online(prev, next) THEN next \o MarkFailed(Offline(prev, next)) ELSE next

\* What Node shows: the status, or a skeleton that waits for its node.
RowOf(list, i) == IF i \in DOMAIN list THEN list[i].status ELSE "waiting"

\* The rows of NodeList: the nodes, then one for each node that is still wanted.
NodeRows(info, list) ==
    [i \in 1..(IF info.status # "idle" /\ info.num > Len(list) THEN info.num ELSE Len(list))
        |-> RowOf(list, i)]

\* isError of the join page.
IsError(info, list) ==
    /\ info.num > 0 /\ Len(list) >= info.num
    /\ \A i \in DOMAIN list : list[i].status = "available"
    /\ info.status = "waiting"

-----------------------------------------------------------------------------
(* The model name of the configuration.                                    *)

FirstModel(loaded) == IF loaded /\ ModelList # << >> THEN Head(ModelList) ELSE NoModel

\* The effect on [modelInfoList, clusterInfo].
ModelNameAfter(info, loaded, prev) ==
    CASE info.status = "waiting" -> Or(info.model, Or(prev, FirstModel(loaded)))
      [] info.status = "offline" -> prev
      [] OTHER                   -> Or(prev, Or(info.model, FirstModel(loaded)))

\* The checks at the head of init.
InitParams(num, model) == num >= 1 /\ model # NoModel
=============================================================================
