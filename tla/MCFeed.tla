------------------------------- MODULE MCFeed -------------------------------
(* An instance of ClusterFeed for TLC. *)
EXTENDS ClusterFeed, TLC

CONSTANTS c1, c2, c3, m1, m2, n1, n2

MCModelList == <<m1, m2>>

Node(id, status) == [id |-> id, status |-> status]

\* Without a model; waiting for more nodes; waiting with all of them; serving.
\* Between these a node comes or goes while the other one stays as it is.
MCSnapshot == {
    [model |-> NoModel, status |-> "waiting", num |-> 0, need |-> FALSE, nodes |-> << >>],
    [model |-> m2, status |-> "waiting", num |-> 2, need |-> TRUE,
     nodes |-> <<Node(n1, "available")>>],
    [model |-> m2, status |-> "waiting", num |-> 2, need |-> FALSE,
     nodes |-> <<Node(n1, "available"), Node(n2, "available")>>],
    [model |-> m2, status |-> "available", num |-> 2, need |-> FALSE,
     nodes |-> <<Node(n1, "available"), Node(n2, "available")>>]}
=============================================================================
