------------------------------- MODULE MCPages ------------------------------
(* An instance of Pages for TLC. *)
EXTENDS Pages

CONSTANTS m1, m2

MCModelList == <<m1, m2>>

MCReport == {[status |-> "waiting", need |-> FALSE], [status |-> "waiting", need |-> TRUE],
             [status |-> "available", need |-> FALSE], [status |-> "rebalancing", need |-> FALSE],
             [status |-> "failed", need |-> FALSE]}
=============================================================================
