----------------------------- MODULE MCExecutor -----------------------------
(* Small instances of Executor for TLC.                                    *)
EXTENDS Executor

Symmetry == Permutations(Request)

\* Memory for every request at its longest.
AmpleBlocks == [p \in Peer |-> 8]

\* Memory for one request at a time.
ScarceBlocks == [p \in Peer |-> 2]

\* Memory that runs out at the last peer first.
UnevenBlocks == [p \in Peer |-> IF p = LastPeer THEN 3 ELSE 4]
=============================================================================
