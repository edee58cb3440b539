------------------------------- MODULE MCMesh -------------------------------
(* Small instances of MeshScheduler for TLC.                               *)
EXTENDS MeshScheduler

CONSTANTS n1, n2, n3

ByNode(x1, x2, x3) == [n \in Node |-> CASE n = n1 -> x1 [] n = n2 -> x2 [] OTHER -> x3]

\* The largest needs one of the others to hold the model, and they need it.
UnevenMem == ByNode(6, 4, 3)
\* A node that can hold the whole model next to two that cannot.
BigMem == ByNode(8, 4, 4)
\* A node without room for the LM head.
TinyMem == ByNode(8, 8, 2)

\* Any two nodes hold the model.
EqualMem == [n \in Node |-> 5]

\* The last layer ends up with the smallest load, so that two nodes serve it.
UnevenKv == ByNode(6, 2, 2)
EvenKv == [n \in Node |-> 6]
EvenPower == [n \in Node |-> 1]
UnevenPower == ByNode(2, 1, 1)

\* The node or the way that costs most, one that is overloaded, one not measured.
Ways(x12, x13, x23) ==
  [n \in Node |-> [m \in Node |-> CASE n = m -> 0
                                   [] {n, m} = {n1, n2} -> x12
                                   [] {n, m} = {n1, n3} -> x13
                                   [] OTHER -> x23]]
SomeLatencies ==
  {[layer |-> ByNode(1, 2, 1), rtt |-> Ways(1, 4, 1)],
   [layer |-> ByNode(3, 1, 1), rtt |-> Ways(3, 1, 1)],
   [layer |-> ByNode(1, Inf, 1), rtt |-> Ways(1, 2, 2)],
   [layer |-> ByNode(1, 1, 1), rtt |-> Ways(1, Inf, 1)]}
AnyLatency == {[layer |-> ByNode(1, 1, 1), rtt |-> Ways(1, 1, 1)]}

\* With EqualMem, EvenKv, EvenPower, AnyLatency and NoManual no node differs from
\* another, and a plan is chosen by positions in the list.
AnyOrder == Permutations(Node)

NoManual == [n \in Node |-> NoRange]
\* Two nodes cover the model by hand.
HandMade == ByNode(<<0, 2>>, <<2, 3>>, NoRange)
=============================================================================
