------------------------------- MODULE KVPool -------------------------------
(***************************************************************************)
(* The abstract specification of the CacheManager: a pool that is granted, *)
(* grown by one token and given back, and that never hands out more than   *)
(* it has.  CacheManager.tla implements it with block tables.              *)
(***************************************************************************)
EXTENDS KVPoolOps

CONSTANTS
  NumBlocks,     \* blocks of the pool
  NumSlots,      \* state slots of the pool (max_num_seqs)
  Lengths,       \* prompt lengths
  MaxContext     \* bound: a context never grows past this

VARIABLE pool

Init == pool = EmptyPool(NumBlocks, NumSlots)

Allocate(r, n) == pool' = allocate_request(pool, r, n)

Free(r) == pool' = free_request(pool, r)

Grow(r) ==
  /\ pool.context[r] < MaxContext
  /\ append_ok(pool, r)
  /\ pool' = append_slot(pool, r)

Next ==
  \E r \in Request :
    \/ \E n \in Lengths : Allocate(r, n)
    \/ Free(r)
    \/ Grow(r)

Spec == Init /\ [][Next]_pool
=============================================================================
