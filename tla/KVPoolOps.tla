----------------------------- MODULE KVPoolOps -----------------------------
(***************************************************************************)
(* What a CacheManager (parallax/server/cache_manager.py) promises its     *)
(* callers, with the identity of the physical blocks and slots abstracted  *)
(* to counts.  A pool is a record:                                         *)
(*   free_blocks   how many KV blocks the BlockAllocator can still hand    *)
(*                 out                                                     *)
(*   context       the context_lengths dict, Absent for a request without  *)
(*                 a block table (both dicts gain and lose keys together)  *)
(*   free_slots    how many state slots the SlotAllocator can hand out     *)
(*   slotted       the keys of request_slots                               *)
(* The operators are functions of a pool, so that the executor can make    *)
(* several cache calls in one step.                                        *)
(***************************************************************************)
EXTENDS Integers

CONSTANTS
  Request,       \* request ids
  BlockSize,     \* tokens per KV block
  NeedsBlocks,   \* the shard has an attention layer
  NeedsSlots     \* the shard has a linear (state) layer

ASSUME BlockSizeAssumption == BlockSize \in Nat \ {0}
ASSUME LayerKindAssumption == NeedsBlocks \in BOOLEAN /\ NeedsSlots \in BOOLEAN

Absent == -1

\* Mutant: floor division, as if a partly filled block needed no memory.
BlocksFor_floor(n) == n \div BlockSize

\* Blocks that n tokens occupy: ceiling division.
BlocksFor(n) == (n + BlockSize - 1) \div BlockSize

EmptyPool(blocks, slots) ==
  [free_blocks |-> IF NeedsBlocks THEN blocks ELSE 0,
   context     |-> [r \in Request |-> Absent],
   free_slots  |-> IF NeedsSlots THEN slots ELSE 0,
   slotted     |-> {}]

has_request(pool, r) ==
  IF NeedsBlocks THEN pool.context[r] # Absent ELSE r \in pool.slotted

can_allocate(pool, n) ==
  /\ NeedsBlocks => pool.free_blocks >= BlocksFor(n)
  /\ NeedsSlots  => pool.free_slots > 0

\* The return value of allocate_request.  Only the block tables are
\* consulted to recognise a request that already holds its cache.
allocate_ok(pool, r, n) == pool.context[r] # Absent \/ can_allocate(pool, n)

\* The commit of a successful allocation.  A request that already has a slot
\* but no block table takes another slot; request_slots keeps the new one.
Commit(pool, r, n) ==
  [free_blocks |-> IF NeedsBlocks THEN pool.free_blocks - BlocksFor(n) ELSE pool.free_blocks,
   context     |-> IF NeedsBlocks THEN [pool.context EXCEPT ![r] = n] ELSE pool.context,
   free_slots  |-> IF NeedsSlots THEN pool.free_slots - 1 ELSE pool.free_slots,
   slotted     |-> IF NeedsSlots THEN pool.slotted \cup {r} ELSE pool.slotted]

allocate_request(pool, r, n) ==
  IF pool.context[r] = Absent /\ can_allocate(pool, n)
  THEN Commit(pool, r, n)
  ELSE pool

free_request(pool, r) ==
  [free_blocks |-> pool.free_blocks +
                     (IF pool.context[r] # Absent THEN BlocksFor(pool.context[r]) ELSE 0),
   context     |-> [pool.context EXCEPT ![r] = Absent],
   free_slots  |-> pool.free_slots + (IF r \in pool.slotted THEN 1 ELSE 0),
   slotted     |-> pool.slotted \ {r}]

\* append_slot returns TRUE: a context that fills its last block needs one more.
append_ok(pool, r) ==
  NeedsBlocks => /\ pool.context[r] # Absent
                 /\ pool.context[r] % BlockSize = 0 => pool.free_blocks > 0

append_slot(pool, r) ==
  IF NeedsBlocks /\ append_ok(pool, r)
  THEN [free_blocks |-> pool.free_blocks - (IF pool.context[r] % BlockSize = 0 THEN 1 ELSE 0),
        context     |-> [pool.context EXCEPT ![r] = pool.context[r] + 1],
        free_slots  |-> pool.free_slots,
        slotted     |-> pool.slotted]
  ELSE pool
=============================================================================
