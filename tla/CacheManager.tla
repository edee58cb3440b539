---------------------------- MODULE CacheManager ----------------------------
(***************************************************************************)
(* parallax/server/cache_manager.py and cache/allocator.py: the paged KV   *)
(* cache of one executor.  A BlockAllocator and a SlotAllocator hand out   *)
(* physical block and slot indices; CacheManager keeps a block table, a    *)
(* context length and a state slot per request.                            *)
(*                                                                         *)
(* free_blocks and free_slots are stacks in the code.  Which free index    *)
(* the stack returns does not matter to any caller, so they are sets here  *)
(* and any free index may be returned; BlocksPartitioned shows that an     *)
(* index is pushed only when it is not already on the stack.               *)
(*                                                                         *)
(* block_tables[r] is <<>> for a request without a table; whether r is a   *)
(* key of block_tables is context_lengths[r] # Absent, because the two     *)
(* dicts gain and lose their keys together.                                *)
(***************************************************************************)
EXTENDS KVPoolOps, Sequences, FiniteSets

CONSTANTS
  Block,         \* physical block indices
  Slot,          \* physical slot indices
  NoSlot,        \* the code's -1
  Clean,         \* a zeroed state slot
  Lengths,       \* prompt lengths that allocate_request is called with
  MaxContext     \* bound on a context's growth

ASSUME SlotAssumption    == NoSlot \notin Slot
ASSUME CleanAssumption   == Clean \notin Request
ASSUME LengthsAssumption == Lengths \subseteq Nat /\ MaxContext \in Nat
ASSUME FiniteAssumption  == IsFiniteSet(Block) /\ IsFiniteSet(Slot)
ASSUME NoBlocksAssumption == ~NeedsBlocks => Block = {}
ASSUME NoSlotsAssumption  == ~NeedsSlots => Slot = {}

VARIABLES
  free_blocks, used_blocks,   \* BlockAllocator
  free_slots, used_slots,     \* SlotAllocator
  block_tables, context_lengths, request_slots,
  slot_state                  \* whose recurrent state a slot holds

block_vars == <<free_blocks, used_blocks, block_tables, context_lengths>>
slot_vars  == <<free_slots, used_slots, request_slots, slot_state>>
vars == <<free_blocks, used_blocks, block_tables, context_lengths,
          free_slots, used_slots, request_slots, slot_state>>

BlocksOf(r) == {block_tables[r][i] : i \in 1..Len(block_tables[r])}

HasTable(r) == context_lengths[r] # Absent

Init ==
  /\ free_blocks = Block
  /\ used_blocks = {}
  /\ free_slots = Slot
  /\ used_slots = {}
  /\ block_tables = [r \in Request |-> <<>>]
  /\ context_lengths = [r \in Request |-> Absent]
  /\ request_slots = [r \in Request |-> NoSlot]
  /\ slot_state = [s \in Slot |-> Clean]

\* The lists of n distinct free blocks BlockAllocator.allocate may return.
Picks(n) ==
  {bs \in [1..n -> free_blocks] : \A i, j \in 1..n : bs[i] = bs[j] => i = j}

\* Blocks of a granted request: a fresh table of BlocksFor(n) blocks.
TakeBlocks(r, n) ==
  \E bs \in Picks(BlocksFor(n)) :
    /\ free_blocks' = free_blocks \ {bs[i] : i \in 1..BlocksFor(n)}
    /\ used_blocks' = used_blocks \cup {bs[i] : i \in 1..BlocksFor(n)}
    /\ block_tables' = [block_tables EXCEPT ![r] = bs]
    /\ context_lengths' = [context_lengths EXCEPT ![r] = n]

\* Mutant: the state caches of the slot are not zeroed.
TakeSlot_dirty(r) ==
  \E s \in free_slots :
    /\ free_slots' = free_slots \ {s}
    /\ used_slots' = used_slots \cup {s}
    /\ request_slots' = [request_slots EXCEPT ![r] = s]
    /\ UNCHANGED slot_state

\* Slot of a granted request, with its state caches zeroed.
TakeSlot(r) ==
  \E s \in free_slots :
    /\ free_slots' = free_slots \ {s}
    /\ used_slots' = used_slots \cup {s}
    /\ request_slots' = [request_slots EXCEPT ![r] = s]
    /\ slot_state' = [slot_state EXCEPT ![s] = Clean]

\* Mutant: the early return for a request that has a table is missing.
AllocateRequest_again(r, n) ==
  /\ IF NeedsSlots THEN TakeSlot(r) ELSE UNCHANGED slot_vars
  /\ IF NeedsBlocks THEN TakeBlocks(r, n) ELSE UNCHANGED block_vars

\* allocate_request returning True for a request without a block table.
AllocateRequest(r, n) ==
  /\ ~HasTable(r)
  /\ IF NeedsSlots THEN TakeSlot(r) ELSE UNCHANGED slot_vars
  /\ IF NeedsBlocks THEN TakeBlocks(r, n) ELSE UNCHANGED block_vars

\* Mutant: a refused allocation keeps the slot it popped.
RefuseRequest_keeps_slot(r, n) ==
  /\ ~HasTable(r)
  /\ NeedsBlocks /\ Cardinality(free_blocks) < BlocksFor(n)
  /\ \E s \in free_slots :
       free_slots' = free_slots \ {s} /\ used_slots' = used_slots \cup {s}
  /\ UNCHANGED <<request_slots, slot_state>>
  /\ UNCHANGED block_vars

\* allocate_request returning False: a slot popped before the blocks turned
\* out to be too few is pushed back.
RefuseRequest(r, n) ==
  /\ ~HasTable(r)
  /\ \/ NeedsSlots /\ free_slots = {}
     \/ NeedsBlocks /\ Cardinality(free_blocks) < BlocksFor(n)
  /\ UNCHANGED vars

\* Mutant: the table is dropped and its blocks are never given back.
ReleaseBlocks_leaks(r) ==
  /\ block_tables' = [block_tables EXCEPT ![r] = <<>>]
  /\ context_lengths' = [context_lengths EXCEPT ![r] = Absent]
  /\ UNCHANGED <<free_blocks, used_blocks>>

\* free_request and release_request.  BlockAllocator.free and
\* SlotAllocator.free skip an index that is not in use.
ReleaseBlocks(r) ==
  /\ free_blocks' = free_blocks \cup (BlocksOf(r) \cap used_blocks)
  /\ used_blocks' = used_blocks \ BlocksOf(r)
  /\ block_tables' = [block_tables EXCEPT ![r] = <<>>]
  /\ context_lengths' = [context_lengths EXCEPT ![r] = Absent]

ReleaseSlot(r) ==
  /\ free_slots' = free_slots \cup ({request_slots[r]} \cap used_slots)
  /\ used_slots' = used_slots \ {request_slots[r]}
  /\ request_slots' = [request_slots EXCEPT ![r] = NoSlot]
  /\ UNCHANGED slot_state

FreeRequest(r) ==
  /\ IF HasTable(r) THEN ReleaseBlocks(r) ELSE UNCHANGED block_vars
  /\ IF request_slots[r] # NoSlot THEN ReleaseSlot(r) ELSE UNCHANGED slot_vars

\* Mutant: the block is read from the stack and not popped.
AppendSlot_peeks(r) ==
  /\ HasTable(r)
  /\ context_lengths[r] < MaxContext
  /\ \/ /\ context_lengths[r] % BlockSize # 0
        /\ UNCHANGED <<free_blocks, used_blocks, block_tables>>
     \/ /\ context_lengths[r] % BlockSize = 0
        /\ \E b \in free_blocks :
             /\ used_blocks' = used_blocks \cup {b}
             /\ block_tables' = [block_tables EXCEPT ![r] = Append(@, b)]
             /\ UNCHANGED free_blocks
  /\ context_lengths' = [context_lengths EXCEPT ![r] = @ + 1]
  /\ UNCHANGED slot_vars

\* append_slot: one more token, and one more block when the last is full.
AppendSlot(r) ==
  /\ HasTable(r)
  /\ context_lengths[r] < MaxContext
  /\ \/ /\ context_lengths[r] % BlockSize # 0
        /\ UNCHANGED <<free_blocks, used_blocks, block_tables>>
     \/ /\ context_lengths[r] % BlockSize = 0
        /\ \E b \in free_blocks :
             /\ free_blocks' = free_blocks \ {b}
             /\ used_blocks' = used_blocks \cup {b}
             /\ block_tables' = [block_tables EXCEPT ![r] = Append(@, b)]
  /\ context_lengths' = [context_lengths EXCEPT ![r] = @ + 1]
  /\ UNCHANGED slot_vars

\* A forward pass writes the request's recurrent state to its slot.
WriteState(r) ==
  /\ request_slots[r] # NoSlot
  /\ slot_state' = [slot_state EXCEPT ![request_slots[r]] = r]
  /\ UNCHANGED <<free_slots, used_slots, request_slots>>
  /\ UNCHANGED block_vars

Next ==
  \E r \in Request :
    \/ \E n \in Lengths : AllocateRequest(r, n) \/ RefuseRequest(r, n)
    \/ FreeRequest(r)
    \/ AppendSlot(r)
    \/ WriteState(r)

Spec == Init /\ [][Next]_vars
-----------------------------------------------------------------------------
TypeOK ==
  /\ free_blocks \subseteq Block /\ used_blocks \subseteq Block
  /\ free_slots \subseteq Slot /\ used_slots \subseteq Slot
  /\ block_tables \in [Request -> Seq(Block)]
  /\ context_lengths \in [Request -> Nat \cup {Absent}]
  /\ request_slots \in [Request -> Slot \cup {NoSlot}]
  /\ slot_state \in [Slot -> Request \cup {Clean}]

\* Every block is either on the free stack or in use, never both, and the
\* blocks in use are exactly those of the block tables: allocate_request,
\* append_slot and free_request neither leak a block nor free one twice.
BlocksConserved ==
  /\ free_blocks \cap used_blocks = {}
  /\ free_blocks \cup used_blocks = Block
  /\ used_blocks = UNION {BlocksOf(r) : r \in Request}

\* No physical block appears in two block tables or twice in one: the KV
\* entries of two requests, or of two positions, never share memory.
NoAliasing ==
  \A r1, r2 \in Request :
    \A i \in 1..Len(block_tables[r1]), j \in 1..Len(block_tables[r2]) :
      block_tables[r1][i] = block_tables[r2][j] => r1 = r2 /\ i = j

\* A block table is exactly long enough for the context: the lookup
\* block_table[pos // block_size] never runs off the table, and no block is
\* held that the context does not reach.
TableFitsContext ==
  \A r \in Request :
    IF HasTable(r)
    THEN /\ context_lengths[r] <= Len(block_tables[r]) * BlockSize
         /\ (Len(block_tables[r]) - 1) * BlockSize < context_lengths[r]
    ELSE block_tables[r] = <<>>

\* The slots in use are exactly the slots of requests, one each.  (For a
\* shard without attention layers the code breaks this: see SlotIdempotent.)
SlotsConserved ==
  /\ free_slots \cap used_slots = {}
  /\ free_slots \cup used_slots = Slot
  /\ used_slots = {request_slots[r] : r \in Request} \ {NoSlot}
  /\ \A r1, r2 \in Request :
       request_slots[r1] = request_slots[r2] /\ request_slots[r1] # NoSlot
         => r1 = r2

\* A request never reads the recurrent state another request left in its
\* slot: allocate_request zeroes the slot before handing it out.
NoStateLeak ==
  \A r \in Request :
    request_slots[r] # NoSlot => slot_state[request_slots[r]] \in {Clean, r}

\* A request that already holds its cache keeps the same slot until it is
\* freed: allocating it again returns without re-allocating.
SlotIdempotent ==
  [][\A r \in Request :
       request_slots[r] # NoSlot => request_slots'[r] \in {request_slots[r], NoSlot}]_vars

\* What the executor sees of the cache manager.
PoolState ==
  [free_blocks |-> Cardinality(free_blocks),
   context     |-> context_lengths,
   free_slots  |-> Cardinality(free_slots),
   slotted     |-> {r \in Request : request_slots[r] # NoSlot}]

\* The cache manager implements the counting pool the executor relies on.
Pool == INSTANCE KVPool WITH
  NumBlocks <- Cardinality(Block),
  NumSlots  <- Cardinality(Slot),
  pool      <- PoolState

PoolSpec == Pool!Spec
=============================================================================
