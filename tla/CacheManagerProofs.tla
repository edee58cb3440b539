------------------------- MODULE CacheManagerProofs -------------------------
(***************************************************************************)
(* Proofs, for every set of blocks, slots and requests and every block     *)
(* size, that the cache manager's safety properties are invariants.        *)
(*                                                                         *)
(* The block half and the slot half of the state are touched by different  *)
(* sub-actions, so the inductive invariant has two halves proved apart:    *)
(* BlockInv over block_vars and SlotInv over slot_vars.                    *)
(***************************************************************************)
EXTENDS CacheManager, SequenceTheorems, FiniteSetTheorems, TLAPS

BlockTypeOK ==
  /\ free_blocks \subseteq Block /\ used_blocks \subseteq Block
  /\ block_tables \in [Request -> Seq(Block)]
  /\ context_lengths \in [Request -> Nat \cup {Absent}]

BlockInv == BlockTypeOK /\ BlocksConserved /\ NoAliasing /\ TableFitsContext

SlotTypeOK ==
  /\ free_slots \subseteq Slot /\ used_slots \subseteq Slot
  /\ request_slots \in [Request -> Slot \cup {NoSlot}]
  /\ slot_state \in [Slot -> Request \cup {Clean}]

\* What holds of the slots for every kind of shard.
SlotInv ==
  /\ SlotTypeOK
  /\ free_slots \cap used_slots = {} /\ free_slots \cup used_slots = Slot
  /\ \A r \in Request : request_slots[r] # NoSlot => request_slots[r] \in used_slots
  /\ \A r1, r2 \in Request :
       request_slots[r1] = request_slots[r2] /\ request_slots[r1] # NoSlot => r1 = r2
  /\ NoStateLeak

\* No slot in use is without an owner.
SlotsOwned == \A s \in used_slots : \E r \in Request : request_slots[r] = s

\* In a shard that needs both, a request has a table when it has a slot.
TableWithSlot == \A r \in Request : request_slots[r] # NoSlot => HasTable(r)

\* The inductive invariant.
Inv ==
  /\ BlockInv
  /\ SlotInv
  /\ NeedsBlocks => SlotsOwned /\ TableWithSlot
-----------------------------------------------------------------------------
(* BlocksFor is the ceiling of n / BlockSize.                              *)
LEMMA BlocksForBounds ==
  ASSUME NEW n \in Nat
  PROVE  /\ BlocksFor(n) \in Nat
         /\ n <= BlocksFor(n) * BlockSize
         /\ (BlocksFor(n) - 1) * BlockSize < n
  BY BlockSizeAssumption DEF BlocksFor

(* What BlockAllocator.allocate returns: a list of distinct free blocks.   *)
LEMMA PicksAreLists ==
  ASSUME BlockTypeOK, NEW n \in Nat, NEW bs \in Picks(n)
  PROVE  /\ bs \in Seq(Block) /\ Len(bs) = n
         /\ \A i \in 1..n : bs[i] \in free_blocks
         /\ \A i, j \in 1..n : bs[i] = bs[j] => i = j
<1>1. bs \in [1..n -> free_blocks] /\ \A i, j \in 1..n : bs[i] = bs[j] => i = j
  BY DEF Picks
<1>2. bs \in [1..n -> Block]
  BY <1>1 DEF BlockTypeOK
<1>3. bs \in Seq(Block)
  BY <1>2, SeqDef
<1>4. Len(bs) = n
  BY <1>2, <1>3, LenProperties
<1> QED BY <1>1, <1>3, <1>4

LEMMA TakeBlocksInv ==
  ASSUME BlockInv, NEW r \in Request, NEW n \in Lengths,
         ~HasTable(r), TakeBlocks(r, n)
  PROVE  BlockInv'
<1>1. n \in Nat /\ BlocksFor(n) \in Nat
  BY LengthsAssumption, BlocksForBounds
<1>2. PICK bs \in Picks(BlocksFor(n)) :
        /\ free_blocks' = free_blocks \ {bs[i] : i \in 1..BlocksFor(n)}
        /\ used_blocks' = used_blocks \cup {bs[i] : i \in 1..BlocksFor(n)}
        /\ block_tables' = [block_tables EXCEPT ![r] = bs]
        /\ context_lengths' = [context_lengths EXCEPT ![r] = n]
  BY DEF TakeBlocks
<1>3. /\ bs \in Seq(Block) /\ Len(bs) = BlocksFor(n)
      /\ \A i \in 1..BlocksFor(n) : bs[i] \in free_blocks
      /\ \A i, j \in 1..BlocksFor(n) : bs[i] = bs[j] => i = j
  BY <1>1, PicksAreLists DEF BlockInv
<1>4. block_tables[r] = <<>>
  BY DEF BlockInv, TableFitsContext
<1>5. BlockTypeOK'
  BY <1>1, <1>2, <1>3 DEF BlockInv, BlockTypeOK
<1>6. \A q \in Request : q # r => block_tables'[q] = block_tables[q]
  BY <1>2 DEF BlockInv, BlockTypeOK
<1>7. block_tables'[r] = bs
  BY <1>2 DEF BlockInv, BlockTypeOK
<1>8. BlocksConserved'
  <2>1. BlocksOf(r)' = {bs[i] : i \in 1..BlocksFor(n)} /\ BlocksOf(r) = {}
    BY <1>3, <1>4, <1>7 DEF BlocksOf
  <2>2. \A q \in Request : q # r => BlocksOf(q)' = BlocksOf(q)
    BY <1>6 DEF BlocksOf
  <2>3. used_blocks' = UNION {BlocksOf(q)' : q \in Request}
    BY <1>2, <2>1, <2>2 DEF BlockInv, BlocksConserved
  <2>4. (free_blocks \cap used_blocks)' = {} /\ (free_blocks \cup used_blocks)' = Block
    BY <1>2, <1>3 DEF BlockInv, BlocksConserved, BlockTypeOK
  <2> QED BY <2>3, <2>4 DEF BlocksConserved
<1>9. NoAliasing'
  <2> SUFFICES ASSUME NEW r1 \in Request, NEW r2 \in Request,
                      NEW i \in 1..Len(block_tables'[r1]),
                      NEW j \in 1..Len(block_tables'[r2]),
                      block_tables'[r1][i] = block_tables'[r2][j]
               PROVE  r1 = r2 /\ i = j
    BY DEF NoAliasing
  <2>1. \A q \in Request : \A k \in 1..Len(block_tables[q]) :
           block_tables[q][k] \notin free_blocks
    BY DEF BlockInv, BlocksConserved, BlocksOf
  <2>2. CASE r1 = r /\ r2 = r
    BY <1>3, <1>7, <2>2
  <2>3. CASE r1 = r /\ r2 # r
    BY <1>3, <1>6, <1>7, <2>1, <2>3
  <2>4. CASE r1 # r /\ r2 = r
    BY <1>3, <1>6, <1>7, <2>1, <2>4
  <2>5. CASE r1 # r /\ r2 # r
    BY <1>6, <2>5 DEF BlockInv, NoAliasing
  <2> QED BY <2>2, <2>3, <2>4, <2>5
<1>10. TableFitsContext'
  <2>1. context_lengths'[r] = n /\ n # Absent
    BY <1>1, <1>2 DEF BlockInv, BlockTypeOK, Absent
  <2>2. \A q \in Request : q # r => context_lengths'[q] = context_lengths[q]
    BY <1>2 DEF BlockInv, BlockTypeOK
  <2>3. n <= BlocksFor(n) * BlockSize /\ (BlocksFor(n) - 1) * BlockSize < n
    BY <1>1, BlocksForBounds
  <2> QED BY <1>3, <1>6, <1>7, <2>1, <2>2, <2>3
          DEF BlockInv, TableFitsContext, HasTable
<1> QED BY <1>5, <1>8, <1>9, <1>10 DEF BlockInv

LEMMA ReleaseBlocksInv ==
  ASSUME BlockInv, NEW r \in Request, ReleaseBlocks(r)
  PROVE  BlockInv'
<1>1. BlocksOf(r) \subseteq used_blocks
  BY DEF BlockInv, BlocksConserved
<1>2. /\ free_blocks' = free_blocks \cup BlocksOf(r)
      /\ used_blocks' = used_blocks \ BlocksOf(r)
      /\ block_tables' = [block_tables EXCEPT ![r] = <<>>]
      /\ context_lengths' = [context_lengths EXCEPT ![r] = Absent]
  BY <1>1 DEF ReleaseBlocks
<1>3. BlockTypeOK'
  BY <1>1, <1>2 DEF BlockInv, BlockTypeOK
<1>4. /\ \A q \in Request : q # r => block_tables'[q] = block_tables[q]
      /\ block_tables'[r] = <<>>
  BY <1>2 DEF BlockInv, BlockTypeOK
<1>5. BlocksConserved'
  <2>1. BlocksOf(r)' = {}
    BY <1>4 DEF BlocksOf
  <2>2. \A q \in Request : q # r => BlocksOf(q)' = BlocksOf(q)
    BY <1>4 DEF BlocksOf
  <2>3. \A q \in Request : q # r => BlocksOf(q) \cap BlocksOf(r) = {}
    BY DEF BlockInv, NoAliasing, BlocksOf
  <2>4. used_blocks' = UNION {BlocksOf(q)' : q \in Request}
    BY <1>2, <2>1, <2>2, <2>3 DEF BlockInv, BlocksConserved
  <2>5. (free_blocks \cap used_blocks)' = {} /\ (free_blocks \cup used_blocks)' = Block
    BY <1>1, <1>2 DEF BlockInv, BlocksConserved, BlockTypeOK
  <2> QED BY <2>4, <2>5 DEF BlocksConserved
<1>6. NoAliasing'
  BY <1>4 DEF BlockInv, NoAliasing
<1>7. TableFitsContext'
  <2>1. context_lengths'[r] = Absent
    BY <1>2 DEF BlockInv, BlockTypeOK
  <2>2. \A q \in Request : q # r => context_lengths'[q] = context_lengths[q]
    BY <1>2 DEF BlockInv, BlockTypeOK
  <2> QED BY <1>4, <2>1, <2>2 DEF BlockInv, TableFitsContext, HasTable
<1> QED BY <1>3, <1>5, <1>6, <1>7 DEF BlockInv

(* A context that fills its blocks exactly is a multiple of the block size,*)
(* and conversely: where append_slot takes a block.                        *)
LEMMA BoundaryArithmetic ==
  ASSUME NEW k \in Nat, NEW c \in Nat,
         c <= k * BlockSize, (k - 1) * BlockSize < c
  PROVE  /\ c % BlockSize = 0 => c = k * BlockSize
         /\ c % BlockSize # 0 => c + 1 <= k * BlockSize
<1> DEFINE q == c \div BlockSize
           m == c % BlockSize
           B == BlockSize
<1>1. B \in Nat /\ B > 0 /\ q \in Nat /\ m \in 0..(B - 1) /\ c = B * q + m
  BY BlockSizeAssumption
<1> HIDE DEF q, m, B
<1>2. c <= k * B /\ (k - 1) * B < c
  BY DEF B
<1>3. q >= k => B * q >= k * B
  BY <1>1
<1>4. q <= k - 1 => B * q <= (k - 1) * B
  BY <1>1
<1>5. q < k \/ q >= k
  BY <1>1
<1>6. (k - 1) * B = k * B - B
  BY <1>1
<1>7. m = 0 => c = k * B
  BY <1>1, <1>2, <1>3, <1>4, <1>5
<1>8. m # 0 => c + 1 <= k * B
  BY <1>1, <1>2, <1>3, <1>4, <1>5, <1>6
<1> QED BY <1>7, <1>8 DEF m, B

LEMMA AppendSlotInv ==
  ASSUME BlockInv, NEW r \in Request, AppendSlot(r)
  PROVE  BlockInv'
<1> DEFINE c == context_lengths[r]
           k == Len(block_tables[r])
<1>1. /\ c \in Nat /\ k \in Nat /\ block_tables[r] \in Seq(Block)
      /\ c <= k * BlockSize /\ (k - 1) * BlockSize < c
  BY DEF BlockInv, BlockTypeOK, TableFitsContext, AppendSlot, HasTable
<1>2. /\ c % BlockSize = 0 => c = k * BlockSize
      /\ c % BlockSize # 0 => c + 1 <= k * BlockSize
  BY <1>1, BoundaryArithmetic
<1>3. /\ context_lengths' = [context_lengths EXCEPT ![r] = c + 1]
      /\ context_lengths'[r] = c + 1
      /\ \A q \in Request : q # r => context_lengths'[q] = context_lengths[q]
  BY DEF AppendSlot, BlockInv, BlockTypeOK
<1>4. context_lengths' \in [Request -> Nat \cup {Absent}]
  BY <1>1, <1>3 DEF BlockInv, BlockTypeOK
<1>5. CASE c % BlockSize # 0 /\ UNCHANGED <<free_blocks, used_blocks, block_tables>>
  <2>1. BlockTypeOK' /\ BlocksConserved' /\ NoAliasing'
    BY <1>4, <1>5 DEF BlockInv, BlockTypeOK, BlocksConserved, NoAliasing, BlocksOf
  <2>2. TableFitsContext'
    <3>1. c + 1 <= k * BlockSize /\ (k - 1) * BlockSize < c + 1 /\ c + 1 # Absent
      BY <1>1, <1>2, <1>5, BlockSizeAssumption DEF Absent
    <3> QED BY <1>3, <1>5, <3>1 DEF BlockInv, TableFitsContext, HasTable
  <2> QED BY <2>1, <2>2 DEF BlockInv
<1>6. ASSUME NEW b \in free_blocks, c % BlockSize = 0,
             free_blocks' = free_blocks \ {b},
             used_blocks' = used_blocks \cup {b},
             block_tables' = [block_tables EXCEPT ![r] = Append(@, b)]
      PROVE  BlockInv'
  <2>1. /\ b \in Block
        /\ block_tables'[r] = Append(block_tables[r], b)
        /\ \A q \in Request : q # r => block_tables'[q] = block_tables[q]
    BY <1>6 DEF BlockInv, BlockTypeOK
  <2>2. /\ Append(block_tables[r], b) \in Seq(Block)
        /\ Len(Append(block_tables[r], b)) = k + 1
        /\ \A i \in 1..k : Append(block_tables[r], b)[i] = block_tables[r][i]
        /\ Append(block_tables[r], b)[k + 1] = b
    BY <1>1, <2>1, AppendProperties
  <2>3. BlockTypeOK'
    BY <1>4, <1>6, <2>1, <2>2 DEF BlockInv, BlockTypeOK
  <2>4. BlocksConserved'
    <3>1. BlocksOf(r)' = BlocksOf(r) \cup {b}
      BY <1>1, <2>1, <2>2 DEF BlocksOf
    <3>2. \A q \in Request : q # r => BlocksOf(q)' = BlocksOf(q)
      BY <2>1 DEF BlocksOf
    <3>3. used_blocks' = UNION {BlocksOf(q)' : q \in Request}
      BY <1>6, <3>1, <3>2 DEF BlockInv, BlocksConserved
    <3>4. (free_blocks \cap used_blocks)' = {} /\ (free_blocks \cup used_blocks)' = Block
      BY <1>6 DEF BlockInv, BlocksConserved
    <3> QED BY <3>3, <3>4 DEF BlocksConserved
  <2>5. NoAliasing'
    <3>1. \A q \in Request : \A i \in 1..Len(block_tables[q]) :
             block_tables[q][i] # b
      BY <1>6 DEF BlockInv, BlocksConserved, BlocksOf
    <3>2. \A q \in Request : \A i \in 1..Len(block_tables'[q]) :
             \/ q = r /\ i = k + 1 /\ block_tables'[q][i] = b
             \/ i \in 1..Len(block_tables[q]) /\ block_tables'[q][i] = block_tables[q][i]
      <4> SUFFICES ASSUME NEW q \in Request, NEW i \in 1..Len(block_tables'[q])
                   PROVE  \/ q = r /\ i = k + 1 /\ block_tables'[q][i] = b
                          \/ /\ i \in 1..Len(block_tables[q])
                             /\ block_tables'[q][i] = block_tables[q][i]
        OBVIOUS
      <4>1. CASE q # r
        BY <2>1, <4>1
      <4>2. CASE q = r
        <5>1. i \in 1..k \/ i = k + 1
          BY <1>1, <2>1, <2>2, <4>2
        <5> QED BY <2>1, <2>2, <4>2, <5>1
      <4> QED BY <4>1, <4>2
    <3> HIDE DEF k
    <3> SUFFICES ASSUME NEW r1 \in Request, NEW r2 \in Request,
                        NEW i \in 1..Len(block_tables'[r1]),
                        NEW j \in 1..Len(block_tables'[r2]),
                        block_tables'[r1][i] = block_tables'[r2][j]
                 PROVE  r1 = r2 /\ i = j
      BY DEF NoAliasing
    <3> QED BY <3>1, <3>2 DEF BlockInv, NoAliasing
  <2>6. TableFitsContext'
    <3>1. c + 1 <= (k + 1) * BlockSize /\ (k + 1 - 1) * BlockSize < c + 1 /\ c + 1 # Absent
      BY <1>1, <1>2, <1>6, BlockSizeAssumption DEF Absent
    <3> QED BY <1>3, <2>1, <2>2, <3>1 DEF BlockInv, TableFitsContext, HasTable
  <2> QED BY <2>3, <2>4, <2>5, <2>6 DEF BlockInv
<1> QED BY <1>5, <1>6 DEF AppendSlot

LEMMA TakeSlotInv ==
  ASSUME SlotInv, NEW r \in Request, TakeSlot(r)
  PROVE  /\ SlotInv'
         /\ SlotsOwned /\ request_slots[r] = NoSlot => SlotsOwned'
         /\ \A q \in Request : q # r => request_slots'[q] = request_slots[q]
<1>1. PICK s \in free_slots :
        /\ free_slots' = free_slots \ {s}
        /\ used_slots' = used_slots \cup {s}
        /\ request_slots' = [request_slots EXCEPT ![r] = s]
        /\ slot_state' = [slot_state EXCEPT ![s] = Clean]
  BY DEF TakeSlot
<1>2. s \in Slot /\ s \notin used_slots /\ s # NoSlot
  BY SlotAssumption DEF SlotInv, SlotTypeOK
<1>3. /\ request_slots'[r] = s
      /\ \A q \in Request : q # r => request_slots'[q] = request_slots[q]
  BY <1>1 DEF SlotInv, SlotTypeOK
<1>4. /\ slot_state'[s] = Clean
      /\ \A t \in Slot : t # s => slot_state'[t] = slot_state[t]
  BY <1>1, <1>2 DEF SlotInv, SlotTypeOK
<1>5. SlotTypeOK'
  BY <1>1, <1>2 DEF SlotInv, SlotTypeOK
<1>6. (free_slots \cap used_slots)' = {} /\ (free_slots \cup used_slots)' = Slot
  BY <1>1, <1>2 DEF SlotInv
<1>7. \A q \in Request : request_slots'[q] # NoSlot => request_slots'[q] \in used_slots'
  BY <1>1, <1>3 DEF SlotInv
<1>8. \A r1, r2 \in Request :
        request_slots'[r1] = request_slots'[r2] /\ request_slots'[r1] # NoSlot => r1 = r2
  BY <1>2, <1>3 DEF SlotInv
<1>9. NoStateLeak'
  <2> SUFFICES ASSUME NEW q \in Request, request_slots'[q] # NoSlot
               PROVE  slot_state'[request_slots'[q]] \in {Clean, q}
    BY DEF NoStateLeak
  <2>1. CASE q = r
    BY <1>3, <1>4, <2>1
  <2>2. CASE q # r
    <3>1. request_slots'[q] \in used_slots /\ request_slots'[q] \in Slot
      BY <1>3, <2>2 DEF SlotInv, SlotTypeOK
    <3> QED BY <1>2, <1>3, <1>4, <2>2, <3>1 DEF SlotInv, NoStateLeak
  <2> QED BY <2>1, <2>2
<1>10. SlotsOwned /\ request_slots[r] = NoSlot => SlotsOwned'
  <2> SUFFICES ASSUME SlotsOwned, request_slots[r] = NoSlot, NEW t \in used_slots'
               PROVE  \E q \in Request : request_slots'[q] = t
    BY DEF SlotsOwned
  <2>1. CASE t = s
    BY <1>3, <2>1
  <2>2. CASE t # s
    <3>1. PICK q \in Request : request_slots[q] = t
      BY <1>1, <2>2 DEF SlotsOwned
    <3>2. t # NoSlot
      BY <1>1, <2>2, SlotAssumption DEF SlotInv, SlotTypeOK
    <3> QED BY <1>3, <3>1, <3>2
  <2> QED BY <2>1, <2>2
<1> QED BY <1>3, <1>5, <1>6, <1>7, <1>8, <1>9, <1>10 DEF SlotInv

LEMMA ReleaseSlotInv ==
  ASSUME SlotInv, NEW r \in Request, request_slots[r] # NoSlot, ReleaseSlot(r)
  PROVE  /\ SlotInv'
         /\ SlotsOwned => SlotsOwned'
         /\ request_slots'[r] = NoSlot
         /\ \A q \in Request : q # r => request_slots'[q] = request_slots[q]
<1> DEFINE s == request_slots[r]
<1>1. s \in used_slots /\ s \in Slot
  BY DEF SlotInv, SlotTypeOK
<1>2. /\ free_slots' = free_slots \cup {s}
      /\ used_slots' = used_slots \ {s}
      /\ request_slots' = [request_slots EXCEPT ![r] = NoSlot]
      /\ slot_state' = slot_state
  BY <1>1 DEF ReleaseSlot
<1>3. /\ request_slots'[r] = NoSlot
      /\ \A q \in Request : q # r => request_slots'[q] = request_slots[q]
  BY <1>2 DEF SlotInv, SlotTypeOK
<1>4. SlotTypeOK'
  BY <1>1, <1>2 DEF SlotInv, SlotTypeOK
<1>5. (free_slots \cap used_slots)' = {} /\ (free_slots \cup used_slots)' = Slot
  BY <1>1, <1>2 DEF SlotInv
<1>6. \A q \in Request : request_slots'[q] # NoSlot => request_slots'[q] \in used_slots'
  BY <1>2, <1>3 DEF SlotInv
<1>7. \A r1, r2 \in Request :
        request_slots'[r1] = request_slots'[r2] /\ request_slots'[r1] # NoSlot => r1 = r2
  BY <1>3 DEF SlotInv
<1>8. NoStateLeak'
  BY <1>2, <1>3 DEF SlotInv, NoStateLeak
<1>9. SlotsOwned => SlotsOwned'
  BY <1>2, <1>3 DEF SlotsOwned
<1> QED BY <1>3, <1>4, <1>5, <1>6, <1>7, <1>8, <1>9 DEF SlotInv

LEMMA WriteStateInv ==
  ASSUME SlotInv, NEW r \in Request, WriteState(r)
  PROVE  SlotInv' /\ (SlotsOwned => SlotsOwned')
<1>1. slot_state' \in [Slot -> Request \cup {Clean}]
  BY DEF WriteState, SlotInv, SlotTypeOK
<1>2. NoStateLeak'
  BY DEF WriteState, SlotInv, SlotTypeOK, NoStateLeak
<1> QED BY <1>1, <1>2 DEF WriteState, SlotInv, SlotTypeOK, SlotsOwned
-----------------------------------------------------------------------------
LEMMA InitInv == Init => Inv
<1> SUFFICES ASSUME Init PROVE Inv
  OBVIOUS
<1>1. BlockTypeOK /\ NoAliasing /\ TableFitsContext
  BY DEF Init, BlockTypeOK, NoAliasing, TableFitsContext, HasTable, Absent
<1>2. BlocksConserved
  BY DEF Init, BlocksConserved, BlocksOf
<1>3. SlotInv /\ SlotsOwned /\ TableWithSlot
  BY SlotAssumption DEF Init, SlotInv, SlotTypeOK, NoStateLeak, SlotsOwned, TableWithSlot
<1> QED BY <1>1, <1>2, <1>3 DEF Inv, BlockInv

LEMMA UnchangedBlocks ==
  ASSUME UNCHANGED block_vars
  PROVE  /\ BlockInv => BlockInv'
         /\ \A r \in Request : HasTable(r)' = HasTable(r)
  BY DEF block_vars, BlockInv, BlockTypeOK, BlocksConserved, NoAliasing,
         TableFitsContext, HasTable, BlocksOf

LEMMA UnchangedSlots ==
  ASSUME UNCHANGED slot_vars
  PROVE  /\ SlotInv => SlotInv'
         /\ SlotsOwned => SlotsOwned'
         /\ request_slots' = request_slots
  BY DEF slot_vars, SlotInv, SlotTypeOK, NoStateLeak, SlotsOwned

LEMMA StepInv == Inv /\ [Next]_vars => Inv'
<1> SUFFICES ASSUME Inv, [Next]_vars PROVE Inv'
  OBVIOUS
<1> USE DEF Inv
<1>1. ASSUME NEW r \in Request, NEW n \in Lengths, AllocateRequest(r, n)
      PROVE  Inv'
  <2>1. ~HasTable(r)
    BY <1>1 DEF AllocateRequest
  <2>2. BlockInv'
    <3>1. CASE NeedsBlocks
      BY <1>1, <2>1, <3>1, TakeBlocksInv DEF AllocateRequest
    <3>2. CASE ~NeedsBlocks
      BY <1>1, <3>2, UnchangedBlocks DEF AllocateRequest
    <3> QED BY <3>1, <3>2
  <2>3. SlotInv'
    <3>1. CASE NeedsSlots
      BY <1>1, <3>1, TakeSlotInv DEF AllocateRequest
    <3>2. CASE ~NeedsSlots
      BY <1>1, <3>2, UnchangedSlots DEF AllocateRequest
    <3> QED BY <3>1, <3>2
  <2>4. ASSUME NeedsBlocks PROVE SlotsOwned' /\ TableWithSlot'
    <3>1. request_slots[r] = NoSlot
      BY <2>1, <2>4 DEF TableWithSlot
    <3>2. SlotsOwned' /\ (\A q \in Request : q # r => request_slots'[q] = request_slots[q])
      <4>1. CASE NeedsSlots
        BY <1>1, <2>4, <3>1, <4>1, TakeSlotInv DEF AllocateRequest
      <4>2. CASE ~NeedsSlots
        BY <1>1, <2>4, <4>2, UnchangedSlots DEF AllocateRequest
      <4> QED BY <4>1, <4>2
    <3>3. TakeBlocks(r, n)
      BY <1>1, <2>4 DEF AllocateRequest
    <3>4. /\ context_lengths'[r] # Absent
          /\ \A q \in Request : q # r => context_lengths'[q] = context_lengths[q]
      BY <3>3, LengthsAssumption DEF TakeBlocks, BlockInv, BlockTypeOK, Absent
    <3> QED BY <2>4, <3>2, <3>4 DEF TableWithSlot, HasTable
  <2> QED BY <2>2, <2>3, <2>4
<1>2. ASSUME NEW r \in Request, FreeRequest(r)
      PROVE  Inv'
  <2>1. BlockInv'
    <3>1. CASE HasTable(r)
      BY <1>2, <3>1, ReleaseBlocksInv DEF FreeRequest
    <3>2. CASE ~HasTable(r)
      BY <1>2, <3>2, UnchangedBlocks DEF FreeRequest
    <3> QED BY <3>1, <3>2
  <2>2. /\ SlotInv'
        /\ SlotsOwned => SlotsOwned'
        /\ request_slots'[r] = NoSlot
        /\ \A q \in Request : q # r => request_slots'[q] = request_slots[q]
    <3>1. CASE request_slots[r] # NoSlot
      BY <1>2, <3>1, ReleaseSlotInv DEF FreeRequest
    <3>2. CASE request_slots[r] = NoSlot
      BY <1>2, <3>2, UnchangedSlots DEF FreeRequest
    <3> QED BY <3>1, <3>2
  <2>3. \A q \in Request : q # r => context_lengths'[q] = context_lengths[q]
    BY <1>2 DEF FreeRequest, ReleaseBlocks, block_vars, BlockInv, BlockTypeOK
  <2>4. TableWithSlot => TableWithSlot'
    BY <2>2, <2>3 DEF TableWithSlot, HasTable
  <2> QED BY <2>1, <2>2, <2>4
<1>3. ASSUME NEW r \in Request, AppendSlot(r)
      PROVE  Inv'
  <2>1. BlockInv'
    BY <1>3, AppendSlotInv
  <2>2. /\ SlotInv' /\ (SlotsOwned => SlotsOwned')
        /\ request_slots' = request_slots
    BY <1>3, UnchangedSlots DEF AppendSlot
  <2>3. /\ context_lengths'[r] # Absent
        /\ \A q \in Request : q # r => context_lengths'[q] = context_lengths[q]
    BY <1>3 DEF AppendSlot, HasTable, BlockInv, BlockTypeOK, Absent
  <2>4. TableWithSlot => TableWithSlot'
    BY <2>2, <2>3 DEF TableWithSlot, HasTable
  <2> QED BY <2>1, <2>2, <2>4
<1>4. ASSUME NEW r \in Request, WriteState(r)
      PROVE  Inv'
  <2>1. BlockInv' /\ \A q \in Request : HasTable(q)' = HasTable(q)
    BY <1>4, UnchangedBlocks DEF WriteState
  <2>2. SlotInv' /\ (SlotsOwned => SlotsOwned') /\ request_slots' = request_slots
    BY <1>4, WriteStateInv DEF WriteState
  <2>3. TableWithSlot => TableWithSlot'
    BY <2>1, <2>2 DEF TableWithSlot
  <2> QED BY <2>1, <2>2, <2>3
<1>5. ASSUME UNCHANGED vars
      PROVE  Inv'
  <2>1. UNCHANGED block_vars /\ UNCHANGED slot_vars
    BY <1>5 DEF vars, block_vars, slot_vars
  <2>2. TableWithSlot => TableWithSlot'
    BY <2>1 DEF TableWithSlot, HasTable, block_vars, slot_vars
  <2> QED BY <2>1, <2>2, UnchangedBlocks, UnchangedSlots
<1> QED
  BY <1>1, <1>2, <1>3, <1>4, <1>5 DEF Next, RefuseRequest

(* Inv is an invariant of the cache manager.                               *)
THEOREM CacheInv == Spec => []Inv
  BY InitInv, StepInv, PTL DEF Spec

(* Every variable of the cache manager keeps its type.                     *)
THEOREM TypeCorrect == Spec => []TypeOK
<1>1. Inv => TypeOK
  BY DEF Inv, BlockInv, BlockTypeOK, SlotInv, SlotTypeOK, TypeOK
<1> QED BY <1>1, CacheInv, PTL

(* No block is leaked, freed twice or given to two owners, whatever the    *)
(* order in which requests are allocated, grown and released.              *)
THEOREM BlockConservation == Spec => []BlocksConserved
<1>1. Inv => BlocksConserved
  BY DEF Inv, BlockInv
<1> QED BY <1>1, CacheInv, PTL

(* No two cache positions share a physical block.                          *)
THEOREM NoBlockAliasing == Spec => []NoAliasing
<1>1. Inv => NoAliasing
  BY DEF Inv, BlockInv
<1> QED BY <1>1, CacheInv, PTL

(* The block table always covers the context, and no more, for every block *)
(* size.                                                                   *)
THEOREM TablesFit == Spec => []TableFitsContext
<1>1. Inv => TableFitsContext
  BY DEF Inv, BlockInv
<1> QED BY <1>1, CacheInv, PTL

(* No request reads another request's recurrent state.                     *)
THEOREM StateIsolation == Spec => []NoStateLeak
<1>1. Inv => NoStateLeak
  BY DEF Inv, SlotInv
<1> QED BY <1>1, CacheInv, PTL

(* Slots are conserved in every shard that has an attention layer.         *)
THEOREM SlotConservation ==
  ASSUME NeedsBlocks
  PROVE  Spec => []SlotsConserved
<1>1. Inv => SlotsConserved
  BY SlotAssumption DEF Inv, SlotInv, SlotTypeOK, SlotsOwned, SlotsConserved
<1> QED BY <1>1, CacheInv, PTL
-----------------------------------------------------------------------------
(* A request that holds its cache keeps its slot until it is freed, in a   *)
(* shard with an attention layer: allocate_request recognises it by its    *)
(* block table, which comes and goes with the slot.                        *)
THEOREM SlotsAreKept ==
  ASSUME NeedsBlocks
  PROVE  Spec => SlotIdempotent
<1>1. Inv /\ [Next]_vars =>
        [\A r \in Request :
           request_slots[r] # NoSlot => request_slots'[r] \in {request_slots[r], NoSlot}]_vars
  <2> SUFFICES ASSUME Inv, [Next]_vars, NEW r \in Request, request_slots[r] # NoSlot
               PROVE  request_slots'[r] \in {request_slots[r], NoSlot}
    OBVIOUS
  <2> USE DEF Inv
  <2>1. ASSUME NEW q \in Request, NEW n \in Lengths, AllocateRequest(q, n)
        PROVE  request_slots'[r] = request_slots[r]
    <3>1. q # r
      BY <2>1 DEF AllocateRequest, TableWithSlot
    <3> QED BY <2>1, <3>1, TakeSlotInv, UnchangedSlots DEF AllocateRequest
  <2>2. ASSUME NEW q \in Request, FreeRequest(q)
        PROVE  request_slots'[r] \in {request_slots[r], NoSlot}
    BY <2>2, ReleaseSlotInv, UnchangedSlots DEF FreeRequest
  <2>3. ASSUME NEW q \in Request, AppendSlot(q) \/ WriteState(q)
        PROVE  request_slots' = request_slots
    BY <2>3 DEF AppendSlot, WriteState, slot_vars
  <2> QED BY <2>1, <2>2, <2>3 DEF Next, RefuseRequest, vars
<1> QED BY <1>1, CacheInv, PTL DEF Spec, SlotIdempotent

-----------------------------------------------------------------------------
(* The refinement of the counting pool.                                    *)

\* A shard without attention layers keeps no tables.
NoTables == ~NeedsBlocks => \A r \in Request : ~HasTable(r)

LEMMA NoTablesInv == Spec => []NoTables
<1>1. Init => NoTables
  BY DEF Init, NoTables, HasTable
<1>2. Inv /\ NoTables /\ [Next]_vars => NoTables'
  <2> SUFFICES ASSUME Inv, NoTables, [Next]_vars, ~NeedsBlocks, NEW r \in Request
               PROVE  ~HasTable(r)'
    BY DEF NoTables
  <2>1. ~HasTable(r)
    BY DEF NoTables
  <2>2. CASE context_lengths' = context_lengths
    BY <2>1, <2>2 DEF HasTable
  <2>3. ASSUME NEW q \in Request, FreeRequest(q) \/ AppendSlot(q)
        PROVE  context_lengths' = context_lengths
    <3>1. ~HasTable(q)
      BY DEF NoTables
    <3> QED BY <2>3, <3>1 DEF FreeRequest, AppendSlot, block_vars
  <2> QED BY <2>2, <2>3 DEF Next, AllocateRequest, RefuseRequest, WriteState, block_vars, vars
<1> QED BY <1>1, <1>2, CacheInv, PTL DEF Spec

(* A list of n distinct things names n things.                             *)
LEMMA ImageSize ==
  ASSUME NEW n \in Nat, NEW S, NEW f \in [1..n -> S],
         \A i, j \in 1..n : f[i] = f[j] => i = j,
         NEW T, \A x : x \in T <=> \E i \in 1..n : x = f[i]
  PROVE  IsFiniteSet(T) /\ Cardinality(T) = n
<1>1. f \in Surjection(1..n, T) /\ f \in Injection(1..n, T)
  BY DEF Surjection, Injection, IsInjective
<1>2. IsFiniteSet(1..n) /\ Cardinality(1..n) = n
  BY FS_Interval
<1> QED BY <1>1, <1>2, FS_Surjection

(* The blocks that a context holds are as many as BlocksFor says.          *)
LEMMA CeilingIsUnique ==
  ASSUME NEW k \in Nat, NEW c \in Nat, c <= k * BlockSize, (k - 1) * BlockSize < c
  PROVE  k = BlocksFor(c)
<1> DEFINE B == BlockSize
           j == BlocksFor(c)
<1>1. B \in Nat /\ B > 0 /\ j \in Nat /\ c <= j * B /\ (j - 1) * B < c
  BY BlockSizeAssumption, BlocksForBounds
<1>2. c <= k * B /\ (k - 1) * B < c
  OBVIOUS
<1> HIDE DEF B, j
<1>3. k <= j - 1 => k * B <= (j - 1) * B
  BY <1>1
<1>4. j <= k - 1 => j * B <= (k - 1) * B
  BY <1>1
<1>5. k * B \in Int /\ j * B \in Int /\ (k - 1) * B \in Int /\ (j - 1) * B \in Int
  BY <1>1
<1>6. ~(k <= j - 1) /\ ~(j <= k - 1)
  BY <1>1, <1>2, <1>3, <1>4, <1>5
<1> QED BY <1>1, <1>6 DEF j

LEMMA BlocksOfSize ==
  ASSUME BlockInv, NEW r \in Request, HasTable(r)
  PROVE  /\ context_lengths[r] \in Nat
         /\ IsFiniteSet(BlocksOf(r)) /\ Cardinality(BlocksOf(r)) = BlocksFor(context_lengths[r])
<1> DEFINE c == context_lengths[r]
           k == Len(block_tables[r])
<1>1. /\ c \in Nat /\ k \in Nat /\ block_tables[r] \in [1..k -> Block]
      /\ c <= k * BlockSize /\ (k - 1) * BlockSize < c
  BY LenProperties DEF BlockInv, BlockTypeOK, TableFitsContext, HasTable
<1>2. k = BlocksFor(c)
  BY <1>1, CeilingIsUnique
<1>3. \A i, j \in 1..k : block_tables[r][i] = block_tables[r][j] => i = j
  BY DEF BlockInv, NoAliasing
<1>4. IsFiniteSet(BlocksOf(r)) /\ Cardinality(BlocksOf(r)) = k
  <2>1. PICK f : f = block_tables[r]
    OBVIOUS
  <2>2. \A x : x \in BlocksOf(r) <=> \E i \in 1..k : x = f[i]
    BY <2>1 DEF BlocksOf
  <2>3. f \in [1..k -> Block] /\ \A i, j \in 1..k : f[i] = f[j] => i = j
    BY <1>1, <1>3, <2>1
  <2> HIDE DEF k
  <2> QED BY <1>1, <2>2, <2>3, ImageSize
<1> QED BY <1>1, <1>2, <1>4

Slotted == {r \in Request : request_slots[r] # NoSlot}

(* What each allocator call does to the number of free indices.            *)
LEMMA TakeBlocksCount ==
  ASSUME BlockInv, NEW r \in Request, NEW n \in Lengths, TakeBlocks(r, n)
  PROVE  /\ BlocksFor(n) \in Nat /\ Cardinality(free_blocks) \in Nat
         /\ Cardinality(free_blocks) >= BlocksFor(n)
         /\ Cardinality(free_blocks') = Cardinality(free_blocks) - BlocksFor(n)
         /\ context_lengths' = [context_lengths EXCEPT ![r] = n]
<1>1. n \in Nat /\ BlocksFor(n) \in Nat
  BY LengthsAssumption, BlocksForBounds
<1>2. PICK k \in Nat : k = BlocksFor(n)
  BY <1>1
<1>3. PICK bs \in Picks(k) :
        /\ free_blocks' = free_blocks \ {bs[i] : i \in 1..k}
        /\ context_lengths' = [context_lengths EXCEPT ![r] = n]
  BY <1>2 DEF TakeBlocks
<1>4. bs \in [1..k -> free_blocks] /\ \A i, j \in 1..k : bs[i] = bs[j] => i = j
  BY DEF Picks
<1> DEFINE T == {bs[i] : i \in 1..k}
<1>5. IsFiniteSet(T) /\ Cardinality(T) = k
  <2>1. \A x : x \in T <=> \E i \in 1..k : x = bs[i]
    OBVIOUS
  <2> HIDE DEF T
  <2> QED BY <1>4, <2>1, ImageSize
<1>6. T \subseteq free_blocks
  BY <1>4
<1>7. free_blocks' = free_blocks \ T
  BY <1>3
<1> HIDE DEF T
<1>8. IsFiniteSet(free_blocks) /\ Cardinality(free_blocks) \in Nat
  BY FiniteAssumption, FS_Subset, FS_CardinalityType DEF BlockInv, BlockTypeOK
<1>9. Cardinality(T) <= Cardinality(free_blocks)
  BY <1>6, <1>8, FS_Subset
<1>10. free_blocks \cap T = T
  BY <1>6
<1>11. Cardinality(free_blocks \ T) = Cardinality(free_blocks) - Cardinality(T)
  BY <1>8, <1>10, FS_Difference
<1> QED BY <1>2, <1>3, <1>5, <1>7, <1>8, <1>9, <1>11

LEMMA ReleaseBlocksCount ==
  ASSUME BlockInv, NEW r \in Request, HasTable(r), ReleaseBlocks(r)
  PROVE  /\ Cardinality(free_blocks') = Cardinality(free_blocks) + BlocksFor(context_lengths[r])
         /\ context_lengths' = [context_lengths EXCEPT ![r] = Absent]
<1>1. BlocksOf(r) \subseteq used_blocks /\ free_blocks \cap BlocksOf(r) = {}
  BY DEF BlockInv, BlocksConserved
<1>2. free_blocks' = free_blocks \cup BlocksOf(r)
  BY <1>1 DEF ReleaseBlocks
<1>3. IsFiniteSet(free_blocks) /\ Cardinality(free_blocks) \in Nat
  BY FiniteAssumption, FS_Subset, FS_CardinalityType DEF BlockInv, BlockTypeOK
<1>4. /\ IsFiniteSet(BlocksOf(r)) /\ Cardinality(BlocksOf(r)) = BlocksFor(context_lengths[r])
      /\ BlocksFor(context_lengths[r]) \in Nat
  BY BlocksOfSize, BlocksForBounds
<1>5. Cardinality(free_blocks \cup BlocksOf(r)) = Cardinality(free_blocks) + Cardinality(BlocksOf(r)) - 0
  BY <1>1, <1>3, <1>4, FS_Union, FS_EmptySet
<1>6. Cardinality(free_blocks') = Cardinality(free_blocks) + BlocksFor(context_lengths[r])
  BY <1>2, <1>3, <1>4, <1>5
<1> QED BY <1>6 DEF ReleaseBlocks

LEMMA TakeSlotCount ==
  ASSUME SlotInv, NEW r \in Request, TakeSlot(r)
  PROVE  /\ Cardinality(free_slots) \in Nat /\ Cardinality(free_slots) > 0
         /\ Cardinality(free_slots') = Cardinality(free_slots) - 1
         /\ Slotted' = Slotted \cup {r}
<1>1. PICK s \in free_slots :
        free_slots' = free_slots \ {s} /\ request_slots' = [request_slots EXCEPT ![r] = s]
  BY DEF TakeSlot
<1>2. IsFiniteSet(free_slots) /\ Cardinality(free_slots) \in Nat
  BY FiniteAssumption, FS_Subset, FS_CardinalityType DEF SlotInv, SlotTypeOK
<1>3. Cardinality(free_slots) # 0
  BY <1>2, FS_EmptySet
<1>4. Cardinality(free_slots \ {s}) = Cardinality(free_slots) - 1
  BY <1>2, FS_RemoveElement
<1>5. Slotted' = Slotted \cup {r}
  BY <1>1, SlotAssumption DEF Slotted, SlotInv, SlotTypeOK
<1> QED BY <1>1, <1>2, <1>3, <1>4, <1>5

LEMMA ReleaseSlotCount ==
  ASSUME SlotInv, NEW r \in Request, request_slots[r] # NoSlot, ReleaseSlot(r)
  PROVE  Cardinality(free_slots') = Cardinality(free_slots) + 1 /\ Slotted' = Slotted \ {r}
<1>1. PICK s : s = request_slots[r] /\ s \in used_slots /\ s \notin free_slots
  BY DEF SlotInv
<1>2. free_slots' = free_slots \cup {s} /\ request_slots' = [request_slots EXCEPT ![r] = NoSlot]
  BY <1>1 DEF ReleaseSlot
<1>3. IsFiniteSet(free_slots)
  BY FiniteAssumption, FS_Subset DEF SlotInv, SlotTypeOK
<1>4. Cardinality(free_slots \cup {s}) = Cardinality(free_slots) + 1
  BY <1>1, <1>3, FS_AddElement
<1>5. Slotted' = Slotted \ {r}
  BY <1>2 DEF Slotted, SlotInv, SlotTypeOK
<1> QED BY <1>2, <1>4, <1>5

\* A pool, written out.
PoolOf(fb, ctx, fs, sl) == [free_blocks |-> fb, context |-> ctx, free_slots |-> fs, slotted |-> sl]

(* The cache manager implements the counting pool, whatever its blocks and *)
(* slots, its block size and the kinds of its layers: what the executor    *)
(* relies on when it calls allocate_request, append_slot and free_request. *)
THEOREM CacheRefinesPool == Spec => PoolSpec
<1>1. Init => Pool!Init
  <2> SUFFICES ASSUME Init PROVE Pool!Init
    OBVIOUS
  <2>1. {r \in Request : request_slots[r] # NoSlot} = {}
    BY DEF Init
  <2>2. (~NeedsBlocks => Cardinality(Block) = 0) /\ (~NeedsSlots => Cardinality(Slot) = 0)
    BY NoBlocksAssumption, NoSlotsAssumption, FS_EmptySet
  <2> QED BY <2>1, <2>2 DEF Init, Pool!Init, PoolState, Pool!EmptyPool, Pool!Absent, Absent
<1>2. Inv /\ NoTables /\ [Next]_vars => [Pool!Next]_PoolState
  <2> SUFFICES ASSUME Inv, NoTables, [Next]_vars PROVE [Pool!Next]_PoolState
    OBVIOUS
  <2> USE DEF Inv
  <2>1. PICK fb \in Nat, fs \in Nat, ctx \in [Request -> Nat \cup {Absent}], sl \in SUBSET Request :
          /\ fb = Cardinality(free_blocks) /\ ctx = context_lengths
          /\ fs = Cardinality(free_slots) /\ sl = Slotted
    <3>1. Cardinality(free_blocks) \in Nat /\ Cardinality(free_slots) \in Nat
      BY FiniteAssumption, FS_Subset, FS_CardinalityType DEF BlockInv, BlockTypeOK, SlotInv, SlotTypeOK
    <3>2. context_lengths \in [Request -> Nat \cup {Absent}] /\ Slotted \in SUBSET Request
      BY DEF BlockInv, BlockTypeOK, Slotted
    <3> QED BY <3>1, <3>2
  <2>2. PoolState = PoolOf(fb, ctx, fs, sl)
    BY <2>1 DEF PoolState, PoolOf, Slotted
  <2>3. PoolState' = PoolOf(Cardinality(free_blocks'), context_lengths', Cardinality(free_slots'), Slotted')
    BY DEF PoolState, PoolOf, Slotted
  <2>4. /\ PoolState.free_blocks = fb /\ PoolState.context = ctx
        /\ PoolState.free_slots = fs /\ PoolState.slotted = sl
    BY <2>2 DEF PoolOf
  <2>5. UNCHANGED block_vars => Cardinality(free_blocks') = fb /\ context_lengths' = ctx
    BY <2>1 DEF block_vars
  <2>6. UNCHANGED slot_vars => Cardinality(free_slots') = fs /\ Slotted' = sl
    BY <2>1 DEF slot_vars, Slotted
  <2>7. ASSUME NEW r \in Request, NEW n \in Lengths, AllocateRequest(r, n)
        PROVE  Pool!Allocate(r, n)
    <3>1. ctx[r] = Absent
      BY <2>1, <2>7 DEF AllocateRequest, HasTable
    <3>2. /\ NeedsBlocks => /\ fb >= BlocksFor(n) /\ Cardinality(free_blocks') = fb - BlocksFor(n)
                            /\ context_lengths' = [ctx EXCEPT ![r] = n]
          /\ ~NeedsBlocks => Cardinality(free_blocks') = fb /\ context_lengths' = ctx
      BY <2>1, <2>5, <2>7, TakeBlocksCount DEF AllocateRequest
    <3>3. /\ NeedsSlots => fs > 0 /\ Cardinality(free_slots') = fs - 1 /\ Slotted' = sl \cup {r}
          /\ ~NeedsSlots => Cardinality(free_slots') = fs /\ Slotted' = sl
      BY <2>1, <2>6, <2>7, TakeSlotCount DEF AllocateRequest
    <3>4. Pool!can_allocate(PoolState, n)
      BY <2>4, <3>2, <3>3 DEF Pool!can_allocate, Pool!BlocksFor, BlocksFor
    <3>5. PoolState' = Pool!Commit(PoolState, r, n)
      <4>1. PoolState' = PoolOf(IF NeedsBlocks THEN fb - BlocksFor(n) ELSE fb,
                                IF NeedsBlocks THEN [ctx EXCEPT ![r] = n] ELSE ctx,
                                IF NeedsSlots THEN fs - 1 ELSE fs,
                                IF NeedsSlots THEN sl \cup {r} ELSE sl)
        BY <2>3, <3>2, <3>3
      <4> QED BY <2>4, <4>1 DEF Pool!Commit, PoolOf, Pool!BlocksFor, BlocksFor
    <3> QED BY <2>4, <3>1, <3>4, <3>5 DEF Pool!Allocate, Pool!allocate_request, Pool!Absent, Absent
  <2>8. ASSUME NEW r \in Request, FreeRequest(r)
        PROVE  Pool!Free(r)
    <3>1. /\ ctx[r] # Absent => /\ Cardinality(free_blocks') = fb + BlocksFor(ctx[r])
                                /\ context_lengths' = [ctx EXCEPT ![r] = Absent]
          /\ ctx[r] = Absent => Cardinality(free_blocks') = fb /\ context_lengths' = ctx
      BY <2>1, <2>5, <2>8, ReleaseBlocksCount DEF FreeRequest, HasTable
    <3>2. context_lengths' = [ctx EXCEPT ![r] = Absent]
      BY <3>1
    <3>3. /\ r \in sl => Cardinality(free_slots') = fs + 1 /\ Slotted' = sl \ {r}
          /\ r \notin sl => Cardinality(free_slots') = fs /\ Slotted' = sl
      BY <2>1, <2>6, <2>8, ReleaseSlotCount DEF FreeRequest, Slotted
    <3>4. PoolState' = PoolOf(fb + (IF ctx[r] # Absent THEN BlocksFor(ctx[r]) ELSE 0),
                              [ctx EXCEPT ![r] = Absent],
                              fs + (IF r \in sl THEN 1 ELSE 0),
                              sl \ {r})
      BY <2>3, <3>1, <3>2, <3>3
    <3> QED BY <2>4, <3>4 DEF Pool!Free, Pool!free_request, PoolOf, Pool!BlocksFor, BlocksFor,
                              Pool!Absent, Absent
  <2>9. ASSUME NEW r \in Request, AppendSlot(r)
        PROVE  Pool!Grow(r)
    <3>1. /\ ctx[r] # Absent /\ ctx[r] < MaxContext /\ NeedsBlocks
          /\ context_lengths' = [ctx EXCEPT ![r] = ctx[r] + 1]
      BY <2>1, <2>9 DEF AppendSlot, HasTable, NoTables
    <3>2. Cardinality(free_slots') = fs /\ Slotted' = sl
      BY <2>6, <2>9 DEF AppendSlot
    <3>3. IsFiniteSet(free_blocks) /\ Cardinality(free_blocks) \in Nat
      BY FiniteAssumption, FS_Subset, FS_CardinalityType DEF BlockInv, BlockTypeOK
    <3>4. /\ ctx[r] % BlockSize = 0 => fb > 0 /\ Cardinality(free_blocks') = fb - 1
          /\ ctx[r] % BlockSize # 0 => Cardinality(free_blocks') = fb
      <4>1. CASE ctx[r] % BlockSize # 0
        BY <2>1, <2>9, <4>1 DEF AppendSlot
      <4>2. CASE ctx[r] % BlockSize = 0
        <5>1. PICK b \in free_blocks : free_blocks' = free_blocks \ {b}
          BY <2>1, <2>9, <4>2 DEF AppendSlot
        <5>2. Cardinality(free_blocks \ {b}) = Cardinality(free_blocks) - 1 /\ Cardinality(free_blocks) # 0
          BY <3>3, FS_RemoveElement, FS_EmptySet
        <5> QED BY <2>1, <3>3, <4>2, <5>1, <5>2
      <4> QED BY <4>1, <4>2
    <3>5. PoolState' = PoolOf(fb - (IF ctx[r] % BlockSize = 0 THEN 1 ELSE 0),
                              [ctx EXCEPT ![r] = ctx[r] + 1], fs, sl)
      BY <2>3, <3>1, <3>2, <3>4
    <3>6. Pool!append_ok(PoolState, r) /\ PoolState' = Pool!append_slot(PoolState, r)
      BY <2>4, <3>1, <3>4, <3>5 DEF Pool!append_ok, Pool!append_slot, PoolOf, Pool!Absent, Absent
    <3> QED BY <2>4, <3>1, <3>6 DEF Pool!Grow
  <2>10. ASSUME NEW r \in Request, WriteState(r)
         PROVE  PoolState' = PoolState
    BY <2>10 DEF WriteState, block_vars, PoolState
  <2>11. ASSUME UNCHANGED vars PROVE PoolState' = PoolState
    BY <2>11 DEF vars, PoolState
  <2> QED BY <2>7, <2>8, <2>9, <2>10, <2>11 DEF Next, RefuseRequest, Pool!Next
<1> QED BY <1>1, <1>2, CacheInv, NoTablesInv, PTL DEF Spec, PoolSpec, Pool!Spec
=============================================================================
