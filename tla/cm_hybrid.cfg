\* A shard with attention and linear layers.
SPECIFICATION Spec
CONSTANTS
  Request = {r1, r2, r3}
  Block = {b1, b2, b3, b4, b5}
  Slot = {s1, s2, s3}
  NoSlot = NoSlot
  Clean = Clean
  BlockSize = 2
  NeedsBlocks = TRUE
  NeedsSlots = TRUE
  Lengths = {1, 2, 3, 5}
  MaxContext = 6
SYMMETRY Symmetry
INVARIANTS
  BlocksConserved
  NoAliasing
  TableFitsContext
  SlotsConserved
  NoStateLeak
PROPERTIES
  PoolSpec
