SPECIFICATION Spec
CONSTANTS
  Request = {r1, r2, r3}
  BlockSize = 2
  NeedsBlocks = TRUE
  NeedsSlots = FALSE
  MaxBatchSize = 2
  MicroBatchRatio = 1
  MaxTokens = 3
  NumPeers = 1
  PeerBlocks <- UnevenBlocks
  PromptLens = {1, 3}
  MaxNews = {0, 2}
  MaxSeqLen = 4
  Faults = {"cancel", "timeout", "batch_error", "half_error"}
SYMMETRY Symmetry
INVARIANTS
  TypeOK
  ResidencyMatches
  BatchFits
  DoneIsReleased
