SPECIFICATION Spec
CONSTANTS
  Request = {r1, r2}
  BlockSize = 2
  NeedsBlocks = TRUE
  NeedsSlots = FALSE
  MaxBatchSize = 2
  MicroBatchRatio = 1
  MaxTokens = 3
  NumPeers = 3
  PeerBlocks <- UnevenBlocks
  PromptLens = {1, 2}
  MaxNews = {2}
  MaxSeqLen = 16
  Faults = {"cancel", "loss"}
SYMMETRY Symmetry
INVARIANTS
  ResidencyMatches
  OneStepAtATime
  ContextsInStep
  NoPeerDies
