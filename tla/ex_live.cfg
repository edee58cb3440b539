SPECIFICATION FairSpec
CONSTANTS
  Request = {r1, r2}
  BlockSize = 2
  NeedsBlocks = TRUE
  NeedsSlots = FALSE
  MaxBatchSize = 2
  MicroBatchRatio = 2
  MaxTokens = 3
  NumPeers = 2
  PeerBlocks <- AmpleBlocks
  PromptLens = {2}
  MaxNews = {1, 2}
  MaxSeqLen = 16
  Faults = {"cancel"}
PROPERTIES
  Served
  MemoryReturned
