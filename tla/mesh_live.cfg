SPECIFICATION FairSpec
CONSTANTS
  n1 = n1
  n2 = n2
  n3 = n3
  Node = {n1, n2, n3}
  NumLayers = 3
  Mem <- UnevenMem
  LayerSize = 2
  EmbedSize = 1
  TieEmbedding = FALSE
  KvMem <- EvenKv
  Latencies <- AnyLatency
  Power <- UnevenPower
  MinNodes = 2
  Manual <- NoManual
  Routing = "dp"
  Faults = {"leave", "silent"}
  Stable = {n1, n2}
  MaxFaults = 1
PROPERTIES
  Settles
