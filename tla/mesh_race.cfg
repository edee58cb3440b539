SPECIFICATION Spec
CONSTANTS
  n1 = n1
  n2 = n2
  n3 = n3
  Node = {n1, n2, n3}
  NumLayers = 3
  Mem <- EqualMem
  LayerSize = 2
  EmbedSize = 1
  TieEmbedding = FALSE
  KvMem <- EvenKv
  Latencies <- AnyLatency
  Power <- EvenPower
  MinNodes = 2
  Manual <- NoManual
  Routing = "rr"
  Faults = {"overlap"}
  Stable = {n1, n2, n3}
  MaxFaults = 0
SYMMETRY AnyOrder
INVARIANTS
  
  CachedRoutesCover
