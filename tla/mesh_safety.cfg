SPECIFICATION Spec
CONSTANTS
  n1 = n1
  n2 = n2
  n3 = n3
  Node = {n1, n2, n3}
  NumLayers = 3
  Mem <- UnevenMem
  LayerSize = 2
  EmbedSize = 1
  TieEmbedding = FALSE
  KvMem <- UnevenKv
  Latencies <- SomeLatencies
  Power <- UnevenPower
  MinNodes = 2
  Manual <- NoManual
  Routing = "dp"
  Faults = {"crash", "leave", "silent"}
  Stable = {n1}
  MaxFaults = 2
INVARIANTS
  TypeOK
  NodesAgree
  LoadsMatch
  BootstrappedHasPipeline
  RoutesCover
  RoutesShortest
