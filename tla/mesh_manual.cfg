SPECIFICATION Spec
CONSTANTS
  n1 = n1
  n2 = n2
  n3 = n3
  Node = {n1, n2, n3}
  NumLayers = 3
  Mem <- TinyMem
  LayerSize = 2
  EmbedSize = 1
  TieEmbedding = FALSE
  KvMem <- EvenKv
  Latencies <- AnyLatency
  Power <- EvenPower
  MinNodes = 3
  Manual <- HandMade
  Routing = "dp"
  Faults = {"crash", "leave", "give_up"}
  Stable = {n1}
  MaxFaults = 2
INVARIANTS
  NodesAgree
