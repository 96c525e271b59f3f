CONSTANTS
  Size = 2
  Entries = 2
  Objects = {o1, o2}
  KindOf <- Kinds
  Slots = 2
  Regions = {a}
  NoRegion = none
SPECIFICATION MCSpec
INVARIANTS NodesOutlive ChainWhole MemoryOwned DirectionExact
PROPERTIES StopEndsGroup SendEnds
