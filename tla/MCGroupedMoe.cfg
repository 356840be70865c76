\* Fused up to three rows, small blocks up to four, big blocks for five.
SPECIFICATION Spec
CONSTANTS
  Experts = 3
  Shapes <- SmallShapes
  FusedWin = 3
  SmallMax = 4
  SmallBlock = 2
  BigBlock = 3
  CopyBlock = 3
  FillBlock = 3
  MinLanes = 4
  Junk = 99
  TilesOf <- TwoAndOne
  Group = 3
  ActRows = 4
INVARIANTS MetadataExact StaysInBuffers LoadsExist
PROPERTIES StoredOnce KeepsMoeContract
