\* Two ranks, four routed and two shared experts, two tokens of two choices.
SPECIFICATION Spec
CONSTANTS
  Configs <- AllConfigs
  Routings <- RoutingsOf
  Ranks = 2
  Experts = 4
  Shared = 2
  RowTile = 2
  Grid = 1
  MaxRuns <- RunsOf
  MaxGraphs = 2
  MaxLoads = 2
  Blocks = 28
  Weight <- Bits
  None = None
INVARIANTS NothingRaised RoutingCaptured ReadsWhatWasMeant WeightsAreCurrent
PROPERTIES KeepsLayerContract
