\* Two launchers of one rank compete for its container name.
SPECIFICATION Spec
CONSTANTS
  l1 = l1
  l2 = l2
  rank0 = rank0
  rank1 = rank1
  default = default
  other = other
  Nobody = Nobody
  Launchers <- TwoLaunchers
  Names = {rank0}
  Paths = {default, other}
  NameOf <- SameName
  PathOf <- PrivatePath
  Solo = FALSE
  Faults <- AllButCli
INVARIANTS Tracked FailedMeansDown
PROPERTY KeepsContract
