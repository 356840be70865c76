\* One launch after another on a quiet host, with the default receipt path.
SPECIFICATION FairSpec
CONSTANTS
  l1 = l1
  l2 = l2
  rank0 = rank0
  rank1 = rank1
  default = default
  other = other
  Nobody = Nobody
  Launchers <- TwoLaunchers
  Names = {rank0}
  Paths = {default}
  NameOf <- SameName
  PathOf <- SharedPath
  Solo = TRUE
  Faults <- AllButCli
INVARIANTS TypeOK Tracked StopCoversLaunches
PROPERTIES ReadyIsOwn WaitEnds
