\* Two changes of any kind, with time stamps that tell them apart.
SPECIFICATION Spec
CONSTANTS
  None = None
  Nodes = {"n1", "n2", "n3", "symlink"}
  Special = {"symlink"}
  Ignored = {"cache"}
  Expected <- TwoFiles
  Sorted <- FourNames
  Blocks = 2
  Start <- Starts
  Fine = TRUE
  MaxChanges = 2
INVARIANTS TypeOK OneChangeIsSeen QuietPasses
PROPERTY HashIsCurrent
\* The verification ends.
CHECK_DEADLOCK FALSE
