\* Two changes that may carry the same time stamp.
SPECIFICATION Spec
CONSTANTS
  None = None
  Nodes = {"n1", "n2", "n3", "symlink"}
  Special = {"symlink"}
  Ignored = {"cache"}
  Expected <- TwoFiles
  Sorted <- FourNames
  Blocks = 2
  Start <- Starts
  Fine = FALSE
  MaxChanges = 2
PROPERTY HashIsCurrent
\* The verification ends.
CHECK_DEADLOCK FALSE
