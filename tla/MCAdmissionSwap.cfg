\* The root is renamed once between the steps of its check.
SPECIFICATION Spec
CONSTANTS
  gate = gate
  bind = bind
  launch = launch
  phase0 = phase0
  bound = bound
  root = root
  A = A
  B = B
  None = None
  Gates = {gate}
  Binds = {bind}
  Launches = {launch}
  Digests = {A, B}
  Files = {phase0, bound}
  Roots = {root}
  Dirs = {"rw", "ro"}
  ReadOnlyFs = {"ro"}
  InputOf <- Inputs
  OutputOf <- Outputs
  RootOf <- BothRooted
  Dated = {phase0}
  MaxEdits = 0
  MaxMoves = 1
SYMMETRY DigestSymmetry
PROPERTY ReportedIsReadOnly
\* Every call ends, and edits are bounded.
CHECK_DEADLOCK FALSE
