\* Two edits and two renames anywhere around a gate run, a binding and a launch.
SPECIFICATION Spec
CONSTANTS
  gate = gate
  bind = bind
  launch = launch
  phase0 = phase0
  bound = bound
  root = root
  A = A
  B = B
  None = None
  Gates = {gate}
  Binds = {bind}
  Launches = {launch}
  Digests = {A, B}
  Files = {phase0, bound}
  Roots = {root}
  Dirs = {"rw", "ro"}
  ReadOnlyFs = {"ro"}
  InputOf <- Inputs
  OutputOf <- Outputs
  RootOf <- BothRooted
  Dated = {phase0}
  MaxEdits = 1
  MaxMoves = 1
SYMMETRY DigestSymmetry
INVARIANTS TypeOK BoundToManifest QuietLaunchPasses
PROPERTY RootIsReadOnly
\* Every call ends, and edits are bounded.
CHECK_DEADLOCK FALSE
