\* Two calls, an operator, failing system calls, crashes and a root path that
\* comes to name a copy of the snapshot or a decoy.
SPECIFICATION Spec
CONSTANTS
  w1 = w1
  w2 = w2
  None = None
  Writers = {w1, w2}
  Dirs = {"snapshot", "copy", "decoy"}
  Complete = {"snapshot", "copy"}
  Faults = {"io", "crash"}
  MaxMoves = 2
  MaxRemovals = 1
SYMMETRY WriterSymmetry
INVARIANTS TypeOK MarkerIsVerified MarkerIsWhole ReturnedStays RaisedLeavesNothing
\* Every call ends.
CHECK_DEADLOCK FALSE
