\* Admission bindings by concurrent processes that share the temporary.
SPECIFICATION Spec
CONSTANTS
  w1 = w1
  w2 = w2
  w3 = w3
  Writers = {w1, w2, w3}
  Nodes = {0, 1, 2, 3}
  OldNode = 0
  Absent = Absent
  Link = Link
  Dangling = Dangling
  Caller = "bind"
  Serial = FALSE
  Faults = {}
SYMMETRY WriterSymmetry
INVARIANTS TypeOK OnePublishes
\* Every call ends.
CHECK_DEADLOCK FALSE
