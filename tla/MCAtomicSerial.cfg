\* Three receipt writes, one after another, each may die at any point.
SPECIFICATION Spec
CONSTANTS
  w1 = w1
  w2 = w2
  w3 = w3
  Writers = {w1, w2, w3}
  Nodes = {0, 1, 2, 3}
  OldNode = 0
  Absent = Absent
  Link = Link
  Dangling = Dangling
  Caller = "launch"
  Serial = TRUE
  Faults = {"full", "crash"}
INVARIANT PublishedIsPrivate
PROPERTY IsAtomic
\* Every call ends.
CHECK_DEADLOCK FALSE
