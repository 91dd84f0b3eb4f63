SPECIFICATION Spec
CONSTANTS
  t1 = t1
  t2 = t2
  t3 = t3
  t4 = t4
  Threads <- MCThreads
  Capacity = 2
  None = None
  Mixed = TRUE
SYMMETRY MCSymmetry
INVARIANTS
  ExclusiveOwnership
