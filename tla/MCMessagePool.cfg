SPECIFICATION FairSpec
CONSTANTS
  t1 = t1
  t2 = t2
  t3 = t3
  t4 = t4
  Threads <- MCThreads
  Capacity = 3
  None = None
  Mixed = FALSE
INVARIANTS
  TypeOK
  ExclusiveOwnership
  NoneLost
  CountConserved
PROPERTY EveryCallReturns
