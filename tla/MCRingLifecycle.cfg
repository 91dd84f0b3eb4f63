SPECIFICATION Spec
CONSTANTS
  c1 = c1
  c2 = c2
  Ctls <- MCCtls
  MaxObjects = 3
  Capacity = 1
  MaxPushes = 2
  MaxKills = 1
  MaxDestroys = 2
CHECK_DEADLOCK FALSE
SYMMETRY MCSymmetry
INVARIANTS
  TypeOK
  NamedIsComplete
PROPERTIES
  IndicesNeverMoveBack
  OnlyDestroyRemoves
