SPECIFICATION Spec
CONSTANTS
  MaxFrames = 3
  PipeCap = 1
  RingCap = 1
  MaxClock = 1
  TscMod = 8
  MaxKills = 1
INVARIANTS
  TypeOK
  
  InOrder
  
PROPERTY ImplementsChannel
