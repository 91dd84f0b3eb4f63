SPECIFICATION FairSpec
CONSTANTS
  MaxFrames = 2
  PipeCap = 1
  RingCap = 1
  MaxClock = 0
  TscMod = 8
  MaxKills = 1
PROPERTIES
  
  StopPropagates
  IngressStops
