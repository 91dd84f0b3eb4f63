SPECIFICATION Spec
CONSTANTS
  MaxFrames = 1
  PipeCap = 1
  RingCap = 1
  MaxClock = 2
  TscMod = 8
  MaxKills = 0
INVARIANT LatencyIsElapsed
