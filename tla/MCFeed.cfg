SPECIFICATION FairSpec
CONSTANTS
  PortMod = 4
  Second = 3
  MaxQps = 2
  Duration = 4
  SocketCap = 2
  MaxClock = 8
  MaxStarts = 2
  Files <- MCFiles
  SimArgs <- MCSimArgs
  IngArgs <- MCIngArgs
CHECK_DEADLOCK FALSE
INVARIANTS
  TypeOK
  PortIsAsTold
  OnSchedule
  NoMoreThanAsked
  GapsAreLosses
PROPERTIES
  SimEnds
  QueuedIsReceived
