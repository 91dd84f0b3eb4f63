SPECIFICATION MonSpec
CONSTANTS
  w1 = w1
  m1 = m1
  Blank = Blank
  Words <- MCWords
  Msgs <- MCMsgs
  Slots = 4
  Modulus = 4
  StaleLoads = TRUE
  MaxCrashes = 1
  AllowReset = TRUE
INVARIANTS
  MonTypeOK
  
  OccupancyMaxIsReal
