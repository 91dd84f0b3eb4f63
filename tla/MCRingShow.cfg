SPECIFICATION MonSpec
CONSTANTS
  w1 = w1
  m1 = m1
  Blank = Blank
  Words <- MCWords
  Msgs <- MCMsgs
  Slots = 4
  Modulus = 8
  StaleLoads = FALSE
  MaxCrashes = 1
  AllowReset = FALSE
INVARIANT ShownOccupancyIsReal
