SPECIFICATION FairSpec
CONSTANTS
  w1 = w1
  w2 = w2
  m1 = m1
  m2 = m2
  Blank = Blank
  Words <- MCWords
  Msgs <- MCMsgs
  Slots = 4
  Modulus = 8
  StaleLoads = TRUE
  MaxCrashes = 1
  AllowReset = TRUE
INVARIANTS
  TypeOK
  IndexOrder
  NoOverlap
  CallsInProgress
  NothingTorn
PROPERTIES
  ImplementsFifo
  PublishedIsDelivered
