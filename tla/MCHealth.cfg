SPECIFICATION FairSpec
CONSTANTS
  Programs = {"ingress", "parser", "worker_risk"}
  Stale = 3
  Recent = 1
  Period = 1
  ErrorPercent = 50
  MaxProcessed = 2
  MaxErrors = 2
INVARIANT TypeOK
PROPERTIES
  IngressStallIsPublished
  RecoveryIsPublished
  ErrorsArePublished
  StallIsNoticed
  
