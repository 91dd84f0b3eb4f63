SPECIFICATION FairSpec
CONSTANTS
  Programs = {"parser"}
  Stale = 2
  Recent = 1
  Period = 1
  ErrorPercent = 50
  MaxProcessed = 1
  MaxErrors = 1
PROPERTY StallIsPublished
