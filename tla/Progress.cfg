SPECIFICATION FairSpec
CONSTANTS
  Top = 4
  Step = 2
  Threshold = 3
  MaxUpdates = 3
  MaxRequests = 1
INVARIANTS TypeOK BlockedIsUpToDate
PROPERTIES EventuallyShown
CHECK_DEADLOCK FALSE
