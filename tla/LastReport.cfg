SPECIFICATION FairSpec
CONSTANTS
  Top = 4
  Step = 2
  Threshold = 3
  MaxUpdates = 3
  MaxRequests = 1
\* Violated as well: CompleteShown
PROPERTIES LastReportShown
CHECK_DEADLOCK FALSE
