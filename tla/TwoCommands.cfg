SPECIFICATION Spec
CONSTANTS
  Programs = {"p", "q"}
  Scripts = {"s1", "s2", "s3"}
  MaxRuns = 3
  MaxCrashes = 0
  MaxKills = 0
  MaxStops = 1
INVARIANTS AtMostOneCommand
CHECK_DEADLOCK FALSE
