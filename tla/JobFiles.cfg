SPECIFICATION FairSpec
CONSTANTS
  Programs = {"p", "q"}
  Scripts = {"s1", "s2", "s3"}
  MaxRuns = 3
  MaxCrashes = 1
  MaxKills = 1
  MaxStops = 1
INVARIANTS TypeOK OneCommandUnlessStopped LocksSet Truthful NothingLeft
PROPERTIES NoRerun RunsReturn
CHECK_DEADLOCK FALSE
