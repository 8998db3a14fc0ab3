SPECIFICATION FairSpec
CONSTANTS
  Nobody = Nobody
  Jobs = {"a", "c"}
  Tokens = {"s", "t"}
  Deps <- PairDeps
  Origin <- PairOrigin
  Needs <- PairNeeds
  Limit <- PairLimit
  NewLimits = {}
  Threads = {1, 2}
  Width = 8
PROPERTIES EveryJobServed
CHECK_DEADLOCK FALSE
