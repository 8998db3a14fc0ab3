SPECIFICATION Spec
CONSTANTS
  Nobody = Nobody
  Jobs = {"a", "b", "c"}
  Tokens = {"s", "t"}
  Deps <- PairDeps
  Origin <- PairOrigin
  Needs <- PairNeeds
  Limit <- PairLimit
  NewLimits = {0, 5}
  Threads = {1, 2}
  Width = 8
INVARIANTS LimitNeverPassed
CHECK_DEADLOCK FALSE
