SPECIFICATION Spec
CONSTANTS
  Main = Main
  Nobody = Nobody
  Jobs = {"a", "b", "c"}
  Tokens = {"t"}
  Deps <- ShareDeps
  Origin <- ShareOrigin
  Target <- ShareTarget
  Value <- ShareValue
  Limit <- TwoTokens
  JobId <- OwnId
  Threads = {1, 2}
  Unset = {"WAITING"}
  Leftovers = {"absent"}
  ExitCodes = {"ok", "fail"}
  MaxSignals = 0
INVARIANTS ReturnedMeansOver
CHECK_DEADLOCK FALSE
