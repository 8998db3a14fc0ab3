SPECIFICATION Spec
CONSTANTS
  Main = Main
  Nobody = Nobody
  Jobs = {"a", "b", "c"}
  Tokens = {"t"}
  Deps <- ShareDeps
  Origin <- ShareOrigin
  Target <- ShareTarget
  Value <- ShareValue
  Limit <- TwoTokens
  JobId <- OwnId
  Threads = {1}
  Unset = {"WAITING"}
  Leftovers = {"absent"}
  ExitCodes = {"ok"}
  MaxSignals = 1
PROPERTIES NoLaunchAfterInterrupt
CHECK_DEADLOCK FALSE
