SPECIFICATION Spec
CONSTANTS
  Main = Main
  Nobody = Nobody
  Jobs = {"a", "b", "c"}
  Tokens = {"t"}
  Deps <- ChainDeps
  Origin <- ChainOrigin
  Target <- ChainTarget
  Value <- ChainValue
  Limit <- OneToken
  JobId <- OwnId
  Threads = {1}
  Unset = {"WAITING", "DONE"}
  Leftovers = {"absent"}
  ExitCodes = {"ok"}
  MaxSignals = 0
INVARIANTS DependenciesDone
CHECK_DEADLOCK FALSE
