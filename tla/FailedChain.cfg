SPECIFICATION FairSpec
CONSTANTS
  Main = Main
  Nobody = Nobody
  Jobs = {"a", "b", "c"}
  Tokens = {"t"}
  Deps <- ChainDeps
  Origin <- ChainOrigin
  Target <- ChainTarget
  Value <- ChainValue
  Limit <- OneToken
  JobId <- OwnId
  Threads = {1}
  Unset = {"WAITING"}
  Leftovers = {"absent"}
  ExitCodes = {"ok", "fail"}
  MaxSignals = 0
PROPERTIES WaitEnds
CHECK_DEADLOCK FALSE
