SPECIFICATION FairSpec
CONSTANTS
  Main = Main
  Nobody = Nobody
  Jobs = {"a", "b", "c"}
  Tokens = {"t"}
  Deps <- ChainDeps
  Origin <- ChainOrigin
  Target <- ChainTarget
  Value <- ChainValue
  Limit <- OneToken
  JobId <- OwnId
  Threads = {1}
  Unset = {"WAITING"}
  Leftovers = {"absent"}
  ExitCodes = {"ok"}
  MaxSignals = 2
PROPERTIES SecondInterruptExits
CHECK_DEADLOCK FALSE
