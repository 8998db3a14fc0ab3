SPECIFICATION FairSpec
CONSTANTS
  Main = Main
  Nobody = Nobody
  Jobs = {"a", "b", "c"}
  Tokens = {"t"}
  Deps <- CopyDeps
  Origin <- CopyOrigin
  Target <- CopyTarget
  Value <- CopyValue
  Limit <- OneToken
  JobId <- CopyId
  Threads = {1}
  Unset = {"WAITING"}
  Leftovers = {"absent"}
  ExitCodes = {"ok"}
  MaxSignals = 0
PROPERTIES WaitEnds
CHECK_DEADLOCK FALSE
