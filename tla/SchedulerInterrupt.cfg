SPECIFICATION FairSpec
CONSTANTS
  Main = Main
  Nobody = Nobody
  Jobs = {"a", "b", "c"}
  Tokens = {"t"}
  Deps <- BesideDeps
  Origin <- BesideOrigin
  Target <- BesideTarget
  Value <- BesideValue
  Limit <- OneToken
  JobId <- OwnId
  Threads = {1}
  Unset = {"WAITING"}
  Leftovers = {"absent", "running", "done"}
  ExitCodes = {"ok", "fail"}
  MaxSignals = 2
PROPERTIES Recorded
CHECK_DEADLOCK FALSE
