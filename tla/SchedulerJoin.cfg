SPECIFICATION FairSpec
CONSTANTS
  Main = Main
  Nobody = Nobody
  Jobs = {"a", "b", "c", "d"}
  Tokens = {"t"}
  Deps <- JoinDeps
  Origin <- JoinOrigin
  Target <- JoinTarget
  Value <- JoinValue
  Limit <- OneToken
  JobId <- JoinId
  Threads = {1}
  Unset = {"WAITING"}
  Leftovers = {"absent", "done", "running"}
  ExitCodes = {"ok"}
  MaxSignals = 0
PROPERTIES Completion
