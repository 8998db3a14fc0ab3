SPECIFICATION Spec
CONSTANTS
  Main = Main
  Nobody = Nobody
  Jobs = {"a", "b", "c"}
  Tokens = {"t"}
  Deps <- JoinDeps
  Origin <- JoinOrigin
  Target <- JoinTarget
  Value <- JoinValue
  Limit <- OneToken
  JobId <- OwnId
  Threads = {1}
  Unset = {"WAITING"}
  Leftovers = {"absent", "stale"}
  ExitCodes = {"ok"}
  MaxSignals = 0
INVARIANTS ReturnedMeansCompleted
CHECK_DEADLOCK FALSE
