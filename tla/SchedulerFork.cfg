SPECIFICATION Spec
CONSTANTS
  Main = Main
  Nobody = Nobody
  Jobs = {"a", "b", "c"}
  Tokens = {"t"}
  Deps <- ForkDeps
  Origin <- ForkOrigin
  Target <- ForkTarget
  Value <- ForkValue
  Limit <- OneToken
  JobId <- OwnId
  Threads = {1}
  Unset = {"WAITING"}
  Leftovers = {"absent", "done", "stale", "running"}
  ExitCodes = {"ok", "fail"}
  MaxSignals = 2
INVARIANTS TypeOK TokenLimit DependenciesDone NoLostStart ReturnedMeansOver
PROPERTIES StartedOnce ImplementsGraph
CHECK_DEADLOCK FALSE
