SPECIFICATION Spec
CONSTANTS
  None = None
  Types <- MCTypes
  Parent <- MCParent
  Arguments <- MCArguments
  Tasks = {"Learn", "Eval"}
  Scalars = {"1", "2"}
  Names = {"a", "b", "c"}
  Created <- MCCreated
  MaxSets = 3
  MaxJobs = 2
INVARIANTS ArraysAwaited
CHECK_DEADLOCK FALSE
