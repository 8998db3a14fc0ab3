SPECIFICATION Spec
CONSTANTS
  None = None
  Types <- MCTypes
  Parent <- MCParent
  Arguments <- MCArguments
  Tasks = {"Learn", "Eval"}
  Scalars = {"1", "2"}
  Names = {"a", "b", "c"}
  Created <- MCCreated
  MaxSets = 3
  MaxJobs = 2
INVARIANTS SkippedIsSame SameIsSkipped PathsInside ResultsAwaited
PROPERTIES Resubmitted
CHECK_DEADLOCK FALSE
