SPECIFICATION Spec
CONSTANTS
  None = None
  Types <- MCTypes
  Parent <- MCParent
  Arguments <- MCArguments
  Tasks = {"Learn", "Eval"}
  Scalars = {"1", "2"}
  Names = {"a", "b", "c"}
  Created <- MCCreated
  MaxSets = 3
  MaxJobs = 2
\* Violated as well: SameIsSkippedAnyway
INVARIANTS SkippedIsSameAnyway
CHECK_DEADLOCK FALSE
