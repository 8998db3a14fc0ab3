SPECIFICATION Spec
CONSTANTS
  None = None
  Nothing = Nothing
  Names = {"a", "b", "c"}
  Parents <- MCParents
  Files <- MCFiles
  MaxObjects = 6
  MaxItems = 2
  Parts = {"", "a", "b"}
  Empty = ""
  MaxDepth = 3
  MaxVariables = 2
  Types <- MCTypes
  Parent <- MCParent
  Task = "Task"
  Programs <- MCPrograms
  Given <- MCGiven
  Texts <- MCTexts
  NumberOf <- MCNumberOf
  Unsigned = {"5"}
  BooleanOf <- MCBooleanOf
  Largest = 20
INVARIANTS FindEnds
CHECK_DEADLOCK FALSE
