SPECIFICATION Spec
CONSTANTS
  Jobs = {"a", "b", "c", "d"}
  Tokens = {"t", "u"}
  After <- DiamondAfter
  Needs <- DiamondNeeds
  Limit <- DiamondLimit
INVARIANTS ReturnedMeansOver
