SPECIFICATION Spec
CONSTANTS
  Chains <- MCChains
  MaxRuns = 2
  MaxEdits = 1
  MaxKills = 1
  JsonReask = TRUE
INVARIANTS JudgeLeavesNothing PassIsEarned
PROPERTIES NoSecondWriter
CHECK_DEADLOCK FALSE
