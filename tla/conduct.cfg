SPECIFICATION FairRunSpec
CONSTANTS
  NUnits = 2
  Settings <- MCSettings
  Given = {"abandon", "skip-land"}
  Landing = TRUE
  MaxLives = 2
  MaxSeq = 2
  MaxAnswers = 1
INVARIANTS CompletedMeansSettled
PROPERTIES UnitRequestsKept RunEnds
CHECK_DEADLOCK FALSE
