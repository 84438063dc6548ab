SPECIFICATION FairSpec
CONSTANTS
  NUnits = 2
  Flags = {"commit", "merge", "push"}
  MaxLives = 2
  MaxForeign = 1
  SwitchAnytime = FALSE
  CommitsHalf = FALSE
INVARIANTS MergedIsThere WorkNotLost PushedIsWhole
PROPERTIES DefaultTakesWhole LandingEnds
CHECK_DEADLOCK FALSE
