SPECIFICATION FairSpec
CONSTANTS
  Assertions = {1, 2}
  ContractMax = 2
  MaxRounds = 2
  PivotNs = {1, 2}
  Modes = {"none", "hybrid", "llm"}
  MaxLives = 3
INVARIANTS AcceptWarranted StrikeSound
PROPERTIES FollowsLife UnitEnds
CHECK_DEADLOCK FALSE
