\* Two items, both gates, an agent that splits commits, a measure, the pivot's reset and two kills.
SPECIFICATION FairSpec
CONSTANTS
  N = 2
  Parts = {p}
  MaxRounds = 2
  AutoCommit = TRUE
  AgentCommits = TRUE
  CommitGate = TRUE
  ItemGate = TRUE
  MeasureOn = TRUE
  ResetOn = TRUE
  CommitFails = FALSE
  Earlier = {2}
  MayFail = {"measure", "memory"}
  OnlyRuns = FALSE
  MaxCrashes = 2
INVARIANTS FlagsTruthful NoneLeftBehind AcceptedWorkStands PauseConsistent
PROPERTIES BuildFinishes KeepsPromise
