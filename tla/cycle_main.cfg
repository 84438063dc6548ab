\* A project that builds on a branch of its own in the project's directory.
SPECIFICATION Spec
CONSTANTS
  Mode <- Modes
  Strategies = {"branch"}
  AutoCommit = TRUE
  PullBeforeWork = FALSE
  MaxTexts <- Texts
  MaxRuns = 2
  MaxCommits <- Saved
  MaxCycles <- Kept
  MaxKills = 1
PROPERTY MainOnlyByMerge
CHECK_DEADLOCK FALSE
