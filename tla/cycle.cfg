\* Two runs: two commits in worktrees, or three texts and two archives in place; one kill.
SPECIFICATION Spec
CONSTANTS
  Mode <- Modes
  Strategies = {"worktree", "inplace"}
  AutoCommit = TRUE
  PullBeforeWork = TRUE
  MaxTexts <- Texts
  MaxRuns = 2
  MaxCommits <- Saved
  MaxCycles <- Kept
  MaxKills = 1
INVARIANT CycleStartsClean
PROPERTIES MainOnlyByMerge WorkKept ArchivesStand
CHECK_DEADLOCK FALSE
