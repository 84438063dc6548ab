\* Two reflections route into an inbox of one file while the user triages and clears it.
SPECIFICATION InboxSpec
CONSTANTS
  Runs = {r1, r2}
  Names = {1, 2, 3}
  Start <- MCStart
  Reports <- MCReports
  Dedupe = TRUE
  MaxMarks = 2
  MaxCommands = 2
CHECK_DEADLOCK FALSE
SYMMETRY MCSymmetry
INVARIANTS NothingLost CountsAreExact
