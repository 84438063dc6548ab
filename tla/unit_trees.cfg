SPECIFICATION Spec
CONSTANTS
  p1 = p1
  p2 = p2
  a = a
  b = b
  Names = {a, b}
  Procs = {p1, p2}
  MaxCalls = 4
  MaxUser = 2
  MaxKills = 1
SYMMETRY MCSymmetry
INVARIANTS RegisteredAreLive HealsItself
PROPERTIES WorkStays
CHECK_DEADLOCK FALSE
