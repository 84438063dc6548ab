SPECIFICATION Spec
CONSTANTS
  Targets = {t1, t2}
  MaxJobs = 3
  LastN = 2
  RingSize = 2
  CancelKinds = {"phase", "call", "read", "plan"}
  MaxCancels = 2
  MaxRestarts = 1
INVARIANTS LockIffWorking NothingMissed
PROPERTY FreedByHolder
SYMMETRY TargetSymmetry
