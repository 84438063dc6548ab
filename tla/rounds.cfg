\* One item of up to three rounds, every gate and fallback, one kill, either mode.
SPECIFICATION Spec
CONSTANTS
  MaxRounds = 3
  Cap = 5
  PivotN = 2
  EscalateAfter = 2
  MaxRestarts = 1
  HasFallback = TRUE
  Preflight = TRUE
  Gates = {"rerun", "second", "review"}
  ContractStep = TRUE
  ResetMayFail = TRUE
  MaxCrashes = 1
INVARIANTS SpendBounded StrategyEarned EveryRoundDecided PassWarranted
