SPECIFICATION FairSpec
CONSTANTS
  Modes = {"async", "sync"}
  Throwing <- MCHooks
  Spurious = TRUE
  MaxRuns = 3
CHECK_DEADLOCK FALSE
INVARIANTS TypeOK RunningIsHonest CleanedUp
PROPERTIES ReturnsAfterStart StopLeavesNoThread ExitHonoured StopReturns
