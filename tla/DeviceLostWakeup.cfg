SPECIFICATION FairSpec
CONSTANTS
  Modes = {"async"}
  Throwing = {}
  Spurious = FALSE
  MaxRuns = 2
CHECK_DEADLOCK FALSE
PROPERTIES RunAsyncReturns
