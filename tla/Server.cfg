SPECIFICATION ServerFairSpec
CONSTANTS
  Modes = {"async", "sync"}
  Throwing <- MCThrowing
  Spurious = FALSE
  MaxRuns = 3
  Workers = 2
  Reactors = 1
  Failing <- MCFailing
  StartFails = TRUE
  Endings <- MCStopped
CHECK_DEADLOCK FALSE
INVARIANTS ServerTypeOK NoOrphans ServingIsComplete
PROPERTIES DeadChildEndsAll DestructorReturns
