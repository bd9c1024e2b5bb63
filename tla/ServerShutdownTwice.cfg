SPECIFICATION ServerSpec
CONSTANTS
  Modes = {"async"}
  Throwing <- MCThrowing
  Spurious = FALSE
  MaxRuns = 1
  Workers = 1
  Reactors = 1
  Failing = {}
  StartFails = FALSE
  Endings <- MCNotRunning
CHECK_DEADLOCK FALSE
INVARIANTS SecondShutdownNoop
