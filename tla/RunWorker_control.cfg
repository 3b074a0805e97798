\* Two workers replaced once more, a pause or a resume between, one crash.
SPECIFICATION Spec
CONSTANTS
  MaxWorkers = 3
  OpBound = 4
  StepBound = 2
  CrashBound = 1
INVARIANTS
  OneRun
  PauseHolds
PROPERTIES
  StopEnds
CHECK_DEADLOCK FALSE
