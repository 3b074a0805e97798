\* Two requests at a time and one worker's thread.
SPECIFICATION Spec
CONSTANTS
  Requests = {a, b}
  Loops = {l}
  Served = {"create", "page", "observe", "read", "stream", "step", "start", "stop", "delete"}
  OpBound = 3
INVARIANTS
  LeaseProtects
  NothingLost
PROPERTIES
  DeletionEnds
CHECK_DEADLOCK FALSE
