SPECIFICATION Spec
CONSTANTS
  a1 = a1
  a2 = a2
  Agents <- MCAgents
  LastTick = 3
  IdemCap = 2
  Declares = TRUE
  Settings <- MCSettings
INVARIANTS
  ActsOnce
  HookWaits
  ChargesRight
PROPERTIES
  ImplementsTickCycle
  ReachesEnd
CHECK_DEADLOCK FALSE
