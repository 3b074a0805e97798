SPECIFICATION Spec
CONSTANTS
  Products = {p1}
  Waits <- MCRandom
  Durations = {1, 2}
  Horizon = 10
  LastTick = 13
  MaxStock = 4
  Increment = 2
  InitialStock = 1
INVARIANTS
  ChannelsLive
PROPERTIES
  ImplementsEagerStock
