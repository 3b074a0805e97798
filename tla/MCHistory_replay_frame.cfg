SPECIFICATION Spec
CONSTANTS
  Products = {1, 2}
  Stock <- MCStock
  Readers = {r1, r2}
  DayTicks = 1
  WeekDays = 2
  CheckpointEvery = 2
  Horizon = 3
  MaxFrames = 1
  Limits <- MCLimits
INVARIANT FrameAgents
