SPECIFICATION Spec
CONSTANTS
  Runs = {1, 2}
  Readers = {q1, q2}
  Products = {1, 2}
  Tools = {"end_of_step", "update", "search", "review"}
  ListingTools = {"update"}
  SourcingTools = {"search"}
  DayTicks = 2
  WeekDays = 1
  MonthDays = 2
  Period = 2
  Horizon = 3
  Capital = 0
  ShelfCapacity = 2
  MaxPoints = 3
  Limits <- MCLimits
SYMMETRY SameReaders
INVARIANTS
  CachedIsOfThisEnd
  ReplyNotStale
  MergeIsRebuild
  ChartsAddUp
  TraceFresh
