SPECIFICATION Spec
CONSTANTS
  Products = {p, q}
  Prices = {1}
  MaxActive = 1
  Period = 1
  TicksPerDay = 2
  ReportDays = {0, 1}
  Polls = {x}
  Prompt = TRUE
  LastTick = 3
  OrderBound = 2
  ActBound = 4
  CrashBound = 1
INVARIANTS
  ChangesReportedOnce
  ReviewCountsActivation
  AnswersTrue
CHECK_DEADLOCK FALSE
