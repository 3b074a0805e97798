SPECIFICATION Spec
CONSTANTS
  Products = {p, q}
  Models = {"beta_event_v1", "order_outcome_v3", "order_outcome_v4"}
  Outcomes = {"settled_normal", "stockout", "settled_bad_review", "cancelled"}
  Public = {1}
  DayTicks = 3
  Period = 3
  LastTick = 5
  OrderBound = 2
  RestartBound = 2
  ShelfBound = 3
INVARIANTS
  RatesUnbroken
PROPERTIES
  DayByDay
CHECK_DEADLOCK FALSE
