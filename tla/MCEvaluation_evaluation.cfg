SPECIFICATION Spec
CONSTANTS
  Prices <- MCPrices
  Reports <- MCReports
  Limits <- MCLimits
  Products = {p1, p2, p3}
  Trigger = 4
  Keep = 3
  MaxHops = 2
  MaxRetries = 1
  SeedCount = 2
  Procs = {1, 2}
  PerDay = 2
  MaxParallel = 2
INVARIANTS
  LedgerAddsUp
  HealthReported
  HistorySound
  ShelfKept
  BatchAccounts
  HistoryKeeps
SYMMETRY SameProducts
CHECK_DEADLOCK FALSE
