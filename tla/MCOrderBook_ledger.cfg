SPECIFICATION Spec
CONSTANTS
  Agents = {a1}
  Orders = {o1, o2, o3}
  Offers <- MCMixedOffers
  Fine <- MCFine
  FulfillmentFee = 1
  ReverseFee = 1
  InitialBalance = 8
  InitialDeposit = 2
  Promised = 1
  NormalDelay = 1
  Horizon = 2
  DrainSafety = 4
  ThrottleK = 2
SYMMETRY Symmetry
INVARIANTS
  AccountsRight
  PenaltyAudit
  OnSchedule
  EndingsRight
PROPERTIES
  LegalTransitions
