SPECIFICATION FairSpec
CONSTANTS
  Agents = {a1, a2}
  Orders = {o1, o2}
  Offers <- MCPlainOffers
  Fine <- MCHarshFine
  FulfillmentFee = 0
  ReverseFee = 0
  InitialBalance = 4
  InitialDeposit = 1
  Promised = 1
  NormalDelay = 1
  Horizon = 2
  DrainSafety = 6
  ThrottleK = 1
INVARIANTS
  NoZombie
PROPERTIES
  DeathIsFinal
  RunFinishes
