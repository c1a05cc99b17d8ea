SPECIFICATION BookSpec
CONSTANTS
  alice = alice
  bob = bob
  Traders <- MCTraders
  Asks <- MCAsks
  PayoutMilli = 3
  MaxQuantity = 2
  MaxSubmitted = 4
SYMMETRY MCSymmetry
CHECK_DEADLOCK FALSE
INVARIANTS
  PriceTimePriority
  FilledAsDefined
  SelfTradePrevented
