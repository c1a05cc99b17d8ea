SPECIFICATION LedgerSpec
CONSTANTS
  PayoutMilli = 5
  MaxQuantity = 3
  FeeBps = 3300
  MaxExecuted = 30
  SetMilli = 3
  MaxHeld = 4
  Amounts = {1, 2}
  MaxFills = 4
  alice = alice
  bob = bob
  k1 = k1
  k2 = k2
  Traders <- MCTraders
  TradeKeys <- MCKeys
  CostMilli <- MCCost
  SubsidyMilli = 4
  ContractMilli = 5
  LmsrFeeBps = 3300
  MaxContracts = 3
  StartMilli = 9
  QuoteTtl = 1
  ClosesAt = 2
  LastTime = 2
  MaxQuotes = 3
  MaxVersion = 4
SYMMETRY MCSymmetry
CONSTRAINT ExecutedBound
CHECK_DEADLOCK FALSE
INVARIANTS
  ReserveCoversFills
  FeesTelescope
  BasisReconciles
  ProfitExplained
  MakerSolvent
  TradedAsQuoted
