SPECIFICATION Spec
CONSTANTS
  alice = alice
  bob = bob
  Users <- MCUsers
  PayoutMilli = 4
  MaxQuantity = 4
  FeeBps = 3300
  InitialCash = 9
  InitialYes <- MCYes
  InitialNo <- MCNo
  Requests <- TradingRequests
  Redemptions = {1}
  Suspendable = {bob}
  CloseTime = 2
  MaxOrders = 3
  MaxActivePerUser = 2
  MaxTime = 2
CHECK_DEADLOCK FALSE
INVARIANTS
  NoInternalError
  ContractsBacked
  PriceProtected
  EventsInSequence
  LifecycleDrained
