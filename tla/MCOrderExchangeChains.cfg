SPECIFICATION Spec
CONSTANTS
  alice = alice
  bob = bob
  Users <- MCUsers
  PayoutMilli = 4
  MaxQuantity = 4
  FeeBps = 3300
  InitialCash = 9
  InitialYes <- MCYes
  InitialNo <- MCNo
  Requests <- ChainRequests
  Redemptions = {1}
  Suspendable = {}
  CloseTime = 1
  MaxOrders = 4
  MaxActivePerUser = 2
  MaxTime = 0
CHECK_DEADLOCK FALSE
INVARIANTS
  CustodyMatches
  OrdersBacked
  WealthExplained
