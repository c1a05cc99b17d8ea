SPECIFICATION Spec
CONSTANTS
  w1 = w1
  w2 = w2
  t1 = t1
  t2 = t2
  t3 = t3
  PositionCount = 3
  Portfolios <- MCPortfolios
  PayoutMilli = 3
  Admins = {"ann", "ben"}
  Workers <- MCWorkers
  BatchSizes = {1, 2}
  Tokens <- MCTokens
  NoToken = NoToken
  Lease = 1
  MaxAge = 2
  MaxFaults = 0
CHECK_DEADLOCK FALSE
INVARIANTS
  SeparateApprover
