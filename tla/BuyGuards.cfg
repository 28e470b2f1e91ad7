CONSTANTS
  MaxOrders = 2
  Passes = {loop}
  AtOnce = 1
  MaxFaults = 1
SPECIFICATION FairSpec
PROPERTIES BlacklistedBuysLeave UmaBuysLeave RewardChurnEnds GoodMarketReturns
CHECK_DEADLOCK FALSE
