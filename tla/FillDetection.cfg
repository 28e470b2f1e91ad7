\* Two fills of one order within two seconds; the worker restarts any number of times.
CONSTANTS
  f1 = f1
  f2 = f2
  o1 = o1
  Fills <- MCFills
  Orders <- MCOrders
  OrderOf <- MCOrderOf
  NoFill = NoFill
  MayPrime = TRUE
  MayNotPrime = TRUE
  MaxTime = 2
SPECIFICATION FairSpec
INVARIANTS NoReplayAfterRecovery
PROPERTIES ActsAtMostOnce NoPhantomCancel EveryFillNoticed
\* A process that went down need not be started again.
CHECK_DEADLOCK FALSE
