\* One wallet, two threads that serve requests, three control calls (start, restart, stop
\* in any order); threads scheduled fairly.
CONSTANTS
  Wallets = {w1}
  Operators = {1, 2}
  NoWallet = NoWallet
  CancelMayFail = TRUE
  MaxCalls = 3
  MaxWorkers = 3
SPECIFICATION FairSpec
INVARIANTS OneCurrentLoop RegistryIsExact
PROPERTIES StoppedEngineStartsNoPass StaleLoopEnds StopDrains
\* After its last call the operator may leave the engine stopped for good.
CHECK_DEADLOCK FALSE
