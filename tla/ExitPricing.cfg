SPECIFICATION Spec
CONSTANTS
  Percent = 30
  Cents = 1
  Prices = {1, 4}
  BidBooks <- MCBidBooks
  Asks = {0, 4}
  Settings <- MCSettings
  MaxBuys = 2
  MaxMoves = 1
CHECK_DEADLOCK FALSE
INVARIANTS TypeOK LossHasReason
PROPERTIES CleanTickProtects NoExitChurn
