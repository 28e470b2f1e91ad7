SPECIFICATION Spec
CONSTANTS
  Percent = 30
  Cents = 1
  Prices = {1, 4}
  BidBooks <- MCBidBooks
  Asks = {0, 4}
  Settings <- MakerOnly
  MaxBuys = 2
  MaxMoves = 1
CHECK_DEADLOCK FALSE
INVARIANT LossOnlyByStop
