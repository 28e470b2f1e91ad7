CONSTANTS
  Prices <- MCPrices
  MinSize = 2
  TierShares = 3
  Table <- MCTable
  GapWide = 1
  GapMid = 1
  GapVeto = 2
  Probe = 1
  HighGate <- MCHighGate
  MinCoeff <- MCMinCoeff
  FineTick = FALSE
  Wall = 3
  Cumulative = 5
  SizeMode = "balance"
  Custom = 0
  Modes = {"gap_single", "legacy_wall"}
  OtherBooks <- MCOtherBooks
  Ask <- MCAsk
  MinPriceC = 3
  MaxPriceC = 5
  MaxSpreadC = 4
  Spreads = {4, 6}
  Usds = {12, 16, 40}
  MaxShares = 5
  MaxOrders = 3
  MaxMoves = 2
SPECIFICATION FairSpec
PROPERTIES PlanWithinExposure Converges NoChurn ChecksAgree ComesToRest
CHECK_DEADLOCK FALSE
