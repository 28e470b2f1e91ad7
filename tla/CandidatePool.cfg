CONSTANTS
  Wallets = {w1, w2}
  Cats = {"sports", "politics"}
  Cases <- MCCases
  Edits <- MCEdits
  NoDate = NoDate
  NoLimit = NoLimit
SYMMETRY Alike
SPECIFICATION CandidateSpec
INVARIANTS NothingWantedIsLost PassingMarketSuits PassingMarketIsPriced
CHECK_DEADLOCK FALSE
