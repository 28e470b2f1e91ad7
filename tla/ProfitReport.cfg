CONSTANTS
  Wallets = {w1}
  MaxDay = 3
  MaxStarts = 2
  DaysPerWeek = 2
  MaxFaults = 1
SPECIFICATION FairSpec
INVARIANTS ReportedOnce
PROPERTIES ReportAfterRebuildIsWhole RowsBecomeWhole ReportIsSent
CHECK_DEADLOCK FALSE
