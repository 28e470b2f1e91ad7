\* Two manual scans against three engine generations.
CONSTANTS
  MaxScans = 2
  MaxGen = 3
SPECIFICATION Spec
INVARIANTS StuckOnlyByCut
PROPERTIES AutoRoundsUseWholePools
CHECK_DEADLOCK FALSE
