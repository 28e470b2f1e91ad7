\* Two positions of up to two lots and one; two lots of cash are enough.
CONSTANTS
  t1 = t1
  t2 = t2
  Tokens <- MCTokens
  NoToken = NoToken
  Cap <- MCCap
  Target = 2
SPECIFICATION Spec
INVARIANTS OneSell
PROPERTIES NoOverLiquidation
CHECK_DEADLOCK FALSE
