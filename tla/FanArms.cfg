CONSTANTS
  top = top left = left right = right
  l1 = l1 l2 = l2 r1 = r1 r2 = r2
  Root = top
  Arms <- MCArms
  Block <- MCBlock
  Fallible = {left, l1, l2, r1}
  Effect = {top, left}
  MaxThreads = 2
  MayPanic = TRUE
SPECIFICATION FairSpec
INVARIANTS
  CountExact
  LiveBound
  ArmsRunOnce
PROPERTIES
  BlocksEnd
CHECK_DEADLOCK FALSE
