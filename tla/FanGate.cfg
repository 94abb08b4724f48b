SPECIFICATION FairSpec
CONSTANTS
  Callers = {c1, c2}
  Hands = {h1}
  NoGate = NoGate
  NSlots = 1
  MaxBlocks = 2
  MaxOffers = 1
  Cores = 3
  MaxUnwinds = 1
  SameRoot = TRUE
INVARIANTS
  TypeOK
  NoUseAfterFree
  CountersExact
  GlobalsExact
  BlockTakenOnce
  ReturnComplete
PROPERTIES
  OfferSpec
  OfferReturns
CHECK_DEADLOCK FALSE
