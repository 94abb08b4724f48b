SPECIFICATION FairSpec
CONSTANTS
  Threads = {main, h1, h2}
  Main = main
  Outermost = "outer"
  None = None
  Offers <- TreeOffers
  NBlocks <- TreeBlocks
  MadeIn <- TreeMadeIn
  MayTrap <- TreeMayTrap
INVARIANTS
  ParentsLive
  LocalsFollowBlock
  NoWaitCycle
PROPERTIES
  NestEnds
CHECK_DEADLOCK FALSE
