SPECIFICATION FairSpec
CONSTANTS
  Threads = {main, h1}
  Main = main
  Outermost = "outer"
  None = None
  Offers <- TrapOffers
  NBlocks <- TrapBlocks
  MadeIn <- TrapMadeIn
  MayTrap <- TrapMayTrap
PROPERTIES
  TrapExits
CHECK_DEADLOCK FALSE
