SPECIFICATION FairSpec
CONSTANTS
  Callers = {c1, c2}
  NoCaller = NoCaller
  Cap = 2
  Helpers = 1
  MaxOffers = 2
  PollMayMiss = TRUE
  SpawnMayFail = TRUE
INVARIANTS
  SomeHandAwake
  PollingExact
PROPERTIES
  OfferHelped
CHECK_DEADLOCK FALSE
