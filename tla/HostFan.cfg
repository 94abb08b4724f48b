CONSTANTS
  NElems = 3
  MaxWorkers = 2
  PerWorker = 1
  Cap = 4
  Reset = 1
  Watchdog = TRUE
  MaxOffers = 2
SPECIFICATION FairSpec
INVARIANTS
  BudgetExact
  AloneReachesCap
  ServedComplete
  DealAlone
PROPERTIES
  OfferEnds
CHECK_DEADLOCK FALSE
