SPECIFICATION Spec
CONSTANTS
  Callers = {c1, c2}
  Sites = {s1, s2, s3}
  NoSite = NoSite
  TableLen = 2
  Cores = 3
  PerWorker = 1
  OfferNs = 2
  WorkerNs = 1
  Resample = 2
  ResamplePar = 2
  Probe = 9
  Lens = {4}
  Times = {1, 9}
  MaxOffers = 4
  MayPanic = TRUE
SYMMETRY Interchange
INVARIANTS
  SitesKept
  SkipExact
  TwoInARow
CHECK_DEADLOCK FALSE
