SPECIFICATION FairSpec
CONSTANTS
  Test = {t1, t2}
  Solo = {p1}
  Commits = {a, b}
  Past = a
  RefDir = RefDir
  None = None
  Torn = Torn
  MaxJobs = 2
  MaxMoves = 1
  MaxFaults = 1
INVARIANTS
  KeyedRight
  OneClone
  PinBuilt
  PinFresh
PROPERTIES
  ResolutionsEnd
CHECK_DEADLOCK FALSE
