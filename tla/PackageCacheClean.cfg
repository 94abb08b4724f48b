SPECIFICATION CleanSpec
CONSTANTS
  Test = {t1}
  Solo = {}
  Commits = {a, b}
  Past = a
  RefDir = RefDir
  None = None
  Torn = Torn
  MaxJobs = 1
  MaxMoves = 0
  MaxFaults = 1
INVARIANTS
  HandedWhole
CHECK_DEADLOCK FALSE
