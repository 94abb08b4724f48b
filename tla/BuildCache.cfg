SPECIFICATION FairSpec
CONSTANTS
  Procs = {p1, p2}
  Native = {n1, n2}
  Wasm = {w1}
  Warm = {n1}
  Alien = alien
  None = none
  Torn = torn
  Variants = {1}
  MaxRuns = 2
  MaxFaults = 1
INVARIANTS
  IntactIsRight
  RightProgram
  FailsForAReason
PROPERTIES
  CommandsEnd
CHECK_DEADLOCK FALSE
