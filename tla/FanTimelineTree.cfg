SPECIFICATION TFairSpec
CONSTANTS
  Groups <- TreeGroups
  RootFan = "outer"
  Top = "top"
  Fans <- TreeFans
  StartedBy <- TreeStartedBy
  Scripts <- TreeScripts
INVARIANTS
  TrapIsFirst
PROPERTIES
  LooksSequential
  Ends
CHECK_DEADLOCK FALSE
