SPECIFICATION FairSpec
CONSTANTS
  a1 = a1
  b1 = b1
  a2 = a2
  DCmd <- OneGenDCmd
  GenOf <- OneGenOf
  MaxGen = 1
  ChanCap = 1
  Limit = 1
  Interval = 1
  MaxTime = 1
  MaxResets = 1
INVARIANTS
  TypeOK
  NoExitLost
  RestartBudget
PROPERTIES
  EndedIsFinal
  ExitIsHandled
CHECK_DEADLOCK FALSE
