SPECIFICATION MainSpec
CONSTANTS
  a1 = a1
  a2 = a2
  DCmd <- MCDCmd
  GenOf <- MCGenOf
  MaxGen = 2
  ChanCap = 1
  Limit = 1
  Interval = 1
  MaxTime = 1
  MaxResets = 0
  MaxSignals = 1
INVARIANTS
  ChildrenGone
CHECK_DEADLOCK FALSE
