SPECIFICATION Spec
CONSTANTS
  a1 = a1
  b1 = b1
  a2 = a2
  DCmd <- TwoGenDCmd
  GenOf <- TwoGenOf
  MaxGen = 2
  ChanCap = 1
  Limit = 1
  Interval = 1
  MaxTime = 1
  MaxResets = 0
INVARIANTS
  NoSendOnClosed
CHECK_DEADLOCK FALSE
