SPECIFICATION ObsSpec
CONSTANTS
  a1 = a1
  b1 = b1
  p = p
  q = q
  None = None
  DCmd <- ObsDCmd
  GenOf <- ObsGenOf
  Label <- ObsLabel
  Scraped <- ObsScraped
  Addr <- ObsAddr
  ListensOn <- ObsListensOn
  Unparsable <- ObsUnparsable
  MaxGen = 1
  ChanCap = 1
  Limit = 1
  Interval = 1
  MaxTime = 1
  MaxResets = 0
INVARIANTS
  ObsTypeOK
  NilOnlyIfRestarted
  AnswerComplete
  GaugeHonest
CHECK_DEADLOCK FALSE
