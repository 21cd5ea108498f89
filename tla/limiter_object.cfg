SPECIFICATION LimiterSpec
CONSTANTS
  Limit = 3
  Interval = 1
  MaxTime = 12
PROPERTY NextNotEarlier
