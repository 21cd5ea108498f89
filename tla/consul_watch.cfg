SPECIFICATION MCSpec
CONSTANTS
  c1 = c1
  c2 = c2
  s1 = s1
  s2 = s2
  Cmd = {c1, c2}
  Service = {s1, s2}
  Offers <- MCOffers
  None = None
  MaxStarts = 1
  MaxFailures = 1
INVARIANTS
  ConsulTypeOK
  ListRegistered
PROPERTIES
  RunningRegistered
