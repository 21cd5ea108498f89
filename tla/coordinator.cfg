SPECIFICATION Spec
CONSTANTS
  c1 = c1
  c2 = c2
  c3 = c3
  s1 = s1
  s2 = s2
  s3 = s3
  s4 = s4
  v1 = v1
  v2 = v2
  Caller <- MCCaller
  Subscriber <- MCSubscriber
  Ss <- MCSs
  Conf <- MCConf
INVARIANTS
  CoordinatorTypeOK
  ConfigLatest
  NotifiedInOrder
PROPERTIES
  CallsReturn
  KeepsCoordinatorPromise
CHECK_DEADLOCK FALSE
