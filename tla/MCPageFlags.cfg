CONSTANTS
  t1 = t1
  t2 = t2
  n1 = n1
  n2 = n2
  n3 = n3
  s1 = s1
  s2 = s2
  Loggers <- MCLoggers
  InoOf <- MCInoOf
  NidOf <- MCNidOf
  SegOf <- MCSegOf
  NatBlockOf <- MCNatBlockOf
  SitBlockOf <- MCSitBlockOf
  ENABLE_F2FSJ = TRUE
SPECIFICATION Spec
PROPERTY LogCollectionCompletes
CHECK_DEADLOCK FALSE
