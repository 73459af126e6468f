SPECIFICATION FairSpec
\* an application that was decided comes to rest
CHECK_DEADLOCK FALSE
CONSTANTS
  None = None  OtherCid = OtherCid
  w1 = w1  d1 = d1  d2 = d2  j1 = j1  j2 = j2
  t1 = t1  t2 = t2  k1 = k1  k2 = k2
PROPERTIES
  CompletedIsAccounted
  QueuesDrain
