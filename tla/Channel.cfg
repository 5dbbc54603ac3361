SPECIFICATION FairSpec

CONSTANTS
  m1 = m1
  m2 = m2
  Messages <- TwoMessages
  PrefetchCount = 1
  Retries = 2
  MaxLosses = 1

INVARIANT TypeOK
INVARIANT OneEndPerLoss
PROPERTY AtLeastOnceKept
PROPERTY EveryMessageEnds

CHECK_DEADLOCK FALSE
