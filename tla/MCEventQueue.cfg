SPECIFICATION FairSpec
CONSTANTS
  w1 = w1
  w2 = w2
  Workers <- MCWorkers
  QueueLen = 3
  MaxGen = 4
  MaxCount = 6
  Options <- MCOptions
  NULL = NULL
INVARIANT TypeOK
INVARIANT PendingStampsIntact
INVARIANT OwnStamp
INVARIANT EventLimit
INVARIANT ConcurrencyAccounted
PROPERTY ThreadsStop
CHECK_DEADLOCK FALSE
