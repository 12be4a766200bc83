SPECIFICATION Spec
CONSTANTS
  w1 = w1
  w2 = w2
  Workers <- MCWorkers
  QueueLen = 2
  MaxGen = 4
  MaxCount = 6
  Options <- MCRateTimed
  NULL = NULL
INVARIANT NoStrandedWorker
CHECK_DEADLOCK FALSE
