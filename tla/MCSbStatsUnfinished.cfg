\* The comment of sysbench.c on the forced shutdown does not hold.
SPECIFICATION Spec
CONSTANTS
  w1 = w1
  w2 = w2
  threads <- MCOneThread
  NSlots = 1
  MaxEvents = 2
  MaxCheckpoints = 1
  Options <- MCForced
INVARIANT UnfinishedAreRunning
CHECK_DEADLOCK FALSE
