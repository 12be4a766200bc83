SPECIFICATION FairSpec
CONSTANTS
  t1 = t1
  t2 = t2
  t3 = t3
  Threads <- MCThreads
  SerialMod = 2
  CanFail = TRUE
  NoThread = NoThread
INVARIANT TypeOK
INVARIANT SleepersAreCurrent
PROPERTY IsRendezvous
PROPERTY EveryoneLeaves
CHECK_DEADLOCK FALSE
