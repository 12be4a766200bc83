SPECIFICATION FairSpec
CONSTANTS
  w1 = w1
  w2 = w2
  Consumers <- MCConsumers
  Size = 4
  CounterMod = 8
  Starts <- MCStarts
  MaxEvents = 6
  Empty = Empty
INVARIANT TypeOK
PROPERTY RingIsFifo
PROPERTY QueuedIsTaken
CHECK_DEADLOCK FALSE
