\* The statistics are consistent, whoever reads them and when.
SPECIFICATION Spec
CONSTANTS
  w1 = w1
  w2 = w2
  threads <- MCThreads
  NSlots = 2
  MaxEvents = 2
  MaxCheckpoints = 1
  Options <- MCOptions
INVARIANT TypeOK
INVARIANT PercentileFits
INVARIANT CountedIsTimed
INVARIANT FinalBooksAgree
 
 
PROPERTY EveryLatencyReportedOnce
\* A run may end.
CHECK_DEADLOCK FALSE
