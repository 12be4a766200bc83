SPECIFICATION FairSpec
CONSTANTS
  w1 = w1
  w2 = w2
  threads <- MCThreads
  Options <- MCOptions
INVARIANT TypeOK
INVARIANT StartedMeansReady
INVARIANT CheckpointsAlone
INVARIANT QuietAtTheEnd
INVARIANT SuccessIsReal
INVARIANT ReportedRunSucceeds
 
CHECK_DEADLOCK FALSE
