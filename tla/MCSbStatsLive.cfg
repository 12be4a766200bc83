\* The final report is made.
SPECIFICATION FairSpec
CONSTANTS
  w1 = w1
  w2 = w2
  threads <- MCOneThread
  NSlots = 1
  MaxEvents = 2
  MaxCheckpoints = 1
  Options <- MCOptions
PROPERTY FinalReportMade
CHECK_DEADLOCK FALSE
