CONSTANTS
  a1 = a1
  a2 = a2
  a3 = a3
  None = None
  Attempt <- MCAttempt
  MayCrash = TRUE
SPECIFICATION FairSpec
INVARIANTS TypeOK MutualExclusion NoStaleDescription
PROPERTIES ReportExplained EveryAttemptEnds ImplementsMutex
CHECK_DEADLOCK FALSE
