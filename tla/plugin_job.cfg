CONSTANTS
  None = None
  MaxJobs = 1
  Faults = {"restart", "lost", "silent", "refused", "look", "failsafe"}
  MaxEvents = 4
SPECIFICATION FairSpec
INVARIANT TypeOK
INVARIANT AtMostOneLate
INVARIANT ResultsAgree
PROPERTY StoppedEnds
PROPERTY JobLeavesFleet
PROPERTY FailedComesDown
CHECK_DEADLOCK FALSE
