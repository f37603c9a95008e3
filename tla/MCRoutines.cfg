SPECIFICATION FairSpec
CONSTANTS
  MaxTime = 3
  MaxFirings = 2
  MaxOwner = 1
  MaxRestarts = 1
  Day = 2
  Step = 1
  Limit = 1
  PerDay = 1
  Keep = 2
INVARIANTS
  NoOverlap
  ActiveIsRecorded
  MissedRunOnce
PROPERTIES
  RunEnds
CHECK_DEADLOCK FALSE
