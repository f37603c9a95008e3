SPECIFICATION FairSpec
CONSTANTS
  Threads = {t1}
  News = {n1}
  Jobs = {j1}
  None = None
  MaxUses = 2
  MaxEvents = 2
INVARIANTS
  RestartSparesThreads
PROPERTIES
  OldIsReplaced
  StartsGoOn
  WantedRestarts
CHECK_DEADLOCK FALSE
