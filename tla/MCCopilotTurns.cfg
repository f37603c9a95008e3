SPECIFICATION FairSpec
CONSTANTS
  MaxPrompts = 1
  Steers = {s1}
  MaxStops = 1
  MaxAborts = 1
  Stalls = TRUE
  OldCLI = FALSE
  MaxEvents = 3
INVARIANTS
  TurnIsReal
  OvertakenIsAborted
PROPERTIES
  StopEnds
CHECK_DEADLOCK FALSE
