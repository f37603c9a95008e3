SPECIFICATION Spec
CONSTANTS
  MaxPrompts = 1
  Steers = {s1, s2}
  MaxStops = 1
  MaxAborts = 1
  Stalls = FALSE
  OldCLI = FALSE
  MaxEvents = 4
INVARIANTS
  SteerHasFate
CHECK_DEADLOCK FALSE
