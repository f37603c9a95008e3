\* The provider starts turns by itself, takes uncertain prompts late, runs
\* subagents and detaches, and the in-use check of an imported Thread releases
\* the lock.
SPECIFICATION Spec
CONSTANTS
  r1 = r1
  r2 = r2
  h1 = h1
  None = None
  Prompts = {r1, r2}
  Handlers = {h1}
  MaxQueue = 2
  MaxKicks = 1
  MaxOwn = 1
  Unprompted = TRUE
  Subagents = TRUE
  Detaches = TRUE
  External = TRUE
SYMMETRY Symmetry
INVARIANTS
  OldestFirst
  WorkingIsReal
  ShutdownDetaches
  PutAwayIsQuiet
PROPERTIES
  ImplementsDelivery
  KickKept
CHECK_DEADLOCK FALSE
