SPECIFICATION FairSpec
CONSTANTS
  Queue = 2
  Attempts = 1
  Kinds = {"tool", "thought"}
  MaxChanges = 2
  MaxEvents = 2
INVARIANTS
  BodyIsAsOf
  RowIsRight
PROPERTIES
  Converges
CHECK_DEADLOCK FALSE
