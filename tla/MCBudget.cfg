SPECIFICATION FairSpec
CONSTANTS
  WrapCalls = 1
  MaxWraps = 2
  MaxSets = 1
  Background = TRUE
INVARIANTS
  WrapUpIsReal
PROPERTIES
  TurnWrapsUp
CHECK_DEADLOCK FALSE
