\* The owner allows, denies, resets and switches; sends are lost and refused.
SPECIFICATION Spec
CONSTANTS
  Threads = {a, b}
  Msgs = {m1, m2}
  None = None
  Limit = 2
  MaxOneWay = 2
  MaxWaiting = 2
  MaxQueue = 2
  Keep = 2
  MaxPairs = 2
  MaxAllow = 2
  MaxRevokes = 1
  MaxDecisions = 2
SYMMETRY Sym
INVARIANTS
  StatusIsTrue
  UsedCoversDeliveries
  AnsweredOnce
PROPERTIES
  RevokedIsNotSent
CHECK_DEADLOCK FALSE
