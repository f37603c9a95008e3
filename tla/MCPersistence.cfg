\* Two Threads, a handler, the loop and Main, and saves that may fail.
SPECIFICATION Spec
CONSTANTS
  t1 = t1
  t2 = t2
  r1 = r1
  h1 = h1
  None = None
  Threads = {t1, t2}
  Requests = {r1}
  Handlers = {h1}
  MaxChanges = 1
INVARIANTS
  NothingForgotten
  WakeOrShown
  HeardIsDurable
  RemovedStaysRemoved
CHECK_DEADLOCK FALSE
