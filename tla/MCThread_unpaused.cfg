\* A subagent asks, its turn is stopped and the conversation is lost while the
\* queue's head is on its way.
SPECIFICATION Spec
CONSTANTS
  r1 = r1
  r2 = r2
  r3 = r3
  h1 = h1
  h2 = h2
  None = None
  Prompts = {r1, r2, r3}
  Handlers = {h1, h2}
  MaxQueue = 2
  MaxKicks = 1
  MaxOwn = 0
  Unprompted = FALSE
  Subagents = TRUE
  Detaches = FALSE
  External = FALSE
SYMMETRY Symmetry
PROPERTIES
  NeverFollowsStop
CHECK_DEADLOCK FALSE
