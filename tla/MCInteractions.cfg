\* A permission and a question, two clients and a change of mode.
SPECIFICATION Spec
CONSTANTS
  None = None
  Permissions = {p1}
  Questions = {q1}
  Clients = {c1, c2}
  Setters = {s1}
  Early = TRUE
  Lost = TRUE
SYMMETRY Symmetry
INVARIANTS
  FirstAnswerWins
  YoloLeavesNone
  ModeIsRuntimes
CHECK_DEADLOCK FALSE
