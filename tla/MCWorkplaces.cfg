SPECIFICATION Spec
CONSTANTS
  c1 = c1
  c2 = c2
  r1 = r1
  r2 = r2
  o = o
  Folder = Folder
  None = None
  Owner = Owner
  Creates = {c1, c2}
  Requests = {r1, r2}
  Old = {o}
  Kinds = {"folder", "branch", "worktree", "again", "spawn", "here"}
  MaxSpawns = 1
  MaxOwner = 2
SYMMETRY MCSymmetry
INVARIANTS
  WritesAreQuiet
  WorkingHasFolder
  AllOrNothing
  RequestsAreAnswered
  NoOrphans
CHECK_DEADLOCK FALSE
