SPECIFICATION Spec
CONSTANTS
  Commits = {c1, c2, c3}
  None = None
INVARIANT NeverBricked
CHECK_DEADLOCK FALSE
