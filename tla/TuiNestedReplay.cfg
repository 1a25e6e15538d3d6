SPECIFICATION Spec
CONSTANTS
  Lengths = {1, 3}
  ReadOnly = FALSE
  MaxLive = 1
  None = None
INVARIANT LiveViewIsLive
CHECK_DEADLOCK FALSE
