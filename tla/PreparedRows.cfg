SPECIFICATION Spec
CONSTANTS
  Cols = {1}
  MaxBlocks = 2
  MaxBody = 2
  Cap = 1
  Worlds <- MCTyping
  None = None
CHECK_DEADLOCK FALSE
INVARIANT PreparedIsTheFrame
