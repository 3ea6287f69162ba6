SPECIFICATION Spec
CONSTANTS
  Cols = {1}
  MaxBlocks = 3
  MaxBody = 2
  Cap = 1
  Worlds <- MCPictures
  None = None
CHECK_DEADLOCK FALSE
INVARIANT OwnPicture
