SPECIFICATION Spec
CONSTANTS
  Cols = {1, 2}
  MaxBlocks = 3
  MaxBody = 2
  Cap = 1
  Worlds <- MCWorlds
  None = None
CHECK_DEADLOCK FALSE
INVARIANTS FrameIsCurrent HintFitsTheEngine GraphicsAreLoaded
VIEW Composed
