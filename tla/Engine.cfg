SPECIFICATION EngineSpec
CONSTANTS
  x = x
  y = y
  z = z
  blank = blank
  box = box
  Blank = blank
  Box = box
  Still = z
  ResyncTailLookback = 3
  ResyncTailSamples = 2
  Versions = {x, y}
  MaxRows = 4
  Heights = {1, 2}
  InPlace = FALSE
  Mux = FALSE
  Events = {"shrink", "overlay", "replace", "fail", "snapshot", "retreat", "nohint"}
  Worlds = {{"edit", "tall", "long"}, {"edit", "overlay", "long"}, {"edit", "force", "fullscreen"}, {"nocursor", "force"}, {"edit", "fail", "fullscreen"}, {"winch"}, {"edit", "replace"}, {"edit", "replace", "shrink"}, {"edit", "snapshot", "retreat", "nohint", "long", "low"}}
  MaxHistory = 3
SYMMETRY Renaming
CHECK_DEADLOCK FALSE
INVARIANTS PhysicalHistory FrameOnScreen OnceInOrder NothingIsLost StaleIsOwed MarksOrdered
PROPERTY SnapshotsDriftQuietly
VIEW Live
