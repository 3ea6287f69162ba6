SPECIFICATION Spec
CONSTANTS
  MaxUndo = 3
  MaxEntries = 3
  MaxHistory = 2
  Radix = 3
  Worlds <- MCWorlds
CHECK_DEADLOCK FALSE
INVARIANTS KillsComeBack MarkersExpand
PROPERTIES KeepsUndoLine
