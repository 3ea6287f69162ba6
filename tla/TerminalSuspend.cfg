SPECIFICATION Spec
CONSTANTS
  EventCap = 1
  Worlds <- MCSuspendWorlds
CHECK_DEADLOCK FALSE
INVARIANTS SuspendIsSurvived
