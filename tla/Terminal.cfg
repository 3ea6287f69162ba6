SPECIFICATION Spec
CONSTANTS
  EventCap = 1
  Worlds <- MCWorlds
CHECK_DEADLOCK FALSE
INVARIANTS AnswersReachTheirQuery KeysSurvive StopRestores
PROPERTIES CallsReturn
