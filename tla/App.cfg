SPECIFICATION Spec
CONSTANTS
  c1 = c1
  c2 = c2
  d1 = d1
  d2 = d2
  o1 = o1
  o2 = o2
  None = None
  JobCap = 1
  CmdCap = 1
  Worlds <- MCWorlds
CHECK_DEADLOCK FALSE
INVARIANTS DialogsAnsweredOnce KeysReachAVisibleOverlay NewestAnswerShown ImagesInOnePlace
PROPERTIES LoopGetsOn
