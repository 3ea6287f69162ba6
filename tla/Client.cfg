SPECIFICATION FairSpec
CONSTANTS
  t1 = t1
  t2 = t2
  s1 = s1
  s2 = s2
  Callers = {t1, t2}
  Subs = {s1, s2}
  Initial = s1
  DispatchBuffer = 1
  EventBuffer = 1
  Nobody = Nobody
  Done = Done
  Worlds <- MCWorlds
CHECK_DEADLOCK FALSE
INVARIANTS NoSendOnClosed ClosedIsQuiet
PROPERTIES FramesInOrder EverybodyReturns
