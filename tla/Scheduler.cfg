SPECIFICATION FairSpec
CONSTANTS
  Callers = {c1, c2}
  Timers = {t1, t2, t3}
  Reasons = {"update", "force"}
  Rows = 1
  ImageChoice = {TRUE}
  MinInterval = 1
  MaxRequests = 2
  None = None
INVARIANTS PendingHasADrawer FlushHasDrawn CoalescingLosesNothing
PROPERTIES EngineTouchedWhenIdle ImplementsFrameServer LatestIsDrawn CallsReturn
CHECK_DEADLOCK FALSE
