SPECIFICATION FairSpec
CONSTANTS
  MaxTerminalInputQueue = 2
  MaxKeys = 5
  MaxMessages = 4
  None = None
CHECK_DEADLOCK FALSE
INVARIANTS HeldIsTimed KeysOnceInOrder VerdictIsForTheKey
PROPERTIES NobodyOvertakes KeysAreReleased
