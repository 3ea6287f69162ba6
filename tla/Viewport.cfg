SPECIFICATION Spec
CONSTANTS
  Worlds <- MCWorlds
INVARIANTS ScreenIsTheBackBuffer SurroundingsAreKept
