CONSTANTS
  c1 = c1
  c2 = c2
  s1 = s1
  s2 = s2
  NULL = NULL
  Task = {1, 2, 3, 4}
  CPU = {c1, c2}
  Period <- MCPeriod
  Home <- MCHome
  Setups <- AllSetups
  Leaving = {3}
  SrpSem = {s1, s2}
  OpenHeld = FALSE
SPECIFICATION Spec
CHECK_DEADLOCK FALSE
INVARIANTS
  NoPanic
  OnePlace
  NoMissedWakeUp
  HighestWaiter
PROPERTIES
  ImplementsFIFOLock
