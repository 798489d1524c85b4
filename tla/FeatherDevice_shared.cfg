SPECIFICATION FairSpec
CONSTANTS
  p1 = p1
  p2 = p2
  m1 = m1
  m2 = m2
  e1 = e1
  e2 = e2
  Proc = {p1, p2}
  Minor = {m1}
  Event = {e1, e2}
  MinorOf <- SharedMinor
  NoProc = NoProc
  NoMemory = TRUE
  CallbacksInTime = TRUE
  Allocated = TRUE
  MaxOpens = 4
  MaxAvail = 1
CHECK_DEADLOCK FALSE
INVARIANTS
  TableAgrees
PROPERTIES
  Shutdown
