SPECIFICATION FairSpec
CONSTANTS
  w1 = w1
  w2 = w2
  Writer = {w1, w2}
  slot_count = 2
  UINT_MAX = 3
  MaxEvents = 4
  MaxRead = 2
  FaultBytes = {2}
  Nothing = Nothing
  Damaged = Damaged
INVARIANTS
  SlotExclusive
  Occupancy
  Accounted
PROPERTIES
  ImplementsFIFO
  Drained
