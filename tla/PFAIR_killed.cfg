CONSTANTS
  NULL = NULL
  NO_CPU = NO_CPU
  Task = {1, 2, 3, 4, 5}
  PFAIR_MAX_PERIOD = 9
  Setups <- Killed
SPECIFICATION Spec
CHECK_DEADLOCK FALSE
INVARIANTS
  NoDangling
