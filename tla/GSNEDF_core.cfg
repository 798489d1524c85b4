SPECIFICATION Spec
CONSTANTS
  c1 = c1
  c2 = c2
  CPU = {c1, c2}
  Task = {1, 2, 3}
  NULL = NULL
  NO_CPU = NO_CPU
  Period <- ShortAndLong
  MaxTime = 1
  Enforced = {3}
  Completing = {1}
  Suspending = {2}
  NPTask = {3}
  Leaving = {2}
  AdmitModes = {"running", "runnable"}
  RemoteExit = FALSE
  SpinTimeout = FALSE
SYMMETRY Symmetry
INVARIANTS
  OnePlace
  OneStack
  EDFOrder
  LinkedWhereScheduled
  NoPanic
  PreemptionRequested
