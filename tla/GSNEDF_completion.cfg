SPECIFICATION Spec
CONSTANTS
  c1 = c1
  c2 = c2
  CPU = {c1, c2}
  Task = {1, 2, 3}
  NULL = NULL
  NO_CPU = NO_CPU
  Period <- ShortAndLong
  MaxTime = 2
  Enforced = {}
  Completing = {1, 2}
  Suspending = {2}
  NPTask = {}
  Leaving = {}
  AdmitModes = {"running"}
  RemoteExit = FALSE
  SpinTimeout = FALSE
SYMMETRY Symmetry
INVARIANTS
  CompletionHonoured
