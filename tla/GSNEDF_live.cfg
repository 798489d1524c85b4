SPECIFICATION FairSpec
CONSTANTS
  c1 = c1
  c2 = c2
  CPU = {c1, c2}
  Task = {1, 2, 3}
  NULL = NULL
  NO_CPU = NO_CPU
  Period <- ShortAndLong
  MaxTime = 1
  Enforced = {}
  Completing = {1}
  Suspending = {}
  NPTask = {}
  Leaving = {}
  AdmitModes = {"running"}
  RemoteExit = FALSE
  SpinTimeout = FALSE
PROPERTIES
  LinkedTaskRuns
