CONSTANTS
  c1 = c1
  c2 = c2
  NULL = NULL
  NO_CPU = NO_CPU
  Task = {1, 2, 3}
  CPU = {c1, c2}
  Setups <- Crossing
  Period <- MCPeriod
  Home <- MCHome
  Server <- MCServer
  Queued = {3}
  Enforced = {3}
  Completing = {2, 3}
  Suspending = {1}
  Leaving = {3}
  Start = 1
  AdmitUntil = 4
SPECIFICATION Spec
INVARIANTS
  NoCrossMigration
CHECK_DEADLOCK FALSE
