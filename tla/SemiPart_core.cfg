SPECIFICATION Spec
CONSTANTS
  c1 = c1
  c2 = c2
  CPU = {c1, c2}
  Plugins = {"EDF-WM", "C=D", "HIME"}
  Task = {1, 2, 3}
  NULL = NULL
  NO_CPU = NO_CPU
  Period <- Periods
  Cost <- Costs
  Home <- Homes
  Slices <- Exchange
  Precise = {1, 2}
  Completing = {3}
  Suspending = {2}
  Yielding = {}
  Synched = {1, 2}
  Leaving = {3}
  Queued = {3}
  MIN_SLICE = 1
  MaxTime = 2
  AdmitUntil = 0
  Latency = FALSE
  BlockExhausted = FALSE
CHECK_DEADLOCK FALSE
INVARIANTS
  OnePlace
  NoPanic
  NoSpinDeadlock
  SliceAccounting
  BudgetEnforced
  PreemptionRequested
