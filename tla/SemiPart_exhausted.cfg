SPECIFICATION Spec
CONSTANTS
  c1 = c1
  c2 = c2
  CPU = {c1, c2}
  Plugins = {"EDF-WM", "C=D", "HIME"}
  Task = {1}
  NULL = NULL
  NO_CPU = NO_CPU
  Period <- Periods
  Cost <- Costs
  Home <- Homes
  Slices <- Exchange
  Precise = {1}
  Completing = {}
  Suspending = {1}
  Yielding = {}
  Synched = {1}
  Leaving = {}
  Queued = {}
  MIN_SLICE = 1
  MaxTime = 2
  AdmitUntil = 0
  Latency = FALSE
  BlockExhausted = TRUE
CHECK_DEADLOCK FALSE
INVARIANTS
  NoPanic
