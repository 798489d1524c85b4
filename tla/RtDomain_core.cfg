SPECIFICATION FairSpec
CONSTANTS
  t1 = t1
  t2 = t2
  c1 = c1
  c2 = c2
  d1 = d1
  d2 = d2
  Task = {t1, t2}
  CPU = {c1, c2}
  Domain = {d1, d2}
  NO_CPU = NO_CPU
  NULL = NULL
  cpu_of <- Partitioned
  release_master = NO_CPU
  RELEASE_QUEUE_SLOTS = 1
  QUANTUM = 2
  MaxTime = 2
INVARIANTS
  OnePlace
  QueueSound
  NoDangling
PROPERTIES
  ImplementsReleaseQueue
  ReleaseHappens
