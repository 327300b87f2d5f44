CONSTANTS
  c1 = c1
  c2 = c2
  t1 = t1
  t2 = t2
  t3 = t3
  NoThread = NoThread
  PRIORITY_LEVELS = 1
  Cpus <- OneCpu
  Threads <- TwoThreads
  Priority <- AllAtZero
  InitQueue <- TwoQueued
  InitCapacity <- Grows
SPECIFICATION ExecFairSpec
PROPERTIES ExecReachesEntry
