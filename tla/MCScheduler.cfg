CONSTANTS
  c1 = c1
  c2 = c2
  t1 = t1
  t2 = t2
  t3 = t3
  NoThread = NoThread
  PRIORITY_LEVELS = 1
  Cpus <- TwoCpus
  Threads <- ThreeThreads
  Priority <- AllAtZero
  InitQueue <- FirstQueued
  InitCapacity <- Grows
SYMMETRY CpuSymmetry
SPECIFICATION Spec
INVARIANTS SchedLockExclusive OneCpuPerThread HeapLockExclusive QueueConsistent StacksApart
PROPERTIES ImplementsThreadMachine
