CONSTANTS
  c1 = c1
  c2 = c2
  t1 = t1
  t2 = t2
  t3 = t3
  NoThread = NoThread
SPECIFICATION Spec
INVARIANTS OneCpuAcrossLevels
PROPERTIES NoStarvation TimerRearmed
