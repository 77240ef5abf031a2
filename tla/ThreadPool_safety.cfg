SPECIFICATION Spec
CONSTANTS
  Tasks = {t1, t2}
  Threads = {w1, w2, w3, w4, w5}
  NoTask = NoTask
  CoreThreads = 1
  MaxThreads = 2
  QueueCapacity = 0
  CounterModulus = 8
SYMMETRY Symmetry
INVARIANTS LiveWithinLimits NoEarlyTaskLost NoZombie
PROPERTIES UsesWorkQueue
