SPECIFICATION FairSpec
CONSTANTS
  Tasks = {t1}
  Threads = {w1, w2, w3, w4}
  NoTask = NoTask
  CoreThreads = 1
  MaxThreads = 2
  QueueCapacity = 0
  CounterModulus = 8
PROPERTIES ShutdownReturns EarlyTaskRuns
