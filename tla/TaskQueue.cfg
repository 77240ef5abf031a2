SPECIFICATION FairSpec
CONSTANTS
  Producers = {p1, p2}
  Consumers = {c1, c2}
  Nothing = Nothing
  Capacity = 1
  MaxCalls = 2
  MaxSpurious = 1
INVARIANTS NoLostWakeup
PROPERTIES ImplementsWorkQueue
