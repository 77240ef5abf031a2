SPECIFICATION Spec
CONSTANTS
  Conns = {c1, c2}
  Names = {alice}
  Workers = {w1}
  None = None
  PoolSize = 2
  MaxRequests = 2
  MayExpire = FALSE
  RedisMayFail = FALSE
INVARIANTS OnlineMeansSession
