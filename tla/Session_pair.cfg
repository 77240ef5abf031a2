SPECIFICATION FairSpec
CONSTANTS
  Conns = {c1, c2}
  Names = {alice}
  Workers = {w1, w2}
  None = None
  PoolSize = 1
  MaxRequests = 2
  MayExpire = TRUE
  RedisMayFail = TRUE
INVARIANTS SessionHasName EachRequestAnswered
PROPERTIES EverythingEnds
