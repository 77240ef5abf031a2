SPECIFICATION Spec
CONSTANTS
  Conns = {c1, c2}
  Names = {alice, bob}
  Workers = {w1}
  None = None
  PoolSize = 1
  MaxRequests = 3
  MayExpire = FALSE
  RedisMayFail = FALSE
SYMMETRY Symmetry
INVARIANTS AtMostOneSession SessionMarked ChatsInOrder
