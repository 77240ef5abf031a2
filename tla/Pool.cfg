SPECIFICATION FairSpec
CONSTANTS
  Users = {u1, u2, u3}
  Conns = {c1, c2, c3}
  NoConn = NoConn
  Nobody = Nobody
  MinConns = 1
  MaxConns = 2
  MaxRequests = 4
  MaxOutages = 2
  MaxSpurious = 1
INVARIANTS TypeOK Exclusive NoLostWakeup LostIsDisconnected OwnReply
PROPERTIES ImplementsLending AcquireReturns
CHECK_DEADLOCK FALSE
