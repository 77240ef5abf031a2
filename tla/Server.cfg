SPECIFICATION FairSpec
CONSTANTS
  Conns = {c1, c2}
  Fds = {3, 4, 5}
  Workers = {w1}
  None = None
  MaxTasks = 1
INVARIANTS TypeOK OnlyOwnClosed TablesAgree BacklogIsNoticed StuckBySignalOnly  
PROPERTIES StopTakesEffect
