SPECIFICATION FairSpec
CONSTANTS
  c1 = c1
  c2 = c2
  a1 = a1
  a2 = a2
  NoAddr = NoAddr
  Conns = {c1}
  Addrs = {a1, a2}
  Shipped = a1
  MaxTasks = 2
  MaxAccept = 2
  MaxRuns = 2
  MayFail = FALSE
  RunMayFail = TRUE
INVARIANTS  StopsCleanly
PROPERTIES ShutDownEnds
CHECK_DEADLOCK FALSE
