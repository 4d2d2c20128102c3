SPECIFICATION Spec
CONSTANTS
  c1 = c1
  c2 = c2
  NoConn = NoConn
  Conns = {c1, c2}
  PartsOf <- OwnParts
  Sizes = {0, 2}
  Paced = TRUE
  Pauses = FALSE
  OpenMayFail = TRUE
  MaxClock = 1
  MaxUploads = 2
INVARIANTS   RepliesAnswer
CHECK_DEADLOCK FALSE
