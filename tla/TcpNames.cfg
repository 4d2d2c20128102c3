SPECIFICATION Spec
CONSTANTS
  c1 = c1
  c2 = c2
  NoConn = NoConn
  Conns = {c1, c2}
  PartsOf <- SameParts
  Sizes = {1}
  Paced = FALSE
  Pauses = TRUE
  OpenMayFail = FALSE
  MaxClock = 1
  MaxUploads = 2
INVARIANTS UniqueNames
CHECK_DEADLOCK FALSE
