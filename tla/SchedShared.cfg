SPECIFICATION Spec
CONSTANTS
  c1 = c1
  c2 = c2
  n1 = n1
  n2 = n2
  w1 = w1
  w2 = w2
  Clients = {c1, c2}
  OcrThreads = {w1, w2}
  Names = {n1, n2}
  NamesOf <- SharedNames
  NoTask = NoTask
  OcrMayFail = TRUE
  MaxPush = 3
CHECK_DEADLOCK FALSE
INVARIANTS
  TypeOK
  NoTaskForgotten
  RunsMatchNodes
  NoResultTwice
  VisibleResultIsKept
PROPERTY
  ServiceSpec
