SPECIFICATION Spec
CONSTANTS
  c1 = c1
  c2 = c2
  n1 = n1
  n2 = n2
  w1 = w1
  w2 = w2
  Clients = {c1, c2}
  OcrThreads = {w1}
  Names = {n1, n2}
  NamesOf <- SharedNames
  NoTask = NoTask
  OcrMayFail = FALSE
  MaxPush = 2
INVARIANTS
  NoUnfinishedTwice
