SPECIFICATION FairAsyncSpec
CONSTANTS
  t1 = t1
  t2 = t2
  NoOne = NoOne
  LogThreads = {t1, t2}
  MaxSize = 3
  MaxFiles = 2
  MaxMsg = 6
  SizeOf <- Sizes
  MayFail = TRUE
  Items <- QueueItems
  Capacity = 2
  MaxRuns = 2
CHECK_DEADLOCK FALSE
INVARIANTS
  QueueLosesNothing DrainedAtEnd WritesWithinBounds FilesInOrder 
PROPERTIES
  UsesSink ExitEnds
