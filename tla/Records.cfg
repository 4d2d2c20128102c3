SPECIFICATION FairStorageSpec
CONSTANTS
  c1 = c1
  Conns = {c1}
  MaxTasks = 3
  MaxRuns = 2
  MayFail = TRUE
INVARIANTS OneFate RowsInOrder SelectsAll ShowsEveryRow
PROPERTIES EventuallyRecorded
CHECK_DEADLOCK FALSE
