SPECIFICATION ReachableSpec
CONSTANTS
  Keys = {k1, k2}
  NoKey = NoKey
  ShortKey = ShortKey
  Timeout = 5
  Threads = {t1, t2}
  MaxLog = 3
  MaxSilence = 0
INVARIANTS KeyIsServed StopsAfterHalf
PROPERTIES SentInOrder HeardOrStopped Returns
CHECK_DEADLOCK FALSE
