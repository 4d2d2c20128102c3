SPECIFICATION Spec
CONSTANTS
  Keys = {k1}
  NoKey = NoKey
  ShortKey = ShortKey
  Timeout = 30
  Threads = {t1}
  MaxLog = 0
  MaxSilence = 60
INVARIANTS StopsAfterTimeout
CHECK_DEADLOCK FALSE
