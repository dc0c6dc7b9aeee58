SPECIFICATION Spec
CONSTANTS
  Dispatches = {d1, d2}
  Threads = {t1, t2}
  None = None
  MaxConn = 2
  MaxSends = 2
  MaxDrops = 1
  MaxCrashes = 0
  MaxUnsaved = 0
SYMMETRY Symmetry
CHECK_DEADLOCK FALSE
INVARIANT HistoryHoldsCache
