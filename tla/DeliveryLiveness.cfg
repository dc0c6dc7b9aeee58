SPECIFICATION FairSpec
CONSTANTS
  Dispatches = {d1, d2}
  Threads = {t1, t2}
  None = None
  MaxConn = 3
  MaxSends = 1
  MaxDrops = 1
  MaxCrashes = 0
  MaxUnsaved = 1
CHECK_DEADLOCK FALSE
PROPERTY PendingAtReadyIsConfirmed
PROPERTY SettledWithoutFaults
