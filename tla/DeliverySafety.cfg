SPECIFICATION Spec
CONSTANTS
  Dispatches = {d1, d2}
  Threads = {t1, t2}
  None = None
  MaxConn = 3
  MaxSends = 2
  MaxDrops = 1
  MaxCrashes = 1
  MaxUnsaved = 1
SYMMETRY Symmetry
CHECK_DEADLOCK FALSE
INVARIANT TypeOK
INVARIANT OneTaskAtATime
INVARIANT NotRunTwiceHere
INVARIANT AckedMeansDelivered
PROPERTY RefinesLedger
