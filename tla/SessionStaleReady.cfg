SPECIFICATION FairSpec
CONSTANTS
  MaxConn = 1
  MaxAttempts = 1
  MaxChanges = 1
CHECK_DEADLOCK FALSE
PROPERTY SkippedChangeIsReported
