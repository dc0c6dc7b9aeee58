SPECIFICATION FairSpec
CONSTANTS
  MaxConn = 2
  MaxAttempts = 1
  MaxChanges = 1
CHECK_DEADLOCK FALSE
INVARIANT TypeOK
INVARIANT HandshakeOrder
PROPERTY RevokedNeverReconnects
PROPERTY ReconnectsWithBackoff
PROPERTY NoAuthAfterStop
PROPERTY StopEnds
PROPERTY ChangeReported
