SPECIFICATION FairSpec
CONSTANTS
  Devices = {d1, d2, d3}
  None = None
  Torn = Torn
  Frozen = TRUE
  MaxLaunches = 3
  MaxFaults = 2
  MaxTries = 2
CHECK_DEADLOCK FALSE
INVARIANT TypeOK
INVARIANT NoPairingOnceRevoked
INVARIANT RunningIsRemembered
INVARIANT MigrationKeeps
INVARIANT RevokedStaysGone
PROPERTY RestartReconnects
