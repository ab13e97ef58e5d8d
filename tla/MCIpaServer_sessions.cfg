SPECIFICATION Spec
CONSTANTS
  Chunks <- MCAllChunks
  CanStop = TRUE
  MaxSessions = 2
  MaxQueue = 2
  MaxReady = 2
INVARIANTS TypeOK RoutesToReady IdentifiedFirst OneWriteInFlight Watched
CHECK_DEADLOCK FALSE
