SPECIFICATION Spec
CONSTANTS
  Faults = {"connect", "read", "write"}
  Chunks <- MCAllChunks
  CanStop = TRUE
  MaxQueue = 1
  MaxReady = 2
  MaxTimers = 2
INVARIANTS TypeOK NeverStuck NothingStranded
PROPERTY Retries
CHECK_DEADLOCK FALSE
