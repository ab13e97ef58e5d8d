SPECIFICATION Spec
CONSTANTS
  Faults = {"read", "write"}
  Chunks <- MCChunks
  CanStop = FALSE
  MaxQueue = 1
  MaxReady = 2
  MaxTimers = 2
INVARIANT DefinedBehaviour
CHECK_DEADLOCK FALSE
