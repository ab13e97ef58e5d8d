SPECIFICATION RestartSpec
CONSTANTS
  Imsi = {i1}
  LongImsi = {}
  NoImsi = none
  Client = {c1, c2}
  SgsnTypes <- MCSgsnTypes
  HlrProcs = {}
  TidSpace = 4
  MaxInvokeId = 2
  Timeout = 1
  HlrTimeout = 1
  HlrInvokeId = {1, 2}
  HlrConforms = TRUE
  HlrBundles = FALSE
  HlrSerial = FALSE
  MaxRequests = 2
  MaxHlrInvokes = 0
  MaxRestarts = 1
INVARIANT RightClientAfterRestart
