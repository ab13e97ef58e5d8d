SPECIFICATION Spec
CONSTANTS
  Imsi = {i1}
  LongImsi = {}
  NoImsi = none
  Client = {c1, c2}
  SgsnTypes <- MCSgsnTypes
  HlrProcs = {}
  TidSpace = 3
  MaxInvokeId = 3
  Timeout = 1
  HlrTimeout = 1
  HlrInvokeId = {1, 2}
  HlrConforms = TRUE
  HlrBundles = FALSE
  HlrSerial = FALSE
  MaxRequests = 4
  MaxHlrInvokes = 0
INVARIANT TypeOK
PROPERTY PendingUntouched
