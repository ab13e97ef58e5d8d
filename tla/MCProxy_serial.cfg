SPECIFICATION Spec
CONSTANTS
  Imsi = {i1}
  LongImsi = {}
  NoImsi = none
  Client = {c1, c2}
  SgsnTypes <- MCSgsnTypes
  HlrProcs = {"InsertData", "LocationCancel"}
  TidSpace = 4
  MaxInvokeId = 2
  Timeout = 1
  HlrTimeout = 1
  HlrInvokeId = {1, 2}
  HlrConforms = TRUE
  HlrBundles = FALSE
  HlrSerial = TRUE
  MaxRequests = 2
  MaxHlrInvokes = 2
INVARIANT HlrAnswerGenuine
