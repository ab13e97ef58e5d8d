SPECIFICATION Spec
CONSTANTS
  Imsi = {i1, i16}
  LongImsi = {i16}
  NoImsi = none
  Client = {c1, c2}
  SgsnTypes <- MCOneRequest
  HlrProcs = {"InsertData"}
  TidSpace = 4
  MaxInvokeId = 2
  Timeout = 1
  HlrTimeout = 1
  HlrInvokeId <- MCInvokeIds
  HlrConforms = FALSE
  HlrBundles = TRUE
  HlrSerial = FALSE
  MaxRequests = 1
  MaxHlrInvokes = 3
INVARIANTS HlrAnsweredOnce Accounted RightClient
PROPERTIES EveryRequestSettles HlrTableDrains
