SPECIFICATION ProgramSpec
CONSTANTS
  Imsi = {i1}
  LongImsi = {}
  NoImsi = none
  Client = {1, 2}
  SgsnTypes <- MCSgsnTypes
  HlrProcs = {}
  TidSpace = 4
  MaxInvokeId = 2
  Timeout = 0
  HlrTimeout = 0
  HlrInvokeId = {1, 2}
  HlrConforms = TRUE
  HlrBundles = FALSE
  HlrSerial = FALSE
  MaxRequests = 1
  MaxHlrInvokes = 0
  MaxSessions = 2
  MaxConnects = 1
INVARIANT HeardByAsker
PROPERTIES NackedNotOnActiveLink AskerHears
