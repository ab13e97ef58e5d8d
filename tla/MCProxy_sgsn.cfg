SPECIFICATION Spec
CONSTANTS
  Imsi = {i1, i16}
  LongImsi = {i16}
  NoImsi = none
  Client = {c1, c2}
  SgsnTypes <- MCAllRequests
  HlrProcs = {}
  TidSpace = 4
  MaxInvokeId = 2
  Timeout = 1
  HlrTimeout = 1
  HlrInvokeId = {1, 2}
  HlrConforms = TRUE
  HlrBundles = FALSE
  HlrSerial = FALSE
  MaxRequests = 3
  MaxHlrInvokes = 0
SYMMETRY MCSymmetry
INVARIANTS MapsInSync TidsCorrelate Accounted RightClient RightType
PROPERTY ImplementsService
