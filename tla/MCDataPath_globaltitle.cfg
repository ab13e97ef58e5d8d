SPECIFICATION Spec
CONSTANTS
  SgsnRequests <- MCSgsnRequests
  SgsnAnswers <- MCSgsnAnswers
  HlrInvokes <- MCHlrInvokes
  HlrResults <- MCHlrResults
  Beats <- MCBeats
  Cuts <- MCCuts
  MaxSent = 1
  MaxTotal = 1
  HlrGt <- MCDefaultHlrGt
  LocalGt <- MCDefaultLocalGt
  RoutingContext <- MCRoutingContext
INVARIANT HlrAddressed
