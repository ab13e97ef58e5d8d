SPECIFICATION Spec
CONSTANTS
  SgsnRequests <- MCSgsnRequests
  SgsnAnswers <- MCSgsnAnswers
  HlrInvokes <- MCHlrInvokes
  HlrResults <- MCHlrResults
  Beats <- MCBeats
  Cuts <- MCCuts
  MaxSent = 2
  MaxTotal = 3
  HlrGt <- MCHlrGt
  LocalGt <- MCLocalGt
  RoutingContext <- MCRoutingContext
INVARIANTS Translated NothingHeldBack HlrAddressed
