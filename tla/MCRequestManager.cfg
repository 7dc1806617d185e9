CONSTANTS
  r1 = r1
  r2 = r2
  r3 = r3
  Req <- ThreeRequests
  Dedicated = TRUE
  SteamAvailable = {TRUE}
SPECIFICATION FairSpec
INVARIANTS
  VectorOwnsLiveObjects
  ExecutedMeansCallPending
PROPERTIES
  ThinkReachesEveryRequest
  ImplementsRequestPool
  SendAndWaitReturns
  EveryRequestEnds
CHECK_DEADLOCK TRUE
