SPECIFICATION FairSpec
CONSTANTS
  N = 2
  MaxBody = 1
  MaxStreams = 1
  HeaderTimeout = 2
  BodyTimeout = 2
  IdleTimeout = 2
  WriteTimeout = 1
  MaxCall = 1
  MaxYields = 1
INVARIANTS
  RequestsIsolated
  StreamCancelledOnce
  SlotsHeldByRequests
PROPERTIES
  RequestEnds
