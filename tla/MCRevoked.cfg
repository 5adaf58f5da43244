SPECIFICATION RpcSpec
CONSTANTS
  e1 = e1
  e2 = e2
  r1 = r1
  k1 = k1
  None = None
  Endpoints <- TwoEndpoints
  Primary = e1
  Requests <- OneRequest
  Clients <- OneClient
  Client <- ClientOf
  MaxConcurrent = 1
  MaxConcurrentPerClient = 1
  Pinned = TRUE
  Heights = {1, 2}
  HeadAges = {0}
  PollInterval = 1
  PollTimeout = 1
  DownAfterFailures = 2
  UpAfterSuccesses = 2
  StallAfter = 3
  MaxHeadAge = 3
  MaxHeadFuture = 0
  MaxLagBlocks = 0
  MaxClock = 2
PROPERTIES
  RevokedEndpointsAreNotCalled
CHECK_DEADLOCK FALSE
