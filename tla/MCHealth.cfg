SPECIFICATION HealthSpec
CONSTANTS
  e1 = e1
  e2 = e2
  None = None
  Endpoints <- TwoEndpoints
  Pinned = TRUE
  Heights = {1, 2}
  HeadAges <- Ages
  PollInterval = 1
  PollTimeout = 1
  DownAfterFailures = 2
  UpAfterSuccesses = 2
  StallAfter = 1
  MaxHeadAge = 3
  MaxHeadFuture = 0
  MaxLagBlocks = 0
  MaxClock = 4
SYMMETRY Interchangeable
INVARIANTS
  HealthTypeOK
  OnePollPerEndpoint
  UpMeansProgress
  BestHeadIsReady
CHECK_DEADLOCK FALSE
