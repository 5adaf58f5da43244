SPECIFICATION ProxiesSpec
CONSTANTS
  e1 = e1
  e2 = e2
  r1 = r1
  r2 = r2
  r3 = r3
  k1 = k1
  k2 = k2
  f1 = f1
  f2 = f2
  a = a
  aUpper = aUpper
  b = b
  None = None
  Endpoints <- TwoEndpoints
  Primary = e1
  Requests <- ThreeRequests
  Clients <- TwoClients
  Client <- ClientOf
  MaxConcurrent = 2
  MaxConcurrentPerClient = 1
  Pinned = TRUE
  Heights = {1}
  HeadAges = {0}
  PollInterval = 1
  PollTimeout = 1
  DownAfterFailures = 2
  UpAfterSuccesses = 2
  StallAfter = 3
  MaxHeadAge = 3
  MaxHeadFuture = 0
  MaxLagBlocks = 0
  MaxClock = 2
  Fetches <- TwoFetches
  GatewayCount = 3
  Cids <- ThreeSpellings
  Content <- ContentOf
  Nothing = Nothing
  MaxFetches = 2
  FetchTimeout = 3
  MinAttempt = 1
  FallbackReserve = 1
  RetryAfters = {1, 2}
  ServerErrorCooldown = 1
  ServerErrorWindow = 2
  ServerErrorMinCids = 2
  MaxAsked = 2
  LastInstant = 4
  local = local
  loopback = loopback
  remote = remote
  chainA = chainA
  chainB = chainB
  hashA = hashA
  hashB = hashB
  explorer = explorer
  elsewhere = elsewhere
  Unset = Unset
  Blank = Blank
  Malformed = Malformed
  Urls <- FourSpellings
  UrlsFor <- WhatIsListed
  EndpointKey <- KeyOf
  LocalNode = local
  ChainIds <- TwoChainIds
  GenesisHashes <- TwoHashes
  Origins <- TwoOrigins
  Explorer = explorer
  MaxBlockRange = 2
  MaxAddresses = 1
  BlockNumbers <- Numbers
  Heads <- FourHeads
INVARIANTS
  LogScansAreBounded
  MainnetStaysApart
  RpcTypeOK
  SlotsAreExact
  IpfsTypeOK
  DeadlineIsKept
  ErrorWindowIsExact
PROPERTIES
  RequestsEnd
  CooldownsAreKept
  FallbackKeepsReserve
  OneSourcePerResponse
  OnlyFailoverIsStale
CHECK_DEADLOCK FALSE
