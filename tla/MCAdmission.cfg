SPECIFICATION AdmissionSpec
CONSTANTS
  s1 = s1
  s2 = s2
  s3 = s3
  s4 = s4
  ip1 = ip1
  ip2 = ip2
  None = None
  Ips <- TwoIps
  Sessions <- FourSessions
  Address <- AddressOf
  Limit <- OneOrTwo
  EventBuckets <- Events
  Observed <- Watched
  Window = 1
  MaxClock = 2
  MaxAsked = 2
  MaxSocketsPerIp = 1
  MaxActiveSockets = 2
  MaxPending = 2
INVARIANTS
  AdmissionTypeOK
  CountersAreExact
  SocketCapsHold
  OvershootIsInFlight
  BurstsAreBounded
  RefusedOnlyWhenSpent
PROPERTY
  LimiterBehaves
SYMMETRY SameAddress
