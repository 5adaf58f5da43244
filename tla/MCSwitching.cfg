SPECIFICATION RelaySpec
CONSTANTS
  c1 = c1
  c2 = c2
  s1 = s1
  s2 = s2
  s3 = s3
  ip1 = ip1
  None = None
  Channels <- TwoChannels
  Sockets <- TwoSockets
  Keys = {}
  Ips <- OneIp
  Address <- SameAddress
  Sizes = {1}
  Seqs = {}
  MaxTombstones = 1
  MaxBufferedMessages = 2
  MaxChannelsPerIp = 2
  MaxActiveChannels = 2
  BytesPerChannel = 3
  BytesPerIp = 3
  BytesGlobal = 3
  ChannelTTL = 2
  BufferTTL = 1
  TombstoneTTL = 2
  MaxClock = 0
  MaxMessages = 2
  Upgrades = FALSE
  Transports = {"websocket"}
  ControlTraffic = FALSE
SYMMETRY Interchangeable
INVARIANTS
  ListenersMatchReservations
  MailHasConsumer
CHECK_DEADLOCK FALSE
