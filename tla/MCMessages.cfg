SPECIFICATION Spec
CONSTANTS
  c1 = c1
  c2 = c2
  c3 = c3
  s1 = s1
  s2 = s2
  s3 = s3
  k1 = k1
  k2 = k2
  ip1 = ip1
  ip2 = ip2
  None = None
  Channels <- OneChannel
  Sockets <- TwoSockets
  Keys <- NoKeys
  Ips <- TwoIps
  Sizes = {1, 2}
  Seqs = {0, 1}
  MaxTombstones = 2
  MaxBufferedMessages = 1
  MaxChannelsPerIp = 1
  BytesPerChannel = 3
  BytesPerIp = 2
  BytesGlobal = 3
  ChannelTTL = 2
  BufferTTL = 1
  TombstoneTTL = 1
  MaxClock = 3
  MaxMessages = 3
SYMMETRY Interchangeable
INVARIANTS
  BytesAreExact
  BudgetsHold
PROPERTIES
  SeqOnlyAdvancesWithMessage
  BufferedMessagesAreNotDropped
CHECK_DEADLOCK FALSE
