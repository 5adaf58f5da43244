SPECIFICATION Spec
CONSTANTS
  c1 = c1
  c2 = c2
  c3 = c3
  s1 = s1
  s2 = s2
  s3 = s3
  k1 = k1
  k2 = k2
  ip1 = ip1
  ip2 = ip2
  None = None
  Channels <- ThreeChannels
  Sockets <- ThreeSockets
  Keys <- TwoKeys
  Ips <- TwoIps
  Sizes = {1}
  Seqs = {0}
  MaxTombstones = 2
  MaxBufferedMessages = 1
  MaxChannelsPerIp = 1
  BytesPerChannel = 2
  BytesPerIp = 2
  BytesGlobal = 2
  ChannelTTL = 1
  BufferTTL = 0
  TombstoneTTL = 1
  MaxClock = 2
  MaxMessages = 0
SYMMETRY Interchangeable
INVARIANTS
  TypeOK
  OneSocketPerRole
  TombstoneFifoIsExact
  LiveChannelsPerCreatorBounded
PROPERTIES
  KeyBindingIsStable
  TombstonesLast
CHECK_DEADLOCK FALSE
