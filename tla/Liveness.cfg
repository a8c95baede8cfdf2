SPECIFICATION FairSpec
CONSTANTS
  k1 = k1
  k2 = k2
  h1 = h1
  h2 = h2
  a1 = a1
  a2 = a2
  None = None
  NoHostConnection = NoHostConnection
  NoAddress = NoAddress
  EmptyVersion = EmptyVersion
  OpaqueVersion = OpaqueVersion
  Connections = {k1, k2}
  HostConnections = {h1, h2}
  HostConnection <- MCHostConnection
  Addresses = {a1, a2}
  AddressLen <- ShortAddressLen
  Alphanumeric = {a1, a2}
  HostAccount <- MCHostAccount
  ChannelIds = {c1, c2}
  Users = {admin}
  CustomMessages = {custom}
  MaxTimestamp = 3000
  MaxU32 = 2
  HostAcks = {"result", "error", "unparsable"}
  FeeMiddleware = FALSE
  TimeoutClosedEnds = FALSE
  HostMayClose = TRUE
  ConcurrentHandshakes = FALSE
  BlockTimes = {0, 600}
  MaxPackets = 2
  Proposals <- ThreeProposals
  StargateSupport = {TRUE}
  TimeoutChoices <- NoTimeoutGiven
CHECK_DEADLOCK FALSE
PROPERTIES PacketSettles HandshakeCompletes HostCloseReachesContract RefusalIsFinal
