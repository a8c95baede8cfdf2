SPECIFICATION ObserverSpec
CONSTANTS
  k1 = k1
  k2 = k2
  h1 = h1
  h2 = h2
  a1 = a1
  a2 = a2
  None = None
  NoHostConnection = NoHostConnection
  NoAddress = NoAddress
  EmptyVersion = EmptyVersion
  OpaqueVersion = OpaqueVersion
  Connections = {k1, k2}
  HostConnections = {h1, h2}
  HostConnection <- MCHostConnection
  Addresses = {a1, a2}
  AddressLen <- ShortAddressLen
  Alphanumeric = {a1, a2}
  HostAccount <- MCHostAccount
  ChannelIds = {c1, c2}
  Users = {admin}
  CustomMessages = {custom}
  MaxTimestamp = 3000
  MaxU32 = 2
  HostAcks = {"result", "error"}
  FeeMiddleware = FALSE
  TimeoutClosedEnds = TRUE
  HostMayClose = TRUE
  ConcurrentHandshakes = TRUE
  BlockTimes = {0, 1, 600}
  MaxPackets = 2
  Proposals <- TwoProposals
  StargateSupport = {TRUE}
  TimeoutChoices <- ShortAndDefault
CHECK_DEADLOCK FALSE
SYMMETRY ChannelSymmetry
INVARIANTS OpenChannelIsOpen IcaInfoDescribesStoredChannel PacketProvenance CallbackAccounting EventsIdentifyPackets CountedMeansSettled
