----------------------------- MODULE IbcNetwork ------------------------------
(***************************************************************************)
(* What the contract talks to and the repository does not hold: the IBC    *)
(* core of the controller chain (with the wasm module and, perhaps, the    *)
(* fee middleware around the contract), the interchain accounts host on    *)
(* the other chain, and the clock the two chains share.  It is modelled as *)
(* far as the contract's handlers and comments rely on it: ordered         *)
(* channels, one proof-backed datagram per step.                           *)
(*                                                                         *)
(* Steps of the core that call the contract are operators on the core's    *)
(* variables only; IcaSystem conjoins them with the handler they call.     *)
(***************************************************************************)
EXTENDS IcaPacket, Sequences, FiniteSets

CONSTANTS
  HostConnection,     \* the host's id of each connection
  HostAccount,        \* the account the host registers per connection
  HostAcks,           \* acknowledgements the host writes
  FeeMiddleware,      \* the counterparty chain uses the fee middleware
  TimeoutClosedEnds,  \* the core lets packets of a closed end time out
  HostMayClose,       \* the host may start closing a channel
  BlockTimes,         \* block times of interest, in seconds
  MaxPackets          \* bound on the packets sent

VARIABLES
  ends,       \* the controller chain's channel ends
  hostEnds,   \* the host's ends of the same channels
  packets,    \* the packets sent on each channel
  acks,       \* what the host acknowledged, in the order of the packets
  committed,  \* packets sent and neither acknowledged nor timed out
  now         \* the block time

coreVars == <<ends, packets, committed>>
hostVars == <<hostEnds, acks>>
networkVars == <<ends, hostEnds, packets, acks, committed, now>>

\* channel is what the core tells the contract, proposed the metadata the
\* contract answered OpenInit with.
Ends ==
  [state : {"INIT", "OPEN", "CLOSED"}, channel : IbcChannels, proposed : IcaMetadatas]

HostEnds == [state : {"TRYOPEN", "OPEN", "CLOSED"}, version : IcaMetadatas]

ASSUME NetworkAssumption ==
  /\ HostConnection \in [Connections -> HostConnections]
  /\ HostAccount \in [Connections -> Addresses]
  /\ HostAcks \subseteq Acknowledgements
  /\ BlockTimes \subseteq 0..MaxTimestamp
  /\ {FeeMiddleware, TimeoutClosedEnds, HostMayClose} \subseteq BOOLEAN
  /\ MaxPackets \in Nat
  /\ None \notin Ends
  /\ None \notin HostEnds

NetworkTypeOK ==
  /\ ends \in [ChannelIds -> Ends \cup {None}]
  /\ hostEnds \in [ChannelIds -> HostEnds \cup {None}]
  /\ packets \in [ChannelIds -> Seq(Packets)]
  /\ acks \in [ChannelIds -> Seq(Acknowledgements)]
  /\ committed \subseteq ChannelIds \X (Nat \ {0})
  /\ now \in BlockTimes

NetworkInit ==
  /\ ends = [c \in ChannelIds |-> None]
  /\ hostEnds = [c \in ChannelIds |-> None]
  /\ packets = [c \in ChannelIds |-> << >>]
  /\ acks = [c \in ChannelIds |-> << >>]
  /\ committed = {}
  /\ now \in BlockTimes

EndIs(c, state) == ends[c] # None /\ ends[c].state = state
HostEndIs(c, state) == hostEnds[c] # None /\ hostEnds[c].state = state

ConnectionOf(c) == ends[c].channel.connection_id

\* The version the core records of a handshake that was "asked" for a version
\* and for which the contract responded "metadata".  Only a handshake begun
\* with an empty version is wrapped by the fee middleware.
CoreVersion(asked, metadata) ==
  IF FeeMiddleware /\ asked = EmptyVersion THEN OpaqueVersion ELSE metadata

-----------------------------------------------------------------------------
(* The handshake *)

\* "channel" is the one the contract saw, with the version it was asked for.
CoreChanOpenInit(c, channel, metadata) ==
  /\ ends[c] = None
  /\ ends' = [ends EXCEPT ![c] =
       [state |-> "INIT",
        channel |-> [channel EXCEPT !.version = CoreVersion(channel.version, metadata)],
        proposed |-> metadata]]
  /\ UNCHANGED <<packets, committed>>

\* The host checks the connection ids of the metadata it is proposed.
HostAccepts(c) ==
  ends[c].proposed.host_connection_id = HostConnection[ConnectionOf(c)]

\* The host has no other open channel on the connection; it fills in the
\* address of the account, which outlives the channel.
HostChanOpenTry(c) ==
  /\ EndIs(c, "INIT")
  /\ hostEnds[c] = None
  /\ HostAccepts(c)
  /\ \A d \in ChannelIds : HostEndIs(d, "OPEN") => ConnectionOf(d) # ConnectionOf(c)
  /\ hostEnds' = [hostEnds EXCEPT ![c] =
       [state |-> "TRYOPEN",
        version |-> [ends[c].proposed EXCEPT !.address = HostAccount[ConnectionOf(c)]]]]
  /\ UNCHANGED acks

\* The host's version replaces the proposed one, but a wrapped one stays so.
AckVersion(c) ==
  IF ends[c].channel.version = OpaqueVersion THEN OpaqueVersion ELSE hostEnds[c].version

WithAnswer(channel, version, id) ==
  [channel EXCEPT !.version = version, !.counterparty_channel_id = id]

\* What the contract is shown of the channel at OpenAck: each field that the
\* acknowledgement changes as it was before the core records it, or after.
ShownAtAck(c) ==
  {WithAnswer(ends[c].channel, version, id) :
     version \in {ends[c].channel.version, AckVersion(c)}, id \in CounterpartyChannelIds}

CoreChanOpenAck(c) ==
  /\ EndIs(c, "INIT")
  /\ HostEndIs(c, "TRYOPEN")
  /\ ends' = [ends EXCEPT ![c] =
       [state |-> "OPEN",
        channel |-> WithAnswer(ends[c].channel, AckVersion(c), "assigned"),
        proposed |-> ends[c].proposed]]
  /\ UNCHANGED <<packets, committed>>

\* By a proof of the controller's end having been open.
HostChanOpenConfirm(c) ==
  /\ HostEndIs(c, "TRYOPEN")
  /\ EndIs(c, "OPEN") \/ EndIs(c, "CLOSED")
  /\ hostEnds' = [hostEnds EXCEPT ![c].state = "OPEN"]
  /\ UNCHANGED acks

-----------------------------------------------------------------------------
(* Closing *)

HostChanCloseInit(c) ==
  /\ HostMayClose
  /\ HostEndIs(c, "OPEN")
  /\ hostEnds' = [hostEnds EXCEPT ![c].state = "CLOSED"]
  /\ UNCHANGED acks

HostChanCloseConfirm(c) ==
  /\ HostEndIs(c, "OPEN")
  /\ EndIs(c, "CLOSED")
  /\ hostEnds' = [hostEnds EXCEPT ![c].state = "CLOSED"]
  /\ UNCHANGED acks

CoreChanCloseConfirm(c) ==
  /\ EndIs(c, "OPEN")
  /\ HostEndIs(c, "CLOSED")
  /\ ends' = [ends EXCEPT ![c].state = "CLOSED"]
  /\ UNCHANGED <<packets, committed>>

-----------------------------------------------------------------------------
(* Packets *)

TotalSent == Cardinality(UNION {{c} \X DOMAIN packets[c] : c \in ChannelIds})

\* A send on an end that is not open, or with an elapsed timeout, fails the
\* transaction that asked for it.
CoreSendPacket(msg) ==
  LET c == msg.channel_id IN
  /\ TotalSent < MaxPackets
  /\ EndIs(c, "OPEN")
  /\ now < msg.packet.timeout
  /\ packets' = [packets EXCEPT ![c] = Append(@, msg.packet)]
  /\ committed' = committed \cup {<<c, Len(packets[c]) + 1>>}
  /\ UNCHANGED ends

\* The next packet in the channel's order, before its timeout.
HostRecvPacket(c) ==
  LET i == Len(acks[c]) + 1 IN
  /\ HostEndIs(c, "OPEN")
  /\ i \in DOMAIN packets[c]
  /\ now < packets[c][i].timeout
  /\ \E a \in HostAcks : acks' = [acks EXCEPT ![c] = Append(@, a)]
  /\ UNCHANGED hostEnds

\* Acknowledgements reach the contract in the order of the packets.
CoreAcknowledgePacket(c, i) ==
  /\ EndIs(c, "OPEN")
  /\ <<c, i>> \in committed
  /\ \A j \in 1..(i-1) : <<c, j>> \notin committed
  /\ i \in DOMAIN acks[c]
  /\ committed' = committed \ {<<c, i>>}
  /\ UNCHANGED <<ends, packets>>

\* By a proof that the host never received the packet and now cannot: its
\* time is over, or the host's end is closed.  An ordered end closes with it.
CoreTimeoutPacket(c, i) ==
  /\ EndIs(c, "OPEN") \/ (TimeoutClosedEnds /\ EndIs(c, "CLOSED"))
  /\ <<c, i>> \in committed
  /\ i > Len(acks[c])
  /\ packets[c][i].timeout <= now \/ HostEndIs(c, "CLOSED")
  /\ committed' = committed \ {<<c, i>>}
  /\ ends' = [ends EXCEPT ![c].state = "CLOSED"]
  /\ UNCHANGED packets

Tick ==
  /\ \E t \in BlockTimes : t > now /\ now' = t

==============================================================================
