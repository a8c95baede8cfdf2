--------------------------- MODULE IcaSystem_proofs ---------------------------
(***************************************************************************)
(* Theorems of IcaSystem, for every value of its constants.                *)
(***************************************************************************)
EXTENDS IcaSystem, TLAPS

\* The types of the storage items are records wherever they are mentioned.
USE DEF ContractStates, CallbackCounters

(***************************************************************************)
(* Types of what the handlers build.                                       *)
(***************************************************************************)

LEMMA ChannelOfType ==
  ASSUME NEW c \in ChannelIds, NEW p \in Proposals
  PROVE  ChannelOf(c, p) \in IbcChannels
  BY SystemAssumption DEF ChannelOf, IbcChannels, CounterpartyChannelIds

LEMMA CoreVersionType ==
  ASSUME NEW asked, NEW metadata \in IcaMetadatas
  PROVE  CoreVersion(asked, metadata) \in Versions
  BY DEF CoreVersion, Versions

LEMMA VersionUpdateType ==
  ASSUME NEW channel \in IbcChannels, NEW v \in Versions
  PROVE  /\ [channel EXCEPT !.version = v] \in IbcChannels
         /\ [channel EXCEPT !.version = v].version = v
         /\ [channel EXCEPT !.version = v].channel_id = channel.channel_id
         /\ [channel EXCEPT !.version = v].connection_id = channel.connection_id
  BY DEF IbcChannels

\* What an acknowledgement leaves of a channel, and what it changes.
LEMMA AnsweredFields ==
  ASSUME NEW channel \in IbcChannels, NEW v, NEW id \in CounterpartyChannelIds
  PROVE  /\ v \in Versions => WithAnswer(channel, v, id) \in IbcChannels
         /\ WithAnswer(channel, v, id).version = v
         /\ WithAnswer(channel, v, id).channel_id = channel.channel_id
         /\ WithAnswer(channel, v, id).connection_id = channel.connection_id
         /\ WithAnswer(channel, v, id).order = channel.order
         /\ WithAnswer(channel, v, id).counterparty_port_id = channel.counterparty_port_id
  BY DEF IbcChannels, WithAnswer

\* The fields of an end, and that an end is there when its state is asked for.
LEMMA EndFields ==
  ASSUME NEW c \in ChannelIds, NetworkTypeOK, ends[c] # None
  PROVE  /\ ends[c] \in Ends
         /\ ends[c].channel \in IbcChannels
         /\ ends[c].proposed \in IcaMetadatas
         /\ ConnectionOf(c) \in Connections
         /\ ends[c].channel.channel_id \in ChannelIds
  BY DEF NetworkTypeOK, Ends, IbcChannels, ConnectionOf

LEMMA HostEndFields ==
  ASSUME NEW c \in ChannelIds, NetworkTypeOK, hostEnds[c] # None
  PROVE  /\ hostEnds[c] \in HostEnds
         /\ hostEnds[c].version \in IcaMetadatas
  BY DEF NetworkTypeOK, HostEnds

LEMMA AckVersionType ==
  ASSUME NEW c \in ChannelIds, NetworkTypeOK, hostEnds[c] # None
  PROVE  AckVersion(c) \in Versions
  BY HostEndFields DEF AckVersion, Versions

LEMMA ShownAtAckFields ==
  ASSUME NEW c \in ChannelIds, NetworkTypeOK, ends[c] # None, hostEnds[c] # None,
         NEW channel \in ShownAtAck(c)
  PROVE  /\ channel \in IbcChannels
         /\ channel.channel_id = ends[c].channel.channel_id
         /\ channel.connection_id = ConnectionOf(c)
         /\ channel.version \in {ends[c].channel.version, AckVersion(c)}
         /\ channel.order = ends[c].channel.order
         /\ channel.counterparty_port_id = ends[c].channel.counterparty_port_id
  <1>1. ends[c].channel \in IbcChannels /\ ends[c].channel.version \in Versions
    BY EndFields DEF IbcChannels
  <1>2. PICK version \in {ends[c].channel.version, AckVersion(c)}, id \in CounterpartyChannelIds :
          channel = WithAnswer(ends[c].channel, version, id)
    BY DEF ShownAtAck
  <1>3. version \in Versions
    BY <1>1, <1>2, AckVersionType
  <1> QED
    BY <1>1, <1>2, <1>3, AnsweredFields DEF ConnectionOf

LEMMA MetadataFields ==
  ASSUME NEW metadata \in IcaMetadatas
  PROVE  /\ metadata.address \in Addresses \cup {NoAddress}
         /\ metadata.encoding \in TxEncodings
         /\ \A a \in Addresses :
              /\ [metadata EXCEPT !.address = a] \in IcaMetadatas
              /\ [metadata EXCEPT !.address = a].address = a
              /\ [metadata EXCEPT !.address = a].encoding = metadata.encoding
              /\ [metadata EXCEPT !.address = a].controller_connection_id =
                   metadata.controller_connection_id
  BY DEF IcaMetadatas

(***************************************************************************)
(* What each kind of step does to the types: the contract's handlers and   *)
(* the operations of the core and the host, each for its own variables.    *)
(***************************************************************************)

LEMMA AcknowledgementTypes ==
  ASSUME ControllerTypeOK, NEW channel \in IbcChannels, NEW v \in IcaMetadatas,
         OnAcknowledgement(channel, v)
  PROVE  ControllerTypeOK'
  <1>1. channel.channel_id \in ChannelIds
    BY DEF IbcChannels
  <1>2. contractState' \in [admin : Users, ica_info : IcaInfos \cup {None}]
    BY <1>1, MetadataFields DEF ControllerTypeOK, OnAcknowledgement, SetIcaInfo, IcaInfos
  <1>3. channelState' \in ChannelStates
    BY DEF OnAcknowledgement, NewOpenChannel, ChannelStates
  <1> QED
    BY <1>2, <1>3 DEF ControllerTypeOK, OnAcknowledgement

LEMMA CloseTypes ==
  ASSUME channelState \in ChannelStates, Close
  PROVE  channelState' \in ChannelStates
  BY DEF Close, ChannelStates

LEMMA CounterTypes ==
  ASSUME ControllerTypeOK, Success \/ Error \/ Timeout
  PROVE  callbackCounter' \in
           [success : 0..MaxU32, error : 0..MaxU32, timeout : 0..MaxU32]
  BY ControllerAssumption DEF ControllerTypeOK, Success, Error, Timeout

LEMMA SendTypes ==
  ASSUME NetworkTypeOK, NEW msg,
         msg.channel_id \in ChannelIds, msg.packet \in Packets, CoreSendPacket(msg)
  PROVE  /\ packets' \in [ChannelIds -> Seq(Packets)]
         /\ committed' \subseteq ChannelIds \X (Nat \ {0})
  <1>1. packets[msg.channel_id] \in Seq(Packets)
    BY DEF NetworkTypeOK
  <1>2. Append(packets[msg.channel_id], msg.packet) \in Seq(Packets)
    BY <1>1
  <1>3. Len(packets[msg.channel_id]) + 1 \in Nat \ {0}
    BY <1>1
  <1>4. packets' \in [ChannelIds -> Seq(Packets)]
    BY <1>2 DEF NetworkTypeOK, CoreSendPacket
  <1>5. committed' \subseteq ChannelIds \X (Nat \ {0})
    BY <1>3 DEF NetworkTypeOK, CoreSendPacket
  <1> QED
    BY <1>4, <1>5

\* An end that is updated keeps its channel id, its connection and the
\* metadata the contract proposed on it.
LEMMA StateUpdate ==
  ASSUME NEW end \in Ends, NEW s \in {"INIT", "OPEN", "CLOSED"}
  PROVE  /\ [end EXCEPT !.state = s] \in Ends
         /\ [end EXCEPT !.state = s].state = s
         /\ [end EXCEPT !.state = s].channel = end.channel
         /\ [end EXCEPT !.state = s].proposed = end.proposed
  BY DEF Ends

LEMMA OpenAckEffect ==
  ASSUME NetworkTypeOK, NEW c \in ChannelIds, CoreChanOpenAck(c)
  PROVE  /\ ends' \in [ChannelIds -> Ends \cup {None}]
         /\ ends'[c] # None
         /\ ends'[c].state = "OPEN"
         /\ ends'[c].channel.channel_id = ends[c].channel.channel_id
         /\ ends'[c].channel.connection_id = ends[c].channel.connection_id
         /\ ends'[c].channel.version = AckVersion(c)
         /\ ends'[c].channel.order = ends[c].channel.order
         /\ ends'[c].channel.counterparty_port_id = ends[c].channel.counterparty_port_id
         /\ ends'[c].proposed = ends[c].proposed
         /\ \A d \in ChannelIds : d # c => ends'[d] = ends[d]
  <1> DEFINE v == AckVersion(c)
             channel == WithAnswer(ends[c].channel, v, "assigned")
             end == [state |-> "OPEN", channel |-> channel, proposed |-> ends[c].proposed]
  <1>1. ends[c] \in Ends /\ ends[c] # None /\ hostEnds[c] # None
    BY EndFields DEF CoreChanOpenAck, EndIs, HostEndIs
  <1>2. v \in Versions
    BY <1>1, AckVersionType
  <1> HIDE DEF v
  <1>3. /\ channel \in IbcChannels
        /\ channel.version = v
        /\ channel.channel_id = ends[c].channel.channel_id
        /\ channel.connection_id = ends[c].channel.connection_id
        /\ channel.order = ends[c].channel.order
        /\ channel.counterparty_port_id = ends[c].channel.counterparty_port_id
    <2>1. ends[c].channel \in IbcChannels
      BY <1>1, EndFields
    <2>2. "assigned" \in CounterpartyChannelIds
      BY DEF CounterpartyChannelIds
    <2> QED
      BY <1>2, <2>1, <2>2, AnsweredFields
  <1>4. end \in Ends
    BY <1>1, <1>3, EndFields DEF Ends
  <1>5. ends' = [ends EXCEPT ![c] = end]
    BY DEF CoreChanOpenAck, v
  <1>6. ends' \in [ChannelIds -> Ends \cup {None}] /\ ends'[c] = end
    BY <1>4, <1>5 DEF NetworkTypeOK
  <1>7. end # None
    BY <1>4, NetworkAssumption
  <1>8. v = AckVersion(c)
    BY DEF v
  <1> HIDE DEF channel
  <1> QED
    BY <1>3, <1>5, <1>6, <1>7, <1>8 DEF NetworkTypeOK

LEMMA CloseEffect ==
  ASSUME NetworkTypeOK, NEW c \in ChannelIds, ends[c] # None,
         ends' = [ends EXCEPT ![c].state = "CLOSED"]
  PROVE  /\ ends' \in [ChannelIds -> Ends \cup {None}]
         /\ ends'[c] # None
         /\ ends'[c].state = "CLOSED"
         /\ ends'[c].channel = ends[c].channel
         /\ ends'[c].proposed = ends[c].proposed
         /\ \A d \in ChannelIds : d # c => ends'[d] = ends[d]
  <1> DEFINE end == [ends[c] EXCEPT !.state = "CLOSED"]
  <1>1. /\ end \in Ends
        /\ end.state = "CLOSED"
        /\ end.channel = ends[c].channel
        /\ end.proposed = ends[c].proposed
    BY EndFields, StateUpdate
  <1>2. ends' = [ends EXCEPT ![c] = end]
    OBVIOUS
  <1>3. end # None
    BY <1>1, NetworkAssumption
  <1> HIDE DEF end
  <1> QED
    BY <1>1, <1>2, <1>3 DEF NetworkTypeOK

LEMMA OpenInitEffect ==
  ASSUME NetworkTypeOK, NEW c \in ChannelIds, NEW channel \in IbcChannels,
         NEW metadata \in IcaMetadatas, CoreChanOpenInit(c, channel, metadata)
  PROVE  /\ ends' \in [ChannelIds -> Ends \cup {None}]
         /\ ends'[c] # None
         /\ ends'[c].state = "INIT"
         /\ ends'[c].channel.channel_id = channel.channel_id
         /\ ends'[c].channel.connection_id = channel.connection_id
         /\ ends'[c].channel.version = CoreVersion(channel.version, metadata)
         /\ ends'[c].proposed = metadata
         /\ \A d \in ChannelIds : d # c => ends'[d] = ends[d]
  <1> DEFINE ch == [channel EXCEPT !.version = CoreVersion(channel.version, metadata)]
             end == [state |-> "INIT", channel |-> ch, proposed |-> metadata]
  <1>1. /\ ch \in IbcChannels
        /\ ch.version = CoreVersion(channel.version, metadata)
        /\ ch.channel_id = channel.channel_id
        /\ ch.connection_id = channel.connection_id
    BY CoreVersionType, VersionUpdateType
  <1>2. ends' = [ends EXCEPT ![c] = end]
    BY DEF CoreChanOpenInit
  <1> HIDE DEF ch
  <1>3. end \in Ends /\ end # None
    BY <1>1, NetworkAssumption DEF Ends
  <1> QED
    BY <1>1, <1>2, <1>3 DEF NetworkTypeOK

\* The host's answer is the proposal with the account's address in it.
LEMMA OpenTryEffect ==
  ASSUME NetworkTypeOK, NEW c \in ChannelIds, HostChanOpenTry(c)
  PROVE  /\ hostEnds' \in [ChannelIds -> HostEnds \cup {None}]
         /\ ends[c] # None
         /\ hostEnds'[c] # None
         /\ hostEnds'[c].version.address = HostAccount[ConnectionOf(c)]
         /\ hostEnds'[c].version.encoding = ends[c].proposed.encoding
         /\ hostEnds'[c].version.controller_connection_id =
              ends[c].proposed.controller_connection_id
         /\ \A d \in ChannelIds : d # c => hostEnds'[d] = hostEnds[d]
  <1> DEFINE a == HostAccount[ConnectionOf(c)]
             version == [ends[c].proposed EXCEPT !.address = a]
             end == [state |-> "TRYOPEN", version |-> version]
  <1>1. ends[c] # None
    BY DEF HostChanOpenTry, EndIs
  <1>2. a \in Addresses
    BY <1>1, EndFields, NetworkAssumption
  <1>3. /\ version \in IcaMetadatas
        /\ version.address = a
        /\ version.encoding = ends[c].proposed.encoding
        /\ version.controller_connection_id = ends[c].proposed.controller_connection_id
    BY <1>1, <1>2, EndFields, MetadataFields
  <1>4. hostEnds' = [hostEnds EXCEPT ![c] = end]
    BY DEF HostChanOpenTry
  <1> HIDE DEF version
  <1>5. end \in HostEnds /\ end # None
    BY <1>3, NetworkAssumption DEF HostEnds
  <1> QED
    BY <1>1, <1>3, <1>4, <1>5 DEF NetworkTypeOK

LEMMA HostStateEffect ==
  ASSUME NetworkTypeOK, NEW c \in ChannelIds, hostEnds[c] # None,
         NEW s \in {"TRYOPEN", "OPEN", "CLOSED"},
         hostEnds' = [hostEnds EXCEPT ![c].state = s]
  PROVE  /\ hostEnds' \in [ChannelIds -> HostEnds \cup {None}]
         /\ hostEnds'[c] # None
         /\ hostEnds'[c].version = hostEnds[c].version
         /\ \A d \in ChannelIds : d # c => hostEnds'[d] = hostEnds[d]
  <1> DEFINE end == [hostEnds[c] EXCEPT !.state = s]
  <1>1. end \in HostEnds /\ end.version = hostEnds[c].version
    BY HostEndFields DEF HostEnds
  <1>2. hostEnds' = [hostEnds EXCEPT ![c] = end]
    OBVIOUS
  <1>3. end # None
    BY <1>1, NetworkAssumption
  <1> HIDE DEF end
  <1> QED
    BY <1>1, <1>2, <1>3 DEF NetworkTypeOK

LEMMA RecvTypes ==
  ASSUME NetworkTypeOK, NEW c \in ChannelIds, HostRecvPacket(c)
  PROVE  acks' \in [ChannelIds -> Seq(Acknowledgements)]
  <1>1. PICK a \in HostAcks : acks' = [acks EXCEPT ![c] = Append(@, a)]
    BY DEF HostRecvPacket
  <1>2. Append(acks[c], a) \in Seq(Acknowledgements)
    BY NetworkAssumption DEF NetworkTypeOK
  <1> QED
    BY <1>1, <1>2 DEF NetworkTypeOK

LEMMA CustomMsgType ==
  ASSUME TypeOK, NEW sender \in Users, NEW messages \in CustomMessages,
         NEW t \in TimeoutChoices, SendCustomIcaMessages(sender, now, t)
  PROVE  /\ CustomIcaMsg(messages, now, t).channel_id = contractState.ica_info.channel_id
         /\ CustomIcaMsg(messages, now, t).packet.data = messages
         /\ CustomIcaMsg(messages, now, t).channel_id \in ChannelIds
         /\ CustomIcaMsg(messages, now, t).packet \in Packets
  <1>1. contractState.ica_info \in IcaInfos
    BY DEF TypeOK, ControllerTypeOK, SendCustomIcaMessages
  <1>2. TimeoutTimestamp(now, t) \in 0..MaxTimestamp
    BY SystemAssumption, NetworkAssumption, PacketAssumption
    DEF TypeOK, NetworkTypeOK, SendCustomIcaMessages, TimeoutFits, TimeoutTimestamp,
        UnwrapOrDefault, DEFAULT_TIMEOUT_SECONDS
  <1> QED
    BY <1>1, <1>2 DEF CustomIcaMsg, ToIbcMsg, IcaInfos, Packets

LEMMA BankSendMsgType ==
  ASSUME TypeOK, NEW sender \in Users, NEW amount \in Amounts,
         IcaBankSend(sender, amount, now)
  PROVE  LET msg == BankSendMsg(amount, now)
             info == contractState.ica_info
         IN  /\ info \in IcaInfos
             /\ msg.channel_id = info.channel_id
             /\ msg.channel_id \in ChannelIds
             /\ msg.packet \in Packets
             /\ msg.packet.data = [from_address |-> info.ica_address,
                                   encoding |-> info.encoding, amount |-> amount]
  <1>1. contractState.ica_info \in IcaInfos
    BY DEF TypeOK, ControllerTypeOK, IcaBankSend
  <1>2. TimeoutTimestamp(now, None) \in 0..MaxTimestamp
    BY NetworkAssumption, PacketAssumption
    DEF TypeOK, NetworkTypeOK, IcaBankSend, TimeoutFits, TimeoutTimestamp,
        UnwrapOrDefault, DEFAULT_TIMEOUT_SECONDS
  <1>3. [from_address |-> contractState.ica_info.ica_address,
         encoding |-> contractState.ica_info.encoding, amount |-> amount] \in BankSends
    BY <1>1 DEF IcaInfos, BankSends
  <1> QED
    BY <1>1, <1>2, <1>3 DEF BankSendMsg, ToIbcMsg, IcaInfos, Packets

(***************************************************************************)
(* Type correctness.                                                       *)
(***************************************************************************)

LEMMA TypeInit == Init => TypeOK
  <1> SUFFICES ASSUME Init PROVE TypeOK
    OBVIOUS
  <1>1. ControllerTypeOK
    BY ControllerAssumption DEF Init, Instantiate, ControllerTypeOK
  <1>2. NetworkTypeOK
    BY DEF Init, NetworkInit, NetworkTypeOK
  <1> QED
    BY <1>1, <1>2 DEF TypeOK

\* One step per operation; what an operation leaves alone keeps its type.
LEMMA TypeStep == TypeOK /\ [Next]_vars => TypeOK'
  <1> SUFFICES ASSUME TypeOK, [Next]_vars PROVE TypeOK'
    OBVIOUS
  <1> USE DEF TypeOK, contractVars, networkVars, coreVars, hostVars
  <1>0. CASE UNCHANGED vars
    BY <1>0 DEF vars, ControllerTypeOK, NetworkTypeOK
  <1>1. ASSUME NEW c \in ChannelIds, NEW p \in Proposals, NEW answer \in QueryAnswers(p),
               ChanOpenInit(c, p, answer)
        PROVE  TypeOK'
    <2>1. UNCHANGED contractVars /\ OpenInitMetadata(ChannelOf(c, p), answer) \in IcaMetadatas
      BY <1>1 DEF ChanOpenInit, OpenInit
    <2>2. ends' \in [ChannelIds -> Ends \cup {None}]
      BY <1>1, <2>1, ChannelOfType, OpenInitEffect DEF ChanOpenInit
    <2> QED
      BY <1>1, <2>1, <2>2 DEF ChanOpenInit, CoreChanOpenInit, ControllerTypeOK, NetworkTypeOK
  <1>2. ASSUME NEW c \in ChannelIds, ChanOpenTry(c) PROVE TypeOK'
    BY <1>2, OpenTryEffect DEF ChanOpenTry, HostChanOpenTry, ControllerTypeOK, NetworkTypeOK
  <1>3. ASSUME NEW c \in ChannelIds, ChanOpenAck(c) PROVE TypeOK'
    <2>1. ends[c] # None /\ hostEnds[c] # None
      BY <1>3 DEF ChanOpenAck, CoreChanOpenAck, EndIs, HostEndIs
    <2>2. PICK channel \in ShownAtAck(c) : OnAcknowledgement(channel, hostEnds[c].version)
      BY <1>3 DEF ChanOpenAck
    <2>3. ControllerTypeOK'
      BY <2>1, <2>2, ShownAtAckFields, HostEndFields, AcknowledgementTypes
    <2>4. ends' \in [ChannelIds -> Ends \cup {None}]
      BY <1>3, OpenAckEffect DEF ChanOpenAck
    <2> QED
      BY <1>3, <2>3, <2>4 DEF ChanOpenAck, CoreChanOpenAck, NetworkTypeOK
  <1>4. ASSUME NEW c \in ChannelIds, ChanOpenConfirm(c) PROVE TypeOK'
    BY <1>4, HostStateEffect
    DEF ChanOpenConfirm, HostChanOpenConfirm, HostEndIs, ControllerTypeOK, NetworkTypeOK
  <1>5. ASSUME NEW c \in ChannelIds, ChanCloseConfirm(c) PROVE TypeOK'
    <2>1. ends' \in [ChannelIds -> Ends \cup {None}]
      BY <1>5, CloseEffect DEF ChanCloseConfirm, CoreChanCloseConfirm, EndIs
    <2>2. channelState' \in ChannelStates
      BY <1>5, CloseTypes DEF ChanCloseConfirm, CloseConfirm, ControllerTypeOK
    <2> QED
      BY <1>5, <2>1, <2>2
      DEF ChanCloseConfirm, CoreChanCloseConfirm, CloseConfirm, ControllerTypeOK, NetworkTypeOK
  <1>6. ASSUME NEW c \in ChannelIds, HostCloses(c) PROVE TypeOK'
    BY <1>6, HostStateEffect
    DEF HostCloses, HostCloseInit, HostCloseConfirm, HostChanCloseInit,
        HostChanCloseConfirm, HostEndIs, ControllerTypeOK,
        NetworkTypeOK
  <1>7. ASSUME NEW sender \in Users, NEW messages \in CustomMessages,
               NEW t \in TimeoutChoices, ExecuteSendCustomIcaMessages(sender, messages, t)
        PROVE  TypeOK'
    BY <1>7, CustomMsgType, SendTypes
    DEF ExecuteSendCustomIcaMessages, SendCustomIcaMessages, CoreSendPacket,
        ControllerTypeOK, NetworkTypeOK
  <1>8. ASSUME NEW sender \in Users, NEW amount \in Amounts,
               ExecuteIcaBankSend(sender, amount)
        PROVE  TypeOK'
    BY <1>8, BankSendMsgType, SendTypes
    DEF ExecuteIcaBankSend, IcaBankSend, CoreSendPacket, ControllerTypeOK, NetworkTypeOK
  <1>9. ASSUME NEW c \in ChannelIds, RecvPacket(c) PROVE TypeOK'
    BY <1>9, RecvTypes DEF RecvPacket, HostRecvPacket, ControllerTypeOK, NetworkTypeOK
  <1>10. ASSUME NEW c \in ChannelIds, NEW i \in DOMAIN packets[c], AcknowledgePacket(c, i)
         PROVE  TypeOK'
    BY <1>10, CounterTypes
    DEF AcknowledgePacket, CoreAcknowledgePacket, IbcPacketAck, AckSuccess, AckError,
        ControllerTypeOK, NetworkTypeOK
  <1>11. ASSUME NEW c \in ChannelIds, NEW i \in DOMAIN packets[c], TimeoutPacket(c, i)
         PROVE  TypeOK'
    <2>1. ends' \in [ChannelIds -> Ends \cup {None}]
      BY <1>11, CloseEffect DEF TimeoutPacket, CoreTimeoutPacket, EndIs
    <2>2. channelState' \in ChannelStates
      BY <1>11, CloseTypes DEF TimeoutPacket, IbcPacketTimeout, ControllerTypeOK
    <2> QED
      BY <1>11, <2>1, <2>2, CounterTypes
      DEF TimeoutPacket, CoreTimeoutPacket, IbcPacketTimeout, ControllerTypeOK, NetworkTypeOK
  <1>12. CASE NewBlockTime
    BY <1>12 DEF NewBlockTime, Tick, ControllerTypeOK, NetworkTypeOK
  <1> QED
    BY <1>0, <1>1, <1>2, <1>3, <1>4, <1>5, <1>6, <1>7, <1>8, <1>9, <1>10, <1>11, <1>12
    DEF Next, UserStep, HandshakeStep, PacketStep

\* Every reachable state has the types of the source: in particular a callback
\* counter never passes u32::MAX and a packet's timeout never passes the last
\* u64 timestamp, whatever the users and the relayer do.
THEOREM TypeCorrect == Spec => []TypeOK
  BY TypeInit, TypeStep, PTL DEF Spec

(***************************************************************************)
(* The account, the channel and the encoding belong together.              *)
(*                                                                         *)
(* The two invariants are inductive together with what ties the records of *)
(* the core and of the host to one another.                                *)
(***************************************************************************)

HandshakeRecords ==
  \A c \in ChannelIds :
    /\ ends[c] # None => ends[c].channel.channel_id = c
    /\ hostEnds[c] # None =>
         /\ ends[c] # None
         /\ hostEnds[c].version.address = HostAccount[ConnectionOf(c)]
         /\ hostEnds[c].version.encoding = ends[c].proposed.encoding

IdentityInv ==
  /\ TypeOK
  /\ HandshakeRecords
  /\ IcaInfoDescribesStoredChannel
  /\ PacketProvenance

\* The channel ends only ever advance: an end keeps its channel id, its
\* connection and its proposed metadata, and never goes back to INIT.
EndsAdvance ==
  \A c \in ChannelIds : ends[c] # None =>
    /\ ends'[c] # None
    /\ ends'[c].channel.channel_id = ends[c].channel.channel_id
    /\ ends'[c].channel.connection_id = ends[c].channel.connection_id
    /\ ends'[c].proposed = ends[c].proposed
    /\ ends[c].state \in {"OPEN", "CLOSED"} => ends'[c].state \in {"OPEN", "CLOSED"}

LEMMA EndsStep == TypeOK /\ [Next]_vars => EndsAdvance
  <1> SUFFICES ASSUME TypeOK, [Next]_vars PROVE EndsAdvance
    OBVIOUS
  <1> USE DEF TypeOK, contractVars, networkVars, coreVars, hostVars
  <1>0. CASE UNCHANGED ends
    BY <1>0 DEF EndsAdvance
  <1>1. ASSUME NEW c \in ChannelIds, NEW p \in Proposals, NEW answer \in QueryAnswers(p),
               ChanOpenInit(c, p, answer)
        PROVE  EndsAdvance
    <2>1. OpenInitMetadata(ChannelOf(c, p), answer) \in IcaMetadatas /\ ends[c] = None
      BY <1>1 DEF ChanOpenInit, OpenInit, CoreChanOpenInit
    <2> QED
      BY <1>1, <2>1, ChannelOfType, OpenInitEffect DEF ChanOpenInit, EndsAdvance
  <1>2. ASSUME NEW c \in ChannelIds, ChanOpenAck(c) PROVE EndsAdvance
    BY <1>2, OpenAckEffect DEF ChanOpenAck, EndsAdvance
  <1>3. ASSUME NEW c \in ChannelIds, ChanCloseConfirm(c) PROVE EndsAdvance
    BY <1>3, CloseEffect DEF ChanCloseConfirm, CoreChanCloseConfirm, EndIs, EndsAdvance
  <1>4. ASSUME NEW c \in ChannelIds, NEW i \in DOMAIN packets[c], TimeoutPacket(c, i)
        PROVE  EndsAdvance
    BY <1>4, CloseEffect DEF TimeoutPacket, CoreTimeoutPacket, EndIs, EndsAdvance
  <1>5. ASSUME NEW c \in ChannelIds, ChanOpenTry(c) \/ ChanOpenConfirm(c) \/ HostCloses(c)
                                     \/ RecvPacket(c)
        PROVE  UNCHANGED ends
    BY <1>5 DEF ChanOpenTry, ChanOpenConfirm, HostCloses, HostCloseInit,
                HostCloseConfirm, RecvPacket
  <1>6. ASSUME UserStep PROVE UNCHANGED ends
    BY <1>6 DEF UserStep, ExecuteSendCustomIcaMessages, ExecuteIcaBankSend, CoreSendPacket
  <1>7. ASSUME NEW c \in ChannelIds, NEW i \in DOMAIN packets[c], AcknowledgePacket(c, i)
        PROVE  UNCHANGED ends
    BY <1>7 DEF AcknowledgePacket, CoreAcknowledgePacket
  <1>8. ASSUME NewBlockTime \/ UNCHANGED vars PROVE UNCHANGED ends
    BY <1>8 DEF NewBlockTime, vars
  <1> QED
    BY <1>0, <1>1, <1>2, <1>3, <1>4, <1>5, <1>6, <1>7, <1>8
    DEF Next, HandshakeStep, PacketStep

LEMMA HandshakeRecordsStep ==
  ASSUME TypeOK, HandshakeRecords, [Next]_vars
  PROVE  HandshakeRecords'
  <1> USE DEF TypeOK, contractVars, networkVars, coreVars, hostVars
  <1>0. EndsAdvance
    BY EndsStep
  <1>1. ASSUME NEW c \in ChannelIds, NEW p \in Proposals, NEW answer \in QueryAnswers(p),
               ChanOpenInit(c, p, answer)
        PROVE  HandshakeRecords'
    <2>1. OpenInitMetadata(ChannelOf(c, p), answer) \in IcaMetadatas /\ ends[c] = None
      BY <1>1 DEF ChanOpenInit, OpenInit, CoreChanOpenInit
    <2>2. ends'[c].channel.channel_id = c /\ \A d \in ChannelIds : d # c => ends'[d] = ends[d]
      BY <1>1, <2>1, ChannelOfType, OpenInitEffect DEF ChanOpenInit, ChannelOf
    <2> QED
      BY <1>0, <1>1, <2>1, <2>2 DEF ChanOpenInit, HandshakeRecords, ConnectionOf
  <1>2. ASSUME NEW c \in ChannelIds, ChanOpenTry(c) PROVE HandshakeRecords'
    BY <1>2, OpenTryEffect DEF ChanOpenTry, HandshakeRecords, ConnectionOf
  <1>3. ASSUME NEW c \in ChannelIds, ChanOpenConfirm(c) \/ HostCloses(c)
        PROVE  HandshakeRecords'
    BY <1>3, HostStateEffect
    DEF ChanOpenConfirm, HostCloses, HostCloseInit, HostCloseConfirm, HostChanOpenConfirm,
        HostChanCloseInit, HostChanCloseConfirm, HostEndIs, HandshakeRecords, ConnectionOf
  <1>4. ASSUME UNCHANGED hostEnds,
               NEW c \in ChannelIds, ends[c] # None,
               \A d \in ChannelIds : d # c => ends'[d] = ends[d]
        PROVE  HandshakeRecords'
    <2> SUFFICES ASSUME NEW d \in ChannelIds
        PROVE  /\ ends'[d] # None => ends'[d].channel.channel_id = d
               /\ hostEnds[d] # None =>
                    /\ ends'[d] # None
                    /\ hostEnds[d].version.address =
                         HostAccount[ends'[d].channel.connection_id]
                    /\ hostEnds[d].version.encoding = ends'[d].proposed.encoding
      BY <1>4 DEF HandshakeRecords, ConnectionOf
    <2>1. CASE ends[d] = None
      BY <1>4, <2>1 DEF HandshakeRecords
    <2>2. CASE ends[d] # None
      <3>1. /\ ends'[d] # None
            /\ ends'[d].channel.channel_id = ends[d].channel.channel_id
            /\ ends'[d].channel.connection_id = ends[d].channel.connection_id
            /\ ends'[d].proposed = ends[d].proposed
        BY <1>0, <2>2 DEF EndsAdvance
      <3> QED
        BY <2>2, <3>1 DEF HandshakeRecords, ConnectionOf
    <2> QED
      BY <2>1, <2>2
  <1>5. ASSUME NEW c \in ChannelIds, ChanOpenAck(c) \/ ChanCloseConfirm(c)
        PROVE  HandshakeRecords'
    BY <1>4, <1>5, OpenAckEffect, CloseEffect
    DEF ChanOpenAck, ChanCloseConfirm, CoreChanOpenAck, CoreChanCloseConfirm, EndIs
  <1>6. ASSUME NEW c \in ChannelIds, NEW i \in DOMAIN packets[c], TimeoutPacket(c, i)
        PROVE  HandshakeRecords'
    BY <1>4, <1>6, CloseEffect DEF TimeoutPacket, CoreTimeoutPacket, EndIs
  <1>7. ASSUME UNCHANGED <<ends, hostEnds>> PROVE HandshakeRecords'
    BY <1>7 DEF HandshakeRecords, ConnectionOf
  <1>8. ASSUME UserStep PROVE UNCHANGED <<ends, hostEnds>>
    BY <1>8 DEF UserStep, ExecuteSendCustomIcaMessages, ExecuteIcaBankSend, CoreSendPacket
  <1>9. ASSUME NEW c \in ChannelIds, RecvPacket(c) PROVE UNCHANGED <<ends, hostEnds>>
    BY <1>9 DEF RecvPacket, HostRecvPacket
  <1>10. ASSUME NEW c \in ChannelIds, NEW i \in DOMAIN packets[c], AcknowledgePacket(c, i)
         PROVE  UNCHANGED <<ends, hostEnds>>
    BY <1>10 DEF AcknowledgePacket, CoreAcknowledgePacket
  <1>11. ASSUME NewBlockTime \/ UNCHANGED vars PROVE UNCHANGED <<ends, hostEnds>>
    BY <1>11 DEF NewBlockTime, vars
  <1> QED
    BY <1>1, <1>2, <1>3, <1>4, <1>5, <1>6, <1>7, <1>8, <1>9, <1>10, <1>11
    DEF Next, HandshakeStep, PacketStep

\* The account stays described while the contract keeps it and its channel.
LEMMA InfoKept ==
  ASSUME TypeOK, IcaInfoDescribesStoredChannel, EndsAdvance,
         contractState' = contractState,
         channelState' = None <=> channelState = None,
         channelState # None => channelState'.channel = channelState.channel
  PROVE  IcaInfoDescribesStoredChannel'
  <1> DEFINE c == contractState.ica_info.channel_id
  <1>1. CASE contractState.ica_info = None
    BY <1>1 DEF IcaInfoDescribesStoredChannel
  <1>2. CASE contractState.ica_info # None
    <2>1. c \in ChannelIds
      BY <1>2 DEF TypeOK, ControllerTypeOK, IcaInfos
    <2>2. /\ ends[c] # None
          /\ ends[c].state \in {"OPEN", "CLOSED"}
      BY <1>2 DEF IcaInfoDescribesStoredChannel, EndIs
    <2>3. /\ ends'[c] # None
          /\ ends'[c].channel.connection_id = ends[c].channel.connection_id
          /\ ends'[c].proposed = ends[c].proposed
          /\ ends'[c].state \in {"OPEN", "CLOSED"}
      BY <2>1, <2>2 DEF EndsAdvance
    <2> QED
      BY <1>2, <2>3 DEF IcaInfoDescribesStoredChannel, EndIs, ConnectionOf
  <1> QED
    BY <1>1, <1>2

LEMMA CloseKeepsChannel ==
  ASSUME TypeOK, channelState # None, Close
  PROVE  channelState' # None /\ channelState'.channel = channelState.channel
  <1>1. channelState \in ChannelStates
    BY DEF TypeOK, ControllerTypeOK
  <1>2. channelState' \in ChannelStates
    BY <1>1, CloseTypes
  <1>3. channelState'.channel = channelState.channel
    BY <1>1 DEF Close, ChannelStates
  <1> QED
    BY <1>2, <1>3, ControllerAssumption

\* OpenAck sets the account, the channel and the encoding all together.
LEMMA OpenAckDescribes ==
  ASSUME TypeOK, HandshakeRecords, NEW c \in ChannelIds, ChanOpenAck(c)
  PROVE  IcaInfoDescribesStoredChannel'
  <1> DEFINE v == hostEnds[c].version
             info == [ica_address |-> v.address, channel_id |-> c, encoding |-> v.encoding]
  <1>1. ends[c] # None /\ hostEnds[c] # None
    BY DEF ChanOpenAck, CoreChanOpenAck, EndIs, HostEndIs
  <1>2. PICK channel \in ShownAtAck(c) : OnAcknowledgement(channel, v)
    BY DEF ChanOpenAck
  <1>3. /\ channel \in IbcChannels
        /\ channel.channel_id = c
        /\ channel.connection_id = ConnectionOf(c)
    BY <1>1, <1>2, ShownAtAckFields DEF TypeOK, HandshakeRecords
  <1>4. /\ v \in IcaMetadatas
        /\ v.address = HostAccount[ConnectionOf(c)]
        /\ v.encoding = ends[c].proposed.encoding
    BY <1>1, HostEndFields DEF TypeOK, HandshakeRecords
  <1>5. AddressLen[v.address] <= 128 /\ v.address \in Alphanumeric
    BY <1>2 DEF OnAcknowledgement, Validate, ValidateIcaAddress, DEFAULT_MAX_LENGTH
  <1>6. info \in IcaInfos /\ info # None
    BY <1>4, MetadataFields, ControllerAssumption DEF IcaInfos
  <1>7. contractState'.ica_info = info
    BY <1>2, <1>3 DEF OnAcknowledgement, SetIcaInfo, TypeOK, ControllerTypeOK
  <1>8. channelState' # None /\ channelState'.channel = channel
    <2>1. channelState' \in ChannelStates
      BY <1>2, <1>3 DEF OnAcknowledgement, NewOpenChannel, ChannelStates
    <2> QED
      BY <1>2, <2>1, ControllerAssumption DEF OnAcknowledgement, NewOpenChannel
  <1>9. /\ ends'[c] # None
        /\ ends'[c].state = "OPEN"
        /\ ends'[c].channel.connection_id = ConnectionOf(c)
        /\ ends'[c].proposed = ends[c].proposed
    BY OpenAckEffect DEF TypeOK, ChanOpenAck, ConnectionOf
  <1> QED
    BY <1>3, <1>4, <1>5, <1>6, <1>7, <1>8, <1>9
    DEF IcaInfoDescribesStoredChannel, EndIs, ConnectionOf

\* The ways a step can change what the contract stores of its channel.
LEMMA StoredChange ==
  ASSUME [Next]_vars
  PROVE  \/ UNCHANGED <<contractState, channelState>>
         \/ UNCHANGED contractState /\ channelState # None /\ Close
         \/ \E c \in ChannelIds : ChanOpenAck(c)
  <1> USE DEF contractVars
  <1>1. ASSUME NEW c \in ChannelIds, ChanCloseConfirm(c)
        PROVE  UNCHANGED contractState /\ channelState # None /\ Close
    BY <1>1 DEF ChanCloseConfirm, CloseConfirm
  <1>2. ASSUME NEW c \in ChannelIds, NEW i \in DOMAIN packets[c], TimeoutPacket(c, i)
        PROVE  UNCHANGED contractState /\ channelState # None /\ Close
    BY <1>2 DEF TimeoutPacket, IbcPacketTimeout
  <1>3. ASSUME NEW c \in ChannelIds,
               \/ \E p \in Proposals : \E answer \in QueryAnswers(p) : ChanOpenInit(c, p, answer)
               \/ ChanOpenTry(c) \/ ChanOpenConfirm(c) \/ HostCloses(c) \/ RecvPacket(c)
        PROVE  UNCHANGED <<contractState, channelState>>
    BY <1>3 DEF ChanOpenInit, OpenInit, ChanOpenTry, ChanOpenConfirm, HostCloses, HostCloseInit,
                HostCloseConfirm, RecvPacket
  <1>4. ASSUME UserStep PROVE UNCHANGED <<contractState, channelState>>
    BY <1>4 DEF UserStep, ExecuteSendCustomIcaMessages, ExecuteIcaBankSend,
                SendCustomIcaMessages, IcaBankSend
  <1>5. ASSUME NEW c \in ChannelIds, NEW i \in DOMAIN packets[c], AcknowledgePacket(c, i)
        PROVE  UNCHANGED <<contractState, channelState>>
    BY <1>5 DEF AcknowledgePacket, IbcPacketAck, AckSuccess, AckError
  <1>6. ASSUME NewBlockTime \/ UNCHANGED vars PROVE UNCHANGED <<contractState, channelState>>
    BY <1>6 DEF NewBlockTime, vars
  <1> QED
    BY <1>1, <1>2, <1>3, <1>4, <1>5, <1>6 DEF Next, HandshakeStep, PacketStep

LEMMA InfoStep ==
  ASSUME TypeOK, HandshakeRecords, IcaInfoDescribesStoredChannel, [Next]_vars
  PROVE  IcaInfoDescribesStoredChannel'
  <1>1. EndsAdvance
    BY EndsStep
  <1>2. CASE UNCHANGED <<contractState, channelState>>
    BY <1>1, <1>2, InfoKept
  <1>3. CASE UNCHANGED contractState /\ channelState # None /\ Close
    BY <1>1, <1>3, InfoKept, CloseKeepsChannel
  <1>4. CASE \E c \in ChannelIds : ChanOpenAck(c)
    BY <1>4, OpenAckDescribes
  <1> QED
    BY <1>2, <1>3, <1>4, StoredChange

LEMMA ProvenanceKept ==
  ASSUME PacketProvenance, EndsAdvance, UNCHANGED packets
  PROVE  PacketProvenance'
  <1> SUFFICES ASSUME NEW c \in ChannelIds, NEW i \in DOMAIN packets[c],
                      packets[c][i].data \in BankSends
      PROVE  LET send == packets[c][i].data IN
             /\ ends'[c] # None /\ ends'[c].state \in {"OPEN", "CLOSED"}
             /\ send.from_address = HostAccount[ends'[c].channel.connection_id]
             /\ send.encoding = ends'[c].proposed.encoding
             /\ send.encoding = "proto3json" => send.amount = "u128"
    BY DEF PacketProvenance, EndIs, ConnectionOf
  <1>1. /\ ends[c] # None /\ ends[c].state \in {"OPEN", "CLOSED"}
        /\ packets[c][i].data.from_address = HostAccount[ends[c].channel.connection_id]
        /\ packets[c][i].data.encoding = ends[c].proposed.encoding
        /\ packets[c][i].data.encoding = "proto3json" => packets[c][i].data.amount = "u128"
    BY DEF PacketProvenance, EndIs, ConnectionOf
  <1> QED
    BY <1>1 DEF EndsAdvance

\* A send adds to one channel a packet the account of that channel may send.
LEMMA ProvenanceSend ==
  ASSUME TypeOK, PacketProvenance, NEW msg, msg.channel_id \in ChannelIds,
         CoreSendPacket(msg),
         msg.packet.data \in BankSends =>
           LET send == msg.packet.data
               c == msg.channel_id IN
           /\ EndIs(c, "OPEN") \/ EndIs(c, "CLOSED")
           /\ send.from_address = HostAccount[ConnectionOf(c)]
           /\ send.encoding = ends[c].proposed.encoding
           /\ send.encoding = "proto3json" => send.amount = "u128"
  PROVE  PacketProvenance'
  <1> SUFFICES ASSUME NEW c \in ChannelIds, NEW i \in DOMAIN packets'[c],
                      packets'[c][i].data \in BankSends
      PROVE  LET send == packets'[c][i].data IN
             /\ EndIs(c, "OPEN") \/ EndIs(c, "CLOSED")
             /\ send.from_address = HostAccount[ConnectionOf(c)]
             /\ send.encoding = ends[c].proposed.encoding
             /\ send.encoding = "proto3json" => send.amount = "u128"
    BY DEF PacketProvenance, CoreSendPacket, EndIs, ConnectionOf
  <1>1. packets[c] \in Seq(Packets)
    BY DEF TypeOK, NetworkTypeOK
  <1>2. CASE i \in DOMAIN packets[c] /\ packets'[c][i] = packets[c][i]
    BY <1>2 DEF PacketProvenance
  <1>3. CASE c = msg.channel_id /\ packets'[c][i] = msg.packet
    BY <1>3
  <1>4. \/ i \in DOMAIN packets[c] /\ packets'[c][i] = packets[c][i]
        \/ c = msg.channel_id /\ packets'[c][i] = msg.packet
    <2>1. CASE c = msg.channel_id
      <3>1. packets'[c] = Append(packets[c], msg.packet)
        BY <2>1 DEF CoreSendPacket, TypeOK, NetworkTypeOK
      <3> QED
        BY <1>1, <2>1, <3>1
    <2>2. CASE c # msg.channel_id
      BY <2>2 DEF CoreSendPacket, TypeOK, NetworkTypeOK
    <2> QED
      BY <2>1, <2>2
  <1> QED
    BY <1>2, <1>3, <1>4

LEMMA ProvenanceStep ==
  ASSUME TypeOK, IcaInfoDescribesStoredChannel, PacketProvenance, [Next]_vars
  PROVE  PacketProvenance'
  <1> USE DEF networkVars, coreVars
  <1>0. EndsAdvance
    BY EndsStep
  <1>1. ASSUME NEW sender \in Users, NEW messages \in CustomMessages,
               NEW t \in TimeoutChoices, ExecuteSendCustomIcaMessages(sender, messages, t)
        PROVE  PacketProvenance'
    <2> DEFINE msg == CustomIcaMsg(messages, now, t)
    <2>1. CoreSendPacket(msg) /\ SendCustomIcaMessages(sender, now, t)
      BY <1>1 DEF ExecuteSendCustomIcaMessages
    <2>2. msg.channel_id \in ChannelIds /\ msg.packet.data = messages
      BY <2>1, CustomMsgType
    <2>3. msg.packet.data \notin BankSends
      BY <2>2, PacketAssumption
    <2> HIDE DEF msg
    <2> QED
      BY <2>1, <2>2, <2>3, ProvenanceSend
  <1>2. ASSUME NEW sender \in Users, NEW amount \in Amounts,
               ExecuteIcaBankSend(sender, amount)
        PROVE  PacketProvenance'
    <2> DEFINE msg == BankSendMsg(amount, now)
               info == contractState.ica_info
    <2>1. CoreSendPacket(msg) /\ IcaBankSend(sender, amount, now)
      BY <1>2 DEF ExecuteIcaBankSend
    <2>2. /\ info \in IcaInfos
          /\ msg.channel_id = info.channel_id
          /\ msg.channel_id \in ChannelIds
          /\ msg.packet.data = [from_address |-> info.ica_address,
                                encoding |-> info.encoding, amount |-> amount]
      BY <2>1, BankSendMsgType
    <2>3. info # None /\ (info.encoding = "proto3json" => amount = "u128")
      BY <2>1 DEF IcaBankSend
    <2>4. LET c == msg.channel_id IN
          /\ EndIs(c, "OPEN") \/ EndIs(c, "CLOSED")
          /\ info.ica_address = HostAccount[ConnectionOf(c)]
          /\ info.encoding = ends[c].proposed.encoding
      BY <2>2, <2>3 DEF IcaInfoDescribesStoredChannel
    <2> HIDE DEF msg, info
    <2> QED
      BY <2>1, <2>2, <2>3, <2>4, ProvenanceSend
  <1>3. ASSUME NEW c \in ChannelIds, HandshakeStep(c) PROVE UNCHANGED packets
    BY <1>3 DEF HandshakeStep, ChanOpenInit, ChanOpenTry, ChanOpenAck, ChanOpenConfirm,
                ChanCloseConfirm, HostCloses, HostCloseInit, HostCloseConfirm,
                CoreChanOpenInit, CoreChanOpenAck,
                CoreChanCloseConfirm
  <1>4. ASSUME NEW c \in ChannelIds, PacketStep(c) PROVE UNCHANGED packets
    BY <1>4 DEF PacketStep, RecvPacket, AcknowledgePacket, TimeoutPacket,
                CoreAcknowledgePacket, CoreTimeoutPacket
  <1>5. ASSUME NewBlockTime \/ UNCHANGED vars PROVE UNCHANGED packets
    BY <1>5 DEF NewBlockTime, vars
  <1> QED
    BY <1>0, <1>1, <1>2, <1>3, <1>4, <1>5, ProvenanceKept DEF Next, UserStep

LEMMA IdentityInit == Init => IdentityInv
  <1> SUFFICES ASSUME Init PROVE IdentityInv
    OBVIOUS
  <1>1. TypeOK
    BY TypeInit
  <1>2. HandshakeRecords
    BY DEF Init, NetworkInit, HandshakeRecords
  <1>3. IcaInfoDescribesStoredChannel
    BY DEF Init, Instantiate, IcaInfoDescribesStoredChannel
  <1>4. PacketProvenance
    BY DEF Init, NetworkInit, PacketProvenance
  <1> QED
    BY <1>1, <1>2, <1>3, <1>4 DEF IdentityInv

LEMMA IdentityStep == IdentityInv /\ [Next]_vars => IdentityInv'
  BY TypeStep, HandshakeRecordsStep, InfoStep, ProvenanceStep DEF IdentityInv

\* However many handshakes run at once, whatever the order in which channels
\* are acknowledged, close and are replaced, the account, channel and encoding
\* that on_acknowledgement stores are always those of one opened channel, and
\* the account is one validate_ica_address admits.
THEOREM InfoDescribesStoredChannel == Spec => []IcaInfoDescribesStoredChannel
  <1>1. IdentityInv => IcaInfoDescribesStoredChannel
    BY DEF IdentityInv
  <1> QED
    BY <1>1, IdentityInit, IdentityStep, PTL DEF Spec

\* No bank send (ica_bank_send) ever leaves on a channel for another account
\* or in another encoding than the channel's own.
THEOREM PacketsHaveProvenance == Spec => []PacketProvenance
  <1>1. IdentityInv => PacketProvenance
    BY DEF IdentityInv
  <1> QED
    BY <1>1, IdentityInit, IdentityStep, PTL DEF Spec

(***************************************************************************)
(* What the contract calls open is open, however many handshakes run.      *)
(***************************************************************************)

OpenInv == IdentityInv /\ OpenChannelIsOpen

\* An end that is open stays open while the stored channel is not closed.
LEMMA OpenEndStays ==
  ASSUME TypeOK, [Next]_vars, NEW c \in ChannelIds, EndIs(c, "OPEN")
  PROVE  EndIs(c, "OPEN")' \/ Close
  <1> USE DEF TypeOK, networkVars, coreVars, hostVars
  <1>1. ASSUME NEW d \in ChannelIds, NEW p \in Proposals, NEW answer \in QueryAnswers(p),
               ChanOpenInit(d, p, answer)
        PROVE  ends'[c] = ends[c]
    BY <1>1 DEF ChanOpenInit, CoreChanOpenInit, NetworkTypeOK, EndIs
  <1>2. ASSUME NEW d \in ChannelIds, ChanOpenAck(d) PROVE ends'[c] = ends[c]
    BY <1>2, OpenAckEffect DEF ChanOpenAck, CoreChanOpenAck, EndIs
  <1>3. ASSUME NEW d \in ChannelIds, ChanCloseConfirm(d) PROVE Close
    BY <1>3 DEF ChanCloseConfirm, CloseConfirm
  <1>4. ASSUME NEW d \in ChannelIds, NEW i \in DOMAIN packets[d], TimeoutPacket(d, i)
        PROVE  Close
    BY <1>4 DEF TimeoutPacket, IbcPacketTimeout
  <1>5. ASSUME NEW d \in ChannelIds,
               ChanOpenTry(d) \/ ChanOpenConfirm(d) \/ HostCloses(d) \/ RecvPacket(d)
        PROVE  UNCHANGED ends
    BY <1>5 DEF ChanOpenTry, ChanOpenConfirm, HostCloses, HostCloseInit,
                HostCloseConfirm, RecvPacket
  <1>6. ASSUME UserStep PROVE UNCHANGED ends
    BY <1>6 DEF UserStep, ExecuteSendCustomIcaMessages, ExecuteIcaBankSend, CoreSendPacket
  <1>7. ASSUME NEW d \in ChannelIds, NEW i \in DOMAIN packets[d], AcknowledgePacket(d, i)
        PROVE  UNCHANGED ends
    BY <1>7 DEF AcknowledgePacket, CoreAcknowledgePacket
  <1>8. ASSUME NewBlockTime \/ UNCHANGED vars PROVE UNCHANGED ends
    BY <1>8 DEF NewBlockTime, vars
  <1>9. ends'[c] = ends[c] \/ Close
    BY <1>1, <1>2, <1>3, <1>4, <1>5, <1>6, <1>7, <1>8 DEF Next, HandshakeStep, PacketStep
  <1> QED
    BY <1>9 DEF EndIs

LEMMA OpenStep == OpenInv /\ [Next]_vars => OpenInv'
  <1> SUFFICES ASSUME OpenInv, [Next]_vars PROVE OpenInv'
    OBVIOUS
  <1> USE DEF OpenInv, IdentityInv
  <1>1. IdentityInv'
    BY IdentityStep
  <1>2. ASSUME NEW c \in ChannelIds, ChanOpenAck(c) PROVE OpenChannelIsOpen'
    <2>1. ends[c] # None /\ hostEnds[c] # None
      BY <1>2 DEF ChanOpenAck, CoreChanOpenAck, EndIs, HostEndIs
    <2>2. PICK channel \in ShownAtAck(c) : OnAcknowledgement(channel, hostEnds[c].version)
      BY <1>2 DEF ChanOpenAck
    <2>3. channel.channel_id = c
      BY <2>1, ShownAtAckFields DEF TypeOK, HandshakeRecords
    <2>4. channelState'.channel.channel_id = c
      BY <2>2, <2>3 DEF OnAcknowledgement, NewOpenChannel
    <2>5. EndIs(c, "OPEN")'
      BY <1>2, OpenAckEffect DEF ChanOpenAck, EndIs, TypeOK
    <2> QED
      BY <2>4, <2>5 DEF OpenChannelIsOpen
  <1>3. ASSUME channelState # None, Close PROVE OpenChannelIsOpen'
    BY <1>3 DEF Close, OpenChannelIsOpen, IsOpen, TypeOK, ControllerTypeOK, ChannelStates
  <1>4. ASSUME UNCHANGED channelState, channelState # None, IsOpen, ~Close
        PROVE  OpenChannelIsOpen'
    <2>1. channelState.channel.channel_id \in ChannelIds
      BY <1>4 DEF TypeOK, ControllerTypeOK, ChannelStates, IbcChannels
    <2>2. EndIs(channelState.channel.channel_id, "OPEN")'
      BY <1>4, <2>1, OpenEndStays DEF OpenChannelIsOpen
    <2> QED
      BY <1>4, <2>2 DEF OpenChannelIsOpen, EndIs
  <1>5. ASSUME UNCHANGED channelState, channelState = None \/ ~IsOpen
        PROVE  OpenChannelIsOpen'
    BY <1>5 DEF OpenChannelIsOpen, IsOpen
  <1> QED
    BY <1>1, <1>2, <1>3, <1>4, <1>5, StoredChange

\* The contract never takes a closed channel for an open one, whatever the
\* order of handshakes, closures and timeouts.
THEOREM OpenIsOpen == Spec => []OpenChannelIsOpen
  <1>1. Init => OpenInv
    BY IdentityInit DEF OpenInv, OpenChannelIsOpen, Init, Instantiate
  <1>2. OpenInv => OpenChannelIsOpen
    BY DEF OpenInv
  <1> QED
    BY <1>1, <1>2, OpenStep, PTL DEF Spec

(***************************************************************************)
(* One handshake at a time: at most one can still be completed.            *)
(***************************************************************************)

Pending(c) == EndIs(c, "INIT") /\ HostAccepts(c)

OnePending ==
  \A c, d \in ChannelIds : Pending(c) /\ Pending(d) => c = d

AnsweredIsAccepted ==
  \A c \in ChannelIds : hostEnds[c] # None => HostAccepts(c)

OneHandshakeInv ==
  /\ IdentityInv
  /\ OnePending
  /\ AnsweredIsAccepted

\* The ends a step leaves pending were pending, but for the one it begins.
LEMMA PendingStep ==
  ASSUME TypeOK, [Next]_vars, NEW c \in ChannelIds, Pending(c)'
  PROVE  \/ /\ Pending(c)
            /\ ConnectionOf(c)' = ConnectionOf(c)
            /\ ends'[c].proposed = ends[c].proposed
         \/ \E p \in Proposals : \E answer \in QueryAnswers(p) : ChanOpenInit(c, p, answer)
  <1> USE DEF TypeOK, contractVars, networkVars, coreVars, hostVars
  <1>1. ASSUME NEW d \in ChannelIds, ends'[d] # None => ends'[d].state # "INIT",
               \A e \in ChannelIds : e # d => ends'[e] = ends[e]
        PROVE  ends'[c] = ends[c]
    BY <1>1 DEF Pending, EndIs
  <1>2. ASSUME NEW d \in ChannelIds, ChanOpenAck(d) PROVE ends'[c] = ends[c]
    BY <1>1, <1>2, OpenAckEffect DEF ChanOpenAck
  <1>3. ASSUME NEW d \in ChannelIds, ChanCloseConfirm(d) PROVE ends'[c] = ends[c]
    BY <1>1, <1>3, CloseEffect DEF ChanCloseConfirm, CoreChanCloseConfirm, EndIs
  <1>4. ASSUME NEW d \in ChannelIds, NEW i \in DOMAIN packets[d], TimeoutPacket(d, i)
        PROVE  ends'[c] = ends[c]
    BY <1>1, <1>4, CloseEffect DEF TimeoutPacket, CoreTimeoutPacket, EndIs
  <1>5. ASSUME NEW d \in ChannelIds, NEW p \in Proposals, NEW answer \in QueryAnswers(p),
               ChanOpenInit(d, p, answer), d # c
        PROVE  ends'[c] = ends[c]
    BY <1>5 DEF ChanOpenInit, CoreChanOpenInit, NetworkTypeOK
  <1>6. ASSUME NEW d \in ChannelIds,
               ChanOpenTry(d) \/ ChanOpenConfirm(d) \/ HostCloses(d) \/ RecvPacket(d)
        PROVE  UNCHANGED ends
    BY <1>6 DEF ChanOpenTry, ChanOpenConfirm, HostCloses, HostCloseInit,
                HostCloseConfirm, RecvPacket
  <1>7. ASSUME UserStep PROVE UNCHANGED ends
    BY <1>7 DEF UserStep, ExecuteSendCustomIcaMessages, ExecuteIcaBankSend, CoreSendPacket
  <1>8. ASSUME NEW d \in ChannelIds, NEW i \in DOMAIN packets[d], AcknowledgePacket(d, i)
        PROVE  UNCHANGED ends
    BY <1>8 DEF AcknowledgePacket, CoreAcknowledgePacket
  <1>9. ASSUME NewBlockTime \/ UNCHANGED vars PROVE UNCHANGED ends
    BY <1>9 DEF NewBlockTime, vars
  <1>10. ends'[c] = ends[c]
         \/ \E p \in Proposals : \E answer \in QueryAnswers(p) : ChanOpenInit(c, p, answer)
    BY <1>2, <1>3, <1>4, <1>5, <1>6, <1>7, <1>8, <1>9 DEF Next, HandshakeStep, PacketStep
  <1> QED
    BY <1>10 DEF Pending, EndIs, HostAccepts, ConnectionOf

\* The ways a step can change the host's ends.
LEMMA HostEndsChange ==
  ASSUME [Next]_vars
  PROVE  \/ UNCHANGED hostEnds
         \/ \E c \in ChannelIds : ChanOpenTry(c) \/ ChanOpenConfirm(c) \/ HostCloses(c)
  <1> USE DEF networkVars, hostVars
  <1>1. ASSUME NEW c \in ChannelIds,
               \/ \E p \in Proposals : \E answer \in QueryAnswers(p) : ChanOpenInit(c, p, answer)
               \/ ChanOpenAck(c) \/ ChanCloseConfirm(c) \/ RecvPacket(c)
        PROVE  UNCHANGED hostEnds
    BY <1>1 DEF ChanOpenInit, ChanOpenAck, ChanCloseConfirm, RecvPacket, HostRecvPacket
  <1>2. ASSUME NEW c \in ChannelIds, NEW i \in DOMAIN packets[c],
               AcknowledgePacket(c, i) \/ TimeoutPacket(c, i)
        PROVE  UNCHANGED hostEnds
    BY <1>2 DEF AcknowledgePacket, TimeoutPacket
  <1>3. ASSUME UserStep PROVE UNCHANGED hostEnds
    BY <1>3 DEF UserStep, ExecuteSendCustomIcaMessages, ExecuteIcaBankSend
  <1>4. ASSUME NewBlockTime \/ UNCHANGED vars PROVE UNCHANGED hostEnds
    BY <1>4 DEF NewBlockTime, vars
  <1> QED
    BY <1>1, <1>2, <1>3, <1>4 DEF Next, HandshakeStep, PacketStep

\* The host's end of a channel comes into being with the host's answer, and
\* stays.
LEMMA AnswerStep ==
  ASSUME TypeOK, [Next]_vars, NEW c \in ChannelIds
  PROVE  /\ hostEnds[c] # None => hostEnds'[c] # None
         /\ hostEnds'[c] # None => hostEnds[c] # None \/ ChanOpenTry(c)
  <1> USE DEF TypeOK
  <1>1. ASSUME NEW d \in ChannelIds, ChanOpenTry(d)
        PROVE  /\ hostEnds[c] # None => hostEnds'[c] # None
               /\ hostEnds'[c] # None => hostEnds[c] # None \/ ChanOpenTry(c)
    BY <1>1, OpenTryEffect DEF ChanOpenTry
  <1>2. ASSUME NEW d \in ChannelIds, ChanOpenConfirm(d) \/ HostCloses(d)
        PROVE  hostEnds[c] # None <=> hostEnds'[c] # None
    BY <1>2, HostStateEffect
    DEF ChanOpenConfirm, HostCloses, HostCloseInit, HostCloseConfirm, HostChanOpenConfirm,
        HostChanCloseInit, HostChanCloseConfirm, HostEndIs
  <1> QED
    BY <1>1, <1>2, HostEndsChange

LEMMA OneHandshakeInit == Init => OneHandshakeInv
  <1> SUFFICES ASSUME Init PROVE OneHandshakeInv
    OBVIOUS
  <1>1. IdentityInv
    BY IdentityInit
  <1>2. \A c \in ChannelIds : ends[c] = None /\ hostEnds[c] = None
    BY DEF Init, NetworkInit
  <1> QED
    BY <1>1, <1>2 DEF OneHandshakeInv, OnePending, AnsweredIsAccepted, Pending, EndIs

\* A handshake begins only when none is pending, and the host answers only
\* what it accepts.
LEMMA OneHandshakeStep ==
  ASSUME ConcurrentHandshakes = FALSE, OneHandshakeInv, [Next]_vars
  PROVE  OneHandshakeInv'
  <1> USE DEF OneHandshakeInv, IdentityInv
  <1>1. IdentityInv'
    BY IdentityStep
  <1>2. ASSUME NEW c \in ChannelIds, NEW d \in ChannelIds, Pending(c)', Pending(d)', c # d
        PROVE  FALSE
    <2>1. ASSUME NEW b \in ChannelIds, NEW e \in ChannelIds, b # e, Pending(e)',
                 NEW p \in Proposals, NEW answer \in QueryAnswers(p), ChanOpenInit(b, p, answer)
          PROVE  ends[e] # None /\ ~Pending(e)
      <3>1. ends'[e] = ends[e] /\ NoPendingHandshake
        BY <2>1 DEF ChanOpenInit, CoreChanOpenInit, TypeOK, NetworkTypeOK
      <3> QED
        BY <2>1, <3>1 DEF NoPendingHandshake, Pending, EndIs
    <2>2. \A b \in ChannelIds, p \in Proposals : \A answer \in QueryAnswers(p) :
            ChanOpenInit(b, p, answer) => ends[b] = None
      BY DEF ChanOpenInit, CoreChanOpenInit
    <2>3. Pending(c) \/ \E p \in Proposals : \E answer \in QueryAnswers(p) :
                          ChanOpenInit(c, p, answer)
      BY <1>2, PendingStep
    <2>4. Pending(d) \/ \E p \in Proposals : \E answer \in QueryAnswers(p) :
                          ChanOpenInit(d, p, answer)
      BY <1>2, PendingStep
    <2>5. ~(Pending(c) /\ Pending(d))
      BY <1>2 DEF OnePending
    <2> QED
      BY <1>2, <2>1, <2>2, <2>3, <2>4, <2>5
  <1>3. ASSUME NEW c \in ChannelIds, hostEnds'[c] # None PROVE HostAccepts(c)'
    <2>1. CASE ChanOpenTry(c)
      BY <2>1 DEF ChanOpenTry, HostChanOpenTry, coreVars, HostAccepts, ConnectionOf
    <2>2. CASE hostEnds[c] # None
      <3>1. HostAccepts(c) /\ ends[c] # None
        BY <2>2 DEF AnsweredIsAccepted, HandshakeRecords
      <3>2. /\ ends'[c].channel.connection_id = ends[c].channel.connection_id
            /\ ends'[c].proposed = ends[c].proposed
        BY <3>1, EndsStep DEF EndsAdvance
      <3> QED
        BY <3>1, <3>2 DEF HostAccepts, ConnectionOf
    <2> QED
      BY <1>3, <2>1, <2>2, AnswerStep
  <1> QED
    BY <1>1, <1>2, <1>3 DEF OnePending, AnsweredIsAccepted

\* The acknowledged handshake was the pending one: none stays pending.
LEMMA AckLeavesNonePending ==
  ASSUME OneHandshakeInv, NEW c \in ChannelIds, ChanOpenAck(c)
  PROVE  /\ Pending(c)
         /\ \A d \in ChannelIds : ~Pending(d)'
  <1>1. Pending(c)
    BY DEF ChanOpenAck, CoreChanOpenAck, OneHandshakeInv, AnsweredIsAccepted, Pending, HostEndIs
  <1>2. /\ ends'[c] # None
        /\ ends'[c].state = "OPEN"
        /\ \A d \in ChannelIds : d # c => ends'[d] = ends[d]
    BY OpenAckEffect DEF ChanOpenAck, OneHandshakeInv, IdentityInv, TypeOK
  <1>3. ASSUME NEW d \in ChannelIds, Pending(d)' PROVE FALSE
    <2>1. d # c
      BY <1>2, <1>3 DEF Pending, EndIs
    <2>2. Pending(d)
      BY <1>2, <1>3, <2>1 DEF Pending, EndIs, HostAccepts, ConnectionOf
    <2> QED
      BY <1>1, <2>1, <2>2 DEF OneHandshakeInv, OnePending
  <1> QED
    BY <1>1, <1>3

(***************************************************************************)
(* What is stored mirrors the core.                                        *)
(*                                                                         *)
(* StoredChannelMirrorsCore is inductive once it is known that at most one *)
(* handshake can still complete, and that while one can, the stored        *)
(* channel is not open.                                                    *)
(***************************************************************************)

PendingOnlyWhenClosed ==
  \A c \in ChannelIds : Pending(c) => channelState = None \/ ~IsOpen

MirrorInv ==
  /\ OneHandshakeInv
  /\ PendingOnlyWhenClosed
  /\ StoredChannelMirrorsCore

\* A step that leaves the contract's channel and the ends alone.
LEMMA MirrorKept ==
  ASSUME MirrorInv, OneHandshakeInv', UNCHANGED <<channelState, ends>>
  PROVE  MirrorInv'
  BY DEF MirrorInv, PendingOnlyWhenClosed, StoredChannelMirrorsCore, Pending, EndIs,
         HostAccepts, ConnectionOf, IsOpen

\* A step that closes an open end closes the stored channel: they are one.
LEMMA MirrorClose ==
  ASSUME MirrorInv, OneHandshakeInv', NEW c \in ChannelIds, EndIs(c, "OPEN"),
         channelState # None, Close, ends' = [ends EXCEPT ![c].state = "CLOSED"]
  PROVE  MirrorInv'
  <1>1. /\ ends'[c] # None
        /\ ends'[c].state = "CLOSED"
        /\ \A d \in ChannelIds : d # c => ends'[d] = ends[d]
    BY CloseEffect DEF MirrorInv, OneHandshakeInv, IdentityInv, TypeOK, EndIs
  <1>2. /\ channelState.channel.channel_id = c
        /\ \A d \in ChannelIds : d # c => ~EndIs(d, "OPEN")
    BY DEF MirrorInv, StoredChannelMirrorsCore
  <1>3. channelState'.channel_status = "STATE_CLOSED"
    BY DEF Close, MirrorInv, OneHandshakeInv, IdentityInv, TypeOK, ControllerTypeOK, ChannelStates
  <1>4. PendingOnlyWhenClosed'
    BY <1>3 DEF PendingOnlyWhenClosed, IsOpen
  <1>5. StoredChannelMirrorsCore'
    BY <1>1, <1>2, <1>3 DEF StoredChannelMirrorsCore, EndIs, IsOpen
  <1> QED
    BY <1>4, <1>5 DEF MirrorInv

\* A handshake begins only when nothing open is stored.
LEMMA MirrorOpenInit ==
  ASSUME MirrorInv, OneHandshakeInv', NEW c \in ChannelIds, NEW p \in Proposals,
         NEW answer \in QueryAnswers(p), ChanOpenInit(c, p, answer)
  PROVE  MirrorInv'
  <1>1. /\ OpenInitMetadata(ChannelOf(c, p), answer) \in IcaMetadatas
        /\ channelState = None \/ ~IsOpen
        /\ UNCHANGED channelState
    BY DEF ChanOpenInit, OpenInit, contractVars
  <1>2. /\ ends[c] = None
        /\ ends'[c].state = "INIT"
        /\ \A d \in ChannelIds : d # c => ends'[d] = ends[d]
    BY <1>1, ChannelOfType, OpenInitEffect
    DEF ChanOpenInit, CoreChanOpenInit, MirrorInv, OneHandshakeInv, IdentityInv, TypeOK
  <1>3. PendingOnlyWhenClosed'
    BY <1>1 DEF PendingOnlyWhenClosed, IsOpen
  <1>4. \A d \in ChannelIds : EndIs(d, "OPEN")' <=> EndIs(d, "OPEN")
    BY <1>2 DEF EndIs
  <1>5. StoredChannelMirrorsCore'
    BY <1>1, <1>4 DEF MirrorInv, StoredChannelMirrorsCore, IsOpen
  <1> QED
    BY <1>3, <1>5 DEF MirrorInv

\* The acknowledged handshake was the pending one, so nothing open is
\* overwritten.
LEMMA MirrorOpenAck ==
  ASSUME MirrorInv, OneHandshakeInv', NEW c \in ChannelIds, ChanOpenAck(c)
  PROVE  MirrorInv' /\ (channelState = None \/ ~IsOpen)
  <1> USE DEF MirrorInv, OneHandshakeInv, IdentityInv, TypeOK
  <1>1. ends[c] # None /\ hostEnds[c] # None
    BY DEF ChanOpenAck, CoreChanOpenAck, EndIs, HostEndIs
  <1>2. channelState = None \/ ~IsOpen
    BY AckLeavesNonePending DEF PendingOnlyWhenClosed
  <1>3. \A d \in ChannelIds : ~EndIs(d, "OPEN")
    BY <1>2 DEF StoredChannelMirrorsCore
  <1>4. /\ ends'[c] # None
        /\ ends'[c].state = "OPEN"
        /\ \A d \in ChannelIds : d # c => ends'[d] = ends[d]
    BY OpenAckEffect DEF ChanOpenAck
  <1>5. PICK channel \in ShownAtAck(c) : OnAcknowledgement(channel, hostEnds[c].version)
    BY DEF ChanOpenAck
  <1>6. channel \in IbcChannels /\ channel.channel_id = c
    BY <1>1, <1>5, ShownAtAckFields DEF HandshakeRecords
  <1>7. /\ channelState' \in ChannelStates
        /\ channelState' # None
        /\ channelState'.channel = channel
        /\ channelState'.channel_status = "STATE_OPEN"
    BY <1>5, <1>6, ControllerAssumption DEF OnAcknowledgement, NewOpenChannel, ChannelStates
  <1>8. StoredChannelMirrorsCore'
    BY <1>3, <1>4, <1>6, <1>7 DEF StoredChannelMirrorsCore, EndIs, IsOpen
  <1> QED
    BY <1>2, <1>8, AckLeavesNonePending DEF PendingOnlyWhenClosed

LEMMA MirrorInit == Init => MirrorInv
  <1> SUFFICES ASSUME Init PROVE MirrorInv
    OBVIOUS
  <1>1. OneHandshakeInv
    BY OneHandshakeInit
  <1>2. channelState = None /\ \A c \in ChannelIds : ends[c] = None
    BY DEF Init, Instantiate, NetworkInit
  <1> QED
    BY <1>1, <1>2
    DEF MirrorInv, PendingOnlyWhenClosed, StoredChannelMirrorsCore, Pending, EndIs

LEMMA MirrorStep ==
  ASSUME ConcurrentHandshakes = FALSE, TimeoutClosedEnds = FALSE,
         MirrorInv, [Next]_vars
  PROVE  MirrorInv'
  <1> USE DEF contractVars, networkVars, coreVars, hostVars
  <1>1. OneHandshakeInv'
    BY OneHandshakeStep DEF MirrorInv
  <1>2. ASSUME NEW c \in ChannelIds, NEW p \in Proposals, NEW answer \in QueryAnswers(p),
               ChanOpenInit(c, p, answer)
        PROVE  MirrorInv'
    BY <1>1, <1>2, MirrorOpenInit
  <1>3. ASSUME NEW c \in ChannelIds, ChanOpenAck(c) PROVE MirrorInv'
    BY <1>1, <1>3, MirrorOpenAck
  <1>4. ASSUME NEW c \in ChannelIds, ChanCloseConfirm(c) PROVE MirrorInv'
    BY <1>1, <1>4, MirrorClose DEF ChanCloseConfirm, CoreChanCloseConfirm, CloseConfirm
  <1>5. ASSUME NEW c \in ChannelIds, NEW i \in DOMAIN packets[c], TimeoutPacket(c, i)
        PROVE  MirrorInv'
    BY <1>1, <1>5, MirrorClose DEF TimeoutPacket, CoreTimeoutPacket, IbcPacketTimeout
  <1>6. ASSUME NEW c \in ChannelIds,
               ChanOpenTry(c) \/ ChanOpenConfirm(c) \/ HostCloses(c) \/ RecvPacket(c)
        PROVE  UNCHANGED <<channelState, ends>>
    BY <1>6 DEF ChanOpenTry, ChanOpenConfirm, HostCloses, HostCloseInit, HostCloseConfirm,
                RecvPacket
  <1>7. ASSUME UserStep PROVE UNCHANGED <<channelState, ends>>
    BY <1>7 DEF UserStep, ExecuteSendCustomIcaMessages, ExecuteIcaBankSend,
                SendCustomIcaMessages, IcaBankSend, CoreSendPacket
  <1>8. ASSUME NEW c \in ChannelIds, NEW i \in DOMAIN packets[c], AcknowledgePacket(c, i)
        PROVE  UNCHANGED <<channelState, ends>>
    BY <1>8 DEF AcknowledgePacket, CoreAcknowledgePacket, IbcPacketAck,
                AckSuccess, AckError
  <1>9. ASSUME NewBlockTime \/ UNCHANGED vars PROVE UNCHANGED <<channelState, ends>>
    BY <1>9 DEF NewBlockTime, vars
  <1>10. ASSUME UNCHANGED <<channelState, ends>> PROVE MirrorInv'
    BY <1>1, <1>10, MirrorKept
  <1> QED
    BY <1>2, <1>3, <1>4, <1>5, <1>6, <1>7, <1>8, <1>9, <1>10
    DEF Next, HandshakeStep, PacketStep

\* If handshakes come one at a time and the core lets no packet of a closed
\* end time out, CHANNEL_STATE says open exactly of the one end that is.
THEOREM StoredMirrorsCore ==
  ASSUME ConcurrentHandshakes = FALSE, TimeoutClosedEnds = FALSE
  PROVE  Spec => []StoredChannelMirrorsCore
  <1>1. MirrorInv /\ [Next]_vars => MirrorInv'
    BY MirrorStep
  <1>2. MirrorInv => StoredChannelMirrorsCore
    BY DEF MirrorInv
  <1> QED
    BY <1>1, <1>2, MirrorInit, PTL DEF Spec

\* Only an acknowledgement replaces the stored channel, and MirrorOpenAck says
\* that what it replaces is not open.
THEOREM ReplacedOnlyWhenClosed ==
  ASSUME ConcurrentHandshakes = FALSE, TimeoutClosedEnds = FALSE
  PROVE  Spec => ChannelReplacedOnlyWhenClosed
  <1> DEFINE old == channelState.channel.channel_id
             Replaced == channelState # None /\ channelState'.channel.channel_id # old
  <1>1. MirrorInv /\ [Next]_vars => MirrorInv'
    BY MirrorStep
  <1>2. ASSUME MirrorInv, [Next]_vars, Replaced PROVE EndIs(old, "CLOSED")
    <2>1. \A c \in ChannelIds : ChanOpenAck(c) => ~IsOpen
      <3> SUFFICES ASSUME NEW c \in ChannelIds, ChanOpenAck(c) PROVE ~IsOpen
        OBVIOUS
      <3>1. OneHandshakeInv'
        BY <1>2, OneHandshakeStep DEF MirrorInv
      <3> QED
        BY <1>2, <3>1, MirrorOpenAck
    <2>2. ~IsOpen
      BY <1>2, <2>1, StoredChange, CloseKeepsChannel DEF MirrorInv, OneHandshakeInv, IdentityInv
    <2>3. old \in ChannelIds /\ (EndIs(old, "OPEN") \/ EndIs(old, "CLOSED"))
      BY <1>2
      DEF MirrorInv, OneHandshakeInv, IdentityInv, IcaInfoDescribesStoredChannel, TypeOK,
          ControllerTypeOK, IcaInfos
    <2> QED
      BY <1>2, <2>2, <2>3 DEF MirrorInv, StoredChannelMirrorsCore
  <1>3. MirrorInv /\ [Next]_vars => [Replaced => EndIs(old, "CLOSED")]_vars
    BY <1>2
  <1> QED
    BY <1>1, <1>3, MirrorInit, PTL DEF Spec, ChannelReplacedOnlyWhenClosed

(***************************************************************************)
(* One handshake at a time: one account and one encoding for ever.         *)
(*                                                                         *)
(* What is_previous_version_equal compares is the stored version, which    *)
(* must be shown to speak of the stored account, and to be what the next   *)
(* handshake will be acknowledged with.                                    *)
(***************************************************************************)

\* The versions the core and the host hold name the channel's connection and
\* the encoding proposed on it.
VersionRecords ==
  \A c \in ChannelIds :
    /\ ends[c] # None =>
         /\ ends[c].proposed.controller_connection_id = ConnectionOf(c)
         /\ ends[c].channel.version \in IcaMetadatas =>
              /\ ends[c].channel.version.controller_connection_id = ConnectionOf(c)
              /\ ends[c].channel.version.encoding = ends[c].proposed.encoding
    /\ hostEnds[c] # None =>
         hostEnds[c].version.controller_connection_id = ConnectionOf(c)

StoredVersionDescribesInfo ==
  channelState # None /\ channelState.channel.version \in IcaMetadatas =>
    /\ channelState.channel.version.controller_connection_id =
         channelState.channel.connection_id
    /\ channelState.channel.version.encoding = contractState.ica_info.encoding

PendingKeepsIdentity ==
  \A c \in ChannelIds : Pending(c) /\ channelState # None =>
    /\ ConnectionOf(c) = channelState.channel.connection_id
    /\ ends[c].proposed.encoding = contractState.ica_info.encoding

StableInv ==
  /\ OneHandshakeInv
  /\ VersionRecords
  /\ StoredVersionDescribesInfo
  /\ PendingKeepsIdentity

\* A wrapped version is no metadata.
LEMMA CoreVersionMetadata ==
  ASSUME NEW asked, NEW metadata \in IcaMetadatas, CoreVersion(asked, metadata) \in IcaMetadatas
  PROVE  CoreVersion(asked, metadata) = metadata
  BY MetadataAssumption DEF CoreVersion

LEMMA AckVersionMetadata ==
  ASSUME NEW c, AckVersion(c) \in IcaMetadatas
  PROVE  AckVersion(c) = hostEnds[c].version
  BY MetadataAssumption DEF AckVersion

LEMMA VersionRecordsStep ==
  ASSUME IdentityInv, VersionRecords, [Next]_vars
  PROVE  VersionRecords'
  <1> USE DEF IdentityInv, TypeOK, contractVars, networkVars, coreVars, hostVars
  <1>1. ASSUME NEW c \in ChannelIds, NEW p \in Proposals, NEW answer \in QueryAnswers(p),
               ChanOpenInit(c, p, answer)
        PROVE  VersionRecords'
    <2> DEFINE metadata == OpenInitMetadata(ChannelOf(c, p), answer)
               asked == ChannelOf(c, p).version
    <2>1. metadata \in IcaMetadatas /\ ends[c] = None /\ hostEnds[c] = None
      BY <1>1 DEF ChanOpenInit, OpenInit, CoreChanOpenInit, HandshakeRecords
    <2>2. metadata.controller_connection_id = ChannelOf(c, p).connection_id
      BY <1>1 DEF ChanOpenInit, OpenInit, Validate
    <2>3. /\ ends'[c].channel.connection_id = ChannelOf(c, p).connection_id
          /\ ends'[c].channel.version = CoreVersion(asked, metadata)
          /\ ends'[c].proposed = metadata
          /\ \A d \in ChannelIds : d # c => ends'[d] = ends[d]
      BY <1>1, <2>1, ChannelOfType, OpenInitEffect DEF ChanOpenInit
    <2>4. UNCHANGED hostEnds
      BY <1>1 DEF ChanOpenInit
    <2> HIDE DEF metadata, asked
    <2> QED
      BY <2>1, <2>2, <2>3, <2>4, CoreVersionMetadata DEF VersionRecords, ConnectionOf
  <1>2. ASSUME NEW c \in ChannelIds, ChanOpenTry(c) PROVE VersionRecords'
    BY <1>2, OpenTryEffect DEF ChanOpenTry, VersionRecords, ConnectionOf
  <1>3. ASSUME NEW c \in ChannelIds, ChanOpenConfirm(c) \/ HostCloses(c)
        PROVE  VersionRecords'
    BY <1>3, HostStateEffect
    DEF ChanOpenConfirm, HostCloses, HostCloseInit, HostCloseConfirm, HostChanOpenConfirm,
        HostChanCloseInit, HostChanCloseConfirm, HostEndIs, VersionRecords, ConnectionOf
  <1>4. ASSUME NEW c \in ChannelIds, ChanOpenAck(c) PROVE VersionRecords'
    <2> DEFINE v == hostEnds[c].version
    <2>1. ends[c] # None /\ hostEnds[c] # None /\ UNCHANGED hostEnds
      BY <1>4 DEF ChanOpenAck, CoreChanOpenAck, EndIs, HostEndIs
    <2>2. v \in IcaMetadatas
      BY <2>1, HostEndFields
    <2>3. /\ v.controller_connection_id = ConnectionOf(c)
          /\ v.encoding = ends[c].proposed.encoding
      BY <2>1 DEF VersionRecords, HandshakeRecords
    <2>4. /\ ends'[c].channel.connection_id = ends[c].channel.connection_id
          /\ ends'[c].channel.version = AckVersion(c)
          /\ ends'[c].proposed = ends[c].proposed
          /\ \A d \in ChannelIds : d # c => ends'[d] = ends[d]
      BY <1>4, OpenAckEffect DEF ChanOpenAck
    <2>5. AckVersion(c) \in IcaMetadatas => AckVersion(c) = v
      BY AckVersionMetadata
    <2> HIDE DEF v
    <2>6. ASSUME NEW d \in ChannelIds, d # c
          PROVE  /\ ends'[d] = ends[d]
                 /\ ConnectionOf(d)' = ConnectionOf(d)
                 /\ hostEnds'[d] = hostEnds[d]
      BY <2>1, <2>4, <2>6 DEF ConnectionOf
    <2>7. /\ ends'[c].proposed.controller_connection_id = ConnectionOf(c)'
          /\ ends'[c].channel.version \in IcaMetadatas =>
               /\ ends'[c].channel.version.controller_connection_id = ConnectionOf(c)'
               /\ ends'[c].channel.version.encoding = ends'[c].proposed.encoding
          /\ hostEnds'[c].version.controller_connection_id = ConnectionOf(c)'
      BY <2>1, <2>3, <2>4, <2>5 DEF VersionRecords, ConnectionOf, v
    <2> QED
      BY <2>6, <2>7 DEF VersionRecords
  <1>5. ASSUME UNCHANGED hostEnds, NEW c \in ChannelIds, ends[c] # None,
               ends' = [ends EXCEPT ![c].state = "CLOSED"]
        PROVE  VersionRecords'
    BY <1>5, CloseEffect DEF VersionRecords, ConnectionOf
  <1>6. ASSUME NEW c \in ChannelIds, ChanCloseConfirm(c) PROVE VersionRecords'
    BY <1>5, <1>6 DEF ChanCloseConfirm, CoreChanCloseConfirm, EndIs
  <1>7. ASSUME NEW c \in ChannelIds, NEW i \in DOMAIN packets[c], TimeoutPacket(c, i)
        PROVE  VersionRecords'
    BY <1>5, <1>7 DEF TimeoutPacket, CoreTimeoutPacket, EndIs
  <1>8. ASSUME UNCHANGED <<ends, hostEnds>> PROVE VersionRecords'
    BY <1>8 DEF VersionRecords, ConnectionOf
  <1>9. ASSUME UserStep PROVE UNCHANGED <<ends, hostEnds>>
    BY <1>9 DEF UserStep, ExecuteSendCustomIcaMessages, ExecuteIcaBankSend, CoreSendPacket
  <1>10. ASSUME NEW c \in ChannelIds, RecvPacket(c) PROVE UNCHANGED <<ends, hostEnds>>
    BY <1>10 DEF RecvPacket, HostRecvPacket
  <1>11. ASSUME NEW c \in ChannelIds, NEW i \in DOMAIN packets[c], AcknowledgePacket(c, i)
         PROVE  UNCHANGED <<ends, hostEnds>>
    BY <1>11 DEF AcknowledgePacket, CoreAcknowledgePacket
  <1>12. ASSUME NewBlockTime \/ UNCHANGED vars PROVE UNCHANGED <<ends, hostEnds>>
    BY <1>12 DEF NewBlockTime, vars
  <1> QED
    BY <1>1, <1>2, <1>3, <1>4, <1>6, <1>7, <1>8, <1>9, <1>10, <1>11, <1>12
    DEF Next, HandshakeStep, PacketStep

\* A new handshake proposes what the stored version says.
LEMMA OpenInitKeepsIdentity ==
  ASSUME StableInv, NEW c \in ChannelIds, NEW p \in Proposals, NEW answer \in QueryAnswers(p),
         ChanOpenInit(c, p, answer), channelState # None
  PROVE  /\ ConnectionOf(c)' = channelState.channel.connection_id
         /\ ends'[c].proposed.encoding = contractState.ica_info.encoding
  <1> DEFINE metadata == OpenInitMetadata(ChannelOf(c, p), answer)
             previous == channelState.channel.version
  <1>1. /\ metadata \in IcaMetadatas
        /\ metadata.controller_connection_id = ChannelOf(c, p).connection_id
        /\ IsPreviousVersionEqual(metadata, previous)
    BY DEF ChanOpenInit, OpenInit, Validate
  <1>2. /\ previous.controller_connection_id = channelState.channel.connection_id
        /\ previous.encoding = contractState.ica_info.encoding
    BY <1>1 DEF StableInv, StoredVersionDescribesInfo, IsPreviousVersionEqual
  <1>3. /\ ends'[c].channel.connection_id = ChannelOf(c, p).connection_id
        /\ ends'[c].proposed = metadata
    BY <1>1, ChannelOfType, OpenInitEffect
    DEF ChanOpenInit, StableInv, OneHandshakeInv, IdentityInv, TypeOK
  <1> QED
    BY <1>1, <1>2, <1>3 DEF IsPreviousVersionEqual, ConnectionOf

\* What an acknowledgement stores: the shown version speaks of the account.
LEMMA OpenAckStores ==
  ASSUME StableInv, NEW c \in ChannelIds, ChanOpenAck(c)
  PROVE  /\ StoredVersionDescribesInfo'
         /\ contractState'.ica_info.ica_address = HostAccount[ConnectionOf(c)]
         /\ contractState'.ica_info.encoding = ends[c].proposed.encoding
         /\ contractState'.ica_info # None
  <1> DEFINE v == hostEnds[c].version
  <1> USE DEF StableInv, OneHandshakeInv, IdentityInv, TypeOK
  <1>1. ends[c] # None /\ hostEnds[c] # None
    BY DEF ChanOpenAck, CoreChanOpenAck, EndIs, HostEndIs
  <1>2. PICK channel \in ShownAtAck(c) : OnAcknowledgement(channel, v)
    BY DEF ChanOpenAck
  <1>3. /\ v \in IcaMetadatas
        /\ v.address = HostAccount[ConnectionOf(c)]
        /\ v.encoding = ends[c].proposed.encoding
        /\ v.controller_connection_id = ConnectionOf(c)
    BY <1>1, HostEndFields DEF HandshakeRecords, VersionRecords
  <1>4. /\ channel \in IbcChannels
        /\ channel.channel_id \in ChannelIds
        /\ channel.connection_id = ConnectionOf(c)
    BY <1>1, <1>2, ShownAtAckFields, EndFields
  <1>5. channel.version \in {ends[c].channel.version, AckVersion(c)}
    BY <1>1, <1>2, ShownAtAckFields
  <1>6. channel.version \in IcaMetadatas =>
          /\ channel.version.controller_connection_id = ConnectionOf(c)
          /\ channel.version.encoding = ends[c].proposed.encoding
    BY <1>1, <1>3, <1>5, AckVersionMetadata DEF VersionRecords
  <1>7. contractState'.ica_info =
          [ica_address |-> v.address, channel_id |-> channel.channel_id,
           encoding |-> v.encoding]
    BY <1>2 DEF OnAcknowledgement, SetIcaInfo, ControllerTypeOK
  <1>8. channelState'.channel = channel
    BY <1>2 DEF OnAcknowledgement, NewOpenChannel
  <1>9. contractState'.ica_info # None
    <2>1. contractState'.ica_info \in IcaInfos
      BY <1>3, <1>4, <1>7, MetadataFields DEF IcaInfos
    <2> QED
      BY <2>1, ControllerAssumption
  <1> QED
    BY <1>3, <1>4, <1>6, <1>7, <1>8, <1>9 DEF StoredVersionDescribesInfo

LEMMA StableStep ==
  ASSUME ConcurrentHandshakes = FALSE, StableInv, [Next]_vars
  PROVE  StableInv'
  <1> USE DEF StableInv
  <1>1. OneHandshakeInv'
    BY OneHandshakeStep
  <1>2. VersionRecords'
    BY VersionRecordsStep DEF OneHandshakeInv
  <1>3. StoredVersionDescribesInfo' /\ PendingKeepsIdentity'
    <2>1. CASE \E c \in ChannelIds : ChanOpenAck(c)
      <3>1. PICK c \in ChannelIds : ChanOpenAck(c)
        BY <2>1
      <3>2. StoredVersionDescribesInfo'
        BY <3>1, OpenAckStores
      <3>3. \A d \in ChannelIds : ~Pending(d)'
        BY <3>1, AckLeavesNonePending
      <3> QED
        BY <3>2, <3>3 DEF PendingKeepsIdentity
    <2>2. CASE UNCHANGED contractState
               /\ (channelState' = None <=> channelState = None)
               /\ (channelState # None => channelState'.channel = channelState.channel)
      <3>1. StoredVersionDescribesInfo'
        BY <2>2 DEF StoredVersionDescribesInfo
      <3>2. ASSUME NEW c \in ChannelIds, Pending(c)', channelState' # None
            PROVE  /\ ConnectionOf(c)' = channelState'.channel.connection_id
                   /\ ends'[c].proposed.encoding = contractState'.ica_info.encoding
        BY <2>2, <3>2, PendingStep, OpenInitKeepsIdentity
        DEF PendingKeepsIdentity, OneHandshakeInv, IdentityInv
      <3> QED
        BY <3>1, <3>2 DEF PendingKeepsIdentity
    <2> QED
      BY <2>1, <2>2, StoredChange, CloseKeepsChannel DEF OneHandshakeInv, IdentityInv
  <1> QED
    BY <1>1, <1>2, <1>3

LEMMA StableInit == Init => StableInv
  <1> SUFFICES ASSUME Init PROVE StableInv
    OBVIOUS
  <1>1. OneHandshakeInv
    BY OneHandshakeInit
  <1>2. channelState = None /\ \A c \in ChannelIds : ends[c] = None /\ hostEnds[c] = None
    BY DEF Init, Instantiate, NetworkInit
  <1> QED
    BY <1>1, <1>2
    DEF StableInv, VersionRecords, StoredVersionDescribesInfo, PendingKeepsIdentity

\* A step that keeps the account and the encoding the contract has.
IdentityKept ==
  contractState.ica_info # None =>
    /\ contractState'.ica_info # None
    /\ contractState'.ica_info.ica_address = contractState.ica_info.ica_address
    /\ contractState'.ica_info.encoding = contractState.ica_info.encoding

LEMMA KeptStep ==
  ASSUME StableInv, [Next]_vars
  PROVE  IdentityKept
  <1>1. ASSUME NEW c \in ChannelIds, ChanOpenAck(c), contractState.ica_info # None
        PROVE  IdentityKept
    <2>1. Pending(c)
      BY <1>1, AckLeavesNonePending DEF StableInv
    <2>2. /\ contractState.ica_info.ica_address = HostAccount[channelState.channel.connection_id]
          /\ channelState # None
      BY <1>1
      DEF StableInv, OneHandshakeInv, IdentityInv, IcaInfoDescribesStoredChannel
    <2> QED
      BY <1>1, <2>1, <2>2, OpenAckStores DEF StableInv, PendingKeepsIdentity, IdentityKept
  <1> QED
    BY <1>1, StoredChange DEF IdentityKept

\* If handshakes come one at a time, the account and the encoding of the first
\* channel are those of every later one, whatever version or connection the
\* later handshakes are begun with, and even where the timeout of a packet of
\* an earlier channel marks a later one closed.
THEOREM IdentityStable ==
  ASSUME ConcurrentHandshakes = FALSE
  PROVE  Spec => IcaIdentityStable
  <1>1. StableInv /\ [Next]_vars => StableInv'
    BY StableStep
  <1>2. StableInv /\ [Next]_vars => [IdentityKept]_vars
    BY KeptStep
  <1> QED
    BY <1>1, <1>2, StableInit, PTL DEF Spec, IcaIdentityStable, IdentityKept

(***************************************************************************)
(* A stored version that is no metadata, as the fee middleware leaves it.  *)
(*                                                                         *)
(* WrappedVersionIsFinal follows once it is known that no handshake is     *)
(* pending while such a version is stored: none can begin, and the one     *)
(* that stored it was the only one pending.                                *)
(***************************************************************************)

Wrapped == channelState # None /\ channelState.channel.version = OpaqueVersion

FinalInv == OneHandshakeInv /\ (Wrapped => \A c \in ChannelIds : ~Pending(c))

LEMMA WrappedNeverAcknowledged ==
  ASSUME FinalInv, NEW c \in ChannelIds, ChanOpenAck(c)
  PROVE  ~Wrapped
  <1>1. Pending(c)
    BY AckLeavesNonePending DEF FinalInv
  <1> QED
    BY <1>1 DEF FinalInv

\* A step that keeps the channel, once it is such a one.
WrappedKept ==
  channelState # None /\ channelState.channel.version = OpaqueVersion =>
    /\ channelState'.channel = channelState.channel
    /\ contractState' = contractState

LEMMA WrappedChange == FinalInv /\ [Next]_vars => WrappedKept
  BY StoredChange, WrappedNeverAcknowledged, CloseKeepsChannel
  DEF FinalInv, OneHandshakeInv, IdentityInv, Wrapped, WrappedKept

LEMMA FinalStep ==
  ASSUME ConcurrentHandshakes = FALSE, FinalInv, [Next]_vars
  PROVE  FinalInv'
  <1>1. OneHandshakeInv'
    BY OneHandshakeStep DEF FinalInv
  <1>2. ASSUME NEW c \in ChannelIds, Wrapped', Pending(c)'
        PROVE  FALSE
    <2>1. CASE \E d \in ChannelIds : ChanOpenAck(d)
      BY <1>2, <2>1, AckLeavesNonePending DEF FinalInv
    <2>2. CASE ~\E d \in ChannelIds : ChanOpenAck(d)
      <3>1. Wrapped
        BY <1>2, <2>2, StoredChange, CloseKeepsChannel
        DEF Wrapped, FinalInv, OneHandshakeInv, IdentityInv
      <3>2. ~Pending(c)
        BY <3>1 DEF FinalInv
      <3>3. PICK p \in Proposals : \E answer \in QueryAnswers(p) : ChanOpenInit(c, p, answer)
        BY <1>2, <3>2, PendingStep DEF FinalInv, OneHandshakeInv, IdentityInv
      <3>4. channelState.channel.version \in IcaMetadatas
        BY <3>1, <3>3 DEF ChanOpenInit, OpenInit, IsPreviousVersionEqual, Wrapped
      <3> QED
        BY <3>1, <3>4, MetadataAssumption DEF Wrapped
    <2> QED
      BY <2>1, <2>2
  <1> QED
    BY <1>1, <1>2 DEF FinalInv

\* Once the wrapped version of a handshake begun with none is stored, neither
\* the channel nor the account ever changes, if handshakes come one at a time.
THEOREM WrappedIsFinal ==
  ASSUME ConcurrentHandshakes = FALSE
  PROVE  Spec => WrappedVersionIsFinal
  <1>1. Init => FinalInv
    BY OneHandshakeInit DEF FinalInv, Wrapped, Init, Instantiate
  <1>2. FinalInv /\ [Next]_vars => FinalInv'
    BY FinalStep
  <1>3. FinalInv /\ [Next]_vars => [WrappedKept]_vars
    BY WrappedChange
  <1> QED
    BY <1>1, <1>2, <1>3, PTL DEF Spec, WrappedVersionIsFinal, WrappedKept

==============================================================================
