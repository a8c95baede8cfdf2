--------------------------- MODULE IcaErrors_proofs ---------------------------
(***************************************************************************)
(* Theorems of IcaErrors, for every value of the constants.                *)
(***************************************************************************)
EXTENDS IcaSystem_proofs, IcaErrors

(***************************************************************************)
(* A handler succeeds exactly when no check of it fails.                   *)
(***************************************************************************)

\* validate's checks, in the order of the code and as a conjunction.
LEMMA ValidateExact ==
  ASSUME NEW metadata, NEW channel
  PROVE  Validate(metadata, channel) <=> ValidateResult(metadata, channel) = "Ok"
  BY DEF Validate, ValidateResult

\* init (handshake.rs) lets a handshake through exactly when OpenInitResult
\* is Ok: the order of its checks and its early returns lose no case.
THEOREM OpenInitExact ==
  ASSUME NEW channel, NEW answer
  PROVE  OpenInit(channel, answer) <=>
           OpenInitResult(channel, answer) = "Ok" /\ UNCHANGED contractVars
  <1> DEFINE metadata == OpenInitMetadata(channel, answer)
  <1>1. Validate(metadata, channel) <=> ValidateResult(metadata, channel) = "Ok"
    BY ValidateExact
  <1> HIDE DEF metadata
  <1>2. StoredChannelResult(metadata) = "Ok" <=>
          (channelState # None =>
             ~IsOpen /\ IsPreviousVersionEqual(metadata, channelState.channel.version))
    BY DEF StoredChannelResult
  <1> QED
    BY <1>1, <1>2 DEF OpenInit, OpenInitResult, metadata

\* The same of the handlers that write: on_acknowledgement and confirm
\* (handshake.rs), the executes (contract.rs) and the callbacks (relay.rs).
THEOREM HandlersExact ==
  ASSUME ControllerTypeOK, NEW channel, NEW version, NEW sender, NEW amount, NEW time,
         NEW timeout_seconds, NEW acknowledgement
  PROVE  /\ OnAcknowledgement(channel, version) <=>
              /\ OnAcknowledgementResult(channel, version) = "Ok"
              /\ SetIcaInfo(version.address, channel.channel_id, version.encoding)
              /\ NewOpenChannel(channel)
              /\ UNCHANGED callbackCounter
         /\ CloseConfirm(channel) <=>
              /\ CloseConfirmResult(channel) = "Ok"
              /\ Close
              /\ UNCHANGED <<contractState, callbackCounter>>
         /\ SendCustomIcaMessages(sender, time, timeout_seconds) <=>
              /\ SendCustomIcaMessagesResult(sender, time, timeout_seconds) = "Ok"
              /\ UNCHANGED contractVars
         /\ IcaBankSend(sender, amount, time) <=>
              /\ IcaBankSendResult(sender, amount, time) = "Ok"
              /\ UNCHANGED contractVars
         /\ IbcPacketAck(acknowledgement) <=>
              /\ IbcPacketAckResult(acknowledgement) = "Ok"
              /\ callbackCounter' =
                   IF acknowledgement = "result"
                   THEN [callbackCounter EXCEPT !.success = @ + 1]
                   ELSE [callbackCounter EXCEPT !.error = @ + 1]
              /\ UNCHANGED <<contractState, channelState>>
         /\ IbcPacketTimeout <=>
              /\ IbcPacketTimeoutResult = "Ok"
              /\ callbackCounter' = [callbackCounter EXCEPT !.timeout = @ + 1]
              /\ Close
              /\ UNCHANGED contractState
  <1>1. ValidateResult(version, channel) = "Ok" <=> Validate(version, channel)
    BY ValidateExact
  <1>2. \A n \in 0..MaxU32 : n < MaxU32 <=> n # MaxU32
    BY ControllerAssumption
  <1>3. /\ callbackCounter.success \in 0..MaxU32
        /\ callbackCounter.error \in 0..MaxU32
        /\ callbackCounter.timeout \in 0..MaxU32
    BY DEF ControllerTypeOK, CallbackCounters
  <1>4. /\ Success <=> /\ callbackCounter.success # MaxU32
                       /\ callbackCounter' = [callbackCounter EXCEPT !.success = @ + 1]
        /\ Error <=> /\ callbackCounter.error # MaxU32
                     /\ callbackCounter' = [callbackCounter EXCEPT !.error = @ + 1]
        /\ Timeout <=> /\ callbackCounter.timeout # MaxU32
                       /\ callbackCounter' = [callbackCounter EXCEPT !.timeout = @ + 1]
    BY <1>2, <1>3 DEF Success, Error, Timeout
  <1>5. OnAcknowledgementResult(channel, version) = "Ok" <=>
          /\ channel.port_id # HOST_PORT_ID
          /\ version \in IcaMetadatas
          /\ Validate(version, channel)
          /\ version.address # NoAddress
    BY <1>1 DEF OnAcknowledgementResult
  <1>6. SenderResult(sender) = "Ok" <=> VerifyAdmin(sender) /\ contractState.ica_info # None
    BY DEF SenderResult
  <1>7. /\ IbcPacketAckResult(acknowledgement) = "Ok" <=>
             \/ acknowledgement = "result" /\ callbackCounter.success # MaxU32
             \/ acknowledgement = "error" /\ callbackCounter.error # MaxU32
        /\ IbcPacketTimeoutResult = "Ok" <=>
             callbackCounter.timeout # MaxU32 /\ channelState # None
    BY DEF IbcPacketAckResult, IbcPacketTimeoutResult, AcknowledgementData
  <1>8. IbcPacketAck(acknowledgement) <=>
          /\ IbcPacketAckResult(acknowledgement) = "Ok"
          /\ callbackCounter' =
               IF acknowledgement = "result"
               THEN [callbackCounter EXCEPT !.success = @ + 1]
               ELSE [callbackCounter EXCEPT !.error = @ + 1]
          /\ UNCHANGED <<contractState, channelState>>
    BY <1>4, <1>7 DEF IbcPacketAck, AckSuccess, AckError
  <1>9. IbcPacketTimeout <=>
          /\ IbcPacketTimeoutResult = "Ok"
          /\ callbackCounter' = [callbackCounter EXCEPT !.timeout = @ + 1]
          /\ Close
          /\ UNCHANGED contractState
    BY <1>4, <1>7 DEF IbcPacketTimeout
  <1> QED
    BY <1>5, <1>6, <1>8, <1>9
    DEF OnAcknowledgement, CloseConfirm, CloseConfirmResult, SendCustomIcaMessages,
        SendCustomIcaMessagesResult, IcaBankSend, IcaBankSendResult

(***************************************************************************)
(* A closed channel can be had again, whatever handshakes interleave.      *)
(*                                                                         *)
(* It is not inductive as it stands: the stored version comes from the     *)
(* channel the core shows at the acknowledgement, which comes from what    *)
(* the host made of the contract's own proposal.                           *)
(***************************************************************************)

\* What init will find: "channel" has parameters it accepts, and "proposed"
\* differs from the recorded version in nothing but the address.
Reopenable(channel, proposed) ==
  /\ channel.order = "ORDER_ORDERED"
  /\ channel.counterparty_port_id = HOST_PORT_ID
  /\ Validate(proposed, channel)
  /\ channel.version \in IcaMetadatas =>
       /\ Validate(channel.version, channel)
       /\ IsPreviousVersionEqual(proposed, channel.version)

ReopenRecords ==
  /\ \A c \in ChannelIds :
       /\ ends[c] # None => Reopenable(ends[c].channel, ends[c].proposed)
       /\ hostEnds[c] # None => IsPreviousVersionEqual(ends[c].proposed, hostEnds[c].version)
  /\ channelState # None =>
       Reopenable(channelState.channel, ends[channelState.channel.channel_id].proposed)

ReopenInv == IdentityInv /\ ReopenRecords

\* What an end keeps of its channel, and what is checked of it.
Parameters(channel) ==
  <<channel.order, channel.counterparty_port_id, channel.connection_id>>

LEMMA VersionUpdateParameters ==
  ASSUME NEW channel \in IbcChannels, NEW v
  PROVE  /\ Parameters([channel EXCEPT !.version = v]) = Parameters(channel)
         /\ [channel EXCEPT !.version = v].version = v
         /\ Parameters(AskAgain(channel, v)) = Parameters(channel)
         /\ AskAgain(channel, v).version = v
  BY DEF Parameters, IbcChannels, AskAgain

LEMMA OpenInitRecords ==
  ASSUME ReopenInv, NEW c \in ChannelIds, NEW p \in Proposals, NEW answer \in QueryAnswers(p),
         ChanOpenInit(c, p, answer)
  PROVE  Reopenable(ends'[c].channel, ends'[c].proposed)
  <1> DEFINE channel == ChannelOf(c, p)
             metadata == OpenInitMetadata(channel, answer)
             version == CoreVersion(channel.version, metadata)
             recorded == [channel EXCEPT !.version = version]
  <1>1. /\ channel.order = "ORDER_ORDERED"
        /\ channel.counterparty_port_id = HOST_PORT_ID
        /\ metadata \in IcaMetadatas
        /\ Validate(metadata, channel)
    BY DEF ChanOpenInit, OpenInit
  <1>2. ends'[c].channel = recorded /\ ends'[c].proposed = metadata
    BY DEF ChanOpenInit, CoreChanOpenInit, ReopenInv, IdentityInv, TypeOK, NetworkTypeOK
  <1>3. Parameters(recorded) = Parameters(channel) /\ recorded.version = version
    BY ChannelOfType, VersionUpdateParameters
  <1>4. version \in IcaMetadatas => version = metadata
    BY <1>1, CoreVersionMetadata
  <1> HIDE DEF channel, metadata, version, recorded
  <1>5. Validate(metadata, recorded)
    BY <1>1, <1>3 DEF Validate, Parameters
  <1> QED
    BY <1>1, <1>2, <1>3, <1>5, <1>4 DEF Reopenable, Parameters, IsPreviousVersionEqual

\* The host changes nothing of the proposal but the address.
LEMMA OpenTryRecords ==
  ASSUME ReopenInv, NEW c \in ChannelIds, HostChanOpenTry(c)
  PROVE  IsPreviousVersionEqual(ends[c].proposed, hostEnds'[c].version)
  <1> DEFINE a == HostAccount[ConnectionOf(c)]
             version == [ends[c].proposed EXCEPT !.address = a]
  <1> USE DEF ReopenInv, IdentityInv, TypeOK
  <1>1. ends[c].proposed \in IcaMetadatas /\ ConnectionOf(c) \in Connections
    BY EndFields DEF HostChanOpenTry, EndIs
  <1>2. a \in Addresses
    BY <1>1, NetworkAssumption
  <1>3. hostEnds'[c].version = version
    BY DEF HostChanOpenTry, NetworkTypeOK
  <1> HIDE DEF a
  <1>4. version \in IcaMetadatas
    BY <1>1, <1>2, MetadataFields
  <1>5. /\ version.version = ends[c].proposed.version
        /\ version.controller_connection_id = ends[c].proposed.controller_connection_id
        /\ version.host_connection_id = ends[c].proposed.host_connection_id
        /\ version.encoding = ends[c].proposed.encoding
        /\ version.tx_type = ends[c].proposed.tx_type
    BY <1>1 DEF IcaMetadatas
  <1> QED
    BY <1>3, <1>4, <1>5 DEF IsPreviousVersionEqual

\* An acknowledgement records and stores either the contract's own proposal or
\* the host's answer to it.
LEMMA OpenAckRecords ==
  ASSUME ReopenInv, NEW c \in ChannelIds, ChanOpenAck(c)
  PROVE  /\ Reopenable(ends'[c].channel, ends'[c].proposed)
         /\ ends'[c].proposed = ends[c].proposed
         /\ channelState'.channel.channel_id = c
         /\ Reopenable(channelState'.channel, ends[c].proposed)
  <1> DEFINE v == hostEnds[c].version
             old == ends[c].channel
             updated == ends'[c].channel
  <1> USE DEF ReopenInv, IdentityInv, TypeOK
  <1>1. ends[c] # None /\ hostEnds[c] # None
    BY DEF ChanOpenAck, CoreChanOpenAck, EndIs, HostEndIs
  <1>2. PICK channel \in ShownAtAck(c) : OnAcknowledgement(channel, v)
    BY DEF ChanOpenAck
  <1>3. /\ Parameters(channel) = Parameters(old)
        /\ channel.version \in {old.version, AckVersion(c)}
        /\ channel.channel_id = c
    BY <1>1, <1>2, ShownAtAckFields DEF Parameters, ConnectionOf, HandshakeRecords
  <1>4. v \in IcaMetadatas
    BY <1>1, HostEndFields
  <1>5. /\ Parameters(updated) = Parameters(old)
        /\ updated.version = AckVersion(c)
        /\ ends'[c].proposed = ends[c].proposed
    BY OpenAckEffect DEF ChanOpenAck, Parameters
  <1>6. AckVersion(c) \in IcaMetadatas => AckVersion(c) = v
    BY AckVersionMetadata
  <1>7. channelState'.channel = channel /\ Validate(v, channel)
    BY <1>2 DEF OnAcknowledgement, NewOpenChannel
  <1>8. Reopenable(old, ends[c].proposed) /\ IsPreviousVersionEqual(ends[c].proposed, v)
    BY <1>1 DEF ReopenRecords
  <1>9. ASSUME NEW ch, Parameters(ch) = Parameters(old),
               ch.version \in {old.version, AckVersion(c)}
        PROVE  Reopenable(ch, ends[c].proposed)
    <2> HIDE DEF v, old
    <2>1. Validate(v, ch) /\ Validate(ends[c].proposed, ch)
      BY <1>3, <1>7, <1>8, <1>9 DEF Validate, Parameters, Reopenable
    <2>2. Validate(old.version, old) => Validate(old.version, ch)
      BY <1>9 DEF Validate, Parameters
    <2> QED
      BY <1>6, <1>8, <1>9, <2>1, <2>2 DEF Reopenable, Parameters
  <1>10. Reopenable(channel, ends[c].proposed) /\ Reopenable(updated, ends[c].proposed)
    BY <1>3, <1>5, <1>9
  <1> QED
    BY <1>3, <1>5, <1>7, <1>10

\* Every other step leaves the channel and the proposal of each end as they
\* are, and what the host answered.
LEMMA OtherRecords ==
  ASSUME TypeOK, [Next]_vars, NEW c \in ChannelIds,
         ends'[c] # None, ~ChanOpenAck(c),
         \A p \in Proposals : \A answer \in QueryAnswers(p) : ~ChanOpenInit(c, p, answer)
  PROVE  ends[c] # None /\ ends'[c].channel = ends[c].channel
                        /\ ends'[c].proposed = ends[c].proposed
  <1> USE DEF TypeOK, contractVars, networkVars, coreVars, hostVars
  <1> DEFINE Kept == ends[c] # None /\ ends'[c].channel = ends[c].channel
                                    /\ ends'[c].proposed = ends[c].proposed
  <1>1. ASSUME NEW d \in ChannelIds, NEW p \in Proposals, NEW answer \in QueryAnswers(p),
               ChanOpenInit(d, p, answer)
        PROVE  Kept
    <2>1. d # c
      BY <1>1
    <2>2. ends'[c] = ends[c]
      BY <1>1, <2>1 DEF ChanOpenInit, CoreChanOpenInit, NetworkTypeOK
    <2> QED
      BY <2>2
  <1>2. ASSUME NEW d \in ChannelIds, ChanOpenAck(d) PROVE Kept
    <2>1. d # c
      BY <1>2
    <2>2. ends'[c] = ends[c]
      BY <1>2, <2>1 DEF ChanOpenAck, CoreChanOpenAck, NetworkTypeOK
    <2> QED
      BY <2>2
  <1>3. ASSUME NEW d \in ChannelIds, ends[d] # None,
               ends' = [ends EXCEPT ![d].state = "CLOSED"]
        PROVE  Kept
    <2>1. CASE d = c
      BY <1>3, <2>1, CloseEffect
    <2>2. CASE d # c
      BY <1>3, <2>2, CloseEffect
    <2> QED
      BY <2>1, <2>2
  <1>4. ASSUME NEW d \in ChannelIds, ChanCloseConfirm(d) PROVE Kept
    BY <1>3, <1>4 DEF ChanCloseConfirm, CoreChanCloseConfirm, EndIs
  <1>5. ASSUME NEW d \in ChannelIds, NEW i \in DOMAIN packets[d], TimeoutPacket(d, i)
        PROVE  Kept
    BY <1>3, <1>5 DEF TimeoutPacket, CoreTimeoutPacket, EndIs
  <1>6. ASSUME NEW d \in ChannelIds,
               ChanOpenTry(d) \/ ChanOpenConfirm(d) \/ HostCloses(d) \/ RecvPacket(d)
        PROVE  UNCHANGED ends
    BY <1>6 DEF ChanOpenTry, ChanOpenConfirm, HostCloses, HostCloseInit,
                HostCloseConfirm, RecvPacket
  <1>7. ASSUME UserStep PROVE UNCHANGED ends
    BY <1>7 DEF UserStep, ExecuteSendCustomIcaMessages, ExecuteIcaBankSend, CoreSendPacket
  <1>8. ASSUME NEW d \in ChannelIds, NEW i \in DOMAIN packets[d], AcknowledgePacket(d, i)
        PROVE  UNCHANGED ends
    BY <1>8 DEF AcknowledgePacket, CoreAcknowledgePacket
  <1>9. ASSUME NewBlockTime \/ UNCHANGED vars PROVE UNCHANGED ends
    BY <1>9 DEF NewBlockTime, vars
  <1> QED
    BY <1>1, <1>2, <1>4, <1>5, <1>6, <1>7, <1>8, <1>9 DEF Next, HandshakeStep, PacketStep

\* The host's answer changes only where there was none.
LEMMA HostAnswers ==
  ASSUME TypeOK, [Next]_vars, NEW c \in ChannelIds, hostEnds'[c] # None
  PROVE  \/ HostChanOpenTry(c) /\ UNCHANGED ends
         \/ hostEnds[c] # None /\ hostEnds'[c].version = hostEnds[c].version
  <1> USE DEF TypeOK, contractVars, networkVars, coreVars, hostVars
  <1> DEFINE Kept == hostEnds[c] # None /\ hostEnds'[c].version = hostEnds[c].version
             Answered == HostChanOpenTry(c) /\ UNCHANGED ends
  <1>1. ASSUME NEW d \in ChannelIds, ChanOpenTry(d) PROVE Kept \/ Answered
    <2>1. CASE d = c
      BY <1>1, <2>1 DEF ChanOpenTry
    <2>2. CASE d # c
      BY <1>1, <2>2, OpenTryEffect DEF ChanOpenTry
    <2> QED
      BY <2>1, <2>2
  <1>2. ASSUME NEW d \in ChannelIds, ChanOpenConfirm(d) \/ HostCloses(d) PROVE Kept
    <2>1. hostEnds[d] # None
      BY <1>2 DEF ChanOpenConfirm, HostCloses, HostCloseInit, HostCloseConfirm, HostEndIs,
        HostChanOpenConfirm, HostChanCloseInit, HostChanCloseConfirm
    <2>2. \E s \in {"TRYOPEN", "OPEN", "CLOSED"} : hostEnds' = [hostEnds EXCEPT ![d].state = s]
      BY <1>2 DEF ChanOpenConfirm, HostCloses, HostCloseInit, HostCloseConfirm,
        HostChanOpenConfirm, HostChanCloseInit, HostChanCloseConfirm
    <2> QED
      BY <2>1, <2>2, HostStateEffect
  <1>3. ASSUME NEW d \in ChannelIds,
               \/ \E p \in Proposals : \E answer \in QueryAnswers(p) : ChanOpenInit(d, p, answer)
               \/ ChanOpenAck(d) \/ ChanCloseConfirm(d) \/ RecvPacket(d)
        PROVE  UNCHANGED hostEnds
    BY <1>3 DEF ChanOpenInit, ChanOpenAck, ChanCloseConfirm, RecvPacket, HostRecvPacket
  <1>4. ASSUME UserStep PROVE UNCHANGED hostEnds
    BY <1>4 DEF UserStep, ExecuteSendCustomIcaMessages, ExecuteIcaBankSend
  <1>5. ASSUME NEW d \in ChannelIds, NEW i \in DOMAIN packets[d],
               AcknowledgePacket(d, i) \/ TimeoutPacket(d, i)
        PROVE  UNCHANGED hostEnds
    BY <1>5 DEF AcknowledgePacket, TimeoutPacket
  <1>6. ASSUME NewBlockTime \/ UNCHANGED vars PROVE UNCHANGED hostEnds
    BY <1>6 DEF NewBlockTime, vars
  <1> QED
    BY <1>1, <1>2, <1>3, <1>4, <1>5, <1>6 DEF Next, HandshakeStep, PacketStep

LEMMA ReopenStep == ReopenInv /\ [Next]_vars => ReopenInv'
  <1> SUFFICES ASSUME ReopenInv, [Next]_vars PROVE ReopenInv'
    OBVIOUS
  <1>1. IdentityInv' /\ TypeOK /\ EndsAdvance
    BY IdentityStep, EndsStep DEF ReopenInv, IdentityInv
  <1>2. ASSUME NEW c \in ChannelIds, ends'[c] # None
        PROVE  Reopenable(ends'[c].channel, ends'[c].proposed)
    <2>1. ASSUME NEW p \in Proposals, NEW answer \in QueryAnswers(p), ChanOpenInit(c, p, answer)
          PROVE  Reopenable(ends'[c].channel, ends'[c].proposed)
      BY <2>1, OpenInitRecords
    <2>2. CASE ChanOpenAck(c)
      BY <2>2, OpenAckRecords
    <2> QED
      BY <1>1, <1>2, <2>1, <2>2, OtherRecords DEF ReopenInv, ReopenRecords
  <1>3. ASSUME NEW c \in ChannelIds, hostEnds'[c] # None
        PROVE  IsPreviousVersionEqual(ends'[c].proposed, hostEnds'[c].version)
    <2>1. CASE HostChanOpenTry(c) /\ UNCHANGED ends
      BY <2>1, OpenTryRecords
    <2>2. CASE hostEnds[c] # None /\ hostEnds'[c].version = hostEnds[c].version
      <3>1. ends[c] # None
        BY <2>2 DEF ReopenInv, IdentityInv, HandshakeRecords
      <3>2. ends'[c].proposed = ends[c].proposed
        BY <1>1, <3>1 DEF EndsAdvance
      <3> QED
        BY <2>2, <3>2 DEF ReopenInv, ReopenRecords
    <2> QED
      BY <1>1, <1>3, <2>1, <2>2, HostAnswers
  <1>4. ASSUME channelState' # None
        PROVE  Reopenable(channelState'.channel, ends'[channelState'.channel.channel_id].proposed)
    <2>1. CASE \E c \in ChannelIds : ChanOpenAck(c)
      BY <2>1, OpenAckRecords
    <2>2. CASE channelState # None /\ channelState'.channel = channelState.channel
      <3> DEFINE c == channelState.channel.channel_id
      <3>1. c \in ChannelIds
        BY <1>1, <2>2 DEF TypeOK, ControllerTypeOK, ChannelStates, IbcChannels
      <3>2. ends[c] # None
        BY <2>2 DEF ReopenInv, IdentityInv, IcaInfoDescribesStoredChannel, EndIs
      <3>3. ends'[c].proposed = ends[c].proposed
        BY <1>1, <3>1, <3>2 DEF EndsAdvance
      <3> QED
        BY <2>2, <3>3 DEF ReopenInv, ReopenRecords
    <2> QED
      BY <1>1, <1>4, <2>1, <2>2, StoredChange, CloseKeepsChannel
  <1> QED
    BY <1>1, <1>2, <1>3, <1>4 DEF ReopenInv, ReopenRecords

LEMMA ReopenInit == Init => ReopenInv
  BY IdentityInit DEF ReopenInv, ReopenRecords, Init, Instantiate, NetworkInit

\* The stored version, and what the channel was first asked for with, pass
\* every check of init on the stored channel's parameters.
LEMMA ReopenableIsAccepted ==
  ASSUME ReopenInv, channelState # None, ~IsOpen,
         channelState.channel.version \in IcaMetadatas, NEW answer,
         NEW version \in {EmptyVersion,
                          ends[channelState.channel.channel_id].proposed}
  PROVE  OpenInitResult(AskAgain(channelState.channel, version), answer) = "Ok"
  <1> DEFINE stored == channelState.channel
             proposed == ends[stored.channel_id].proposed
             channel == AskAgain(stored, version)
             metadata == OpenInitMetadata(channel, answer)
  <1>1. Reopenable(stored, proposed)
    BY DEF ReopenInv, ReopenRecords
  <1>2. stored \in IbcChannels
    BY DEF ReopenInv, IdentityInv, TypeOK, ControllerTypeOK, ChannelStates
  <1>3. Parameters(channel) = Parameters(stored) /\ channel.version = version
    BY <1>2, VersionUpdateParameters
  <1>4. proposed \in IcaMetadatas
    <2>1. stored.channel_id \in ChannelIds
      BY <1>2 DEF IbcChannels
    <2>2. ends[stored.channel_id] # None
      BY DEF ReopenInv, IdentityInv, IcaInfoDescribesStoredChannel, EndIs
    <2> QED
      BY <2>1, <2>2, EndFields DEF ReopenInv, IdentityInv, TypeOK
  <1>5. metadata \in {stored.version, proposed}
    <2>1. CASE version = EmptyVersion
      BY <1>3, <2>1 DEF OpenInitMetadata, FromChannel
    <2>2. CASE version # EmptyVersion
      BY <1>3, <2>2 DEF OpenInitMetadata
    <2> QED
      BY <2>1, <2>2
  <1> HIDE DEF stored, proposed, channel, metadata
  <1>6. /\ Validate(metadata, channel)
        /\ IsPreviousVersionEqual(metadata, stored.version)
        /\ metadata \in IcaMetadatas
    BY <1>1, <1>3, <1>4, <1>5 DEF Reopenable, Validate, Parameters, IsPreviousVersionEqual, stored
  <1>7. StoredChannelResult(metadata) = "Ok"
    BY <1>6 DEF StoredChannelResult, stored
  <1>8. ValidateResult(metadata, channel) = "Ok"
    BY <1>6, ValidateExact
  <1>9. channel.order = "ORDER_ORDERED" /\ channel.counterparty_port_id = HOST_PORT_ID
    BY <1>1, <1>3 DEF Reopenable, Parameters
  <1>10. OpenInitResult(channel, answer) = "Ok"
    BY <1>6, <1>7, <1>8, <1>9 DEF OpenInitResult, metadata
  <1> QED
    BY <1>10 DEF channel, stored

\* Whatever handshakes interleave, the contract never locks itself out of a
\* closed channel whose recorded version it can read: init would accept the
\* original version, and no version, on that connection.
THEOREM ClosedCanReopen == Spec => []ClosedChannelCanReopen
  <1>1. ReopenInv /\ [Next]_vars => ReopenInv'
    BY ReopenStep
  <1>2. ReopenInv => ClosedChannelCanReopen
    BY ReopenableIsAccepted DEF ClosedChannelCanReopen
  <1> QED
    BY <1>1, <1>2, ReopenInit, PTL DEF Spec

LEMMA AnswerIsAcceptable ==
  ASSUME ReopenInv, NEW c \in ChannelIds, ends[c] # None, hostEnds[c] # None,
         ValidateIcaAddress(HostAccount[ConnectionOf(c)]), NEW channel \in ShownAtAck(c)
  PROVE  OnAcknowledgementResult(channel, hostEnds[c].version) = "Ok"
  <1> DEFINE v == hostEnds[c].version
  <1> USE DEF ReopenInv, IdentityInv
  <1>1. /\ v \in IcaMetadatas
        /\ v.address = HostAccount[ConnectionOf(c)]
        /\ ConnectionOf(c) \in Connections
    BY HostEndFields, EndFields DEF TypeOK, HandshakeRecords
  <1>2. channel \in IbcChannels /\ channel.connection_id = ConnectionOf(c)
    BY ShownAtAckFields DEF TypeOK
  <1>3. /\ Validate(ends[c].proposed, ends[c].channel)
        /\ IsPreviousVersionEqual(ends[c].proposed, v)
    BY DEF ReopenRecords, Reopenable
  <1> HIDE DEF v
  <1>4. Validate(v, channel)
    BY <1>1, <1>2, <1>3 DEF Validate, IsPreviousVersionEqual, ConnectionOf
  <1>5. v.address # NoAddress
    BY <1>1, NetworkAssumption, MetadataAssumption
  <1>6. channel.port_id # HOST_PORT_ID
    BY <1>2 DEF IbcChannels, HOST_PORT_ID
  <1>7. ValidateResult(v, channel) = "Ok"
    BY <1>4, ValidateExact
  <1> QED
    BY <1>1, <1>5, <1>6, <1>7 DEF OnAcknowledgementResult, v

\* Whatever handshakes interleave, a handshake init let through is never
\* refused at its acknowledgement but for the address of the host's account.
THEOREM AnswersAccepted == Spec => []AnswersAreAcceptable
  <1>1. ReopenInv /\ [Next]_vars => ReopenInv'
    BY ReopenStep
  <1>2. ReopenInv => AnswersAreAcceptable
    BY AnswerIsAcceptable DEF AnswersAreAcceptable, EndIs, HostEndIs
  <1> QED
    BY <1>1, <1>2, ReopenInit, PTL DEF Spec


(***************************************************************************)
(* One handshake at a time: a refusal is final.                            *)
(*                                                                         *)
(* What a proposal is compared by is the stored version, so it must be     *)
(* shown that a step leaves all of it but the address as it was, or makes  *)
(* it one that is no metadata.  For the step that stores another channel,  *)
(* this says that the pending proposal was compared with the version still *)
(* stored.                                                                 *)
(***************************************************************************)

PendingMatchesStored ==
  \A c \in ChannelIds : Pending(c) /\ channelState # None =>
    IsPreviousVersionEqual(ends[c].proposed, channelState.channel.version)

RefusalInv ==
  /\ ReopenInv
  /\ OneHandshakeInv
  /\ PendingMatchesStored

\* What an acknowledgement stores follows the version it was proposed under.
LEMMA AckKeepsVersion ==
  ASSUME RefusalInv, NEW c \in ChannelIds, ChanOpenAck(c)
  PROVE  /\ channelState' # None
         /\ channelState # None =>
              /\ channelState.channel.version \in IcaMetadatas
              /\ channelState'.channel.version \in IcaMetadatas =>
                   IsPreviousVersionEqual(channelState.channel.version,
                                          channelState'.channel.version)
  <1> USE DEF RefusalInv, ReopenInv, IdentityInv
  <1>1. ends[c] # None /\ hostEnds[c] # None /\ Pending(c)
    BY AckLeavesNonePending DEF ChanOpenAck, CoreChanOpenAck, EndIs, HostEndIs
  <1>2. PICK channel \in ShownAtAck(c) : OnAcknowledgement(channel, hostEnds[c].version)
    BY DEF ChanOpenAck
  <1>3. channel \in IbcChannels
    BY <1>1, <1>2, ShownAtAckFields DEF TypeOK
  <1>4. channelState' # None
    <2>1. channelState' \in ChannelStates
      BY <1>2, <1>3 DEF OnAcknowledgement, NewOpenChannel, ChannelStates
    <2> QED
      BY <2>1, ControllerAssumption
  <1>5. channelState # None =>
          IsPreviousVersionEqual(ends[c].proposed, channelState.channel.version)
    BY <1>1 DEF PendingMatchesStored
  <1>6. channelState'.channel.version \in IcaMetadatas =>
          IsPreviousVersionEqual(ends[c].proposed, channelState'.channel.version)
    BY OpenAckRecords DEF Reopenable
  <1> QED
    BY <1>4, <1>5, <1>6 DEF IsPreviousVersionEqual

\* The stored version changes in its address, or becomes one that is no
\* metadata, which nothing follows.
StoredVersionKept ==
  channelState # None =>
    /\ channelState' # None
    /\ \/ channelState'.channel.version = channelState.channel.version
       \/ /\ channelState.channel.version \in IcaMetadatas
          /\ channelState'.channel.version \in IcaMetadatas =>
               IsPreviousVersionEqual(channelState.channel.version,
                                      channelState'.channel.version)

LEMMA StoredVersionStep ==
  ASSUME RefusalInv, [Next]_vars
  PROVE  StoredVersionKept
  BY AckKeepsVersion, StoredChange, CloseKeepsChannel
  DEF StoredVersionKept, RefusalInv, ReopenInv, IdentityInv

LEMMA RefusalInit == Init => RefusalInv
  <1> SUFFICES ASSUME Init PROVE RefusalInv
    OBVIOUS
  <1>1. ReopenInv /\ OneHandshakeInv
    BY ReopenInit, OneHandshakeInit
  <1>2. channelState = None /\ \A c \in ChannelIds : ends[c] = None
    BY DEF Init, Instantiate, NetworkInit
  <1> QED
    BY <1>1, <1>2 DEF RefusalInv, PendingMatchesStored

LEMMA RefusalStep ==
  ASSUME ConcurrentHandshakes = FALSE, RefusalInv, [Next]_vars
  PROVE  RefusalInv'
  <1> USE DEF RefusalInv
  <1>1. ReopenInv' /\ OneHandshakeInv'
    BY ReopenStep, OneHandshakeStep
  <1>2. CASE \E c \in ChannelIds : ChanOpenAck(c)
    <2>1. PICK c \in ChannelIds : ChanOpenAck(c)
      BY <1>2
    <2>2. \A d \in ChannelIds : ~Pending(d)'
      BY <2>1, AckLeavesNonePending
    <2> QED
      BY <1>1, <2>2 DEF PendingMatchesStored
  <1>3. CASE /\ channelState' = None <=> channelState = None
             /\ channelState # None => channelState'.channel = channelState.channel
    <2>1. ASSUME NEW c \in ChannelIds, Pending(c)', channelState' # None
          PROVE  IsPreviousVersionEqual(ends'[c].proposed, channelState'.channel.version)
      <3>1. ASSUME NEW p \in Proposals, NEW answer \in QueryAnswers(p),
                   ChanOpenInit(c, p, answer)
            PROVE  IsPreviousVersionEqual(ends'[c].proposed, channelState.channel.version)
        <4> DEFINE metadata == OpenInitMetadata(ChannelOf(c, p), answer)
        <4>1. /\ metadata \in IcaMetadatas
              /\ IsPreviousVersionEqual(metadata, channelState.channel.version)
          BY <1>3, <2>1, <3>1 DEF ChanOpenInit, OpenInit
        <4>2. ends'[c].proposed = metadata
          BY <3>1, <4>1, ChannelOfType, OpenInitEffect
          DEF ChanOpenInit, ReopenInv, IdentityInv, TypeOK
        <4> QED
          BY <4>1, <4>2
      <3> QED
        BY <1>3, <2>1, <3>1, PendingStep DEF PendingMatchesStored, ReopenInv, IdentityInv
    <2> QED
      BY <1>1, <2>1 DEF PendingMatchesStored
  <1> QED
    BY <1>2, <1>3, StoredChange, CloseKeepsChannel DEF ReopenInv, IdentityInv

\* A version that can follow the stored one on the channel asked for; an empty
\* one stands for the stored one itself.
Follows(channel, previous) ==
  /\ previous \in IcaMetadatas
  /\ IF channel.version = EmptyVersion
     THEN previous.controller_connection_id = channel.connection_id
     ELSE IsPreviousVersionEqual(channel.version, previous)

\* What is wrong with a proposal that no closing of the channel mends.
Hopeless(channel) ==
  \/ channel.order # "ORDER_ORDERED"
  \/ channel.counterparty_port_id # HOST_PORT_ID
  \/ /\ channel.version # EmptyVersion
     /\ ~(channel.version \in IcaMetadatas /\ Validate(channel.version, channel))
  \/ channelState # None /\ ~Follows(channel, channelState.channel.version)

LEMMA HopelessStep ==
  ASSUME StoredVersionKept, NEW channel, Hopeless(channel)
  PROVE  Hopeless(channel)'
  <1>1. ASSUME channelState # None, ~Follows(channel, channelState.channel.version)
        PROVE  channelState' # None /\ ~Follows(channel, channelState'.channel.version)
    BY <1>1 DEF StoredVersionKept, Follows, IsPreviousVersionEqual
  <1> QED
    BY <1>1 DEF Hopeless, Validate, ValidateIcaAddress

\* init lets no such proposal through.
LEMMA HopelessIsRefused ==
  ASSUME NEW channel, NEW answer, Hopeless(channel)
  PROVE  OpenInitResult(channel, answer) \in ContractErrors
  <1> DEFINE metadata == OpenInitMetadata(channel, answer)
  <1>1. metadata = IF channel.version # EmptyVersion THEN channel.version
                   ELSE FromChannel(channelState, channel, answer)
    BY DEF OpenInitMetadata
  <1> HIDE DEF metadata
  <1>2. /\ ValidateResult(metadata, channel) \in ContractErrors \cup {"Ok"}
        /\ StoredChannelResult(metadata) \in ContractErrors \cup {"Ok"}
    BY DEF ValidateResult, StoredChannelResult, ContractErrors
  <1>3. OpenInitResult(channel, answer) \in ContractErrors \cup {"Ok"}
    BY <1>2 DEF OpenInitResult, metadata, ContractErrors
  <1>4. ASSUME OpenInitResult(channel, answer) = "Ok" PROVE FALSE
    <2>1. /\ channel.order = "ORDER_ORDERED"
          /\ channel.counterparty_port_id = HOST_PORT_ID
          /\ metadata \in IcaMetadatas
          /\ Validate(metadata, channel)
          /\ channelState # None =>
               IsPreviousVersionEqual(metadata, channelState.channel.version)
      BY <1>4, ValidateExact DEF OpenInitResult, StoredChannelResult, metadata
    <2>2. channelState # None => Follows(channel, channelState.channel.version)
      BY <1>1, <2>1 DEF Follows, FromChannel, IsPreviousVersionEqual, Validate
    <2> QED
      BY <1>1, <2>1, <2>2 DEF Hopeless
  <1> QED
    BY <1>3, <1>4 DEF ContractErrors

\* Every refusal but that of a second active channel is for such a reason: the
\* default metadata and the stored channel's own pass every check on the right
\* connection.
LEMMA FinalErrorIsHopeless ==
  ASSUME RefusalInv, NEW c \in ChannelIds, NEW p \in Proposals, NEW answer \in QueryAnswers(p),
         OpenInitResult(ChannelOf(c, p), answer) \in FinalErrors
  PROVE  Hopeless(ChannelOf(c, p))
  <1> DEFINE channel == ChannelOf(c, p)
             metadata == OpenInitMetadata(channel, answer)
             stored == channelState.channel
  <1>1. channel.connection_id \in Connections
    BY SystemAssumption DEF ChannelOf
  <1>2. answer \in HostConnections \cup {NoHostConnection}
    BY SystemAssumption, NetworkAssumption DEF QueryAnswers, CounterpartyConnectionId
  <1>3. metadata = IF channel.version # EmptyVersion THEN channel.version
                   ELSE FromChannel(channelState, channel, answer)
    BY DEF OpenInitMetadata
  <1>4. OpenInitResult(channel, answer) \in FinalErrors
    OBVIOUS
  <1> HIDE DEF channel, metadata
  <1> SUFFICES ASSUME ~Hopeless(channel) PROVE FALSE
    BY DEF channel
  <1>5. /\ channel.order = "ORDER_ORDERED"
        /\ channel.counterparty_port_id = HOST_PORT_ID
        /\ channelState # None => Follows(channel, stored.version)
    BY DEF Hopeless
  <1>6. /\ metadata \in IcaMetadatas
        /\ Validate(metadata, channel)
        /\ channelState # None => IsPreviousVersionEqual(metadata, stored.version)
    <2>1. CASE channel.version # EmptyVersion
      BY <1>3, <1>5, <2>1 DEF Hopeless, Follows
    <2>2. CASE channel.version = EmptyVersion /\ channelState # None
      <3>1. metadata = stored.version /\ stored.version \in IcaMetadatas
        BY <1>3, <1>5, <2>2 DEF FromChannel, Follows
      <3>2. Validate(stored.version, stored)
        BY <2>2, <3>1 DEF RefusalInv, ReopenInv, ReopenRecords, Reopenable
      <3>3. stored.version.controller_connection_id = channel.connection_id
        BY <1>5, <2>2 DEF Follows
      <3> QED
        BY <3>1, <3>2, <3>3 DEF Validate, IsPreviousVersionEqual
    <2>3. CASE channel.version = EmptyVersion /\ channelState = None
      <3>1. metadata = [version |-> ICA_VERSION,
                        controller_connection_id |-> channel.connection_id,
                        host_connection_id |-> answer,
                        address |-> NoAddress,
                        encoding |-> "proto3json",
                        tx_type |-> "sdk_multi_msg"]
        BY <1>3, <2>3 DEF FromChannel
      <3>2. metadata \in IcaMetadatas
        BY <1>1, <1>2, <3>1 DEF IcaMetadatas, TxEncodings
      <3> QED
        BY <2>3, <3>1, <3>2 DEF Validate
    <2> QED
      BY <2>1, <2>2, <2>3
  <1>7. ValidateResult(metadata, channel) = "Ok"
    BY <1>6, ValidateExact
  <1>8. StoredChannelResult(metadata) \in {"Ok", "ActiveChannelAlreadySet"}
    BY <1>6 DEF StoredChannelResult, stored
  <1> QED
    BY <1>4, <1>5, <1>6, <1>7, <1>8 DEF OpenInitResult, metadata, FinalErrors, ContractErrors

HopelessProposal(p) ==
  \A c \in ChannelIds, answer \in QueryAnswers(p) : Hopeless(ChannelOf(c, p))

\* If handshakes come one at a time, whoever is refused an OpenInit with any
\* error but ActiveChannelAlreadySet need not try again: the same channel is
\* refused for ever, whatever is closed and reopened in between.
THEOREM RefusedForGood ==
  ASSUME ConcurrentHandshakes = FALSE
  PROVE  Spec => RefusalIsFinal
  <1>1. ASSUME NEW p \in Proposals
        PROVE  Spec => [](RefusedBy(p, FinalErrors) => []RefusedBy(p, ContractErrors))
    <2>1. RefusalInv /\ [Next]_vars => RefusalInv'
      BY RefusalStep
    <2>2. RefusalInv /\ RefusedBy(p, FinalErrors) => HopelessProposal(p)
      BY <1>1, FinalErrorIsHopeless DEF RefusedBy, HopelessProposal
    <2>3. RefusalInv /\ HopelessProposal(p) /\ [Next]_vars => HopelessProposal(p)'
      <3> SUFFICES ASSUME RefusalInv, HopelessProposal(p), [Next]_vars,
                          NEW c \in ChannelIds, NEW answer \in QueryAnswers(p)
                   PROVE  Hopeless(ChannelOf(c, p))'
        BY DEF HopelessProposal
      <3> DEFINE channel == ChannelOf(c, p)
      <3>1. Hopeless(channel)
        BY DEF HopelessProposal
      <3> HIDE DEF channel
      <3>2. Hopeless(channel)'
        BY <3>1, StoredVersionStep, HopelessStep
      <3> QED
        BY <3>2 DEF channel
    <2>4. HopelessProposal(p) => RefusedBy(p, ContractErrors)
      BY HopelessIsRefused DEF HopelessProposal, RefusedBy
    <2> QED
      BY <2>1, <2>2, <2>3, <2>4, RefusalInit, PTL DEF Spec
  <1> QED
    BY <1>1 DEF RefusalIsFinal

==============================================================================
