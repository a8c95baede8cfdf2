---------------------------- MODULE IcaController ----------------------------
(***************************************************************************)
(* The contract: its three storage items (src/types/state.rs) and its      *)
(* handlers (src/contract.rs, src/ibc/handshake.rs, src/ibc/relay.rs).     *)
(*                                                                         *)
(* A handler that returns an error or panics aborts its transaction, which *)
(* leaves no trace; so a handler here is the conjunction of the conditions *)
(* under which the code succeeds and of what it then writes.               *)
(***************************************************************************)
EXTENDS IcaPacket

CONSTANTS
  Users,   \* addresses of the controller chain
  MaxU32   \* u32::MAX

VARIABLES
  contractState,   \* STATE
  channelState,    \* CHANNEL_STATE, None until it is first saved
  callbackCounter  \* CALLBACK_COUNTER

contractVars == <<contractState, channelState, callbackCounter>>

IcaInfos ==
  [ica_address : Addresses \cup {NoAddress}, channel_id : ChannelIds, encoding : TxEncodings]

ContractStates == [admin : Users, ica_info : IcaInfos \cup {None}]

\* The code never stores another status than these two.
ChannelStates ==
  [channel : IbcChannels, channel_status : {"STATE_OPEN", "STATE_CLOSED"}]

CallbackCounters == [success : 0..MaxU32, error : 0..MaxU32, timeout : 0..MaxU32]

ControllerTypeOK ==
  /\ contractState \in ContractStates
  /\ channelState \in ChannelStates \cup {None}
  /\ callbackCounter \in CallbackCounters

ASSUME ControllerAssumption ==
  /\ MaxU32 \in Nat
  /\ None \notin Users
  /\ None \notin IcaInfos
  /\ None \notin ChannelStates

-----------------------------------------------------------------------------
(* src/types/state.rs *)

IsOpen == channelState.channel_status = "STATE_OPEN"

\* Mutant: the status the handshake had when the version was negotiated.
NewUnconfirmedChannel(channel) ==
  channelState' = [channel |-> channel, channel_status |-> "STATE_TRYOPEN"]

NewOpenChannel(channel) ==
  channelState' = [channel |-> channel, channel_status |-> "STATE_OPEN"]

Close == channelState' = [channelState EXCEPT !.channel_status = "STATE_CLOSED"]

VerifyAdmin(sender) == contractState.admin = sender

\* Mutant: an account already known is kept, only the channel is renewed.
SetIcaInfoOnce(address, channel_id, encoding) ==
  contractState' =
    IF contractState.ica_info = None
    THEN [contractState EXCEPT !.ica_info =
           [ica_address |-> address, channel_id |-> channel_id, encoding |-> encoding]]
    ELSE [contractState EXCEPT !.ica_info.channel_id = channel_id]

SetIcaInfo(address, channel_id, encoding) ==
  contractState' = [contractState EXCEPT !.ica_info =
    [ica_address |-> address, channel_id |-> channel_id, encoding |-> encoding]]

\* A field is a u32 and the release build checks overflow, so an increment of
\* the largest value aborts the transaction.
Success ==
  /\ callbackCounter.success < MaxU32
  /\ callbackCounter' = [callbackCounter EXCEPT !.success = @ + 1]

Error ==
  /\ callbackCounter.error < MaxU32
  /\ callbackCounter' = [callbackCounter EXCEPT !.error = @ + 1]

Timeout ==
  /\ callbackCounter.timeout < MaxU32
  /\ callbackCounter' = [callbackCounter EXCEPT !.timeout = @ + 1]

-----------------------------------------------------------------------------
(* src/contract.rs *)

Instantiate(sender, admin) ==
  /\ contractState = [admin |-> IF admin # None THEN admin ELSE sender,
                      ica_info |-> None]
  /\ channelState = None
  /\ callbackCounter = [success |-> 0, error |-> 0, timeout |-> 0]

\* Both messages are refused to all but the admin, and before the first
\* handshake; neither looks at the channel's status.
SendCustomIcaMessages(sender, time, timeout_seconds) ==
  /\ VerifyAdmin(sender)
  /\ contractState.ica_info # None
  /\ TimeoutFits(time, timeout_seconds)
  /\ UNCHANGED contractVars

CustomIcaMsg(messages, time, timeout_seconds) ==
  ToIbcMsg(messages, contractState.ica_info.channel_id, time, timeout_seconds)

\* Mutant: the amount is passed on unparsed in JSON too.
IcaBankSendUnparsed(sender, amount, time) ==
  /\ VerifyAdmin(sender)
  /\ contractState.ica_info # None
  /\ TimeoutFits(time, None)
  /\ UNCHANGED contractVars

\* Only the JSON form of the amount is parsed.
IcaBankSend(sender, amount, time) ==
  /\ VerifyAdmin(sender)
  /\ contractState.ica_info # None
  /\ contractState.ica_info.encoding = "proto3json" => amount = "u128"
  /\ TimeoutFits(time, None)
  /\ UNCHANGED contractVars

BankSendMsg(amount, time) ==
  LET info == contractState.ica_info IN
  ToIbcMsg([from_address |-> info.ica_address, encoding |-> info.encoding,
            amount |-> amount],
           info.channel_id, time, None)

-----------------------------------------------------------------------------
(* src/ibc/handshake.rs; OpenTry, OpenConfirm and CloseInit always panic *)

\* The metadata an OpenInit proceeds with and responds; "answer" is what the
\* stargate query for the host's connection would give.
OpenInitMetadata(channel, answer) ==
  IF channel.version = EmptyVersion
  THEN FromChannel(channelState, channel, answer)
  ELSE channel.version

\* Mutant: a stored channel that is open does not stand in the way.
OpenInitAnyway(channel, answer) ==
  LET metadata == OpenInitMetadata(channel, answer) IN
  /\ channel.order = "ORDER_ORDERED"
  /\ channel.counterparty_port_id = HOST_PORT_ID
  /\ metadata \in IcaMetadatas
  /\ Validate(metadata, channel)
  /\ channelState # None =>
       IsPreviousVersionEqual(metadata, channelState.channel.version)
  /\ UNCHANGED contractVars

\* Mutant: what the stored channel had is not compared.
OpenInitForgetting(channel, answer) ==
  LET metadata == OpenInitMetadata(channel, answer) IN
  /\ channel.order = "ORDER_ORDERED"
  /\ channel.counterparty_port_id = HOST_PORT_ID
  /\ metadata \in IcaMetadatas
  /\ Validate(metadata, channel)
  /\ channelState # None => ~IsOpen
  /\ UNCHANGED contractVars

\* Mutant: what the relayer asks for is left for the acknowledgement to check.
OpenInitUnvalidated(channel, answer) ==
  LET metadata == OpenInitMetadata(channel, answer) IN
  /\ channel.order = "ORDER_ORDERED"
  /\ channel.counterparty_port_id = HOST_PORT_ID
  /\ metadata \in IcaMetadatas
  /\ channelState # None =>
       /\ ~IsOpen
       /\ IsPreviousVersionEqual(metadata, channelState.channel.version)
  /\ UNCHANGED contractVars

\* Nothing is saved: the core tracks the handshake.
OpenInit(channel, answer) ==
  LET metadata == OpenInitMetadata(channel, answer) IN
  /\ channel.order = "ORDER_ORDERED"
  /\ channel.counterparty_port_id = HOST_PORT_ID
  /\ metadata \in IcaMetadatas
  /\ Validate(metadata, channel)
  /\ channelState # None =>
       /\ ~IsOpen
       /\ IsPreviousVersionEqual(metadata, channelState.channel.version)
  /\ UNCHANGED contractVars

\* Mutant: a channel is acknowledged only if none was before.
OnFirstAcknowledgement(channel, counterparty_version) ==
  /\ channelState = None
  /\ counterparty_version \in IcaMetadatas
  /\ Validate(counterparty_version, channel)
  /\ counterparty_version.address # NoAddress
  /\ SetIcaInfo(counterparty_version.address, channel.channel_id,
                counterparty_version.encoding)
  /\ NewOpenChannel(channel)
  /\ UNCHANGED callbackCounter

\* Mutant: a stored channel stays stored when another is acknowledged.
OnAcknowledgementKeepingChannel(channel, counterparty_version) ==
  /\ counterparty_version \in IcaMetadatas
  /\ Validate(counterparty_version, channel)
  /\ counterparty_version.address # NoAddress
  /\ SetIcaInfo(counterparty_version.address, channel.channel_id,
                counterparty_version.encoding)
  /\ IF channelState = None THEN NewOpenChannel(channel) ELSE UNCHANGED channelState
  /\ UNCHANGED callbackCounter

\* Whether a channel is already stored, and open, is not looked at again.
OnAcknowledgement(channel, counterparty_version) ==
  /\ channel.port_id # HOST_PORT_ID
  /\ counterparty_version \in IcaMetadatas
  /\ Validate(counterparty_version, channel)
  /\ counterparty_version.address # NoAddress
  /\ SetIcaInfo(counterparty_version.address, channel.channel_id,
                counterparty_version.encoding)
  /\ NewOpenChannel(channel)
  /\ UNCHANGED callbackCounter

\* Mutant: the closed channel state is not saved.
CloseConfirmUnsaved(channel) ==
  /\ channelState # None
  /\ channelState.channel = channel
  /\ UNCHANGED contractVars

CloseConfirm(channel) ==
  /\ channelState # None
  /\ channelState.channel = channel
  /\ Close
  /\ UNCHANGED <<contractState, callbackCounter>>

-----------------------------------------------------------------------------
(* src/ibc/relay.rs; PacketReceive always panics *)

AckSuccess == Success /\ UNCHANGED <<contractState, channelState>>

AckError == Error /\ UNCHANGED <<contractState, channelState>>

\* Mutant: an acknowledgement that does not parse passes for an error.
IbcPacketAckLenient(acknowledgement) ==
  \/ acknowledgement = "result" /\ AckSuccess
  \/ acknowledgement # "result" /\ AckError

\* Mutant: only results are handled.
IbcPacketAckOfResult(acknowledgement) ==
  acknowledgement = "result" /\ AckSuccess

\* An acknowledgement that does not parse fails the callback.
IbcPacketAck(acknowledgement) ==
  \/ acknowledgement = "result" /\ AckSuccess
  \/ acknowledgement = "error" /\ AckError

\* Mutant: the timeout is counted, the channel left open.
IbcPacketTimeoutStayingOpen ==
  /\ channelState # None
  /\ Timeout
  /\ UNCHANGED <<contractState, channelState>>

\* Mutant: a timeout after the channel is closed is not counted.
IbcPacketTimeoutOnce ==
  /\ channelState # None
  /\ IF IsOpen THEN Timeout ELSE UNCHANGED callbackCounter
  /\ Close
  /\ UNCHANGED contractState

\* Mutant: a timeout is counted as an error as well.
IbcPacketTimeoutCountedTwice ==
  /\ channelState # None
  /\ callbackCounter.timeout < MaxU32 /\ callbackCounter.error < MaxU32
  /\ callbackCounter' = [callbackCounter EXCEPT !.timeout = @ + 1, !.error = @ + 1]
  /\ Close
  /\ UNCHANGED contractState

\* The packet that timed out is not looked at.
IbcPacketTimeout ==
  /\ channelState # None
  /\ Timeout
  /\ Close
  /\ UNCHANGED contractState

==============================================================================
