------------------------------ MODULE IcaErrors -------------------------------
(***************************************************************************)
(* Why a handler refuses: the ContractError (src/types/error.rs) of the    *)
(* first check that fails, in the order of the code.  IcaController says   *)
(* when a handler succeeds; the sender of a refused request sees only      *)
(* what is defined here, and decides from it whether to try again.         *)
(***************************************************************************)
EXTENDS IcaSystem

\* "Std" stands for the errors of storage and of the deserializers, "panic"
\* for an arithmetic overflow.
ContractErrors ==
  {"Std", "Unauthorized", "InvalidChannelOrdering", "InvalidHostPort",
   "InvalidControllerPort", "InvalidVersion", "InvalidAddress", "UnsupportedTxType",
   "InvalidConnection", "UnknownDataType", "ActiveChannelAlreadySet",
   "InvalidChannelInContractState", "IcaInfoNotSet"}

Results == ContractErrors \cup {"Ok", "panic"}

-----------------------------------------------------------------------------
(* The handshake *)

ValidateResult(metadata, channel) ==
  IF metadata.version # ICA_VERSION THEN "InvalidVersion"
  ELSE IF metadata.controller_connection_id # channel.connection_id
    THEN "InvalidConnection"
  ELSE IF metadata.address # NoAddress /\ ~ValidateIcaAddress(metadata.address)
    THEN "InvalidAddress"
  ELSE IF metadata.tx_type # "sdk_multi_msg" THEN "UnsupportedTxType"
  ELSE "Ok"

\* What an accepted proposal still has to get past when a channel is stored.
StoredChannelResult(metadata) ==
  IF channelState = None THEN "Ok"
  ELSE IF IsOpen THEN "ActiveChannelAlreadySet"
  ELSE IF ~IsPreviousVersionEqual(metadata, channelState.channel.version)
    THEN "InvalidVersion"
  ELSE "Ok"

OpenInitResult(channel, answer) ==
  LET metadata == OpenInitMetadata(channel, answer) IN
  IF channel.order # "ORDER_ORDERED" THEN "InvalidChannelOrdering"
  ELSE IF channel.counterparty_port_id # HOST_PORT_ID THEN "InvalidHostPort"
  ELSE IF metadata \notin IcaMetadatas THEN "UnknownDataType"
  ELSE IF ValidateResult(metadata, channel) # "Ok" THEN ValidateResult(metadata, channel)
  ELSE StoredChannelResult(metadata)

OnAcknowledgementResult(channel, counterparty_version) ==
  IF channel.port_id = HOST_PORT_ID THEN "InvalidControllerPort"
  ELSE IF counterparty_version \notin IcaMetadatas THEN "UnknownDataType"
  ELSE IF ValidateResult(counterparty_version, channel) # "Ok"
    THEN ValidateResult(counterparty_version, channel)
  ELSE IF counterparty_version.address = NoAddress THEN "InvalidAddress"
  ELSE "Ok"

CloseConfirmResult(channel) ==
  IF channelState = None THEN "Std"
  ELSE IF channelState.channel # channel THEN "InvalidChannelInContractState"
  ELSE "Ok"

-----------------------------------------------------------------------------
(* Executes and packet callbacks *)

\* What both executes check before they look at their message.
SenderResult(sender) ==
  IF ~VerifyAdmin(sender) THEN "Unauthorized"
  ELSE IF contractState.ica_info = None THEN "IcaInfoNotSet"
  ELSE "Ok"

SendCustomIcaMessagesResult(sender, time, timeout_seconds) ==
  IF SenderResult(sender) # "Ok" THEN SenderResult(sender)
  ELSE IF ~TimeoutFits(time, timeout_seconds) THEN "panic"
  ELSE "Ok"

IcaBankSendResult(sender, amount, time) ==
  IF SenderResult(sender) # "Ok" THEN SenderResult(sender)
  ELSE IF contractState.ica_info.encoding = "proto3json" /\ amount # "u128"
    THEN "UnknownDataType"
  ELSE IF ~TimeoutFits(time, None) THEN "panic"
  ELSE "Ok"

IbcPacketAckResult(acknowledgement) ==
  IF acknowledgement \notin AcknowledgementData THEN "Std"
  ELSE IF acknowledgement = "result" /\ callbackCounter.success = MaxU32 THEN "panic"
  ELSE IF acknowledgement = "error" /\ callbackCounter.error = MaxU32 THEN "panic"
  ELSE "Ok"

\* The counter is incremented before the channel is looked for.
IbcPacketTimeoutResult ==
  IF callbackCounter.timeout = MaxU32 THEN "panic"
  ELSE IF channelState = None THEN "Std"
  ELSE "Ok"

-----------------------------------------------------------------------------

\* The channel a relayer asks for that wants to reopen the stored one.
AskAgain(stored, version) ==
  [stored EXCEPT !.version = version, !.counterparty_channel_id = ""]

\* A closed channel can be had again: the version it was first asked for with,
\* and no version at all, are both accepted on its connection, whether the
\* core shows the contract the host's version or its own proposal (from_channel,
\* validate and is_previous_version_equal in metadata.rs).  Only a version that
\* does not parse leaves nothing to go by.
ClosedChannelCanReopen ==
  LET stored == channelState.channel IN
  (channelState # None /\ ~IsOpen /\ stored.version \in IcaMetadatas) =>
    \A version \in {EmptyVersion, ends[stored.channel_id].proposed}, s \in StargateSupport :
      OpenInitResult(AskAgain(stored, version),
                     CounterpartyConnectionId(stored.connection_id, s)) = "Ok"

\* The two lists of checks agree: what init (handshake.rs) let through is not
\* refused by on_acknowledgement once the host has answered it, whichever
\* version the contract is shown and whatever handshakes come between, unless
\* the host's account has an inadmissible address.
AnswersAreAcceptable ==
  \A c \in ChannelIds :
    (EndIs(c, "INIT") /\ HostEndIs(c, "TRYOPEN")
       /\ ValidateIcaAddress(HostAccount[ConnectionOf(c)])) =>
      \A channel \in ShownAtAck(c) :
        OnAcknowledgementResult(channel, hostEnds[c].version) = "Ok"

RefusedBy(p, errors) ==
  \A c \in ChannelIds, answer \in QueryAnswers(p) :
    OpenInitResult(ChannelOf(c, p), answer) \in errors

FinalErrors == ContractErrors \ {"ActiveChannelAlreadySet"}

\* While handshakes come one at a time, every refusal of an OpenInit but
\* ActiveChannelAlreadySet is final (init in handshake.rs), so trying again is
\* of no use: what the stored channel is compared by stays as it is, or becomes
\* a wrapped version, to which nothing is equal.
RefusalIsFinal ==
  \A p \in Proposals : [](RefusedBy(p, FinalErrors) => []RefusedBy(p, ContractErrors))

-----------------------------------------------------------------------------
(* What comments of the source say *)

\* metadata.rs: where the previous version "will be wrapped by the fee
\* middleware" and not be deserialized, from_channel "uses a stargate query" as
\* "a fallback option"; so with the query answered, a closed channel whose
\* version is wrapped can be had again with no version.
WrappedChannelCanReopen ==
  LET stored == channelState.channel IN
  (channelState # None /\ ~IsOpen /\ stored.version = OpaqueVersion) =>
    OpenInitResult(AskAgain(stored, EmptyVersion),
                   CounterpartyConnectionId(stored.connection_id, TRUE)) = "Ok"

==============================================================================
