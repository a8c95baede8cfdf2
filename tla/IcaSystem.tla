------------------------------ MODULE IcaSystem ------------------------------
(***************************************************************************)
(* The contract between the IBC core that calls it, the host, a relayer    *)
(* and the users.  A step is one transaction of one of the two chains.     *)
(***************************************************************************)
EXTENDS IcaController, IbcNetwork

CONSTANTS
  Proposals,             \* versions and connections handshakes are begun with
  StargateSupport,       \* whether the chain answers stargate queries
  TimeoutChoices,        \* values of timeout_seconds in a custom send
  ConcurrentHandshakes   \* a handshake may begin while another is pending

\* The channels OpenInit is asked for.
ASSUME SystemAssumption ==
  /\ Proposals \subseteq
       [counterparty_port_id : PortIds, order : IbcOrders,
        version : Versions, connection_id : Connections]
  /\ StargateSupport \subseteq BOOLEAN
  /\ TimeoutChoices \subseteq Nat \cup {None}
  /\ ConcurrentHandshakes \in BOOLEAN

vars == <<contractVars, networkVars>>

Init ==
  /\ \E sender \in Users, admin \in Users \cup {None} : Instantiate(sender, admin)
  /\ NetworkInit

-----------------------------------------------------------------------------

\* A pending handshake is one the host has yet to answer or has accepted.
NoPendingHandshake ==
  \A c \in ChannelIds : EndIs(c, "INIT") => ~HostAccepts(c)

ChannelOf(c, p) ==
  [port_id |-> "wasm.contract", channel_id |-> c,
   counterparty_port_id |-> p.counterparty_port_id, counterparty_channel_id |-> "",
   order |-> p.order, version |-> p.version, connection_id |-> p.connection_id]

\* The query for the connection's counterparty, of which the response holds
\* far more; on a chain that refuses stargate queries, or answers in another
\* form, it fails.
CounterpartyConnectionId(connection_id, supported) ==
  IF supported THEN HostConnection[connection_id] ELSE NoHostConnection

QueryAnswers(p) == {CounterpartyConnectionId(p.connection_id, s) : s \in StargateSupport}

ChanOpenInit(c, p, answer) ==
  /\ ConcurrentHandshakes \/ NoPendingHandshake
  /\ OpenInit(ChannelOf(c, p), answer)
  /\ CoreChanOpenInit(c, ChannelOf(c, p), OpenInitMetadata(ChannelOf(c, p), answer))
  /\ UNCHANGED <<hostVars, now>>

ChanOpenTry(c) ==
  /\ HostChanOpenTry(c)
  /\ UNCHANGED <<contractVars, coreVars, now>>

ChanOpenAck(c) ==
  /\ CoreChanOpenAck(c)
  /\ \E channel \in ShownAtAck(c) : OnAcknowledgement(channel, hostEnds[c].version)
  /\ UNCHANGED <<hostVars, now>>

ChanOpenConfirm(c) ==
  /\ HostChanOpenConfirm(c)
  /\ UNCHANGED <<contractVars, coreVars, now>>

ChanCloseConfirm(c) ==
  /\ CoreChanCloseConfirm(c)
  /\ CloseConfirm(ends[c].channel)
  /\ UNCHANGED <<hostVars, now>>

HostCloseInit(c) ==
  /\ HostChanCloseInit(c)
  /\ UNCHANGED <<contractVars, coreVars, now>>

HostCloseConfirm(c) ==
  /\ HostChanCloseConfirm(c)
  /\ UNCHANGED <<contractVars, coreVars, now>>

HostCloses(c) == HostCloseInit(c) \/ HostCloseConfirm(c)

\* The handler's message is run by the core in the same transaction.
ExecuteSendCustomIcaMessages(sender, messages, timeout_seconds) ==
  /\ SendCustomIcaMessages(sender, now, timeout_seconds)
  /\ CoreSendPacket(CustomIcaMsg(messages, now, timeout_seconds))
  /\ UNCHANGED <<hostVars, now>>

ExecuteIcaBankSend(sender, amount) ==
  /\ IcaBankSend(sender, amount, now)
  /\ CoreSendPacket(BankSendMsg(amount, now))
  /\ UNCHANGED <<hostVars, now>>

RecvPacket(c) ==
  /\ HostRecvPacket(c)
  /\ UNCHANGED <<contractVars, coreVars, now>>

AcknowledgePacket(c, i) ==
  /\ CoreAcknowledgePacket(c, i)
  /\ IbcPacketAck(acks[c][i])
  /\ UNCHANGED <<hostVars, now>>

TimeoutPacket(c, i) ==
  /\ CoreTimeoutPacket(c, i)
  /\ IbcPacketTimeout
  /\ UNCHANGED <<hostVars, now>>

NewBlockTime ==
  /\ Tick
  /\ UNCHANGED <<contractVars, coreVars, hostVars>>

-----------------------------------------------------------------------------

UserStep ==
  \E sender \in Users :
    \/ \E messages \in CustomMessages, t \in TimeoutChoices :
         ExecuteSendCustomIcaMessages(sender, messages, t)
    \/ \E amount \in Amounts : ExecuteIcaBankSend(sender, amount)

HandshakeStep(c) ==
  \/ \E p \in Proposals : \E answer \in QueryAnswers(p) : ChanOpenInit(c, p, answer)
  \/ ChanOpenTry(c)
  \/ ChanOpenAck(c)
  \/ ChanOpenConfirm(c)
  \/ ChanCloseConfirm(c)
  \/ HostCloses(c)

PacketStep(c) ==
  \/ RecvPacket(c)
  \/ \E i \in DOMAIN packets[c] : AcknowledgePacket(c, i) \/ TimeoutPacket(c, i)

Next ==
  \/ UserStep
  \/ \E c \in ChannelIds : HandshakeStep(c) \/ PacketStep(c)
  \/ NewBlockTime

Spec == Init /\ [][Next]_vars

\* The relayer runs with packets and channels enabled, clears its backlog on
\* start and every 100 blocks, and is restarted when it hangs: each datagram
\* that stays possible is delivered.  Blocks keep being made.  Nobody has to
\* begin a handshake, send, or close a channel from the host's side.
Fairness ==
  /\ \A c \in ChannelIds :
       /\ WF_vars(ChanOpenTry(c))
       /\ WF_vars(ChanOpenAck(c))
       /\ WF_vars(ChanOpenConfirm(c))
       /\ WF_vars(ChanCloseConfirm(c))
       /\ WF_vars(HostCloseConfirm(c))
       /\ WF_vars(RecvPacket(c))
       /\ \A i \in 1..MaxPackets :
            WF_vars(AcknowledgePacket(c, i)) /\ WF_vars(TimeoutPacket(c, i))
  /\ WF_vars(NewBlockTime)

FairSpec == Spec /\ Fairness

TypeOK == ControllerTypeOK /\ NetworkTypeOK

\* The account, channel and encoding the contract keeps (set_ica_info) are
\* those of one channel, the stored one, which completed its handshake: the
\* address is the one the host registered on that channel's connection and
\* passes validate_ica_address, the encoding the one negotiated on it.
IcaInfoDescribesStoredChannel ==
  LET info == contractState.ica_info
      c == info.channel_id
  IN
  /\ info = None <=> channelState = None
  /\ info # None =>
       /\ channelState.channel.channel_id = c
       /\ EndIs(c, "OPEN") \/ EndIs(c, "CLOSED")
       /\ channelState.channel.connection_id = ConnectionOf(c)
       /\ info.ica_address = HostAccount[ConnectionOf(c)]
       /\ AddressLen[info.ica_address] <= 128
       /\ info.ica_address \in Alphanumeric
       /\ info.encoding = ends[c].proposed.encoding

\* A bank send on a channel spends from that channel's interchain account, in
\* the encoding negotiated on that channel, whatever handshakes, closures and
\* reopenings happened around the send (ica_bank_send reads all three from
\* ica_info); in JSON its amount is a u128.
PacketProvenance ==
  \A c \in ChannelIds : \A i \in DOMAIN packets[c] :
    LET send == packets[c][i].data IN
    send \in BankSends =>
      /\ EndIs(c, "OPEN") \/ EndIs(c, "CLOSED")
      /\ send.from_address = HostAccount[ConnectionOf(c)]
      /\ send.encoding = ends[c].proposed.encoding
      /\ send.encoding = "proto3json" => send.amount = "u128"

Sent == UNION {{c} \X DOMAIN packets[c] : c \in ChannelIds}
Settled == Sent \ committed
Executed(p) == p[2] \in DOMAIN acks[p[1]]

\* The callback counters (relay.rs, state.rs) are exact: each packet the core
\* no longer waits for was counted once, as a success or an error if that is
\* what the host answered, as a timeout only if the host never executed it.
CallbackAccounting ==
  /\ callbackCounter.success =
       Cardinality({p \in Settled : Executed(p) /\ acks[p[1]][p[2]] = "result"})
  /\ callbackCounter.error =
       Cardinality({p \in Settled : Executed(p) /\ acks[p[1]][p[2]] = "error"})
  /\ callbackCounter.timeout = Cardinality({p \in Settled : ~Executed(p)})

\* However many handshakes run at once, CHANNEL_STATE errs in one way only: it
\* may call an open channel closed (ibc_packet_timeout), never a closed one
\* open.  So no handshake is refused, and no close lost, over a channel that
\* is gone (ActiveChannelAlreadySet, ibc_channel_close::confirm).
OpenChannelIsOpen ==
  channelState # None /\ IsOpen => EndIs(channelState.channel.channel_id, "OPEN")

\* While handshakes come one at a time, CHANNEL_STATE tells the truth about
\* the core: it says open exactly when the stored channel's end is, and no
\* other end is open then or at any time.
StoredChannelMirrorsCore ==
  \A c \in ChannelIds :
    EndIs(c, "OPEN") <=>
      /\ channelState # None
      /\ channelState.channel.channel_id = c
      /\ IsOpen

\* While handshakes come one at a time, the contract speaks for one account
\* in one encoding for ever: closing and reopening the channel
\* (is_previous_version_equal, from_channel) changes neither.
IcaIdentityStable ==
  [][contractState.ica_info # None =>
       /\ contractState'.ica_info # None
       /\ contractState'.ica_info.ica_address = contractState.ica_info.ica_address
       /\ contractState'.ica_info.encoding = contractState.ica_info.encoding]_vars

\* The contract moves to another channel only once the end of the one it
\* leaves is closed in the core, so nothing sent on it can still be executed
\* and acknowledged (ActiveChannelAlreadySet).
ChannelReplacedOnlyWhenClosed ==
  [][(channelState # None /\ channelState'.channel.channel_id # channelState.channel.channel_id)
       => EndIs(channelState.channel.channel_id, "CLOSED")]_vars

\* Once the stored version is the wrapped one of a handshake begun with no
\* version, while handshakes come one at a time, that channel is the last: no
\* metadata is_previous_version_equal to it, so the contract never opens
\* another, however often and with whatever version the relayer tries.  A
\* channel begun with metadata, as in init-relayer.sh, can be reopened.
WrappedVersionIsFinal ==
  [][channelState # None /\ channelState.channel.version = OpaqueVersion =>
       /\ channelState'.channel = channelState.channel
       /\ contractState' = contractState]_vars

-----------------------------------------------------------------------------

Saturated == MaxU32 \in {callbackCounter.success, callbackCounter.error,
                         callbackCounter.timeout}

\* An acknowledgement from_binary rejects can never be delivered, and holds up
\* those behind it.
Blocked(c, i) == \E j \in 1..i : j \in DOMAIN acks[c] /\ acks[c][j] = "unparsable"

\* Every packet gets its callback, unless its channel closes first, an
\* unparsable acknowledgement is in its way, or a counter is at u32::MAX and
\* its increment aborts (ibc_packet_ack, ibc_packet_timeout).
PacketSettles ==
  \A c \in ChannelIds, i \in 1..MaxPackets :
    <<c, i>> \in committed ~>
      \/ <<c, i>> \notin committed
      \/ EndIs(c, "CLOSED")
      \/ Blocked(c, i)
      \/ Saturated

\* A handshake whose metadata names the host's connection, and for which the
\* host has a valid account, is completed (init, on_acknowledgement).
HandshakeCompletes ==
  \A c \in ChannelIds :
    (/\ EndIs(c, "INIT")
     /\ HostAccepts(c)
     /\ ValidateIcaAddress(HostAccount[ConnectionOf(c)]))
    ~> ~EndIs(c, "INIT")

\* A channel the host closed is closed for the contract too, if the contract
\* has the channel stored just as the core has it (ibc_channel_close::confirm
\* compares the whole IbcChannel).
HostCloseReachesContract ==
  \A c \in ChannelIds :
    (/\ HostEndIs(c, "CLOSED")
     /\ channelState # None
     /\ channelState.channel = ends[c].channel)
    ~> EndIs(c, "CLOSED") /\ ~IsOpen

-----------------------------------------------------------------------------
(* What comments of the source say *)

\* handshake.rs: "this contract can only store one active channel"; state.rs:
\* "This application only supports one channel."
OneActiveChannel ==
  \A c, d \in ChannelIds : EndIs(c, "OPEN") /\ EndIs(d, "OPEN") => c = d

\* relay.rs, where a timeout marks the stored channel closed: "the underlying
\* channel end is closed."
ClosedChannelIsClosed ==
  channelState # None /\ ~IsOpen => EndIs(channelState.channel.channel_id, "CLOSED")

==============================================================================
