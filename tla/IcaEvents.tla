------------------------------ MODULE IcaEvents -------------------------------
(***************************************************************************)
(* What an observer of the contract sees of its packets: the events it     *)
(* emits when a packet is acknowledged (src/ibc/types/events.rs; nothing   *)
(* else emits one, timeouts included), and the counters, read by a query   *)
(* at some time and compared with other things later.                      *)
(***************************************************************************)
EXTENDS IcaSystem

VARIABLES
  events,  \* emitted by committed transactions, in their order
  reading  \* the last answer to GetCallbackCounter

observerVars == <<vars, events, reading>>

\* What the core hands to ibc_packet_ack as the original packet.
IbcPacket(c, i) ==
  [sequence |-> i, src |-> [port_id |-> "wasm.contract", channel_id |-> c]]

\* Mutant: the channel is the one the contract has stored.
AttributesFromStoredChannel(packet) ==
  [packet_sequence |-> packet.sequence,
   packet_src_port |-> packet.src.port_id,
   packet_src_channel |-> contractState.ica_info.channel_id]

\* The attributes that identify a packet.
AttributesFromPacket(packet) ==
  [packet_sequence |-> packet.sequence,
   packet_src_port |-> packet.src.port_id,
   packet_src_channel |-> packet.src.channel_id]

\* The attribute added to them, packet_ack_base64 or error, tells the outcome.
PacketAckEvent(packet, acknowledgement) ==
  [packet |-> AttributesFromPacket(packet),
   added |-> IF acknowledgement = "result" THEN "packet_ack_base64" ELSE "error"]

EmitOnAck(c, i) ==
  /\ AcknowledgePacket(c, i)
  /\ events' = Append(events, PacketAckEvent(IbcPacket(c, i), acks[c][i]))
  /\ UNCHANGED reading

EmitNothing ==
  /\ \/ UserStep
     \/ \E c \in ChannelIds :
          HandshakeStep(c) \/ RecvPacket(c) \/ \E i \in DOMAIN packets[c] : TimeoutPacket(c, i)
     \/ NewBlockTime
  /\ UNCHANGED <<events, reading>>

\* The query GetCallbackCounter.
ReadCallbackCounter ==
  /\ reading' = callbackCounter
  /\ UNCHANGED <<vars, events>>

ObserverInit == Init /\ events = << >> /\ reading = callbackCounter

ObserverNext ==
  \/ \E c \in ChannelIds : \E i \in DOMAIN packets[c] : EmitOnAck(c, i)
  \/ EmitNothing
  \/ ReadCallbackCounter

ObserverSpec == ObserverInit /\ [][ObserverNext]_observerVars

-----------------------------------------------------------------------------

PacketOf(event) == <<event.packet.packet_src_channel, event.packet.packet_sequence>>

\* The places of the events with the attribute.
EventsAdding(attribute) == {i \in DOMAIN events : events[i].added = attribute}

\* The events alone tell what became of every packet, also when packets of
\* several channels are acknowledged in turn after the contract has moved on
\* to another channel: each executed packet the core is done with has exactly
\* one event, which names it and its outcome; and a reader who counts them
\* arrives at the contract's own counters.
EventsIdentifyPackets ==
  /\ \A i, j \in DOMAIN events : PacketOf(events[i]) = PacketOf(events[j]) => i = j
  /\ {PacketOf(events[i]) : i \in DOMAIN events} = {p \in Settled : Executed(p)}
  /\ \A i \in DOMAIN events :
       LET packet == events[i].packet IN
       acks[packet.packet_src_channel][packet.packet_sequence] =
         (IF events[i].added = "error" THEN "error" ELSE "result")
  /\ Cardinality(EventsAdding("packet_ack_base64")) = callbackCounter.success
  /\ Cardinality(EventsAdding("error")) = callbackCounter.error

\* An observer who finds as many callbacks counted as packets were sent knows
\* that none is under way, though both numbers may have changed since it read
\* the counters, and though some of the packets were answered after a later
\* channel was opened.
CountedMeansSettled ==
  reading.success + reading.error + reading.timeout = TotalSent => committed = {}

==============================================================================
