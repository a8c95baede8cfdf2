--------------------------- MODULE IcaEvents_proofs ---------------------------
(***************************************************************************)
(* What an observer of the counters and of the events may conclude, for    *)
(* every value of the constants.                                           *)
(***************************************************************************)
EXTENDS IcaEvents, IcaAccounting_proofs

\* No counter has fallen behind what was read of it.
ReadInThePast ==
  /\ reading \in CallbackCounters
  /\ reading.success <= callbackCounter.success
  /\ reading.error <= callbackCounter.error
  /\ reading.timeout <= callbackCounter.timeout

ObserverInv == AccountingInv /\ ReadInThePast

LEMMA ObserverStepIsStep == [ObserverNext]_observerVars => [Next]_vars
  BY DEF ObserverNext, observerVars, EmitOnAck, EmitNothing, ReadCallbackCounter, Next, PacketStep

LEMMA CountersAreNumbers ==
  ASSUME NEW counters \in CallbackCounters
  PROVE  counters.success \in Nat /\ counters.error \in Nat /\ counters.timeout \in Nat
  BY ControllerAssumption DEF CallbackCounters

LEMMA CountersGrow ==
  ASSUME TypeOK, [Next]_vars
  PROVE  /\ callbackCounter' \in CallbackCounters
         /\ callbackCounter.success <= callbackCounter'.success
         /\ callbackCounter.error <= callbackCounter'.error
         /\ callbackCounter.timeout <= callbackCounter'.timeout
  <1>1. callbackCounter \in CallbackCounters
    BY DEF TypeOK, ControllerTypeOK
  <1>2. TypeOK'
    BY TypeStep
  <1>3. callbackCounter' \in CallbackCounters
    BY <1>2 DEF TypeOK, ControllerTypeOK
  <1>4. UNCHANGED callbackCounter \/ Success \/ Error \/ Timeout
    <2>1. ASSUME UserStep PROVE UNCHANGED callbackCounter
      BY <2>1 DEF UserStep, ExecuteSendCustomIcaMessages, ExecuteIcaBankSend,
                  SendCustomIcaMessages, IcaBankSend, contractVars
    <2>2. ASSUME NEW c \in ChannelIds, HandshakeStep(c) PROVE UNCHANGED callbackCounter
      BY <2>2 DEF HandshakeStep, ChanOpenInit, ChanOpenTry, ChanOpenAck, ChanOpenConfirm,
                  ChanCloseConfirm, HostCloses, HostCloseInit, HostCloseConfirm, OpenInit,
                  OnAcknowledgement, CloseConfirm, contractVars
    <2>3. ASSUME NEW c \in ChannelIds, PacketStep(c)
          PROVE  UNCHANGED callbackCounter \/ Success \/ Error \/ Timeout
      BY <2>3 DEF PacketStep, RecvPacket, AcknowledgePacket, TimeoutPacket, IbcPacketAck,
                  AckSuccess, AckError, IbcPacketTimeout, contractVars
    <2> QED
      BY <2>1, <2>2, <2>3 DEF Next, NewBlockTime, vars, contractVars
  <1> QED
    BY <1>1, <1>3, <1>4, CountersAreNumbers DEF Success, Error, Timeout, CallbackCounters

LEMMA ObserverInitial == ObserverInit => ObserverInv
  <1> SUFFICES ASSUME ObserverInit PROVE ObserverInv
    OBVIOUS
  <1>1. AccountingInv
    BY AccountingInit DEF ObserverInit
  <1>2. reading = callbackCounter /\ callbackCounter \in CallbackCounters
    BY <1>1 DEF ObserverInit, AccountingInv, TypeOK, ControllerTypeOK
  <1> QED
    BY <1>1, <1>2, CountersAreNumbers DEF ObserverInv, ReadInThePast

LEMMA ObserverStep == ObserverInv /\ [ObserverNext]_observerVars => ObserverInv'
  <1> SUFFICES ASSUME ObserverInv, [ObserverNext]_observerVars PROVE ObserverInv'
    OBVIOUS
  <1>1. AccountingInv /\ [Next]_vars /\ TypeOK
    BY ObserverStepIsStep DEF ObserverInv, AccountingInv
  <1>2. AccountingInv'
    BY <1>1, AccountingStep
  <1>3. callbackCounter \in CallbackCounters /\ callbackCounter' \in CallbackCounters
    BY <1>1, CountersGrow DEF TypeOK, ControllerTypeOK
  <1>4. reading' = reading \/ (reading' = callbackCounter /\ callbackCounter' = callbackCounter)
    BY DEF ObserverNext, observerVars, EmitOnAck, EmitNothing, ReadCallbackCounter, vars,
           contractVars
  <1>5. ReadInThePast'
    BY <1>1, <1>3, <1>4, CountersGrow, CountersAreNumbers DEF ObserverInv, ReadInThePast
  <1> QED
    BY <1>2, <1>5 DEF ObserverInv

\* The counters never add up to more than the packets that are settled.
LEMMA CountedAreSettled ==
  ASSUME AccountingInv
  PROVE  /\ IsFiniteSet(Settled) /\ Settled \subseteq Sent
         /\ callbackCounter.success + callbackCounter.error + callbackCounter.timeout
              <= Cardinality(Settled)
  <1>1. IsFiniteSet(Sent) /\ Settled \subseteq Sent
    BY DEF AccountingInv, Settled
  <1>2. /\ Succeeded \subseteq Settled /\ Failed \subseteq Settled /\ TimedOut \subseteq Settled
        /\ Succeeded \cap Failed = {} /\ (Succeeded \cup Failed) \cap TimedOut = {}
    BY DEF Succeeded, Failed, TimedOut
  <1>3. /\ IsFiniteSet(Settled) /\ IsFiniteSet(Succeeded) /\ IsFiniteSet(Failed)
        /\ IsFiniteSet(TimedOut)
    BY <1>1, <1>2, FS_Subset
  <1>4. \A S, T : IsFiniteSet(S) /\ IsFiniteSet(T) /\ S \cap T = {} =>
          /\ IsFiniteSet(S \cup T)
          /\ Cardinality(S \cup T) = Cardinality(S) + Cardinality(T)
    <2> SUFFICES ASSUME NEW S, NEW T, IsFiniteSet(S), IsFiniteSet(T), S \cap T = {}
                 PROVE  /\ IsFiniteSet(S \cup T)
                        /\ Cardinality(S \cup T) = Cardinality(S) + Cardinality(T)
      OBVIOUS
    <2>1. Cardinality(S) \in Nat /\ Cardinality(T) \in Nat
      BY FS_CardinalityType
    <2>2. Cardinality(S \cap T) = 0
      BY FS_EmptySet
    <2>3. /\ IsFiniteSet(S \cup T)
          /\ Cardinality(S \cup T) = Cardinality(S) + Cardinality(T) - Cardinality(S \cap T)
      BY FS_Union
    <2> QED
      BY <2>1, <2>2, <2>3
  <1>5. Cardinality((Succeeded \cup Failed) \cup TimedOut)
          = Cardinality(Succeeded) + Cardinality(Failed) + Cardinality(TimedOut)
    <2>1. /\ IsFiniteSet(Succeeded \cup Failed)
          /\ Cardinality(Succeeded \cup Failed) = Cardinality(Succeeded) + Cardinality(Failed)
      BY <1>2, <1>3, <1>4
    <2>2. Cardinality((Succeeded \cup Failed) \cup TimedOut)
            = Cardinality(Succeeded \cup Failed) + Cardinality(TimedOut)
      BY <1>2, <1>3, <1>4, <2>1
    <2> QED
      BY <2>1, <2>2
  <1>6. Cardinality((Succeeded \cup Failed) \cup TimedOut) <= Cardinality(Settled)
    BY <1>2, <1>3, FS_Subset
  <1> QED
    BY <1>1, <1>3, <1>5, <1>6 DEF AccountingInv

LEMMA CountedSettled == ObserverInv => CountedMeansSettled
  <1> SUFFICES ASSUME ObserverInv,
                      reading.success + reading.error + reading.timeout = TotalSent
               PROVE  committed = {}
    BY DEF CountedMeansSettled
  <1>1. /\ AccountingInv
        /\ callbackCounter \in CallbackCounters /\ reading \in CallbackCounters
        /\ reading.success <= callbackCounter.success
        /\ reading.error <= callbackCounter.error
        /\ reading.timeout <= callbackCounter.timeout
    BY DEF ObserverInv, ReadInThePast, AccountingInv, TypeOK, ControllerTypeOK
  <1>2. /\ IsFiniteSet(Sent) /\ IsFiniteSet(Settled) /\ Settled \subseteq Sent
        /\ Cardinality(Sent) \in Nat /\ Cardinality(Settled) \in Nat
    BY <1>1, CountedAreSettled, FS_CardinalityType DEF AccountingInv
  <1>3. TotalSent = Cardinality(Sent)
    BY DEF TotalSent, Sent
  <1>4. reading.success + reading.error + reading.timeout <= Cardinality(Settled)
    BY <1>1, <1>2, CountedAreSettled, CountersAreNumbers
  <1>5. Cardinality(Settled) = Cardinality(Sent)
    BY <1>2, <1>3, <1>4, FS_Subset
  <1>6. Settled = Sent
    BY <1>2, <1>5, FS_Subset
  <1> QED
    BY <1>1, <1>6 DEF Settled, AccountingInv

\* Whoever reads as many callbacks in the counters as packets have been sent
\* by the time it compares knows that none of them is under way.
THEOREM CountedSettles == ObserverSpec => []CountedMeansSettled
  <1> QED
    BY ObserverInitial, ObserverStep, CountedSettled, PTL DEF ObserverSpec

-----------------------------------------------------------------------------
(* The events *)

Events ==
  [packet : [packet_sequence : Nat, packet_src_port : {"wasm.contract"},
             packet_src_channel : ChannelIds],
   added : {"packet_ack_base64", "error"}]

EventsInv == ObserverInv /\ events \in Seq(Events) /\ EventsIdentifyPackets

\* The packets that were executed and called back.
Answered == {p \in Settled : Executed(p)}

LEMMA EventsInitial == ObserverInit => EventsInv
  <1> SUFFICES ASSUME ObserverInit PROVE EventsInv
    OBVIOUS
  <1>1. ObserverInv
    BY ObserverInitial
  <1>2. events = << >> /\ DOMAIN events = {}
    BY DEF ObserverInit
  <1>3. \A attribute : EventsAdding(attribute) = {}
    BY <1>2 DEF EventsAdding
  <1>4. Settled = {}
    <2>1. \A c \in ChannelIds : packets[c] = << >>
      BY DEF ObserverInit, Init, NetworkInit
    <2> QED
      BY <2>1, SentMember DEF Settled
  <1>5. callbackCounter.success = 0 /\ callbackCounter.error = 0
    BY DEF ObserverInit, Init, Instantiate
  <1> QED
    BY <1>1, <1>2, <1>3, <1>4, <1>5, FS_EmptySet DEF EventsInv, EventsIdentifyPackets

\* A step without an event answers no packet and takes no answer back: a
\* timeout settles a packet that was never executed.
LEMMA SilentStep ==
  ASSUME AccountingInv, EmitNothing \/ ReadCallbackCounter \/ UNCHANGED vars
  PROVE  /\ Answered' = Answered
         /\ \A p \in Answered : acks'[p[1]][p[2]] = acks[p[1]][p[2]]
         /\ callbackCounter'.success = callbackCounter.success
         /\ callbackCounter'.error = callbackCounter.error
  <1>1. CASE \E c \in ChannelIds : \E i \in DOMAIN packets[c] : TimeoutPacket(c, i)
    <2>1. PICK c \in ChannelIds : \E i \in DOMAIN packets[c] : TimeoutPacket(c, i)
      BY <1>1
    <2>2. PICK i \in DOMAIN packets[c] : TimeoutPacket(c, i)
      BY <2>1
    <2>3. /\ committed' = committed \ {<<c, i>>} /\ i > Len(acks[c])
          /\ UNCHANGED <<packets, acks>> /\ Timeout
      BY <2>2 DEF TimeoutPacket, CoreTimeoutPacket, IbcPacketTimeout, hostVars
    <2>4. ~Executed(<<c, i>>)
      <3>1. acks[c] \in Seq(Acknowledgements) /\ packets[c] \in Seq(Packets)
        BY DEF AccountingInv, TypeOK, NetworkTypeOK
      <3> QED
        BY <2>3, <3>1 DEF Executed
    <2>5. Sent' = Sent /\ \A p : Executed(p)' <=> Executed(p)
      BY <2>3 DEF Sent, Executed
    <2>6. Answered' = Answered
      BY <2>3, <2>4, <2>5 DEF Answered, Settled
    <2>7. callbackCounter \in CallbackCounters
      BY DEF AccountingInv, TypeOK, ControllerTypeOK
    <2> QED
      BY <2>3, <2>6, <2>7 DEF Timeout, CallbackCounters
  <1>2. CASE ~\E c \in ChannelIds : \E i \in DOMAIN packets[c] : TimeoutPacket(c, i)
    <2>1. [Next]_vars
      BY DEF EmitNothing, ReadCallbackCounter, Next, PacketStep
    <2>2. SettlesNothing
      BY <1>2, <2>1, OthersSettleNothing DEF EmitNothing, ReadCallbackCounter
    <2> QED
      BY <2>2 DEF SettlesNothing, Answered
  <1> QED
    BY <1>1, <1>2

LEMMA SilentStepKeeps ==
  ASSUME EventsInv, UNCHANGED events, EmitNothing \/ ReadCallbackCounter \/ UNCHANGED vars
  PROVE  EventsIdentifyPackets'
  <1>1. AccountingInv /\ events \in Seq(Events) /\ EventsIdentifyPackets
    BY DEF EventsInv, ObserverInv
  <1>2. /\ Answered' = Answered
        /\ \A p \in Answered : acks'[p[1]][p[2]] = acks[p[1]][p[2]]
        /\ callbackCounter'.success = callbackCounter.success
        /\ callbackCounter'.error = callbackCounter.error
    BY <1>1, SilentStep
  <1>3. \A i \in DOMAIN events : PacketOf(events[i]) \in Answered
    BY <1>1 DEF EventsIdentifyPackets, Answered
  <1>4. \A i \in DOMAIN events :
          LET packet == events[i].packet IN
          acks'[packet.packet_src_channel][packet.packet_sequence] =
            acks[packet.packet_src_channel][packet.packet_sequence]
    BY <1>2, <1>3 DEF PacketOf
  <1>5. \A attribute : EventsAdding(attribute)' = EventsAdding(attribute)
    BY DEF EventsAdding
  <1> QED
    BY <1>1, <1>2, <1>4, <1>5 DEF EventsIdentifyPackets, Answered, PacketOf

\* What an acknowledgement does to the events and to what is answered.
LEMMA EmitEffect ==
  ASSUME EventsInv, NEW c \in ChannelIds, NEW i \in DOMAIN packets[c], EmitOnAck(c, i),
         NEW n \in Nat, n = Len(events) + 1
  PROVE  /\ DOMAIN events' = DOMAIN events \cup {n} /\ n \notin DOMAIN events
         /\ \A j \in DOMAIN events : events'[j] = events[j]
         /\ events'[n] \in Events /\ events' \in Seq(Events)
         /\ PacketOf(events'[n]) = <<c, i>>
         /\ <<c, i>> \notin Answered /\ Answered' = Answered \cup {<<c, i>>}
         /\ UNCHANGED acks
         /\ \/ /\ events'[n].added = "packet_ack_base64" /\ acks[c][i] = "result"
               /\ Success
            \/ /\ events'[n].added = "error" /\ acks[c][i] = "error"
               /\ Error
  <1> DEFINE e == PacketAckEvent(IbcPacket(c, i), acks[c][i])
  <1>1. /\ events \in Seq(Events) /\ events' = Append(events, e)
        /\ AcknowledgePacket(c, i) /\ AccountingInv
    BY DEF EventsInv, ObserverInv, EmitOnAck
  <1>2. e = [packet |-> [packet_sequence |-> i, packet_src_port |-> "wasm.contract",
                         packet_src_channel |-> c],
             added |-> IF acks[c][i] = "result" THEN "packet_ack_base64" ELSE "error"]
    BY DEF PacketAckEvent, AttributesFromPacket, IbcPacket
  <1>3. i \in Nat
    <2>1. packets[c] \in Seq(Packets)
      BY <1>1 DEF AccountingInv, TypeOK, NetworkTypeOK
    <2> QED
      BY <2>1
  <1>4. e \in Events
    BY <1>2, <1>3 DEF Events
  <1>5. PacketOf(e) = <<c, i>>
    BY <1>2 DEF PacketOf
  <1>6. /\ <<c, i>> \in committed /\ committed' = committed \ {<<c, i>>}
        /\ i \in DOMAIN acks[c] /\ UNCHANGED <<packets, acks>>
    BY <1>1 DEF AcknowledgePacket, CoreAcknowledgePacket, hostVars
  <1>7. \/ acks[c][i] = "result" /\ Success
        \/ acks[c][i] = "error" /\ Error
    BY <1>1 DEF AcknowledgePacket, IbcPacketAck, AckSuccess, AckError
  <1>8. \/ e.added = "packet_ack_base64" /\ acks[c][i] = "result" /\ Success
        \/ e.added = "error" /\ acks[c][i] = "error" /\ Error
    BY <1>2, <1>7
  <1>9. <<c, i>> \in Sent
    BY <1>1, <1>6 DEF AccountingInv
  <1>10. <<c, i>> \notin Answered /\ Answered' = Answered \cup {<<c, i>>}
    <2>1. Sent' = Sent /\ Settled' = Settled \cup {<<c, i>>} /\ <<c, i>> \notin Settled
      BY <1>6, <1>9 DEF Sent, Settled
    <2>2. Executed(<<c, i>>) /\ \A p : Executed(p)' <=> Executed(p)
      BY <1>6 DEF Executed
    <2> QED
      BY <2>1, <2>2 DEF Answered
  <1> HIDE DEF e
  <1>11. events'[n] = e /\ events' \in Seq(Events)
    BY <1>1, <1>4
  <1>12. /\ DOMAIN events' = DOMAIN events \cup {n} /\ n \notin DOMAIN events
         /\ \A j \in DOMAIN events : events'[j] = events[j]
    BY <1>1, <1>4
  <1> QED
    BY <1>4, <1>5, <1>6, <1>8, <1>10, <1>11, <1>12 DEF Answered

LEMMA EmitStepKeeps ==
  ASSUME EventsInv, NEW c \in ChannelIds, NEW i \in DOMAIN packets[c], EmitOnAck(c, i)
  PROVE  events' \in Seq(Events) /\ EventsIdentifyPackets'
  <1> DEFINE n == Len(events) + 1
             result == EventsAdding("packet_ack_base64")
             error == EventsAdding("error")
  <1>1. EventsIdentifyPackets /\ events \in Seq(Events) /\ callbackCounter \in CallbackCounters
    BY DEF EventsInv, ObserverInv, AccountingInv, TypeOK, ControllerTypeOK
  <1>2. /\ DOMAIN events' = DOMAIN events \cup {n} /\ n \notin DOMAIN events
        /\ \A j \in DOMAIN events : events'[j] = events[j]
        /\ events'[n] \in Events /\ events' \in Seq(Events)
        /\ PacketOf(events'[n]) = <<c, i>>
        /\ <<c, i>> \notin Answered /\ Answered' = Answered \cup {<<c, i>>}
        /\ UNCHANGED acks
        /\ \/ /\ events'[n].added = "packet_ack_base64" /\ acks[c][i] = "result"
              /\ Success
           \/ /\ events'[n].added = "error" /\ acks[c][i] = "error"
              /\ Error
    <2>1. n \in Nat
      BY <1>1
    <2> QED
      BY <2>1, EmitEffect
  <1>3. IsFiniteSet(result) /\ IsFiniteSet(error) /\ n \notin result /\ n \notin error
    <2>1. DOMAIN events = 1..Len(events) /\ Len(events) \in Nat
      BY <1>1
    <2>2. IsFiniteSet(DOMAIN events)
      BY <2>1, FS_Interval
    <2>3. result \subseteq DOMAIN events /\ error \subseteq DOMAIN events
      BY DEF EventsAdding
    <2> QED
      BY <1>2, <2>2, <2>3, FS_Subset
  <1> HIDE DEF n
  <1>4. \A a : EventsAdding(a)' = EventsAdding(a) \cup {j \in {n} : events'[j].added = a}
    BY <1>2 DEF EventsAdding
  <1>5. \A j \in DOMAIN events : PacketOf(events[j]) \in Answered
    BY <1>1 DEF EventsIdentifyPackets, Answered
  <1>6. \A j, k \in DOMAIN events' : PacketOf(events'[j]) = PacketOf(events'[k]) => j = k
    <2>1. \A j, k \in DOMAIN events : PacketOf(events[j]) = PacketOf(events[k]) => j = k
      BY <1>1 DEF EventsIdentifyPackets
    <2> QED
      BY <1>2, <1>5, <2>1
  <1>7. {PacketOf(events'[j]) : j \in DOMAIN events'} = Answered'
    <2>1. {PacketOf(events[j]) : j \in DOMAIN events} = Answered
      BY <1>1 DEF EventsIdentifyPackets, Answered
    <2> QED
      BY <1>2, <2>1
  <1>8. \A j \in DOMAIN events' :
          LET packet == events'[j].packet IN
          acks'[packet.packet_src_channel][packet.packet_sequence] =
            (IF events'[j].added = "error" THEN "error" ELSE "result")
    <2>1. events'[n].packet.packet_src_channel = c /\ events'[n].packet.packet_sequence = i
      BY <1>2 DEF PacketOf
    <2> QED
      BY <1>1, <1>2, <2>1 DEF EventsIdentifyPackets
  <1>9. /\ Cardinality(EventsAdding("packet_ack_base64")') = callbackCounter'.success
        /\ Cardinality(EventsAdding("error")') = callbackCounter'.error
    <2>0. /\ Cardinality(result) = callbackCounter.success
          /\ Cardinality(error) = callbackCounter.error
      BY <1>1 DEF EventsIdentifyPackets
    <2>1. /\ Cardinality(result \cup {n}) = Cardinality(result) + 1
          /\ Cardinality(error \cup {n}) = Cardinality(error) + 1
      BY <1>3, FS_AddElement
    <2>2. CASE events'[n].added = "packet_ack_base64" /\ Success
      <3>1. /\ EventsAdding("packet_ack_base64")' = result \cup {n}
            /\ EventsAdding("error")' = error
        BY <1>4, <2>2
      <3> QED
        BY <1>1, <2>0, <2>1, <2>2, <3>1 DEF Success, CallbackCounters
    <2>3. CASE events'[n].added = "error" /\ Error
      <3>1. /\ EventsAdding("packet_ack_base64")' = result
            /\ EventsAdding("error")' = error \cup {n}
        BY <1>4, <2>3
      <3> QED
        BY <1>1, <2>0, <2>1, <2>3, <3>1 DEF Error, CallbackCounters
    <2> QED
      BY <1>2, <2>2, <2>3
  <1> QED
    BY <1>2, <1>6, <1>7, <1>8, <1>9 DEF EventsIdentifyPackets, Answered, PacketOf

LEMMA EventsStep == EventsInv /\ [ObserverNext]_observerVars => EventsInv'
  <1> SUFFICES ASSUME EventsInv, [ObserverNext]_observerVars PROVE EventsInv'
    OBVIOUS
  <1>1. ObserverInv'
    BY ObserverStep DEF EventsInv
  <1>2. ASSUME NEW c \in ChannelIds, NEW i \in DOMAIN packets[c], EmitOnAck(c, i)
        PROVE  events' \in Seq(Events) /\ EventsIdentifyPackets'
    BY <1>2, EmitStepKeeps
  <1>3. ASSUME UNCHANGED events, EmitNothing \/ ReadCallbackCounter \/ UNCHANGED vars
        PROVE  events' \in Seq(Events) /\ EventsIdentifyPackets'
    BY <1>3, SilentStepKeeps DEF EventsInv
  <1>4. \/ \E c \in ChannelIds : \E i \in DOMAIN packets[c] : EmitOnAck(c, i)
        \/ /\ UNCHANGED events
           /\ EmitNothing \/ ReadCallbackCounter \/ UNCHANGED vars
    BY DEF ObserverNext, observerVars, EmitNothing, ReadCallbackCounter
  <1>5. events' \in Seq(Events) /\ EventsIdentifyPackets'
    BY <1>2, <1>3, <1>4
  <1> QED
    BY <1>1, <1>5 DEF EventsInv

\* The events of acknowledgements name every executed packet the core is done
\* with exactly once, with its outcome, on whichever channel it was sent, and
\* agree in number with the counters.
THEOREM EventsIdentify == ObserverSpec => []EventsIdentifyPackets
  <1>1. EventsInv => EventsIdentifyPackets
    BY DEF EventsInv
  <1> QED
    BY <1>1, EventsInitial, EventsStep, PTL DEF ObserverSpec

\* To observe changes nothing: with the events and the readings left out, an
\* observed behaviour is one of the system.
THEOREM ObserverImplementsSystem == ObserverSpec => Spec
  <1>1. ObserverInit => Init
    BY DEF ObserverInit
  <1> QED
    BY <1>1, ObserverStepIsStep, PTL DEF ObserverSpec, Spec

==============================================================================
