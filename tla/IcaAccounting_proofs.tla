------------------------- MODULE IcaAccounting_proofs -------------------------
(***************************************************************************)
(* The callback counters are exact, for every value of the constants of    *)
(* IcaSystem and under any interleaving of handshakes.                     *)
(***************************************************************************)
EXTENDS IcaSystem_proofs, FiniteSetTheorems

Succeeded == {p \in Settled : Executed(p) /\ acks[p[1]][p[2]] = "result"}
Failed == {p \in Settled : Executed(p) /\ acks[p[1]][p[2]] = "error"}
TimedOut == {p \in Settled : ~Executed(p)}

\* The host can never execute the packet any more.
Beyond(p) == packets[p[1]][p[2]].timeout <= now \/ HostEndIs(p[1], "CLOSED")

\* CallbackAccounting is inductive once it is known that only packets sent are
\* waited for, and that one that was counted as timed out is beyond execution:
\* else the host might execute it later, and it would have been miscounted.
AccountingInv ==
  /\ TypeOK
  /\ committed \subseteq Sent
  /\ IsFiniteSet(Sent)
  /\ \A p \in TimedOut : Beyond(p)
  /\ callbackCounter.success = Cardinality(Succeeded)
  /\ callbackCounter.error = Cardinality(Failed)
  /\ callbackCounter.timeout = Cardinality(TimedOut)

LEMMA SentMember ==
  \A p : p \in Sent <=> \E c \in ChannelIds : \E i \in DOMAIN packets[c] : p = <<c, i>>
  BY DEF Sent

LEMMA AccountingInit == Init => AccountingInv
  <1> SUFFICES ASSUME Init PROVE AccountingInv
    OBVIOUS
  <1>1. TypeOK
    BY TypeInit
  <1>2. Sent = {}
    <2>1. \A c \in ChannelIds : packets[c] = << >>
      BY DEF Init, NetworkInit
    <2> QED
      BY <2>1, SentMember
  <1>3. Settled = {} /\ Succeeded = {} /\ Failed = {} /\ TimedOut = {}
    BY <1>2 DEF Settled, Succeeded, Failed, TimedOut
  <1>4. /\ committed = {}
        /\ callbackCounter = [success |-> 0, error |-> 0, timeout |-> 0]
    BY DEF Init, NetworkInit, Instantiate
  <1> QED
    BY <1>1, <1>2, <1>3, <1>4, FS_EmptySet DEF AccountingInv

\* What no step takes back: the time, and that the host's end is closed.
LEMMA HostClosedStays ==
  ASSUME TypeOK, [Next]_vars
  PROVE  /\ now \in Nat /\ now' \in Nat /\ now <= now'
         /\ \A c \in ChannelIds : HostEndIs(c, "CLOSED") => HostEndIs(c, "CLOSED")'
  <1> USE DEF networkVars, coreVars, hostVars
  <1>1. /\ now \in Nat /\ now' \in Nat
        /\ UNCHANGED now \/ NewBlockTime
    <2>0. TypeOK'
      BY TypeStep
    <2>1. now \in Nat /\ now' \in Nat
      BY <2>0, NetworkAssumption, PacketAssumption DEF TypeOK, NetworkTypeOK
    <2>2. ASSUME UserStep PROVE UNCHANGED now
      BY <2>2 DEF UserStep, ExecuteSendCustomIcaMessages, ExecuteIcaBankSend
    <2>3. ASSUME NEW c \in ChannelIds, HandshakeStep(c) PROVE UNCHANGED now
      BY <2>3 DEF HandshakeStep, ChanOpenInit, ChanOpenTry, ChanOpenAck, ChanOpenConfirm,
                  ChanCloseConfirm, HostCloses, HostCloseInit, HostCloseConfirm
    <2>4. ASSUME NEW c \in ChannelIds, PacketStep(c) PROVE UNCHANGED now
      BY <2>4 DEF PacketStep, RecvPacket, AcknowledgePacket, TimeoutPacket
    <2> QED
      BY <2>1, <2>2, <2>3, <2>4 DEF Next, vars
  <1>2. now <= now'
    BY <1>1 DEF NewBlockTime, Tick
  <1>3. ASSUME NEW c \in ChannelIds, ChanOpenTry(c)
        PROVE  \A d \in ChannelIds : HostEndIs(d, "CLOSED") => HostEndIs(d, "CLOSED")'
    <2>1. hostEnds[c] = None
      BY <1>3 DEF ChanOpenTry, HostChanOpenTry
    <2> QED
      BY <1>3, <2>1, OpenTryEffect DEF TypeOK, ChanOpenTry, HostEndIs
  <1>4. ASSUME NEW c \in ChannelIds, ChanOpenConfirm(c) \/ HostCloses(c)
        PROVE  \A d \in ChannelIds : HostEndIs(d, "CLOSED") => HostEndIs(d, "CLOSED")'
    <2>1. hostEnds[c] # None /\ hostEnds[c].state # "CLOSED"
      BY <1>4 DEF ChanOpenConfirm, HostCloses, HostCloseInit, HostCloseConfirm,
        HostChanOpenConfirm, HostChanCloseInit, HostChanCloseConfirm, HostEndIs
    <2>2. \A d \in ChannelIds : d # c => hostEnds'[d] = hostEnds[d]
      BY <1>4, <2>1, HostStateEffect
      DEF TypeOK, ChanOpenConfirm, HostCloses, HostCloseInit, HostCloseConfirm, HostChanOpenConfirm,
        HostChanCloseInit, HostChanCloseConfirm
    <2> QED
      BY <2>1, <2>2 DEF HostEndIs
  <1> QED
    BY <1>1, <1>2, <1>3, <1>4, HostEndsChange DEF HostEndIs

\* Beyond execution for ever.
LEMMA BeyondStays ==
  ASSUME TypeOK, [Next]_vars, NEW p \in Sent, Beyond(p),
         packets'[p[1]][p[2]] = packets[p[1]][p[2]]
  PROVE  Beyond(p)'
  <1>0. PICK c \in ChannelIds : \E i \in DOMAIN packets[c] : p = <<c, i>>
    BY SentMember
  <1>1. PICK i \in DOMAIN packets[c] : p = <<c, i>>
    BY <1>0
  <1>2. packets[c] \in Seq(Packets)
    BY DEF TypeOK, NetworkTypeOK
  <1>3. packets[c][i] \in Packets
    BY <1>2
  <1>4. packets[c][i].timeout \in Nat
    BY <1>3, PacketAssumption DEF Packets
  <1> QED
    BY <1>1, <1>4, HostClosedStays DEF Beyond

\* A step that settles nothing and leaves the answers to what is settled alone.
SettlesNothing ==
  /\ Settled' = Settled
  /\ committed' \subseteq Sent'
  /\ IsFiniteSet(Sent')
  /\ UNCHANGED callbackCounter
  /\ \A p \in Settled : /\ Executed(p)' <=> Executed(p)
                        /\ Executed(p) => acks'[p[1]][p[2]] = acks[p[1]][p[2]]
                        /\ packets'[p[1]][p[2]] = packets[p[1]][p[2]]

LEMMA NothingSettled ==
  ASSUME AccountingInv, [Next]_vars, SettlesNothing
  PROVE  AccountingInv'
  <1> USE DEF SettlesNothing
  <1>1. TypeOK /\ TypeOK'
    BY TypeStep DEF AccountingInv
  <1>2. Succeeded' = Succeeded /\ Failed' = Failed /\ TimedOut' = TimedOut
    BY DEF Succeeded, Failed, TimedOut
  <1>3. \A p \in TimedOut : Beyond(p)'
    <2> SUFFICES ASSUME NEW p \in TimedOut PROVE Beyond(p)'
      OBVIOUS
    <2>1. p \in Settled /\ p \in Sent /\ Beyond(p)
      BY DEF AccountingInv, TimedOut, Settled
    <2> QED
      BY <1>1, <2>1, BeyondStays
  <1> QED
    BY <1>1, <1>2, <1>3 DEF AccountingInv

\* A step that settles one packet more, and counts it in one of the counters.
LEMMA OneSettled ==
  ASSUME AccountingInv, [Next]_vars, UNCHANGED <<packets, acks>>,
         NEW p \in committed, committed' = committed \ {p},
         \/ Executed(p) /\ acks[p[1]][p[2]] = "result" /\ Success
         \/ Executed(p) /\ acks[p[1]][p[2]] = "error" /\ Error
         \/ ~Executed(p) /\ Beyond(p) /\ Timeout
  PROVE  AccountingInv'
  <1>1. TypeOK /\ TypeOK'
    BY TypeStep DEF AccountingInv
  <1>2. p \in Sent /\ p \notin Settled
    BY DEF AccountingInv, Settled
  <1>3. Sent' = Sent /\ Settled' = Settled \cup {p}
    BY <1>2 DEF Sent, Settled
  <1>4. \A q : Executed(q)' <=> Executed(q)
    BY DEF Executed
  <1>5. /\ Succeeded' = Succeeded \cup
             {q \in {p} : Executed(q) /\ acks[q[1]][q[2]] = "result"}
        /\ Failed' = Failed \cup {q \in {p} : Executed(q) /\ acks[q[1]][q[2]] = "error"}
        /\ TimedOut' = TimedOut \cup {q \in {p} : ~Executed(q)}
    BY <1>3, <1>4 DEF Succeeded, Failed, TimedOut
  <1>6. p \notin Succeeded /\ p \notin Failed /\ p \notin TimedOut
    BY <1>2 DEF Succeeded, Failed, TimedOut
  <1>7. /\ IsFiniteSet(Sent')
        /\ IsFiniteSet(Succeeded) /\ IsFiniteSet(Failed) /\ IsFiniteSet(TimedOut)
    <2>1. IsFiniteSet(Sent)
      BY DEF AccountingInv
    <2>2. Succeeded \subseteq Sent /\ Failed \subseteq Sent /\ TimedOut \subseteq Sent
      BY DEF Succeeded, Failed, TimedOut, Settled
    <2> QED
      BY <1>3, <2>1, <2>2, FS_Subset
  <1>8. /\ Cardinality(Succeeded \cup {p}) = Cardinality(Succeeded) + 1
        /\ Cardinality(Failed \cup {p}) = Cardinality(Failed) + 1
        /\ Cardinality(TimedOut \cup {p}) = Cardinality(TimedOut) + 1
    BY <1>6, <1>7, FS_AddElement
  <1>9. \A q \in TimedOut' : Beyond(q)'
    <2> SUFFICES ASSUME NEW q \in TimedOut' PROVE Beyond(q)'
      OBVIOUS
    <2>1. q \in Sent /\ Beyond(q)
      BY <1>2, <1>4, <1>5 DEF AccountingInv, TimedOut, Settled
    <2> QED
      BY <1>1, <2>1, BeyondStays
  <1>10. /\ callbackCounter'.success = Cardinality(Succeeded')
         /\ callbackCounter'.error = Cardinality(Failed')
         /\ callbackCounter'.timeout = Cardinality(TimedOut')
    <2>0. callbackCounter \in CallbackCounters
      BY <1>1 DEF TypeOK, ControllerTypeOK
    <2>00. /\ callbackCounter.success = Cardinality(Succeeded)
           /\ callbackCounter.error = Cardinality(Failed)
           /\ callbackCounter.timeout = Cardinality(TimedOut)
      BY DEF AccountingInv
    <2>1. CASE Executed(p) /\ acks[p[1]][p[2]] = "result" /\ Success
      <3>1. Succeeded' = Succeeded \cup {p} /\ Failed' = Failed /\ TimedOut' = TimedOut
        BY <1>5, <2>1
      <3> QED
        BY <1>8, <2>0, <2>00, <2>1, <3>1 DEF Success
    <2>2. CASE Executed(p) /\ acks[p[1]][p[2]] = "error" /\ Error
      <3>1. Succeeded' = Succeeded /\ Failed' = Failed \cup {p} /\ TimedOut' = TimedOut
        BY <1>5, <2>2
      <3> QED
        BY <1>8, <2>0, <2>00, <2>2, <3>1 DEF Error
    <2>3. CASE ~Executed(p) /\ Timeout
      <3>1. Succeeded' = Succeeded /\ Failed' = Failed /\ TimedOut' = TimedOut \cup {p}
        BY <1>5, <2>3
      <3> QED
        BY <1>8, <2>0, <2>00, <2>3, <3>1 DEF Timeout
    <2> QED
      BY <2>1, <2>2, <2>3
  <1>11. committed' \subseteq Sent'
    BY <1>3 DEF AccountingInv
  <1> QED
    BY <1>1, <1>7, <1>9, <1>10, <1>11 DEF AccountingInv

\* A packet just sent is waited for, and is none of those settled.
LEMMA SendSettlesNothing ==
  ASSUME AccountingInv, [Next]_vars, NEW msg, msg.channel_id \in ChannelIds,
         CoreSendPacket(msg), UNCHANGED <<acks, callbackCounter>>
  PROVE  SettlesNothing
  <1> DEFINE c == msg.channel_id
             n == Len(packets[c]) + 1
  <1>1. /\ packets \in [ChannelIds -> Seq(Packets)]
        /\ packets' = [packets EXCEPT ![c] = Append(@, msg.packet)]
        /\ committed' = committed \cup {<<c, n>>}
    BY DEF AccountingInv, TypeOK, NetworkTypeOK, CoreSendPacket
  <1>2. packets'[c] = Append(packets[c], msg.packet) /\ packets[c] \in Seq(Packets)
    BY <1>1
  <1>3. /\ DOMAIN packets'[c] = DOMAIN packets[c] \cup {n}
        /\ n \notin DOMAIN packets[c]
        /\ \A i \in DOMAIN packets[c] : packets'[c][i] = packets[c][i]
    BY <1>2
  <1>4. \A d \in ChannelIds : d # c => packets'[d] = packets[d]
    BY <1>1
  <1> HIDE DEF n
  <1>5. \A p : p \in Sent' <=> \E d \in ChannelIds : \E i \in DOMAIN packets'[d] : p = <<d, i>>
    BY DEF Sent
  <1>6. Sent' = Sent \cup {<<c, n>>} /\ <<c, n>> \notin Sent
    <2>1. \A p \in Sent : p \in Sent'
      BY <1>3, <1>4, <1>5, SentMember
    <2>2. <<c, n>> \in Sent'
      BY <1>3, <1>5
    <2>3. \A p \in Sent' : p \in Sent \/ p = <<c, n>>
      BY <1>3, <1>4, <1>5, SentMember
    <2>4. <<c, n>> \notin Sent
      BY <1>3, SentMember
    <2> QED
      BY <2>1, <2>2, <2>3, <2>4
  <1>7. Settled' = Settled /\ committed' \subseteq Sent'
    BY <1>1, <1>6 DEF Settled, AccountingInv
  <1>8. \A p \in Sent : packets'[p[1]][p[2]] = packets[p[1]][p[2]]
    BY <1>3, <1>4, SentMember
  <1>9. \A p : Executed(p)' <=> Executed(p)
    BY DEF Executed
  <1>10. IsFiniteSet(Sent')
    BY <1>6, FS_AddElement DEF AccountingInv
  <1> QED
    BY <1>7, <1>8, <1>9, <1>10 DEF SettlesNothing, Settled

\* The packet the host executes is not settled: it is not beyond execution.
LEMMA RecvSettlesNothing ==
  ASSUME AccountingInv, [Next]_vars, NEW c \in ChannelIds, RecvPacket(c)
  PROVE  SettlesNothing
  <1> USE DEF contractVars, coreVars
  <1> DEFINE n == Len(acks[c]) + 1
  <1>1. /\ acks \in [ChannelIds -> Seq(Acknowledgements)]
        /\ HostEndIs(c, "OPEN")
        /\ now < packets[c][n].timeout
        /\ UNCHANGED <<packets, committed, callbackCounter, now>>
    BY DEF AccountingInv, TypeOK, NetworkTypeOK, RecvPacket, HostRecvPacket
  <1>2. PICK a \in HostAcks : acks' = [acks EXCEPT ![c] = Append(@, a)]
    BY DEF RecvPacket, HostRecvPacket
  <1>3. acks'[c] = Append(acks[c], a) /\ acks[c] \in Seq(Acknowledgements)
    BY <1>1, <1>2
  <1>4. /\ DOMAIN acks'[c] = DOMAIN acks[c] \cup {n}
        /\ n \notin DOMAIN acks[c]
        /\ \A i \in DOMAIN acks[c] : acks'[c][i] = acks[c][i]
    <2>1. a \in Acknowledgements
      BY NetworkAssumption
    <2> QED
      BY <1>3, <2>1
  <1>5. \A d \in ChannelIds : d # c => acks'[d] = acks[d]
    BY <1>1, <1>2
  <1>6. <<c, n>> \notin Settled
    <2> SUFFICES ASSUME <<c, n>> \in Settled PROVE FALSE
      OBVIOUS
    <2>1. <<c, n>> \in TimedOut
      BY <1>4 DEF TimedOut, Executed
    <2>2. Beyond(<<c, n>>)
      BY <2>1 DEF AccountingInv
    <2>3. packets[c] \in Seq(Packets) /\ n \in DOMAIN packets[c]
      BY DEF AccountingInv, TypeOK, NetworkTypeOK, RecvPacket, HostRecvPacket
    <2>4. packets[c][n] \in Packets
      BY <2>3
    <2>5. packets[c][n].timeout \in Nat /\ now \in Nat
      BY <2>4, HostClosedStays, PacketAssumption DEF AccountingInv, Packets
    <2> QED
      BY <1>1, <2>2, <2>5 DEF Beyond, HostEndIs
  <1> HIDE DEF n
  <1>7. \A p \in Settled : /\ Executed(p)' <=> Executed(p)
                           /\ Executed(p) => acks'[p[1]][p[2]] = acks[p[1]][p[2]]
    <2> SUFFICES ASSUME NEW p \in Settled
                 PROVE  /\ Executed(p)' <=> Executed(p)
                        /\ Executed(p) => acks'[p[1]][p[2]] = acks[p[1]][p[2]]
      OBVIOUS
    <2>0. PICK d \in ChannelIds : \E i \in DOMAIN packets[d] : p = <<d, i>>
      BY SentMember DEF Settled
    <2>1. PICK i \in DOMAIN packets[d] : p = <<d, i>>
      BY <2>0
    <2>2. d = c => i # n
      BY <1>6, <2>1
    <2> QED
      BY <1>4, <1>5, <2>1, <2>2 DEF Executed
  <1>8. Sent' = Sent /\ Settled' = Settled /\ committed' \subseteq Sent'
    BY <1>1 DEF Sent, Settled, AccountingInv
  <1> QED
    BY <1>1, <1>7, <1>8 DEF SettlesNothing, AccountingInv

\* The only steps that settle a packet are the two that call the contract
\* back about one.
LEMMA OthersSettleNothing ==
  ASSUME AccountingInv, [Next]_vars,
         \/ UserStep
         \/ \E c \in ChannelIds : HandshakeStep(c) \/ RecvPacket(c)
         \/ NewBlockTime
         \/ UNCHANGED vars
  PROVE  SettlesNothing
  <1> USE DEF contractVars, networkVars, coreVars, hostVars
  <1>0. TypeOK
    BY DEF AccountingInv
  <1>1. ASSUME NEW sender \in Users, NEW messages \in CustomMessages,
               NEW t \in TimeoutChoices, ExecuteSendCustomIcaMessages(sender, messages, t)
        PROVE  SettlesNothing
    BY <1>0, <1>1, CustomMsgType, SendSettlesNothing
    DEF ExecuteSendCustomIcaMessages, SendCustomIcaMessages
  <1>2. ASSUME NEW sender \in Users, NEW amount \in Amounts,
               ExecuteIcaBankSend(sender, amount)
        PROVE  SettlesNothing
    BY <1>0, <1>2, BankSendMsgType, SendSettlesNothing DEF ExecuteIcaBankSend, IcaBankSend
  <1>3. ASSUME NEW c \in ChannelIds, RecvPacket(c) PROVE SettlesNothing
    BY <1>3, RecvSettlesNothing
  <1>4. ASSUME UNCHANGED <<packets, acks, committed, callbackCounter>> PROVE SettlesNothing
    <2>1. Sent' = Sent /\ Settled' = Settled /\ committed' \subseteq Sent'
      BY <1>4 DEF Sent, Settled, AccountingInv
    <2>2. \A p : Executed(p)' <=> Executed(p)
      BY <1>4 DEF Executed
    <2> QED
      BY <1>4, <2>1, <2>2 DEF SettlesNothing, AccountingInv
  <1>5. ASSUME NEW c \in ChannelIds, HandshakeStep(c)
        PROVE  UNCHANGED <<packets, acks, committed, callbackCounter>>
    BY <1>5 DEF HandshakeStep, ChanOpenInit, ChanOpenTry, ChanOpenAck, ChanOpenConfirm,
                ChanCloseConfirm, HostCloses, HostCloseInit, HostCloseConfirm,
                CoreChanOpenInit, CoreChanOpenAck, CoreChanCloseConfirm, HostChanOpenTry,
                HostChanOpenConfirm, HostChanCloseInit, HostChanCloseConfirm, OpenInit,
                OnAcknowledgement, CloseConfirm
  <1>6. ASSUME NewBlockTime \/ UNCHANGED vars
        PROVE  UNCHANGED <<packets, acks, committed, callbackCounter>>
    BY <1>6 DEF NewBlockTime, vars
  <1> QED
    BY <1>1, <1>2, <1>3, <1>4, <1>5, <1>6 DEF UserStep

LEMMA AccountingStep == AccountingInv /\ [Next]_vars => AccountingInv'
  <1> SUFFICES ASSUME AccountingInv, [Next]_vars PROVE AccountingInv'
    OBVIOUS
  <1> USE DEF contractVars, coreVars, hostVars
  <1>0. TypeOK
    BY DEF AccountingInv
  <1>1. ASSUME NEW c \in ChannelIds, NEW i \in DOMAIN packets[c], AcknowledgePacket(c, i)
        PROVE  AccountingInv'
    <2> DEFINE p == <<c, i>>
    <2>1. /\ p \in committed /\ committed' = committed \ {p}
          /\ Executed(p)
          /\ UNCHANGED <<packets, acks>>
      BY <1>1 DEF AcknowledgePacket, CoreAcknowledgePacket, Executed
    <2>2. \/ acks[p[1]][p[2]] = "result" /\ Success
          \/ acks[p[1]][p[2]] = "error" /\ Error
      BY <1>1 DEF AcknowledgePacket, IbcPacketAck, AckSuccess, AckError
    <2> QED
      BY <2>1, <2>2, OneSettled
  <1>2. ASSUME NEW c \in ChannelIds, NEW i \in DOMAIN packets[c], TimeoutPacket(c, i)
        PROVE  AccountingInv'
    <2> DEFINE p == <<c, i>>
    <2>1. /\ p \in committed /\ committed' = committed \ {p}
          /\ Beyond(p)
          /\ UNCHANGED <<packets, acks>>
          /\ Timeout
      BY <1>2 DEF TimeoutPacket, CoreTimeoutPacket, IbcPacketTimeout, Beyond
    <2>2. ~Executed(p)
      <3>1. i > Len(acks[c]) /\ acks[c] \in Seq(Acknowledgements)
        BY <1>0, <1>2 DEF TimeoutPacket, CoreTimeoutPacket, TypeOK, NetworkTypeOK
      <3>2. packets[c] \in Seq(Packets)
        BY <1>0 DEF TypeOK, NetworkTypeOK
      <3> QED
        BY <3>1, <3>2 DEF Executed
    <2> QED
      BY <2>1, <2>2, OneSettled
  <1> QED
    BY <1>1, <1>2, OthersSettleNothing, NothingSettled DEF Next, PacketStep

\* Every packet the core no longer waits for has been counted exactly once by
\* ibc_packet_ack or ibc_packet_timeout, in the counter of what became of it,
\* whichever channels the packets and the callbacks were on.
THEOREM CallbacksAccounted == Spec => []CallbackAccounting
  <1>1. AccountingInv => CallbackAccounting
    BY DEF AccountingInv, CallbackAccounting, Succeeded, Failed, TimedOut
  <1> QED
    BY <1>1, AccountingInit, AccountingStep, PTL DEF Spec

==============================================================================
