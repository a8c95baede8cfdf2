------------------------- MODULE IcaRefinement_proofs -------------------------
(***************************************************************************)
(* The contract implements the sessions of IcaSession, for every value of  *)
(* the constants with which handshakes come one at a time and no packet of *)
(* a closed end times out.  Each handler maps to one step of the sessions  *)
(* or to a stutter.                                                        *)
(***************************************************************************)
EXTENDS IcaRefinement, IcaSystem_proofs

\* What a session shows: a live one is an open channel that is stored.
LEMMA SessionStates ==
  /\ session = "none" <=> channelState = None
  /\ session = "live" <=> channelState # None /\ IsOpen
  /\ session = "over" <=> channelState # None /\ ~IsOpen
  BY DEF session

\* While the core has an open end, that is the stored channel and a session is
\* live.
LEMMA OpenEndIsLive ==
  ASSUME MirrorInv, NEW c \in ChannelIds, EndIs(c, "OPEN")
  PROVE  session = "live"
  BY SessionStates DEF MirrorInv, StoredChannelMirrorsCore

LEMMA CounterNumbers ==
  ASSUME TypeOK
  PROVE  /\ callbackCounter \in CallbackCounters
         /\ callbackCounter.success \in Nat
         /\ callbackCounter.error \in Nat
         /\ callbackCounter.timeout \in Nat
  BY ControllerAssumption DEF TypeOK, ControllerTypeOK, CallbackCounters

LEMMA OneMoreCallback ==
  ASSUME TypeOK, Success \/ Error \/ Timeout
  PROVE  tally' = tally + 1
  <1> USE CounterNumbers DEF tally, CallbackCounters
  <1>1. CASE Success
    BY <1>1 DEF Success
  <1>2. CASE Error
    BY <1>2 DEF Error
  <1>3. CASE Timeout
    BY <1>3 DEF Timeout
  <1> QED
    BY <1>1, <1>2, <1>3

\* A close: the session is over, over the same account and the same channels.
LEMMA CloseEnds ==
  ASSUME MirrorInv, NEW c \in ChannelIds, EndIs(c, "OPEN"),
         ends' = [ends EXCEPT ![c].state = "CLOSED"],
         Close, UNCHANGED contractState, tally' \in {tally, tally + 1}
  PROVE  Session!End
  <1>1. session = "live" /\ channelState # None
    BY OpenEndIsLive, SessionStates
  <1>2. channelState' # None /\ ~IsOpen'
    <2>1. TypeOK /\ channelState \in ChannelStates
      BY <1>1 DEF MirrorInv, OneHandshakeInv, IdentityInv, TypeOK, ControllerTypeOK
    <2>2. channelState' # None
      BY <1>1, <2>1, CloseKeepsChannel
    <2>3. channelState'.channel_status = "STATE_CLOSED"
      BY <2>1 DEF Close, ChannelStates
    <2> QED
      BY <2>2, <2>3 DEF IsOpen
  <1>3. session' = "over"
    BY <1>2 DEF session
  <1>4. identity' = identity
    BY DEF identity
  <1>5. used' = used
    <2>1. /\ ends'[c] # None /\ ends'[c].state = "CLOSED"
          /\ \A d \in ChannelIds : d # c => ends'[d] = ends[d]
      BY CloseEffect DEF MirrorInv, OneHandshakeInv, IdentityInv, TypeOK, EndIs
    <2> QED
      BY <2>1 DEF used, EndIs
  <1> QED
    BY <1>1, <1>3, <1>4, <1>5 DEF Session!End

\* An acknowledged handshake begins a session, over the account of the last.
LEMMA OpenAckBegins ==
  ASSUME MirrorInv, StableInv, [Next]_vars, NEW c \in ChannelIds, ChanOpenAck(c)
  PROVE  Session!Begin
  <1> USE DEF MirrorInv, OneHandshakeInv, IdentityInv
  <1>1. EndIs(c, "INIT") /\ Pending(c)
    BY AckLeavesNonePending DEF Pending
  <1>2. session # "live"
    BY <1>1, SessionStates DEF PendingOnlyWhenClosed
  <1>3. TypeOK' /\ IdentityKept
    BY TypeStep, KeptStep
  <1>4. PICK channel \in ShownAtAck(c) : OnAcknowledgement(channel, hostEnds[c].version)
    BY DEF ChanOpenAck
  <1>5. contractState'.ica_info # None
    BY OpenAckStores
  <1>6. channelState' # None /\ IsOpen'
    <2>1. channelState' # None
      BY <1>5, IdentityStep DEF IcaInfoDescribesStoredChannel
    <2>2. channelState'.channel_status = "STATE_OPEN"
      BY <1>4 DEF OnAcknowledgement, NewOpenChannel
    <2> QED
      BY <2>1, <2>2 DEF IsOpen
  <1>7. session' = "live"
    BY <1>6 DEF session
  <1>8. \E d \in ChannelIds \ used : used' = used \cup {d}
    <2>1. c \notin used
      BY <1>1 DEF used, EndIs
    <2>2. /\ ends'[c] # None /\ ends'[c].state = "OPEN"
          /\ \A d \in ChannelIds : d # c => ends'[d] = ends[d]
      BY OpenAckEffect DEF TypeOK, ChanOpenAck
    <2>3. used' = used \cup {c}
      BY <2>2 DEF used, EndIs
    <2> QED
      BY <2>1, <2>3
  <1>9. IF session = "none"
        THEN identity' \in [ica_address : Addresses, encoding : TxEncodings]
        ELSE identity' = identity
    <2>1. CASE channelState = None
      <3>1. contractState'.ica_info \in IcaInfos
        BY <1>3, <1>5 DEF TypeOK, ControllerTypeOK, ContractStates
      <3>2. contractState'.ica_info.ica_address # NoAddress
        <4>1. contractState \in ContractStates
          BY DEF TypeOK, ControllerTypeOK
        <4>2. contractState'.ica_info.ica_address = hostEnds[c].version.address
          BY <1>4, <4>1 DEF OnAcknowledgement, SetIcaInfo, ContractStates
        <4> QED
          BY <1>4, <4>2 DEF OnAcknowledgement
      <3> QED
        BY <1>5, <2>1, <3>1, <3>2, SessionStates DEF identity, IcaInfos
    <2>2. CASE channelState # None
      <3>1. contractState.ica_info # None
        BY <2>2 DEF IcaInfoDescribesStoredChannel
      <3> QED
        BY <1>3, <1>5, <2>2, <3>1, SessionStates DEF identity, IdentityKept
    <2> QED
      BY <2>1, <2>2
  <1>10. tally' = tally
    BY <1>4 DEF OnAcknowledgement, tally
  <1> QED
    BY <1>2, <1>7, <1>8, <1>9, <1>10 DEF Session!Begin

\* The steps a session does not show.
LEMMA Stutter ==
  ASSUME UNCHANGED contractVars,
         \A c \in ChannelIds : EndIs(c, "OPEN")' \/ EndIs(c, "CLOSED")'
                                 <=> EndIs(c, "OPEN") \/ EndIs(c, "CLOSED")
  PROVE  UNCHANGED Session!vars
  BY DEF contractVars, session, identity, used, tally, IsOpen, Session!vars

LEMMA StepImplements ==
  ASSUME TimeoutClosedEnds = FALSE, MirrorInv, StableInv, [Next]_vars
  PROVE  [Session!Next]_(Session!vars)
  <1> USE DEF networkVars, coreVars, hostVars
  <1>0. TypeOK
    BY DEF MirrorInv, OneHandshakeInv, IdentityInv
  <1>1. ASSUME NEW c \in ChannelIds, ChanOpenAck(c) PROVE Session!Next
    BY <1>1, OpenAckBegins DEF Session!Next
  <1>2. ASSUME NEW c \in ChannelIds, ChanCloseConfirm(c) PROVE Session!Next
    <2>1. /\ EndIs(c, "OPEN") /\ ends' = [ends EXCEPT ![c].state = "CLOSED"]
          /\ Close /\ UNCHANGED <<contractState, callbackCounter>>
      BY <1>2 DEF ChanCloseConfirm, CoreChanCloseConfirm, CloseConfirm
    <2>2. tally' \in {tally, tally + 1}
      BY <2>1 DEF tally
    <2> QED
      BY <2>1, <2>2, CloseEnds DEF Session!Next
  <1>3. ASSUME NEW c \in ChannelIds, NEW i \in DOMAIN packets[c], TimeoutPacket(c, i)
        PROVE  Session!Next
    <2>1. /\ EndIs(c, "OPEN") /\ ends' = [ends EXCEPT ![c].state = "CLOSED"]
          /\ Close /\ UNCHANGED contractState /\ Timeout
      BY <1>3 DEF TimeoutPacket, CoreTimeoutPacket, IbcPacketTimeout
    <2>2. tally' \in {tally, tally + 1}
      BY <1>0, <2>1, OneMoreCallback
    <2> QED
      BY <2>1, <2>2, CloseEnds DEF Session!Next
  <1>4. ASSUME NEW c \in ChannelIds, NEW i \in DOMAIN packets[c], AcknowledgePacket(c, i)
        PROVE  Session!Next
    <2>1. /\ EndIs(c, "OPEN") /\ UNCHANGED <<ends, contractState, channelState>>
          /\ Success \/ Error
      BY <1>4 DEF AcknowledgePacket, CoreAcknowledgePacket, IbcPacketAck, AckSuccess, AckError
    <2>2. session = "live" /\ tally' = tally + 1
      BY <1>0, <2>1, OpenEndIsLive, OneMoreCallback
    <2>3. session' = session /\ identity' = identity /\ used' = used
      BY <2>1 DEF session, identity, used, IsOpen, EndIs
    <2> QED
      BY <2>2, <2>3 DEF Session!Next, Session!Callback
  <1>5. ASSUME NEW c \in ChannelIds, NEW p \in Proposals, NEW answer \in QueryAnswers(p),
               ChanOpenInit(c, p, answer)
        PROVE  UNCHANGED Session!vars
    <2>1. /\ UNCHANGED contractVars
          /\ ends[c] = None
          /\ \A d \in ChannelIds : d # c => ends'[d] = ends[d]
          /\ ends'[c] = None \/ ends'[c].state = "INIT"
      BY <1>0, <1>5 DEF ChanOpenInit, OpenInit, CoreChanOpenInit, TypeOK, NetworkTypeOK
    <2> QED
      BY <2>1, Stutter DEF EndIs
  <1>6. ASSUME UNCHANGED contractVars, UNCHANGED ends PROVE UNCHANGED Session!vars
    BY <1>6, Stutter DEF EndIs
  <1>7. ASSUME NEW c \in ChannelIds,
               ChanOpenTry(c) \/ ChanOpenConfirm(c) \/ HostCloses(c) \/ RecvPacket(c)
        PROVE  UNCHANGED Session!vars
    BY <1>6, <1>7 DEF ChanOpenTry, ChanOpenConfirm, HostCloses, HostCloseInit, HostCloseConfirm,
                      RecvPacket
  <1>8. ASSUME UserStep PROVE UNCHANGED Session!vars
    BY <1>6, <1>8 DEF UserStep, ExecuteSendCustomIcaMessages, ExecuteIcaBankSend,
                      SendCustomIcaMessages, IcaBankSend, CoreSendPacket
  <1>9. ASSUME NewBlockTime \/ UNCHANGED vars PROVE UNCHANGED Session!vars
    BY <1>6, <1>9 DEF NewBlockTime, vars
  <1> QED
    BY <1>1, <1>2, <1>3, <1>4, <1>5, <1>7, <1>8, <1>9 DEF Next, HandshakeStep, PacketStep

LEMMA InitImplements == Init => Session!Init
  <1> SUFFICES ASSUME Init PROVE Session!Init
    OBVIOUS
  <1>1. /\ channelState = None /\ contractState.ica_info = None
        /\ callbackCounter = [success |-> 0, error |-> 0, timeout |-> 0]
    BY DEF Init, Instantiate
  <1>2. used = {}
    BY DEF Init, NetworkInit, used, EndIs
  <1> QED
    BY <1>1, <1>2 DEF Session!Init, session, identity, tally

\* While handshakes come one at a time and the core lets no packet of a closed
\* end time out, the contract runs sessions one after the other, each over a
\* channel never used before and all over one account, and is called back only
\* during a session.
THEOREM ContractImplementsSession ==
  ASSUME ConcurrentHandshakes = FALSE, TimeoutClosedEnds = FALSE
  PROVE  Spec => ImplementsSession
  <1>1. MirrorInv /\ [Next]_vars => MirrorInv'
    BY MirrorStep
  <1>2. StableInv /\ [Next]_vars => StableInv'
    BY StableStep
  <1>3. MirrorInv /\ StableInv /\ [Next]_vars => [Session!Next]_(Session!vars)
    BY StepImplements
  <1> QED
    BY <1>1, <1>2, <1>3, MirrorInit, StableInit, InitImplements, PTL
    DEF Spec, ImplementsSession, Session!Spec

==============================================================================
