--------------------------- MODULE IcaClient_proofs ---------------------------
(***************************************************************************)
(* What the client sends can be executed, for every value of the           *)
(* constants.                                                              *)
(***************************************************************************)
EXTENDS IcaClient, IcaSystem_proofs

(***************************************************************************)
(* The encoding: what the contract or the client writes, the host reads.   *)
(***************************************************************************)

\* The object of each variant has the tag of a message the host knows and, in
\* the field the host takes for the signer's, the account.
LEMMA JsonOfMessage ==
  ASSUME NEW variant \in DOMAIN AccountField, NEW account
  PROVE  JsonSignedBy(MessageToString([variant |-> variant, account |-> account]), account)
  <1> DEFINE message == [variant |-> variant, account |-> account]
             object == MessageToString(message)
             signer == <<TypeUrl[variant], AccountField[variant]>>
  <1>1. variant \in {"MsgSend", "MsgDelegate", "MsgVote", "MsgSubmitProposalLegacy",
                     "MsgDeposit", "MsgTransfer"}
    BY DEF AccountField
  <1>2. signer \in Signers
    BY <1>1 DEF Signers, TypeUrl, AccountField
  <1>3. AccountField[variant] # "@type" /\ AccountField[variant] # "content"
    BY <1>1 DEF AccountField
  <1>4. /\ DOMAIN object = KeysOf(variant)
        /\ object["@type"] = TypeUrl[variant]
        /\ object[AccountField[variant]] = account
    BY <1>3 DEF MessageToString, KeysOf
  <1>5. "content" \in DOMAIN object => object["content"]["@type"] = TypeUrl["TextProposal"]
    BY <1>3, <1>4 DEF MessageToString
  <1>6. TypeUrl["TextProposal"] \in Contents
    BY DEF TypeUrl, Contents
  <1>7. AccountField[variant] \in DOMAIN object
    BY <1>4 DEF KeysOf
  <1> HIDE DEF object
  <1>8. JsonSignedBy(object, account)
    BY <1>2, <1>4, <1>5, <1>6, <1>7 DEF JsonSignedBy
  <1> QED
    BY <1>8 DEF object

\* In either encoding.
LEMMA EncodedIsExecutable ==
  ASSUME NEW encoding \in TxEncodings, NEW variant \in DOMAIN AccountField, NEW account
  PROVE  Executable(PacketData(encoding, << [variant |-> variant, account |-> account] >>),
                    encoding, account)
  <1> DEFINE message == [variant |-> variant, account |-> account]
             data == PacketData(encoding, << message >>)
  <1>1. CASE encoding = "proto3json"
    <2>1. data.form = "json" /\ DOMAIN data.messages = {1}
          /\ data.messages[1] = MessageToString(message)
      BY <1>1 DEF PacketData, FromJsonStrings
    <2> QED
      BY <1>1, <2>1, JsonOfMessage DEF Executable
  <1>2. CASE encoding = "proto3"
    <2>1. data.form = "CosmosTx" /\ DOMAIN data.messages = {1}
          /\ data.messages[1] = [type_url |-> TypeUrl[variant], account |-> account]
      BY <1>2 DEF PacketData, FromProtoAnys, ToAny
    <2>2. variant \in {"MsgSend", "MsgDelegate", "MsgVote", "MsgSubmitProposalLegacy",
                       "MsgDeposit", "MsgTransfer"}
      BY DEF AccountField
    <2>3. <<TypeUrl[variant], AccountField[variant]>> \in Signers
      BY <2>2 DEF Signers, TypeUrl, AccountField
    <2>4. AnySignedBy(data.messages[1], account)
      BY <2>1, <2>3 DEF AnySignedBy
    <2> QED
      BY <1>2, <2>1, <2>4 DEF Executable
  <1> QED
    BY <1>1, <1>2 DEF TxEncodings

(***************************************************************************)
(* The client takes no step the system does not.                           *)
(***************************************************************************)

ViewTypeOK ==
  /\ view \in [QueryMsgs -> ContractStates \cup ChannelStates \cup CallbackCounters \cup {None}]
  /\ view["GetContractState"] \in ContractStates \cup {None}

LEMMA ClientSendIsExecute ==
  ASSUME ViewTypeOK, NEW sender \in Users, NEW variant \in Variants,
         ClientSend(sender, variant)
  PROVE  LET info == view["GetContractState"].ica_info
             message == [variant |-> variant, account |-> info.ica_address]
             data == PacketData(info.encoding, << message >>)
         IN  /\ view["GetContractState"] # None /\ info # None /\ info \in IcaInfos
             /\ variant \in DOMAIN AccountField
             /\ data \in CustomMessages
             /\ None \in TimeoutChoices
             /\ ExecuteSendCustomIcaMessages(sender, data, None)
  <1> DEFINE info == view["GetContractState"].ica_info
             message == [variant |-> variant, account |-> info.ica_address]
             data == PacketData(info.encoding, << message >>)
  <1>1. /\ view["GetContractState"] # None /\ info # None
        /\ ExecuteSendCustomIcaMessages(sender, data, None)
    BY DEF ClientSend
  <1>2. info \in IcaInfos
    BY <1>1 DEF ViewTypeOK, ContractStates
  <1>3. message \in ExampleCosmosMessages /\ info.encoding \in TxEncodings
    BY <1>2, ClientAssumption DEF ExampleCosmosMessages, IcaInfos
  <1>4. data \in CustomMessages /\ variant \in DOMAIN AccountField /\ None \in TimeoutChoices
    BY <1>3, ClientAssumption
  <1> QED
    BY <1>1, <1>2, <1>4

LEMMA ClientStepIsStep ==
  ASSUME ViewTypeOK, [ClientNext]_clientVars
  PROVE  [Next]_vars
  <1>1. ASSUME NEW sender \in Users, NEW variant \in Variants, ClientSend(sender, variant)
        PROVE  Next
    BY <1>1, ClientSendIsExecute DEF Next, UserStep
  <1>2. ASSUME NEW sender \in Users, NEW amount \in Amounts, ClientBankSend(sender, amount)
        PROVE  Next
    BY <1>2 DEF ClientBankSend, Next, UserStep
  <1>3. ASSUME SystemStep PROVE Next
    BY <1>3 DEF SystemStep, Next
  <1>4. ASSUME NEW msg \in QueryMsgs, ClientQuery(msg) PROVE UNCHANGED vars
    BY <1>4 DEF ClientQuery
  <1> QED
    BY <1>1, <1>2, <1>3, <1>4 DEF ClientNext, clientVars

LEMMA ViewTypeInit == ClientInit => ViewTypeOK
  BY DEF ClientInit, ViewTypeOK, QueryMsgs

\* The view changes only by an answer to a query.
LEMMA ViewChange ==
  ASSUME [ClientNext]_clientVars
  PROVE  UNCHANGED view \/ \E msg \in QueryMsgs : ClientQuery(msg)
  BY DEF ClientNext, clientVars, ClientSend, ClientBankSend, SystemStep

LEMMA ViewTypeStep ==
  ASSUME TypeOK, ViewTypeOK, [ClientNext]_clientVars
  PROVE  ViewTypeOK'
  <1>1. ASSUME NEW msg \in QueryMsgs, ClientQuery(msg) PROVE ViewTypeOK'
    <2>1. /\ contractState \in ContractStates
          /\ channelState \in ChannelStates \cup {None}
          /\ callbackCounter \in CallbackCounters
      BY DEF TypeOK, ControllerTypeOK
    <2>2. /\ Query(msg) \in ContractStates \cup ChannelStates \cup CallbackCounters \cup {None}
          /\ msg = "GetContractState" => Query(msg) \in ContractStates
      BY <2>1 DEF Query, QueryMsgs
    <2> QED
      BY <1>1, <2>2 DEF ClientQuery, ViewTypeOK, QueryMsgs
  <1> QED
    BY <1>1, ViewChange DEF ViewTypeOK

\* Whatever the client reads and sends, its behaviours are among those of the
\* system, so that what is proved of Spec holds of them.
THEOREM ClientImplementsSystem == ClientSpec => Spec
  <1>1. ClientInit => Init /\ TypeOK /\ ViewTypeOK
    BY TypeInit, ViewTypeInit DEF ClientInit
  <1>2. TypeOK /\ ViewTypeOK /\ [ClientNext]_clientVars => TypeOK' /\ ViewTypeOK' /\ [Next]_vars
    BY ClientStepIsStep, TypeStep, ViewTypeStep
  <1> QED
    BY <1>1, <1>2, PTL DEF ClientSpec, Spec

(***************************************************************************)
(* The host can execute every packet.                                      *)
(*                                                                         *)
(* Inductive are: what the client read of the account and the encoding is  *)
(* still what the contract has, however old (the account and the encoding  *)
(* never change once set); the host has an end of the channel the contract *)
(* sends on; and each packet is fit for the account and the encoding of    *)
(* the channel it was sent on, which its end keeps when it closes.         *)
(***************************************************************************)

ViewIdentity ==
  LET state == view["GetContractState"] IN
  state # None /\ state.ica_info # None =>
    /\ contractState.ica_info # None
    /\ state.ica_info.ica_address = contractState.ica_info.ica_address
    /\ state.ica_info.encoding = contractState.ica_info.encoding

SendsWhereHostIs ==
  contractState.ica_info # None => hostEnds[contractState.ica_info.channel_id] # None

\* Data for the account and in the encoding of the channel.
FitFor(c, data) ==
  /\ ends[c] # None /\ hostEnds[c] # None
  /\ Executable(data, ends[c].proposed.encoding, HostAccount[ConnectionOf(c)])

PacketsFit ==
  \A c \in ChannelIds : \A i \in DOMAIN packets[c] : FitFor(c, DataOf(packets[c][i]))

ClientInv ==
  /\ StableInv
  /\ ViewTypeOK
  /\ ViewIdentity
  /\ SendsWhereHostIs
  /\ PacketsFit

\* What is fit for a channel stays so.
LEMMA FitStays ==
  ASSUME TypeOK, [Next]_vars, NEW c \in ChannelIds, NEW data, FitFor(c, data)
  PROVE  FitFor(c, data)'
  <1>1. /\ ends'[c] # None
        /\ ends'[c].channel.connection_id = ends[c].channel.connection_id
        /\ ends'[c].proposed = ends[c].proposed
    BY EndsStep DEF EndsAdvance, FitFor
  <1>2. hostEnds'[c] # None
    BY AnswerStep DEF FitFor
  <1> QED
    BY <1>1, <1>2 DEF FitFor, ConnectionOf

LEMMA SendsWhereHostIsStep ==
  ASSUME StableInv, SendsWhereHostIs, [Next]_vars
  PROVE  SendsWhereHostIs'
  <1> USE DEF StableInv, OneHandshakeInv, IdentityInv
  <1>1. ASSUME NEW c \in ChannelIds, ChanOpenAck(c) PROVE SendsWhereHostIs'
    <2>1. ends[c] # None /\ hostEnds[c] # None /\ hostEnds' = hostEnds
      BY <1>1 DEF ChanOpenAck, CoreChanOpenAck, EndIs, HostEndIs, hostVars
    <2>2. PICK channel \in ShownAtAck(c) : OnAcknowledgement(channel, hostEnds[c].version)
      BY <1>1 DEF ChanOpenAck
    <2>3. channel.channel_id = c
      BY <2>1, <2>2, ShownAtAckFields DEF TypeOK, HandshakeRecords
    <2>4. contractState'.ica_info.channel_id = c
      BY <2>2, <2>3 DEF OnAcknowledgement, SetIcaInfo, TypeOK, ControllerTypeOK, ContractStates
    <2> QED
      BY <2>1, <2>4 DEF SendsWhereHostIs
  <1>2. CASE contractState' = contractState /\ contractState.ica_info # None
    <2>1. contractState.ica_info \in IcaInfos
      BY <1>2 DEF TypeOK, ControllerTypeOK, ContractStates
    <2>2. contractState.ica_info.channel_id \in ChannelIds
      BY <2>1 DEF IcaInfos
    <2> QED
      BY <1>2, <2>2, AnswerStep DEF SendsWhereHostIs
  <1>3. CASE contractState' = contractState /\ contractState.ica_info = None
    BY <1>3 DEF SendsWhereHostIs
  <1> QED
    BY <1>1, <1>2, <1>3, StoredChange

LEMMA ViewIdentityStep ==
  ASSUME StableInv, ViewTypeOK, ViewIdentity, [ClientNext]_clientVars
  PROVE  ViewIdentity'
  <1>1. ASSUME UNCHANGED view PROVE ViewIdentity'
    BY <1>1, ClientStepIsStep, KeptStep DEF ViewIdentity, IdentityKept
  <1>2. ASSUME NEW msg \in QueryMsgs, ClientQuery(msg) PROVE ViewIdentity'
    <2>1. UNCHANGED contractState /\ view' = [view EXCEPT ![msg] = Query(msg)]
      BY <1>2 DEF ClientQuery, vars, contractVars
    <2>2. view'["GetContractState"] = view["GetContractState"] \/
          view'["GetContractState"] = contractState
      BY <2>1 DEF Query, ViewTypeOK, QueryMsgs
    <2> QED
      BY <2>1, <2>2 DEF ViewIdentity
  <1> QED
    BY <1>1, <1>2, ViewChange

\* A send appends one packet; the others stay as they are.
LEMMA PacketsFitSend ==
  ASSUME TypeOK, PacketsFit, [Next]_vars, NEW msg, msg.channel_id \in ChannelIds,
         CoreSendPacket(msg), FitFor(msg.channel_id, DataOf(msg.packet))
  PROVE  PacketsFit'
  <1> DEFINE c == msg.channel_id
  <1>1. /\ packets[c] \in Seq(Packets)
        /\ packets \in [ChannelIds -> Seq(Packets)]
        /\ packets' = [packets EXCEPT ![c] = Append(@, msg.packet)]
    BY DEF TypeOK, NetworkTypeOK, CoreSendPacket
  <1>2. \A d \in ChannelIds : \A i \in DOMAIN packets'[d] :
          \/ i \in DOMAIN packets[d] /\ packets'[d][i] = packets[d][i]
          \/ d = c /\ packets'[d][i] = msg.packet
    BY <1>1
  <1> SUFFICES ASSUME NEW d \in ChannelIds, NEW i \in DOMAIN packets'[d],
                      NEW data, data = DataOf(packets'[d][i])
               PROVE  FitFor(d, data)'
    BY DEF PacketsFit, DataOf, FitFor, ConnectionOf
  <1>3. FitFor(d, data)
    BY <1>2 DEF PacketsFit
  <1> QED
    BY <1>3, FitStays

\* Whom and how a send on the stored channel must be for.
LEMMA SendFits ==
  ASSUME StableInv, SendsWhereHostIs, contractState.ica_info # None,
         NEW variant \in DOMAIN AccountField
  PROVE  LET info == contractState.ica_info
             message == [variant |-> variant, account |-> info.ica_address]
         IN FitFor(info.channel_id, PacketData(info.encoding, << message >>))
  <1> DEFINE info == contractState.ica_info
             c == info.channel_id
             message == [variant |-> variant, account |-> info.ica_address]
  <1>1. info \in IcaInfos
    BY DEF StableInv, OneHandshakeInv, IdentityInv, TypeOK, ControllerTypeOK, ContractStates
  <1>2. c \in ChannelIds /\ info.encoding \in TxEncodings
    BY <1>1 DEF IcaInfos
  <1>3. /\ ends[c] # None
        /\ info.ica_address = HostAccount[ConnectionOf(c)]
        /\ info.encoding = ends[c].proposed.encoding
    BY DEF StableInv, OneHandshakeInv, IdentityInv, IcaInfoDescribesStoredChannel, EndIs
  <1>4. Executable(PacketData(info.encoding, << message >>), info.encoding, info.ica_address)
    BY <1>2, EncodedIsExecutable
  <1>5. hostEnds[c] # None
    BY DEF SendsWhereHostIs
  <1> QED
    BY <1>3, <1>4, <1>5 DEF FitFor

\* The client's messages, built from what it read at any earlier time.
LEMMA ClientSendFits ==
  ASSUME ClientInv, [Next]_vars, NEW sender \in Users, NEW variant \in Variants,
         ClientSend(sender, variant)
  PROVE  PacketsFit'
  <1> DEFINE read == view["GetContractState"].ica_info
             info == contractState.ica_info
             message == [variant |-> variant, account |-> read.ica_address]
             data == PacketData(read.encoding, << message >>)
             msg == CustomIcaMsg(data, now, None)
  <1> USE DEF ClientInv, StableInv, OneHandshakeInv, IdentityInv
  <1>1. /\ view["GetContractState"] # None /\ read # None
        /\ variant \in DOMAIN AccountField
        /\ data \in CustomMessages /\ None \in TimeoutChoices
        /\ ExecuteSendCustomIcaMessages(sender, data, None)
    BY ClientSendIsExecute
  <1>2. /\ info # None
        /\ read.ica_address = info.ica_address /\ read.encoding = info.encoding
    BY <1>1 DEF ViewIdentity
  <1>3. FitFor(info.channel_id, data)
    BY <1>1, <1>2, SendFits
  <1>4. SendCustomIcaMessages(sender, now, None) /\ CoreSendPacket(msg)
    BY <1>1 DEF ExecuteSendCustomIcaMessages
  <1> HIDE DEF data
  <1>5. /\ msg.channel_id = info.channel_id /\ msg.packet.data = data
        /\ msg.channel_id \in ChannelIds
    BY <1>1, <1>4, CustomMsgType
  <1>6. DataOf(msg.packet) = data
    BY <1>1, <1>5, PacketAssumption DEF DataOf
  <1> HIDE DEF msg
  <1> QED
    BY <1>3, <1>4, <1>5, <1>6, PacketsFitSend

\* The predefined message of the contract.
LEMMA BankSendFits ==
  ASSUME ClientInv, [Next]_vars, NEW sender \in Users, NEW amount \in Amounts,
         ExecuteIcaBankSend(sender, amount)
  PROVE  PacketsFit'
  <1> DEFINE info == contractState.ica_info
             msg == BankSendMsg(amount, now)
             send == [from_address |-> info.ica_address, encoding |-> info.encoding,
                      amount |-> amount]
             message == [variant |-> "MsgSend", account |-> info.ica_address]
  <1> USE DEF ClientInv, StableInv, OneHandshakeInv, IdentityInv
  <1>1. /\ info # None /\ IcaBankSend(sender, amount, now)
        /\ CoreSendPacket(msg)
    BY DEF ExecuteIcaBankSend, IcaBankSend
  <1>2. /\ info \in IcaInfos /\ msg.channel_id = info.channel_id
        /\ msg.channel_id \in ChannelIds /\ msg.packet.data = send
    BY <1>1, BankSendMsgType
  <1>3. "MsgSend" \in DOMAIN AccountField
    BY DEF AccountField
  <1>4. FitFor(info.channel_id, PacketData(info.encoding, << message >>))
    BY <1>1, <1>3, SendFits
  <1>5. send \in BankSends
    BY <1>2 DEF BankSends, IcaInfos
  <1>6. DataOf(msg.packet) = PacketData(info.encoding, << message >>)
    BY <1>2, <1>5 DEF DataOf, BankSendData
  <1> HIDE DEF msg
  <1> QED
    BY <1>1, <1>2, <1>4, <1>6, PacketsFitSend

LEMMA PacketsFitStep ==
  ASSUME ClientInv, [ClientNext]_clientVars
  PROVE  PacketsFit'
  <1> USE DEF networkVars, coreVars
  <1>0. [Next]_vars /\ TypeOK /\ PacketsFit
    BY ClientStepIsStep DEF ClientInv, StableInv, OneHandshakeInv, IdentityInv
  <1>1. ASSUME NEW sender \in Users, NEW variant \in Variants, ClientSend(sender, variant)
        PROVE  PacketsFit'
    BY <1>0, <1>1, ClientSendFits
  <1>2. ASSUME NEW sender \in Users, NEW amount \in Amounts, ClientBankSend(sender, amount)
        PROVE  PacketsFit'
    BY <1>0, <1>2, BankSendFits DEF ClientBankSend
  <1>3. ASSUME UNCHANGED packets PROVE PacketsFit'
    <2> SUFFICES ASSUME NEW c \in ChannelIds, NEW i \in DOMAIN packets[c],
                        NEW data, data = DataOf(packets[c][i])
                 PROVE  FitFor(c, data)'
      BY <1>3 DEF PacketsFit, DataOf, FitFor, ConnectionOf
    <2> QED
      BY <1>0, FitStays DEF PacketsFit
  <1>4. ASSUME NEW c \in ChannelIds, HandshakeStep(c) PROVE UNCHANGED packets
    BY <1>4 DEF HandshakeStep, ChanOpenInit, ChanOpenTry, ChanOpenAck, ChanOpenConfirm,
                ChanCloseConfirm, HostCloses, HostCloseInit, HostCloseConfirm,
                CoreChanOpenInit, CoreChanOpenAck, CoreChanCloseConfirm
  <1>5. ASSUME NEW c \in ChannelIds, PacketStep(c) PROVE UNCHANGED packets
    BY <1>5 DEF PacketStep, RecvPacket, AcknowledgePacket, TimeoutPacket,
                CoreAcknowledgePacket, CoreTimeoutPacket
  <1>6. ASSUME NewBlockTime \/ UNCHANGED vars PROVE UNCHANGED packets
    BY <1>6 DEF NewBlockTime, vars
  <1> QED
    BY <1>1, <1>2, <1>3, <1>4, <1>5, <1>6 DEF ClientNext, SystemStep, ClientQuery, clientVars

LEMMA ClientInitial == ClientInit => ClientInv
  <1> SUFFICES ASSUME ClientInit PROVE ClientInv
    OBVIOUS
  <1>1. StableInv /\ ViewTypeOK
    BY StableInit, ViewTypeInit DEF ClientInit
  <1>2. ViewIdentity
    BY DEF ClientInit, ViewIdentity, QueryMsgs
  <1>3. SendsWhereHostIs
    BY DEF ClientInit, Init, Instantiate, SendsWhereHostIs
  <1>4. PacketsFit
    BY DEF ClientInit, Init, NetworkInit, PacketsFit
  <1> QED
    BY <1>1, <1>2, <1>3, <1>4 DEF ClientInv

LEMMA ClientStep ==
  ASSUME ConcurrentHandshakes = FALSE
  PROVE  ClientInv /\ [ClientNext]_clientVars => ClientInv'
  <1> SUFFICES ASSUME ClientInv, [ClientNext]_clientVars PROVE ClientInv'
    OBVIOUS
  <1>1. [Next]_vars /\ StableInv /\ TypeOK
    BY ClientStepIsStep DEF ClientInv, StableInv, OneHandshakeInv, IdentityInv
  <1>2. StableInv'
    BY <1>1, StableStep
  <1>3. ViewTypeOK'
    BY <1>1, ViewTypeStep DEF ClientInv
  <1>4. ViewIdentity'
    BY ViewIdentityStep DEF ClientInv
  <1>5. SendsWhereHostIs'
    BY <1>1, SendsWhereHostIsStep DEF ClientInv
  <1>6. PacketsFit'
    BY PacketsFitStep
  <1> QED
    BY <1>2, <1>3, <1>4, <1>5, <1>6 DEF ClientInv

\* If handshakes come one at a time, the host can read every packet and finds
\* it signed by the account of its channel, however long ago the client read
\* the account and the encoding, and whatever closed and reopened in between.
THEOREM PacketsAreExecutable ==
  ASSUME ConcurrentHandshakes = FALSE
  PROVE  ClientSpec => []PacketsExecutable
  <1>1. ClientInv => PacketsExecutable
    BY DEF ClientInv, StableInv, OneHandshakeInv, IdentityInv, HandshakeRecords, PacketsFit, FitFor,
           PacketsExecutable
  <1>2. ClientInv /\ [ClientNext]_clientVars => ClientInv'
    BY ClientStep
  <1> QED
    BY <1>1, <1>2, ClientInitial, PTL DEF ClientSpec

==============================================================================
