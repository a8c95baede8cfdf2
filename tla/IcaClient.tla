------------------------------ MODULE IcaClient -------------------------------
(***************************************************************************)
(* The admin's client: it reads the contract by its queries, builds custom *)
(* messages from what it read, and sends them in a later transaction.      *)
(* Between the two the channel may close and another may be opened; the    *)
(* contract passes the data on unseen (send_custom_ica_messages).  The     *)
(* client is not in the repository: it does what the comments of msg.rs    *)
(* and packet.rs ask of it.                                                *)
(***************************************************************************)
EXTENDS IcaSystem, IcaEncoding

CONSTANT Variants  \* the kinds of message the client sends

\* What it sends is among the messages of the system, and it leaves the timeout
\* to the contract.
ASSUME ClientAssumption ==
  /\ Variants \subseteq DOMAIN AccountField
  /\ \A encoding \in TxEncodings, message \in ExampleCosmosMessages :
       message.variant \in Variants => PacketData(encoding, << message >>) \in CustomMessages
  /\ None \in TimeoutChoices

VARIABLE view  \* the client's last answer to each query, None before the first

clientVars == <<vars, view>>

QueryMsgs == {"GetContractState", "GetChannel", "GetCallbackCounter"}

\* Each query loads one storage item; the load of a channel never saved fails.
Query(msg) ==
  CASE msg = "GetContractState" -> contractState
    [] msg = "GetChannel" -> channelState
    [] msg = "GetCallbackCounter" -> callbackCounter

\* Each query is answered at its own time.
ClientQuery(msg) ==
  /\ Query(msg) # None
  /\ view' = [view EXCEPT ![msg] = Query(msg)]
  /\ UNCHANGED vars

\* Messages for the account and in the encoding the client last read, once it
\* has read that a channel is open.
ClientSend(sender, variant) ==
  LET state == view["GetContractState"]
      channel == view["GetChannel"]
      info == state.ica_info
      messages == << [variant |-> variant, account |-> info.ica_address] >>
  IN
  /\ state # None /\ info # None
  /\ channel # None /\ channel.channel_status = "STATE_OPEN"
  /\ ExecuteSendCustomIcaMessages(sender, PacketData(info.encoding, messages), None)
  /\ UNCHANGED view

\* The predefined action needs no reading.
ClientBankSend(sender, amount) ==
  /\ ExecuteIcaBankSend(sender, amount)
  /\ UNCHANGED view

SystemStep ==
  /\ (\E c \in ChannelIds : HandshakeStep(c) \/ PacketStep(c)) \/ NewBlockTime
  /\ UNCHANGED view

ClientInit == Init /\ view = [msg \in QueryMsgs |-> None]

ClientNext ==
  \/ \E msg \in QueryMsgs : ClientQuery(msg)
  \/ \E sender \in Users :
       \/ \E variant \in Variants : ClientSend(sender, variant)
       \/ \E amount \in Amounts : ClientBankSend(sender, amount)
  \/ SystemStep

ClientSpec == ClientInit /\ [][ClientNext]_clientVars

-----------------------------------------------------------------------------

\* The bytes ica_bank_send puts in a packet.
BankSendData(send) ==
  PacketData(send.encoding, << [variant |-> "MsgSend", account |-> send.from_address] >>)

DataOf(packet) ==
  IF packet.data \in BankSends THEN BankSendData(packet.data) ELSE packet.data

\* While handshakes come one at a time, the host of every packet's channel can
\* read the packet and finds it signed by that channel's account, however old
\* or torn the reads were from which the client built it: the encoding and
\* the account outlive the channel (is_previous_version_equal), and no packet
\* leaves on a channel that has not got them.
PacketsExecutable ==
  \A c \in ChannelIds : \A i \in DOMAIN packets[c] :
    Executable(DataOf(packets[c][i]), hostEnds[c].version.encoding,
               hostEnds[c].version.address)

==============================================================================
