----------------------------- MODULE IcaEncoding ------------------------------
(***************************************************************************)
(* What is in the data of a packet (src/types/cosmos_msg.rs, the           *)
(* constructors of src/ibc/types/packet.rs) and what the host reads there. *)
(*                                                                         *)
(* Of a message's fields the one that names the interchain account is      *)
(* kept, and the content of a proposal; the others are carried along.  A   *)
(* JSON object is a function from its keys.                                *)
(***************************************************************************)
EXTENDS IcaPacket, Sequences

\* The tag each variant of ExampleCosmosMessages is serialized with.
TypeUrl ==
  [MsgSend                 |-> "/cosmos.bank.v1beta1.MsgSend",
   MsgDelegate             |-> "/cosmos.staking.v1beta1.MsgDelegate",
   MsgVote                 |-> "/cosmos.gov.v1beta1.MsgVote",
   MsgSubmitProposalLegacy |-> "/cosmos.gov.v1beta1.MsgSubmitProposal",
   TextProposal            |-> "/cosmos.gov.v1beta1.TextProposal",
   MsgDeposit              |-> "/cosmos.gov.v1beta1.MsgDeposit",
   MsgTransfer             |-> "/ibc.applications.transfer.v1.MsgTransfer"]

\* The field of each variant that names the account; a text proposal is only
\* ever the content of another message.
AccountField ==
  [MsgSend                 |-> "from_address",
   MsgDelegate             |-> "delegator_address",
   MsgVote                 |-> "voter",
   MsgSubmitProposalLegacy |-> "proposer",
   MsgDeposit              |-> "depositor",
   MsgTransfer             |-> "sender"]

ExampleCosmosMessages == [variant : DOMAIN AccountField, account : Addresses \cup {NoAddress}]

\* The keys of a serialized message that are kept.
KeysOf(variant) ==
  {"@type", AccountField[variant]} \cup
  (IF variant = "MsgSubmitProposalLegacy" THEN {"content"} ELSE {})

\* Mutant: the tag is the name of the variant, as without serde's rename.
MessageToStringUnrenamed(message) ==
  [key \in KeysOf(message.variant) |->
     CASE key = "@type" -> message.variant
       [] key = AccountField[message.variant] -> message.account
       [] key = "content" -> [tag \in {"@type"} |-> TypeUrl["TextProposal"]]]

\* Serialization with serde's internal tag.
MessageToString(message) ==
  [key \in KeysOf(message.variant) |->
     CASE key = "@type" -> TypeUrl[message.variant]
       [] key = AccountField[message.variant] -> message.account
       [] key = "content" -> [tag \in {"@type"} |-> TypeUrl["TextProposal"]]]

\* An Any: the type url and the fields in the order of their tags, of which
\* only MsgSend is ever built by the contract.
ToAny(message) ==
  [type_url |-> TypeUrl[message.variant], account |-> message.account]

FromJsonStrings(messages) == [form |-> "json", messages |-> messages]

FromProtoAnys(messages) == [form |-> "CosmosTx", messages |-> messages]

\* The data of messages for the host to execute, in the negotiated encoding.
PacketData(encoding, messages) ==
  CASE encoding = "proto3" ->
         FromProtoAnys([i \in DOMAIN messages |-> ToAny(messages[i])])
    [] encoding = "proto3json" ->
         FromJsonStrings([i \in DOMAIN messages |-> MessageToString(messages[i])])

-----------------------------------------------------------------------------
(* The host, after the message types of the Cosmos SDK *)

\* The message types the host has registered, each with the field that names
\* its signer.
Signers ==
  {<<"/cosmos.bank.v1beta1.MsgSend", "from_address">>,
   <<"/cosmos.staking.v1beta1.MsgDelegate", "delegator_address">>,
   <<"/cosmos.gov.v1beta1.MsgVote", "voter">>,
   <<"/cosmos.gov.v1beta1.MsgSubmitProposal", "proposer">>,
   <<"/cosmos.gov.v1beta1.MsgDeposit", "depositor">>,
   <<"/ibc.applications.transfer.v1.MsgTransfer", "sender">>}

Contents == {"/cosmos.gov.v1beta1.TextProposal"}

\* A JSON object the host can unpack, signed by the account.
JsonSignedBy(object, account) ==
  /\ \E signer \in Signers :
       /\ object["@type"] = signer[1]
       /\ signer[2] \in DOMAIN object /\ object[signer[2]] = account
  /\ "content" \in DOMAIN object => object["content"]["@type"] \in Contents

AnySignedBy(any, account) ==
  /\ \E signer \in Signers : any.type_url = signer[1]
  /\ any.account = account

\* Data the host of an account executes: in the encoding the channel has, and
\* all of it signed by the account.
Executable(data, encoding, account) ==
  LET form == IF encoding = "proto3json" THEN "json" ELSE "CosmosTx" IN
  /\ data.form = form
  /\ \A i \in DOMAIN data.messages :
       IF form = "json" THEN JsonSignedBy(data.messages[i], account)
       ELSE AnySignedBy(data.messages[i], account)

==============================================================================
