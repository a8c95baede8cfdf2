------------------------------ MODULE IcaPacket ------------------------------
(***************************************************************************)
(* What the contract and the IBC core hand to each other: the IbcChannel   *)
(* of cosmwasm_std, the packets (src/ibc/types/packet.rs and the data of   *)
(* ica_bank_send in src/contract.rs) and the acknowledgements.             *)
(*                                                                         *)
(* Times are seconds; the code adds seconds to a nanosecond timestamp.     *)
(***************************************************************************)
EXTENDS IcaMetadata

CONSTANTS
  ChannelIds,      \* the ids the controller chain gives to channels
  CustomMessages,  \* opaque packet data the admin sends
  MaxTimestamp     \* the last second whose nanoseconds fit in a u64

HOST_PORT_ID == "icahost"
DEFAULT_TIMEOUT_SECONDS == 600

PortIds == {"wasm.contract", HOST_PORT_ID, "transfer"}
IbcOrders == {"ORDER_ORDERED", "ORDER_UNORDERED"}

\* The host's id of the channel, "" until the host has answered.
CounterpartyChannelIds == {"", "assigned"}

IbcChannels ==
  [port_id : {"wasm.contract"}, channel_id : ChannelIds,
   counterparty_port_id : PortIds, counterparty_channel_id : CounterpartyChannelIds,
   order : IbcOrders, version : Versions, connection_id : Connections]

\* An amount of a bank send is a string that parses as a u128, or another.
Amounts == {"u128", "unparsable"}

BankSends ==
  [from_address : Addresses \cup {NoAddress}, encoding : TxEncodings, amount : Amounts]

Packets == [data : CustomMessages \cup BankSends, timeout : 0..MaxTimestamp]

\* How the bytes of an acknowledgement deserialize: to one of the two variants
\* of AcknowledgementData, or to neither.
AcknowledgementData == {"result", "error"}
Acknowledgements == AcknowledgementData \cup {"unparsable"}

ASSUME PacketAssumption ==
  /\ MaxTimestamp \in Nat
  /\ None \notin IbcChannels
  /\ CustomMessages \cap BankSends = {}

-----------------------------------------------------------------------------

UnwrapOrDefault(timeout_seconds) ==
  IF timeout_seconds = None THEN DEFAULT_TIMEOUT_SECONDS ELSE timeout_seconds

TimeoutTimestamp(time, timeout_seconds) == time + UnwrapOrDefault(timeout_seconds)

\* plus_seconds panics, and the transaction with it, on a u64 overflow.
TimeoutFits(time, timeout_seconds) ==
  TimeoutTimestamp(time, timeout_seconds) <= MaxTimestamp

ToIbcMsg(data, channel_id, time, timeout_seconds) ==
  [channel_id |-> channel_id,
   packet |-> [data |-> data, timeout |-> TimeoutTimestamp(time, timeout_seconds)]]

==============================================================================
