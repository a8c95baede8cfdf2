----------------------------- MODULE IcaMetadata -----------------------------
(***************************************************************************)
(* The ICS-27 metadata exchanged during the channel handshake              *)
(* (src/ibc/types/metadata.rs), as pure operators.                     *)
(*                                                                         *)
(* A version string that deserializes to metadata is represented by that   *)
(* metadata; the two other kinds of string the handlers tell apart are     *)
(* EmptyVersion and OpaqueVersion.                                         *)
(***************************************************************************)
EXTENDS Integers

CONSTANTS
  Connections,       \* the controller chain's connection ids
  HostConnections,   \* the connection ids of the host chain
  NoHostConnection,  \* "": the stargate query failed (unwrap_or_default)
  Addresses,         \* non-empty interchain account addresses
  NoAddress,         \* "": the host has not filled the address in
  AddressLen,        \* address.len(), of each address
  Alphanumeric,      \* the addresses all of whose characters are alphanumeric
  EmptyVersion,      \* the empty version string
  OpaqueVersion,     \* a version string that is not metadata, e.g. fee-wrapped
  None               \* Option::None

ICA_VERSION == "ics27-1"
DEFAULT_MAX_LENGTH == 128

TxEncodings == {"proto3", "proto3json"}

\* A field that must hold one fixed text either holds it or does not.
IcaMetadatas ==
  [version : {ICA_VERSION, "other"},
   controller_connection_id : Connections,
   host_connection_id : HostConnections \cup {NoHostConnection},
   address : Addresses \cup {NoAddress},
   encoding : TxEncodings,
   tx_type : {"sdk_multi_msg", "other"}]

Versions == IcaMetadatas \cup {EmptyVersion, OpaqueVersion}

ASSUME MetadataAssumption ==
  /\ NoAddress \notin Addresses
  /\ NoHostConnection \notin HostConnections
  /\ AddressLen \in [Addresses -> Nat]
  /\ Alphanumeric \subseteq Addresses
  /\ EmptyVersion \notin IcaMetadatas
  /\ OpaqueVersion \notin IcaMetadatas
  /\ EmptyVersion # OpaqueVersion

-----------------------------------------------------------------------------

\* Mutant: the limit is off by one.
ValidateIcaAddressOffByOne(address) ==
  /\ AddressLen[address] <= DEFAULT_MAX_LENGTH + 1
  /\ address \in Alphanumeric

ValidateIcaAddress(address) ==
  /\ AddressLen[address] <= DEFAULT_MAX_LENGTH
  /\ address \in Alphanumeric

\* The four checks of IcaMetadata::validate; the host's connection id is not
\* among them, because the contract cannot see it.
Validate(metadata, channel) ==
  /\ metadata.version = ICA_VERSION
  /\ metadata.controller_connection_id = channel.connection_id
  /\ metadata.address # NoAddress => ValidateIcaAddress(metadata.address)
  /\ metadata.tx_type = "sdk_multi_msg"

\* Mutant: the encoding may change from one channel to the next.
IsPreviousVersionEqualButEncoding(metadata, previous) ==
  /\ previous \in IcaMetadatas
  /\ metadata.version = previous.version
  /\ metadata.controller_connection_id = previous.controller_connection_id
  /\ metadata.host_connection_id = previous.host_connection_id
  /\ metadata.tx_type = previous.tx_type

\* Mutant: the channel may be reopened on another connection.
IsPreviousVersionEqualButConnections(metadata, previous) ==
  /\ previous \in IcaMetadatas
  /\ metadata.version = previous.version
  /\ metadata.encoding = previous.encoding
  /\ metadata.tx_type = previous.tx_type

\* Mutant: a previous version that does not parse equals anything.
IsPreviousVersionEqualIfParsed(metadata, previous) ==
  previous \in IcaMetadatas =>
    /\ metadata.version = previous.version
    /\ metadata.controller_connection_id = previous.controller_connection_id
    /\ metadata.host_connection_id = previous.host_connection_id
    /\ metadata.encoding = previous.encoding
    /\ metadata.tx_type = previous.tx_type

\* Mutant: the address counts too, which a proposal does not have yet.
IsPreviousVersionEqualInAll(metadata, previous) ==
  /\ previous \in IcaMetadatas
  /\ metadata = previous

\* Every field but the address; a previous version that does not parse equals
\* nothing.
IsPreviousVersionEqual(metadata, previous) ==
  /\ previous \in IcaMetadatas
  /\ metadata.version = previous.version
  /\ metadata.controller_connection_id = previous.controller_connection_id
  /\ metadata.host_connection_id = previous.host_connection_id
  /\ metadata.encoding = previous.encoding
  /\ metadata.tx_type = previous.tx_type

\* The metadata of a handshake begun with an empty version: the stored
\* channel's if there is one and it parses, else a default whose host
\* connection is what the stargate query answered.
FromChannel(stored, channel, answer) ==
  IF stored # None /\ stored.channel.version \in IcaMetadatas
  THEN stored.channel.version
  ELSE [version |-> ICA_VERSION,
        controller_connection_id |-> channel.connection_id,
        host_connection_id |-> answer,
        address |-> NoAddress,
        encoding |-> "proto3json",
        tx_type |-> "sdk_multi_msg"]

==============================================================================
