----------------------------- MODULE MCIcaSystem -----------------------------
(***************************************************************************)
(* Values of the constants of IcaSystem for TLC.  The identifiers are      *)
(* model values of the configurations.                                     *)
(***************************************************************************)
EXTENDS IcaRefinement, IcaErrors, TLC

CONSTANTS k1, k2,  \* connections
          h1, h2,  \* the host's ids of them
          a1, a2   \* the accounts registered on them

MCHostConnection == (k1 :> h1) @@ (k2 :> h2)
MCHostAccount == (k1 :> a1) @@ (k2 :> a2)

\* At the limit of validate_ica_address, and above it.
LongAddressLen == (a1 :> 128) @@ (a2 :> 129)
ShortAddressLen == (a1 :> 45) @@ (a2 :> 65)

Meta(conn, host, encoding) ==
  [version |-> ICA_VERSION, controller_connection_id |-> conn,
   host_connection_id |-> host, address |-> NoAddress,
   encoding |-> encoding, tx_type |-> "sdk_multi_msg"]

Propose(conn, version) ==
  [counterparty_port_id |-> HOST_PORT_ID, order |-> "ORDER_ORDERED",
   version |-> version, connection_id |-> conn]

\* What the deployment script proposes, and what a relayer may propose next:
\* no version, the other encoding, the other connection.
ReopeningProposals ==
  {Propose(k1, Meta(k1, h1, "proto3")), Propose(k1, Meta(k1, h1, "proto3json")),
   Propose(k1, EmptyVersion), Propose(k2, Meta(k2, h2, "proto3json")),
   Propose(k2, EmptyVersion)}

\* Channel parameters of every kind the handler refuses.
RefusedProposals ==
  {[Propose(k1, Meta(k1, h1, "proto3")) EXCEPT !.order = "ORDER_UNORDERED"],
   [Propose(k1, Meta(k1, h1, "proto3")) EXCEPT !.counterparty_port_id = "transfer"],
   Propose(k1, Meta(k2, h2, "proto3")),
   Propose(k1, OpaqueVersion),
   Propose(k1, [Meta(k1, h1, "proto3") EXCEPT !.version = "other"]),
   Propose(k1, [Meta(k1, h1, "proto3") EXCEPT !.tx_type = "other"])}

AllProposals == ReopeningProposals \cup RefusedProposals

TwoProposals ==
  {Propose(k1, Meta(k1, h1, "proto3")), Propose(k2, Meta(k2, h2, "proto3json"))}

\* With no version on the second connection too.
ThreeProposals == TwoProposals \cup {Propose(k2, EmptyVersion)}

\* The channels are interchangeable.
ChannelSymmetry == Permutations(ChannelIds)

NoTimeoutGiven == {None}
ShortAndDefault == {None, 1}
OverflowingAndDefault == {None, 5000}
==============================================================================
