----------------------------- MODULE MCIcaClient ------------------------------
(***************************************************************************)
(* IcaClient for TLC, with the constants of MCIcaSystem.                   *)
(***************************************************************************)
EXTENDS MCIcaSystem, IcaClient

\* Everything a client can encode for either account.
ClientMessages ==
  {PacketData(encoding, << message >>) : encoding \in TxEncodings, message \in ExampleCosmosMessages}

AllVariants == DOMAIN AccountField
==============================================================================
