----------------------------- MODULE MCIcaEvents ------------------------------
(***************************************************************************)
(* IcaEvents for TLC, with the constants of MCIcaSystem.                   *)
(***************************************************************************)
EXTENDS MCIcaSystem, IcaEvents
==============================================================================
