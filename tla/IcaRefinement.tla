---------------------------- MODULE IcaRefinement ----------------------------
(***************************************************************************)
(* The contract in its environment implements the sessions of IcaSession.  *)
(***************************************************************************)
EXTENDS IcaSystem

\* A session is what CHANNEL_STATE says it is.
session ==
  IF channelState = None THEN "none" ELSE IF IsOpen THEN "live" ELSE "over"

identity ==
  IF contractState.ica_info = None THEN None
  ELSE [ica_address |-> contractState.ica_info.ica_address,
        encoding |-> contractState.ica_info.encoding]

used == {c \in ChannelIds : EndIs(c, "OPEN") \/ EndIs(c, "CLOSED")}

tally == callbackCounter.success + callbackCounter.error + callbackCounter.timeout

Session ==
  INSTANCE IcaSession WITH
    Channels <- ChannelIds,
    Identities <- [ica_address : Addresses, encoding : TxEncodings]

\* While handshakes come one at a time and the core lets no packet of a closed
\* end time out, the handlers of handshake.rs and relay.rs implement the
\* sessions: in particular no callback comes outside a live session, and each
\* session runs over a fresh channel for the first one's account.
ImplementsSession == Session!Spec

==============================================================================
