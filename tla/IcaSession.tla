------------------------------ MODULE IcaSession ------------------------------
(***************************************************************************)
(* What the contract promises its admin, with channels, handshakes and     *)
(* packets forgotten: a sequence of sessions over one interchain account.  *)
(* A session is live, with callbacks coming in, or it is over; a new one   *)
(* begins only when the last is over, on a channel never used before, for  *)
(* the same account and the same encoding as the first.                    *)
(***************************************************************************)
EXTENDS Naturals

CONSTANTS Channels, Identities, None

VARIABLES
  session,   \* "none", "live" or "over"
  identity,  \* the account and the encoding, None before the first session
  used,      \* the channels sessions ran over
  tally      \* the callbacks received

vars == <<session, identity, used, tally>>

Init ==
  /\ session = "none"
  /\ identity = None
  /\ used = {}
  /\ tally = 0

Begin ==
  /\ session # "live"
  /\ session' = "live"
  /\ \E c \in Channels \ used : used' = used \cup {c}
  /\ IF session = "none" THEN identity' \in Identities ELSE UNCHANGED identity
  /\ UNCHANGED tally

Callback ==
  /\ session = "live"
  /\ tally' = tally + 1
  /\ UNCHANGED <<session, identity, used>>

\* The last callback of a session is the timeout that ends it; the host may
\* end it with no callback.
End ==
  /\ session = "live"
  /\ session' = "over"
  /\ tally' \in {tally, tally + 1}
  /\ UNCHANGED <<identity, used>>

Next == Begin \/ Callback \/ End

Spec == Init /\ [][Next]_vars

==============================================================================
