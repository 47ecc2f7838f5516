--------------------------- MODULE MCInviteCounters ---------------------------
(***************************************************************************)
(* Instances of InviteCounters: three tokens, so that a late write can     *)
(* carry the counter of a token that was replaced twice.                   *)
(***************************************************************************)
EXTENDS InviteCounters
===============================================================================
