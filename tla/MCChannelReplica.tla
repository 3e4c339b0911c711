-------------------------- MODULE MCChannelReplica --------------------------
(***************************************************************************)
(* A channel that has one remote member r and its publication q.  This     *)
(* client may join as me, publish p and subscribe q.                       *)
(***************************************************************************)
EXTENDS ChannelReplica, TLC

CONSTANTS me, r, p, q, s

MCOwner    == p :> me @@ q :> r @@ s :> me
MCSource   == s :> q
MCSnapshot == {r}
=============================================================================
