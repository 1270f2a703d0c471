-------------------------- MODULE MCHeartbeatWatch --------------------------
(***************************************************************************)
(* Model-checking instance of HeartbeatWatch; generations are ordered, so  *)
(* there is no symmetry.                                                   *)
(***************************************************************************)
EXTENDS HeartbeatWatch
=============================================================================
