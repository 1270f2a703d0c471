------------------------ MODULE MCReconnectManager ------------------------
(***************************************************************************)
(* Model-checking instance of ReconnectManager: a few callers of           *)
(* reconnect(), not reduced by symmetry, since TLC's reduction is unsound  *)
(* for liveness.                                                           *)
(***************************************************************************)
EXTENDS ReconnectManager
===========================================================================
