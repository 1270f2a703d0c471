--------------------------- MODULE MCOrpcWsServer ---------------------------
(***************************************************************************)
(* Model-checking instance of OrpcWsServer (MCServer.cfg).                 *)
(***************************************************************************)
EXTENDS OrpcWsServer, TLC

=============================================================================
