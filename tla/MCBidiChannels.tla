--------------------------- MODULE MCBidiChannels ---------------------------
(***************************************************************************)
(* Model-checking instance of BidiChannels.                                *)
(***************************************************************************)
EXTENDS BidiChannels
=============================================================================
