------------------------------ MODULE MCUploads ------------------------------
(***************************************************************************)
(* Model-checking instance of Uploads.                                     *)
(***************************************************************************)
EXTENDS Uploads
=============================================================================
