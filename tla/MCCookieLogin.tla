---------------------------- MODULE MCCookieLogin ----------------------------
(***************************************************************************)
(* Model-checking instance of CookieLogin.                                 *)
(***************************************************************************)
EXTENDS CookieLogin
=============================================================================
