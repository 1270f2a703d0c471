-------------------------- MODULE MCCookieSessions --------------------------
(***************************************************************************)
(* Model-checking instances of CookieSessions: sids and requests are       *)
(* interchangeable.                                                        *)
(***************************************************************************)
EXTENDS CookieSessions, TLC

Symmetry == Permutations(Sids) \cup Permutations(Requests)
=============================================================================
