--------------------------- MODULE MCReactAdapter ---------------------------
(***************************************************************************)
(* Model-checking instance of ReactAdapter: the components that share a    *)
(* procedure are interchangeable.                                          *)
(***************************************************************************)
EXTENDS ReactAdapter, TLC

ComponentSymmetry == Permutations(Components)
=============================================================================
