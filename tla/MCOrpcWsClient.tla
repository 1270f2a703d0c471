--------------------------- MODULE MCOrpcWsClient ---------------------------
(***************************************************************************)
(* Model-checking instances of OrpcWsClient: wrappers are interchangeable, *)
(* and each configuration chooses the deployments it considers.            *)
(***************************************************************************)
EXTENDS OrpcWsClient, TLC

WrapperSymmetry == Permutations(Wrappers)

AuthFrames == {"swap", "auth-close", "pre-open-1000"}
Partysocket == {"late-open", "double-close"}

\* Token auth with every fault, token auth with an honest server and identity
\* provider, and cookie auth with every fault.
AllSetups == {
  [provider |-> TRUE,  reentry |-> AuthFrames, faults |-> AllFaults],
  [provider |-> TRUE,  reentry |-> AuthFrames, faults |-> Partysocket],
  [provider |-> FALSE, reentry |-> {"swap"},   faults |-> AllFaults] }

\* Recovery is checked without the faults that only the wrappers' identities
\* tell apart, and without re-entrant calls.
LiveSetups == {
  [provider |-> p, reentry |-> {}, faults |-> AllFaults \ Partysocket] : p \in BOOLEAN }

\* The consumer calls dispose() from a state listener on the connecting frame.
ListenerSetups == {[provider |-> TRUE, reentry |-> {"connect"}, faults |-> {}]}
=============================================================================
