-------------------------- MODULE SessionDirectory --------------------------
(***************************************************************************)
(* What orpc-ws-server promises about connection keys, without sockets,    *)
(* close handshakes, timers or hooks: who is admitted under each key.      *)
(* Where a key is exclusive (one connection per user), admitting a         *)
(* connection ends the one admitted before in the same step; a connection  *)
(* is admitted once, and once it has left it does not come back.           *)
(***************************************************************************)
CONSTANTS
  Keys,    \* connection keys
  Conns    \* connections

VARIABLES
  exclusive,  \* one connection per key
  admitted,   \* the connections admitted under each key
  seen        \* connections ever admitted

vars == <<exclusive, admitted, seen>>

Init ==
  /\ exclusive \in BOOLEAN
  /\ admitted = [k \in Keys |-> {}]
  /\ seen = {}

\* Mutant: a newcomer joins whoever is there.
AdmitBesides(k, c) ==
  /\ c \notin seen
  /\ seen' = seen \cup {c}
  /\ admitted' = [admitted EXCEPT ![k] = @ \cup {c}]
  /\ UNCHANGED exclusive

Admit(k, c) ==
  /\ c \notin seen
  /\ seen' = seen \cup {c}
  /\ admitted' = [admitted EXCEPT ![k] = IF exclusive THEN {c} ELSE @ \cup {c}]
  /\ UNCHANGED exclusive

\* Connections end: a newcomer under the same key arrives, a close, a lost
\* link, an expired token, shutdown.
Leave(gone) ==
  /\ admitted' = [k \in Keys |-> admitted[k] \ gone]
  /\ UNCHANGED <<exclusive, seen>>

Next ==
  \/ \E k \in Keys, c \in Conns : Admit(k, c)
  \/ \E gone \in SUBSET Conns : Leave(gone)

Spec == Init /\ [][Next]_vars

\* One connection per exclusive key.
OnePerKey ==
  exclusive => \A k \in Keys : \A c, d \in admitted[k] : c = d
=============================================================================
