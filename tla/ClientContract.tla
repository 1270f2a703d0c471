--------------------------- MODULE ClientContract ---------------------------
(***************************************************************************)
(* What a client of orpc-ws-client promises the code that holds it,        *)
(* without wrappers, timers, refreshes and handlers: the state it shows,   *)
(* whether it is connected, when it is over, and that the consumer hears   *)
(* of a terminal auth failure once.  A client that will not retry says so, *)
(* and only once it is over or before it first connects.                   *)
(***************************************************************************)
EXTENDS Naturals

VARIABLES
  shown,    \* client.state: "stopped" is disconnected without, "retrying" with willRetry
  linked,   \* there is a connection to the server, as far as the client can know
  over,     \* disposed of, kicked or logged out
  reported  \* calls of onTerminalAuthFailure

vars == <<shown, linked, over, reported>>

Init ==
  /\ shown = "stopped"
  /\ linked = FALSE
  /\ over = FALSE
  /\ reported = 0

\* connect() on a client without a connection.
Connects ==
  /\ ~over /\ ~linked
  /\ shown \in {"stopped", "retrying"}
  /\ shown' = "connecting"
  /\ UNCHANGED <<linked, over, reported>>

\* A connection opens; there was none.
Opens ==
  /\ ~over /\ ~linked
  /\ linked' = TRUE
  /\ shown' = "connected"
  /\ UNCHANGED <<over, reported>>

\* The connection went silent and is to be replaced.
Doubts ==
  /\ ~over /\ linked
  /\ shown = "connected"
  /\ shown' = "retrying"
  /\ UNCHANGED <<linked, over, reported>>

\* The connection or an attempt at one ended; there will be another.
Loses ==
  /\ ~over
  /\ linked' = FALSE
  /\ shown' = "retrying"
  /\ UNCHANGED <<over, reported>>

\* The server gave the session to a newer connection.
IsKicked ==
  /\ ~over /\ linked
  /\ linked' = FALSE
  /\ over' = TRUE
  /\ shown' = "kicked"
  /\ UNCHANGED reported

\* dispose(), also of a client that is over.
IsDisposed ==
  /\ linked' = FALSE
  /\ over' = TRUE
  /\ shown' = "stopped"
  /\ UNCHANGED reported

\* A terminal auth failure, and the only one.
LogsOut ==
  /\ ~over
  /\ linked' = FALSE
  /\ over' = TRUE
  /\ shown' = "stopped"
  /\ reported' = reported + 1

Next == Connects \/ Opens \/ Doubts \/ Loses \/ IsKicked \/ IsDisposed \/ LogsOut

Spec == Init /\ [][Next]_vars

\* What the contract comes to: the consumer hears of a terminal failure at most
\* once, and only of a client that is over; one that is over has no connection; one
\* that shows "connected" has one; and one that shows "connecting" has none yet.
Honest ==
  /\ reported \in {0, 1} /\ (reported = 1 => over)
  /\ over => ~linked /\ shown \in {"stopped", "kicked"}
  /\ shown = "connected" => linked
  /\ linked => shown \in {"connected", "retrying"}
=============================================================================
