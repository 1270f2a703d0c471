---------------------------- MODULE BidiChannels ----------------------------
(***************************************************************************)
(* Two logical RPC channels over one socket: the socket multiplexer of     *)
(* orpc-ws-shared with the bidi wiring of orpc-ws-client and               *)
(* orpc-ws-server, and the oRPC link the typed client calls through.       *)
(*                                                                         *)
(* A wrapper of the client lives through several lines (native sockets);   *)
(* its multiplexer stays with it.  The server sees a connection of its own *)
(* per line.  A call from client to server (c2s) is a stream of events, one *)
(* from server to client (s2c) has a single answer.  The oRPC peers behind *)
(* the channels are external: a peer numbers its calls, answers by number, *)
(* and drops everything when the 'close' event reaches its channel.        *)
(***************************************************************************)
EXTENDS Naturals, Sequences

CONSTANTS
  MaxWrappers,  \* bound: wrappers of the client
  MaxLines,     \* bound: lines
  MaxCalls,     \* bound: c2s calls
  MaxIds,       \* bound: s2c calls on one connection
  MaxFlight     \* bound: frames in flight to the client on one line

ASSUME BoundsAssumption ==
  /\ {MaxWrappers, MaxLines, MaxCalls, MaxFlight} \subseteq Nat \ {0}
  /\ MaxIds \in Nat

Wrappers == 1 .. MaxWrappers
Lines    == 1 .. MaxLines
C2S      == 1 .. MaxCalls
S2C      == Lines \X (1 .. MaxIds)
None     == 0

VARIABLES
  wrapper,  \* "none", "backoff" (between attempts), "handshake", "open",
            \* "closed" (for good)
  line,     \* the line of each wrapper
  lines,    \* lines so far
  held,     \* frames partysocket keeps while a wrapper has no line
  up, down, \* frames in flight on each line, to the server and to the client
  current,  \* ClientBidi's current handle: the wrapper it is for
  retiring, \* muxes of the client whose deferred dispose() is queued
  mux,      \* muxes of the client whose real listeners are attached
  link,     \* LinkFactory.linkInstance: the wrapper it is bound to
  server,   \* each line at the server: "none", "open", "closed"
  retired,  \* muxes of the server whose deferred dispose() is queued
  smux,     \* muxes of the server whose real listeners are attached
  calls,    \* c2s calls so far
  c2s,      \* each c2s call: "none", "pending", "streaming", "ended",
            \* "failed", "lost" (its channel closed), "aborted"
  owner,    \* the wrapper of each c2s call
  departed, \* history: c2s calls whose request has left the client
  serving,  \* c2s calls executing at the server, with their line
  s2c,      \* each s2c call: "none", "pending", "answered", "lost"
  hosted,   \* s2c calls executing at the client, with their wrapper
  crossed   \* history: a peer took a frame for the answer to a call it does
            \* not answer

clientVars == <<wrapper, line, held, current, retiring, mux, link, calls, owner,
                departed>>
serverVars == <<server, retired, smux>>
callVars   == <<c2s, serving, s2c, hosted, crossed>>
vars       == <<clientVars, lines, up, down, serverVars, callVars>>

Init ==
  /\ wrapper = [w \in Wrappers |-> "none"]
  /\ line = [w \in Wrappers |-> None]
  /\ lines = 0
  /\ held = [w \in Wrappers |-> <<>>]
  /\ up = [l \in Lines |-> <<>>] /\ down = [l \in Lines |-> <<>>]
  /\ current = None
  /\ retiring = {} /\ mux = {}
  /\ link = None
  /\ server = [l \in Lines |-> "none"]
  /\ retired = {} /\ smux = {}
  /\ calls = 0
  /\ c2s = [k \in C2S |-> "none"]
  /\ owner = [k \in C2S |-> None]
  /\ departed = {}
  /\ serving = {}
  /\ s2c = [k \in S2C |-> "none"]
  /\ hosted = {}
  /\ crossed = FALSE

\* A mux's deferred dispose() is a microtask: it comes before the next task of
\* its side, and commutes with those of the other.
Drained == retiring = {} /\ retired = {}

-----------------------------------------------------------------------------
(***************************************************************************)
(* Frames.  Each carries its channel's tag, and the number its peer gave   *)
(* the call.  Both peers count from one, so only the tag tells the request *)
(* of one side from the answer to the other.                               *)
(***************************************************************************)
Frame(channel, kind, id) == [channel |-> channel, kind |-> kind, id |-> id]
Channels == {"c2s", "s2c"}

\* Mutant: the tag is not read; every frame goes to the peer that calls.
ChannelOfAny(frame, caller) == caller

\* SocketMultiplexer.handleMessage: the channel whose listeners get a frame,
\* at the side whose own calls travel on the channel "caller".
ChannelOf(frame, caller) == frame.channel

\* sendOn at the client: partysocket keeps what it cannot send yet.
ClientSends(w, frame) ==
  IF line[w] # None
  THEN up' = [up EXCEPT ![line[w]] = Append(@, frame)] /\ UNCHANGED held
  ELSE held' = [held EXCEPT ![w] = Append(@, frame)] /\ UNCHANGED up

\* The request of call k waits in partysocket's queue.
Queued(w, k) ==
  \E i \in DOMAIN held[w] : held[w][i] = Frame("c2s", "request", k)

-----------------------------------------------------------------------------
(***************************************************************************)
(* Wrappers and lines.                                                     *)
(***************************************************************************)

\* The calls whose channel hears a close of wrapper w, or of line l at the
\* server: those of a mux that still listens.
LoseAtClient(w) ==
  IF w \in mux
  THEN /\ c2s' = [k \in C2S |-> IF owner[k] = w /\ c2s[k] \in {"pending", "streaming"}
                                THEN "lost" ELSE c2s[k]]
       /\ hosted' = {h \in hosted : h[2] # w}
  ELSE UNCHANGED <<c2s, hosted>>

LoseAtServer(l) ==
  IF l \in smux
  THEN /\ s2c' = [k \in S2C |-> IF k[1] = l /\ s2c[k] = "pending" THEN "lost" ELSE s2c[k]]
       /\ serving' = {v \in serving : v[2] # l}
  ELSE UNCHANGED <<s2c, serving>>

Unused(w) == wrapper[w] = "none" /\ \A v \in Wrappers : wrapper[v] = "none" => w <= v

\* ClientBidi.attach: retire the handle before; a mux with both channels.
Attach(w) ==
  /\ current' = w
  /\ mux' = mux \cup {w}
  /\ retiring' = retiring \cup ({current} \ {None})

\* BidiWebSocketFactory.create for the first connect(): a wrapper, attached.
Create(w) ==
  /\ Drained
  /\ Unused(w)
  /\ current = None
  /\ wrapper' = [wrapper EXCEPT ![w] = "backoff"]
  /\ Attach(w)
  /\ UNCHANGED <<line, lines, held, up, down, link, calls, owner, departed, serverVars,
                 callVars>>

\* partysocket's delay is over: a native socket begins its handshake.
Attempt(w) ==
  /\ Drained
  /\ wrapper[w] = "backoff"
  /\ wrapper' = [wrapper EXCEPT ![w] = "handshake"]
  /\ UNCHANGED <<line, lines, held, up, down, current, retiring, mux, link, calls,
                 owner, departed, serverVars, callVars>>

\* A handshake completes: a connection at the server with a mux of its own, an
\* 'open' event at the client, and what partysocket kept is sent.
Opens(w) ==
  /\ Drained
  /\ wrapper[w] = "handshake"
  /\ lines < MaxLines
  /\ lines' = lines + 1
  /\ wrapper' = [wrapper EXCEPT ![w] = "open"]
  /\ line' = [line EXCEPT ![w] = lines']
  /\ up' = [up EXCEPT ![lines'] = held[w]]
  /\ held' = [held EXCEPT ![w] = <<>>]
  /\ departed' = departed \cup {k \in C2S : Queued(w, k)}
  /\ server' = [server EXCEPT ![lines'] = "open"]
  /\ smux' = smux \cup {lines'}
  /\ UNCHANGED <<down, current, retiring, mux, link, calls, owner, retired,
                 callVars>>

\* The client's side of a line closes, or a handshake fails; partysocket will try
\* again.
Drops(w) ==
  /\ Drained
  /\ wrapper[w] \in {"handshake", "open"}
  /\ wrapper' = [wrapper EXCEPT ![w] = "backoff"]
  /\ line' = [line EXCEPT ![w] = None]
  /\ LoseAtClient(w)
  /\ UNCHANGED <<lines, held, up, down, current, retiring, mux, link, calls,
                 owner, departed, serverVars, serving, s2c, crossed>>

\* close() of the wrapper for good.  Between two attempts the native socket is
\* closed already, and no close event tells the channels.
Retires(w) ==
  IF wrapper[w] = "backoff" THEN UNCHANGED <<c2s, hosted>> ELSE LoseAtClient(w)

\* swapSocket: forget the link, close the wrapper, create the next one.
Swap(w) ==
  /\ Drained
  /\ Unused(w)
  /\ current # None
  /\ link' = None
  /\ wrapper' = [wrapper EXCEPT ![current] = "closed", ![w] = "backoff"]
  /\ line' = [line EXCEPT ![current] = None]
  /\ held' = [held EXCEPT ![current] = <<>>]
  /\ Retires(current)
  /\ Attach(w)
  /\ UNCHANGED <<lines, up, down, calls, owner, departed, serverVars, serving, s2c,
                 crossed>>

\* Every death of the client: forget the link, close the wrapper, disposeBidi.
TearDown ==
  /\ Drained
  /\ current # None
  /\ link' = None
  /\ wrapper' = [wrapper EXCEPT ![current] = "closed"]
  /\ line' = [line EXCEPT ![current] = None]
  /\ held' = [held EXCEPT ![current] = <<>>]
  /\ Retires(current)
  /\ current' = None
  /\ retiring' = retiring \cup {current}
  /\ UNCHANGED <<lines, up, down, mux, calls, owner, departed, serverVars, serving,
                 s2c, crossed>>

\* The microtask of makeBidiDispose: mux.dispose().
MuxDisposes(w) ==
  /\ w \in retiring
  /\ retiring' = retiring \ {w}
  /\ mux' = mux \ {w}
  /\ UNCHANGED <<wrapper, line, lines, held, up, down, current, link, calls,
                 owner, departed, serverVars, callVars>>

\* Mutant: the mux is disposed before its own close listener has run.
ServerClosesDisposed(l) ==
  /\ Drained
  /\ server[l] = "open"
  /\ server' = [server EXCEPT ![l] = "closed"]
  /\ smux' = smux \ {l}
  /\ UNCHANGED <<clientVars, lines, up, down, retired, c2s, serving, s2c, hosted,
                 crossed>>

\* The server's 'close' event: the mux's listener tells both channels, the
\* connection handler's defers mux.dispose().
ServerCloses(l) ==
  /\ Drained
  /\ server[l] = "open"
  /\ server' = [server EXCEPT ![l] = "closed"]
  /\ LoseAtServer(l)
  /\ retired' = retired \cup {l}
  /\ UNCHANGED <<clientVars, lines, up, down, smux, c2s, hosted, crossed>>

ServerMuxDisposes(l) ==
  /\ l \in retired
  /\ retired' = retired \ {l}
  /\ smux' = smux \ {l}
  /\ UNCHANGED <<clientVars, lines, up, down, server, callVars>>

-----------------------------------------------------------------------------
(***************************************************************************)
(* Calls from client to server.                                            *)
(***************************************************************************)

\* LinkFactory.getLink: the cached link, else one over the current wrapper if
\* that is open; else it throws.
Reachable == IF link # None THEN {link}
             ELSE {w \in Wrappers : w = current /\ wrapper[w] = "open"}

\* A call through the client proxy.
Call(w) ==
  LET k == calls + 1 IN
  /\ w \in Reachable
  /\ k \in C2S
  /\ link' = w
  /\ calls' = k
  /\ owner' = [owner EXCEPT ![k] = w]
  /\ c2s' = [c2s EXCEPT ![k] = "pending"]
  /\ ClientSends(w, Frame("c2s", "request", k))
  /\ departed' = IF line[w] = None THEN departed ELSE departed \cup {k}
  /\ UNCHANGED <<wrapper, line, lines, down, current, retiring, mux, serverVars,
                 serving, s2c, hosted, crossed>>

\* The consumer's AbortSignal: the call ends here, a frame tells the server.
Abort(k) ==
  /\ c2s[k] \in {"pending", "streaming"}
  /\ c2s' = [c2s EXCEPT ![k] = "aborted"]
  /\ ClientSends(owner[k], Frame("c2s", "abort", k))
  /\ UNCHANGED <<wrapper, line, lines, down, current, retiring, mux, link, calls,
                 owner, departed, serverVars, serving, s2c, hosted, crossed>>

\* A procedure of the server emits an event, ends or fails.
Serves(k, l, kind) ==
  /\ Drained
  /\ <<k, l>> \in serving
  /\ Len(down[l]) < MaxFlight
  /\ down' = [down EXCEPT ![l] = Append(@, Frame("c2s", kind, k))]
  /\ serving' = IF kind = "event" THEN serving ELSE serving \ {<<k, l>>}
  /\ UNCHANGED <<clientVars, lines, up, serverVars, c2s, s2c, hosted, crossed>>

-----------------------------------------------------------------------------
(***************************************************************************)
(* Calls from server to client.                                            *)
(***************************************************************************)

\* conn.client.x(): a call on a live connection.
Asks(l) ==
  /\ Drained
  /\ server[l] = "open"
  /\ Len(down[l]) < MaxFlight
  /\ \E i \in 1 .. MaxIds :
       /\ s2c[<<l, i>>] = "none"
       /\ \A j \in 1 .. (i - 1) : s2c[<<l, j>>] # "none"
       /\ s2c' = [s2c EXCEPT ![<<l, i>>] = "pending"]
       /\ down' = [down EXCEPT ![l] = Append(@, Frame("s2c", "request", i))]
  /\ UNCHANGED <<clientVars, lines, up, serverVars, c2s, serving, hosted, crossed>>

\* A hosted procedure returns or throws: either way an answer goes back.
Hosts(k, w) ==
  /\ Drained
  /\ <<k, w>> \in hosted
  /\ hosted' = hosted \ {<<k, w>>}
  /\ ClientSends(w, Frame("s2c", "answer", k[2]))
  /\ UNCHANGED <<wrapper, line, lines, down, current, retiring, mux, link, calls,
                 owner, departed, serverVars, c2s, serving, s2c, crossed>>

-----------------------------------------------------------------------------
(***************************************************************************)
(* Inbound frames.                                                         *)
(***************************************************************************)

\* The c2s client peer: a response moves its call on, one for a call that is
\* settled is ignored.
Responds(frame) ==
  /\ crossed' = (crossed \/ frame.channel # "c2s")
  /\ c2s' = IF frame.id \in C2S /\ c2s[frame.id] \in {"pending", "streaming"}
            THEN [c2s EXCEPT ![frame.id] = CASE frame.kind = "event" -> "streaming"
                                             [] frame.kind = "fail"  -> "failed"
                                             [] OTHER                -> "ended"]
            ELSE c2s

\* The client's mux dispatches the next frame of its line.
ClientReceives(w) ==
  LET l == line[w]
      frame == Head(down[l]) IN
  /\ Drained
  /\ wrapper[w] = "open"
  /\ w \in mux
  /\ down[l] # <<>>
  /\ down' = [down EXCEPT ![l] = Tail(@)]
  /\ IF ChannelOf(frame, "c2s") = "c2s"
     THEN Responds(frame) /\ UNCHANGED hosted
     ELSE hosted' = hosted \cup {<<<<l, frame.id>>, w>>} /\ UNCHANGED <<c2s, crossed>>
  /\ UNCHANGED <<clientVars, lines, up, serverVars, serving, s2c>>

\* The server's mux dispatches the next frame of a line.
ServerReceives(l) ==
  LET frame == Head(up[l])
      call  == <<l, frame.id>> IN
  /\ Drained
  /\ server[l] = "open"
  /\ l \in smux
  /\ up[l] # <<>>
  /\ up' = [up EXCEPT ![l] = Tail(@)]
  /\ IF ChannelOf(frame, "s2c") = "s2c"
     THEN /\ s2c' = IF call \in S2C /\ s2c[call] = "pending"
                    THEN [s2c EXCEPT ![call] = "answered"] ELSE s2c
          /\ crossed' = (crossed \/ frame.channel # "s2c")
          /\ UNCHANGED serving
     ELSE /\ serving' = IF frame.kind = "request" THEN serving \cup {<<frame.id, l>>}
                        ELSE serving \ {<<frame.id, l>>}
          /\ UNCHANGED <<s2c, crossed>>
  /\ UNCHANGED <<clientVars, lines, down, serverVars, c2s, hosted>>

-----------------------------------------------------------------------------
Connection ==
  \/ \E w \in Wrappers :
       Create(w) \/ Attempt(w) \/ Opens(w) \/ Drops(w) \/ Swap(w) \/ MuxDisposes(w)
  \/ TearDown
  \/ \E l \in Lines : ServerCloses(l) \/ ServerMuxDisposes(l)

Peers ==
  \/ \E l \in Lines : Asks(l) \/ ServerReceives(l)
  \/ \E k \in C2S, l \in Lines, kind \in {"event", "end", "fail"} : Serves(k, l, kind)
  \/ \E k \in S2C, w \in Wrappers : Hosts(k, w)
  \/ \E w \in Wrappers : ClientReceives(w)

Consumer == (\E w \in Wrappers : Call(w)) \/ (\E k \in C2S : Abort(k))

Next == Connection \/ Peers \/ Consumer

Spec == Init /\ [][Next]_vars

-----------------------------------------------------------------------------
(***************************************************************************)
(* Properties.                                                             *)
(***************************************************************************)

Frames == [channel : Channels,
           kind : {"request", "abort", "answer", "event", "end", "fail"},
           id : Nat]

Ongoing(k) == c2s[k] \in {"pending", "streaming"}

\* The variables keep their types.
TypeOK ==
  /\ wrapper \in [Wrappers -> {"none", "backoff", "handshake", "open", "closed"}]
  /\ line \in [Wrappers -> Lines \cup {None}]
  /\ lines \in 0 .. MaxLines
  /\ held \in [Wrappers -> Seq(Frames)]
  /\ up \in [Lines -> Seq(Frames)]
  /\ down \in [Lines -> Seq(Frames)]
  /\ {current, link} \subseteq Wrappers \cup {None}
  /\ retiring \subseteq Wrappers /\ mux \subseteq Wrappers
  /\ server \in [Lines -> {"none", "open", "closed"}]
  /\ retired \subseteq Lines /\ smux \subseteq Lines
  /\ calls \in 0 .. MaxCalls
  /\ c2s \in [C2S -> {"none", "pending", "streaming", "ended", "failed", "lost", "aborted"}]
  /\ owner \in [C2S -> Wrappers \cup {None}]
  /\ departed \subseteq C2S
  /\ serving \subseteq C2S \X Lines
  /\ s2c \in [S2C -> {"none", "pending", "answered", "lost"}]
  /\ hosted \subseteq S2C \X Wrappers
  /\ crossed \in BOOLEAN

\* No call that may have reached the other side, and no execution, outlives what
\* would settle it: a mux is disposed only after the close event of its line has
\* reached both channels (client-bidi.ts:38-55, connection-bidi.ts:20-38).  A call that
\* was not sent yet waits in a queue that will be, unless its wrapper was given up:
\* between two attempts that dispatches no close event, and nobody settles the call
\* (link-factory.ts:113-115).  And the link is never one of a wrapper given up.
NoCallHangs ==
  /\ TypeOK
  /\ \A k \in departed : Ongoing(k) => owner[k] \in mux /\ wrapper[owner[k]] = "open"
  /\ \A k \in C2S \ departed :
       Ongoing(k) => Queued(owner[k], k) \/ wrapper[owner[k]] = "closed"
  /\ \A k \in S2C : s2c[k] = "pending" => k[1] \in smux /\ server[k[1]] = "open"
  /\ \A v \in serving : server[v[2]] = "open"
  /\ \A h \in hosted : wrapper[h[2]] = "open"
  /\ link # None => link = current /\ wrapper[link] # "closed"

\* An answer reaches the call it answers: no request of one side is taken for
\* an answer of the other, and no answer crosses to another line's connection
\* (socket-multiplexer.ts:178-193).
AnswersAreOwn ==
  /\ ~crossed
  /\ \A h \in hosted : line[h[2]] = h[1][1]
=============================================================================
