-------------------------- MODULE TransportProofs -------------------------
(***************************************************************************)
(* Theorems about what a client and its server exchange, over two          *)
(* transports that share no state.  BidiChannels, for any number of        *)
(* wrappers, lines, calls and frames in flight: no call outlives what      *)
(* would settle it, and every answer reaches the call it answers.          *)
(* Uploads, for any number of uploads and tokens: no stale token logs a    *)
(* user out.                                                               *)
(***************************************************************************)
EXTENDS BidiChannels, Uploads, SequenceTheorems, TLAPS

\* What travels to the server and to the client: a peer calls on its own
\* channel and answers on the other (channel.ts:30-107).
UpFrames ==
  [channel : {"c2s"}, kind : {"request", "abort"}, id : C2S]
    \cup [channel : {"s2c"}, kind : {"answer"}, id : 1 .. MaxIds]

DownFrames ==
  [channel : {"c2s"}, kind : {"event", "end", "fail"}, id : C2S]
    \cup [channel : {"s2c"}, kind : {"request"}, id : 1 .. MaxIds]

FramesTyped ==
  /\ held \in [Wrappers -> Seq(UpFrames)]
  /\ up \in [Lines -> Seq(UpFrames)]
  /\ down \in [Lines -> Seq(DownFrames)]

\* TypeOK but for the frames, client and server.
ClientTyped ==
  /\ wrapper \in [Wrappers -> {"none", "backoff", "handshake", "open", "closed"}]
  /\ line \in [Wrappers -> Lines \cup {None}]
  /\ current \in Wrappers \cup {None} /\ link \in Wrappers \cup {None}
  /\ retiring \subseteq Wrappers /\ mux \subseteq Wrappers
  /\ calls \in 0 .. MaxCalls
  /\ owner \in [C2S -> Wrappers \cup {None}]
  /\ departed \subseteq C2S

ServerTyped ==
  /\ lines \in 0 .. MaxLines
  /\ server \in [Lines -> {"none", "open", "closed"}]
  /\ retired \subseteq Lines /\ smux \subseteq Lines

CallStates == {"none", "pending", "streaming", "ended", "failed", "lost", "aborted"}

CallsTyped ==
  /\ c2s \in [C2S -> CallStates]
  /\ serving \subseteq C2S \X Lines
  /\ s2c \in [S2C -> {"none", "pending", "answered", "lost"}]
  /\ hosted \subseteq S2C \X Wrappers
  /\ crossed \in BOOLEAN

Typed == FramesTyped /\ ClientTyped /\ ServerTyped /\ CallsTyped

InUse == {"backoff", "handshake", "open"}

\* The current wrapper is the one in use, and its mux listens; a mux is retired
\* after its wrapper was closed (client-bidi.ts:149-219).
ClientEnds ==
  /\ \A w \in Wrappers : wrapper[w] \in InUse <=> w = current
  /\ \A w \in Wrappers : wrapper[w] = "open" <=> line[w] # None
  /\ current # None => current \in mux
  /\ \A w \in retiring : wrapper[w] = "closed"
  /\ link # None => link = current

ServerEnds ==
  /\ \A l \in Lines : server[l] = "open" => l \in smux
  /\ \A l \in retired : server[l] = "closed"

\* What NoCallHangs says of calls and executions.
CallsEnd ==
  /\ \A k \in departed : Ongoing(k) => owner[k] \in mux /\ wrapper[owner[k]] = "open"
  /\ \A k \in S2C : s2c[k] = "pending" => k[1] \in smux /\ server[k[1]] = "open"
  /\ \A v \in serving : server[v[2]] = "open"
  /\ \A h \in hosted : wrapper[h[2]] = "open"

\* A call is made before it is sent or queued, and waits in the queue of the wrapper
\* it was made on until it is sent (link-factory.ts:110-136).
QueuesAreOwn ==
  /\ \A k \in C2S : Ongoing(k) => owner[k] \in Wrappers
  /\ \A k \in departed : k <= calls
  /\ \A w \in Wrappers, k \in C2S : Queued(w, k) => k <= calls /\ owner[k] = w
  /\ \A k \in C2S \ departed :
       Ongoing(k) => Queued(owner[k], k) \/ wrapper[owner[k]] = "closed"

BidiInv ==
  Typed /\ ClientEnds /\ ServerEnds /\ CallsEnd /\ QueuesAreOwn /\ AnswersAreOwn

\* The finer types of the frames imply TypeOK.
LEMMA TypedIsTypeOK == ASSUME Typed PROVE TypeOK
<1>1. UpFrames \subseteq Frames /\ DownFrames \subseteq Frames
  <2>1. C2S \subseteq Nat /\ 1 .. MaxIds \subseteq Nat
    BY DEF C2S
  <2> QED
    BY <2>1 DEF UpFrames, DownFrames, Frames, Channels
<1>2. /\ \A s \in Seq(UpFrames) : s \in Seq(Frames)
      /\ \A s \in Seq(DownFrames) : s \in Seq(Frames)
  BY <1>1, SeqMonotonic
<1>3. /\ held \in [Wrappers -> Seq(Frames)]
      /\ up \in [Lines -> Seq(Frames)]
      /\ down \in [Lines -> Seq(Frames)]
  BY <1>2 DEF Typed, FramesTyped
<1>4. {current, link} \subseteq Wrappers \cup {None}
  BY DEF Typed, ClientTyped
<1> QED
  BY <1>3, <1>4
  DEF TypeOK, Typed, ClientTyped, ServerTyped, CallsTyped, CallStates

\* The client sends a frame, or partysocket keeps it (channeled-socket.ts:28-60).
LEMMA SendsTyped ==
  ASSUME FramesTyped, ClientTyped, NEW w \in Wrappers, NEW frame \in UpFrames,
         ClientSends(w, frame)
  PROVE  /\ held' \in [Wrappers -> Seq(UpFrames)]
         /\ up' \in [Lines -> Seq(UpFrames)]
<1>1. CASE line[w] # None
  <2>1. line[w] \in Lines /\ up[line[w]] \in Seq(UpFrames)
    BY <1>1 DEF FramesTyped, ClientTyped
  <2>2. Append(up[line[w]], frame) \in Seq(UpFrames)
    BY <2>1, AppendProperties
  <2> QED
    BY <1>1, <2>2 DEF ClientSends, FramesTyped
<1>2. CASE line[w] = None
  <2>1. Append(held[w], frame) \in Seq(UpFrames)
    BY AppendProperties DEF FramesTyped
  <2> QED
    BY <1>2, <2>1 DEF ClientSends, FramesTyped
<1> QED
  BY <1>1, <1>2

\* The server sends one.
LEMMA ServerSendsTyped ==
  ASSUME FramesTyped, NEW l \in Lines, NEW frame \in DownFrames,
         down' = [down EXCEPT ![l] = Append(@, frame)]
  PROVE  down' \in [Lines -> Seq(DownFrames)]
<1>1. Append(down[l], frame) \in Seq(DownFrames)
  BY AppendProperties DEF FramesTyped
<1> QED
  BY <1>1 DEF FramesTyped

\* What the client sends joins the queue of no other wrapper.
LEMMA SendsQueue ==
  ASSUME FramesTyped, ClientTyped, NEW w \in Wrappers, NEW frame \in UpFrames,
         ClientSends(w, frame), NEW v \in Wrappers, NEW k \in C2S, Queued(v, k)'
  PROVE  Queued(v, k) \/ (v = w /\ frame = Frame("c2s", "request", k))
<1>1. CASE line[w] # None
  BY <1>1 DEF ClientSends, Queued
<1>2. CASE line[w] = None
  <2>1. held' = [held EXCEPT ![w] = Append(@, frame)]
    BY <1>2 DEF ClientSends
  <2>2. CASE v # w
    BY <2>1, <2>2 DEF Queued, FramesTyped
  <2>3. CASE v = w
    <3>1. held[w] \in Seq(UpFrames) /\ held'[v] = Append(held[w], frame)
      BY <2>1, <2>3 DEF FramesTyped
    <3>2. PICK i \in DOMAIN held'[v] : held'[v][i] = Frame("c2s", "request", k)
      BY DEF Queued
    <3>3. /\ DOMAIN held'[v] = 1 .. (Len(held[w]) + 1)
          /\ DOMAIN held[w] = 1 .. Len(held[w]) /\ Len(held[w]) \in Nat
          /\ \A n \in 1 .. Len(held[w]) : held'[v][n] = held[w][n]
          /\ held'[v][Len(held[w]) + 1] = frame
      BY <3>1, AppendProperties, LenProperties
    <3>4. i \in 1 .. Len(held[w]) \/ i = Len(held[w]) + 1
      BY <3>2, <3>3
    <3> QED
      BY <2>3, <3>2, <3>3, <3>4 DEF Queued
  <2> QED
    BY <2>2, <2>3
<1> QED
  BY <1>1, <1>2

\* Nothing leaves a queue by a send, and what cannot be sent yet joins it.
LEMMA StaysQueued ==
  ASSUME FramesTyped, ClientTyped, NEW w \in Wrappers, NEW frame \in UpFrames,
         ClientSends(w, frame), NEW v \in Wrappers, NEW k \in C2S,
         \/ Queued(v, k)
         \/ v = w /\ line[w] = None /\ frame = Frame("c2s", "request", k)
  PROVE  Queued(v, k)'
<1>1. CASE line[w] # None
  BY <1>1 DEF ClientSends, Queued
<1>2. CASE line[w] = None
  <2>1. held' = [held EXCEPT ![w] = Append(@, frame)]
    BY <1>2 DEF ClientSends
  <2>2. CASE v # w
    BY <2>1, <2>2 DEF Queued, FramesTyped
  <2>3. CASE v = w
    <3>1. held[w] \in Seq(UpFrames) /\ held'[v] = Append(held[w], frame)
      BY <2>1, <2>3 DEF FramesTyped
    <3>2. /\ DOMAIN held'[v] = 1 .. (Len(held[w]) + 1)
          /\ DOMAIN held[w] = 1 .. Len(held[w]) /\ Len(held[w]) \in Nat
          /\ \A n \in 1 .. Len(held[w]) : held'[v][n] = held[w][n]
          /\ held'[v][Len(held[w]) + 1] = frame
      BY <3>1, AppendProperties, LenProperties
    <3>3. \E i \in 1 .. (Len(held[w]) + 1) : held'[v][i] = Frame("c2s", "request", k)
      <4>1. CASE Queued(v, k)
        BY <2>3, <3>2, <4>1 DEF Queued
      <4>2. CASE frame = Frame("c2s", "request", k)
        BY <3>2, <4>2
      <4> QED
        BY <4>1, <4>2
    <3> QED
      BY <3>2, <3>3 DEF Queued
  <2> QED
    BY <2>2, <2>3
<1> QED
  BY <1>1, <1>2

\* An empty queue keeps nothing.
LEMMA EmptyQueue ==
  ASSUME NEW w \in Wrappers, NEW k \in C2S, held'[w] = <<>>
  PROVE  ~Queued(w, k)'
  BY DEF Queued

\* Where no call is made and nothing joins a queue, the queues stay as they are.
LEMMA QueuesStay ==
  ASSUME BidiInv, UNCHANGED <<calls, owner, departed>>,
         \A k \in C2S : Ongoing(k)' => Ongoing(k),
         \A v \in Wrappers, k \in C2S : Queued(v, k)' => Queued(v, k),
         \A v \in Wrappers, k \in C2S :
           Queued(v, k) => Queued(v, k)' \/ wrapper'[v] = "closed",
         \A v \in Wrappers : wrapper[v] = "closed" => wrapper'[v] = "closed"
  PROVE  QueuesAreOwn'
  BY DEF BidiInv, QueuesAreOwn

\* The current wrapper's close event, while its mux listens, or its close() between
\* two attempts, when nothing that was sent goes on (socket-multiplexer.ts:195-242).
LEMMA LosesAll ==
  ASSUME BidiInv, NEW w \in mux, Retires(w)
  PROVE  /\ c2s' \in [C2S -> CallStates] /\ hosted' \subseteq hosted
         /\ \A k \in C2S : c2s'[k] \in {"pending", "streaming"} => c2s'[k] = c2s[k]
         /\ \A k \in departed : c2s'[k] \in {"pending", "streaming"} => owner[k] # w
         /\ \A h \in hosted' : h[2] # w
<1>1. c2s \in [C2S -> CallStates] /\ departed \subseteq C2S
  BY DEF BidiInv, Typed, CallsTyped, ClientTyped
<1>2. CASE wrapper[w] # "backoff"
  <2>1. /\ c2s' = [k \in C2S |-> IF owner[k] = w /\ c2s[k] \in {"pending", "streaming"}
                                 THEN "lost" ELSE c2s[k]]
        /\ hosted' = {h \in hosted : h[2] # w}
    BY <1>2 DEF Retires, LoseAtClient
  <2> QED
    BY <1>1, <2>1 DEF CallStates
<1>3. CASE wrapper[w] = "backoff"
  <2>1. c2s' = c2s /\ hosted' = hosted
    BY <1>3 DEF Retires
  <2>2. \A k \in departed : Ongoing(k) => wrapper[owner[k]] = "open"
    BY DEF BidiInv, CallsEnd
  <2>3. \A h \in hosted : wrapper[h[2]] = "open"
    BY DEF BidiInv, CallsEnd
  <2> QED
    BY <1>1, <1>3, <2>1, <2>2, <2>3 DEF Ongoing
<1> QED
  BY <1>2, <1>3

-----------------------------------------------------------------------------
(***************************************************************************)
(* Wrappers and lines.                                                     *)
(***************************************************************************)

\* The first wrapper (bidi-websocket-factory.ts:17-46).
LEMMA CreateKeeps ==
  ASSUME BidiInv, NEW w \in Wrappers, Create(w)
  PROVE  BidiInv'
<1>1. /\ wrapper[w] = "none" /\ current = None
      /\ wrapper' = [wrapper EXCEPT ![w] = "backoff"]
      /\ current' = w /\ mux' = mux \cup {w} /\ retiring' = retiring
      /\ UNCHANGED <<line, link, calls, owner, departed>>
      /\ UNCHANGED <<held, up, down>> /\ UNCHANGED <<lines, server, retired, smux>>
      /\ UNCHANGED <<c2s, serving, s2c, hosted, crossed>>
  BY DEF Create, Unused, Attach, serverVars, callVars
<1>2. Typed'
  BY <1>1
  DEF BidiInv, Typed, FramesTyped, ClientTyped, ServerTyped, CallsTyped
<1>3. ClientEnds'
  <2>1. w # None /\ link = None
    BY <1>1 DEF Wrappers, None, BidiInv, ClientEnds
  <2>2. \A v \in Wrappers : wrapper'[v] = IF v = w THEN "backoff" ELSE wrapper[v]
    BY <1>1 DEF BidiInv, Typed, ClientTyped
  <2>3. \A v \in Wrappers : wrapper'[v] \in InUse <=> v = current'
    BY <1>1, <2>1, <2>2 DEF BidiInv, ClientEnds, InUse, Wrappers, None
  <2>4. \A v \in Wrappers : wrapper'[v] = "open" <=> line'[v] # None
    BY <1>1, <2>2 DEF BidiInv, ClientEnds
  <2>5. retiring \subseteq Wrappers /\ \A v \in retiring : wrapper'[v] = "closed"
    BY <1>1, <2>2 DEF BidiInv, Typed, ClientTyped, ClientEnds
  <2> QED
    BY <1>1, <2>1, <2>3, <2>4, <2>5 DEF ClientEnds
<1>4. ServerEnds'
  BY <1>1 DEF BidiInv, ServerEnds
<1>5. CallsEnd' /\ AnswersAreOwn'
  <2>1. \A v \in Wrappers : wrapper'[v] = IF v = w THEN "backoff" ELSE wrapper[v]
    BY <1>1 DEF BidiInv, Typed, ClientTyped
  <2>2. \A h \in hosted : h[2] \in Wrappers
    BY DEF BidiInv, Typed, CallsTyped
  <2>3. \A k \in departed : Ongoing(k)' => owner'[k] \in mux' /\ wrapper'[owner'[k]] = "open"
    BY <1>1, <2>1 DEF BidiInv, Typed, ClientTyped, CallsEnd, Ongoing
  <2>4. \A h \in hosted : wrapper'[h[2]] = "open"
    BY <1>1, <2>1, <2>2 DEF BidiInv, CallsEnd
  <2> QED
    BY <1>1, <2>3, <2>4 DEF BidiInv, CallsEnd, Ongoing, AnswersAreOwn
<1>6. QueuesAreOwn'
  <2>1. \A v \in Wrappers : wrapper[v] = "closed" => wrapper'[v] = "closed"
    BY <1>1 DEF BidiInv, Typed, ClientTyped
  <2> QED
    BY <1>1, <2>1, QueuesStay DEF Queued, Ongoing
<1> QED
  BY <1>2, <1>3, <1>4, <1>5, <1>6 DEF BidiInv

\* partysocket opens a native socket.
LEMMA AttemptKeeps ==
  ASSUME BidiInv, NEW w \in Wrappers, Attempt(w)
  PROVE  BidiInv'
<1>1. /\ wrapper[w] = "backoff" /\ wrapper' = [wrapper EXCEPT ![w] = "handshake"]
      /\ UNCHANGED <<line, current, retiring, mux, link, calls, owner, departed>>
      /\ UNCHANGED <<held, up, down>> /\ UNCHANGED <<lines, server, retired, smux>>
      /\ UNCHANGED <<c2s, serving, s2c, hosted, crossed>>
  BY DEF Attempt, serverVars, callVars
<1>2. Typed'
  BY <1>1
  DEF BidiInv, Typed, FramesTyped, ClientTyped, ServerTyped, CallsTyped
<1>3. \A v \in Wrappers : wrapper'[v] = IF v = w THEN "handshake" ELSE wrapper[v]
  BY <1>1 DEF BidiInv, Typed, ClientTyped
<1>4. ClientEnds' /\ ServerEnds'
  BY <1>1, <1>3 DEF BidiInv, Typed, ClientTyped, ClientEnds, ServerEnds, InUse
<1>5. CallsEnd' /\ AnswersAreOwn'
  <2>1. \A v \in Wrappers : wrapper[v] = "open" => wrapper'[v] = "open"
    BY <1>1, <1>3
  <2>2. /\ \A h \in hosted : h[2] \in Wrappers
        /\ \A k \in departed : Ongoing(k) => owner[k] \in Wrappers
    BY DEF BidiInv, Typed, CallsTyped, ClientTyped, QueuesAreOwn
  <2> QED
    BY <1>1, <2>1, <2>2 DEF BidiInv, CallsEnd, AnswersAreOwn, Ongoing
<1>6. QueuesAreOwn'
  BY <1>1, <1>3, QueuesStay DEF Queued, Ongoing
<1> QED
  BY <1>2, <1>4, <1>5, <1>6 DEF BidiInv

\* A handshake completes (connection-bidi.ts:82-119).
LEMMA OpensKeeps ==
  ASSUME BidiInv, NEW w \in Wrappers, Opens(w)
  PROVE  BidiInv'
<1> DEFINE l == lines + 1
<1>1. /\ wrapper[w] = "handshake" /\ lines < MaxLines /\ retired = {}
      /\ lines' = l
      /\ wrapper' = [wrapper EXCEPT ![w] = "open"]
      /\ line' = [line EXCEPT ![w] = l]
      /\ up' = [up EXCEPT ![l] = held[w]]
      /\ held' = [held EXCEPT ![w] = <<>>]
      /\ server' = [server EXCEPT ![l] = "open"]
      /\ smux' = smux \cup {l}
      /\ departed' = departed \cup {k \in C2S : Queued(w, k)}
      /\ UNCHANGED <<down, current, retiring, mux, link, calls, owner, retired>>
      /\ UNCHANGED <<c2s, serving, s2c, hosted, crossed>>
  BY DEF Opens, Drained, callVars
<1>2. l \in Lines /\ l # None
  BY <1>1, BoundsAssumption DEF BidiInv, Typed, ServerTyped, Lines, None
<1> HIDE DEF l
<1>3. Typed'
  <2>1. FramesTyped'
    BY <1>1, <1>2, EmptySeq DEF BidiInv, Typed, FramesTyped
  <2>2. ClientTyped'
    BY <1>1, <1>2 DEF BidiInv, Typed, ClientTyped
  <2>3. ServerTyped'
    BY <1>1, <1>2 DEF BidiInv, Typed, ServerTyped, Lines
  <2>4. CallsTyped'
    BY <1>1 DEF BidiInv, Typed, CallsTyped
  <2> QED
    BY <2>1, <2>2, <2>3, <2>4 DEF Typed
<1>4. /\ \A v \in Wrappers : wrapper'[v] = IF v = w THEN "open" ELSE wrapper[v]
      /\ \A v \in Wrappers : line'[v] = IF v = w THEN l ELSE line[v]
      /\ \A m \in Lines : server'[m] = IF m = l THEN "open" ELSE server[m]
  BY <1>1, <1>2 DEF BidiInv, Typed, ClientTyped, ServerTyped
<1>5. ClientEnds'
  BY <1>1, <1>2, <1>4 DEF BidiInv, Typed, ClientTyped, ClientEnds, InUse
<1>6. ServerEnds'
  BY <1>1, <1>4 DEF BidiInv, ServerEnds
<1>7. CallsEnd'
  <2>1. \A k \in departed' : Ongoing(k)' => owner'[k] \in mux' /\ wrapper'[owner'[k]] = "open"
    <3>1. w \in mux
      BY <1>1 DEF BidiInv, ClientEnds, InUse, Wrappers, None
    <3>2. SUFFICES ASSUME NEW k \in departed', Ongoing(k)
                   PROVE  owner[k] \in mux /\ wrapper'[owner[k]] = "open"
      BY <1>1 DEF Ongoing
    <3>3. CASE k \in departed
      <4>1. owner[k] \in mux /\ wrapper[owner[k]] = "open" /\ owner[k] \in Wrappers
        BY <3>2, <3>3 DEF BidiInv, CallsEnd, Typed, ClientTyped
      <4> QED
        BY <1>4, <4>1
    <3>4. CASE k \in C2S /\ Queued(w, k)
      <4>1. owner[k] = w
        BY <3>4 DEF BidiInv, QueuesAreOwn
      <4> QED
        BY <1>4, <3>1, <4>1
    <3> QED
      BY <1>1, <3>3, <3>4
  <2>2. /\ \A h \in hosted : h[2] \in Wrappers
        /\ \A v \in serving : v[2] \in Lines
        /\ \A k \in S2C : k[1] \in Lines
    BY DEF BidiInv, Typed, CallsTyped, S2C
  <2> QED
    BY <1>1, <1>4, <2>1, <2>2 DEF BidiInv, CallsEnd, Ongoing
<1>8. AnswersAreOwn'
  <2>1. \A h \in hosted : h[2] \in Wrappers /\ h[2] # w
    BY <1>1 DEF BidiInv, Typed, CallsTyped, CallsEnd
  <2> QED
    BY <1>1, <1>4, <2>1 DEF BidiInv, AnswersAreOwn
<1>9. QueuesAreOwn'
  <2>1. \A v \in Wrappers, k \in C2S : Queued(v, k)' => Queued(v, k)
    <3>1. \A v \in Wrappers : held'[v] = IF v = w THEN <<>> ELSE held[v]
      BY <1>1 DEF BidiInv, Typed, FramesTyped
    <3> QED
      BY <3>1, EmptyQueue DEF Queued
  <2>2. \A k \in departed' : k <= calls
    BY <1>1 DEF BidiInv, QueuesAreOwn
  <2>3. ASSUME NEW k \in C2S \ departed', Ongoing(k)'
        PROVE  Queued(owner[k], k)' \/ wrapper'[owner[k]] = "closed"
    <3>1. /\ owner[k] \in Wrappers /\ k \in C2S \ departed
          /\ Queued(owner[k], k) \/ wrapper[owner[k]] = "closed"
      BY <1>1, <2>3 DEF BidiInv, QueuesAreOwn, Ongoing
    <3>2. CASE owner[k] = w
      BY <1>1, <2>3, <3>1, <3>2
    <3>3. CASE owner[k] # w
      BY <1>1, <1>4, <3>1, <3>3 DEF Queued, BidiInv, Typed, FramesTyped
    <3> QED
      BY <3>2, <3>3
  <2> QED
    BY <1>1, <2>1, <2>2, <2>3 DEF BidiInv, QueuesAreOwn, Ongoing
<1> QED
  BY <1>3, <1>5, <1>6, <1>7, <1>8, <1>9 DEF BidiInv

\* A wrapper loses its line, or is closed for good: its mux still listens, so
\* every call on it is lost and every execution ends (socket-multiplexer.ts
\* :195-242, client-bidi.ts:204-219).
LEMMA ClosesKeep ==
  ASSUME BidiInv, NEW w \in mux, w = current, Retires(w),
         \A v \in Wrappers : wrapper'[v] = "open" <=> v # w /\ wrapper[v] = "open",
         mux \subseteq mux', UNCHANGED <<calls, owner, departed>>,
         UNCHANGED <<s2c, serving, server, smux, crossed>>,
         \A v \in Wrappers : v # w => line'[v] = line[v],
         \A v \in Wrappers :
           \/ held'[v] = held[v]
           \/ held'[v] = <<>> /\ wrapper'[v] = "closed",
         \A v \in Wrappers : wrapper[v] = "closed" => wrapper'[v] = "closed"
  PROVE  CallsEnd' /\ AnswersAreOwn' /\ QueuesAreOwn'
<1>1. /\ \A k \in C2S : c2s'[k] \in {"pending", "streaming"} => c2s'[k] = c2s[k]
      /\ \A k \in departed : c2s'[k] \in {"pending", "streaming"} => owner[k] # w
      /\ \A h \in hosted' : h \in hosted /\ h[2] # w
  BY LosesAll
<1>2. /\ \A h \in hosted : h[2] \in Wrappers
      /\ departed \subseteq C2S
  BY DEF BidiInv, Typed, CallsTyped, ClientTyped
<1>3. \A k \in departed' : Ongoing(k)' => owner'[k] \in mux' /\ wrapper'[owner'[k]] = "open"
  <2> SUFFICES ASSUME NEW k \in departed, c2s'[k] \in {"pending", "streaming"}
               PROVE  owner[k] \in mux' /\ wrapper'[owner[k]] = "open"
    BY DEF Ongoing
  <2>1. owner[k] \in mux /\ wrapper[owner[k]] = "open" /\ owner[k] # w
    BY <1>1, <1>2 DEF BidiInv, CallsEnd, Ongoing
  <2>2. owner[k] \in Wrappers
    BY <2>1 DEF BidiInv, Typed, ClientTyped
  <2> QED
    BY <2>1, <2>2
<1>4. \A h \in hosted' : wrapper'[h[2]] = "open" /\ line'[h[2]] = h[1][1]
  BY <1>1, <1>2 DEF BidiInv, CallsEnd, AnswersAreOwn
<1>5. QueuesAreOwn'
  <2>1. \A k \in C2S : Ongoing(k)' => Ongoing(k)
    BY <1>1 DEF Ongoing
  <2>2. \A v \in Wrappers, k \in C2S : Queued(v, k)' => Queued(v, k)
    BY EmptyQueue DEF Queued
  <2>3. \A v \in Wrappers, k \in C2S :
          Queued(v, k) => Queued(v, k)' \/ wrapper'[v] = "closed"
    BY DEF Queued
  <2> QED
    BY <2>1, <2>2, <2>3, QueuesStay
<1> QED
  BY <1>3, <1>4, <1>5 DEF BidiInv, CallsEnd, AnswersAreOwn, Ongoing

\* The client's side of a line closes.
LEMMA DropsKeep ==
  ASSUME BidiInv, NEW w \in Wrappers, Drops(w)
  PROVE  BidiInv'
<1>1. /\ wrapper[w] \in {"handshake", "open"}
      /\ wrapper' = [wrapper EXCEPT ![w] = "backoff"]
      /\ line' = [line EXCEPT ![w] = None]
      /\ Retires(w)
      /\ UNCHANGED <<held, up, down>>
      /\ UNCHANGED <<current, retiring, mux, link, calls, owner, departed>>
      /\ UNCHANGED <<lines, server, retired, smux>>
      /\ UNCHANGED <<serving, s2c, crossed>>
  BY DEF Drops, Retires, serverVars
<1>2. w = current /\ w \in mux
  BY <1>1 DEF BidiInv, ClientEnds, InUse, Wrappers, None
<1>3. /\ \A v \in Wrappers : wrapper'[v] = IF v = w THEN "backoff" ELSE wrapper[v]
      /\ \A v \in Wrappers : line'[v] = IF v = w THEN None ELSE line[v]
  BY <1>1 DEF BidiInv, Typed, ClientTyped
<1>4. Typed'
  <2>1. c2s' \in [C2S -> CallStates] /\ hosted' \subseteq hosted
    BY <1>1, <1>2, LosesAll
  <2>2. CallsTyped'
    BY <1>1, <2>1 DEF BidiInv, Typed, CallsTyped
  <2>3. ClientTyped'
    BY <1>1 DEF BidiInv, Typed, ClientTyped
  <2> QED
    BY <1>1, <2>2, <2>3 DEF BidiInv, Typed, FramesTyped, ServerTyped
<1>5. ClientEnds'
  BY <1>1, <1>2, <1>3 DEF BidiInv, Typed, ClientTyped, ClientEnds, InUse
<1>6. ServerEnds'
  BY <1>1 DEF BidiInv, ServerEnds
<1>7. CallsEnd' /\ AnswersAreOwn' /\ QueuesAreOwn'
  <2>1. /\ \A v \in Wrappers : wrapper'[v] = "open" <=> v # w /\ wrapper[v] = "open"
        /\ \A v \in Wrappers : v # w => line'[v] = line[v]
        /\ \A v \in Wrappers : wrapper[v] = "closed" => wrapper'[v] = "closed"
    BY <1>1, <1>3
  <2> QED
    BY <1>1, <1>2, <2>1, ClosesKeep
<1> QED
  BY <1>4, <1>5, <1>6, <1>7 DEF BidiInv

\* swapSocket closes the current wrapper and attaches its successor
\* (token-refresh-handler.ts:282-368, client-bidi.ts:149-202).
LEMMA SwapKeeps ==
  ASSUME BidiInv, NEW w \in Wrappers, Swap(w)
  PROVE  BidiInv'
<1>1. /\ wrapper[w] = "none" /\ current # None /\ link' = None
      /\ wrapper' = [wrapper EXCEPT ![current] = "closed", ![w] = "backoff"]
      /\ line' = [line EXCEPT ![current] = None]
      /\ held' = [held EXCEPT ![current] = <<>>]
      /\ Retires(current)
      /\ current' = w /\ mux' = mux \cup {w} /\ retiring' = retiring \cup {current}
      /\ UNCHANGED <<up, down, calls, owner, departed>>
      /\ UNCHANGED <<lines, server, retired, smux>>
      /\ UNCHANGED <<serving, s2c, crossed>>
  BY DEF Swap, Unused, Attach, serverVars
<1>2. current \in mux /\ current \in Wrappers /\ current # w /\ w # None
  BY <1>1 DEF BidiInv, ClientEnds, Typed, ClientTyped, Wrappers, None
<1>3. /\ \A v \in Wrappers : wrapper'[v] = IF v = w THEN "backoff"
                                           ELSE IF v = current THEN "closed"
                                           ELSE wrapper[v]
      /\ \A v \in Wrappers : line'[v] = IF v = current THEN None ELSE line[v]
  BY <1>1, <1>2 DEF BidiInv, Typed, ClientTyped
<1>4. Typed'
  <2>1. c2s' \in [C2S -> CallStates] /\ hosted' \subseteq hosted
    BY <1>1, <1>2, LosesAll
  <2>2. CallsTyped'
    BY <1>1, <2>1 DEF BidiInv, Typed, CallsTyped
  <2>3. ClientTyped'
    BY <1>1, <1>2 DEF BidiInv, Typed, ClientTyped
  <2>4. FramesTyped'
    BY <1>1, <1>2, EmptySeq DEF BidiInv, Typed, FramesTyped
  <2> QED
    BY <1>1, <2>2, <2>3, <2>4 DEF BidiInv, Typed, ServerTyped
<1>5. ClientEnds'
  <2> DEFINE used == current
  <2>0. /\ wrapper[w] = "none" /\ current' = w /\ used # w
        /\ \A v \in Wrappers : wrapper[v] \in InUse <=> v = used
        /\ \A v \in Wrappers : wrapper[v] = "open" <=> line[v] # None
        /\ \A v \in Wrappers : wrapper'[v] = IF v = w THEN "backoff"
                                             ELSE IF v = used THEN "closed"
                                             ELSE wrapper[v]
        /\ \A v \in Wrappers : line'[v] = IF v = used THEN None ELSE line[v]
    BY <1>1, <1>2, <1>3 DEF BidiInv, ClientEnds
  <2> HIDE DEF used
  <2>1. \A v \in Wrappers : wrapper'[v] \in InUse <=> v = current'
    BY <2>0 DEF InUse
  <2>2. \A v \in Wrappers : wrapper'[v] = "open" <=> line'[v] # None
    BY <2>0
  <2>3. \A v \in retiring' : wrapper'[v] = "closed"
    BY <1>1, <1>2, <1>3 DEF BidiInv, Typed, ClientTyped, ClientEnds
  <2> QED
    BY <1>1, <2>1, <2>2, <2>3 DEF ClientEnds
<1>6. ServerEnds'
  BY <1>1 DEF BidiInv, ServerEnds
<1>7. CallsEnd' /\ AnswersAreOwn' /\ QueuesAreOwn'
  <2>1. \A v \in Wrappers : wrapper[v] = "open" => v = current
    BY DEF BidiInv, ClientEnds, InUse
  <2>2. \A v \in Wrappers :
          /\ wrapper'[v] = "open" <=> v # current /\ wrapper[v] = "open"
          /\ v # current => line'[v] = line[v]
    <3>1. wrapper[w] = "none"
      BY <1>1
    <3> QED
      BY <1>2, <1>3, <2>1, <3>1
  <2>3. mux \subseteq mux'
    BY <1>1
  <2>4. \A v \in Wrappers :
          /\ held'[v] = held[v] \/ (held'[v] = <<>> /\ wrapper'[v] = "closed")
          /\ wrapper[v] = "closed" => wrapper'[v] = "closed"
    BY <1>1, <1>2, <1>3 DEF BidiInv, Typed, FramesTyped
  <2> QED
    BY <1>1, <1>2, <2>2, <2>3, <2>4, ClosesKeep
<1> QED
  BY <1>4, <1>5, <1>6, <1>7 DEF BidiInv

\* Every death of the client (client-lifecycle.ts:298-334).
LEMMA TearDownKeeps ==
  ASSUME BidiInv, TearDown
  PROVE  BidiInv'
<1>1. /\ current # None /\ link' = None
      /\ wrapper' = [wrapper EXCEPT ![current] = "closed"]
      /\ line' = [line EXCEPT ![current] = None]
      /\ held' = [held EXCEPT ![current] = <<>>]
      /\ Retires(current)
      /\ current' = None /\ retiring' = retiring \cup {current}
      /\ UNCHANGED <<up, down, mux, calls, owner, departed>>
      /\ UNCHANGED <<lines, server, retired, smux>>
      /\ UNCHANGED <<serving, s2c, crossed>>
  BY DEF TearDown, serverVars
<1>2. current \in mux /\ current \in Wrappers /\ \A v \in Wrappers : v # None
  BY <1>1 DEF BidiInv, ClientEnds, Typed, ClientTyped, Wrappers, None
<1>3. /\ \A v \in Wrappers : wrapper'[v] = IF v = current THEN "closed" ELSE wrapper[v]
      /\ \A v \in Wrappers : line'[v] = IF v = current THEN None ELSE line[v]
  BY <1>1, <1>2 DEF BidiInv, Typed, ClientTyped
<1>4. Typed'
  <2>1. c2s' \in [C2S -> CallStates] /\ hosted' \subseteq hosted
    BY <1>1, <1>2, LosesAll
  <2>2. CallsTyped'
    BY <1>1, <2>1 DEF BidiInv, Typed, CallsTyped
  <2>3. ClientTyped'
    BY <1>1, <1>2 DEF BidiInv, Typed, ClientTyped
  <2>4. FramesTyped'
    BY <1>1, <1>2, EmptySeq DEF BidiInv, Typed, FramesTyped
  <2> QED
    BY <1>1, <2>2, <2>3, <2>4 DEF BidiInv, Typed, ServerTyped
<1>5. ClientEnds'
  <2>1. \A v \in Wrappers : wrapper'[v] \in InUse <=> v = current'
    BY <1>1, <1>2, <1>3 DEF BidiInv, ClientEnds, InUse
  <2>2. \A v \in Wrappers : wrapper'[v] = "open" <=> line'[v] # None
    BY <1>1, <1>2, <1>3 DEF BidiInv, ClientEnds
  <2>3. \A v \in retiring' : wrapper'[v] = "closed"
    BY <1>1, <1>2, <1>3 DEF BidiInv, Typed, ClientTyped, ClientEnds
  <2> QED
    BY <1>1, <2>1, <2>2, <2>3 DEF ClientEnds
<1>6. ServerEnds'
  BY <1>1 DEF BidiInv, ServerEnds
<1>7. CallsEnd' /\ AnswersAreOwn' /\ QueuesAreOwn'
  <2>1. \A v \in Wrappers : wrapper[v] = "open" => v = current
    BY DEF BidiInv, ClientEnds, InUse
  <2>2. /\ \A v \in Wrappers :
             wrapper'[v] = "open" <=> v # current /\ wrapper[v] = "open"
        /\ \A v \in Wrappers : v # current => line'[v] = line[v]
    BY <1>3, <2>1
  <2>3. \A v \in Wrappers :
          /\ held'[v] = held[v] \/ (held'[v] = <<>> /\ wrapper'[v] = "closed")
          /\ wrapper[v] = "closed" => wrapper'[v] = "closed"
    BY <1>1, <1>2, <1>3 DEF BidiInv, Typed, FramesTyped
  <2> QED
    BY <1>1, <1>2, <2>2, <2>3, ClosesKeep
<1> QED
  BY <1>4, <1>5, <1>6, <1>7 DEF BidiInv

\* The deferred dispose() of a mux, whose calls are lost by now
\* (socket-multiplexer.ts:117-140).
LEMMA MuxDisposesKeeps ==
  ASSUME BidiInv, NEW w \in Wrappers, MuxDisposes(w)
  PROVE  BidiInv'
<1>1. /\ w \in retiring /\ retiring' = retiring \ {w} /\ mux' = mux \ {w}
      /\ UNCHANGED <<wrapper, line, current, link, calls, owner, departed>>
      /\ UNCHANGED <<held, up, down>> /\ UNCHANGED <<lines, server, retired, smux>>
      /\ UNCHANGED <<c2s, serving, s2c, hosted, crossed>>
  BY DEF MuxDisposes, serverVars, callVars
<1>2. wrapper[w] = "closed" /\ w # current
  BY <1>1 DEF BidiInv, ClientEnds, InUse
<1>3. Typed'
  BY <1>1
  DEF BidiInv, Typed, FramesTyped, ClientTyped, ServerTyped, CallsTyped
<1>4. ClientEnds' /\ ServerEnds'
  BY <1>1, <1>2 DEF BidiInv, ClientEnds, ServerEnds
<1>5. CallsEnd' /\ AnswersAreOwn'
  BY <1>1, <1>2 DEF BidiInv, CallsEnd, AnswersAreOwn, Ongoing
<1>6. QueuesAreOwn'
  BY <1>1, QueuesStay DEF Queued, Ongoing
<1> QED
  BY <1>3, <1>4, <1>5, <1>6 DEF BidiInv

\* The server's close event: its mux listens, so every call is lost and every
\* execution ends (connection-handler.ts:495-502, connection-bidi.ts:121-135).
LEMMA ServerClosesKeeps ==
  ASSUME BidiInv, NEW l \in Lines, ServerCloses(l)
  PROVE  BidiInv'
<1>1. /\ server[l] = "open" /\ server' = [server EXCEPT ![l] = "closed"]
      /\ LoseAtServer(l) /\ retired' = retired \cup {l}
      /\ UNCHANGED <<wrapper, line, held, current, retiring, mux, link>>
      /\ UNCHANGED <<calls, owner, departed>>
      /\ UNCHANGED <<lines, up, down, smux, c2s, hosted, crossed>>
  BY DEF ServerCloses, clientVars
<1>2. /\ s2c' = [k \in S2C |-> IF k[1] = l /\ s2c[k] = "pending" THEN "lost" ELSE s2c[k]]
      /\ serving' = {v \in serving : v[2] # l}
  BY <1>1 DEF LoseAtServer, BidiInv, ServerEnds
<1>3. \A m \in Lines : server'[m] = IF m = l THEN "closed" ELSE server[m]
  BY <1>1 DEF BidiInv, Typed, ServerTyped
<1>4. Typed'
  <2>1. CallsTyped'
    BY <1>1, <1>2 DEF BidiInv, Typed, CallsTyped
  <2>2. ServerTyped'
    BY <1>1 DEF BidiInv, Typed, ServerTyped
  <2> QED
    BY <1>1, <2>1, <2>2 DEF BidiInv, Typed, FramesTyped, ClientTyped
<1>5. ClientEnds'
  BY <1>1 DEF BidiInv, ClientEnds
<1>6. ServerEnds'
  BY <1>1, <1>3 DEF BidiInv, Typed, ServerTyped, ServerEnds
<1>7. CallsEnd' /\ AnswersAreOwn'
  <2>1. \A k \in S2C : s2c'[k] = "pending" => k[1] \in smux' /\ server'[k[1]] = "open"
    <3>1. \A k \in S2C : k[1] \in Lines
      BY DEF S2C
    <3> QED
      BY <1>1, <1>2, <1>3, <3>1 DEF BidiInv, CallsEnd
  <2>2. \A v \in serving' : server'[v[2]] = "open"
    BY <1>2, <1>3 DEF BidiInv, Typed, CallsTyped, CallsEnd
  <2> QED
    BY <1>1, <2>1, <2>2 DEF BidiInv, CallsEnd, Ongoing, AnswersAreOwn
<1>8. QueuesAreOwn'
  BY <1>1, QueuesStay DEF Queued, Ongoing
<1> QED
  BY <1>4, <1>5, <1>6, <1>7, <1>8 DEF BidiInv

\* The deferred dispose() at the server.
LEMMA ServerMuxDisposesKeeps ==
  ASSUME BidiInv, NEW l \in Lines, ServerMuxDisposes(l)
  PROVE  BidiInv'
<1>1. /\ l \in retired /\ retired' = retired \ {l} /\ smux' = smux \ {l}
      /\ UNCHANGED <<wrapper, line, held, current, retiring, mux, link>>
      /\ UNCHANGED <<calls, owner, departed>>
      /\ UNCHANGED <<lines, up, down, server>>
      /\ UNCHANGED <<c2s, serving, s2c, hosted, crossed>>
  BY DEF ServerMuxDisposes, clientVars, callVars
<1>2. server[l] = "closed"
  BY <1>1 DEF BidiInv, ServerEnds
<1>3. Typed'
  BY <1>1
  DEF BidiInv, Typed, FramesTyped, ClientTyped, ServerTyped, CallsTyped
<1>4. ClientEnds' /\ ServerEnds'
  BY <1>1, <1>2 DEF BidiInv, ClientEnds, ServerEnds
<1>5. CallsEnd' /\ AnswersAreOwn'
  BY <1>1, <1>2 DEF BidiInv, CallsEnd, AnswersAreOwn, Ongoing
<1>6. QueuesAreOwn'
  BY <1>1, QueuesStay DEF Queued, Ongoing
<1> QED
  BY <1>3, <1>4, <1>5, <1>6 DEF BidiInv

-----------------------------------------------------------------------------
(***************************************************************************)
(* Calls and their frames.                                                 *)
(***************************************************************************)

\* What leaves wrappers, lines and muxes alone, ends calls but starts none, and
\* keeps the types.
LEMMA SettlesOnly ==
  ASSUME BidiInv, Typed',
         UNCHANGED <<wrapper, line, current, retiring, mux, link>>,
         UNCHANGED <<server, retired, smux>>, crossed' = FALSE,
         UNCHANGED <<calls, owner, departed>>,
         \A k \in C2S : Ongoing(k)' => Ongoing(k),
         \A v \in Wrappers, k \in C2S : Queued(v, k)' <=> Queued(v, k),
         \A k \in S2C : s2c'[k] = "pending" =>
           s2c[k] = "pending" \/ server[k[1]] = "open",
         \A v \in serving' : v \in serving \/ server[v[2]] = "open",
         \A h \in hosted' :
           h \in hosted \/ (wrapper[h[2]] = "open" /\ line[h[2]] = h[1][1])
  PROVE  BidiInv'
<1>1. ClientEnds' /\ ServerEnds'
  BY DEF BidiInv, ClientEnds, ServerEnds
<1>2. \A k \in departed' : Ongoing(k)' => owner'[k] \in mux' /\ wrapper'[owner'[k]] = "open"
  BY DEF BidiInv, CallsEnd, Typed, ClientTyped
<1>3. \A k \in S2C : s2c'[k] = "pending" => k[1] \in smux' /\ server'[k[1]] = "open"
  <2>1. \A k \in S2C : k[1] \in Lines
    BY DEF S2C
  <2> QED
    BY <2>1 DEF BidiInv, CallsEnd, ServerEnds
<1>4. \A v \in serving' : server'[v[2]] = "open"
  BY DEF BidiInv, CallsEnd
<1>5. \A h \in hosted' : wrapper'[h[2]] = "open" /\ line'[h[2]] = h[1][1]
  BY DEF BidiInv, CallsEnd, AnswersAreOwn
<1>6. CallsEnd'
  BY <1>2, <1>3, <1>4, <1>5 DEF CallsEnd, Ongoing
<1>7. AnswersAreOwn'
  BY <1>5 DEF AnswersAreOwn
<1>8. QueuesAreOwn'
  BY QueuesStay
<1> QED
  BY <1>1, <1>6, <1>7, <1>8 DEF BidiInv

\* A call goes out over the link, which is the current wrapper's
\* (link-factory.ts:42-157, orpc-client.ts:40-85).
LEMMA CallKeeps ==
  ASSUME BidiInv, NEW w \in Wrappers, Call(w)
  PROVE  BidiInv'
<1> DEFINE k == calls + 1
<1>1. /\ w \in Reachable /\ k \in C2S /\ link' = w /\ calls' = k
      /\ owner' = [owner EXCEPT ![k] = w]
      /\ c2s' = [c2s EXCEPT ![k] = "pending"]
      /\ ClientSends(w, Frame("c2s", "request", k))
      /\ departed' = IF line[w] = None THEN departed ELSE departed \cup {k}
      /\ UNCHANGED <<wrapper, line, lines, down, current, retiring, mux>>
      /\ UNCHANGED <<server, retired, smux>>
      /\ UNCHANGED <<serving, s2c, hosted, crossed>>
  BY DEF Call, serverVars
<1>made. k = calls + 1 /\ calls \in Nat
  BY DEF BidiInv, Typed, ClientTyped
<1> HIDE DEF k
<1>2. w = current /\ w \in mux
  <2>1. w = current /\ w # None
    BY <1>1 DEF Reachable, BidiInv, ClientEnds, Wrappers, None
  <2> QED
    BY <2>1 DEF BidiInv, ClientEnds
<1>3. /\ Frame("c2s", "request", k) \in UpFrames
  BY <1>1 DEF Frame, UpFrames
<1>4. Typed'
  <2>1. FramesTyped'
    BY <1>1, <1>3, SendsTyped DEF BidiInv, Typed, FramesTyped
  <2>2. calls' \in 0 .. MaxCalls
    BY <1>1 DEF C2S
  <2>3. ClientTyped'
    BY <1>1, <2>2 DEF BidiInv, Typed, ClientTyped
  <2>4. CallsTyped'
    BY <1>1 DEF BidiInv, Typed, CallsTyped, CallStates
  <2> QED
    BY <1>1, <2>1, <2>3, <2>4 DEF BidiInv, Typed, ServerTyped
<1>5. ClientEnds' /\ ServerEnds'
  BY <1>1, <1>2 DEF BidiInv, ClientEnds, ServerEnds
<1>6. CallsEnd' /\ AnswersAreOwn'
  <2>1. \A j \in departed' : Ongoing(j)' => owner'[j] \in mux' /\ wrapper'[owner'[j]] = "open"
    <3> SUFFICES ASSUME NEW j \in departed', Ongoing(j)'
                 PROVE  owner'[j] \in mux /\ wrapper[owner'[j]] = "open"
      BY <1>1
    <3>1. k \notin departed
      BY <1>1, <1>made DEF BidiInv, QueuesAreOwn, Typed, ClientTyped
    <3>2. CASE j = k
      <4>1. line[w] # None
        BY <1>1, <3>1, <3>2
      <4> QED
        BY <1>1, <1>2, <3>2, <4>1 DEF BidiInv, Typed, ClientTyped, ClientEnds
    <3>3. CASE j # k
      BY <1>1, <3>3 DEF BidiInv, Typed, ClientTyped, CallsTyped, CallsEnd, Ongoing
    <3> QED
      BY <3>2, <3>3
  <2> QED
    BY <1>1, <2>1 DEF BidiInv, CallsEnd, AnswersAreOwn, Ongoing
<1>7. QueuesAreOwn'
  <2>1. \A j \in C2S : Ongoing(j)' => owner'[j] \in Wrappers
    BY <1>1 DEF BidiInv, QueuesAreOwn, Typed, ClientTyped, CallsTyped, Ongoing
  <2>2. \A j \in departed' : j <= calls'
    BY <1>1, <1>made DEF BidiInv, QueuesAreOwn, Typed, ClientTyped, C2S
  <2>3. ASSUME NEW v \in Wrappers, NEW j \in C2S, Queued(v, j)'
        PROVE  j <= calls' /\ owner'[j] = v
    <3>1. Queued(v, j) \/ (v = w /\ j = k)
      BY <1>1, <1>3, <2>3, SendsQueue DEF BidiInv, Typed, Frame
    <3>2. CASE v = w /\ j = k
      BY <1>1, <1>made, <3>2 DEF BidiInv, Typed, ClientTyped
    <3>3. CASE Queued(v, j)
      <4>1. j <= calls /\ owner[j] = v /\ j \in Nat
        BY <3>3 DEF BidiInv, QueuesAreOwn, C2S
      <4> QED
        BY <1>1, <1>made, <4>1 DEF BidiInv, Typed, ClientTyped
    <3> QED
      BY <3>1, <3>2, <3>3
  <2>4. ASSUME NEW j \in C2S \ departed', Ongoing(j)'
        PROVE  Queued(owner[j], j)' \/ wrapper'[owner'[j]] = "closed"
    <3>1. CASE j = k
      <4>1. line[w] = None /\ owner'[j] = w
        BY <1>1, <2>4, <3>1 DEF BidiInv, Typed, ClientTyped
      <4>2. Queued(w, j)'
        BY <1>1, <1>3, <3>1, <4>1, StaysQueued DEF BidiInv, Typed
      <4> QED
        BY <4>1, <4>2 DEF Queued
    <3>2. CASE j # k
      <4>1. owner'[j] = owner[j] /\ j \in C2S \ departed /\ Ongoing(j)
        BY <1>1, <2>4, <3>2 DEF BidiInv, Typed, ClientTyped, CallsTyped, Ongoing
      <4>2. PICK v \in Wrappers : v = owner[j]
        BY <4>1 DEF BidiInv, QueuesAreOwn
      <4>3. Queued(v, j) \/ wrapper[v] = "closed"
        BY <4>1, <4>2 DEF BidiInv, QueuesAreOwn
      <4>4. Queued(v, j)' \/ wrapper'[v] = "closed"
        BY <1>1, <1>3, <4>3, StaysQueued DEF BidiInv, Typed
      <4> QED
        BY <4>1, <4>2, <4>4 DEF Queued
    <3> QED
      BY <3>1, <3>2
  <2> QED
    BY <2>1, <2>2, <2>3, <2>4 DEF QueuesAreOwn
<1> QED
  BY <1>4, <1>5, <1>6, <1>7 DEF BidiInv

\* A call is aborted by its consumer, and the server is told.
LEMMA AbortKeeps ==
  ASSUME BidiInv, NEW k \in C2S, Abort(k)
  PROVE  BidiInv'
<1>1. /\ Ongoing(k) /\ c2s' = [c2s EXCEPT ![k] = "aborted"]
      /\ ClientSends(owner[k], Frame("c2s", "abort", k))
      /\ UNCHANGED <<wrapper, line, current, retiring, mux, link>>
      /\ UNCHANGED <<lines, down, calls, owner, departed>>
      /\ UNCHANGED <<server, retired, smux>>
      /\ UNCHANGED <<serving, s2c, hosted, crossed>>
  BY DEF Abort, Ongoing, serverVars
<1>2. owner[k] \in Wrappers
  BY <1>1 DEF BidiInv, QueuesAreOwn
<1>3. Frame("c2s", "abort", k) \in UpFrames
  BY DEF Frame, UpFrames
<1>4. Typed'
  <2>1. FramesTyped'
    BY <1>1, <1>2, <1>3, SendsTyped DEF BidiInv, Typed, FramesTyped
  <2>2. CallsTyped'
    BY <1>1 DEF BidiInv, Typed, CallsTyped, CallStates
  <2> QED
    BY <1>1, <2>1, <2>2 DEF BidiInv, Typed, ServerTyped, ClientTyped
<1>5. \A j \in C2S : Ongoing(j)' => Ongoing(j)
  BY <1>1 DEF BidiInv, Typed, CallsTyped, Ongoing
<1>6. crossed' = FALSE
  BY <1>1 DEF BidiInv, AnswersAreOwn, Typed, CallsTyped
<1>q. \A v \in Wrappers, j \in C2S : Queued(v, j)' <=> Queued(v, j)
  <2>1. \A j \in C2S : Frame("c2s", "abort", k) # Frame("c2s", "request", j)
    BY DEF Frame
  <2> QED
    BY <1>1, <1>2, <1>3, <2>1, SendsQueue, StaysQueued DEF BidiInv, Typed
<1> QED
  BY <1>1, <1>4, <1>5, <1>6, <1>q, SettlesOnly

\* A procedure of the server emits an event, ends or fails.
LEMMA ServesKeep ==
  ASSUME BidiInv, NEW k \in C2S, NEW l \in Lines,
         NEW kind \in {"event", "end", "fail"}, Serves(k, l, kind)
  PROVE  BidiInv'
<1>1. /\ down' = [down EXCEPT ![l] = Append(@, Frame("c2s", kind, k))]
      /\ serving' \subseteq serving
      /\ UNCHANGED <<wrapper, line, current, retiring, mux, link>>
      /\ UNCHANGED <<held, up, lines, calls, owner, departed>>
      /\ UNCHANGED <<server, retired, smux>>
      /\ UNCHANGED <<c2s, s2c, hosted, crossed>>
  BY DEF Serves, clientVars, serverVars
<1>2. Frame("c2s", kind, k) \in DownFrames
  BY DEF Frame, DownFrames
<1>3. Typed'
  <2>1. down' \in [Lines -> Seq(DownFrames)]
    BY <1>1, <1>2, ServerSendsTyped DEF BidiInv, Typed
  <2> QED
    BY <1>1, <2>1
    DEF BidiInv, Typed, FramesTyped, ServerTyped, ClientTyped, CallsTyped
<1>4. \A j \in C2S : Ongoing(j)' => Ongoing(j)
  BY <1>1 DEF Ongoing
<1>5. crossed' = FALSE
  BY <1>1 DEF BidiInv, AnswersAreOwn, Typed, CallsTyped
<1>q. \A v \in Wrappers, j \in C2S : Queued(v, j)' <=> Queued(v, j)
  BY <1>1 DEF Queued
<1> QED
  BY <1>1, <1>3, <1>4, <1>5, <1>q, SettlesOnly

\* The server calls the client on a live connection (server-client-link.ts:61-99).
LEMMA AsksKeep ==
  ASSUME BidiInv, NEW l \in Lines, Asks(l)
  PROVE  BidiInv'
<1>1. PICK i \in 1 .. MaxIds :
        /\ s2c' = [s2c EXCEPT ![<<l, i>>] = "pending"]
        /\ down' = [down EXCEPT ![l] = Append(@, Frame("s2c", "request", i))]
  BY DEF Asks
<1>2. /\ server[l] = "open"
      /\ UNCHANGED <<wrapper, line, current, retiring, mux, link>>
      /\ UNCHANGED <<held, up, lines, calls, owner, departed>>
      /\ UNCHANGED <<server, retired, smux>>
      /\ UNCHANGED <<c2s, serving, hosted, crossed>>
  BY DEF Asks, clientVars, serverVars
<1>3. Frame("s2c", "request", i) \in DownFrames
  BY DEF Frame, DownFrames
<1>4. <<l, i>> \in S2C
  BY DEF S2C
<1>5. Typed'
  <2>1. down' \in [Lines -> Seq(DownFrames)]
    BY <1>1, <1>3, ServerSendsTyped DEF BidiInv, Typed
  <2>2. CallsTyped'
    BY <1>1, <1>2, <1>4 DEF BidiInv, Typed, CallsTyped
  <2> QED
    BY <1>2, <2>1, <2>2 DEF BidiInv, Typed, FramesTyped, ServerTyped, ClientTyped
<1>6. \A k \in S2C : s2c'[k] = "pending" =>
        s2c[k] = "pending" \/ server[k[1]] = "open"
  <2> SUFFICES ASSUME NEW k \in S2C, s2c'[k] = "pending", k # <<l, i>>
               PROVE  s2c[k] = "pending"
    BY <1>2
  <2> QED
    BY <1>1 DEF BidiInv, Typed, CallsTyped
<1>7. \A j \in C2S : Ongoing(j)' => Ongoing(j)
  BY <1>2 DEF Ongoing
<1>8. crossed' = FALSE
  BY <1>2 DEF BidiInv, AnswersAreOwn, Typed, CallsTyped
<1>q. \A v \in Wrappers, j \in C2S : Queued(v, j)' <=> Queued(v, j)
  BY <1>2 DEF Queued
<1> QED
  BY <1>2, <1>5, <1>6, <1>7, <1>8, <1>q, SettlesOnly

\* A hosted procedure answers (client-router-host.ts:65-151).
LEMMA HostsKeep ==
  ASSUME BidiInv, NEW k \in S2C, NEW w \in Wrappers, Hosts(k, w)
  PROVE  BidiInv'
<1>1. /\ hosted' \subseteq hosted
      /\ ClientSends(w, Frame("s2c", "answer", k[2]))
      /\ UNCHANGED <<wrapper, line, current, retiring, mux, link>>
      /\ UNCHANGED <<lines, down, calls, owner, departed>>
      /\ UNCHANGED <<server, retired, smux>>
      /\ UNCHANGED <<c2s, serving, s2c, crossed>>
  BY DEF Hosts, serverVars
<1>2. k[2] \in 1 .. MaxIds
  BY DEF S2C
<1>3. Frame("s2c", "answer", k[2]) \in UpFrames
  BY <1>2 DEF Frame, UpFrames
<1>4. Typed'
  <2>1. FramesTyped'
    BY <1>1, <1>3, SendsTyped DEF BidiInv, Typed, FramesTyped
  <2>2. CallsTyped'
    BY <1>1 DEF BidiInv, Typed, CallsTyped
  <2> QED
    BY <1>1, <2>1, <2>2 DEF BidiInv, Typed, ServerTyped, ClientTyped
<1>5. \A j \in C2S : Ongoing(j)' => Ongoing(j)
  BY <1>1 DEF Ongoing
<1>6. crossed' = FALSE
  BY <1>1 DEF BidiInv, AnswersAreOwn, Typed, CallsTyped
<1>q. \A v \in Wrappers, j \in C2S : Queued(v, j)' <=> Queued(v, j)
  <2>1. \A j \in C2S : Frame("s2c", "answer", k[2]) # Frame("c2s", "request", j)
    BY DEF Frame
  <2> QED
    BY <1>1, <1>3, <2>1, SendsQueue, StaysQueued DEF BidiInv, Typed
<1> QED
  BY <1>1, <1>4, <1>5, <1>6, <1>q, SettlesOnly

\* The client's mux dispatches by the tag: a response to the peer that calls, a
\* request to the one that answers (socket-multiplexer.ts:178-193).
LEMMA ClientReceivesKeeps ==
  ASSUME BidiInv, NEW w \in Wrappers, ClientReceives(w)
  PROVE  BidiInv'
<1> DEFINE l == line[w]
           frame == Head(down[l])
<1>1. /\ wrapper[w] = "open" /\ down[l] # <<>>
      /\ down' = [down EXCEPT ![l] = Tail(@)]
      /\ IF frame.channel = "c2s"
         THEN Responds(frame) /\ UNCHANGED hosted
         ELSE hosted' = hosted \cup {<<<<l, frame.id>>, w>>} /\ UNCHANGED <<c2s, crossed>>
      /\ UNCHANGED <<wrapper, line, current, retiring, mux, link>>
      /\ UNCHANGED <<held, up, lines, calls, owner, departed>>
      /\ UNCHANGED <<server, retired, smux>> /\ UNCHANGED <<serving, s2c>>
  BY DEF ClientReceives, ChannelOf, clientVars, serverVars
<1>2. l \in Lines
  BY <1>1 DEF BidiInv, Typed, ClientTyped, ClientEnds
<1>3. frame \in DownFrames /\ Tail(down[l]) \in Seq(DownFrames)
  <2>1. down[l] \in Seq(DownFrames)
    BY <1>2 DEF BidiInv, Typed, FramesTyped
  <2> QED
    BY <1>1, <2>1, HeadTailProperties
<1> HIDE DEF frame
<1>4. crossed' = FALSE /\ c2s' \in [C2S -> CallStates]
  <2>1. crossed = FALSE /\ c2s \in [C2S -> CallStates]
    BY DEF BidiInv, AnswersAreOwn, Typed, CallsTyped
  <2> QED
    BY <1>1, <2>1 DEF Responds, CallStates
<1>5. \A k \in C2S : Ongoing(k)' => Ongoing(k)
  BY <1>1 DEF Responds, Ongoing, BidiInv, Typed, CallsTyped
<1>6. \/ hosted' = hosted
      \/ hosted' = hosted \cup {<<<<l, frame.id>>, w>>} /\ <<l, frame.id>> \in S2C
  <2>1. frame.channel # "c2s" => frame.id \in 1 .. MaxIds
    BY <1>3 DEF DownFrames
  <2> QED
    BY <1>1, <1>2, <2>1 DEF S2C
<1>7. Typed'
  <2>1. FramesTyped'
    BY <1>1, <1>2, <1>3 DEF BidiInv, Typed, FramesTyped
  <2>2. hosted' \subseteq S2C \X Wrappers
    BY <1>6 DEF BidiInv, Typed, CallsTyped
  <2>3. CallsTyped'
    BY <1>1, <1>4, <2>2 DEF BidiInv, Typed, CallsTyped
  <2> QED
    BY <1>1, <2>1, <2>3 DEF BidiInv, Typed, ServerTyped, ClientTyped
<1>8. \A h \in hosted' :
        h \in hosted \/ (wrapper[h[2]] = "open" /\ line[h[2]] = h[1][1])
  BY <1>1, <1>6
<1>q. \A v \in Wrappers, j \in C2S : Queued(v, j)' <=> Queued(v, j)
  BY <1>1 DEF Queued
<1> QED
  BY <1>1, <1>4, <1>5, <1>7, <1>8, <1>q, SettlesOnly

\* And the server's.
LEMMA ServerReceivesKeeps ==
  ASSUME BidiInv, NEW l \in Lines, ServerReceives(l)
  PROVE  BidiInv'
<1> DEFINE frame == Head(up[l])
           call == <<l, frame.id>>
<1>1. /\ server[l] = "open" /\ up[l] # <<>>
      /\ up' = [up EXCEPT ![l] = Tail(@)]
      /\ \/ /\ frame.channel = "s2c"
            /\ s2c' = IF call \in S2C /\ s2c[call] = "pending"
                      THEN [s2c EXCEPT ![call] = "answered"] ELSE s2c
            /\ crossed' = (crossed \/ frame.channel # "s2c")
            /\ UNCHANGED serving
         \/ /\ frame.channel # "s2c"
            /\ serving' = IF frame.kind = "request" THEN serving \cup {<<frame.id, l>>}
                          ELSE serving \ {<<frame.id, l>>}
            /\ UNCHANGED <<s2c, crossed>>
      /\ UNCHANGED <<wrapper, line, current, retiring, mux, link>>
      /\ UNCHANGED <<held, down, lines, calls, owner, departed>>
      /\ UNCHANGED <<server, retired, smux>> /\ UNCHANGED <<c2s, hosted>>
  BY DEF ServerReceives, ChannelOf, clientVars, serverVars
<1>2. frame \in UpFrames /\ Tail(up[l]) \in Seq(UpFrames)
  <2>1. up[l] \in Seq(UpFrames)
    BY DEF BidiInv, Typed, FramesTyped
  <2> QED
    BY <1>1, <2>1, HeadTailProperties
<1> HIDE DEF frame
<1>3. crossed' = FALSE
  <2>1. crossed = FALSE
    BY DEF BidiInv, AnswersAreOwn, Typed, CallsTyped
  <2> QED
    BY <1>1, <2>1
<1>4. /\ s2c' \in [S2C -> {"none", "pending", "answered", "lost"}]
      /\ \A k \in S2C : s2c'[k] = "pending" => s2c[k] = "pending"
  BY <1>1 DEF BidiInv, Typed, CallsTyped
<1>5. /\ serving' \subseteq C2S \X Lines
      /\ \A v \in serving' : v \in serving \/ v[2] = l
  <2>1. frame.channel # "s2c" => frame.id \in C2S
    BY <1>2 DEF UpFrames
  <2> QED
    BY <1>1, <2>1 DEF BidiInv, Typed, CallsTyped
<1>6. Typed'
  <2>1. FramesTyped'
    BY <1>1, <1>2 DEF BidiInv, Typed, FramesTyped
  <2>2. CallsTyped'
    BY <1>1, <1>3, <1>4, <1>5 DEF BidiInv, Typed, CallsTyped
  <2> QED
    BY <1>1, <2>1, <2>2 DEF BidiInv, Typed, ServerTyped, ClientTyped
<1>7. \A k \in C2S : Ongoing(k)' => Ongoing(k)
  BY <1>1 DEF Ongoing
<1>q. \A v \in Wrappers, j \in C2S : Queued(v, j)' <=> Queued(v, j)
  BY <1>1 DEF Queued
<1> QED
  BY <1>1, <1>3, <1>4, <1>5, <1>6, <1>7, <1>q, SettlesOnly

-----------------------------------------------------------------------------
(***************************************************************************)
(* The steps together.                                                     *)
(***************************************************************************)

\* Every step of connections, peers and consumer keeps the invariant.
LEMMA BidiStep == BidiInv /\ [Next]_vars => BidiInv'
<1> SUFFICES ASSUME BidiInv, [Next]_vars PROVE BidiInv'
  OBVIOUS
<1>1. CASE Connection
  BY <1>1, CreateKeeps, AttemptKeeps, OpensKeeps, DropsKeep, SwapKeeps, MuxDisposesKeeps,
     TearDownKeeps, ServerClosesKeeps, ServerMuxDisposesKeeps
  DEF Connection
<1>2. CASE Peers
  BY <1>2, AsksKeep, ServerReceivesKeeps, ServesKeep, HostsKeep,
     ClientReceivesKeeps
  DEF Peers
<1>3. CASE Consumer
  BY <1>3, CallKeeps, AbortKeeps DEF Consumer
<1>4. CASE UNCHANGED vars
  BY <1>4
  DEF vars, clientVars, serverVars, callVars, BidiInv, Typed, FramesTyped,
      ClientTyped, ServerTyped, CallsTyped, ClientEnds, ServerEnds, CallsEnd,
      QueuesAreOwn, Queued, Ongoing, AnswersAreOwn
<1> QED
  BY <1>1, <1>2, <1>3, <1>4 DEF Next

\* Nothing is connected at first (index.ts:415-433).
LEMMA BidiInit == Init => BidiInv
<1> SUFFICES ASSUME Init PROVE BidiInv
  OBVIOUS
<1>1. FramesTyped
  BY EmptySeq DEF Init, FramesTyped
<1>2. ClientTyped /\ ServerTyped /\ CallsTyped
  <2>1. 0 \in 0 .. MaxCalls /\ 0 \in 0 .. MaxLines
    BY BoundsAssumption
  <2>2. ClientTyped
    BY <2>1 DEF Init, ClientTyped
  <2>3. ServerTyped
    BY <2>1 DEF Init, ServerTyped
  <2>4. CallsTyped
    BY DEF Init, CallsTyped, CallStates
  <2> QED
    BY <2>2, <2>3, <2>4
<1>3. ClientEnds /\ ServerEnds
  BY DEF Init, ClientEnds, ServerEnds, InUse, Wrappers, None
<1>4. CallsEnd /\ AnswersAreOwn /\ QueuesAreOwn
  BY DEF Init, CallsEnd, Ongoing, AnswersAreOwn, QueuesAreOwn, Queued
<1> QED
  BY <1>1, <1>2, <1>3, <1>4 DEF BidiInv, Typed

\* The invariant of the channels, however lines, wrappers and calls end.
LEMMA BidiIsKept == Spec => []BidiInv
  BY BidiInit, BidiStep, PTL DEF Spec

\* For any number of wrappers, lines and calls: a call that may have reached the
\* server has a mux and a line that will tell of its end, an execution has its
\* connection, and the link is of the current wrapper (client-bidi.ts:38-51,
\* connection-bidi.ts:20-38).
THEOREM CallsAreSettled == Spec => []NoCallHangs
<1>1. ASSUME BidiInv PROVE NoCallHangs
  <2>1. TypeOK
    BY <1>1, TypedIsTypeOK DEF BidiInv
  <2>2. link # None => link = current /\ wrapper[link] # "closed"
    BY <1>1 DEF BidiInv, ClientEnds, InUse, Typed, ClientTyped
  <2> QED
    BY <1>1, <2>1, <2>2 DEF BidiInv, CallsEnd, QueuesAreOwn, NoCallHangs
<1> QED
  BY <1>1, BidiIsKept, PTL

\* For any number of wrappers, lines and calls: no request of one side is taken
\* for an answer of the other, and no answer crosses to another connection
\* (socket-multiplexer.ts:178-193).
THEOREM NothingCrosses == Spec => []AnswersAreOwn
<1>1. BidiInv => AnswersAreOwn
  BY DEF BidiInv
<1> QED
  BY <1>1, BidiIsKept, PTL

-----------------------------------------------------------------------------
(***************************************************************************)
(* The other way in, uploads over HTTP, which share no state with the      *)
(* socket: for any number of uploads and tokens.                           *)
(***************************************************************************)
\* The server gives a new token its time: it never wants one that was not issued
\* yet, but for the one a refresh is to bring.
TokensAreIssued ==
  /\ accepted <= token + 1
  /\ window = "auth" /\ ~recovering => accepted <= token

\* A 401 is the verdict on the token in the request's header, and nobody else
\* answers a request that was not verified (http-handler.ts:257-282).
RefusedForItsToken ==
  \A r \in Requests :
    /\ reply[r] = "401" => sent[r] < accepted
    /\ upload[r] = "none" => stage[r] = "none"
    /\ stage[r] = "none" => reply[r] = "none"
    /\ r \in passed => stage[r] = "done"

UploadInv ==
  /\ NoStaleLogout
  /\ TokensAreIssued
  /\ RefusedForItsToken

\* client.upload() sends the token of the moment, or nothing.
LEMMA UploadKeeps ==
  ASSUME UploadInv, NEW r \in Requests, Upload(r)
  PROVE  UploadInv'
<1>1. NoStaleLogout'
  BY DEF UploadInv, NoStaleLogout, HttpTypeOK, Upload
<1>2. TokensAreIssued'
  BY DEF UploadInv, TokensAreIssued, Upload
<1>3. RefusedForItsToken'
  BY DEF UploadInv, NoStaleLogout, HttpTypeOK, RefusedForItsToken, Upload
<1> QED
  BY <1>1, <1>2, <1>3 DEF UploadInv

\* A rejected upload starts a refresh, or finds its token replaced: the second
\* failure within the window would be of a token the server still accepts
\* (orpc-http-strategy.ts:108-121).
LEMMA RespondsKeeps ==
  ASSUME UploadInv, NEW r \in Requests, FetchReturns(r)
  PROVE  UploadInv'
<1>1. upload' = [upload EXCEPT ![r] = IF reply[r] = "200" THEN "resolved" ELSE "rejected"]
      /\ UNCHANGED <<token, sent, accepted, express, stage, reply, body, stripped, passed>>
  BY DEF FetchReturns, Settles, handlerVars
<1>2. CASE reply[r] = "401" /\ sent[r] = token
  <2>1. token < accepted
    BY <1>2 DEF UploadInv, RefusedForItsToken
  <2>2. token \in Nat /\ accepted \in Nat
    BY DEF UploadInv, NoStaleLogout, HttpTypeOK, Tokens
  <2>3. window # "auth" \/ recovering
    BY <2>1, <2>2 DEF UploadInv, TokensAreIssued
  <2>4. Recovers
    BY <1>2 DEF FetchReturns, Settles
  <2>5. \/ UNCHANGED <<dead, recovering, window, loggedOut>>
        \/ /\ recovering' = TRUE /\ window' = "auth"
           /\ UNCHANGED <<dead, loggedOut>>
    BY <2>3, <2>4 DEF Recovers
  <2>6. NoStaleLogout'
    <3>1. {dead, recovering, loggedOut, express} \subseteq BOOLEAN /\ ~loggedOut
      BY DEF UploadInv, NoStaleLogout, HttpTypeOK
    <3>2. {dead, recovering, loggedOut, express}' \subseteq BOOLEAN /\ ~loggedOut'
      <4>1. recovering' = recovering \/ recovering' = TRUE
        BY <2>5
      <4>2. dead' = dead /\ loggedOut' = loggedOut /\ express' = express
        BY <1>1, <2>5
      <4> QED
        BY <3>1, <4>1, <4>2, Zenon
    <3>3. window' \in {"closed", "routine", "auth"}
      BY <2>5 DEF UploadInv, NoStaleLogout, HttpTypeOK
    <3>4. upload' \in [Requests -> {"none", "pending", "resolved", "rejected"}]
      BY <1>1 DEF UploadInv, NoStaleLogout, HttpTypeOK
    <3> QED
      BY <1>1, <3>2, <3>3, <3>4, Zenon
      DEF UploadInv, NoStaleLogout, HttpTypeOK, Tokens
  <2>7. TokensAreIssued'
    BY <1>1, <2>5 DEF UploadInv, TokensAreIssued
  <2>8. RefusedForItsToken'
    BY <1>1 DEF UploadInv, NoStaleLogout, HttpTypeOK, RefusedForItsToken
  <2> QED
    BY <2>6, <2>7, <2>8 DEF UploadInv
<1>3. CASE ~(reply[r] = "401" /\ sent[r] = token)
  <2>1. UNCHANGED <<dead, recovering, window, loggedOut>>
    BY <1>3 DEF FetchReturns, Settles
  <2>2. NoStaleLogout' /\ TokensAreIssued'
    BY <1>1, <2>1 DEF UploadInv, NoStaleLogout, HttpTypeOK, TokensAreIssued
  <2>3. RefusedForItsToken'
    BY <1>1 DEF UploadInv, NoStaleLogout, HttpTypeOK, RefusedForItsToken
  <2> QED
    BY <2>2, <2>3 DEF UploadInv
<1> QED
  BY <1>2, <1>3

\* A lost connection rejects the upload and tells nothing of its token.
LEMMA BreaksKeeps ==
  ASSUME UploadInv, NEW r \in Requests, Breaks(r)
  PROVE  UploadInv'
  BY DEF UploadInv, NoStaleLogout, HttpTypeOK, TokensAreIssued,
     RefusedForItsToken, Breaks, handlerVars

\* Tokens are issued, windows expire and tokens are revoked apart from requests.
LEMMA TokensKeep ==
  ASSUME UploadInv,
         \/ Refreshes \/ WindowExpires \/ Rotates \/ Dies
         \/ Revokes
  PROVE  UploadInv'
<1>1. token \in Nat /\ accepted \in Nat /\ sent \in [Requests -> Nat]
  BY DEF UploadInv, NoStaleLogout, HttpTypeOK, Tokens, NoToken
<1>2. /\ UNCHANGED <<upload, sent, stage, reply, body, stripped, express, passed>>
      /\ accepted' \in Nat /\ accepted <= accepted'
  BY <1>1 DEF Refreshes, WindowExpires, Rotates, Dies,
     Revokes, handlerVars, uploaderVars
<1>3. RefusedForItsToken'
  BY <1>1, <1>2 DEF UploadInv, RefusedForItsToken
<1>4. NoStaleLogout' /\ TokensAreIssued'
  <2>1. CASE Refreshes
    <3>1. /\ token' = token + 1 /\ token < MaxRotations + 1
          /\ recovering' = FALSE
          /\ UNCHANGED <<dead, window, loggedOut, accepted>>
      BY <2>1 DEF Refreshes
    <3>2. TokensAreIssued'
      BY <1>1, <3>1 DEF UploadInv, TokensAreIssued
    <3>3. token' \in Tokens
      BY <1>1, <3>1, BoundAssumption DEF Tokens
    <3>4. {dead, recovering, loggedOut, express}' \subseteq BOOLEAN /\ ~loggedOut'
      <4>1. {dead, recovering, loggedOut, express} \subseteq BOOLEAN /\ ~loggedOut
        BY DEF UploadInv, NoStaleLogout, HttpTypeOK
      <4> QED
        BY <1>2, <3>1, <4>1, Zenon
    <3> QED
      BY <1>2, <3>1, <3>2, <3>3, <3>4, Zenon
      DEF UploadInv, NoStaleLogout, HttpTypeOK, Tokens
  <2>2. CASE WindowExpires
    BY <2>2 DEF UploadInv, NoStaleLogout, HttpTypeOK, TokensAreIssued,
       WindowExpires, handlerVars
  <2>3. CASE Rotates
    BY <2>3 DEF UploadInv, NoStaleLogout, HttpTypeOK, TokensAreIssued,
       Rotates, handlerVars
  <2>4. CASE Dies
    BY <2>4 DEF UploadInv, NoStaleLogout, HttpTypeOK, TokensAreIssued,
       Dies, handlerVars
  <2>5. CASE Revokes
    BY <1>1, <2>5, BoundAssumption DEF UploadInv, NoStaleLogout, HttpTypeOK, Tokens,
       TokensAreIssued, Revokes, handlerVars, uploaderVars
  <2> QED
    BY <2>1, <2>2, <2>3, <2>4, <2>5
<1> QED
  BY <1>3, <1>4 DEF UploadInv

\* The server answers 401 to what verifyClient refuses and to nothing else
\* (http-handler.ts:257-382).
LEMMA ServerKeeps ==
  ASSUME UploadInv, NEW r \in Requests,
         \/ Verifies(r) \/ Gates(r) \/ Handles(r)
         \/ Unmatched(r) \/ Throws(r) \/ OthersAnswer(r)
  PROVE  UploadInv'
<1>1. UNCHANGED <<token, accepted, dead, recovering, window, loggedOut, upload, sent,
                  express>>
  BY DEF Verifies, Gates, Handles, Unmatched, Throws,
     OthersAnswer, uploaderVars
<1>2. TokensAreIssued'
  BY <1>1 DEF UploadInv, TokensAreIssued
<1>3. /\ HttpTypeOK'
      /\ \A q \in Requests : stage[q] = "none" <=> stage'[q] = "none"
      /\ \A q \in Requests : stage[q] = "done" => stage'[q] = "done"
      /\ \A q \in Requests : reply'[q] # reply[q] =>
           stage[q] # "none" /\ (reply'[q] = "401" => sent[q] < accepted)
      /\ \A q \in Requests : q \in passed' => q \in passed \/ stage'[q] = "done"
  <2>1. CASE Verifies(r)
    BY <1>1, <2>1 DEF UploadInv, NoStaleLogout, HttpTypeOK, Verifies,
       Advances, RejectsEarly, Writes
  <2>2. CASE Gates(r)
    BY <1>1, <2>2 DEF UploadInv, NoStaleLogout, HttpTypeOK, Gates,
       Advances, RejectsEarly, Writes
  <2>3. CASE Handles(r)
    BY <1>1, <2>3 DEF UploadInv, NoStaleLogout, HttpTypeOK, Handles,
       Writes
  <2>4. CASE Unmatched(r)
    BY <1>1, <2>4 DEF UploadInv, NoStaleLogout, HttpTypeOK, Unmatched,
       HandsOn, Writes
  <2>5. CASE Throws(r)
    BY <1>1, <2>5 DEF UploadInv, NoStaleLogout, HttpTypeOK, Throws,
       HandsOn, Writes
  <2>6. CASE OthersAnswer(r)
    BY <1>1, <2>6 DEF UploadInv, NoStaleLogout, HttpTypeOK, RefusedForItsToken,
       OthersAnswer, Writes
  <2> QED
    BY <2>1, <2>2, <2>3, <2>4, <2>5, <2>6
<1>4. RefusedForItsToken'
  BY <1>1, <1>3 DEF UploadInv, NoStaleLogout, HttpTypeOK, RefusedForItsToken
<1> QED
  BY <1>1, <1>2, <1>3, <1>4 DEF UploadInv, NoStaleLogout

\* The invariant of the uploads, in whatever order client, server and network act.
LEMMA UploadsAreKept == HttpSpec => []UploadInv
<1>1. HttpInit => UploadInv
  <2> SUFFICES ASSUME HttpInit PROVE UploadInv
    OBVIOUS
  <2>1. TokensAreIssued /\ RefusedForItsToken
    BY DEF HttpInit, TokensAreIssued, RefusedForItsToken
  <2>2. token \in Tokens /\ accepted \in 1 .. (MaxRotations + 2)
    BY BoundAssumption DEF HttpInit, Tokens
  <2>3. {dead, recovering, loggedOut, express} \subseteq BOOLEAN /\ ~loggedOut
    BY Zenon DEF HttpInit
  <2>4. /\ window \in {"closed", "routine", "auth"}
        /\ sent \in [Requests -> Tokens \cup {NoToken}]
        /\ upload \in [Requests -> {"none", "pending", "resolved", "rejected"}]
        /\ stage \in [Requests -> {"none", "verifying", "gating", "handling", "done"}]
        /\ reply \in [Requests -> {"none", "200", "401", "403", "404", "500", "cut"}]
        /\ body \in [Requests -> {"inbound", "read", "destroyed"}]
        /\ stripped \subseteq Requests /\ passed \subseteq Requests
    BY DEF HttpInit
  <2> QED
    BY <2>1, <2>2, <2>3, <2>4, Zenon DEF UploadInv, NoStaleLogout, HttpTypeOK
<1>2. UploadInv /\ [HttpNext]_httpVars => UploadInv'
  <2> SUFFICES ASSUME UploadInv, [HttpNext]_httpVars PROVE UploadInv'
    OBVIOUS
  <2>1. CASE Client
    BY <2>1, UploadKeeps, RespondsKeeps, BreaksKeeps, TokensKeep DEF Client
  <2>2. CASE Server
    BY <2>2, ServerKeeps, TokensKeep DEF Server
  <2>3. CASE UNCHANGED httpVars
    BY <2>3 DEF UploadInv, NoStaleLogout, HttpTypeOK, TokensAreIssued,
       RefusedForItsToken, httpVars, uploaderVars, handlerVars
  <2> QED
    BY <2>1, <2>2, <2>3 DEF HttpNext
<1> QED
  BY <1>1, <1>2, PTL DEF HttpSpec

\* For any number of uploads and tokens, with a server that gives a new token its
\* time: no order of rejected uploads, refreshes and rotations logs the user out
\* (H2, orpc-http-strategy.ts:108-121).
THEOREM StaleTokensLogNobodyOut == HttpSpec => []NoStaleLogout
<1>1. UploadInv => NoStaleLogout
  BY DEF UploadInv
<1> QED
  BY <1>1, UploadsAreKept, PTL

\* Who is handed a request finds its URL as it arrived, after whatever the hooks
\* and the handler did: the prefix is back before next() runs, and is not
\* stripped again (http-handler.ts:257-282, :363-382).
THEOREM HandedOnAsItArrived == HttpSpec => [](passed \cap stripped = {})
<1> DEFINE Restored == passed \cap stripped = {} /\ \A r \in passed : stage[r] = "done"
<1>1. HttpInit => Restored
  BY DEF HttpInit
<1>2. UploadInv /\ Restored /\ [HttpNext]_httpVars => Restored'
  <2> SUFFICES ASSUME UploadInv, Restored, [HttpNext]_httpVars PROVE Restored'
    OBVIOUS
  <2>1. CASE Client
    <3>1. UNCHANGED <<stripped, passed>>
      BY <2>1 DEF Client, Upload, FetchReturns, Settles, Breaks,
         Refreshes, WindowExpires, Rotates, Dies, handlerVars
    <3>2. \A r \in Requests : stage[r] = "done" => stage'[r] = "done"
      <4>1. CASE \E r \in Requests : Upload(r)
        BY <4>1 DEF UploadInv, NoStaleLogout, HttpTypeOK, RefusedForItsToken,
           Upload
      <4>2. CASE ~\E r \in Requests : Upload(r)
        BY <2>1, <4>2 DEF Client, FetchReturns, Settles, Breaks,
           Refreshes, WindowExpires, Rotates, Dies, handlerVars
      <4> QED
        BY <4>1, <4>2
    <3> QED
      BY <3>1, <3>2 DEF UploadInv, NoStaleLogout, HttpTypeOK
  <2>2. CASE Server
    <3>1. CASE Revokes
      BY <3>1 DEF Revokes, handlerVars
    <3>2. ASSUME NEW r \in Requests,
                 \/ Verifies(r) \/ Gates(r) \/ Handles(r)
                 \/ Unmatched(r) \/ Throws(r) \/ OthersAnswer(r)
          PROVE  Restored'
      <4>1. CASE Verifies(r)
        BY <4>1 DEF UploadInv, NoStaleLogout, HttpTypeOK, Verifies,
           Advances, RejectsEarly
      <4>2. CASE Gates(r)
        BY <4>2 DEF UploadInv, NoStaleLogout, HttpTypeOK, Gates,
           Advances, RejectsEarly
      <4>3. CASE Handles(r)
        BY <4>3 DEF UploadInv, NoStaleLogout, HttpTypeOK, Handles
      <4>4. CASE Unmatched(r)
        BY <4>4 DEF UploadInv, NoStaleLogout, HttpTypeOK, Unmatched,
           HandsOn
      <4>5. CASE Throws(r)
        BY <4>5 DEF UploadInv, NoStaleLogout, HttpTypeOK, Throws,
           HandsOn
      <4>6. CASE OthersAnswer(r)
        BY <4>6 DEF OthersAnswer
      <4> QED
        BY <3>2, <4>1, <4>2, <4>3, <4>4, <4>5, <4>6
    <3> QED
      BY <2>2, <3>1, <3>2 DEF Server
  <2>3. CASE UNCHANGED httpVars
    BY <2>3 DEF httpVars, handlerVars
  <2> QED
    BY <2>1, <2>2, <2>3 DEF HttpNext
<1> QED
  BY <1>1, <1>2, UploadsAreKept, PTL DEF HttpSpec
=============================================================================
