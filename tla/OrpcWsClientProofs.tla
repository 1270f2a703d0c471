-------------------------- MODULE OrpcWsClientProofs --------------------------
(***************************************************************************)
(* Theorems about OrpcWsClient for every number of wrappers and every      *)
(* deployment: both kinds of authentication, any faults, re-entrant calls. *)
(* The second half is about a client's death, its manager, its logouts,    *)
(* its way back and what it promises its consumer; what concerns a dead    *)
(* client is for consumers that call back only where the code expects it.  *)
(***************************************************************************)
EXTENDS OrpcWsClient, TLAPS

\* A connect() suspended in its state listeners has no wrapper yet: nothing
\* but its own remainder creates one (client-lifecycle.ts:274-281).
ConnectHoldsNothing == frame = "connect" => holder = NoWs

\* The wrapper whose close event a swap dispatches is never the held one: a
\* re-entrant connect() creates another (token-refresh-handler.ts:297-368).
ClosingIsReplaced == closing # NoWs => frame = "swap" /\ closing # holder

SocketStates == {"closed", "backoff", "handshake", "open", "halfopen"}

IInv ==
  /\ sock \in [Wrappers -> SocketStates]
  /\ LiveSocketIsHeld
  /\ ConnectHoldsNothing
  /\ ClosingIsReplaced

\* WebSocketFactory.create on an empty holder keeps the invariant: the new
\* wrapper is the only one that is not closed (websocket-factory.ts:54-102).
LEMMA CreateKeeps ==
  ASSUME IInv, holder = NoWs, CreateSocket
  PROVE  /\ sock' \in [Wrappers -> SocketStates]
         /\ LiveSocketIsHeld'
         /\ holder' # closing /\ holder' # NoWs
  BY NoWsAssumption DEF IInv, SocketStates, LiveSocketIsHeld, CreateSocket

\* Closing the wrapper in the holder closes every wrapper: what each teardown
\* and the swap rely on (client-lifecycle.ts:157-166, :320-328).
LEMMA CloseHeldClosesAll ==
  ASSUME IInv, CloseSocket(holder)
  PROVE  /\ sock' \in [Wrappers -> SocketStates]
         /\ LiveSocketIsHeld'
  BY DEF IInv, SocketStates, LiveSocketIsHeld, CloseSocket

\* dispose() and fireTerminalAuthFailure leave no wrapper behind
\* (client-lifecycle.ts:108-199, :289-344).
LEMMA TearDownKeeps ==
  ASSUME IInv, TearDown
  PROVE  /\ sock' \in [Wrappers -> SocketStates]
         /\ LiveSocketIsHeld'
         /\ holder' = NoWs
  BY CloseHeldClosesAll DEF TearDown, ClearHolder

\* The same for the terminal failure, which tears down once
\* (client-lifecycle.ts:108-199).
LEMMA TerminalKeeps ==
  ASSUME IInv, TerminalAuthFailure
  PROVE  /\ sock' \in [Wrappers -> SocketStates]
         /\ LiveSocketIsHeld'
         /\ holder' \in {holder, NoWs}
  BY TearDownKeeps DEF TerminalAuthFailure, IInv, LiveSocketIsHeld

\* The swap closes the old wrapper before it clears the way for the new one
\* (token-refresh-handler.ts:297-368).
LEMMA SwapBeginsKeeps ==
  ASSUME IInv, frame = "none", SwapBegins
  PROVE  IInv'
  BY CloseHeldClosesAll
  DEF SwapBegins, ClearHolder, coreVars, frameVars, IInv, LiveSocketIsHeld,
      ConnectHoldsNothing, ClosingIsReplaced

\* A close event never detaches a wrapper that is not closed: only a kick
\* clears the holder, and by then the kicked wrapper is closed
\* (event-handlers.ts:191-317, client-lifecycle.ts:201-222).
LEMMA HandleCloseKeepsHolder ==
  ASSUME NEW w, NEW code, HandleClose(w, code)
  PROVE  /\ holder' = holder \/ (holder' = NoWs /\ w = holder /\ code = "4005")
         /\ frame' \in {frame, "auth-close", "pre-open-1000"}
<1>1. CASE w # holder
  <2>1. DecideClose(w, code) = "ignore"
    BY <1>1 DEF DecideClose
  <2> QED
    BY <2>1 DEF HandleClose, RM!Triggers
<1>2. CASE w = holder /\ code = "4005"
  <2>1. DecideClose(w, code) = "session-replaced"
    BY <1>2 DEF DecideClose
  <2> QED
    BY <1>2, <2>1 DEF HandleClose, HandleKicked, ClearHolder, RM!Triggers
<1>3. CASE w = holder /\ code # "4005"
  <2>1. DecideClose(w, code) # "session-replaced"
    BY <1>3 DEF DecideClose
  <2> QED
    BY <2>1 DEF HandleClose, RM!Triggers
<1> QED
  BY <1>1, <1>2, <1>3

\* The invariant is inductive: each step by itself keeps one live wrapper.
LEMMA SocketInvariant == Spec => []IInv
<1>1. Init => IInv
  BY DEF Init, IInv, SocketStates, LiveSocketIsHeld, ConnectHoldsNothing,
      ClosingIsReplaced
<1>2. IInv /\ [Next]_vars => IInv'
  <2> SUFFICES ASSUME IInv, [Next]_vars
               PROVE  IInv'
    OBVIOUS
  <2> USE DEF IInv, LiveSocketIsHeld, ConnectHoldsNothing, ClosingIsReplaced
  <2>1. CASE Connect
    BY <2>1, CreateKeeps DEF Connect
  <2>2. CASE ConnectEnds
    BY <2>2, CreateKeeps DEF ConnectEnds
  <2>3. CASE Dispose
    BY <2>3, TearDownKeeps DEF Dispose, frameVars
  <2>4. CASE OpenEnds
    BY <2>4 DEF OpenEnds, netVars
  <2>5. CASE CookieAuthEnds
    BY <2>5, TerminalKeeps DEF CookieAuthEnds, RM!Triggers
  <2>6. CASE TokenAuthEnds
    BY <2>6, TerminalKeeps DEF TokenAuthEnds, RM!Triggers
  <2>7. CASE SwapCloseEvent
    <3>1. PICK w : HandleClose(w, "1000")
      BY <2>7 DEF SwapCloseEvent
    <3>2. UNCHANGED sock /\ closing' = NoWs
      BY <2>7 DEF SwapCloseEvent, netVars
    <3>3. holder' = holder /\ frame' # "connect"
      BY <2>7, <3>1, HandleCloseKeepsHolder DEF SwapCloseEvent
    <3> QED
      BY <3>2, <3>3
  <2>8. CASE SwapEnds
    BY <2>8, CreateKeeps DEF SwapEnds
  <2>9. CASE DebounceFires
    BY <2>9 DEF DebounceFires, clientVars, coreVars, frameVars, netVars
  <2>10. CASE JitterElapses
    BY <2>10, SwapBeginsKeeps
    DEF JitterElapses, clientVars, coreVars, frameVars, netVars
  <2>11. CASE RefreshSettles
    BY <2>11 DEF RefreshSettles, coreVars, frameVars
  <2>12. CASE WindowExpires
    BY <2>12 DEF WindowExpires, clientVars, coreVars, frameVars, netVars
  <2>13. CASE AwaiterResumes
    <3>1. frame = "none"
      BY <2>13 DEF AwaiterResumes
    <3>2. CASE SwapBegins
      BY <3>1, <3>2, SwapBeginsKeeps
    <3>3. CASE TerminalAuthFailure /\ UNCHANGED frameVars
      BY <3>1, <3>3, TerminalKeeps DEF frameVars
    <3>4. CASE UNCHANGED <<coreVars, sock, frameVars>>
      BY <3>4 DEF coreVars, frameVars
    <3> QED
      BY <2>13, <3>2, <3>3, <3>4 DEF AwaiterResumes
  <2>14. CASE RunFinally
    BY <2>14 DEF RunFinally, clientVars, coreVars, frameVars, netVars
  <2>15. CASE HeartbeatConfig
    BY <2>15 DEF HeartbeatConfig, frameVars, netVars
  <2>16. CASE SubscribeGivesUp
    BY <2>16 DEF SubscribeGivesUp, frameVars, netVars
  <2>17. CASE HeartbeatTimesOut
    BY <2>17 DEF HeartbeatTimesOut, frameVars, netVars
  <2>18. CASE Wakes
    BY <2>18 DEF Wakes, clientVars, coreVars, frameVars, netVars
  <2>19. CASE UploadRejected
    BY <2>19, TerminalKeeps
    DEF UploadRejected, NotifyUploadAuthFailure, coreVars, frameVars, Task
  <2>20. ASSUME NEW w \in Wrappers, Attempt(w)
         PROVE  IInv'
    BY <2>20 DEF SocketStates, Attempt, coreVars, frameVars
  <2>21. ASSUME NEW w \in Wrappers, HandshakeOpens(w)
         PROVE  IInv'
    BY <2>21 DEF SocketStates, HandshakeOpens, HandleOpen, Task
  <2>22. ASSUME NEW w \in Wrappers, LateOpen(w)
         PROVE  IInv'
    BY <2>22 DEF SocketStates, LateOpen, HandleOpen, Task
  <2>23. ASSUME NEW w \in Wrappers, DuplicateClose(w)
         PROVE  IInv'
    <3>1. UNCHANGED sock /\ HandleClose(w, "1008") /\ closing' = NoWs
      BY <2>23 DEF DuplicateClose, Task
    <3>2. holder' = holder /\ frame' # "connect"
      BY <2>23, <3>1, HandleCloseKeepsHolder DEF DuplicateClose, Task
    <3> QED
      BY <3>1, <3>2
  <2>24. ASSUME NEW w \in Wrappers, LinkDies(w)
         PROVE  IInv'
    BY <2>24 DEF SocketStates, LinkDies, coreVars, frameVars
  <2>25. ASSUME NEW w \in Wrappers, NEW code \in Codes, SocketCloses(w, code)
         PROVE  IInv'
    <3>1. /\ sock' = [sock EXCEPT ![w] = IF code = "4005" THEN "closed" ELSE "backoff"]
          /\ HandleClose(w, code)
          /\ frame = "none" /\ closing' = NoWs
      BY <2>25 DEF SocketCloses, Task
    <3>2. sock[w] # "closed"
      BY <2>25 DEF SocketCloses, MayClose, Codes
    <3>3. w = holder
      BY <3>2
    <3>4. frame' # "connect"
      BY <3>1, HandleCloseKeepsHolder
    <3>5. holder' = holder \/ code = "4005"
      BY <3>1, HandleCloseKeepsHolder
    <3> QED
      BY <3>1, <3>3, <3>4, <3>5 DEF SocketStates
  <2>26. CASE TokenExpires
    BY <2>26 DEF TokenExpires, coreVars, frameVars
  <2>27. CASE UNCHANGED vars
    BY <2>27 DEF vars, clientVars, coreVars, frameVars, netVars
  <2> QED
    BY <2>1, <2>2, <2>3, <2>4, <2>5, <2>6, <2>7, <2>8, <2>9,
       <2>10, <2>11, <2>12, <2>13, <2>14, <2>15, <2>16, <2>17, <2>18,
       <2>19, <2>20, <2>21, <2>22, <2>23, <2>24, <2>25, <2>26, <2>27
    DEF Next, Step, Consumer, Handlers, Timers, Awaiters, Triggered, Network
<1> QED
  BY <1>1, <1>2, PTL DEF Spec

\* No orphan: every wrapper that may still open or retry is the one in the
\* holder, so a client never has two connections (Bug 9, 13, 21;
\* websocket-holder.ts:19-70, token-refresh-handler.ts:282-436).
THEOREM SocketsAreHeld == Spec => []LiveSocketIsHeld
<1>1. IInv => LiveSocketIsHeld
  BY DEF IInv
<1> QED
  BY <1>1, SocketInvariant, PTL

-----------------------------------------------------------------------------
\* The wrapper in the holder is not closed; a wrapper that owes a queued open
\* is, and one that owes a duplicate close has no link.
OwedEvents ==
  /\ holder # NoWs => holder \in Wrappers /\ sock[holder] # "closed"
  /\ queuedOpen \subseteq Wrappers /\ dupClose \subseteq Wrappers
  /\ \A w \in queuedOpen : sock[w] = "closed"
  /\ \A w \in dupClose : sock[w] \in {"closed", "backoff"}

\* A heartbeat that runs, or has timed out, is of the attempt that opened; only
\* while its auth close is being announced is it not stopped yet.
WatchIsOfAttempt ==
  heartbeat \in {"watching", "timedout"} => attemptOpened \/ frame \in RM!Triggers

\* The inductive invariant behind ConnectedIsOpen.
OpenInv ==
  /\ IInv
  /\ OwedEvents
  /\ WatchIsOfAttempt
  /\ ConnectedIsOpen

\* A closed wrapper may owe its queued open, and nothing else does.
LEMMA CloseSocketOwes ==
  ASSUME OpenInv, CloseSocket(holder), holder' = NoWs, UNCHANGED dupClose
  PROVE  OwedEvents'
<1> USE DEF OpenInv, IInv, OwedEvents
<1>1. \A w \in Wrappers : sock'[w] = (IF w = holder THEN "closed" ELSE sock[w])
  BY DEF CloseSocket
<1>2. queuedOpen' = queuedOpen \/ (holder # NoWs /\ queuedOpen' = {holder})
  BY DEF CloseSocket
<1> QED
  BY <1>1, <1>2

\* A torn down client is not connected (client-lifecycle.ts:108-344).
LEMMA TearDownOpen ==
  ASSUME OpenInv, TearDown, UNCHANGED dupClose
  PROVE  (OwedEvents /\ WatchIsOfAttempt /\ ConnectedIsOpen)'
<1>1. OwedEvents'
  BY CloseSocketOwes DEF TearDown, ClearHolder
<1>2. heartbeat' = "off" /\ holder' = NoWs /\ ~attemptOpened' /\ state' = "stopped"
  BY DEF TearDown, ClearHolder
<1> QED
  BY <1>1, <1>2 DEF WatchIsOfAttempt, ConnectedIsOpen

\* Nor is one after a terminal failure (client-lifecycle.ts:108-199).
LEMMA TerminalOpen ==
  ASSUME OpenInv, TerminalAuthFailure, UNCHANGED dupClose
  PROVE  (OwedEvents /\ WatchIsOfAttempt /\ ConnectedIsOpen)'
<1>1. CASE terminalAuthFired
  <2>1. heartbeat' = "off" /\ UNCHANGED <<state, holder, attemptOpened, sock, queuedOpen>>
    BY <1>1 DEF TerminalAuthFailure
  <2> QED
    BY <2>1 DEF OpenInv, OwedEvents, WatchIsOfAttempt, ConnectedIsOpen
<1>2. CASE ~terminalAuthFired
  BY <1>2, TearDownOpen DEF TerminalAuthFailure
<1> QED
  BY <1>1, <1>2

\* A new wrapper starts with the flag of a new attempt (websocket-holder.ts:19-70).
LEMMA CreateOpen ==
  ASSUME OpenInv, CreateSocket, holder = NoWs, frame \notin RM!Triggers,
         state' # "connected", UNCHANGED <<heartbeat, queuedOpen, dupClose>>
  PROVE  (OwedEvents /\ WatchIsOfAttempt /\ ConnectedIsOpen)'
<1> USE NoWsAssumption DEF OpenInv, IInv, SocketStates
<1>1. PICK w \in Wrappers \ (queuedOpen \cup dupClose) :
        /\ sock' = [sock EXCEPT ![w] = "backoff"]
        /\ holder' = w
        /\ attemptOpened' = FALSE
  BY DEF CreateSocket
<1>2. OwedEvents'
  BY <1>1 DEF OwedEvents
<1>3. ~attemptOpened
  BY DEF ConnectedIsOpen
<1>4. heartbeat' \notin {"watching", "timedout"}
  BY <1>3 DEF WatchIsOfAttempt
<1>5. sock'[holder'] = "backoff"
  BY <1>1
<1> QED
  BY <1>1, <1>2, <1>4, <1>5 DEF WatchIsOfAttempt, ConnectedIsOpen

\* A swap is truthful about the state before it closes (token-refresh-handler.ts:297-368).
LEMMA SwapBeginsOpen ==
  ASSUME OpenInv, SwapBegins, UNCHANGED dupClose
  PROVE  (OwedEvents /\ WatchIsOfAttempt /\ ConnectedIsOpen)'
<1>1. CASE IsDead
  <2>1. UNCHANGED <<state, holder, attemptOpened, heartbeat, sock, queuedOpen, frame>>
    BY <1>1 DEF SwapBegins, coreVars, frameVars
  <2> QED
    BY <2>1 DEF OpenInv, OwedEvents, WatchIsOfAttempt, ConnectedIsOpen
<1>2. CASE ~IsDead
  <2>1. heartbeat' = "off" /\ holder' = NoWs /\ ~attemptOpened' /\ state' # "connected"
    BY <1>2 DEF SwapBegins, ClearHolder
  <2>2. OwedEvents'
    BY <1>2, <2>1, CloseSocketOwes DEF SwapBegins
  <2> QED
    BY <2>1, <2>2 DEF WatchIsOfAttempt, ConnectedIsOpen
<1> QED
  BY <1>1, <1>2

\* The close of a wrapper that is not held changes nothing (event-handlers.ts:191-317).
LEMMA OthersCloseIsIgnored ==
  ASSUME NEW w, NEW code, HandleClose(w, code), w # holder
  PROVE  UNCHANGED <<state, holder, attemptOpened, heartbeat, frame>>
<1>1. DecideClose(w, code) = "ignore"
  BY DEF DecideClose
<1> QED
  BY <1>1 DEF HandleClose, RM!Triggers

\* That of the held one ends the attempt, and the heartbeat at the latest when the
\* auth close has been announced (event-handlers.ts:191-317).
LEMMA OwnCloseDisconnects ==
  ASSUME NEW w, NEW code, HandleClose(w, code), w = holder
  PROVE  /\ ~attemptOpened' /\ state' # "connected"
         /\ holder' = holder \/ holder' = NoWs
         /\ heartbeat' = "off" \/ frame' \in RM!Triggers
  BY DEF HandleClose, DecideClose, HandleKicked, ClearHolder, OnClose, RM!Triggers

\* The flag is exact and a client that says so is connected, through every open,
\* close, swap and teardown (Bug 4, 6, 10, 15, 17; event-handlers.ts:191-317).
LEMMA OpenStep == ASSUME OpenInv, IInv', [Next]_vars PROVE OpenInv'
<1> USE NoWsAssumption DEF OpenInv
<1> DEFINE Rest == (OwedEvents /\ WatchIsOfAttempt /\ ConnectedIsOpen)'
<1>0. ASSUME UNCHANGED <<coreVars, sock, queuedOpen, dupClose, frame>> PROVE Rest
  BY <1>0 DEF coreVars, OwedEvents, WatchIsOfAttempt, ConnectedIsOpen
<1>1. ASSUME Connect PROVE Rest
  <2>1. CASE frame = "swap"
    BY <1>1, <2>1, CreateOpen DEF Connect, RM!Triggers
  <2>2. CASE frame # "swap"
    BY <1>1, <2>2
    DEF Connect, OwedEvents, WatchIsOfAttempt, ConnectedIsOpen, RM!Triggers
  <2> QED
    BY <2>1, <2>2
<1>2. ASSUME ConnectEnds PROVE Rest
  BY <1>2, CreateOpen
  DEF ConnectEnds, RM!Triggers, IInv, ConnectHoldsNothing, ConnectedIsOpen
<1>3. ASSUME Dispose PROVE Rest
  BY <1>3, TearDownOpen DEF Dispose
<1>4. ASSUME OpenEnds PROVE Rest
  BY <1>4 DEF OpenEnds, netVars, OwedEvents, WatchIsOfAttempt, ConnectedIsOpen, OnOpen
<1>5. ASSUME CookieAuthEnds PROVE Rest
  <2>1. CASE TerminalAuthFailure
    BY <1>5, <2>1, TerminalOpen DEF CookieAuthEnds
  <2>2. CASE ~TerminalAuthFailure
    BY <1>5, <2>2
    DEF CookieAuthEnds, OnClose, OwedEvents, WatchIsOfAttempt, ConnectedIsOpen
  <2> QED
    BY <2>1, <2>2
<1>6. ASSUME TokenAuthEnds PROVE Rest
  <2>1. CASE TerminalAuthFailure
    BY <1>6, <2>1, TerminalOpen DEF TokenAuthEnds
  <2>2. CASE ~TerminalAuthFailure
    BY <1>6, <2>2
    DEF TokenAuthEnds, OnClose, OwedEvents, WatchIsOfAttempt, ConnectedIsOpen
  <2> QED
    BY <2>1, <2>2
<1>7. ASSUME SwapCloseEvent PROVE Rest
  <2>1. closing # holder /\ HandleClose(closing, "1000") /\ UNCHANGED netVars
    BY <1>7 DEF SwapCloseEvent, IInv, ClosingIsReplaced
  <2> QED
    BY <2>1, OthersCloseIsIgnored
    DEF netVars, OwedEvents, WatchIsOfAttempt, ConnectedIsOpen
<1>8. ASSUME SwapEnds PROVE Rest
  <2>1. CASE CreateSocket /\ holder = NoWs
    BY <1>8, <2>1, CreateOpen DEF SwapEnds, ConnectedIsOpen, RM!Triggers
  <2>2. CASE UNCHANGED <<sock, holder, attemptOpened>>
    BY <1>8, <2>2
    DEF SwapEnds, OwedEvents, WatchIsOfAttempt, ConnectedIsOpen, RM!Triggers
  <2> QED
    BY <1>8, <2>1, <2>2 DEF SwapEnds
<1>9. ASSUME DebounceFires \/ RunFinally \/ WindowExpires \/ Wakes PROVE Rest
  BY <1>0, <1>9
  DEF DebounceFires, RunFinally, WindowExpires, Wakes, clientVars, netVars,
      frameVars
<1>10. ASSUME RefreshSettles \/ TokenExpires PROVE Rest
  BY <1>0, <1>10 DEF RefreshSettles, TokenExpires, frameVars
<1>11. ASSUME JitterElapses PROVE Rest
  BY <1>0, <1>11, SwapBeginsOpen DEF JitterElapses, clientVars, netVars, frameVars
<1>12. ASSUME AwaiterResumes PROVE Rest
  BY <1>0, <1>12, SwapBeginsOpen, TerminalOpen DEF AwaiterResumes, frameVars
<1>13. ASSUME HeartbeatConfig PROVE Rest
  <2>1. attemptOpened
    BY <1>13 DEF HeartbeatConfig, ConnectedIsOpen
  <2> QED
    BY <1>13, <2>1
    DEF HeartbeatConfig, netVars, frameVars, OwedEvents, WatchIsOfAttempt,
        ConnectedIsOpen
<1>14. ASSUME SubscribeGivesUp PROVE Rest
  BY <1>14
  DEF SubscribeGivesUp, netVars, frameVars, OwedEvents, WatchIsOfAttempt,
      ConnectedIsOpen
<1>15. ASSUME HeartbeatTimesOut PROVE Rest
  BY <1>15
  DEF HeartbeatTimesOut, netVars, frameVars, OwedEvents, WatchIsOfAttempt,
      ConnectedIsOpen
<1>16. ASSUME UploadRejected PROVE Rest
  BY <1>0, <1>16, TerminalOpen DEF UploadRejected, NotifyUploadAuthFailure, frameVars
<1>17. ASSUME NEW w \in Wrappers, Attempt(w) \/ LinkDies(w) PROVE Rest
  BY <1>17
  DEF Attempt, LinkDies, coreVars, frameVars, IInv, SocketStates, OwedEvents,
      WatchIsOfAttempt, ConnectedIsOpen
<1>18. ASSUME NEW w \in Wrappers, HandshakeOpens(w) PROVE Rest
  <2>1. w = holder /\ frame = "none" /\ sock[w] = "handshake"
    BY <1>18 DEF HandshakeOpens, Task, IInv, LiveSocketIsHeld
  <2>2. heartbeat' \notin {"watching", "timedout"}
    BY <1>18, <2>1 DEF HandshakeOpens, WatchIsOfAttempt, ConnectedIsOpen, RM!Triggers
  <2>3. /\ attemptOpened' /\ state' = "connected"
        /\ holder' = holder /\ sock'[holder] = "open"
    BY <1>18, <2>1 DEF HandshakeOpens, HandleOpen, IInv
  <2>4. OwedEvents'
    BY <1>18, <2>1 DEF HandshakeOpens, OwedEvents, IInv, SocketStates
  <2> QED
    BY <2>1, <2>2, <2>3, <2>4 DEF WatchIsOfAttempt, ConnectedIsOpen
<1>19. ASSUME NEW w \in Wrappers, LateOpen(w) PROVE Rest
  <2>1. w # holder
    BY <1>19 DEF LateOpen, OwedEvents
  <2> QED
    BY <1>19, <2>1
    DEF LateOpen, HandleOpen, OwedEvents, WatchIsOfAttempt, ConnectedIsOpen
<1>20. ASSUME NEW w \in Wrappers, NEW code \in Codes, SocketCloses(w, code) PROVE Rest
  <2>1. w = holder
    BY <1>20 DEF SocketCloses, MayClose, Codes, IInv, LiveSocketIsHeld
  <2>2. HandleClose(w, code) /\ sock'[w] \in {"closed", "backoff"}
    BY <1>20 DEF SocketCloses, IInv
  <2>3. holder' = NoWs \/ sock'[w] = "backoff"
    BY <1>20, <2>1
    DEF SocketCloses, IInv, HandleClose, DecideClose, HandleKicked, ClearHolder,
        RM!Triggers
  <2>4. /\ ~attemptOpened' /\ state' # "connected"
        /\ holder' = holder \/ holder' = NoWs
        /\ heartbeat' = "off" \/ frame' \in RM!Triggers
    BY <2>1, <2>2, OwnCloseDisconnects
  <2>5. /\ queuedOpen' = queuedOpen /\ dupClose' \in {dupClose, {w}}
        /\ \A v \in Wrappers \ {w} : sock'[v] = sock[v]
    BY <1>20 DEF SocketCloses, IInv
  <2>6. OwedEvents'
    <3>1. \A v \in queuedOpen : v # w
      BY <2>1 DEF OwedEvents
    <3> QED
      BY <2>1, <2>2, <2>3, <2>4, <2>5, <3>1 DEF OwedEvents
  <2> QED
    BY <2>1, <2>2, <2>4, <2>6 DEF WatchIsOfAttempt, ConnectedIsOpen
<1>21. ASSUME NEW w \in Wrappers, DuplicateClose(w) PROVE Rest
  <2>1. /\ UNCHANGED <<sock, queuedOpen>> /\ dupClose' = dupClose \ {w}
        /\ HandleClose(w, "1008")
    BY <1>21 DEF DuplicateClose
  <2>2. CASE w # holder
    BY <2>1, <2>2, OthersCloseIsIgnored
    DEF OwedEvents, WatchIsOfAttempt, ConnectedIsOpen
  <2>3. CASE w = holder
    <3>1. sock[w] \in {"closed", "backoff"}
      BY <1>21 DEF DuplicateClose, OwedEvents
    <3>2. /\ ~attemptOpened' /\ state' # "connected"
          /\ holder' = holder \/ holder' = NoWs
          /\ heartbeat' = "off" \/ frame' \in RM!Triggers
      BY <2>1, <2>3, OwnCloseDisconnects
    <3> QED
      BY <2>1, <2>3, <3>1, <3>2 DEF OwedEvents, WatchIsOfAttempt, ConnectedIsOpen
  <2> QED
    BY <2>2, <2>3
<1>22. ASSUME UNCHANGED vars PROVE Rest
  BY <1>0, <1>22 DEF vars, clientVars, netVars, frameVars
<1>23. Rest
  <2> HIDE DEF Rest
  <2> QED
    BY <1>1, <1>2, <1>3, <1>4, <1>5, <1>6, <1>7, <1>8, <1>9, <1>10, <1>11, <1>12, <1>13,
       <1>14, <1>15, <1>16, <1>17, <1>18, <1>19, <1>20, <1>21, <1>22, Zenon
    DEF Next, Step, Consumer, Handlers, Timers, Awaiters, Triggered, Network
<1> QED
  BY <1>23

\* Hence it is an invariant.
LEMMA OpenInvariant == Spec => []OpenInv
<1>1. Init => OpenInv
  <2> SUFFICES ASSUME Init PROVE OpenInv
    OBVIOUS
  <2>1. IInv
    BY DEF Init, IInv, SocketStates, LiveSocketIsHeld, ConnectHoldsNothing,
        ClosingIsReplaced
  <2> QED
    BY <2>1 DEF Init, OpenInv, OwedEvents, WatchIsOfAttempt, ConnectedIsOpen
<1>2. OpenInv /\ IInv' /\ [Next]_vars => OpenInv'
  BY OpenStep
<1> QED
  BY <1>1, <1>2, SocketInvariant, PTL DEF Spec

\* The client claims to be connected only over a wrapper that did open and was not
\* given up since, and the flag of the attempt is exact (Bug 4, 6, 10, 15, 17;
\* websocket-holder.ts:19-70, event-handlers.ts:150-317).
THEOREM ConnectedIsTruthful == Spec => []ConnectedIsOpen
<1>1. OpenInv => ConnectedIsOpen
  BY DEF OpenInv
<1> QED
  BY <1>1, OpenInvariant, PTL

-----------------------------------------------------------------------------
(***************************************************************************)
(* The death of a client, its manager and its logouts.                     *)
(***************************************************************************)

\* The consumer does not dispose of the client from a listener on the
\* connecting or connected frame, nor, with cookie auth, on an auth close.
Considerate(d) ==
  /\ d.reentry \cap {"connect", "open"} = {}
  /\ d.provider \/ d.reentry \subseteq {"swap"}

\* A dead client holds nothing.
Emptied ==
  /\ holder = NoWs
  /\ heartbeat = "off"
  /\ ~sleepRunning
  /\ state \in {"stopped", "kicked"}

\* Handlers whose remainder acts on the client unasked run on a living one.
AliveInFrame ==
  /\ frame \in {"connect", "open"} => ~IsDead
  /\ frame \in {"auth-close", "pre-open-1000"} /\ ~HasTokenProvider => ~IsDead

DeadInv ==
  /\ Considerate(setup)
  /\ IsDead => Emptied
  /\ AliveInFrame

\* dispose() and fireTerminalAuthFailure empty the client.
LEMMA TearDownEmpties == ASSUME TearDown PROVE Emptied'
  BY DEF TearDown, ClearHolder, StopsDetector, Emptied

\* ... also a terminal failure that finds the client terminal already
\* (client-lifecycle.ts:108-199).
LEMMA TerminalEmpties ==
  ASSUME DeadInv, TerminalAuthFailure
  PROVE  /\ terminalAuthFired'
         /\ Emptied'
  <1>1. CASE terminalAuthFired
    BY <1>1 DEF TerminalAuthFailure, DeadInv, Emptied, IsDead
  <1>2. CASE ~terminalAuthFired
    BY <1>2, TearDownEmpties DEF TerminalAuthFailure
  <1> QED
    BY <1>1, <1>2

\* The holder of a dead client is empty, so no event of a wrapper is its own.
LEMMA EventsFindNothing ==
  ASSUME DeadInv, NEW w, w # NoWs, w = holder
  PROVE  ~IsDead
  BY DEF DeadInv, Emptied

\* A close event disconnects a living client, kicks it, or is dropped
\* (event-handlers.ts:191-317).
LEMMA CloseKeepsDeath ==
  ASSUME DeadInv, NEW w, w # NoWs, NEW code, HandleClose(w, code),
         UNCHANGED <<setup, disposed, terminalAuthFired>>,
         frame \in {"none", "swap"}
  PROVE  DeadInv'
  <1>1. CASE w # holder
    <2>1. DecideClose(w, code) = "ignore"
      BY <1>1 DEF DecideClose
    <2>2. UNCHANGED <<state, holder, heartbeat, sleepRunning, frame>>
      BY <2>1 DEF HandleClose, RM!Triggers
    <2> QED
      BY <2>2, Zenon DEF DeadInv, Emptied, AliveInFrame, IsDead, HasTokenProvider
  <1>2. CASE w = holder
    <2>1. ~IsDead
      BY <1>2, EventsFindNothing
    <2>2. ~disposed' /\ ~terminalAuthFired'
      BY <2>1 DEF IsDead
    <2>3. CASE DecideClose(w, code) = "session-replaced"
      BY <2>2, <2>3
      DEF HandleClose, OnClose, HandleKicked, ClearHolder, StopsDetector,
           DeadInv, Emptied, AliveInFrame, IsDead, RM!Triggers
    <2>4. CASE DecideClose(w, code) # "session-replaced"
      <3>1. state' = "retrying"
        BY <1>2, <2>4, Zenon DEF HandleClose, DecideClose
      <3> QED
        BY <3>1, <2>2 DEF DeadInv, AliveInFrame, IsDead
    <2> QED
      BY <2>3, <2>4
  <1> QED
    BY <1>1, <1>2

\* A dead client refuses the swap, a living one stays alive
\* (token-refresh-handler.ts:282-368).
LEMMA SwapKeepsDeath ==
  ASSUME DeadInv, SwapBegins, frame = "none", UNCHANGED <<setup, disposed>>
  PROVE  DeadInv'
  <1>1. CASE IsDead
    <2>1. UNCHANGED <<coreVars, frameVars>>
      BY <1>1 DEF SwapBegins
    <2> QED
      BY <2>1, Zenon
      DEF coreVars, frameVars, DeadInv, Emptied, AliveInFrame, IsDead,
          HasTokenProvider
  <1>2. CASE ~IsDead
    <2>1. ~disposed' /\ ~terminalAuthFired' /\ frame' = "swap"
      BY <1>2, Zenon DEF SwapBegins, IsDead
    <2>2. state' # "kicked"
      BY <1>2 DEF SwapBegins, IsDead
    <2> QED
      BY <2>1, <2>2 DEF DeadInv, AliveInFrame, IsDead
  <1> QED
    BY <1>1, <1>2

\* A new client is alive.
LEMMA InitDeath == ASSUME Considerate(setup), Init PROVE DeadInv
  BY Zenon DEF Init, DeadInv, AliveInFrame, IsDead

\* Every step leaves a client that is alive, or dead and empty.
LEMMA StepKeepsDeath == ASSUME DeadInv, [Next]_vars PROVE DeadInv'
<1> USE NoWsAssumption DEF DeadInv
<1>0. UNCHANGED setup
  BY DEF Next, vars
<1>1. CASE Connect
  <2>1. ~IsDead'
    BY <1>1 DEF Connect, mgrVars, IsDead
  <2> QED
    BY <1>0, <2>1 DEF AliveInFrame
<1>2. CASE ConnectEnds
  <2>1. ~IsDead'
    BY <1>2 DEF ConnectEnds, mgrVars, IsDead, AliveInFrame
  <2> QED
    BY <1>0, <2>1 DEF AliveInFrame
<1>3. CASE Dispose
  <2>1. Emptied' /\ frame' = frame
    BY <1>3, TearDownEmpties DEF Dispose, frameVars
  <2>2. frame = "none" \/ frame \in setup.reentry
    BY <1>3 DEF Dispose, ConsumerRuns, Reentry
  <2> QED
    BY <1>0, <2>1, <2>2 DEF AliveInFrame, Considerate, HasTokenProvider
<1>4. CASE OpenEnds
  <2>1. ~IsDead' /\ frame' = "none"
    BY <1>4 DEF OpenEnds, mgrVars, IsDead, AliveInFrame
  <2> QED
    BY <1>0, <2>1 DEF AliveInFrame
<1>5. CASE CookieAuthEnds
  <2>1. frame' = "none"
    BY <1>5 DEF CookieAuthEnds
  <2>2. CASE TerminalAuthFailure
    BY <1>0, <2>1, <2>2, TerminalEmpties DEF AliveInFrame
  <2>3. CASE ~TerminalAuthFailure
    <3>1. ~IsDead'
      BY <1>5, <2>3 DEF CookieAuthEnds, AliveInFrame, IsDead, RM!Triggers, mgrVars
    <3> QED
      BY <1>0, <2>1, <3>1 DEF AliveInFrame
  <2> QED
    BY <2>2, <2>3
<1>6. CASE TokenAuthEnds
  <2>1. frame' = "none"
    BY <1>6 DEF TokenAuthEnds
  <2>2. CASE TerminalAuthFailure
    BY <1>0, <2>1, <2>2, TerminalEmpties DEF AliveInFrame
  <2>3. CASE ~TerminalAuthFailure
    <3>1. OnClose /\ UNCHANGED <<state, holder, terminalAuthFired, sleepRunning>>
      BY <1>6, <2>3 DEF TokenAuthEnds
    <3>2. UNCHANGED disposed
      BY <1>6, <2>3 DEF TokenAuthEnds, RM!AuthIgnored, RM!AuthRefreshes, RM!mgrVars
    <3> QED
      BY <1>0, <2>1, <3>1, <3>2, Zenon DEF AliveInFrame, IsDead, Emptied, OnClose
  <2> QED
    BY <2>2, <2>3
<1>7. CASE SwapCloseEvent
  BY <1>0, <1>7, CloseKeepsDeath DEF SwapCloseEvent, mgrVars
<1>8. CASE SwapEnds
  <2>1. /\ frame' = "none"
        /\ UNCHANGED <<state, heartbeat, sleepRunning, terminalAuthFired, disposed>>
    BY <1>8 DEF SwapEnds, mgrVars
  <2>2. IsDead => holder' = holder
    BY <1>8 DEF SwapEnds, DeadInv, Emptied
  <2> QED
    BY <1>0, <2>1, <2>2, Zenon DEF AliveInFrame, IsDead, Emptied
<1>9. CASE UNCHANGED <<coreVars, frame, disposed>>
  BY <1>0, <1>9, Zenon DEF coreVars, AliveInFrame, IsDead, Emptied, HasTokenProvider
<1>10. DebounceFires \/ RefreshSettles \/ WindowExpires \/ RunFinally \/ Wakes
         \/ TokenExpires => UNCHANGED <<coreVars, frame, disposed>>
  BY DEF DebounceFires, RefreshSettles, WindowExpires, RunFinally, Wakes, TokenExpires,
         RM!DebounceFires, RM!RefreshSettles, RM!WindowExpires, RM!RunFinally, RM!Reconnect,
         clientVars, coreVars, frameVars, mgrVars
<1>11. ASSUME NEW w \in Wrappers, Attempt(w) \/ LinkDies(w)
       PROVE  UNCHANGED <<coreVars, frame, disposed>>
  BY <1>11 DEF Attempt, LinkDies, frameVars, mgrVars
<1>12. CASE JitterElapses
  <2>1. CASE UNCHANGED clientVars
    BY <1>9, <1>12, <2>1 DEF JitterElapses, clientVars, coreVars, frameVars,
        RM!JitterAborts, RM!JitterRefreshes, RM!JitterRebuilds
  <2>2. CASE SwapBegins
    BY <1>0, <1>12, <2>2, SwapKeepsDeath
    DEF JitterElapses, RM!JitterAborts, RM!JitterRefreshes, RM!JitterRebuilds
  <2> QED
    BY <1>12, <2>1, <2>2 DEF JitterElapses
<1>13. CASE AwaiterResumes
  <2>1. frame = "none" /\ UNCHANGED disposed
    BY <1>13 DEF AwaiterResumes, RM!AuthResumes, RM!RunResumes
  <2>2. CASE SwapBegins
    BY <1>0, <2>1, <2>2, SwapKeepsDeath
  <2>3. CASE TerminalAuthFailure /\ UNCHANGED frameVars
    BY <1>0, <2>1, <2>3, TerminalEmpties DEF AliveInFrame, frameVars
  <2>4. CASE UNCHANGED <<coreVars, frameVars>>
    BY <1>9, <2>1, <2>4 DEF frameVars
  <2> QED
    BY <1>13, <2>2, <2>3, <2>4 DEF AwaiterResumes
<1>14. CASE HeartbeatConfig
  <2>1. ~IsDead
    BY <1>14 DEF HeartbeatConfig, Emptied
  <2>2. ~IsDead' /\ frame' = frame
    BY <1>14, <2>1, Zenon DEF HeartbeatConfig, IsDead, frameVars, mgrVars
  <2> QED
    BY <1>0, <2>2 DEF AliveInFrame
<1>15. CASE SubscribeGivesUp
  <2>1. ~IsDead
    BY <1>15 DEF SubscribeGivesUp, Emptied
  <2>2. ~IsDead' /\ frame' = frame
    BY <1>15, <2>1, Zenon DEF SubscribeGivesUp, IsDead, frameVars, mgrVars
  <2> QED
    BY <1>0, <2>2 DEF AliveInFrame
<1>16. CASE HeartbeatTimesOut
  <2>1. ~IsDead
    BY <1>16 DEF HeartbeatTimesOut, Emptied
  <2>2. UNCHANGED <<disposed, terminalAuthFired, frame>>
    BY <1>16 DEF HeartbeatTimesOut, RM!Reconnect, frameVars
  <2>3. state' # "kicked"
    BY <1>16, <2>1 DEF HeartbeatTimesOut, IsDead
  <2> QED
    BY <1>0, <2>1, <2>2, <2>3 DEF AliveInFrame, IsDead
<1>17. CASE UploadRejected
  <2>1. frame = "none" /\ frame' = frame
    BY <1>17 DEF UploadRejected, Task, frameVars
  <2>2. CASE TerminalAuthFailure
    BY <1>0, <2>1, <2>2, TerminalEmpties DEF AliveInFrame
  <2>3. CASE ~TerminalAuthFailure
    BY <1>9, <1>17, <2>1, <2>3 DEF UploadRejected, NotifyUploadAuthFailure,
       RM!AuthIgnored, RM!AuthRefreshes, RM!mgrVars
  <2> QED
    BY <2>2, <2>3
<1>18. ASSUME NEW w \in Wrappers, HandshakeOpens(w) \/ LateOpen(w)
       PROVE  DeadInv'
  <2>1. CASE w # holder
    BY <1>9, <1>18, <2>1 DEF HandshakeOpens, LateOpen, HandleOpen, coreVars, mgrVars
  <2>2. CASE w = holder
    <3>1. ~IsDead
      BY <2>2, EventsFindNothing
    <3>2. ~IsDead'
      BY <1>18, <2>2, <3>1 DEF HandshakeOpens, LateOpen, HandleOpen, IsDead, mgrVars
    <3> QED
      BY <1>0, <3>2 DEF AliveInFrame
  <2> QED
    BY <2>1, <2>2
<1>19. ASSUME NEW w \in Wrappers, NEW code \in Codes, SocketCloses(w, code)
       PROVE  DeadInv'
  BY <1>0, <1>19, CloseKeepsDeath DEF SocketCloses, mgrVars, Task
<1>20. ASSUME NEW w \in Wrappers, DuplicateClose(w)
       PROVE  DeadInv'
  BY <1>0, <1>20, CloseKeepsDeath DEF DuplicateClose, mgrVars, Task
<1>21. CASE UNCHANGED vars
  BY <1>9, <1>21 DEF vars, clientVars, frameVars, mgrVars
<1>22. CASE Next
  BY <1>1, <1>2, <1>3, <1>4, <1>5, <1>6, <1>7, <1>8, <1>9, <1>10, <1>11, <1>12, <1>13,
     <1>14, <1>15, <1>16, <1>17, <1>18, <1>19, <1>20, <1>22, Zenon
  DEF Next, Step, Consumer, Handlers, Timers, Awaiters, Triggered, Network
<1> QED
  BY <1>21, <1>22

-----------------------------------------------------------------------------
\* No wrapper that is closed is started again.
NoneStarted == \A w \in Wrappers : sock[w] = "closed" => sock'[w] = "closed"

\* What of IInv the lemmas about wrappers need.
Typed == sock \in [Wrappers -> SocketStates]

\* Closing a wrapper starts none.
LEMMA CloseStartsNone == ASSUME NEW ws, CloseSocket(ws) PROVE NoneStarted
  BY DEF CloseSocket, NoneStarted

\* A terminal failure is a death, and starts no wrapper
\* (client-lifecycle.ts:108-199).
LEMMA TerminalIsDeath ==
  ASSUME Typed, TerminalAuthFailure PROVE terminalAuthFired' /\ NoneStarted
  <1>1. CASE terminalAuthFired
    BY <1>1 DEF TerminalAuthFailure, NoneStarted
  <1>2. CASE ~terminalAuthFired
    BY <1>2, CloseStartsNone DEF TerminalAuthFailure, TearDown
  <1> QED
    BY <1>1, <1>2

\* No step revives a dead client or starts one of its wrappers: only connect() and
\* a swap create one, and both look first (client-lifecycle.ts:240-287,
\* token-refresh-handler.ts:282-436).
LEMMA DeadStays ==
  ASSUME DeadInv, Typed, IsDead, [Next]_vars
  PROVE  IsDead' /\ NoneStarted
<1> USE DEF DeadInv, Emptied
<1> DEFINE Same == UNCHANGED <<state, terminalAuthFired, disposed>> /\ NoneStarted
<1>0. ASSUME UNCHANGED <<state, terminalAuthFired, disposed, sock>> PROVE Same
  BY <1>0 DEF NoneStarted
<1>1. ASSUME Same PROVE IsDead' /\ NoneStarted
  <2>1. UNCHANGED <<state, terminalAuthFired, disposed>> /\ NoneStarted
    BY <1>1
  <2>2. IsDead' = IsDead
    BY <2>1, Zenon DEF IsDead
  <2> QED
    BY <2>1, <2>2
<1>2. ASSUME NEW w, w # NoWs, NEW code, HandleClose(w, code) PROVE UNCHANGED state
  <2>1. DecideClose(w, code) = "ignore"
    BY <1>2, EventsFindNothing DEF DecideClose
  <2> QED
    BY <1>2, <2>1 DEF HandleClose, RM!Triggers
<1>3. ASSUME NEW w \in Wrappers, HandleOpen(w) PROVE UNCHANGED state
  BY <1>3, NoWsAssumption, EventsFindNothing DEF HandleOpen
<1>4. ~Connect /\ ~ConnectEnds /\ ~OpenEnds
  BY DEF Connect, ConnectEnds, OpenEnds, AliveInFrame, IsDead
<1>5. CASE Dispose
  BY <1>5, CloseStartsNone DEF Dispose, RM!Dispose, TearDown, IsDead
<1>6. CASE CookieAuthEnds
  <2>1. FALSE
    BY <1>6 DEF CookieAuthEnds, AliveInFrame, RM!Triggers
  <2> QED
    BY <2>1
<1>7. CASE TokenAuthEnds
  <2>1. CASE TerminalAuthFailure
    BY <2>1, TerminalIsDeath DEF IsDead
  <2>2. CASE ~TerminalAuthFailure
    BY <1>0, <1>1, <1>7, <2>2
    DEF TokenAuthEnds, RM!AuthIgnored, RM!AuthRefreshes, RM!mgrVars
  <2> QED
    BY <2>1, <2>2
<1>8. CASE SwapCloseEvent
  BY <1>0, <1>1, <1>2, <1>8 DEF SwapCloseEvent, netVars, mgrVars
<1>9. CASE SwapEnds
  BY <1>0, <1>1, <1>9 DEF SwapEnds, mgrVars
<1>10. DebounceFires \/ WindowExpires \/ RunFinally \/ Wakes => Same
  BY <1>0 DEF DebounceFires, WindowExpires, RunFinally, Wakes,
     RM!DebounceFires, RM!WindowExpires, RM!RunFinally, RM!Reconnect,
     clientVars, coreVars, netVars, mgrVars
<1>11. RefreshSettles \/ TokenExpires => Same
  BY <1>0 DEF RefreshSettles, TokenExpires, RM!RefreshSettles, coreVars, mgrVars
<1>12. SwapBegins => UNCHANGED <<state, terminalAuthFired, sock>>
  BY DEF SwapBegins, coreVars
<1>13. JitterElapses => Same
  BY <1>0, <1>12 DEF JitterElapses, clientVars, coreVars, netVars,
     RM!JitterAborts, RM!JitterRefreshes, RM!JitterRebuilds
<1>14. CASE AwaiterResumes
  <2>1. UNCHANGED disposed
    BY <1>14 DEF AwaiterResumes, RM!AuthResumes, RM!RunResumes
  <2>2. SwapBegins \/ UNCHANGED <<coreVars, sock>> \/ TerminalAuthFailure
    BY <1>14 DEF AwaiterResumes
  <2>3. CASE TerminalAuthFailure
    BY <2>3, TerminalIsDeath DEF IsDead
  <2> QED
    BY <1>0, <1>1, <1>12, <2>1, <2>2, <2>3 DEF coreVars
<1>15. ~HeartbeatConfig /\ ~SubscribeGivesUp /\ ~HeartbeatTimesOut
  BY DEF HeartbeatConfig, SubscribeGivesUp, HeartbeatTimesOut
<1>16. CASE UploadRejected
  <2>1. CASE TerminalAuthFailure
    BY <2>1, TerminalIsDeath DEF IsDead
  <2>2. CASE ~TerminalAuthFailure
    BY <1>0, <1>1, <1>16, <2>2 DEF UploadRejected, NotifyUploadAuthFailure,
       RM!AuthIgnored, RM!AuthRefreshes, RM!mgrVars, coreVars
  <2> QED
    BY <2>1, <2>2
<1>17. ASSUME NEW w \in Wrappers, Attempt(w) \/ LinkDies(w)
       PROVE  Same
  BY <1>17 DEF Attempt, LinkDies, coreVars, mgrVars, NoneStarted, Typed
<1>18. ASSUME NEW w \in Wrappers, HandshakeOpens(w) \/ LateOpen(w)
       PROVE  Same
  BY <1>3, <1>18 DEF HandshakeOpens, LateOpen, mgrVars, NoneStarted, Typed
<1>19. ASSUME NEW w \in Wrappers, NEW code \in Codes, SocketCloses(w, code)
       PROVE  Same
  <2>1. sock[w] # "closed"
    BY <1>19 DEF SocketCloses, MayClose, Codes
  <2> QED
    BY <1>2, <1>19, <2>1, NoWsAssumption DEF SocketCloses, mgrVars, NoneStarted, Typed
<1>20. ASSUME NEW w \in Wrappers, DuplicateClose(w)
       PROVE  Same
  BY <1>0, <1>2, <1>20, NoWsAssumption DEF DuplicateClose, mgrVars
<1>21. UNCHANGED vars => Same
  BY <1>0 DEF vars, clientVars, coreVars, netVars, mgrVars
<1>22. CASE Next
  <2> HIDE DEF Same
  <2> QED
    BY <1>1, <1>4, <1>5, <1>6, <1>7, <1>8, <1>9, <1>10, <1>11, <1>13, <1>14, <1>15,
       <1>16, <1>17, <1>18, <1>19, <1>20, <1>22, Zenon
    DEF Next, Step, Consumer, Handlers, Timers, Awaiters, Triggered, Network
<1> QED
  BY <1>1, <1>21, <1>22

-----------------------------------------------------------------------------
\* The terminal callback runs only from a living client.
LEMMA TerminalCounts ==
  ASSUME DeadInv, IsDead, [Next]_vars
  PROVE  terminalCalls' = terminalCalls
<1> USE DEF DeadInv
<1>1. CookieAuthEnds
         => terminalCalls' = terminalCalls
  BY DEF CookieAuthEnds, AliveInFrame, RM!Triggers
<1>2. TokenAuthEnds
         => terminalCalls' = terminalCalls
  BY DEF TokenAuthEnds, RM!AuthStorm, RM!Stopped
<1>3. AwaiterResumes
         => terminalCalls' = terminalCalls
  BY DEF AwaiterResumes, SwapBegins, RM!Stopped, coreVars
<1>4. UploadRejected
         => terminalCalls' = terminalCalls
  BY DEF UploadRejected, NotifyUploadAuthFailure, RM!AuthStorm, RM!Stopped, coreVars
<1>5. Consumer \/ Timers \/ RunFinally \/ Network \/ UNCHANGED vars
         => terminalCalls' = terminalCalls
  BY DEF Consumer, Connect, Dispose, Timers, DebounceFires, JitterElapses, SwapBegins,
     RefreshSettles, WindowExpires, RunFinally, Network, Attempt, HandshakeOpens, LateOpen,
     SocketCloses, DuplicateClose, LinkDies, TokenExpires, vars, clientVars, coreVars
<1>6. ConnectEnds \/ OpenEnds \/ SwapCloseEvent \/ SwapEnds
         => terminalCalls' = terminalCalls
  BY DEF ConnectEnds, OpenEnds, SwapCloseEvent, SwapEnds
<1>7. HeartbeatConfig \/ SubscribeGivesUp \/ HeartbeatTimesOut \/ Wakes
         => terminalCalls' = terminalCalls
  BY DEF HeartbeatConfig, SubscribeGivesUp, HeartbeatTimesOut, Wakes, clientVars,
      coreVars
<1> QED
  BY <1>1, <1>2, <1>3, <1>4, <1>5, <1>6, <1>7, Zenon
  DEF Next, Step, Handlers, Awaiters, Triggered

-----------------------------------------------------------------------------
\* No event, timer or resolving refresh brings a dead client back
\* (client-lifecycle.ts:108-344, reconnect-manager.ts:700-780).
THEOREM DeathIsFinal ==
  ASSUME \A d \in Setups : Considerate(d)
  PROVE  Spec => NoResurrection
<1> DEFINE Final == IsDead => IsDead' /\ state' \in {"stopped", "kicked"}
                       /\ \A w \in Wrappers : sock[w] = "closed" => sock'[w] = "closed"
<1>1. Init => DeadInv
  BY InitDeath DEF Init
<1>2. DeadInv /\ [Next]_vars => DeadInv'
  BY StepKeepsDeath
<1>3. Spec => []IInv
  BY SocketInvariant
<1>4. DeadInv /\ IInv /\ [Next]_vars => [Final]_vars
  BY StepKeepsDeath, DeadStays DEF Typed, NoneStarted, DeadInv, Emptied, IInv
<1> QED
  BY <1>1, <1>2, <1>3, <1>4, PTL DEF Spec, NoResurrection

-----------------------------------------------------------------------------
\* While an auth close is being announced the manager has nothing to resume,
\* unless a listener disposed of it.
TriggerIsQuiet == frame \in RM!Triggers => RM!Quiet \/ disposed

\* A step of the manager, or none.
ManagerSteps == RM!ManagerStep \/ UNCHANGED RM!mgrVars

\* Every step of the client is a step of the manager or leaves it alone; where the
\* client asks for auth recovery the manager is quiet (index.ts, the wiring).
LEMMA EachStepIsManagers ==
  ASSUME IInv, TriggerIsQuiet, [Next]_vars
  PROVE  ManagerSteps /\ TriggerIsQuiet'
<1> USE DEF ManagerSteps, RM!ManagerStep
<1>0. ASSUME UNCHANGED mgrVars
      PROVE  ManagerSteps /\ (RM!Quiet' <=> RM!Quiet) /\ disposed' = disposed
  BY <1>0 DEF mgrVars, RM!mgrVars, RM!runVars, RM!stormVars, RM!flightVars, RM!Quiet
<1>1. ASSUME UNCHANGED <<mgrVars, frame>> PROVE ManagerSteps /\ TriggerIsQuiet'
  BY <1>0, <1>1 DEF TriggerIsQuiet
<1>2. ASSUME frame' \notin RM!Triggers PROVE TriggerIsQuiet'
  BY <1>2 DEF TriggerIsQuiet
<1>3. ASSUME Connect \/ ConnectEnds \/ OpenEnds \/ SwapEnds \/ CookieAuthEnds
      PROVE  ManagerSteps /\ TriggerIsQuiet'
  BY <1>0, <1>2, <1>3
  DEF Connect, ConnectEnds, OpenEnds, SwapEnds, CookieAuthEnds, RM!Triggers
<1>4. ASSUME Dispose PROVE ManagerSteps /\ TriggerIsQuiet'
  BY <1>4 DEF Dispose, RM!Dispose, TriggerIsQuiet
<1>5. ASSUME TokenAuthEnds PROVE ManagerSteps /\ TriggerIsQuiet'
  <2>1. frame' \notin RM!Triggers
    BY <1>5 DEF TokenAuthEnds, RM!Triggers
  <2>2. CASE RM!AuthIgnored(frame)
    BY <1>2, <2>1, <2>2 DEF RM!AuthIgnored
  <2>3. CASE RM!AuthRefreshes(frame) \/ RM!AuthStorm(frame)
    <3>1. ~disposed /\ frame \in RM!Triggers
      BY <1>5, <2>3 DEF TokenAuthEnds, RM!AuthRefreshes, RM!AuthStorm, RM!Stopped
    <3>2. RM!Quiet
      BY <3>1 DEF TriggerIsQuiet
    <3>3. RM!TryAuthRecovery(frame)
      BY <2>3, <3>2 DEF RM!TryAuthRecovery
    <3> QED
      BY <1>2, <2>1, <3>1, <3>3
  <2> QED
    BY <1>5, <2>2, <2>3 DEF TokenAuthEnds
<1>6. ASSUME SwapCloseEvent PROVE ManagerSteps /\ TriggerIsQuiet'
  <2>1. closing # holder /\ HandleClose(closing, "1000") /\ UNCHANGED mgrVars
    BY <1>6 DEF SwapCloseEvent, IInv, ClosingIsReplaced
  <2> QED
    BY <1>1, <2>1, OthersCloseIsIgnored
<1>7. ASSUME DebounceFires \/ RunFinally PROVE ManagerSteps /\ TriggerIsQuiet'
  BY <1>2, <1>7 DEF DebounceFires, RunFinally, clientVars, frameVars, RM!Triggers
<1>8. ASSUME JitterElapses PROVE ManagerSteps /\ TriggerIsQuiet'
  <2>1. frame' \in {"none", "swap"}
    BY <1>8 DEF JitterElapses, SwapBegins, clientVars, frameVars
  <2> QED
    BY <1>2, <1>8, <2>1 DEF JitterElapses, RM!Triggers
<1>9. ASSUME RefreshSettles PROVE ManagerSteps /\ TriggerIsQuiet'
  BY <1>2, <1>9 DEF RefreshSettles, frameVars, RM!Triggers
<1>10. ASSUME WindowExpires PROVE ManagerSteps /\ TriggerIsQuiet'
  <2>1. RM!WindowExpires /\ frame' = frame
    BY <1>10 DEF WindowExpires, clientVars, frameVars
  <2>2. UNCHANGED <<phase, refresh, disposed>>
    BY <2>1 DEF RM!WindowExpires, RM!runVars, RM!flightVars
  <2> QED
    BY <2>1, <2>2 DEF TriggerIsQuiet, RM!Quiet
<1>11. ASSUME AwaiterResumes PROVE ManagerSteps /\ TriggerIsQuiet'
  <2>1. frame' \in {"none", "swap"}
    BY <1>11 DEF AwaiterResumes, SwapBegins, frameVars
  <2> QED
    BY <1>2, <1>11, <2>1 DEF AwaiterResumes, RM!Triggers
<1>12. ASSUME HeartbeatConfig \/ SubscribeGivesUp
       PROVE  ManagerSteps /\ TriggerIsQuiet'
  BY <1>1, <1>12 DEF HeartbeatConfig, SubscribeGivesUp, frameVars
<1>13. ASSUME HeartbeatTimesOut \/ Wakes PROVE ManagerSteps /\ TriggerIsQuiet'
  BY <1>2, <1>13
  DEF HeartbeatTimesOut, Wakes, Task, clientVars, frameVars, RM!Triggers
<1>14. ASSUME UploadRejected PROVE ManagerSteps /\ TriggerIsQuiet'
  <2>1. RM!Quiet /\ frame' = "none"
    BY <1>14 DEF UploadRejected, Task, frameVars
  <2>2. RM!TryAuthRecovery("auth-close")
    BY <1>14, <2>1 DEF UploadRejected, NotifyUploadAuthFailure, RM!TryAuthRecovery
  <2>3. "auth-close" \in RM!Triggers /\ frame' \notin RM!Triggers
    BY <2>1 DEF RM!Triggers
  <2> QED
    BY <1>2, <2>2, <2>3
<1>15. ASSUME NEW w \in Wrappers, Attempt(w) \/ LinkDies(w)
       PROVE  ManagerSteps /\ TriggerIsQuiet'
  BY <1>1, <1>15 DEF Attempt, LinkDies, frameVars
<1>16. ASSUME NEW w \in Wrappers, HandshakeOpens(w) \/ LateOpen(w)
       PROVE  ManagerSteps /\ TriggerIsQuiet'
  BY <1>0, <1>16 DEF HandshakeOpens, LateOpen, Task, TriggerIsQuiet
<1>17. ASSUME NEW w \in Wrappers, NEW code \in Codes, SocketCloses(w, code)
       PROVE  ManagerSteps /\ TriggerIsQuiet'
  BY <1>0, <1>17 DEF SocketCloses, Task, TriggerIsQuiet
<1>18. ASSUME NEW w \in Wrappers, DuplicateClose(w)
       PROVE  ManagerSteps /\ TriggerIsQuiet'
  BY <1>0, <1>18 DEF DuplicateClose, Task, TriggerIsQuiet
<1>19. ASSUME TokenExpires PROVE ManagerSteps /\ TriggerIsQuiet'
  BY <1>1, <1>19 DEF TokenExpires, frameVars
<1>20. ASSUME UNCHANGED vars PROVE ManagerSteps /\ TriggerIsQuiet'
  BY <1>1, <1>20 DEF vars, clientVars, frameVars
<1> HIDE DEF ManagerSteps
<1> QED
  BY <1>3, <1>4, <1>5, <1>6, <1>7, <1>8, <1>9, <1>10, <1>11, <1>12, <1>13, <1>14,
     <1>15, <1>16, <1>17, <1>18, <1>19, <1>20, Zenon
  DEF Next, Step, Consumer, Handlers, Timers, Awaiters, Triggered, Network

\* Inside the client the manager only meets what ReconnectManager allows, so the
\* theorems of ReconnectManagerProofs hold of it (reconnect-manager.ts:150-800).
THEOREM ManagerIsInContext ==
  ASSUME \A d \in Setups : Considerate(d)
  PROVE  Spec => ManagerInContext
<1> DEFINE Inv == DeadInv /\ TriggerIsQuiet
<1>1. Init => Inv
  BY InitDeath DEF Init, TriggerIsQuiet, RM!Triggers
<1>2. Inv /\ IInv /\ [Next]_vars => Inv'
  BY StepKeepsDeath, EachStepIsManagers
<1>3. Inv /\ IInv /\ [Next]_vars => [RM!ManagerNext]_<<IsDead, mgrVars>>
  <2> SUFFICES ASSUME Inv, IInv, [Next]_vars PROVE RM!ManagerNext
    OBVIOUS
  <2>1. ManagerSteps
    BY EachStepIsManagers
  <2>2. IsDead => IsDead'
    BY DeadStays DEF Typed, IInv
  <2>3. IsDead' \in {IsDead, TRUE}
    BY <2>2, Zenon DEF IsDead
  <2> QED
    BY <2>1, <2>3 DEF ManagerSteps, RM!ManagerNext, RM!ClientMayDie
<1> QED
  BY <1>1, <1>2, <1>3, SocketInvariant, PTL DEF Spec, ManagerInContext

-----------------------------------------------------------------------------
\* The types of the manager's variables ...
ManagerTypes ==
  /\ disposed \in BOOLEAN /\ terminalFired \in BOOLEAN /\ debounceArmed \in BOOLEAN
  /\ trailing \in BOOLEAN /\ inWindow \in BOOLEAN /\ lastWasAuth \in BOOLEAN
  /\ authWait \in BOOLEAN
  /\ phase \in {"idle", "jitter", "refresh", "finish"}
  /\ refresh \in {"none", "inflight", "ok", "failed"}

\* ... and of those of the client that OpenInv does not type.
CoreTypes ==
  /\ state \in States
  /\ terminalCalls \in 0 .. CallCap
  /\ attemptOpened \in BOOLEAN /\ terminalAuthFired \in BOOLEAN
  /\ sleepRunning \in BOOLEAN /\ tokenFresh \in BOOLEAN
  /\ heartbeat \in {"off", "subscribing", "watching", "timedout"}
  /\ frame \in Frames \cup {"none"}
  /\ closing \in Wrappers \cup {NoWs}
  /\ sentFresh \subseteq Wrappers

\* The manager's steps keep its types.
LEMMA ManagerKeepsTypes == ASSUME ManagerTypes, ManagerSteps PROVE ManagerTypes'
<1> USE DEF ManagerTypes
<1>1. CASE UNCHANGED RM!mgrVars
  BY <1>1 DEF RM!mgrVars, RM!runVars, RM!stormVars, RM!flightVars
<1>2. CASE RM!Reconnect({}) \/ RM!DebounceFires
  <2>1. UNCHANGED <<disposed, terminalFired, inWindow, lastWasAuth, refresh, authWait>>
    BY <1>2 DEF RM!Reconnect, RM!DebounceFires, RM!stormVars, RM!flightVars
  <2>2. CASE RM!Reconnect({})
    <3>1. debounceArmed' \in BOOLEAN
      BY <2>2 DEF RM!Reconnect
    <3>2. UNCHANGED <<phase, trailing>>
      BY <2>2 DEF RM!Reconnect, RM!runVars
    <3> QED
      BY <2>1, <3>1, <3>2
  <2>3. CASE RM!DebounceFires
    <3>1. debounceArmed' \in BOOLEAN /\ trailing' \in BOOLEAN
      BY <2>3, Zenon DEF RM!DebounceFires, RM!runVars
    <3>2. phase' \in {phase, "jitter"}
      BY <2>3 DEF RM!DebounceFires, RM!runVars
    <3> QED
      BY <2>1, <3>1, <3>2
  <2> QED
    BY <1>2, <2>2, <2>3
<1>3. CASE RM!JitterAborts \/ RM!JitterRebuilds
  BY <1>3 DEF RM!JitterAborts, RM!JitterRebuilds, RM!stormVars, RM!flightVars
<1>4. CASE RM!JitterRefreshes
  BY <1>4 DEF RM!JitterRefreshes, RM!RefreshTokenOnce
<1>5. CASE RM!RunFinally \/ RM!Dispose
  BY <1>5 DEF RM!RunFinally, RM!Dispose, RM!stormVars, RM!flightVars
<1>6. CASE RM!WindowExpires
  BY <1>6 DEF RM!WindowExpires, RM!runVars, RM!flightVars
<1>7. CASE \E trigger \in RM!Triggers : RM!TryAuthRecovery(trigger)
  BY <1>7 DEF RM!TryAuthRecovery, RM!AuthIgnored, RM!AuthStorm, RM!AuthRefreshes,
     RM!RefreshTokenOnce, RM!FireTerminal, RM!mgrVars, RM!runVars, RM!stormVars, RM!flightVars
<1>8. CASE RM!AuthResumes \/ RM!RunResumes
  BY <1>8 DEF RM!AuthResumes, RM!RunResumes, RM!FireTerminal, RM!runVars, RM!stormVars
<1>9. CASE \E outcome \in {"ok", "failed"} : RM!RefreshSettles(outcome)
  BY <1>9 DEF RM!RefreshSettles, RM!runVars, RM!stormVars
<1> QED
  BY <1>1, <1>2, <1>3, <1>4, <1>5, <1>6, <1>7, <1>8, <1>9
  DEF ManagerSteps, RM!ManagerStep

\* So do close events,
LEMMA CloseKeepsTypes ==
  ASSUME CoreTypes, NEW w, NEW code, HandleClose(w, code)
  PROVE  /\ state' \in States
         /\ attemptOpened' \in BOOLEAN /\ sleepRunning' \in BOOLEAN
         /\ heartbeat' \in {"off", "subscribing", "watching", "timedout"}
         /\ frame' \in Frames \cup {"none"}
  BY DEF CoreTypes, HandleClose, OnClose, HandleKicked, ClearHolder, StopsDetector,
     RM!Triggers, States, Frames

\* opens,
LEMMA OpenKeepsTypes ==
  ASSUME CoreTypes, NEW w, HandleOpen(w)
  PROVE  /\ state' \in States /\ attemptOpened' \in BOOLEAN
         /\ frame' \in Frames \cup {"none"}
<1>1. CASE w # holder
  BY <1>1 DEF HandleOpen, CoreTypes
<1>2. CASE w = holder
  BY <1>2 DEF HandleOpen, States, Frames
<1> QED
  BY <1>1, <1>2

\* teardown,
LEMMA TearDownTypes ==
  ASSUME CoreTypes, TearDown
  PROVE  /\ state' \in States
         /\ attemptOpened' \in BOOLEAN /\ sleepRunning' \in BOOLEAN
         /\ heartbeat' = "off"
         /\ sentFresh' \subseteq Wrappers
  BY DEF CoreTypes, TearDown, ClearHolder, StopsDetector, CloseSocket, States

\* the terminal failure,
LEMMA TerminalTypes ==
  ASSUME CoreTypes, TerminalAuthFailure
  PROVE  /\ state' \in States
         /\ attemptOpened' \in BOOLEAN /\ sleepRunning' \in BOOLEAN
         /\ terminalAuthFired' \in BOOLEAN
         /\ terminalCalls' \in 0 .. CallCap
         /\ heartbeat' = "off"
         /\ sentFresh' \subseteq Wrappers
<1>1. CASE terminalAuthFired
  BY <1>1 DEF TerminalAuthFailure, CoreTypes
<1>2. CASE ~terminalAuthFired
  <2>1. TearDown /\ terminalAuthFired'
    BY <1>2 DEF TerminalAuthFailure
  <2>2. terminalAuthFired' \in BOOLEAN
    BY <1>2, Zenon DEF TerminalAuthFailure
  <2>3. terminalCalls' \in 0 .. CallCap
    BY <1>2 DEF TerminalAuthFailure, CoreTypes, CallCap
  <2> QED
    BY <2>1, <2>2, <2>3, TearDownTypes
<1> QED
  BY <1>1, <1>2

\* the swap,
LEMMA SwapTypes ==
  ASSUME CoreTypes, SwapBegins, holder \in Wrappers \cup {NoWs}, UNCHANGED tokenFresh
  PROVE  CoreTypes'
<1> USE DEF CoreTypes
<1>1. CASE IsDead
  BY <1>1 DEF SwapBegins, coreVars, frameVars
<1>2. CASE ~IsDead
  <2>1. sentFresh' \subseteq Wrappers /\ closing' \in Wrappers \cup {NoWs}
    BY <1>2 DEF SwapBegins, CloseSocket
  <2>2. /\ attemptOpened' \in BOOLEAN
        /\ UNCHANGED <<terminalAuthFired, terminalCalls, sleepRunning, tokenFresh>>
    BY <1>2, Zenon DEF SwapBegins, ClearHolder
  <2>3. state' \in States /\ heartbeat' = "off" /\ frame' = "swap"
    BY <1>2 DEF SwapBegins, States
  <2> QED
    BY <2>1, <2>2, <2>3 DEF Frames
<1> QED
  BY <1>1, <1>2

\* and every step of the client.
LEMMA CoreKeepsTypes ==
  ASSUME CoreTypes, OpenInv, [Next]_vars
  PROVE  CoreTypes'
<1> USE DEF CoreTypes
<1>0. holder \in Wrappers \cup {NoWs}
  BY DEF OpenInv, OwedEvents
<1>1. ASSUME UNCHANGED <<coreVars, frameVars, sentFresh, tokenFresh>> PROVE CoreTypes'
  BY <1>1 DEF coreVars, frameVars
<1>2. ASSUME Connect PROVE CoreTypes'
  BY <1>2 DEF Connect, CreateSocket, StartsDetector, States, Frames
<1>3. ASSUME ConnectEnds PROVE CoreTypes'
  BY <1>3 DEF ConnectEnds, CreateSocket, StartsDetector
<1>4. ASSUME Dispose PROVE CoreTypes'
  BY <1>4, TearDownTypes DEF Dispose, frameVars
<1>5. ASSUME OpenEnds PROVE CoreTypes'
  BY <1>5 DEF OpenEnds, OnOpen, netVars
<1>6. ASSUME CookieAuthEnds PROVE CoreTypes'
  <2>1. CASE TerminalAuthFailure
    BY <1>6, <2>1, TerminalTypes DEF CookieAuthEnds
  <2>2. CASE ~TerminalAuthFailure
    BY <1>6, <2>2 DEF CookieAuthEnds, OnClose
  <2> QED
    BY <2>1, <2>2
<1>7. ASSUME TokenAuthEnds PROVE CoreTypes'
  <2>1. CASE TerminalAuthFailure
    BY <1>7, <2>1, TerminalTypes DEF TokenAuthEnds
  <2>2. CASE ~TerminalAuthFailure
    BY <1>7, <2>2 DEF TokenAuthEnds, OnClose
  <2> QED
    BY <2>1, <2>2
<1>8. ASSUME SwapCloseEvent PROVE CoreTypes'
  BY <1>8, CloseKeepsTypes DEF SwapCloseEvent, netVars
<1>9. ASSUME SwapEnds PROVE CoreTypes'
  BY <1>9 DEF SwapEnds, CreateSocket
<1>10. ASSUME DebounceFires \/ RunFinally \/ WindowExpires \/ Wakes PROVE CoreTypes'
  BY <1>1, <1>10
  DEF DebounceFires, RunFinally, WindowExpires, Wakes, clientVars, netVars
<1>11. ASSUME RefreshSettles \/ TokenExpires PROVE CoreTypes'
  BY <1>11 DEF RefreshSettles, TokenExpires, coreVars, frameVars
<1>12. ASSUME JitterElapses PROVE CoreTypes'
  BY <1>0, <1>1, <1>12, SwapTypes DEF JitterElapses, clientVars, netVars
<1>13. ASSUME AwaiterResumes PROVE CoreTypes'
  <2>1. CASE SwapBegins
    BY <1>0, <1>13, <2>1, SwapTypes DEF AwaiterResumes
  <2>2. CASE TerminalAuthFailure /\ UNCHANGED frameVars
    BY <1>13, <2>2, TerminalTypes DEF AwaiterResumes, frameVars
  <2> QED
    BY <1>1, <1>13, <2>1, <2>2 DEF AwaiterResumes
<1>14. ASSUME HeartbeatConfig \/ SubscribeGivesUp \/ HeartbeatTimesOut
       PROVE  CoreTypes'
  BY <1>14
  DEF HeartbeatConfig, SubscribeGivesUp, HeartbeatTimesOut, frameVars, netVars,
      States
<1>15. ASSUME UploadRejected PROVE CoreTypes'
  BY <1>1, <1>15, TerminalTypes DEF UploadRejected, NotifyUploadAuthFailure, frameVars
<1>16. ASSUME NEW w \in Wrappers, Attempt(w) \/ LinkDies(w) PROVE CoreTypes'
  BY <1>16 DEF Attempt, BuildUrl, LinkDies, coreVars, frameVars
<1>17. ASSUME NEW w \in Wrappers, HandshakeOpens(w) \/ LateOpen(w) PROVE CoreTypes'
  <2>1. /\ HandleOpen(w)
        /\ UNCHANGED <<terminalAuthFired, terminalCalls, heartbeat, sleepRunning,
                       closing, sentFresh, tokenFresh>>
    BY <1>17 DEF HandshakeOpens, LateOpen
  <2> QED
    BY <2>1, OpenKeepsTypes
<1>18. ASSUME NEW w \in Wrappers, NEW code \in Codes, SocketCloses(w, code)
       PROVE  CoreTypes'
  BY <1>18, CloseKeepsTypes DEF SocketCloses
<1>19. ASSUME NEW w \in Wrappers, DuplicateClose(w) PROVE CoreTypes'
  BY <1>19, CloseKeepsTypes DEF DuplicateClose
<1>20. ASSUME UNCHANGED vars PROVE CoreTypes'
  BY <1>1, <1>20 DEF vars, clientVars, netVars
<1> HIDE DEF CoreTypes
<1> QED
  BY <1>2, <1>3, <1>4, <1>5, <1>6, <1>7, <1>8, <1>9, <1>10, <1>11, <1>12, <1>13, <1>14,
     <1>15, <1>16, <1>17, <1>18, <1>19, <1>20, Zenon
  DEF Next, Step, Consumer, Handlers, Timers, Awaiters, Triggered, Network

\* Together they are the client's type invariant.
LEMMA TypesTogether ==
  ASSUME setup \in Setups, CoreTypes, ManagerTypes, OpenInv PROVE TypeOK
  BY DEF CoreTypes, ManagerTypes, OpenInv, OwedEvents, IInv, SocketStates, TypeOK

\* A dead client (disposed, terminal or kicked) keeps no wrapper, no heartbeat and no
\* sleep detector, and its state says so (client-lifecycle.ts:108-344).
THEOREM DeadIsEmpty ==
  ASSUME \A d \in Setups : Considerate(d)
  PROVE  Spec => []DeadHoldsNothing
<1> DEFINE Inv == /\ setup \in Setups /\ DeadInv /\ TriggerIsQuiet
                  /\ CoreTypes /\ ManagerTypes
<1>1. Init => Inv
  <2> SUFFICES ASSUME Init PROVE Inv
    OBVIOUS
  <2>1. setup \in Setups /\ DeadInv
    BY InitDeath DEF Init
  <2>2. TriggerIsQuiet
    BY DEF Init, TriggerIsQuiet, RM!Triggers
  <2>3. CoreTypes
    <3>1. terminalCalls \in 0 .. CallCap
      BY DEF Init, CallCap
    <3>2. /\ attemptOpened \in BOOLEAN /\ terminalAuthFired \in BOOLEAN
          /\ sleepRunning \in BOOLEAN /\ tokenFresh \in BOOLEAN
      BY Zenon DEF Init
    <3>3. /\ state \in States
          /\ heartbeat \in {"off", "subscribing", "watching", "timedout"}
          /\ frame \in Frames \cup {"none"}
          /\ closing \in Wrappers \cup {NoWs}
          /\ sentFresh \subseteq Wrappers
      BY DEF Init, States
    <3> QED
      BY <3>1, <3>2, <3>3, Zenon DEF CoreTypes
  <2>4. ManagerTypes
    BY DEF Init, ManagerTypes
  <2> QED
    BY <2>1, <2>2, <2>3, <2>4
<1>2. Inv /\ OpenInv /\ [Next]_vars => Inv'
  <2> SUFFICES ASSUME Inv, OpenInv, [Next]_vars PROVE Inv'
    OBVIOUS
  <2>1. setup' = setup
    BY DEF Next, vars
  <2>2. DeadInv' /\ TriggerIsQuiet' /\ ManagerSteps
    BY StepKeepsDeath, EachStepIsManagers DEF OpenInv
  <2> QED
    BY <2>1, <2>2, CoreKeepsTypes, ManagerKeepsTypes
<1>3. Inv /\ OpenInv => DeadHoldsNothing
  BY TypesTogether DEF DeadHoldsNothing, DeadInv, Emptied
<1> QED
  BY <1>1, <1>2, <1>3, OpenInvariant, PTL DEF Spec

-----------------------------------------------------------------------------
(***************************************************************************)
(* Nobody is logged out by an unlucky order.                               *)
(***************************************************************************)

\* An auth refresh is stamped in the window and no longer under way.
Recovered == inWindow /\ lastWasAuth /\ refresh \notin {"inflight", "ok"}

\* Within the window of a refresh that came back the token is accepted; once
\* the sockets were swapped for it, no wrapper carries an older one or owes a
\* second close, so no auth close is under way.
LuckInv ==
  /\ refresh # "failed"
  /\ inWindow /\ refresh # "inflight" => tokenFresh
  /\ Recovered => /\ \A w \in Wrappers :
                       sock[w] \in {"handshake", "open"} => w \in sentFresh
                  /\ holder \notin dupClose
                  /\ frame # "auth-close"
  /\ ~terminalAuthFired

\* The deployments NoSpuriousLogout is about: token auth, honest server.
Lucky == HasTokenProvider /\ HonestServer

\* A new client has refreshed nothing.
LEMMA InitLuck == Init => LuckInv
  BY DEF Init, LuckInv, Recovered

\* A swap leaves no wrapper that carries the old token, and a dead client has none
\* (token-refresh-handler.ts:282-368).
LEMMA SwapClosesAll ==
  ASSUME DeadInv, OpenInv, SwapBegins
  PROVE  /\ \A w \in Wrappers : sock'[w] = "closed"
         /\ holder' = NoWs
         /\ UNCHANGED terminalAuthFired
         /\ frame' \in {frame, "swap"}
<1>1. CASE IsDead
  BY <1>1, NoWsAssumption
  DEF SwapBegins, coreVars, frameVars, DeadInv, Emptied, OpenInv, IInv, LiveSocketIsHeld
<1>2. CASE ~IsDead
  BY <1>2 DEF SwapBegins, ClearHolder, CloseSocket, OpenInv, IInv, LiveSocketIsHeld
<1> QED
  BY <1>1, <1>2

\* Whatever order drops, timeouts, duplicate closes, uploads and expiries come in, an
\* auth close never meets the stamp of an auth refresh that succeeded.
LEMMA LuckStep ==
  ASSUME Lucky, LuckInv, DeadInv, TriggerIsQuiet, OpenInv, [Next]_vars
  PROVE  LuckInv'
<1> USE NoWsAssumption DEF LuckInv, Recovered
<1>0. Faults \cap {"reject-fresh", "refresh-fails", "short-token"} = {}
  BY DEF Lucky, HonestServer
<1>types. dupClose \subseteq Wrappers /\ sock \in [Wrappers -> SocketStates]
  BY DEF OpenInv, OwedEvents, IInv
<1>closes. ASSUME CloseSocket(holder) PROVE \A w \in Wrappers : sock'[w] = "closed"
  BY <1>closes DEF CloseSocket, OpenInv, IInv, LiveSocketIsHeld
<1>creates. ASSUME CreateSocket
      PROVE  /\ holder' \notin dupClose
             /\ \A w \in Wrappers :
                  sock'[w] \in {"handshake", "open"} => sock[w] = sock'[w]
  BY <1>types, <1>creates DEF CreateSocket
<1>2. ASSUME Connect PROVE LuckInv'
  BY <1>2, <1>creates DEF Connect, mgrVars
<1>3. ASSUME ConnectEnds PROVE LuckInv'
  BY <1>3, <1>creates DEF ConnectEnds, mgrVars
<1>4. ASSUME Dispose PROVE LuckInv'
  BY <1>4, <1>types, <1>closes
  DEF Dispose, TearDown, ClearHolder, RM!Dispose, RM!stormVars, RM!flightVars,
      frameVars
<1>5. ASSUME OpenEnds PROVE LuckInv'
  BY <1>5 DEF OpenEnds, netVars, mgrVars
<1>6. ASSUME CookieAuthEnds PROVE LuckInv'
  BY <1>6 DEF CookieAuthEnds, Lucky
<1>7. ASSUME TokenAuthEnds PROVE LuckInv'
  <2>1. ~RM!AuthStorm(frame)
    BY <1>7
    DEF TokenAuthEnds, RM!AuthStorm, RM!Storm, RM!Stopped, TriggerIsQuiet, RM!Quiet
  <2>2. /\ UNCHANGED <<terminalAuthFired, holder, sock, sentFresh, dupClose, tokenFresh>>
        /\ frame' = "none"
    BY <1>7, <2>1 DEF TokenAuthEnds
  <2>3. \/ UNCHANGED <<inWindow, lastWasAuth, refresh>>
        \/ refresh' = "inflight"
    BY <1>7, <2>1
    DEF TokenAuthEnds, RM!AuthIgnored, RM!AuthRefreshes, RM!mgrVars, RM!stormVars,
        RM!flightVars, RM!RefreshTokenOnce
  <2> QED
    BY <2>2, <2>3
<1>8. ASSUME SwapCloseEvent PROVE LuckInv'
  <2>1. closing # holder /\ HandleClose(closing, "1000")
    BY <1>8 DEF SwapCloseEvent, OpenInv, IInv, ClosingIsReplaced
  <2> QED
    BY <1>8, <2>1, OthersCloseIsIgnored DEF SwapCloseEvent, netVars, mgrVars
<1>9. ASSUME SwapEnds PROVE LuckInv'
  BY <1>9, <1>creates DEF SwapEnds, mgrVars
<1>10. ASSUME DebounceFires \/ RunFinally \/ Wakes PROVE LuckInv'
  BY <1>10
  DEF DebounceFires, RunFinally, Wakes, RM!DebounceFires, RM!RunFinally,
      RM!Reconnect,
     RM!stormVars, RM!flightVars, clientVars, coreVars, frameVars, netVars
<1>11. ASSUME WindowExpires PROVE LuckInv'
  BY <1>11
  DEF WindowExpires, RM!WindowExpires, RM!flightVars, clientVars, coreVars,
      frameVars, netVars
<1>12. ASSUME TokenExpires PROVE LuckInv'
  BY <1>0, <1>12 DEF TokenExpires, coreVars, frameVars, mgrVars
<1>13. ASSUME RefreshSettles PROVE LuckInv'
  BY <1>0, <1>13
  DEF RefreshSettles, RM!RefreshSettles, RM!stormVars, coreVars, frameVars
<1>14. ASSUME JitterElapses PROVE LuckInv'
  <2>1. CASE RM!JitterRefreshes /\ UNCHANGED clientVars
    BY <2>1 DEF RM!JitterRefreshes, RM!RefreshTokenOnce, clientVars, coreVars, frameVars, netVars
  <2>2. CASE RM!JitterAborts /\ UNCHANGED clientVars
    BY <2>2
    DEF RM!JitterAborts, RM!stormVars, RM!flightVars, clientVars, coreVars,
        frameVars, netVars
  <2>3. CASE RM!JitterRebuilds /\ SwapBegins /\ UNCHANGED <<dupClose, tokenFresh>>
    BY <1>14, <1>types, <2>3, SwapClosesAll
    DEF JitterElapses, RM!JitterRebuilds, RM!stormVars, RM!flightVars
  <2> QED
    BY <1>14, <2>1, <2>2, <2>3 DEF JitterElapses
<1>15. ASSUME AwaiterResumes PROVE LuckInv'
  <2>1. /\ SwapBegins /\ refresh = "ok" /\ frame = "none"
        /\ UNCHANGED <<dupClose, tokenFresh>>
    BY <1>15 DEF AwaiterResumes
  <2>2. refresh' \in {"ok", "none"} /\ UNCHANGED <<inWindow, lastWasAuth>>
    BY <1>15, <2>1 DEF AwaiterResumes, RM!AuthResumes, RM!RunResumes, RM!stormVars
  <2> QED
    BY <1>types, <2>1, <2>2, SwapClosesAll
<1>16. ASSUME HeartbeatConfig \/ SubscribeGivesUp PROVE LuckInv'
  BY <1>16 DEF HeartbeatConfig, SubscribeGivesUp, frameVars, netVars, mgrVars
<1>17. ASSUME HeartbeatTimesOut PROVE LuckInv'
  BY <1>17
  DEF HeartbeatTimesOut, RM!Reconnect, RM!stormVars, RM!flightVars, frameVars,
      netVars
<1>18. ASSUME UploadRejected PROVE LuckInv'
  <2>1. ~tokenFresh /\ frame = "none" /\ UNCHANGED <<frameVars, dupClose, tokenFresh>>
    BY <1>0, <1>18 DEF UploadRejected, Task
  <2>2. ~RM!AuthStorm("auth-close")
    BY <2>1 DEF RM!AuthStorm, RM!Storm
  <2>3. UNCHANGED <<coreVars, sock, sentFresh>>
    BY <1>18, <2>2 DEF UploadRejected, NotifyUploadAuthFailure
  <2>4. \/ UNCHANGED <<inWindow, lastWasAuth, refresh>>
        \/ refresh' = "inflight"
    BY <1>18, <2>2
    DEF UploadRejected, NotifyUploadAuthFailure, RM!AuthIgnored, RM!AuthRefreshes,
       RM!mgrVars, RM!stormVars, RM!flightVars, RM!RefreshTokenOnce
  <2> QED
    BY <2>1, <2>3, <2>4 DEF coreVars, frameVars
<1>19. ASSUME NEW w \in Wrappers, Attempt(w) PROVE LuckInv'
  BY <1>19, <1>types DEF Attempt, BuildUrl, coreVars, frameVars, mgrVars
<1>20. ASSUME NEW w \in Wrappers, HandshakeOpens(w) PROVE LuckInv'
  BY <1>20, <1>types DEF HandshakeOpens, HandleOpen, mgrVars
<1>21. ASSUME NEW w \in Wrappers, LateOpen(w) PROVE LuckInv'
  BY <1>21 DEF LateOpen, HandleOpen, mgrVars
<1>22. ASSUME NEW w \in Wrappers, LinkDies(w) PROVE LuckInv'
  BY <1>22, <1>types DEF LinkDies, coreVars, frameVars, mgrVars
<1>23. ASSUME NEW w \in Wrappers, NEW code \in Codes, SocketCloses(w, code)
       PROVE  LuckInv'
  <2>1. code = "1008" => ~Recovered
    BY <1>0, <1>23 DEF SocketCloses, MayClose
  <2>2. HandleClose(w, code) /\ frame = "none"
    BY <1>23 DEF SocketCloses, Task
  <2>3. holder' \in {holder, NoWs} /\ (frame' = "auth-close" => code = "1008")
    BY <2>2 DEF HandleClose, DecideClose, HandleKicked, ClearHolder, RM!Triggers
  <2>4. \A v \in Wrappers :
          sock'[v] \in {"handshake", "open"} => v # w /\ sock[v] = sock'[v]
    BY <1>23, <1>types DEF SocketCloses
  <2>5. code # "1008" => dupClose' = dupClose
    BY <1>23 DEF SocketCloses
  <2> QED
    BY <1>23, <1>types, <2>1, <2>3, <2>4, <2>5 DEF SocketCloses, mgrVars
<1>24. ASSUME NEW w \in Wrappers, DuplicateClose(w) PROVE LuckInv'
  <2>1. CASE w # holder
    BY <1>24, <2>1, OthersCloseIsIgnored DEF DuplicateClose, mgrVars
  <2>2. CASE w = holder
    <3>1. ~Recovered
      BY <1>24, <2>2 DEF DuplicateClose
    <3> QED
      BY <1>24, <3>1 DEF DuplicateClose, mgrVars
  <2> QED
    BY <2>1, <2>2
<1>25. ASSUME UNCHANGED vars PROVE LuckInv'
  BY <1>25 DEF vars, clientVars, coreVars, frameVars, netVars, mgrVars
<1> HIDE DEF LuckInv, Recovered
<1> QED
  BY <1>2, <1>3, <1>4, <1>5, <1>6, <1>7, <1>8, <1>9, <1>10, <1>11, <1>12, <1>13, <1>14,
     <1>15, <1>16, <1>17, <1>18, <1>19, <1>20, <1>21, <1>22, <1>23, <1>24, <1>25, Zenon
  DEF Next, Step, Consumer, Handlers, Timers, Awaiters, Triggered, Network

\* With an honest server and identity provider, no interleaving logs the user out
\* (Bug 16, 23, 25, F2; reconnect-manager.ts:325-470).
THEOREM LuckDoesNotLogOut ==
  ASSUME \A d \in Setups : Considerate(d)
  PROVE  Spec => []NoSpuriousLogout
<1> DEFINE Inv == DeadInv /\ TriggerIsQuiet /\ (Lucky => LuckInv)
<1>1. Init => Inv
  BY InitDeath, InitLuck DEF Init, TriggerIsQuiet, RM!Triggers
<1>2. Inv /\ OpenInv /\ [Next]_vars => Inv'
  <2> SUFFICES ASSUME Inv, OpenInv, [Next]_vars PROVE Inv'
    OBVIOUS
  <2>1. Lucky' <=> Lucky
    BY DEF Next, vars, Lucky, HasTokenProvider, HonestServer, Faults
  <2>2. DeadInv' /\ TriggerIsQuiet'
    BY StepKeepsDeath, EachStepIsManagers DEF OpenInv
  <2> QED
    BY <2>1, <2>2, LuckStep
<1>3. Inv => NoSpuriousLogout
  BY DEF NoSpuriousLogout, Lucky, LuckInv
<1> QED
  BY <1>1, <1>2, <1>3, OpenInvariant, PTL DEF Spec

-----------------------------------------------------------------------------
(***************************************************************************)
(* The safety half of Recovers: a client that is not connected is on its   *)
(* way back.                                                               *)
(***************************************************************************)

\* The held wrapper attempts, or waits to attempt again.
Trying == holder # NoWs /\ sock[holder] \in {"backoff", "handshake"}

\* The manager owes a run that will swap the socket, or end the client.
SwapIsOwed ==
  \/ debounceArmed \/ trailing
  \/ phase = "jitter"
  \/ phase = "refresh" /\ refresh # "none"

\* A living client that says it is connecting or retrying is about to create a
\* wrapper, has one that tries, or is owed a swap.
NotStranded ==
  state \in {"connecting", "retrying"} /\ ~IsDead =>
    frame \in {"connect", "swap"} \/ Trying \/ SwapIsOwed

\* A wrapper that is held during a swap is the fresh one of a re-entrant connect().
SwapIsOpen == frame = "swap" => holder = NoWs \/ Trying

\* A manager that fired the terminal failure did so for a client that is over, and a
\* run that awaits a refresh has one to await.
BackInv ==
  /\ NotStranded
  /\ SwapIsOpen
  /\ terminalFired => terminalAuthFired
  /\ phase = "refresh" => refresh # "none"

\* The manager is stopped only for a client that is over.
LEMMA StoppedIsOver == ASSUME BackInv, RM!Stopped PROVE IsDead
  BY Zenon DEF BackInv, RM!Stopped, IsDead

\* What a step may do to the manager of a client that goes on: it keeps what is owed.
Keeps ==
  /\ terminalFired' = terminalFired
  /\ SwapIsOwed => SwapIsOwed'
  /\ phase' = "refresh" => refresh' # "none"

\* Leaving the manager alone does.
LEMMA IdleKeeps == ASSUME BackInv, UNCHANGED mgrVars PROVE Keeps
  BY DEF BackInv, mgrVars, Keeps, SwapIsOwed

\* A death needs no way back.
LEMMA OverIsBack ==
  ASSUME BackInv, IsDead', terminalFired' => terminalAuthFired', SwapIsOpen',
         phase' = "refresh" => refresh' # "none"
  PROVE  BackInv'
  BY DEF BackInv, NotStranded

\* A terminal failure is a death.
LEMMA TerminalIsOver == ASSUME TerminalAuthFailure PROVE terminalAuthFired' /\ IsDead'
  BY DEF TerminalAuthFailure, IsDead

\* What dies stays dead where its state and its latches stay.
LEMMA OverStays ==
  ASSUME IsDead, UNCHANGED <<state, disposed, terminalAuthFired>>
  PROVE  IsDead'
  BY Zenon DEF IsDead

\* A swap that may begin is under way until it has installed a wrapper; a dead client
\* refuses it (token-refresh-handler.ts:282-436).
LEMMA SwapIsBack ==
  ASSUME BackInv, SwapBegins, UNCHANGED <<disposed, terminalFired>>,
         phase' = "refresh" => refresh' # "none"
  PROVE  BackInv'
<1> USE DEF SwapIsOpen
<1>1. terminalAuthFired' = terminalAuthFired
  BY DEF SwapBegins, coreVars
<1>2. CASE IsDead
  <2>1. IsDead' /\ UNCHANGED <<frame, holder, sock>>
    BY <1>1, <1>2, OverStays DEF SwapBegins, coreVars, frameVars
  <2> QED
    BY <1>1, <2>1 DEF BackInv, NotStranded, Trying
<1>3. CASE ~IsDead
  <2>1. frame' = "swap" /\ holder' = NoWs
    BY <1>3 DEF SwapBegins, ClearHolder
  <2> QED
    BY <1>1, <2>1 DEF BackInv, NotStranded
<1> QED
  BY <1>2, <1>3

\* A close event of the held wrapper finds it waiting for its next attempt, or kicks
\* the client (event-handlers.ts:191-317).
LEMMA CloseIsBack ==
  ASSUME BackInv, OpenInv, NEW w \in Wrappers, NEW code, HandleClose(w, code),
         w = holder => sock'[w] = "backoff" \/ code = "4005",
         w # holder => UNCHANGED sock,
         w = holder => frame = "none",
         UNCHANGED <<disposed, terminalAuthFired, mgrVars>>
  PROVE  BackInv'
<1> USE DEF SwapIsOpen
<1>1. Keeps
  BY IdleKeeps
<1>2. CASE w # holder
  <2>1. UNCHANGED <<state, holder, frame>>
    BY <1>2, OthersCloseIsIgnored
  <2>2. IsDead => IsDead'
    BY <2>1, OverStays
  <2>3. Trying => Trying'
    BY <1>2, <2>1 DEF Trying
  <2> QED
    BY <1>1, <2>1, <2>2, <2>3 DEF BackInv, NotStranded, Keeps
<1>3. CASE w = holder /\ code = "4005"
  <2>1. state' = "kicked" /\ holder' = NoWs
    BY <1>3 DEF HandleClose, DecideClose, RM!Triggers, HandleKicked, ClearHolder
  <2> QED
    BY <1>1, <2>1 DEF BackInv, NotStranded, Keeps
<1>4. CASE w = holder /\ code # "4005"
  <2>1. holder' = holder /\ sock'[holder] = "backoff" /\ holder # NoWs
    BY <1>4, HandleCloseKeepsHolder, NoWsAssumption
  <2>2. Trying'
    BY <2>1 DEF Trying
  <2> QED
    BY <1>1, <2>2 DEF BackInv, NotStranded, Keeps
<1> QED
  BY <1>2, <1>3, <1>4

\* No step strands a client.
LEMMA BackStep == ASSUME BackInv, OpenInv, [Next]_vars PROVE BackInv'
<1> USE NoWsAssumption DEF SwapIsOpen
<1>types. sock \in [Wrappers -> SocketStates]
  BY DEF OpenInv, IInv
<1>0. ASSUME Keeps, Trying => Trying', IsDead => IsDead',
             UNCHANGED <<state, frame, holder, terminalAuthFired>>
      PROVE  BackInv'
  BY <1>0 DEF BackInv, NotStranded, Keeps
<1>1. ASSUME UNCHANGED <<state, frame, holder, sock, disposed, terminalAuthFired>>, Keeps
      PROVE  BackInv'
  <2>1. IsDead => IsDead'
    BY <1>1, OverStays
  <2> QED
    BY <1>0, <1>1, <2>1 DEF Trying
<1>creates. ASSUME CreateSocket PROVE Trying'
  BY <1>creates, <1>types DEF CreateSocket, Trying
<1>2. ASSUME Connect \/ ConnectEnds PROVE BackInv'
  <2>1. Keeps /\ terminalAuthFired' = terminalAuthFired
    BY <1>2, IdleKeeps DEF Connect, ConnectEnds
  <2>2. frame' = "connect" \/ Trying'
    BY <1>2, <1>creates DEF Connect, ConnectEnds
  <2> QED
    BY <2>1, <2>2 DEF BackInv, NotStranded, Keeps
<1>3. ASSUME Dispose PROVE BackInv'
  <2>1. IsDead' /\ UNCHANGED <<terminalFired, terminalAuthFired>> /\ holder' = NoWs
    BY <1>3 DEF Dispose, RM!Dispose, IsDead, TearDown, ClearHolder
  <2>2. phase' = "refresh" => refresh' # "none"
    BY <1>3 DEF Dispose, RM!Dispose, RM!flightVars, BackInv
  <2> QED
    BY <2>1, <2>2, OverIsBack DEF BackInv
<1>4. ASSUME OpenEnds PROVE BackInv'
  <2>1. Keeps /\ UNCHANGED <<state, holder, sock, disposed, terminalAuthFired>>
    BY <1>4, IdleKeeps DEF OpenEnds, netVars, mgrVars
  <2>2. frame = "open" /\ frame' = "none"
    BY <1>4 DEF OpenEnds
  <2>3. IsDead => IsDead'
    BY <2>1, OverStays
  <2> QED
    BY <2>1, <2>2, <2>3 DEF BackInv, NotStranded, Keeps, Trying
<1>auth. ASSUME frame \in RM!Triggers, frame' = "none", Keeps,
                UNCHANGED <<state, holder, sock, disposed, terminalAuthFired>>
         PROVE  BackInv'
  <2>1. IsDead => IsDead'
    BY <1>auth, OverStays
  <2> QED
    BY <1>auth, <2>1 DEF BackInv, NotStranded, Keeps, Trying, RM!Triggers
<1>5. ASSUME CookieAuthEnds PROVE BackInv'
  <2>1. Keeps /\ UNCHANGED disposed
    BY <1>5, IdleKeeps DEF CookieAuthEnds, mgrVars
  <2>2. CASE TerminalAuthFailure
    BY <1>5, <2>1, <2>2, TerminalIsOver, OverIsBack DEF CookieAuthEnds, Keeps
  <2>3. CASE ~TerminalAuthFailure
    BY <1>5, <1>auth, <2>1, <2>3 DEF CookieAuthEnds
  <2> QED
    BY <2>2, <2>3
<1>ignored. ASSUME NEW t, RM!AuthIgnored(t) \/ RM!AuthRefreshes(t)
            PROVE  Keeps /\ UNCHANGED disposed
  BY <1>ignored
  DEF RM!AuthIgnored, RM!AuthRefreshes, RM!mgrVars, RM!runVars, RM!stormVars,
      RM!flightVars, RM!RefreshTokenOnce, Keeps, SwapIsOwed, BackInv
<1>storm. ASSUME NEW t, RM!AuthStorm(t), TerminalAuthFailure, frame' = "none"
          PROVE  BackInv'
  <2>1. phase' = "refresh" => refresh' # "none"
    BY <1>storm DEF RM!AuthStorm, RM!runVars, RM!flightVars, BackInv
  <2> QED
    BY <1>storm, <2>1, TerminalIsOver, OverIsBack
<1>6. ASSUME TokenAuthEnds PROVE BackInv'
  BY <1>6, <1>auth, <1>ignored, <1>storm DEF TokenAuthEnds
<1>7. ASSUME SwapCloseEvent PROVE BackInv'
  <2>1. closing # holder /\ HandleClose(closing, "1000")
    BY <1>7 DEF SwapCloseEvent, OpenInv, IInv, ClosingIsReplaced
  <2>2. UNCHANGED <<state, holder, frame>>
    BY <2>1, OthersCloseIsIgnored
  <2> QED
    BY <1>1, <1>7, <2>2, IdleKeeps DEF SwapCloseEvent, netVars, mgrVars
<1>8. ASSUME SwapEnds PROVE BackInv'
  <2>1. Keeps /\ UNCHANGED <<state, disposed, terminalAuthFired>>
    BY <1>8, IdleKeeps DEF SwapEnds, mgrVars
  <2>2. CASE IsDead
    BY <1>8, <2>1, <2>2, OverStays, OverIsBack DEF SwapEnds, Keeps, BackInv
  <2>3. CASE ~IsDead /\ holder = NoWs
    <3>1. Trying'
      BY <1>8, <1>creates, <2>3 DEF SwapEnds
    <3> QED
      BY <2>1, <3>1 DEF BackInv, NotStranded, Keeps
  <2>4. CASE ~IsDead /\ holder # NoWs
    <3>1. frame = "swap" /\ UNCHANGED <<sock, holder>>
      BY <1>8, <2>4 DEF SwapEnds
    <3> QED
      BY <2>1, <2>4, <3>1 DEF BackInv, NotStranded, Keeps, Trying
  <2> QED
    BY <2>2, <2>3, <2>4
<1>9. ASSUME DebounceFires PROVE BackInv'
  <2>1. UNCHANGED <<state, frame, holder, sock, disposed, terminalAuthFired, terminalFired,
                    refresh>>
    BY <1>9 DEF DebounceFires, RM!DebounceFires, RM!flightVars, clientVars, coreVars,
       frameVars, netVars
  <2>2. CASE RM!Stopped
    <3>1. IsDead'
      BY <2>1, <2>2, StoppedIsOver, OverStays
    <3>2. phase' = phase
      BY <1>9, <2>2 DEF DebounceFires, RM!DebounceFires, RM!runVars
    <3> QED
      BY <2>1, <3>1, <3>2, OverIsBack DEF BackInv, Trying
  <2>3. CASE ~RM!Stopped
    <3>1. trailing' \/ phase' = "jitter"
      BY <1>9, <2>3 DEF DebounceFires, RM!DebounceFires
    <3>2. phase' \in {phase, "jitter"}
      BY <1>9, <2>3 DEF DebounceFires, RM!DebounceFires
    <3> QED
      BY <1>1, <2>1, <3>1, <3>2 DEF Keeps, SwapIsOwed, BackInv
  <2> QED
    BY <2>2, <2>3
<1>10. ASSUME JitterElapses PROVE BackInv'
  <2>1. UNCHANGED <<disposed, terminalFired>>
    BY <1>10 DEF JitterElapses, RM!JitterAborts, RM!JitterRefreshes, RM!JitterRebuilds
  <2>2. CASE RM!JitterAborts /\ UNCHANGED clientVars
    <3>1. IsDead' /\ phase' = "finish"
      BY <2>1, <2>2, StoppedIsOver, OverStays DEF RM!JitterAborts, clientVars, coreVars
    <3> QED
      BY <2>1, <2>2, <3>1, OverIsBack
      DEF BackInv, clientVars, coreVars, frameVars, netVars, Trying
  <2>3. CASE RM!JitterRefreshes /\ UNCHANGED clientVars
    <3>1. phase' = "refresh" /\ refresh' = "inflight"
      BY <2>3 DEF RM!JitterRefreshes, RM!RefreshTokenOnce
    <3> QED
      BY <1>1, <2>1, <2>3, <3>1
      DEF Keeps, SwapIsOwed, clientVars, coreVars, frameVars, netVars
  <2>4. CASE RM!JitterRebuilds /\ SwapBegins
    BY <2>1, <2>4, SwapIsBack DEF RM!JitterRebuilds
  <2> QED
    BY <1>10, <2>2, <2>3, <2>4 DEF JitterElapses
<1>11. ASSUME RefreshSettles PROVE BackInv'
  BY <1>1, <1>11
  DEF RefreshSettles, RM!RefreshSettles, RM!runVars, Keeps, SwapIsOwed, coreVars, frameVars
<1>12. ASSUME WindowExpires \/ TokenExpires PROVE BackInv'
  BY <1>1, <1>12
  DEF WindowExpires, RM!WindowExpires, TokenExpires, RM!runVars, RM!flightVars, Keeps,
      SwapIsOwed, BackInv, clientVars, coreVars, frameVars, netVars, mgrVars
<1>13. ASSUME AwaiterResumes PROVE BackInv'
  <2>1. /\ UNCHANGED disposed /\ frame = "none"
        /\ phase' = "refresh" => refresh' # "none"
        /\ terminalFired' = terminalFired \/ refresh = "failed"
    BY <1>13 DEF AwaiterResumes, RM!AuthResumes, RM!RunResumes, RM!runVars, BackInv
  <2>2. CASE refresh = "ok" /\ SwapBegins
    BY <1>13, <2>1, <2>2, SwapIsBack DEF AwaiterResumes, RM!AuthResumes, RM!RunResumes
  <2>3. CASE refresh = "failed" /\ UNCHANGED frameVars
    <3>1. CASE RM!Stopped
      <4>1. UNCHANGED <<coreVars, sock>>
        BY <1>13, <2>3, <3>1 DEF AwaiterResumes
      <4>2. IsDead'
        BY <2>1, <3>1, <4>1, StoppedIsOver, OverStays DEF coreVars
      <4>3. terminalFired' => terminalFired
        BY <1>13, <2>3, <3>1, Zenon
        DEF AwaiterResumes, RM!AuthResumes, RM!RunResumes, RM!FireTerminal
      <4> QED
        BY <2>1, <2>3, <4>1, <4>2, <4>3, OverIsBack DEF BackInv, coreVars, frameVars
    <3>2. CASE ~RM!Stopped
      <4>1. TerminalAuthFailure
        BY <1>13, <2>3, <3>2 DEF AwaiterResumes
      <4> QED
        BY <2>1, <2>3, <4>1, TerminalIsOver, OverIsBack DEF frameVars
    <3> QED
      BY <3>1, <3>2
  <2> QED
    BY <1>13, <2>2, <2>3 DEF AwaiterResumes
<1>14. ASSUME RunFinally PROVE BackInv'
  <2>1. UNCHANGED <<state, frame, holder, sock, disposed, terminalAuthFired, terminalFired,
                    refresh, debounceArmed>>
    BY <1>14 DEF RunFinally, RM!RunFinally, RM!flightVars, clientVars, coreVars,
       frameVars, netVars
  <2>2. phase = "finish" /\ phase' \in {"jitter", "idle"}
    BY <1>14 DEF RunFinally, RM!RunFinally
  <2>3. CASE RM!Stopped
    BY <2>1, <2>2, <2>3, StoppedIsOver, OverStays, OverIsBack DEF BackInv, Trying
  <2>4. CASE ~RM!Stopped
    <3>1. trailing => phase' = "jitter"
      BY <1>14, <2>4 DEF RunFinally, RM!RunFinally
    <3> QED
      BY <1>1, <2>1, <2>2, <3>1 DEF Keeps, SwapIsOwed
  <2> QED
    BY <2>3, <2>4
<1>15. ASSUME HeartbeatConfig \/ SubscribeGivesUp PROVE BackInv'
  BY <1>1, <1>15, IdleKeeps DEF HeartbeatConfig, SubscribeGivesUp, netVars, frameVars, mgrVars
<1>arms. ASSUME RM!Reconnect({})
         PROVE  /\ Keeps /\ UNCHANGED <<disposed, terminalFired>>
                /\ RM!Stopped \/ SwapIsOwed'
  BY <1>arms
  DEF RM!Reconnect, RM!runVars, RM!stormVars, RM!flightVars, Keeps, SwapIsOwed, BackInv
<1>16. ASSUME HeartbeatTimesOut PROVE BackInv'
  <2>1. /\ UNCHANGED <<holder, sock, frame, terminalAuthFired>> /\ RM!Reconnect({})
        /\ state' = IF state = "connected" THEN "retrying" ELSE state
    BY <1>16 DEF HeartbeatTimesOut, frameVars, netVars
  <2>2. CASE RM!Stopped
    <3>1. IsDead'
      BY <1>arms, <2>1, <2>2, StoppedIsOver DEF IsDead
    <3> QED
      BY <1>arms, <2>1, <3>1, OverIsBack DEF BackInv, Keeps, Trying
  <2>3. CASE ~RM!Stopped
    BY <1>arms, <2>1, <2>3 DEF BackInv, NotStranded, Keeps, Trying
  <2> QED
    BY <2>2, <2>3
<1>17. ASSUME Wakes PROVE BackInv'
  BY <1>1, <1>17, <1>arms DEF Wakes, clientVars, coreVars, frameVars, netVars
<1>18. ASSUME UploadRejected PROVE BackInv'
  <2>1. frame' = "none" /\ frame = "none"
    BY <1>18 DEF UploadRejected, Task, frameVars
  <2>2. ASSUME RM!AuthStorm("auth-close"), TerminalAuthFailure PROVE BackInv'
    BY <1>storm, <2>1, <2>2
  <2>3. ASSUME RM!AuthIgnored("auth-close") \/ RM!AuthRefreshes("auth-close"),
               UNCHANGED <<coreVars, sock, queuedOpen, sentFresh>>
        PROVE  BackInv'
    BY <1>1, <1>ignored, <2>1, <2>3 DEF coreVars
  <2>4. NotifyUploadAuthFailure
    BY <1>18 DEF UploadRejected
  <2> QED
    BY <2>2, <2>3, <2>4, Zenon DEF NotifyUploadAuthFailure
<1>19. ASSUME NEW w \in Wrappers, Attempt(w) \/ LinkDies(w) PROVE BackInv'
  <2>1. Keeps /\ UNCHANGED <<state, frame, holder, disposed, terminalAuthFired>>
    BY <1>19, IdleKeeps DEF Attempt, LinkDies, coreVars, frameVars, mgrVars
  <2>2. Trying => Trying'
    BY <1>19, <1>types, <2>1 DEF Attempt, LinkDies, Trying, OpenInv, OwedEvents
  <2>3. IsDead => IsDead'
    BY <2>1, OverStays
  <2> QED
    BY <2>1, <2>2, <2>3 DEF BackInv, NotStranded, Keeps
<1>20. ASSUME NEW w \in Wrappers, HandshakeOpens(w) PROVE BackInv'
  <2>1. w = holder
    BY <1>20 DEF HandshakeOpens, OpenInv, IInv, LiveSocketIsHeld
  <2>2. state' = "connected" /\ frame' = "open"
    BY <1>20, <2>1 DEF HandshakeOpens, HandleOpen
  <2>3. Keeps /\ terminalAuthFired' = terminalAuthFired
    BY <1>20, IdleKeeps DEF HandshakeOpens
  <2> QED
    BY <2>2, <2>3 DEF BackInv, NotStranded, Keeps
<1>21. ASSUME NEW w \in Wrappers, LateOpen(w) PROVE BackInv'
  <2>1. w # holder
    BY <1>21 DEF LateOpen, OpenInv, OwedEvents
  <2> QED
    BY <1>1, <1>21, <2>1, IdleKeeps DEF LateOpen, HandleOpen, mgrVars
<1>22. ASSUME NEW w \in Wrappers, NEW code \in Codes, SocketCloses(w, code)
       PROVE  BackInv'
  <2>1. w = holder
    BY <1>22 DEF SocketCloses, MayClose, Codes, OpenInv, IInv, LiveSocketIsHeld
  <2>2. code # "4005" => sock'[w] = "backoff"
    BY <1>22, <1>types DEF SocketCloses
  <2> QED
    BY <1>22, <2>1, <2>2, CloseIsBack DEF SocketCloses, mgrVars, Task
<1>23. ASSUME NEW w \in Wrappers, DuplicateClose(w) PROVE BackInv'
  <2>1. w = holder => sock[w] = "backoff"
    BY <1>23 DEF DuplicateClose, OpenInv, OwedEvents
  <2> QED
    BY <1>23, <2>1, CloseIsBack DEF DuplicateClose, mgrVars, Task
<1>24. ASSUME UNCHANGED vars PROVE BackInv'
  BY <1>1, <1>24, IdleKeeps DEF vars, clientVars, coreVars, frameVars, netVars, mgrVars
<1> HIDE DEF SwapIsOpen
<1> QED
  BY <1>2, <1>3, <1>4, <1>5, <1>6, <1>7, <1>8, <1>9, <1>10, <1>11, <1>12, <1>13, <1>14,
     <1>15, <1>16, <1>17, <1>18, <1>19, <1>20, <1>21, <1>22, <1>23, <1>24, Zenon
  DEF Next, Step, Consumer, Handlers, Timers, Awaiters, Triggered, Network

\* In every deployment, also where the consumer re-enters the client: one that says it
\* is connecting or retrying has a connect() or a swap under way, a wrapper that
\* tries, or a reconnect that the manager still owes; so a lost connection is never
\* left at that (NFI-5; reconnect-manager.ts:527-690, token-refresh-handler.ts:282-436).
THEOREM NobodyIsStranded == Spec => []NotStranded
<1>1. Init => BackInv
  BY DEF Init, BackInv, NotStranded, SwapIsOpen
<1>2. BackInv /\ OpenInv /\ [Next]_vars => BackInv'
  BY BackStep
<1>3. BackInv => NotStranded
  BY DEF BackInv
<1> QED
  BY <1>1, <1>2, <1>3, OpenInvariant, PTL DEF Spec

-----------------------------------------------------------------------------
(***************************************************************************)
(* The client keeps ClientContract.                                        *)
(***************************************************************************)

\* A living client that has a connection shows it, or that it is replacing it; and
\* the consumer has heard of no terminal failure before there was one.
ShowsInv ==
  /\ attemptOpened => state \in {"connected", "retrying"}
  /\ ~terminalAuthFired => terminalCalls = 0

Linked == \E w \in Wrappers : sock[w] \in {"open", "halfopen"}

\* What a step does to what the contract sees: nothing ...
SeesNothing ==
  /\ UNCHANGED <<state, terminalCalls>>
  /\ IsDead' <=> IsDead
  /\ attemptOpened' <=> attemptOpened

\* ... a change of the connection of a living client ...
SeesLife ==
  /\ ~IsDead /\ ~IsDead'
  /\ UNCHANGED terminalCalls
  /\ \/ /\ ~attemptOpened /\ ~attemptOpened'
        /\ state \in {"stopped", "retrying"} /\ state' = "connecting"
     \/ ~attemptOpened /\ attemptOpened' /\ state' = "connected"
     \/ /\ attemptOpened /\ attemptOpened'
        /\ state = "connected" /\ state' = "retrying"
     \/ ~attemptOpened' /\ state' = "retrying"

\* ... or a death: by dispose(), by a kick, by a terminal failure.
SeesDeath ==
  /\ IsDead' /\ ~attemptOpened'
  /\ \/ state' = "stopped" /\ UNCHANGED terminalCalls
     \/ /\ ~IsDead /\ attemptOpened
        /\ state' = "kicked" /\ UNCHANGED terminalCalls
     \/ /\ ~IsDead
        /\ state' = "stopped" /\ terminalCalls' = terminalCalls + 1

Seen == SeesNothing \/ SeesLife \/ SeesDeath

\* The flag of the attempt stands for a connection of any wrapper, there being one
\* (websocket-holder.ts:19-70).
LEMMA OpenedIsLinked == ASSUME OpenInv PROVE Linked <=> attemptOpened
  BY NoWsAssumption
  DEF OpenInv, OwedEvents, ConnectedIsOpen, IInv, LiveSocketIsHeld, Linked

\* A dead client changes what it shows only when it is disposed of
\* (client-lifecycle.ts:292-344).
LEMMA DeadShows ==
  ASSUME DeadInv, IsDead, [Next]_vars
  PROVE  state' \in {state, "stopped"}
<1> USE DEF DeadInv, Emptied
<1>1. ASSUME NEW w, w # NoWs, NEW code, HandleClose(w, code) PROVE UNCHANGED state
  BY <1>1, OthersCloseIsIgnored
<1>2. ASSUME NEW w, w # NoWs, HandleOpen(w) PROVE UNCHANGED state
  BY <1>2 DEF HandleOpen
<1>3. SwapBegins => UNCHANGED state
  BY DEF SwapBegins, coreVars
<1>4. TerminalAuthFailure => state' \in {state, "stopped"}
  BY DEF TerminalAuthFailure, TearDown
<1>5. Connect \/ ConnectEnds \/ Dispose \/ OpenEnds \/ SwapEnds
        => state' \in {state, "stopped"}
  BY DEF Connect, ConnectEnds, Dispose, TearDown, OpenEnds, SwapEnds, IsDead
<1>6. CookieAuthEnds \/ TokenAuthEnds => state' \in {state, "stopped"}
  BY <1>4 DEF CookieAuthEnds, TokenAuthEnds
<1>7. SwapCloseEvent => UNCHANGED state
  BY <1>1 DEF SwapCloseEvent
<1>8. Timers \/ Awaiters => state' \in {state, "stopped"}
  BY <1>3, <1>4 DEF Timers, DebounceFires, JitterElapses, RefreshSettles,
     WindowExpires, Awaiters, AwaiterResumes, RunFinally, clientVars, coreVars
<1>9. Triggered => state' \in {state, "stopped"}
  BY <1>4 DEF Triggered, HeartbeatConfig, SubscribeGivesUp, HeartbeatTimesOut, Wakes,
     UploadRejected, NotifyUploadAuthFailure, clientVars, coreVars
<1>10. Network => UNCHANGED state
  BY <1>1, <1>2, NoWsAssumption DEF Network, Attempt, HandshakeOpens, LateOpen,
     SocketCloses, DuplicateClose, LinkDies, TokenExpires, coreVars
<1>11. UNCHANGED vars => UNCHANGED state
  BY DEF vars, clientVars, coreVars
<1> QED
  BY <1>5, <1>6, <1>7, <1>8, <1>9, <1>10, <1>11
  DEF Next, Step, Consumer, Handlers

\* So all the contract sees of it is dispose().
LEMMA DeadIsSeen ==
  ASSUME DeadInv, OpenInv, OpenInv', IsDead, [Next]_vars
  PROVE  Seen
<1>1. IsDead' /\ terminalCalls' = terminalCalls /\ state' \in {state, "stopped"}
  BY DeadStays, TerminalCounts, DeadShows DEF OpenInv, IInv, Typed
<1>2. ~attemptOpened /\ ~attemptOpened'
  <2>1. holder = NoWs
    BY DEF DeadInv, Emptied
  <2>2. DeadInv'
    BY StepKeepsDeath
  <2>3. holder' = NoWs
    BY <1>1, <2>2 DEF DeadInv, Emptied
  <2> QED
    BY <2>1, <2>3 DEF OpenInv, ConnectedIsOpen
<1>3. CASE state' = state
  BY <1>1, <1>2, <1>3 DEF Seen, SeesNothing
<1>4. CASE state' = "stopped"
  BY <1>1, <1>2, <1>4 DEF Seen, SeesDeath
<1> QED
  BY <1>1, <1>3, <1>4

\* A terminal failure is the death the consumer hears of
\* (client-lifecycle.ts:108-199).
LEMMA TerminalIsSeen ==
  ASSUME ShowsInv, ~IsDead, TerminalAuthFailure PROVE Seen
<1>1. ~terminalAuthFired /\ terminalCalls = 0
  BY DEF ShowsInv, IsDead
<1>2. terminalCalls' = terminalCalls + 1
  BY <1>1 DEF TerminalAuthFailure, CallCap
<1>3. terminalAuthFired' /\ state' = "stopped" /\ ~attemptOpened'
  BY <1>1 DEF TerminalAuthFailure, TearDown, ClearHolder
<1> QED
  BY <1>2, <1>3 DEF Seen, SeesDeath, IsDead

\* A swap gives the connection up, if there is one (token-refresh-handler.ts:282-368).
LEMMA SwapIsSeen ==
  ASSUME ShowsInv, OpenInv, ~IsDead, SwapBegins, UNCHANGED disposed PROVE Seen
<1>1. /\ ~attemptOpened' /\ UNCHANGED <<terminalAuthFired, terminalCalls>>
      /\ state' = IF state = "connected" THEN "retrying" ELSE state
  BY DEF SwapBegins, ClearHolder
<1>2. ~IsDead'
  BY <1>1 DEF IsDead
<1>3. CASE attemptOpened
  <2>1. state' = "retrying"
    BY <1>1, <1>3 DEF ShowsInv
  <2> QED
    BY <1>1, <1>2, <2>1 DEF Seen, SeesLife
<1>4. CASE ~attemptOpened
  <2>1. state' = state
    BY <1>1, <1>4 DEF OpenInv, ConnectedIsOpen
  <2> QED
    BY <1>1, <1>2, <1>4, <2>1 DEF Seen, SeesNothing
<1> QED
  BY <1>3, <1>4

\* A close event loses the connection or is the kick of one
\* (event-handlers.ts:191-317).
LEMMA CloseIsSeen ==
  ASSUME ~IsDead, NEW w, NEW code, HandleClose(w, code),
         code = "4005" /\ w = holder => attemptOpened,
         UNCHANGED <<disposed, terminalAuthFired, terminalCalls>>
  PROVE  Seen
<1>1. CASE w # holder
  <2>1. UNCHANGED <<state, attemptOpened>>
    BY <1>1, OthersCloseIsIgnored
  <2> QED
    BY <2>1, Zenon DEF Seen, SeesNothing, IsDead
<1>2. CASE w = holder /\ code = "4005"
  <2>1. state' = "kicked" /\ ~attemptOpened'
    BY <1>2 DEF HandleClose, DecideClose, HandleKicked, ClearHolder, RM!Triggers
  <2> QED
    BY <1>2, <2>1 DEF Seen, SeesDeath, IsDead
<1>3. CASE w = holder /\ code # "4005"
  <2>1. state' = "retrying" /\ ~attemptOpened'
    BY <1>3 DEF HandleClose, DecideClose, RM!Triggers
  <2> QED
    BY <2>1 DEF Seen, SeesLife, IsDead
<1> QED
  BY <1>1, <1>2, <1>3

\* Every step of a living client is one of the contract's, or none.
LEMMA LifeIsSeen ==
  ASSUME ShowsInv, DeadInv, OpenInv, OpenInv', ~IsDead, [Next]_vars
  PROVE  Seen
<1> USE NoWsAssumption
<1>0. holder = NoWs => ~attemptOpened
  BY DEF OpenInv, ConnectedIsOpen
<1>1. ASSUME UNCHANGED <<state, terminalCalls, attemptOpened, disposed,
                         terminalAuthFired>>
      PROVE  Seen
  BY <1>1, Zenon DEF Seen, SeesNothing, IsDead
<1>2. ASSUME ~attemptOpened, ~attemptOpened',
             UNCHANGED <<state, terminalCalls, disposed, terminalAuthFired>>
      PROVE  Seen
  BY <1>2, Zenon DEF Seen, SeesNothing, IsDead
<1>3. ASSUME Connect PROVE Seen
  <2>1. ~attemptOpened /\ ~attemptOpened'
    BY <1>0, <1>3 DEF Connect, CreateSocket
  <2> QED
    BY <1>3, <2>1 DEF Connect, mgrVars, Seen, SeesLife, IsDead
<1>4. ASSUME ConnectEnds PROVE Seen
  BY <1>0, <1>2, <1>4
  DEF ConnectEnds, CreateSocket, mgrVars, OpenInv, IInv, ConnectHoldsNothing
<1>5. ASSUME Dispose PROVE Seen
  BY <1>5 DEF Dispose, RM!Dispose, TearDown, ClearHolder, Seen, SeesDeath, IsDead
<1>6. ASSUME OpenEnds PROVE Seen
  BY <1>1, <1>6 DEF OpenEnds, mgrVars
<1>7. ASSUME CookieAuthEnds PROVE Seen
  BY <1>1, <1>7, TerminalIsSeen DEF CookieAuthEnds, mgrVars
<1>8. ASSUME TokenAuthEnds PROVE Seen
  BY <1>1, <1>8, TerminalIsSeen
  DEF TokenAuthEnds, RM!AuthIgnored, RM!AuthRefreshes, RM!mgrVars
<1>9. ASSUME SwapCloseEvent PROVE Seen
  BY <1>9, CloseIsSeen DEF SwapCloseEvent, mgrVars
<1>10. ASSUME SwapEnds PROVE Seen
  BY <1>0, <1>1, <1>2, <1>10 DEF SwapEnds, CreateSocket, mgrVars
<1>11. ASSUME DebounceFires \/ RunFinally \/ WindowExpires \/ Wakes PROVE Seen
  BY <1>1, <1>11
  DEF DebounceFires, RunFinally, WindowExpires, Wakes, RM!DebounceFires, RM!RunFinally,
      RM!WindowExpires, RM!Reconnect, clientVars, coreVars
<1>12. ASSUME RefreshSettles \/ TokenExpires PROVE Seen
  BY <1>1, <1>12
  DEF RefreshSettles, RM!RefreshSettles, TokenExpires, coreVars, mgrVars
<1>13. ASSUME JitterElapses PROVE Seen
  BY <1>1, <1>13, SwapIsSeen
  DEF JitterElapses, RM!JitterAborts, RM!JitterRefreshes, RM!JitterRebuilds,
      clientVars, coreVars
<1>14. ASSUME AwaiterResumes PROVE Seen
  <2>1. UNCHANGED disposed
    BY <1>14 DEF AwaiterResumes, RM!AuthResumes, RM!RunResumes
  <2> QED
    BY <1>1, <1>14, <2>1, SwapIsSeen, TerminalIsSeen DEF AwaiterResumes, coreVars
<1>15. ASSUME HeartbeatConfig \/ SubscribeGivesUp PROVE Seen
  BY <1>15, <1>1 DEF HeartbeatConfig, SubscribeGivesUp, mgrVars
<1>16. ASSUME HeartbeatTimesOut PROVE Seen
  <2>1. /\ state' = IF state = "connected" THEN "retrying" ELSE state
        /\ UNCHANGED <<attemptOpened, terminalAuthFired, terminalCalls, disposed>>
    BY <1>16 DEF HeartbeatTimesOut, RM!Reconnect
  <2>2. CASE state = "connected"
    BY <2>1, <2>2 DEF OpenInv, ConnectedIsOpen, Seen, SeesLife, IsDead
  <2>3. CASE state # "connected"
    BY <1>1, <2>1, <2>3
  <2> QED
    BY <2>2, <2>3
<1>17. ASSUME UploadRejected PROVE Seen
  BY <1>1, <1>17, TerminalIsSeen
  DEF UploadRejected, NotifyUploadAuthFailure, RM!AuthIgnored, RM!AuthRefreshes,
      RM!mgrVars, coreVars
<1>18. ASSUME NEW w \in Wrappers, Attempt(w) \/ LinkDies(w) PROVE Seen
  BY <1>1, <1>18 DEF Attempt, LinkDies, coreVars, mgrVars
<1>19. ASSUME NEW w \in Wrappers, HandshakeOpens(w) PROVE Seen
  <2>1. w = holder /\ ~attemptOpened
    BY <1>19 DEF HandshakeOpens, OpenInv, IInv, LiveSocketIsHeld, ConnectedIsOpen
  <2> QED
    BY <1>19, <2>1 DEF HandshakeOpens, HandleOpen, mgrVars, Seen, SeesLife, IsDead
<1>20. ASSUME NEW w \in Wrappers, LateOpen(w) PROVE Seen
  <2>1. w # holder
    BY <1>20 DEF LateOpen, OpenInv, OwedEvents
  <2> QED
    BY <1>1, <1>20, <2>1 DEF LateOpen, HandleOpen, mgrVars
<1>21. ASSUME NEW w \in Wrappers, NEW code \in Codes, SocketCloses(w, code) PROVE Seen
  <2>1. code = "4005" /\ w = holder => attemptOpened
    BY <1>21 DEF SocketCloses, MayClose, OpenInv, ConnectedIsOpen
  <2> QED
    BY <1>21, <2>1, CloseIsSeen DEF SocketCloses, mgrVars
<1>22. ASSUME NEW w \in Wrappers, DuplicateClose(w) PROVE Seen
  BY <1>22, CloseIsSeen DEF DuplicateClose, mgrVars
<1>23. ASSUME UNCHANGED vars PROVE Seen
  BY <1>1, <1>23 DEF vars, clientVars, coreVars, mgrVars
<1> QED
  BY <1>3, <1>4, <1>5, <1>6, <1>7, <1>8, <1>9, <1>10, <1>11, <1>12, <1>13, <1>14,
     <1>15, <1>16, <1>17, <1>18, <1>19, <1>20, <1>21, <1>22, <1>23, Zenon
  DEF Next, Step, Consumer, Handlers, Timers, Awaiters, Triggered, Network

\* Nothing but a terminal failure sets its latch or calls the consumer
\* (client-lifecycle.ts:108-199).
LEMMA OnlyTerminalFires ==
  ASSUME [Next]_vars
  PROVE  TerminalAuthFailure \/ UNCHANGED <<terminalAuthFired, terminalCalls>>
<1>1. SwapBegins => UNCHANGED <<terminalAuthFired, terminalCalls>>
  BY DEF SwapBegins, coreVars
<1>2. Consumer \/ Timers \/ Awaiters \/ UNCHANGED vars
        => TerminalAuthFailure \/ UNCHANGED <<terminalAuthFired, terminalCalls>>
  BY <1>1 DEF Consumer, Connect, Dispose, Timers, DebounceFires, JitterElapses,
     RefreshSettles, WindowExpires, Awaiters, AwaiterResumes, RunFinally, vars,
     clientVars, coreVars
<1>3. Handlers \/ Triggered
        => TerminalAuthFailure \/ UNCHANGED <<terminalAuthFired, terminalCalls>>
  BY DEF Handlers, ConnectEnds, OpenEnds, CookieAuthEnds, TokenAuthEnds, SwapCloseEvent,
     SwapEnds, Triggered, HeartbeatConfig, SubscribeGivesUp, HeartbeatTimesOut, Wakes,
     UploadRejected, NotifyUploadAuthFailure, clientVars, coreVars
<1>4. Network => UNCHANGED <<terminalAuthFired, terminalCalls>>
  BY DEF Network, Attempt, HandshakeOpens, LateOpen, SocketCloses, DuplicateClose,
     LinkDies, TokenExpires, coreVars
<1> QED
  BY <1>2, <1>3, <1>4 DEF Next, Step

\* What is seen keeps what is shown true.
LEMMA SeenKeepsShows ==
  ASSUME ShowsInv, Seen, [Next]_vars
  PROVE  ShowsInv'
<1>1. attemptOpened' => state' \in {"connected", "retrying"}
  BY DEF ShowsInv, Seen, SeesNothing, SeesLife, SeesDeath
<1>2. ~terminalAuthFired' => terminalCalls' = 0
  BY OnlyTerminalFires DEF ShowsInv, TerminalAuthFailure
<1> QED
  BY <1>1, <1>2 DEF ShowsInv

\* The contract's steps, from what they see.
LEMMA SeenIsContract ==
  ASSUME Seen, Linked <=> attemptOpened, Linked' <=> attemptOpened'
  PROVE  [Contract!Next]_(Contract!vars)
<1> USE DEF Linked, IsDead
<1>1. CASE SeesNothing
  BY <1>1, Zenon DEF SeesNothing, Contract!vars
<1>2. CASE SeesLife
  BY <1>2 DEF SeesLife, Contract!Next, Contract!Connects, Contract!Opens,
     Contract!Doubts, Contract!Loses
<1>3. CASE SeesDeath
  BY <1>3 DEF SeesDeath, Contract!Next, Contract!IsKicked, Contract!IsDisposed,
     Contract!LogsOut
<1> QED
  BY <1>1, <1>2, <1>3 DEF Seen

\* For consumers that call back only where the code expects it: whatever the wrappers,
\* the network, the server and the timers do, the consumer sees a client that keeps
\* ClientContract (types.ts:20-40, index.ts:259-316).
THEOREM ClientKeepsContract ==
  ASSUME \A d \in Setups : Considerate(d)
  PROVE  Spec => ImplementsContract
<1>1. Init => Contract!Init /\ ShowsInv /\ DeadInv
  <2> SUFFICES ASSUME Init PROVE Contract!Init /\ ShowsInv /\ DeadInv
    OBVIOUS
  <2>1. DeadInv
    BY InitDeath DEF Init
  <2>2. ShowsInv
    BY DEF Init, ShowsInv
  <2>3. ~IsDead /\ ~Linked
    BY DEF Init, IsDead, Linked
  <2>4. state = "stopped" /\ terminalCalls = 0
    BY DEF Init
  <2>5. Contract!Init
    BY <2>3, <2>4, Zenon DEF Contract!Init, Linked, IsDead
  <2> QED
    BY <2>1, <2>2, <2>5
<1>2. ShowsInv /\ DeadInv /\ OpenInv /\ OpenInv' /\ [Next]_vars
        => ShowsInv' /\ DeadInv' /\ [Contract!Next]_(Contract!vars)
  <2> SUFFICES ASSUME ShowsInv, DeadInv, OpenInv, OpenInv', [Next]_vars
               PROVE  ShowsInv' /\ DeadInv' /\ [Contract!Next]_(Contract!vars)
    OBVIOUS
  <2>1. Seen
    BY DeadIsSeen, LifeIsSeen
  <2>2. Linked <=> attemptOpened
    BY OpenedIsLinked
  <2>3. Linked' <=> attemptOpened'
    BY OpenedIsLinked, PTL
  <2> QED
    BY <2>1, <2>2, <2>3, SeenKeepsShows, StepKeepsDeath, SeenIsContract
<1> QED
  BY <1>1, <1>2, OpenInvariant, PTL DEF Spec, ImplementsContract, Contract!Spec

\* The contract comes to what it says it comes to.
LEMMA ContractIsHonest == Contract!Spec => []Contract!Honest
<1>1. Contract!Init => Contract!Honest
  BY DEF Contract!Init, Contract!Honest
<1>2. Contract!Honest /\ [Contract!Next]_(Contract!vars) => Contract!Honest'
  <2> SUFFICES ASSUME Contract!Honest, [Contract!Next]_(Contract!vars)
               PROVE  Contract!Honest'
    OBVIOUS
  <2>1. CASE Contract!Next
    BY <2>1 DEF Contract!Honest, Contract!Next, Contract!Connects, Contract!Opens,
       Contract!Doubts, Contract!Loses, Contract!IsKicked, Contract!IsDisposed,
       Contract!LogsOut
  <2>2. CASE UNCHANGED Contract!vars
    BY <2>2, Zenon DEF Contract!Honest, Contract!vars
  <2> QED
    BY <2>1, <2>2
<1> QED
  BY <1>1, <1>2, PTL DEF Contract!Spec

\* So has the client: its terminal callback runs once at most and means its end, a
\* dead client has no connection, and "connected" is never shown without one
\* (client-lifecycle.ts:108-344, types.ts:20-40).
THEOREM ClientIsHonest ==
  ASSUME \A d \in Setups : Considerate(d)
  PROVE  Spec => []Contract!Honest
BY ClientKeepsContract, ContractIsHonest, PTL DEF ImplementsContract
-----------------------------------------------------------------------------
(***************************************************************************)
(* The manager's theorems, inside the client.  They speak of one variable  *)
(* the client has no use for, the refreshes since the storm window last    *)
(* expired: the client is counted along, and not restricted.               *)
(***************************************************************************)
VARIABLE burst

Mgr == INSTANCE ReconnectManagerProofs
         WITH Calls <- {}, canRefresh <- HasTokenProvider, dead <- IsDead,
              memo <- (refresh = "inflight"),
              pending <- {}, runWaiters <- {}, trailingWaiters <- {},
              served <- {}

Counts ==
  burst' = IF Mgr!WindowEnds THEN 0
           ELSE IF Mgr!FlightBegins /\ burst < Mgr!BurstCap THEN burst + 1
           ELSE burst

Counted == Spec /\ burst = 0 /\ [][Counts]_<<vars, burst>>

\* What the two instances say of a step of the manager is the same.
LEMMA SameManager == ASSUME RM!ManagerNext PROVE Mgr!ManagerNext
<1>1. RM!ManagerStep => Mgr!ManagerStep
  <2> USE DEF RM!mgrVars, RM!runVars, RM!waiterVars, RM!stormVars, RM!flightVars,
          RM!Waiting, RM!Stopped, RM!Quiet, RM!Storm, RM!FireTerminal, RM!Triggers,
          Mgr!mgrVars, Mgr!runVars, Mgr!waiterVars, Mgr!stormVars, Mgr!flightVars,
          Mgr!Waiting, Mgr!Stopped, Mgr!Quiet, Mgr!Storm, Mgr!FireTerminal, Mgr!Triggers
  <2>1. RM!Reconnect({}) => Mgr!Reconnect({})
    BY DEF RM!Reconnect, Mgr!Reconnect
  <2>2. RM!DebounceFires => Mgr!DebounceFires
    BY DEF RM!DebounceFires, Mgr!DebounceFires
  <2>3. RM!JitterAborts => Mgr!JitterAborts
    BY DEF RM!JitterAborts, Mgr!JitterAborts
  <2>4. RM!JitterRebuilds => Mgr!JitterRebuilds
    BY DEF RM!JitterRebuilds, Mgr!JitterRebuilds
  <2>5. RM!JitterRefreshes => Mgr!JitterRefreshes
    BY DEF RM!JitterRefreshes, Mgr!JitterRefreshes, RM!RefreshTokenOnce,
       Mgr!RefreshTokenOnce
  <2>6. RM!RunFinally => Mgr!RunFinally
    BY DEF RM!RunFinally, Mgr!RunFinally
  <2>7. \A t \in RM!Triggers : RM!TryAuthRecovery(t) => Mgr!TryAuthRecovery(t)
    BY DEF RM!TryAuthRecovery, Mgr!TryAuthRecovery, RM!AuthIgnored, Mgr!AuthIgnored,
       RM!AuthStorm, Mgr!AuthStorm, RM!AuthRefreshes, Mgr!AuthRefreshes,
       RM!RefreshTokenOnce, Mgr!RefreshTokenOnce
  <2>8. \A o \in {"ok", "failed"} : RM!RefreshSettles(o) => Mgr!RefreshSettles(o)
    BY DEF RM!RefreshSettles, Mgr!RefreshSettles
  <2>9. RM!AuthResumes => Mgr!AuthResumes
    BY DEF RM!AuthResumes, Mgr!AuthResumes
  <2>10. RM!RunResumes => Mgr!RunResumes
    BY DEF RM!RunResumes, Mgr!RunResumes
  <2>11. RM!Dispose => Mgr!Dispose
    BY DEF RM!Dispose, Mgr!Dispose
  <2>12. RM!WindowExpires => Mgr!WindowExpires
    BY DEF RM!WindowExpires, Mgr!WindowExpires
  <2> QED
    BY <2>1, <2>2, <2>3, <2>4, <2>5, <2>6, <2>7, <2>8, <2>9, <2>10, <2>11, <2>12
    DEF RM!ManagerStep, Mgr!ManagerStep
<1>2. UNCHANGED RM!mgrVars => UNCHANGED Mgr!mgrVars
  BY DEF RM!mgrVars, RM!runVars, RM!stormVars, RM!flightVars, Mgr!mgrVars, Mgr!runVars,
     Mgr!stormVars, Mgr!flightVars
<1> QED
  BY <1>1, <1>2 DEF RM!ManagerNext, RM!ClientMayDie, Mgr!ManagerNext, Mgr!ClientMayDie

\* The client, counted, is the manager's specification: its environment calls and
\* dies as ReconnectManager expects.
LEMMA ClientRunsManager ==
  ASSUME \A d \in Setups : Considerate(d)
  PROVE  Counted => Mgr!Spec
<1>1. Init /\ burst = 0 => Mgr!Init
  <2> SUFFICES ASSUME Init, burst = 0 PROVE Mgr!Init
    OBVIOUS
  <2>1. IsDead = FALSE
    BY DEF Init, IsDead
  <2>2. HasTokenProvider \in BOOLEAN
    BY SetupsAssumption DEF Init, HasTokenProvider, Deployments
  <2> QED
    BY <2>1, <2>2 DEF Init, Mgr!Init
<1>2. /\ [Next]_vars /\ [RM!ManagerNext]_<<IsDead, mgrVars>>
      /\ [Counts]_<<vars, burst>>
      => [Mgr!Next]_(Mgr!vars)
  <2> SUFFICES ASSUME [Next]_vars, [RM!ManagerNext]_<<IsDead, mgrVars>>,
                      [Counts]_<<vars, burst>>,
                      ~ UNCHANGED <<vars, burst>>
               PROVE  Mgr!Next
    BY DEF vars, mgrVars, clientVars, coreVars, IsDead, HasTokenProvider, Mgr!vars,
       Mgr!mgrVars, Mgr!runVars, Mgr!stormVars, Mgr!flightVars
  <2>1. UNCHANGED setup
    BY DEF Next, vars
  <2>2. RM!ManagerNext
    <3>1. CASE UNCHANGED <<IsDead, mgrVars>>
      BY <3>1 DEF RM!ManagerNext, RM!ClientMayDie, RM!mgrVars, RM!runVars, RM!stormVars,
         RM!flightVars, mgrVars
    <3> QED
      BY <3>1
  <2>3. Mgr!History
    BY DEF Counts, Mgr!History, Mgr!Waiting
  <2> QED
    BY <2>1, <2>2, <2>3, SameManager DEF Mgr!Next, HasTokenProvider
<1> QED
  BY <1>1, <1>2, ManagerIsInContext, PTL DEF Counted, Spec, ManagerInContext, Mgr!Spec

\* In the whole client, whatever order triggers, timers, swaps and deaths come in,
\* the consumer's refresh() is called at most twice between two expiries of the storm
\* window (NFI-2, reconnect-manager.ts:681-716).
THEOREM ClientRefreshesAreBounded ==
  ASSUME \A d \in Setups : Considerate(d)
  PROVE  Counted => []Mgr!AtMostTwoRefreshesPerWindow
BY ClientRunsManager, Mgr!RefreshesAreBounded, PTL

\* In the whole client, a dispose() that arrives anywhere (in a listener, inside a
\* swap, between an await and its continuation) leaves no timer and no rerun of the
\* manager behind (reconnect-manager.ts:555-599).
THEOREM ClientsManagerIsSound ==
  ASSUME \A d \in Setups : Considerate(d)
  PROVE  Counted => []Mgr!DisposedIsQuiet
BY ClientRunsManager, Mgr!DisposeIsFinal, PTL

\* A client that is dead starts neither a run nor a refresh
\* (reconnect-manager.ts:260-270).
THEOREM DeadClientStartsNothing ==
  ASSUME \A d \in Setups : Considerate(d)
  PROVE  Counted => [][IsDead => ~Mgr!RunBegins /\ ~Mgr!FlightBegins]_(Mgr!vars)
<1>1. [Mgr!Stopped => ~Mgr!RunBegins /\ ~Mgr!FlightBegins]_(Mgr!vars)
        => [IsDead => ~Mgr!RunBegins /\ ~Mgr!FlightBegins]_(Mgr!vars)
  BY DEF Mgr!Stopped
<1> QED
  BY <1>1, ClientRunsManager, Mgr!StoppedIsInert, PTL DEF Mgr!StoppedStartsNothing
=============================================================================
