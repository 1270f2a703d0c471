---------------------------- MODULE OrpcWsClient ----------------------------
(***************************************************************************)
(* The connection core of orpc-ws-client: connection state, WebSocket      *)
(* holder, event handlers, lifecycle, socket swap, heartbeat and sleep     *)
(* wiring, composed with the ReconnectManager (an INSTANCE; its actions    *)
(* are conjoined with what they do to the rest of the client).             *)
(*                                                                         *)
(* A handler is one step, except where the code calls out synchronously in *)
(* mid-handler: a state listener, an event callback, or the close event    *)
(* that partysocket dispatches from within close().  There the handler is  *)
(* cut in two and "frame" names the suspended one: only the consumer's own *)
(* calls (at the frames in Reentry) and the handler's remainder can run.   *)
(*                                                                         *)
(* partysocket, the network, the server and the token's validity are       *)
(* external: modelled from how the client uses them.                       *)
(***************************************************************************)
EXTENDS Naturals

CONSTANTS
  Wrappers,          \* identities of partysocket wrappers; a closed one is reused
  NoWs,              \* null
  Setups             \* the deployments considered, one of them per behaviour

Frames    == {"connect", "open", "auth-close", "pre-open-1000", "swap"}
AllFaults == {"reject-fresh", "refresh-fails", "short-token", "late-open",
              "double-close"}

\* provider: the client has a tokenProvider (FALSE: cookie auth); reentry: the
\* frames in which the consumer calls connect() or dispose(); faults: how the
\* server, the identity provider and partysocket misbehave.
Deployments == [provider : BOOLEAN,
                reentry  : SUBSET Frames,
                faults   : SUBSET AllFaults]

\* ConnectionState.
States == {"stopped", "connecting", "connected", "retrying", "kicked"}

ASSUME NoWsAssumption   == NoWs \notin Wrappers
ASSUME SetupsAssumption == Setups \subseteq Deployments

VARIABLES
  setup,              \* fixed: the deployment
  state,              \* ConnectionState; disconnected is "retrying" (willRetry)
                      \* or "stopped" (not)
  holder,             \* WebSocketHolder.websocket
  attemptOpened,      \* WebSocketHolder.currentAttemptOpened
  terminalAuthFired,  \* ClientLifecycle's single-fire latch
  terminalCalls,      \* history: calls of the consumer's onTerminalAuthFailure
  heartbeat,          \* subscriber and monitor
  sleepRunning,       \* sleepDetector.isRunning()
  frame,              \* the suspended handler, or "none"
  closing,            \* wrapper whose close event swapSocket's close() dispatches
  \* --- external: partysocket, server, token ---
  sock,               \* condition of each wrapper
  queuedOpen,         \* closed wrappers with a native open event still queued
  dupClose,           \* wrappers whose 1008 close is about to fire twice
  sentFresh,          \* wrappers whose attempt carries a token still accepted
  tokenFresh,         \* tokenProvider.getToken() is accepted by the server
  \* --- ReconnectManager ---
  disposed, terminalFired, debounceArmed, phase, trailing, inWindow,
  lastWasAuth, refresh, authWait

coreVars  == <<state, holder, attemptOpened, terminalAuthFired, terminalCalls,
               heartbeat, sleepRunning>>
frameVars == <<frame, closing>>
netVars   == <<sock, queuedOpen, dupClose, sentFresh, tokenFresh>>
mgrVars   == <<disposed, terminalFired, debounceArmed, phase, trailing,
               inWindow, lastWasAuth, refresh, authWait>>
clientVars == <<coreVars, frameVars, netVars>>
vars       == <<setup, clientVars, mgrVars>>

HasTokenProvider == setup.provider
Reentry          == setup.reentry
Faults           == setup.faults

IsDead == disposed \/ terminalAuthFired \/ state = "kicked"

\* The client never awaits reconnect(), so it has no resolvers to track; the memo of
\* the single flight is what ReconnectManager!MemoIsTheFlight says it is.
RM == INSTANCE ReconnectManager
        WITH Calls <- {}, canRefresh <- HasTokenProvider, dead <- IsDead,
             memo <- (refresh = "inflight"),
             pending <- {}, runWaiters <- {}, trailingWaiters <- {},
             served <- {}, burst <- 0

\* A new task (timer, socket event, settling promise) may start.
Task == frame = "none" /\ RM!Quiet

\* The consumer may call into the client.
ConsumerRuns == frame = "none" \/ frame \in Reentry

Init ==
  /\ setup \in Setups
  /\ state = "stopped"
  /\ holder = NoWs
  /\ attemptOpened = FALSE
  /\ terminalAuthFired = FALSE
  /\ terminalCalls = 0
  /\ heartbeat = "off"
  /\ sleepRunning = FALSE
  /\ frame = "none"
  /\ closing = NoWs
  /\ sock = [w \in Wrappers |-> "closed"]
  /\ queuedOpen = {}
  /\ dupClose = {}
  /\ sentFresh = {}
  /\ tokenFresh \in BOOLEAN
  /\ disposed = FALSE
  /\ terminalFired = FALSE
  /\ debounceArmed = FALSE
  /\ phase = "idle"
  /\ trailing = FALSE
  /\ inWindow = FALSE
  /\ lastWasAuth = FALSE
  /\ refresh = "none"
  /\ authWait = FALSE

-----------------------------------------------------------------------------
(***************************************************************************)
(* Wrappers and the holder.                                                *)
(***************************************************************************)

\* WebSocketFactory.create and holder.set: partysocket starts its first
\* attempt by itself.  A wrapper that still owes an event is not reused: its
\* events are told from the new wrapper's by identity.
CreateSocket ==
  \E w \in Wrappers \ (queuedOpen \cup dupClose \cup {closing}) :
    /\ sock[w] = "closed"
    /\ sock' = [sock EXCEPT ![w] = "backoff"]
    /\ holder' = w
    /\ attemptOpened' = FALSE

\* Mutant: clearing the holder keeps the flag of the cleared attempt.
ClearHolderKeepsFlag == holder' = NoWs /\ UNCHANGED attemptOpened

ClearHolder == holder' = NoWs /\ attemptOpened' = FALSE

\* wrapper.close(): no further attempt, but an open event of a handshake that
\* had just completed stays queued.  Bound: one queued open at a time (and, in
\* SocketCloses, one duplicate close), so that three wrappers always suffice.
CloseSocket(ws) ==
  /\ sock' = [w \in Wrappers |-> IF w = ws THEN "closed" ELSE sock[w]]
  /\ sentFresh' = sentFresh \ {ws}
  /\ \/ UNCHANGED queuedOpen
     \/ /\ "late-open" \in Faults
        /\ ws # NoWs
        /\ sock[ws] = "handshake"
        /\ queuedOpen = {}
        /\ queuedOpen' = {ws}

\* SleepDetector.start() and stop(), both idempotent: with or without a worker.
StartsDetector == sleepRunning' = TRUE
StopsDetector  == sleepRunning' = FALSE

-----------------------------------------------------------------------------
(***************************************************************************)
(* Lifecycle.                                                              *)
(***************************************************************************)

\* connect() moves to connecting, which runs the state listeners; from within
\* a swap the consumer's connect() runs as a whole.
Connect ==
  /\ frame = "none" \/ (frame = "swap" /\ "swap" \in Reentry)
  /\ ~disposed
  /\ ~terminalAuthFired
  /\ state \in {"stopped", "retrying"}
  /\ holder = NoWs
  /\ state' = "connecting"
  /\ IF frame = "swap"
     THEN /\ CreateSocket
          /\ StartsDetector
          /\ UNCHANGED frame
     ELSE /\ frame' = "connect"
          /\ UNCHANGED <<sock, holder, attemptOpened, sleepRunning>>
  /\ UNCHANGED <<terminalAuthFired, terminalCalls, heartbeat, closing,
                 queuedOpen, dupClose, sentFresh, tokenFresh, mgrVars>>

\* The rest of connect(): create the wrapper, start the sleep detector.
ConnectEnds ==
  /\ frame = "connect"
  /\ frame' = "none"
  /\ CreateSocket
  /\ StartsDetector
  /\ UNCHANGED <<state, terminalAuthFired, terminalCalls, heartbeat, closing,
                 queuedOpen, dupClose, sentFresh, tokenFresh, mgrVars>>

\* What dispose() and fireTerminalAuthFailure have in common: stop the
\* machinery, clear the holder, then close the wrapper (its close event finds
\* the holder empty and is dropped), then settle on disconnected for good.
TearDown ==
  /\ heartbeat' = "off"
  /\ StopsDetector
  /\ ClearHolder
  /\ CloseSocket(holder)
  /\ state' = "stopped"

\* Mutant: the ReconnectManager is not disposed with the client.
DisposeClientOnly ==
  /\ ConsumerRuns
  /\ ~disposed
  /\ disposed' = TRUE
  /\ TearDown
  /\ UNCHANGED <<terminalAuthFired, terminalCalls, frameVars, dupClose,
                 tokenFresh, terminalFired, debounceArmed, phase, trailing,
                 inWindow, lastWasAuth, refresh, authWait>>

Dispose ==
  /\ ConsumerRuns
  /\ RM!Dispose
  /\ TearDown
  /\ UNCHANGED <<terminalAuthFired, terminalCalls, frameVars, dupClose,
                 tokenFresh>>

CallCap == 2   \* the history counter terminalCalls stops here

\* ClientLifecycle.fireTerminalAuthFailure, single-fire.
TerminalAuthFailure ==
  IF terminalAuthFired
  THEN /\ heartbeat' = "off"
       /\ UNCHANGED <<state, holder, attemptOpened, terminalAuthFired,
                      terminalCalls, sleepRunning, sock, queuedOpen, sentFresh>>
  ELSE /\ terminalAuthFired' = TRUE
       /\ TearDown
       /\ terminalCalls' = IF terminalCalls < CallCap THEN terminalCalls + 1
                           ELSE terminalCalls

-----------------------------------------------------------------------------
(***************************************************************************)
(* Socket events.                                                          *)
(***************************************************************************)

\* decideClose, first match wins; "1008" stands for 1008 and 4001.
DecideClose(w, code) ==
  IF w # holder
  THEN "ignore"
  ELSE CASE code = "4005"                   -> "session-replaced"
         [] code = "1008"                   -> "auth-close"
         [] code = "1000" /\ ~attemptOpened -> "pre-open-1000"
         [] OTHER                           -> "normal-disconnect"

\* Mutant: the open of a replaced wrapper counts.
HandleOpenOfAny(w) ==
  /\ attemptOpened' = TRUE
  /\ state' = "connected"
  /\ frame' = "open"

\* Mutant: only a connecting client becomes connected.
HandleFirstOpen(w) ==
  IF w # holder \/ state # "connecting"
  THEN UNCHANGED <<state, attemptOpened, frame>>
  ELSE /\ attemptOpened' = TRUE
       /\ state' = "connected"
       /\ frame' = "open"

\* handleOpen up to the state listeners; the onOpen hook is OpenEnds.
HandleOpen(w) ==
  IF w # holder
  THEN UNCHANGED <<state, attemptOpened, frame>>
  ELSE /\ attemptOpened' = TRUE
       /\ state' = "connected"
       /\ frame' = "open"

\* The hooks of the composition: onOpen subscribes to the heartbeat stream,
\* onClose drops subscriber and monitor, onKicked tears the rest down.
OnOpen       == heartbeat' = "subscribing"
OnClose      == heartbeat' = "off"
HandleKicked == ClearHolder /\ StopsDetector

OpenEnds ==
  /\ frame = "open"
  /\ frame' = "none"
  /\ OnOpen
  /\ UNCHANGED <<state, holder, attemptOpened, terminalAuthFired,
                 terminalCalls, sleepRunning, closing, netVars, mgrVars>>

\* handleClose; for an auth close only up to the state listeners.
HandleClose(w, code) ==
  LET decision == DecideClose(w, code) IN
  \/ /\ decision = "ignore"
     /\ UNCHANGED <<state, holder, attemptOpened, heartbeat, sleepRunning,
                    frame>>
  \/ /\ decision = "session-replaced"
     /\ state' = "kicked"
     /\ OnClose
     /\ HandleKicked
     /\ UNCHANGED frame
  \/ /\ decision \in RM!Triggers
     /\ state' = "retrying"
     /\ attemptOpened' = FALSE
     /\ frame' = decision
     /\ UNCHANGED <<holder, heartbeat, sleepRunning>>
  \/ /\ decision = "normal-disconnect"
     /\ state' = "retrying"
     /\ attemptOpened' = FALSE
     /\ OnClose
     /\ UNCHANGED <<holder, sleepRunning, frame>>

\* onAuthRecoveryNeeded without a tokenProvider: only a real auth close is
\* terminal.  Then the onClose hook.
CookieAuthEnds ==
  /\ frame \in RM!Triggers
  /\ ~HasTokenProvider
  /\ frame' = "none"
  /\ IF frame = "auth-close"
     THEN TerminalAuthFailure
     ELSE /\ OnClose
          /\ UNCHANGED <<state, holder, attemptOpened, terminalAuthFired,
                         terminalCalls, sleepRunning, sock, queuedOpen,
                         sentFresh>>
  /\ UNCHANGED <<closing, dupClose, tokenFresh, mgrVars>>

\* onAuthRecoveryNeeded with a tokenProvider hands over to tryAuthRecovery,
\* whose storm trip is terminal.  Then the onClose hook.
TokenAuthEnds ==
  /\ frame \in RM!Triggers
  /\ HasTokenProvider
  /\ frame' = "none"
  /\ \/ /\ RM!AuthIgnored(frame) \/ RM!AuthRefreshes(frame)
        /\ OnClose
        /\ UNCHANGED <<state, holder, attemptOpened, terminalAuthFired,
                       terminalCalls, sleepRunning, sock, queuedOpen,
                       sentFresh>>
     \/ RM!AuthStorm(frame) /\ TerminalAuthFailure
  /\ UNCHANGED <<closing, dupClose, tokenFresh>>

-----------------------------------------------------------------------------
(***************************************************************************)
(* The socket swap.                                                        *)
(***************************************************************************)

\* swapSocket up to the close of the old wrapper: refused on a dead client;
\* otherwise stop the heartbeat, clear the holder, be truthful about the
\* state, then close.  A wrapper between two attempts has no event to dispatch.
SwapBegins ==
  IF IsDead
  THEN UNCHANGED <<coreVars, frameVars, sock, queuedOpen, sentFresh>>
  ELSE /\ heartbeat' = "off"
       /\ ClearHolder
       /\ state' = IF state = "connected" THEN "retrying" ELSE state
       /\ CloseSocket(holder)
       /\ frame' = "swap"
       /\ closing' = IF holder # NoWs /\ sock[holder] # "backoff"
                     THEN holder ELSE NoWs
       /\ UNCHANGED <<terminalAuthFired, terminalCalls, sleepRunning>>

\* partysocket dispatches the close synchronously, with code 1000.
SwapCloseEvent ==
  /\ frame = "swap"
  /\ closing # NoWs
  /\ closing' = NoWs
  /\ HandleClose(closing, "1000")
  /\ UNCHANGED <<terminalAuthFired, terminalCalls, netVars, mgrVars>>

\* Mutant: a re-entrant connect() is not noticed (Bug 21).
SwapEndsOverConnect ==
  /\ frame = "swap"
  /\ closing = NoWs
  /\ frame' = "none"
  /\ IF IsDead THEN UNCHANGED <<sock, holder, attemptOpened>> ELSE CreateSocket
  /\ UNCHANGED <<state, terminalAuthFired, terminalCalls, heartbeat,
                 sleepRunning, closing, queuedOpen, dupClose, sentFresh,
                 tokenFresh, mgrVars>>

\* Mutant: a re-entrant dispose() is not noticed (Bug 21).
SwapEndsOverDispose ==
  /\ frame = "swap"
  /\ closing = NoWs
  /\ frame' = "none"
  /\ IF holder # NoWs
     THEN UNCHANGED <<sock, holder, attemptOpened>>
     ELSE CreateSocket
  /\ UNCHANGED <<state, terminalAuthFired, terminalCalls, heartbeat,
                 sleepRunning, closing, queuedOpen, dupClose, sentFresh,
                 tokenFresh, mgrVars>>

\* After the close fan-out: bail out if the client died or a re-entrant
\* connect() already installed a wrapper, else install the new one.
SwapEnds ==
  /\ frame = "swap"
  /\ closing = NoWs
  /\ frame' = "none"
  /\ \/ /\ IsDead \/ holder # NoWs
        /\ UNCHANGED <<sock, holder, attemptOpened>>
     \/ ~IsDead /\ holder = NoWs /\ CreateSocket
  /\ UNCHANGED <<state, terminalAuthFired, terminalCalls, heartbeat,
                 sleepRunning, closing, queuedOpen, dupClose, sentFresh,
                 tokenFresh, mgrVars>>

-----------------------------------------------------------------------------
(***************************************************************************)
(* Timers and continuations of the ReconnectManager.                       *)
(***************************************************************************)
DebounceFires ==
  /\ frame = "none"
  /\ RM!DebounceFires
  /\ UNCHANGED clientVars

JitterElapses ==
  /\ frame = "none"
  /\ \/ (RM!JitterAborts \/ RM!JitterRefreshes) /\ UNCHANGED clientVars
     \/ RM!JitterRebuilds /\ SwapBegins /\ UNCHANGED <<dupClose, tokenFresh>>

\* The identity provider answers; a token it returns is accepted.
RefreshSettles ==
  /\ frame = "none"
  /\ \/ RM!RefreshSettles("ok") /\ tokenFresh' = TRUE
     \/ /\ "refresh-fails" \in Faults
        /\ RM!RefreshSettles("failed")
        /\ UNCHANGED tokenFresh
  /\ UNCHANGED <<coreVars, frameVars, sock, queuedOpen, dupClose, sentFresh>>

\* Mutant: a failed refresh is terminal on a client dead meanwhile, too (F1).
AwaiterResumesUnguarded ==
  /\ frame = "none"
  /\ RM!AuthResumes \/ RM!RunResumes
  /\ \/ refresh = "ok" /\ SwapBegins
     \/ refresh = "failed" /\ TerminalAuthFailure /\ UNCHANGED frameVars
  /\ UNCHANGED <<dupClose, tokenFresh>>

\* refreshAndReconnect returns to its awaiter: swap on a token, terminal
\* without one unless the client died meanwhile.
AwaiterResumes ==
  /\ frame = "none"
  /\ RM!AuthResumes \/ RM!RunResumes
  /\ \/ refresh = "ok" /\ SwapBegins
     \/ /\ refresh = "failed"
        /\ IF RM!Stopped
           THEN UNCHANGED <<coreVars, sock, queuedOpen, sentFresh>>
           ELSE TerminalAuthFailure
        /\ UNCHANGED frameVars
  /\ UNCHANGED <<dupClose, tokenFresh>>

RunFinally ==
  /\ frame = "none"
  /\ RM!RunFinally
  /\ UNCHANGED clientVars

WindowExpires == RM!WindowExpires /\ UNCHANGED clientVars

-----------------------------------------------------------------------------
(***************************************************************************)
(* Heartbeat, sleep and upload triggers.                                   *)
(***************************************************************************)

\* The stream's config event configures and starts the monitor.
HeartbeatConfig ==
  /\ Task
  /\ heartbeat = "subscribing"
  /\ holder # NoWs
  /\ sock[holder] = "open"
  /\ heartbeat' = "watching"
  /\ UNCHANGED <<state, holder, attemptOpened, terminalAuthFired,
                 terminalCalls, sleepRunning, frameVars, netVars, mgrVars>>

\* The stream fails before config until the retry budget is spent: the
\* connection stays unmonitored.
SubscribeGivesUp ==
  /\ Task
  /\ heartbeat = "subscribing"
  /\ heartbeat' = "off"
  /\ UNCHANGED <<state, holder, attemptOpened, terminalAuthFired,
                 terminalCalls, sleepRunning, frameVars, netVars, mgrVars>>

\* The monitor fires once: no longer claim connected, and reconnect.
HeartbeatTimesOut ==
  /\ Task
  /\ heartbeat = "watching"
  /\ heartbeat' = "timedout"
  /\ state' = IF state = "connected" THEN "retrying" ELSE state
  /\ RM!Reconnect({})
  /\ UNCHANGED <<holder, attemptOpened, terminalAuthFired, terminalCalls,
                 sleepRunning, frameVars, netVars>>

\* A tick of the worker, which exists while the detector runs, comes late by
\* more than the tolerance.  When that happens is left open.
TickComesLate == sleepRunning

Wakes ==
  /\ Task
  /\ TickComesLate
  /\ RM!Reconnect({})
  /\ UNCHANGED clientVars

\* A rejected upload counts as an auth close.
NotifyUploadAuthFailure ==
  \/ /\ RM!AuthIgnored("auth-close") \/ RM!AuthRefreshes("auth-close")
     /\ UNCHANGED <<coreVars, sock, queuedOpen, sentFresh>>
  \/ RM!AuthStorm("auth-close") /\ TerminalAuthFailure

\* An upload is answered 401 while its token is still the current one.
UploadRejected ==
  /\ Task
  /\ HasTokenProvider
  /\ ~tokenFresh \/ "reject-fresh" \in Faults
  /\ NotifyUploadAuthFailure
  /\ UNCHANGED <<frameVars, dupClose, tokenFresh>>

-----------------------------------------------------------------------------
(***************************************************************************)
(* partysocket, the network and the server.                                *)
(***************************************************************************)

\* The URL of an attempt carries the token of the moment.
BuildUrl(w) == sentFresh' = IF tokenFresh THEN sentFresh \cup {w} ELSE sentFresh

\* An attempt re-reads the token through the URL provider.
Attempt(w) ==
  /\ Task
  /\ sock[w] = "backoff"
  /\ w \notin dupClose
  /\ sock' = [sock EXCEPT ![w] = "handshake"]
  /\ BuildUrl(w)
  /\ UNCHANGED <<coreVars, frameVars, queuedOpen, dupClose, tokenFresh, mgrVars>>

HandshakeOpens(w) ==
  /\ Task
  /\ sock[w] = "handshake"
  /\ sock' = [sock EXCEPT ![w] = "open"]
  /\ HandleOpen(w)
  /\ UNCHANGED <<holder, terminalAuthFired, terminalCalls, heartbeat,
                 sleepRunning, closing, queuedOpen, dupClose, sentFresh,
                 tokenFresh, mgrVars>>

\* The queued open event of a wrapper closed meanwhile.
LateOpen(w) ==
  /\ Task
  /\ w \in queuedOpen
  /\ queuedOpen' = queuedOpen \ {w}
  /\ HandleOpen(w)
  /\ UNCHANGED <<holder, terminalAuthFired, terminalCalls, heartbeat,
                 sleepRunning, closing, sock, dupClose, sentFresh, tokenFresh,
                 mgrVars>>

\* Why a wrapper reports a close: before open a refused, rejected or timed-out
\* handshake; on an open link a network drop, a normal close, a kick, or the
\* rejection of its token.
MayClose(w, code) ==
  CASE code = "1000"         -> sock[w] \in {"handshake", "open"}
    [] code = "1000-timeout" -> sock[w] = "handshake"
    [] code = "1006"         -> sock[w] \in {"open", "halfopen"}
    [] code = "4005"         -> sock[w] = "open"
    [] code = "1008"         -> /\ sock[w] = "open"
                                /\ w \notin sentFresh \/ "reject-fresh" \in Faults

\* partysocket will attempt again, unless the client closed the wrapper (4005).
SocketCloses(w, code) ==
  /\ Task
  /\ MayClose(w, code)
  /\ sock' = [sock EXCEPT ![w] = IF code = "4005" THEN "closed" ELSE "backoff"]
  /\ sentFresh' = sentFresh \ {w}
  /\ \/ UNCHANGED dupClose
     \/ /\ "double-close" \in Faults
        /\ code = "1008"
        /\ dupClose = {}
        /\ dupClose' = {w}
  /\ HandleClose(w, code)
  /\ UNCHANGED <<terminalAuthFired, terminalCalls, closing, queuedOpen,
                 tokenFresh, mgrVars>>

\* partysocket fires onclose a second time for one 1008.
DuplicateClose(w) ==
  /\ Task
  /\ w \in dupClose
  /\ dupClose' = dupClose \ {w}
  /\ HandleClose(w, "1008")
  /\ UNCHANGED <<terminalAuthFired, terminalCalls, closing, sock, queuedOpen,
                 sentFresh, tokenFresh, mgrVars>>

\* The link dies without a close event.
LinkDies(w) ==
  /\ sock[w] = "open"
  /\ sock' = [sock EXCEPT ![w] = "halfopen"]
  /\ UNCHANGED <<coreVars, frameVars, queuedOpen, dupClose, sentFresh,
                 tokenFresh, mgrVars>>

\* A token outlives the storm window, unless "short-token" is in Faults.
TokenExpires ==
  /\ tokenFresh
  /\ ~inWindow \/ "short-token" \in Faults
  /\ tokenFresh' = FALSE
  /\ sentFresh' = {}
  /\ UNCHANGED <<coreVars, frameVars, sock, queuedOpen, dupClose, mgrVars>>

-----------------------------------------------------------------------------
\* The close codes as the event normalizer hands them on: partysocket's cloned
\* event is read through, and what cannot be read at all is a 1006.
Codes == {"1000", "1000-timeout", "1006", "1008", "4005"}

Consumer  == Connect \/ Dispose
Handlers  == ConnectEnds \/ OpenEnds \/ CookieAuthEnds \/ TokenAuthEnds
               \/ SwapCloseEvent \/ SwapEnds
Timers    == DebounceFires \/ JitterElapses \/ RefreshSettles \/ WindowExpires
Awaiters  == AwaiterResumes \/ RunFinally
Triggered == HeartbeatConfig \/ SubscribeGivesUp \/ HeartbeatTimesOut \/ Wakes
               \/ UploadRejected
Network   ==
  \/ \E w \in Wrappers :
       \/ Attempt(w)
       \/ HandshakeOpens(w)
       \/ LateOpen(w)
       \/ \E code \in Codes : SocketCloses(w, code)
       \/ DuplicateClose(w)
       \/ LinkDies(w)
  \/ TokenExpires

Step == Consumer \/ Handlers \/ Timers \/ Awaiters \/ Triggered \/ Network

Next == Step /\ UNCHANGED setup

Spec == Init /\ [][Next]_vars

\* Handlers finish and continuations run (the event loop); timers and the
\* retries of partysocket come due; the consumer's refresh() settles; a dead
\* link that is being watched times out; and a server that can be reached again
\* and again accepts in the end.  SF where other tasks may run first, again and
\* again.  Nothing is assumed of the consumer, of triggers or of late events.
Fairness ==
  /\ WF_vars((Handlers \/ Awaiters) /\ UNCHANGED setup)
  /\ SF_vars(DebounceFires /\ UNCHANGED setup)
  /\ SF_vars(JitterElapses /\ UNCHANGED setup)
  /\ SF_vars(RefreshSettles /\ UNCHANGED setup)
  /\ SF_vars(HeartbeatTimesOut /\ sock[holder] = "halfopen" /\ UNCHANGED setup)
  /\ SF_vars((\E w \in Wrappers : Attempt(w) \/ DuplicateClose(w))
               /\ UNCHANGED setup)
  /\ SF_vars((\E w \in Wrappers : HandshakeOpens(w)) /\ UNCHANGED setup)

FairSpec == Spec /\ Fairness

-----------------------------------------------------------------------------
(***************************************************************************)
(* Properties.                                                             *)
(***************************************************************************)

\* The variables keep their types.
TypeOK ==
  /\ setup \in Setups
  /\ state \in States
  /\ holder \in Wrappers \cup {NoWs}
  /\ terminalCalls \in 0 .. CallCap
  /\ {attemptOpened, terminalAuthFired, sleepRunning, tokenFresh} \subseteq BOOLEAN
  /\ heartbeat \in {"off", "subscribing", "watching", "timedout"}
  /\ frame \in Frames \cup {"none"}
  /\ closing \in Wrappers \cup {NoWs}
  /\ sock \in [Wrappers -> {"closed", "backoff", "handshake", "open", "halfopen"}]
  /\ queuedOpen \subseteq Wrappers
  /\ dupClose \subseteq Wrappers
  /\ sentFresh \subseteq Wrappers
  /\ {disposed, terminalFired, debounceArmed, trailing} \subseteq BOOLEAN
  /\ {inWindow, lastWasAuth, authWait} \subseteq BOOLEAN
  /\ phase \in {"idle", "jitter", "refresh", "finish"}
  /\ refresh \in {"none", "inflight", "ok", "failed"}

\* No orphan: every wrapper that may still open or retry is the one in the
\* holder, so at most one connection per client exists (Bug 9, 13, 21).
LiveSocketIsHeld == \A w \in Wrappers : sock[w] # "closed" => w = holder

\* A dead client (disposed, terminal or kicked) keeps no wrapper, no heartbeat
\* and no sleep detector, and its state says so (Bug 12, 14, F1, F3).
DeadHoldsNothing ==
  /\ TypeOK
  /\ IsDead => /\ holder = NoWs
               /\ heartbeat = "off"
               /\ ~sleepRunning
               /\ state \in {"stopped", "kicked"}

\* The flag that tells a pre-open 1000 from a normal close is exact for the
\* current attempt, across partysocket's internal retries (Bug 4, 6, 10, 17);
\* and the client claims to be connected only over a wrapper that did open and
\* was neither closed nor given up since (Bug 15).
ConnectedIsOpen ==
  /\ attemptOpened <=> holder # NoWs /\ sock[holder] \in {"open", "halfopen"}
  /\ state = "connected" => attemptOpened /\ heartbeat # "timedout"

\* Death is a one-way door: no event, timer or resolving refresh brings a dead
\* client back (zombie-after-terminal, kicked resurrection).
NoResurrection ==
  [][IsDead => IsDead' /\ state' \in {"stopped", "kicked"}
                       /\ \A w \in Wrappers : sock[w] = "closed" => sock'[w] = "closed"]_vars

\* Whatever the client does is, for the ReconnectManager, a step of its own in
\* an environment it expects: what ReconnectManager and its proofs say of the
\* manager holds inside the client.
ManagerInContext == [][RM!ManagerNext]_<<IsDead, mgrVars>>

\* The client as ClientContract has it, whatever re-enters it where it expects to be
\* re-entered: what client.state shows is what the wrappers are (types.ts:20-40,
\* index.ts:259-316), and the terminal callback never runs on a client already
\* dead, hence at most once and never after a kick or a dispose()
\* (reconnect-manager.ts:774-777, Bug 14, F1).
Contract == INSTANCE ClientContract
  WITH shown <- state,
       linked <- \E w \in Wrappers : sock[w] \in {"open", "halfopen"},
       over <- IsDead,
       reported <- terminalCalls

ImplementsContract == Contract!Spec

\* With a server that rejects only tokens it no longer accepts, and an identity
\* provider that answers, no interleaving of drops, timeouts, wakes, duplicate
\* closes, outages and upload rejections logs the user out (Bug 16, 23, 25, F2).
HonestServer == Faults \cap {"reject-fresh", "refresh-fails", "short-token"} = {}

NoSpuriousLogout == HasTokenProvider /\ HonestServer => ~terminalAuthFired

\* A client that lost its connection regains it or dies, no trigger is lost; and
\* a watched link that died without a close event is replaced.
Recovers ==
  /\ state \in {"connecting", "retrying"} ~> state = "connected" \/ IsDead
  /\ \A w \in Wrappers :
       sock[w] = "halfopen" /\ heartbeat = "watching" ~> sock[w] # "halfopen"

\* A re-entrant dispose() is final, as dispose() documents (index.ts:313-316,
\* client-lifecycle.ts:289-293): no wrapper survives it.
DisposedHasNoSocket == disposed => holder = NoWs
=============================================================================
