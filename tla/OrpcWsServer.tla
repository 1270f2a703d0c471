---------------------------- MODULE OrpcWsServer ----------------------------
(***************************************************************************)
(* orpc-ws-server: upgrade verification, the connection registry, the      *)
(* connection handler, ping-pong, token expiry and shutdown, composed the  *)
(* way the OrpcWsServer class composes them.                               *)
(*                                                                         *)
(* A handler is one step.  The exception is register(), which calls the    *)
(* consumer's onKicked hook before it stores the newcomer: "registering"   *)
(* is the newcomer while that hook runs, and until it returns only the     *)
(* hook's own calls of the server can happen.  The other hooks are the     *)
(* last thing their handler does, so a call they make is the next step.    *)
(*                                                                         *)
(* The ws library, the peers and the consumer's verifyClient are external: *)
(* modelled from how the server uses them.                                 *)
(***************************************************************************)
EXTENDS Integers

CONSTANTS
  Sockets,    \* upgrade requests, and the connections they become
  Users,      \* connection keys of authenticated users
  NoWs,       \* null
  Modes,      \* the configurations considered, a subset of AllModes
  HookCalls,  \* what the consumer's onKicked calls: a subset of {"closeUser", "dispose"}
  Faults      \* a subset of AllFaults

AllModes  == {"single", "concurrent", "authless", "authless-concurrent"}
AllFaults == {"throws", "silent", "abandoned"}

ASSUME NoWsAssumption  == NoWs \notin Sockets
ASSUME UsersAssumption == Users # {} /\ Users \cap Sockets = {}
ASSUME ModesAssumption == Modes \subseteq AllModes
ASSUME HooksAssumption == HookCalls \subseteq {"closeUser", "dispose"}
ASSUME FaultAssumption == Faults \subseteq AllFaults

VARIABLES
  mode,         \* the configuration, fixed at construction
  stage,        \* attach() and dispose(): "new", "attached", "disposing", "disposed"
  conn,         \* each socket: "idle", "verifying", "refused", "open",
                \* "closing" (close frame sent), "destroyed", "closed"
  key,          \* connection key of each socket
  pending,      \* sockets whose verifyClient promise has not settled
  answers,      \* history: how often ws was told the verdict on each upgrade
  stash,        \* authByReq
  map,          \* ConnectionRegistry.map
  registering,  \* the newcomer whose register() runs onKicked, or NoWs
  wired,        \* sockets with a 'close' listener of the connection handler
  tracked,      \* WsPingPong.tracked
  alive,        \* WsPingPong.aliveness is true
  pinged,       \* sockets that owe a pong
  pingTimer,    \* WsPingPong.timer is set
  expiring,     \* sockets with an expiry timer
  life,         \* what is left of each socket's token, in units of MAX_TIMER_DELAY_MS
  graceTimer,   \* closeWssWithGrace's fallback is scheduled
  gone,         \* peers that vanished without a word
  connected,    \* history: sockets whose onConnected ran
  disconnected  \* history: sockets whose onDisconnected ran

upgradeVars == <<pending, answers, stash>>
pingVars    == <<tracked, alive, pinged, pingTimer>>
hookVars    == <<connected, disconnected>>
vars == <<mode, stage, conn, key, upgradeVars, map, registering, wired,
          pingVars, expiring, life, graceTimer, gone, hookVars>>

Authless == mode \in {"authless", "authless-concurrent"}
Single   == mode \in {"single", "authless"}
Keys     == Users \cup Sockets

\* The keys a connection may get: its user's; without users the constant
\* authless key, or a fresh one per connection (here the socket itself).
KeyOf(s) ==
  CASE ~Authless                     -> Users
    [] mode = "authless"             -> {CHOOSE k \in Users : TRUE}
    [] mode = "authless-concurrent"  -> {s}

Init ==
  /\ mode \in Modes
  /\ stage = "new"
  /\ conn = [s \in Sockets |-> "idle"]
  /\ key \in [Sockets -> Keys]
  /\ \A s \in Sockets : key[s] \in KeyOf(s)
  /\ pending = {}
  /\ answers = [s \in Sockets |-> 0]
  /\ stash = {}
  /\ map = [k \in Keys |-> NoWs]
  /\ registering = NoWs
  /\ wired = {}
  /\ tracked = {} /\ alive = {} /\ pinged = {}
  /\ pingTimer = FALSE
  /\ expiring = {}
  /\ life = [s \in Sockets |-> 0]
  /\ graceTimer = FALSE
  /\ gone = {}
  /\ connected = {} /\ disconnected = {}

\* A new task may start: no handler is suspended in a hook.
Task == registering = NoWs

\* The entry of a key: ConnectionRegistry.get and getEntry.
Get(k) == map[k]

\* OrpcWsServer.getConnection: a handle on whoever is connected under the key.
GetConnection(k) == Get(k)

\* WsPingPong.start and .stop.
StartsPinging == pingTimer' = TRUE
StopsPinging  == pingTimer' = FALSE

Live(s) == conn[s] \in {"open", "closing"}

\* ws.close() does nothing on a socket that is not open.
CloseAll(S) ==
  conn' = [s \in Sockets |-> IF s \in S /\ conn[s] = "open" THEN "closing" ELSE conn[s]]

-----------------------------------------------------------------------------
(***************************************************************************)
(* attach() and dispose().                                                 *)
(***************************************************************************)
Attach ==
  /\ Task
  /\ stage = "new"
  /\ stage' = "attached"
  /\ StartsPinging
  /\ UNCHANGED <<mode, conn, key, upgradeVars, map, registering, wired, tracked,
                 alive, pinged, expiring, life, graceTimer, gone, hookVars>>

Registered == {map[k] : k \in Keys} \ {NoWs}

\* Mutant: shutdown does not wait for a grace period.
DisposeWithoutGrace ==
  /\ Task \/ "dispose" \in HookCalls
  /\ stage \in {"new", "attached"}
  /\ stage' = IF stage = "new" THEN "disposed" ELSE "disposing"
  /\ StopsPinging
  /\ CloseAll(Registered)
  /\ UNCHANGED <<mode, key, upgradeVars, map, registering, wired, tracked, alive,
                 pinged, expiring, life, graceTimer, gone, hookVars>>

\* dispose() up to its await: stop the timers, say goodbye to every entry of
\* the registry, close the WebSocketServer, which takes no further upgrade.
Dispose ==
  /\ Task \/ "dispose" \in HookCalls
  /\ stage \in {"new", "attached"}
  /\ stage' = IF stage = "new" THEN "disposed" ELSE "disposing"
  /\ graceTimer' = (stage = "attached")
  /\ StopsPinging
  /\ CloseAll(Registered)
  /\ UNCHANGED <<mode, key, upgradeVars, map, registering, wired, tracked, alive,
                 pinged, expiring, life, gone, hookVars>>

\* The grace window is over: terminate whoever is left.
GraceFires ==
  /\ Task
  /\ graceTimer
  /\ graceTimer' = FALSE
  /\ conn' = [s \in Sockets |-> IF Live(s) THEN "destroyed" ELSE conn[s]]
  /\ UNCHANGED <<mode, stage, key, upgradeVars, map, registering, wired, pingVars,
                 expiring, life, gone, hookVars>>

\* ws reports the server closed once its last client is gone: dispose() resolves.
WssCloses ==
  /\ Task
  /\ stage = "disposing"
  /\ \A s \in Sockets : ~Live(s) /\ conn[s] # "destroyed"
  /\ stage' = "disposed"
  /\ graceTimer' = FALSE
  /\ UNCHANGED <<mode, conn, key, upgradeVars, map, registering, wired, pingVars,
                 expiring, life, gone, hookVars>>

-----------------------------------------------------------------------------
(***************************************************************************)
(* The connection handler.                                                 *)
(***************************************************************************)

\* Mutant: a step that throws is not rolled back.
FinishWithoutRollback(s) ==
  /\ map' = [map EXCEPT ![key[s]] = s]
  /\ \/ /\ conn' = [conn EXCEPT ![s] = "open"]
        /\ wired' = wired \cup {s}
        /\ tracked' = tracked \cup {s}
        /\ alive' = alive \cup {s}
        /\ connected' = connected \cup {s}
        /\ UNCHANGED <<expiring, life>>
     \/ /\ "throws" \in Faults
        /\ conn' = [conn EXCEPT ![s] = "closing"]
        /\ UNCHANGED <<wired, tracked, alive, expiring, life, connected>>

\* WsPingPong.register and .unregister.
Tracks(s)   == tracked' = tracked \cup {s} /\ alive' = alive \cup {s}
Untracks(s) == tracked' = tracked \ {s} /\ alive' = alive \ {s}

\* The expiry watchdog of a connection, if it gets one: a timer, and what is
\* left of the token.
Watches(s) ==
  \/ UNCHANGED expiring /\ life' = [life EXCEPT ![s] = 0]
  \/ /\ ~Authless
     /\ expiring' = expiring \cup {s}
     /\ \E l \in 0 .. 2 : life' = [life EXCEPT ![s] = l]

\* wireLifecycle: listen for the close, run onConnected.
Wires(s) ==
  /\ wired' = wired \cup {s}
  /\ connected' = connected \cup {s}

\* rollbackFailedWiring after a step that threw, before or after the close
\* listener was attached; then attach()'s guard closes the socket.
RollsBack(s) ==
  /\ map' = [map EXCEPT ![key[s]] = NoWs]
  /\ conn' = [conn EXCEPT ![s] = "closing"]
  /\ wired' \in {wired, wired \cup {s}}
  /\ UNCHANGED <<tracked, alive, expiring, life, connected>>

\* The rest of handle() once register() has dealt with a previous session:
\* store the newcomer, upgrade, track it, arm the watchdog, wire it.
Finish(s) ==
  \/ /\ map' = [map EXCEPT ![key[s]] = s]
     /\ conn' = [conn EXCEPT ![s] = "open"]
     /\ Tracks(s)
     /\ Watches(s)
     /\ Wires(s)
  \/ "throws" \in Faults /\ RollsBack(s)

\* register() under one connection per key: the previous session is closed
\* before the newcomer takes its place.
Kicks(s) == Single /\ map[key[s]] # NoWs

\* Mutant: the newcomer takes the entry before the previous session is closed.
ConnectWithoutKick(s) == Finish(s) /\ UNCHANGED registering

\* A throw before register() (key derivation, the multiplexer of a bidi
\* connection) only costs the socket.
TransportFails(s) ==
  /\ "throws" \in Faults
  /\ conn' = [conn EXCEPT ![s] = "closing"]
  /\ UNCHANGED <<map, registering, wired, tracked, alive, expiring, life, connected>>

\* ws emits 'connection'.  With a session to replace, up to the onKicked hook.
Connect(s) ==
  \/ /\ Kicks(s)
     /\ conn' = [conn EXCEPT ![s] = "open",
                             ![map[key[s]]] = IF @ = "open" THEN "closing" ELSE @]
     /\ registering' = s
     /\ UNCHANGED <<map, wired, tracked, alive, expiring, life, connected>>
  \/ ~Kicks(s) /\ Finish(s) /\ UNCHANGED registering
  \/ TransportFails(s)

\* handleAuthless: the same without a verdict, an identity or an expiry.
HandleAuthless(s) == Authless /\ Connect(s)

KickHookReturns ==
  /\ registering # NoWs
  /\ registering' = NoWs
  /\ Finish(registering)
  /\ UNCHANGED <<mode, stage, key, upgradeVars, pinged, pingTimer, graceTimer,
                 gone, disconnected>>

\* Mutant: whoever closes empties the entry of its key (Bug 9).
CloseEventUnguarded(s) ==
  /\ Task
  /\ conn[s] \in {"closing", "destroyed"}
  /\ conn' = [conn EXCEPT ![s] = "closed"]
  /\ pinged' = pinged \ {s}
  /\ IF s \in wired
     THEN /\ map' = [map EXCEPT ![key[s]] = NoWs]
          /\ expiring' = expiring \ {s}
          /\ tracked' = tracked \ {s}
          /\ alive' = alive \ {s}
          /\ disconnected' = disconnected \cup {s}
     ELSE UNCHANGED <<map, expiring, tracked, alive, disconnected>>
  /\ UNCHANGED <<mode, stage, key, upgradeVars, registering, wired, pingTimer,
                 life, graceTimer, gone, connected>>

\* The 'close' listener: cancel the expiry, leave the registry if the entry is
\* still this socket's, stop tracking, run onDisconnected.
CloseEvent(s) ==
  /\ Task
  /\ conn[s] \in {"closing", "destroyed"}
  /\ conn' = [conn EXCEPT ![s] = "closed"]
  /\ pinged' = pinged \ {s}
  /\ IF s \in wired
     THEN /\ map' = [map EXCEPT ![key[s]] = IF @ = s THEN NoWs ELSE @]
          /\ expiring' = expiring \ {s}
          /\ Untracks(s)
          /\ disconnected' = disconnected \cup {s}
     ELSE UNCHANGED <<map, expiring, tracked, alive, disconnected>>
  /\ UNCHANGED <<mode, stage, key, upgradeVars, registering, wired, pingTimer,
                 life, graceTimer, gone, connected>>

\* closeUser(): whoever the registry holds under the key.
CloseUser(k) ==
  /\ Task \/ "closeUser" \in HookCalls
  /\ Get(k) # NoWs
  /\ conn[Get(k)] = "open"
  /\ CloseAll({Get(k)})
  /\ UNCHANGED <<mode, stage, key, upgradeVars, map, registering, wired, pingVars,
                 expiring, life, graceTimer, gone, hookVars>>

-----------------------------------------------------------------------------
(***************************************************************************)
(* Upgrade verification.                                                   *)
(***************************************************************************)
Answer(s) == answers' = [answers EXCEPT ![s] = @ + 1]

NoConnection == UNCHANGED <<map, registering, wired, tracked, alive, expiring,
                            life, connected>>

\* An upgrade request: without authentication ws connects it at once; else
\* the timeout is armed and verifyClient invoked, which may throw.
UpgradeArrives(s) ==
  /\ Task
  /\ stage = "attached"
  /\ conn[s] = "idle"
  /\ \/ HandleAuthless(s) /\ UNCHANGED <<pending, answers>>
     \/ /\ ~Authless
        /\ conn' = [conn EXCEPT ![s] = "verifying"]
        /\ pending' = pending \cup {s}
        /\ UNCHANGED answers
        /\ NoConnection
     \/ /\ ~Authless
        /\ "throws" \in Faults
        /\ conn' = [conn EXCEPT ![s] = "refused"]
        /\ Answer(s)
        /\ UNCHANGED pending
        /\ NoConnection
  /\ UNCHANGED <<mode, stage, key, stash, pinged, pingTimer, graceTimer, gone,
                 disconnected>>

VerifyTimesOut(s) ==
  /\ Task
  /\ conn[s] = "verifying"
  /\ conn' = [conn EXCEPT ![s] = "refused"]
  /\ Answer(s)
  /\ NoConnection
  /\ UNCHANGED <<mode, stage, key, pending, stash, pinged, pingTimer, graceTimer,
                 gone, disconnected>>

\* An accepted upgrade connects, unless the peer gave it up or the server is
\* shutting down: then ws drops the socket.
Accept(s) ==
  /\ stash' = stash \cup {s}
  /\ Answer(s)
  /\ IF stage = "attached" /\ s \notin gone
     THEN Connect(s)
     ELSE conn' = [conn EXCEPT ![s] = "refused"] /\ NoConnection

\* Mutant: a verdict that comes after the timeout is passed on.
VerifySettlesLate(s, verdict) ==
  /\ Task
  /\ s \in pending
  /\ pending' = pending \ {s}
  /\ IF verdict = "ok"
     THEN Accept(s)
     ELSE /\ conn' = [conn EXCEPT ![s] = "refused"]
          /\ Answer(s)
          /\ NoConnection
          /\ UNCHANGED stash
  /\ UNCHANGED <<mode, stage, key, pinged, pingTimer, graceTimer, gone, disconnected>>

\* The verifyClient promise settles: accepted; or rejected, malformed or
\* thrown, which all refuse; or too late, which changes nothing.
VerifySettles(s, verdict) ==
  /\ Task
  /\ s \in pending
  /\ pending' = pending \ {s}
  /\ IF conn[s] # "verifying"
     THEN UNCHANGED <<conn, answers, stash>> /\ NoConnection
     ELSE IF verdict = "ok"
     THEN Accept(s)
     ELSE /\ conn' = [conn EXCEPT ![s] = "refused"]
          /\ Answer(s)
          /\ NoConnection
          /\ UNCHANGED stash
  /\ UNCHANGED <<mode, stage, key, pinged, pingTimer, graceTimer, gone, disconnected>>

-----------------------------------------------------------------------------
(***************************************************************************)
(* Ping-pong and token expiry.                                             *)
(***************************************************************************)

\* Mutant: marked dead without a ping.
PingTickSilent ==
  /\ Task
  /\ pingTimer
  /\ LET zombies == tracked \ alive IN
     /\ conn' = [s \in Sockets |-> IF s \in zombies /\ Live(s) THEN "destroyed" ELSE conn[s]]
     /\ tracked' = tracked \ zombies
     /\ alive' = {}
     /\ pinged' = pinged \ zombies
  /\ UNCHANGED <<mode, stage, key, upgradeVars, map, registering, wired, pingTimer,
                 expiring, life, graceTimer, gone, hookVars>>

\* Whoever did not answer the previous ping is terminated and forgotten; the
\* others are presumed dead until they answer this one.
PingTick ==
  /\ Task
  /\ pingTimer
  /\ LET zombies == tracked \ alive IN
     /\ conn' = [s \in Sockets |-> IF s \in zombies /\ Live(s) THEN "destroyed" ELSE conn[s]]
     /\ tracked' = tracked \ zombies
     /\ alive' = {}
     /\ pinged' = (pinged \ zombies) \cup {s \in alive : conn[s] = "open"}
  /\ UNCHANGED <<mode, stage, key, upgradeVars, map, registering, wired, pingTimer,
                 expiring, life, graceTimer, gone, hookVars>>

Pong(s) ==
  /\ Task
  /\ s \in pinged \ gone
  /\ pinged' = pinged \ {s}
  /\ alive' = IF s \in tracked THEN alive \cup {s} ELSE alive
  /\ UNCHANGED <<mode, stage, conn, key, upgradeVars, map, registering, wired, tracked,
                 pingTimer, expiring, life, graceTimer, gone, hookVars>>

\* Mutant: the timer's end is taken for the token's.
ExpiryFiresOnce(s) ==
  /\ Task
  /\ s \in expiring
  /\ life' = [life EXCEPT ![s] = IF @ > 0 THEN @ - 1 ELSE 0]
  /\ expiring' = expiring \ {s}
  /\ CloseAll({s})
  /\ UNCHANGED <<mode, stage, key, upgradeVars, map, registering, wired, pingVars,
                 graceTimer, gone, hookVars>>

\* An expiry timer runs for what is left of the token, at most for one
\* MAX_TIMER_DELAY_MS; if the token outlives it, it is armed again.
ExpiryFires(s) ==
  /\ Task
  /\ s \in expiring
  /\ life' = [life EXCEPT ![s] = IF @ > 0 THEN @ - 1 ELSE 0]
  /\ IF life'[s] > 0
     THEN UNCHANGED <<conn, expiring>>
     ELSE expiring' = expiring \ {s} /\ CloseAll({s})
  /\ UNCHANGED <<mode, stage, key, upgradeVars, map, registering, wired, pingVars,
                 graceTimer, gone, hookVars>>

-----------------------------------------------------------------------------
(***************************************************************************)
(* Peers.                                                                  *)
(***************************************************************************)

\* The peer closes or its link breaks audibly.
PeerCloses(s) ==
  /\ Task
  /\ conn[s] = "open"
  /\ s \notin gone
  /\ conn' = [conn EXCEPT ![s] = "destroyed"]
  /\ UNCHANGED <<mode, stage, key, upgradeVars, map, registering, wired, pingVars,
                 expiring, life, graceTimer, gone, hookVars>>

\* The peer gives up its upgrade, or its link breaks without a word.
PeerVanishes(s) ==
  /\ s \notin gone
  /\ \/ conn[s] = "verifying" /\ "abandoned" \in Faults
     \/ Live(s) /\ "silent" \in Faults
  /\ gone' = gone \cup {s}
  /\ UNCHANGED <<mode, stage, conn, key, upgradeVars, map, registering, wired, pingVars,
                 expiring, life, graceTimer, hookVars>>

-----------------------------------------------------------------------------
Verdicts == {"ok", "no"}

\* The calls of the application around the server; under NestJS, of its
\* lifecycle hooks.
Host == Attach \/ Dispose \/ \E k \in Keys : CloseUser(k)

Next ==
  \/ Host
  \/ GraceFires \/ WssCloses
  \/ KickHookReturns
  \/ PingTick
  \/ \E s \in Sockets :
       \/ UpgradeArrives(s) \/ VerifyTimesOut(s)
       \/ \E verdict \in Verdicts : VerifySettles(s, verdict)
       \/ CloseEvent(s)
       \/ Pong(s) \/ ExpiryFires(s)
       \/ PeerCloses(s) \/ PeerVanishes(s)

Spec == Init /\ [][Next]_vars

\* Hooks return, timers come due, and a destroyed socket reports its close.
\* Nothing is assumed of peers, of verifyClient or of the close handshake.
Fairness ==
  /\ WF_vars(KickHookReturns)
  /\ WF_vars(PingTick)
  /\ WF_vars(GraceFires)
  /\ WF_vars(WssCloses)
  /\ \A s \in Sockets :
       /\ WF_vars(VerifyTimesOut(s))
       /\ WF_vars(conn[s] = "destroyed" /\ CloseEvent(s))
       /\ WF_vars(ExpiryFires(s))

FairSpec == Spec /\ Fairness

-----------------------------------------------------------------------------
(***************************************************************************)
(* Properties.                                                             *)
(***************************************************************************)

\* The variables keep their types.
TypeOK ==
  /\ mode \in Modes
  /\ stage \in {"new", "attached", "disposing", "disposed"}
  /\ conn \in [Sockets -> {"idle", "verifying", "refused", "open", "closing",
                           "destroyed", "closed"}]
  /\ key \in [Sockets -> Keys]
  /\ answers \in [Sockets -> 0 .. 2]
  /\ map \in [Keys -> Sockets \cup {NoWs}]
  /\ registering \in Sockets \cup {NoWs}
  /\ life \in [Sockets -> 0 .. 2]
  /\ {pingTimer, graceTimer} \subseteq BOOLEAN
  /\ {pending, stash, wired, tracked, alive, pinged, expiring, gone, connected,
      disconnected} \subseteq SUBSET Sockets

\* Whoever is connected is the entry of its key, so getConnection(), closeUser()
\* and shutdown reach it: neither the late close of the session it replaced, nor a failed
\* newcomer, nor a hook's calls take its entry away (Bug 9 server side,
\* connection-registry.ts:132-144).  Not claimed where connections share a key
\* by configuration (singleConnectionPerUser off).
EveryoneIsReachable ==
  mode # "concurrent" =>
    \A s \in connected : conn[s] = "open" => GetConnection(key[s]) = s

\* No entry, tracking or timer outlives its socket's close event, whichever step
\* of the handler threw; and when dispose() resolves, no socket and no timer is
\* left and every session announced to the consumer was reported as ended.
NothingLeaks ==
  /\ TypeOK
  /\ \A k \in Keys : map[k] # NoWs =>
       key[map[k]] = k /\ map[k] \in wired /\ conn[map[k]] # "closed"
  /\ \A s \in tracked \cup expiring : s \in wired /\ conn[s] # "closed"
  /\ stage = "disposed" =>
       /\ Registered = {} /\ tracked = {} /\ expiring = {}
       /\ ~pingTimer /\ ~graceTimer
       /\ connected = disconnected \cap connected

\* ws is told the verdict on an upgrade once, however verifyClient, its timeout
\* and the peer race, and only an accepted upgrade has a stashed identity or
\* becomes a connection (verify-client-orchestrator.ts:227-231, :307-314).
AnsweredOnce ==
  \A s \in Sockets :
    /\ answers[s] <= 1
    /\ answers[s] = 0 => s \notin stash
    /\ ~Authless /\ s \in connected => s \in stash

\* The server ends an open connection of its own accord only on evidence:
\* ping-pong drops it only if it owes a pong, the expiry watchdog only once its
\* token is over, however many timer segments that takes.
NobodyIsCutOffEarly ==
  [][\A s \in Sockets : conn[s] = "open" =>
       /\ s \in tracked \ tracked' => s \in pinged
       /\ s \in expiring \ expiring' => life'[s] = 0]_vars

\* What the connection keys promise, abstractly: the server implements it.
Directory == INSTANCE SessionDirectory
  WITH Conns <- Sockets,
       exclusive <- Single,
       seen <- connected,
       admitted <- [k \in Keys |-> {s \in connected : key[s] = k /\ conn[s] = "open"}]

ImplementsDirectory == Directory!Spec

\* Nothing waits for a peer or a consumer that does not answer: an upgrade is
\* decided, a vanished peer is dropped, dispose() resolves (NFI-4).
NothingHangs ==
  /\ \A s \in Sockets : conn[s] = "verifying" ~> conn[s] # "verifying"
  /\ \A s \in Sockets : s \in gone \cap tracked ~> conn[s] = "closed"
  /\ stage = "disposing" ~> stage = "disposed"
=============================================================================
