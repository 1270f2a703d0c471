--------------------------- MODULE HeartbeatWatch ---------------------------
(***************************************************************************)
(* The heartbeat of one client and the connections it makes: subscriber    *)
(* and monitor of orpc-ws-client, the oRPC link they call through, and the *)
(* publisher of orpc-ws-server.                                            *)
(*                                                                         *)
(* A call of subscribe() is named by the generation it claims.  It may be  *)
(* suspended in the barrier that waits for its predecessor's loop; its own *)
(* loop then awaits the stream's config event, and after it the pings.     *)
(* Frames travel in order; those of a connection are lost with it, except  *)
(* that partysocket keeps what is sent while there is none.  Time is       *)
(* reduced to whether the deadline for the next ping has passed.           *)
(*                                                                         *)
(* The connection itself is the client's connection core: here it opens or *)
(* fails to, closes, dies silently, is swapped or torn down at any time.   *)
(***************************************************************************)
EXTENDS Naturals, Sequences

CONSTANTS
  MaxGen,   \* bound: calls of subscribe()
  Retries   \* preConfigMaxRetries

ASSUME MaxGenAssumption  == MaxGen \in Nat \ {0}
ASSUME RetriesAssumption == Retries \in Nat

Gens == 1 .. MaxGen
None == 0

VARIABLES
  link,        \* the wrapper: "down", "up", "half" (dead, unnoticed), "gone"
  cached,      \* LinkFactory.linkInstance is set
  generation,  \* generation
  loop,        \* each call: "none", "barrier", "calling" (no config yet),
               \* "watching", "broke" (failed before config), "over", "done"
  waits,       \* the predecessor a call in the barrier awaits
  budget,      \* retries left to each call
  aborted,     \* calls whose AbortController has fired
  controller,  \* whose controller abortController is
  active,      \* whose loop activeLoop is
  dropped,     \* dropped
  retry,       \* the call whose failure armed retryTimer
  gaveUp,      \* history: the budget was spent since the last public subscribe()
  polling,     \* HeartbeatMonitor.pollTimer is set
  fired,       \* HeartbeatMonitor.timeoutFired
  overdue,     \* now - lastPingAt > intervalMs + timeoutMs
  wire,        \* frames to the server: a call, or the negative: its abort
  stream,      \* the server's generators: "none", "config" (parked at the
               \* config event), "attached" (to the fan-out), "ended"
  serving,     \* liveByConnection of the connection's socket
  superseded   \* generators a successor on the same connection aborted

subVars    == <<generation, loop, waits, budget, aborted, controller, active,
                dropped, retry, gaveUp>>
monVars    == <<polling, fired, overdue>>
serverVars == <<stream, serving, superseded>>
vars       == <<link, cached, subVars, monVars, wire, serverVars>>

Init ==
  /\ link = "down"
  /\ cached = FALSE
  /\ generation = None
  /\ loop = [g \in Gens |-> "none"]
  /\ waits = [g \in Gens |-> None]
  /\ budget = [g \in Gens |-> 0]
  /\ aborted = {}
  /\ controller = None /\ active = None
  /\ dropped = FALSE
  /\ retry = None
  /\ gaveUp = FALSE
  /\ polling = FALSE /\ fired = FALSE /\ overdue = FALSE
  /\ wire = <<>>
  /\ stream = [g \in Gens |-> "none"]
  /\ serving = None
  /\ superseded = {}

-----------------------------------------------------------------------------
(***************************************************************************)
(* The subscriber.                                                         *)
(***************************************************************************)

Calls(g) == <<[kind |-> "call", gen |-> g]>>
AbortOf(g) == IF g = None THEN <<>> ELSE <<[kind |-> "abort", gen |-> g]>>

\* runLoop up to its first await: getLink() throws unless a link is cached or
\* the wrapper is open, and the loop is over before it becomes the active one.
RunLoop(g, retries, sent, gave) ==
  /\ active' = g
  /\ IF cached \/ link' \in {"up", "half"}
     THEN /\ controller' = g
          /\ loop' = [loop EXCEPT ![g] = "calling"]
          /\ cached' = TRUE
          /\ wire' = wire \o sent \o Calls(g)
          /\ retry' = None
          /\ gaveUp' = gave
     ELSE /\ controller' = None
          /\ loop' = [loop EXCEPT ![g] = "done"]
          /\ wire' = wire \o sent
          /\ retry' = IF ~dropped' /\ retries > 0 THEN g ELSE None
          /\ gaveUp' = (gave \/ (~dropped' /\ retries = 0))
          /\ UNCHANGED cached

\* subscribeWithRetryBudget up to the barrier: claim a generation, abort the
\* call before, and wait for its loop if it still has one.
SubscribeWith(retries, gave) ==
  LET g == generation + 1 IN
  /\ generation' = g
  /\ budget' = [budget EXCEPT ![g] = retries]
  /\ aborted' = aborted \cup ({controller} \ {None})
  /\ IF active = None
     THEN RunLoop(g, retries, AbortOf(controller), gave) /\ UNCHANGED waits
     ELSE /\ loop' = [loop EXCEPT ![g] = "barrier"]
          /\ waits' = [waits EXCEPT ![g] = active]
          /\ active' = None
          /\ controller' = None
          /\ retry' = None
          /\ gaveUp' = gave
          /\ wire' = wire \o AbortOf(controller)
          /\ UNCHANGED cached

\* Mutant: whoever leaves the barrier starts its loop (Bug 18).
LeaveBarrierUnguarded(g) ==
  /\ loop[g] = "barrier"
  /\ loop[waits[g]] = "done"
  /\ waits' = [waits EXCEPT ![g] = None]
  /\ UNCHANGED <<link, generation, budget, aborted, dropped, monVars, serverVars>>
  /\ RunLoop(g, budget[g], <<>>, gaveUp)

\* The predecessor's loop has exited: start, unless a newer call exists.
LeaveBarrier(g) ==
  /\ loop[g] = "barrier"
  /\ loop[waits[g]] = "done"
  /\ waits' = [waits EXCEPT ![g] = None]
  /\ UNCHANGED <<link, generation, budget, aborted, dropped, monVars, serverVars>>
  /\ IF generation = g
     THEN RunLoop(g, budget[g], <<>>, gaveUp)
     ELSE /\ loop' = [loop EXCEPT ![g] = "done"]
          /\ UNCHANGED <<cached, controller, active, retry, gaveUp, wire>>

Exits(g) ==
  \/ loop[g] \in {"broke", "over"}
  \/ loop[g] \in {"calling", "watching"} /\ g \in aborted

\* Mutant: a failed subscription is not tried again (NFI-1).
LoopExitsForGood(g) ==
  /\ Exits(g)
  /\ loop' = [loop EXCEPT ![g] = "done"]
  /\ controller' = IF controller = g THEN None ELSE controller
  /\ active' = IF generation = g THEN None ELSE active
  /\ UNCHANGED <<link, cached, generation, waits, budget, aborted, dropped,
                 retry, gaveUp, monVars, wire, serverVars>>

\* runLoop's catch and finally: a stream that failed before config, neither
\* aborted nor dropped nor overtaken, is tried again while its budget lasts.
LoopExits(g) ==
  LET failed == loop[g] = "broke" /\ g \notin aborted /\ ~dropped /\ generation = g IN
  /\ Exits(g)
  /\ loop' = [loop EXCEPT ![g] = "done"]
  /\ controller' = IF controller = g THEN None ELSE controller
  /\ active' = IF generation = g THEN None ELSE active
  /\ retry' = IF failed /\ budget[g] > 0 THEN g ELSE retry
  /\ gaveUp' = (gaveUp \/ (failed /\ budget[g] = 0))
  /\ UNCHANGED <<link, cached, generation, waits, budget, aborted, dropped,
                 monVars, wire, serverVars>>

RetryFires ==
  /\ retry # None
  /\ UNCHANGED <<link, dropped, monVars, serverVars>>
  /\ SubscribeWith(budget[retry] - 1, gaveUp)

-----------------------------------------------------------------------------
(***************************************************************************)
(* What the client does with them.                                         *)
(***************************************************************************)

\* orpc's close listener: every call of the connection is rejected.
RejectCalls ==
  loop' = [g \in Gens |-> CASE loop[g] = "calling"  -> "broke"
                            [] loop[g] = "watching" -> "over"
                            [] OTHER                -> loop[g]]

\* What close() of the wrapper does to its calls: between two attempts there is
\* nothing to close, and no event.
CloseWrapper == RejectCalls \/ (link = "down" /\ UNCHANGED loop)

\* The server's side of a connection ends with it.
ConnectionEnds ==
  /\ wire' = <<>>
  /\ stream' = [g \in Gens |-> IF stream[g] = "none" THEN "none" ELSE "ended"]
  /\ serving' = None
  /\ UNCHANGED superseded

\* onOpen: the public subscribe().
Open ==
  /\ link = "down"
  /\ generation + 1 + Retries <= MaxGen
  /\ link' = "up"
  /\ dropped' = FALSE
  /\ SubscribeWith(Retries, FALSE)
  /\ UNCHANGED <<monVars, serverVars>>

\* onClose: drop() the subscriber, stop the monitor.
Close ==
  /\ link \in {"up", "half"}
  /\ link' = "down"
  /\ RejectCalls
  /\ ConnectionEnds
  /\ dropped' = TRUE
  /\ retry' = None
  /\ controller' = None
  /\ polling' = FALSE
  /\ UNCHANGED <<cached, generation, waits, budget, aborted, active, gaveUp,
                 fired, overdue>>

\* An attempt of partysocket fails: a close event as well, but what was sent
\* meanwhile stays queued for the next attempt.
AttemptFails ==
  /\ link = "down"
  /\ RejectCalls
  /\ dropped' = TRUE
  /\ retry' = None
  /\ controller' = None
  /\ polling' = FALSE
  /\ UNCHANGED <<link, cached, generation, waits, budget, aborted, active, gaveUp,
                 fired, overdue, wire, serverVars>>

\* swapSocket: abort() the subscriber, stop the monitor, forget the link, close.
Swap ==
  /\ link # "gone"
  /\ link' = "down"
  /\ CloseWrapper
  /\ ConnectionEnds
  /\ cached' = FALSE
  /\ aborted' = aborted \cup ({controller} \ {None})
  /\ retry' = None
  /\ controller' = None
  /\ polling' = FALSE
  /\ UNCHANGED <<generation, waits, budget, active, dropped, gaveUp, fired,
                 overdue>>

\* Mutant: a pending retry survives.
TearDownKeepsRetry ==
  /\ link # "gone"
  /\ link' = "gone"
  /\ CloseWrapper
  /\ ConnectionEnds
  /\ cached' = FALSE
  /\ dropped' = TRUE
  /\ controller' = None
  /\ polling' = FALSE
  /\ UNCHANGED <<retry, generation, waits, budget, aborted, active, gaveUp, fired,
                 overdue>>

\* dispose(), a kick and the terminal failure: stop the monitor, forget the
\* link, close, drop() the subscriber.
TearDown ==
  /\ link # "gone"
  /\ link' = "gone"
  /\ CloseWrapper
  /\ ConnectionEnds
  /\ cached' = FALSE
  /\ dropped' = TRUE
  /\ retry' = None
  /\ controller' = None
  /\ polling' = FALSE
  /\ UNCHANGED <<generation, waits, budget, aborted, active, gaveUp, fired,
                 overdue>>

\* The link dies without a close event.
Dies ==
  /\ link = "up"
  /\ link' = "half"
  /\ UNCHANGED <<cached, subVars, monVars, wire, serverVars>>

-----------------------------------------------------------------------------
(***************************************************************************)
(* The stream and the publisher.                                           *)
(***************************************************************************)
Arrives(kind) == wire # <<>> /\ Head(wire).kind = kind /\ link = "up"

\* HeartbeatPublisher.subscribe: last wins per connection.
ServerSubscribes ==
  LET g == Head(wire).gen IN
  /\ Arrives("call")
  /\ wire' = Tail(wire)
  /\ stream' = [stream EXCEPT ![g] = "config"]
  /\ serving' = g
  /\ superseded' = IF serving # None /\ stream[serving] # "ended"
                   THEN superseded \cup {serving} ELSE superseded
  /\ UNCHANGED <<link, cached, subVars, monVars>>

\* The call fails before any event: no such procedure, or a throw.
ServerRefuses ==
  LET g == Head(wire).gen IN
  /\ Arrives("call")
  /\ wire' = Tail(wire)
  /\ stream' = [stream EXCEPT ![g] = "ended"]
  /\ loop' = [loop EXCEPT ![g] = IF @ = "calling" THEN "broke" ELSE @]
  /\ UNCHANGED <<link, cached, generation, waits, budget, aborted, controller,
                 active, dropped, retry, gaveUp, monVars, serving, superseded>>

\* The transport's signal ends the generator wherever it is parked.
ServerAborts ==
  LET g == Head(wire).gen IN
  /\ Arrives("abort")
  /\ wire' = Tail(wire)
  /\ stream' = [stream EXCEPT ![g] = IF @ = "none" THEN "none" ELSE "ended"]
  /\ UNCHANGED <<link, cached, subVars, monVars, serving, superseded>>

\* Past the config event: attach to the fan-out, unless superseded meanwhile.
ServerAttaches(g) ==
  /\ stream[g] = "config"
  /\ stream' = [stream EXCEPT ![g] = IF g \in superseded THEN "ended" ELSE "attached"]
  /\ UNCHANGED <<link, cached, subVars, monVars, wire, serving, superseded>>

\* A superseded or failing generator detaches and ends.
ServerDetaches(g) ==
  /\ stream[g] = "attached"
  /\ stream' = [stream EXCEPT ![g] = "ended"]
  /\ UNCHANGED <<link, cached, subVars, monVars, wire, serving, superseded>>

\* The first event of a stream configures and starts the monitor; an aborted
\* loop breaks instead (LoopExits).
ConfigArrives(g) ==
  /\ link = "up"
  /\ stream[g] # "none"
  /\ loop[g] = "calling"
  /\ g \notin aborted
  /\ loop' = [loop EXCEPT ![g] = "watching"]
  /\ polling' = TRUE
  /\ fired' = FALSE
  /\ overdue' = FALSE
  /\ UNCHANGED <<link, cached, generation, waits, budget, aborted, controller,
                 active, dropped, retry, gaveUp, wire, serverVars>>

PingArrives(g) ==
  /\ link = "up"
  /\ stream[g] = "attached"
  /\ loop[g] = "watching"
  /\ g \notin aborted
  /\ fired' = FALSE
  /\ overdue' = FALSE
  /\ UNCHANGED <<link, cached, subVars, polling, wire, serverVars>>

\* The end of the stream reaches the loop.
StreamEnds(g) ==
  /\ link = "up"
  /\ stream[g] = "ended"
  /\ loop[g] = "watching"
  /\ loop' = [loop EXCEPT ![g] = "over"]
  /\ UNCHANGED <<link, cached, generation, waits, budget, aborted, controller,
                 active, dropped, retry, gaveUp, monVars, wire, serverVars>>

-----------------------------------------------------------------------------
(***************************************************************************)
(* The monitor.                                                            *)
(***************************************************************************)

\* No ping for intervalMs + timeoutMs, although a healthy link delivers one
\* every intervalMs.
DeadlinePasses ==
  /\ ~overdue
  /\ ~ \E g \in Gens : link = "up" /\ loop[g] = "watching" /\ stream[g] = "attached"
  /\ overdue' = TRUE
  /\ UNCHANGED <<link, cached, subVars, polling, fired, wire, serverVars>>

\* poll(): once per deadline the callback asks for a reconnect.
Poll ==
  /\ polling
  /\ overdue
  /\ ~fired
  /\ fired' = TRUE
  /\ UNCHANGED <<link, cached, subVars, polling, overdue, wire, serverVars>>

-----------------------------------------------------------------------------
Subscriber == \/ \E g \in Gens : LeaveBarrier(g) \/ LoopExits(g)
              \/ RetryFires
Client     == Open \/ Close \/ AttemptFails \/ Swap \/ TearDown \/ Dies
Server     == \/ ServerSubscribes \/ ServerRefuses \/ ServerAborts
              \/ \E g \in Gens : ServerAttaches(g) \/ ServerDetaches(g)
Stream     == \E g \in Gens : ConfigArrives(g) \/ PingArrives(g) \/ StreamEnds(g)

Next == Subscriber \/ Client \/ Server \/ Stream \/ DeadlinePasses \/ Poll

Spec == Init /\ [][Next]_vars

\* Promises and timers of the client come due, a server that can be reached
\* answers, time passes, and the reconnect a timeout asks for swaps sockets.
Fairness ==
  /\ WF_vars(Subscriber)
  /\ WF_vars(ServerSubscribes \/ ServerRefuses \/ ServerAborts)
  /\ \A g \in Gens : WF_vars(ConfigArrives(g)) /\ WF_vars(StreamEnds(g))
  /\ WF_vars(DeadlinePasses)
  /\ WF_vars(Poll)
  /\ WF_vars(fired /\ Swap)

FairSpec == Spec /\ Fairness

-----------------------------------------------------------------------------
(***************************************************************************)
(* Properties.                                                             *)
(***************************************************************************)
LoopStates == {"none", "barrier", "calling", "watching", "broke", "over", "done"}

\* The variables keep their types.
TypeOK ==
  /\ link \in {"down", "up", "half", "gone"}
  /\ {cached, dropped, gaveUp, polling, fired, overdue} \subseteq BOOLEAN
  /\ {generation, controller, active, retry, serving} \subseteq Gens \cup {None}
  /\ loop \in [Gens -> LoopStates]
  /\ waits \in [Gens -> Gens \cup {None}]
  /\ budget \in [Gens -> 0 .. Retries]
  /\ aborted \subseteq Gens
  /\ wire \in Seq([kind : {"call", "abort"}, gen : Gens])
  /\ stream \in [Gens -> {"none", "config", "attached", "ended"}]
  /\ superseded \subseteq Gens

\* One loop at a time may drive the monitor, and it is the one abort() and
\* drop() reach, however calls, teardowns and the barrier interleave (Bug 18,
\* subscriber.ts:150-165), but for a call that still waited for a connection when
\* its client died; so the server's last-wins bound never hits the library's own
\* client (publisher.ts:147-157).
OneConsumer ==
  /\ TypeOK
  /\ \A g \in Gens :
       /\ loop[g] \in {"calling", "watching"} /\ g \notin aborted =>
            controller = g \/ (link = "gone" /\ loop[g] = "calling")
       /\ g \in superseded => loop[g] # "watching" \/ g \in aborted

\* No timer outlives what it is for: the watchdog its connection (or it would
\* ask for a reconnect of a successor), a retry the newest call and a client
\* that still wants a heartbeat (subscriber.ts:166-174, :380-391).
NoStrayTimer ==
  /\ polling => link \in {"up", "half"}
  /\ retry # None => retry = generation /\ link # "gone"

\* An open connection is watched in the end, unless the stream failed as often
\* as the budget allows; and a watched link that died is given up.
WatchedOrGivenUp ==
  /\ link = "up" ~> polling \/ gaveUp \/ link # "up"
  /\ link = "half" /\ polling ~> link # "half"
=============================================================================
