---------------------------- MODULE ReactAdapter ----------------------------
(***************************************************************************)
(* orpc-ws-react: one <OrpcWs> provider, the components below it that      *)
(* implement a server-to-client procedure (useServerHandler), and one that *)
(* consumes a stream (useWsSubscription).  Of the client only its          *)
(* connection is modelled: whether it has one, and what that means for the *)
(* calls over it.                                                          *)
(*                                                                         *)
(* React runs an effect's cleanup and its next setup in one task, and      *)
(* re-renders a subscriber of the connection state before the next task.   *)
(* So the tasks of the page (events of the socket, mounts, clicks) wait    *)
(* until effects, deliveries to the stream's consumer and the queued       *)
(* microtasks are through; those come in any order.                        *)
(***************************************************************************)
EXTENDS Naturals

CONSTANTS
  MaxRuns,      \* bound: subscriptions
  MaxRemounts,  \* bound: provider cleanups waiting for their microtask
  Components,   \* components that implement the same server-to-client procedure
  NoComponent   \* the registry has no entry

ASSUME ConstantsAssumption ==
  /\ MaxRuns \in Nat \ {0} /\ MaxRemounts \in Nat \ {0}
  /\ NoComponent \notin Components

Runs  == 1 .. MaxRuns
NoRun == 0

VARIABLES
  connection,      \* the client's: "none", "down" (reconnecting), "open", "closed"
  provider,        \* the effect of <OrpcWs>: "new", "mounted", "unmounted"
  pendingDispose,  \* pendingDisposeRef
  disposals,       \* queued microtasks of its cleanups
  disposed,        \* history: the provider's dispose() ran
  gated,           \* a fallback is shown until the first connection (fixed)
  hasConnectedOnce,\* the latch of that gate
  mounted,         \* components with a registered handler
  registry,        \* the registry's entry for the procedure
  newest,          \* history: who registered last
  hook,            \* useWsSubscription: "off", "rendered" (no effect yet), "on",
                   \* "cleaned" (between cleanup and setup)
  enabled,         \* options.enabled
  seen,            \* connected and enabled, as last rendered
  runs,            \* subscriptions so far
  run,             \* the subscription of the current effect, NoRun if it has none
  status,          \* the status the hook returns
  stream,          \* each subscription's call: "none", "asked" (the selector's
                   \* promise), "live" (an iterator), "ended", "failed", "lost",
                   \* "aborted"
  settled          \* what each has settled with and not delivered yet

providerVars == <<provider, pendingDispose, disposals, disposed, gated, hasConnectedOnce>>
treeVars     == <<mounted, registry, newest>>
streamVars   == <<stream, settled>>
hookVars     == <<hook, enabled, seen, runs, run, status>>
vars         == <<connection, providerVars, treeVars, streamVars, hookVars>>

Init ==
  /\ connection = "none"
  /\ provider = "new"
  /\ pendingDispose = FALSE
  /\ disposals = 0
  /\ disposed = FALSE
  /\ gated \in BOOLEAN
  /\ hasConnectedOnce = FALSE
  /\ mounted = {}
  /\ registry = NoComponent /\ newest = NoComponent
  /\ hook = "off"
  /\ enabled = TRUE
  /\ seen = FALSE
  /\ runs = 0
  /\ run = NoRun
  /\ status = "idle"
  /\ stream = [k \in Runs |-> "none"]
  /\ settled = [k \in Runs |-> "none"]

\* useConnectionState() === "connected"; with it the subscription is wanted.
Connected == connection = "open"
Wanted    == Connected /\ enabled
Active == {k \in Runs : stream[k] \in {"asked", "live"}}

\* A task of the page may start.
Task ==
  /\ disposals = 0
  /\ hook # "cleaned"
  /\ hook = "on" => seen = Wanted
  /\ \A k \in Runs : settled[k] = "none"

-----------------------------------------------------------------------------
(***************************************************************************)
(* The connection, and what its events settle.                             *)
(***************************************************************************)

\* Every call over a connection that closes ends with an AbortError.
LoseStreams ==
  /\ stream' = [k \in Runs |-> IF k \in Active THEN "lost" ELSE stream[k]]
  /\ settled' = [k \in Runs |-> IF k \in Active THEN "lost" ELSE settled[k]]

\* The connection opens; the provider renders its children from now on.
Opens ==
  /\ Task
  /\ connection = "down"
  /\ connection' = "open"
  /\ hasConnectedOnce' = TRUE
  /\ UNCHANGED <<provider, pendingDispose, disposals, disposed, gated, treeVars,
                 streamVars, hookVars>>

\* It drops and the client reconnects, or the client is kicked or logged out.
Drops(to) ==
  /\ Task
  /\ connection \in {"down", "open"} \ {to}
  /\ connection' = to
  /\ LoseStreams
  /\ UNCHANGED <<providerVars, treeVars, hookVars>>

\* A response settles the pull of a call's consumer.
Responds(k, with) ==
  /\ Task
  /\ connection = "open"
  /\ \/ stream[k] = "asked" /\ with \in {"iterator", "fail"}
     \/ stream[k] = "live" /\ with \in {"event", "end", "fail"}
  /\ stream' = [stream EXCEPT ![k] = CASE with = "fail" -> "failed"
                                       [] with = "end"  -> "ended"
                                       [] OTHER         -> "live"]
  /\ settled' = [settled EXCEPT ![k] = with]
  /\ UNCHANGED <<connection, providerVars, treeVars, hookVars>>

-----------------------------------------------------------------------------
(***************************************************************************)
(* <OrpcWs>.                                                               *)
(***************************************************************************)

\* The provider's effect: connect().
ProviderMounts ==
  /\ Task
  /\ provider = "new"
  /\ provider' = "mounted"
  /\ pendingDispose' = FALSE
  /\ connection' = "down"
  /\ UNCHANGED <<disposals, disposed, gated, hasConnectedOnce, treeVars, streamVars,
                 hookVars>>

\* StrictMode: cleanup and setup in one task; connect() is idempotent.
ProviderRemounts ==
  /\ hook # "cleaned"
  /\ provider = "mounted"
  /\ disposals < MaxRemounts
  /\ disposals' = disposals + 1
  /\ pendingDispose' = FALSE
  /\ UNCHANGED <<connection, provider, disposed, gated, hasConnectedOnce, treeVars,
                 streamVars, hookVars>>

\* A real unmount, after the cleanups of the children: those of the handlers
\* clear the registry, the stream's must have come before.
ProviderUnmounts ==
  /\ provider = "mounted"
  /\ hook = "off"
  /\ disposals < MaxRemounts
  /\ provider' = "unmounted"
  /\ disposals' = disposals + 1
  /\ pendingDispose' = TRUE
  /\ mounted' = {}
  /\ registry' = IF registry \in mounted THEN NoComponent ELSE registry
  /\ UNCHANGED <<connection, disposed, gated, hasConnectedOnce, newest, streamVars,
                 hookVars>>

\* client.dispose().
DisposesClient ==
  /\ disposed' = TRUE
  /\ connection' = "closed"
  /\ LoseStreams

\* Mutant: the queued dispose() cannot be cancelled.
DisposeRunsAnyway ==
  /\ disposals > 0
  /\ disposals' = disposals - 1
  /\ pendingDispose' = FALSE
  /\ DisposesClient
  /\ UNCHANGED <<provider, gated, hasConnectedOnce, treeVars, hookVars>>

\* The microtask of a cleanup: dispose(), unless a setup cancelled it.
DisposeRuns ==
  /\ disposals > 0
  /\ disposals' = disposals - 1
  /\ pendingDispose' = FALSE
  /\ IF pendingDispose THEN DisposesClient
     ELSE UNCHANGED <<disposed, connection, streamVars>>
  /\ UNCHANGED <<provider, gated, hasConnectedOnce, treeVars, hookVars>>

-----------------------------------------------------------------------------
(***************************************************************************)
(* useServerHandler: last registration wins, disposal is by identity.      *)
(* Children are mounted once the fallback gate is open, and then stay; with *)
(* no fallback their effects even run before the provider's.               *)
(***************************************************************************)
Children == IF gated THEN provider = "mounted" /\ hasConnectedOnce
            ELSE provider # "unmounted"

\* What a server-to-client call reaches: the delegating router looks the
\* handler up when the call arrives, or answers NOT_FOUND.
NotFound == NoComponent
Answerer == IF registry \in Components THEN registry ELSE NotFound

\* register(): whoever was there is overwritten.
SetsHandler(c) == registry' = c /\ newest' = c

Registers(c) ==
  /\ Task
  /\ Children
  /\ c \notin mounted
  /\ mounted' = mounted \cup {c}
  /\ SetsHandler(c)
  /\ UNCHANGED <<connection, providerVars, streamVars, hookVars>>

\* Mutant: whoever unmounts clears the name.
UnregistersAny(c) ==
  /\ Task
  /\ c \in mounted
  /\ mounted' = mounted \ {c}
  /\ registry' = NoComponent
  /\ UNCHANGED <<connection, providerVars, newest, streamVars, hookVars>>

Unregisters(c) ==
  /\ Task
  /\ c \in mounted
  /\ mounted' = mounted \ {c}
  /\ registry' = IF registry = c THEN NoComponent ELSE registry
  /\ UNCHANGED <<connection, providerVars, newest, streamVars, hookVars>>

-----------------------------------------------------------------------------
(***************************************************************************)
(* useWsSubscription.                                                      *)
(***************************************************************************)

\* First render; its effect comes in a later task.
HookRenders ==
  /\ Task
  /\ Children
  /\ hook = "off"
  /\ hook' = "rendered"
  /\ seen' = Wanted
  /\ UNCHANGED <<connection, providerVars, treeVars, streamVars, enabled, runs, run,
                 status>>

\* subscribeRef.current(client.rpc, signal): a call on an open connection.  On
\* one that is down the link is not ready, or an older link takes the call.
Subscribes ==
  /\ runs < MaxRuns
  /\ runs' = runs + 1
  /\ run' = runs'
  /\ \/ connection \in {"open", "down"}
        /\ stream' = [stream EXCEPT ![runs'] = "asked"] /\ UNCHANGED settled
     \/ connection # "open"
        /\ stream' = [stream EXCEPT ![runs'] = "lost"]
        /\ settled' = [settled EXCEPT ![runs'] = "lost"]

\* The effect: idle, or a new run that subscribes.
HookSetsUp ==
  /\ hook \in {"rendered", "cleaned"}
  /\ hook' = "on"
  /\ status' = IF seen THEN "active" ELSE "idle"
  /\ IF seen THEN Subscribes ELSE UNCHANGED <<runs, run, streamVars>>
  /\ UNCHANGED <<connection, providerVars, treeVars, enabled, seen>>

\* ac.abort() and cancel(): the call ends here unless it already has.
HookAborts ==
  /\ run' = NoRun
  /\ stream' = [k \in Runs |-> IF k = run /\ k \in Active THEN "aborted" ELSE stream[k]]
  /\ UNCHANGED <<settled, runs>>

\* A render with other dependencies: first the cleanup.
HookCleansUp ==
  /\ hook = "on"
  /\ seen # Wanted
  /\ seen' = Wanted
  /\ hook' = "cleaned"
  /\ HookAborts
  /\ UNCHANGED <<connection, providerVars, treeVars, enabled, status>>

HookUnmounts ==
  /\ hook \in {"rendered", "on"}
  /\ hook' = "off"
  /\ seen' = FALSE
  /\ status' = "idle"
  /\ HookAborts
  /\ UNCHANGED <<connection, providerVars, treeVars, enabled>>

\* The consumer flips options.enabled, also from a callback.
Toggles ==
  /\ hook = "on"
  /\ enabled' = ~enabled
  /\ UNCHANGED <<connection, providerVars, treeVars, streamVars, hook, seen, runs,
                 run, status>>

\* The callbacks of consumeEventIterator, and the await before them; neither a
\* connection loss nor a link that is not ready changes the status.
StatusAfter(with) == CASE with = "event" -> "active"
                       [] with = "end"   -> "completed"
                       [] with = "fail"  -> "error"
                       [] OTHER          -> status

\* Mutant: the callbacks do not look at their run's signal.
DeliversToAny(k) ==
  /\ settled[k] # "none"
  /\ settled' = [settled EXCEPT ![k] = "none"]
  /\ status' = StatusAfter(settled[k])
  /\ UNCHANGED <<connection, providerVars, treeVars, stream, hook, enabled, seen,
                 runs, run>>

\* A settled pull reaches its consumer; a run that was torn down ignores it.
Delivers(k) ==
  /\ settled[k] # "none"
  /\ settled' = [settled EXCEPT ![k] = "none"]
  /\ status' = IF k = run THEN StatusAfter(settled[k]) ELSE status
  /\ UNCHANGED <<connection, providerVars, treeVars, stream, hook, enabled, seen,
                 runs, run>>

-----------------------------------------------------------------------------
Events   == \/ Opens \/ Drops("down") \/ Drops("closed")
            \/ \E k \in Runs, with \in {"iterator", "event", "end", "fail"} :
                 Responds(k, with)
Provider == ProviderMounts \/ ProviderRemounts \/ ProviderUnmounts \/ DisposeRuns
Handlers == \E c \in Components : Registers(c) \/ Unregisters(c)
Hook     == \/ HookRenders \/ HookSetsUp \/ HookCleansUp \/ HookUnmounts \/ Toggles
            \/ \E k \in Runs : Delivers(k)

Next == Events \/ Provider \/ Handlers \/ Hook

Spec == Init /\ [][Next]_vars

-----------------------------------------------------------------------------
(***************************************************************************)
(* Properties.                                                             *)
(***************************************************************************)

\* The variables keep their types.
TypeOK ==
  /\ connection \in {"none", "down", "open", "closed"}
  /\ provider \in {"new", "mounted", "unmounted"}
  /\ {pendingDispose, disposed, gated, hasConnectedOnce, enabled, seen} \subseteq BOOLEAN
  /\ disposals \in 0 .. MaxRemounts
  /\ mounted \subseteq Components
  /\ {registry, newest} \subseteq Components \cup {NoComponent}
  /\ hook \in {"off", "rendered", "on", "cleaned"}
  /\ runs \in 0 .. MaxRuns
  /\ run \in Runs \cup {NoRun}
  /\ status \in {"idle", "active", "completed", "error"}
  /\ stream \in [Runs -> {"none", "asked", "live", "ended", "failed", "lost", "aborted"}]
  /\ settled \in [Runs -> {"none", "iterator", "event", "end", "fail", "lost"}]

\* What the hook shows is the fate of its current subscription, whatever late
\* deliveries, aborts, reconnects and re-renders did in between, and no stream
\* is left behind (use-ws-subscription.ts:139-263).
HookIsCurrent ==
  /\ TypeOK
  /\ Task =>
    /\ hook = "on" =>
         CASE status = "idle"      -> ~Wanted /\ run = NoRun
           [] status = "active"    -> run # NoRun /\ run \in Active
           [] status = "completed" -> run # NoRun /\ stream[run] = "ended"
           [] status = "error"     -> run # NoRun /\ stream[run] = "failed"
    /\ Active \subseteq {run}

\* While the provider is mounted its client is not disposed, StrictMode or not;
\* once it is not, the client holds no connection (orpc-ws.tsx:271-312).
ProviderOwnsClient ==
  disposals = 0 =>
    /\ provider = "mounted" => ~disposed
    /\ provider = "unmounted" => disposed /\ connection = "closed"

\* The last registrant answers the server while it is mounted, whoever comes and
\* goes around it; once it is gone nobody does, older ones that are still mounted
\* included (orpc-ws.tsx:236-258).
LastRegistrantAnswers ==
  Answerer = IF newest \in mounted THEN newest ELSE NotFound
=============================================================================
