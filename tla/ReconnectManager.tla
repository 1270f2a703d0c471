-------------------------- MODULE ReconnectManager --------------------------
(***************************************************************************)
(* The reconnect orchestrator of orpc-ws-client: ReconnectManager, and the *)
(* single-flight refresh of the TokenRefreshHandler it drives.             *)
(*                                                                         *)
(* The manager owns a debounce timer, a jitter timer, a run mutex with one *)
(* trailing rerun, the storm window shared by every refresh trigger, and   *)
(* the terminal latch.  Time is kept only as far as the code looks at it:  *)
(* inWindow says whether now - lastRefreshAttemptedAt is smaller than      *)
(* minRefreshIntervalMs.                                                   *)
(*                                                                         *)
(* JavaScript runs one task at a time and drains the continuations of      *)
(* settled promises before the next task.  Quiet says that no continuation *)
(* is queued: timers, socket events and settling promises need it, calls   *)
(* of the consumer do not.                                                 *)
(***************************************************************************)
EXTENDS Naturals

CONSTANT
  Calls        \* identities of reconnect() promises (resolvers)

VARIABLES
  canRefresh,       \* fixed: FALSE without a tokenProvider (cookie auth)
  dead,             \* the composition root's isDead()
  disposed,         \* dispose() was called
  terminalFired,    \* single-fire latch of fireTerminalAuthFailure
  debounceArmed,    \* reconnectDebounceTimer # null
  pending,          \* pendingReconnectResolvers
  phase,            \* how far the runReconnect that holds the mutex has come
  runWaiters,       \* the resolvers that run will settle
  trailing,         \* trailingRerunRequested
  trailingWaiters,  \* trailingRerunResolvers
  inWindow,         \* now - lastRefreshAttemptedAt < minRefreshIntervalMs
  lastWasAuth,      \* lastRefreshWasAuthRecovery
  memo,             \* refreshInFlight # null
  refresh,          \* the provider's refresh(): "inflight", or its outcome until
                    \* every awaiter ran
  authWait,         \* a tryAuthRecovery awaits refreshAndReconnect
  served,           \* history: calls for which a run began after the call
  burst             \* history: refresh() calls since the window last expired

waiterVars == <<pending, runWaiters, trailingWaiters>>
runVars    == <<phase, trailing, runWaiters, trailingWaiters>>
stormVars  == <<inWindow, lastWasAuth>>
flightVars == <<refresh, memo, authWait>>
mgrVars    == <<disposed, terminalFired, debounceArmed, pending, runVars,
                stormVars, flightVars>>
vars       == <<canRefresh, dead, mgrVars, served, burst>>

Triggers == {"auth-close", "pre-open-1000"}

BurstCap == 3   \* the history counter burst stops here

(***************************************************************************)
(* Unresolved reconnect() promises.                                        *)
(***************************************************************************)
Waiting == pending \cup runWaiters \cup trailingWaiters

Stopped == disposed \/ terminalFired \/ dead

Quiet == phase # "finish" /\ refresh \notin {"ok", "failed"}

Init ==
  /\ canRefresh \in BOOLEAN
  /\ dead = FALSE
  /\ disposed = FALSE
  /\ terminalFired = FALSE
  /\ debounceArmed = FALSE
  /\ pending = {}
  /\ phase = "idle"
  /\ runWaiters = {}
  /\ trailing = FALSE
  /\ trailingWaiters = {}
  /\ inWindow = FALSE
  /\ lastWasAuth = FALSE
  /\ refresh = "none"
  /\ memo = FALSE
  /\ authWait = FALSE
  /\ served = {}
  /\ burst = 0

-----------------------------------------------------------------------------
(***************************************************************************)
(* The single flight.                                                      *)
(***************************************************************************)

\* refreshTokenOnce: join the call the memo names, or make one and remember it.
RefreshTokenOnce ==
  /\ refresh' = IF memo THEN refresh ELSE "inflight"
  /\ memo' = TRUE

\* Mutant: the memo is cleared by then(), not by finally(): a failed call stays.
RefreshSettlesKeepingFailure(outcome) ==
  /\ refresh = "inflight"
  /\ Quiet
  /\ refresh' = outcome
  /\ memo' = (outcome = "failed")
  /\ UNCHANGED <<disposed, terminalFired, debounceArmed, pending, runVars,
                 stormVars, authWait>>

\* The consumer's refresh() settles with a token ("ok") or with null or a
\* rejection ("failed"); the memo is cleared and the awaiters are queued.
RefreshSettles(outcome) ==
  /\ refresh = "inflight"
  /\ Quiet
  /\ refresh' = outcome
  /\ memo' = FALSE
  /\ UNCHANGED <<disposed, terminalFired, debounceArmed, pending, runVars,
                 stormVars, authWait>>

-----------------------------------------------------------------------------
(***************************************************************************)
(* reconnect(): debounce, jitter, mutex, trailing rerun.                   *)
(***************************************************************************)

\* A stopped manager resolves the promise at once; otherwise the debounce
\* timer is (re)armed and the resolvers ws join the pending ones.
Reconnect(ws) ==
  /\ IF Stopped
     THEN UNCHANGED <<debounceArmed, pending>>
     ELSE /\ debounceArmed' = TRUE
          /\ pending' = pending \cup ws
  /\ UNCHANGED <<disposed, terminalFired, runVars, stormVars, flightVars>>

\* Mutant: a trigger that finds a run in flight joins it instead of asking for
\* a rerun (NFI-5).
DebounceFiresJoinsRun ==
  /\ debounceArmed
  /\ Quiet
  /\ debounceArmed' = FALSE
  /\ pending' = {}
  /\ IF Stopped
     THEN UNCHANGED <<phase, runWaiters>>
     ELSE /\ phase' = IF phase = "idle" THEN "jitter" ELSE phase
          /\ runWaiters' = runWaiters \cup pending
  /\ UNCHANGED <<disposed, terminalFired, trailing, trailingWaiters, stormVars,
                 flightVars>>

\* The debounce timer hands the pending resolvers to runReconnect, which
\* settles them (stopped), asks the run in flight for a trailing rerun, or
\* takes the mutex and begins its jitter delay.
DebounceFires ==
  /\ debounceArmed
  /\ Quiet
  /\ debounceArmed' = FALSE
  /\ pending' = {}
  /\ \/ /\ Stopped
        /\ UNCHANGED runVars
     \/ /\ ~Stopped
        /\ phase # "idle"
        /\ trailing' = TRUE
        /\ trailingWaiters' = trailingWaiters \cup pending
        /\ UNCHANGED <<phase, runWaiters>>
     \/ /\ ~Stopped
        /\ phase = "idle"
        /\ phase' = "jitter"
        /\ runWaiters' = pending
        /\ UNCHANGED <<trailing, trailingWaiters>>
  /\ UNCHANGED <<disposed, terminalFired, stormVars, flightVars>>

\* After the jitter delay a stopped manager gives the run up.
JitterAborts ==
  /\ phase = "jitter"
  /\ Quiet
  /\ Stopped
  /\ phase' = "finish"
  /\ UNCHANGED <<disposed, terminalFired, debounceArmed, waiterVars, trailing,
                 stormVars, flightVars>>

\* No tokenProvider, or a refresh was attempted within the window: the run
\* rebuilds the socket with the current token (the swap is the client's part).
JitterRebuilds ==
  /\ phase = "jitter"
  /\ Quiet
  /\ ~Stopped
  /\ ~canRefresh \/ inWindow
  /\ phase' = "finish"
  /\ UNCHANGED <<disposed, terminalFired, debounceArmed, waiterVars, trailing,
                 stormVars, flightVars>>

\* Mutant: the window is not consulted.
JitterRefreshesAnyway ==
  /\ phase = "jitter"
  /\ Quiet
  /\ ~Stopped
  /\ canRefresh
  /\ phase' = "refresh"
  /\ inWindow' = TRUE
  /\ lastWasAuth' = FALSE
  /\ RefreshTokenOnce
  /\ UNCHANGED <<disposed, terminalFired, debounceArmed, waiterVars, trailing,
                 authWait>>

\* Otherwise it stamps the window as routine and awaits the single flight.
JitterRefreshes ==
  /\ phase = "jitter"
  /\ Quiet
  /\ ~Stopped
  /\ canRefresh
  /\ ~inWindow
  /\ phase' = "refresh"
  /\ inWindow' = TRUE
  /\ lastWasAuth' = FALSE
  /\ RefreshTokenOnce
  /\ UNCHANGED <<disposed, terminalFired, debounceArmed, waiterVars, trailing,
                 authWait>>

\* Mutant: the rerun is granted to a manager stopped meanwhile.
RunFinallyUnguarded ==
  /\ phase = "finish"
  /\ phase' = IF trailing THEN "jitter" ELSE "idle"
  /\ runWaiters' = IF trailing THEN trailingWaiters ELSE {}
  /\ trailing' = FALSE
  /\ trailingWaiters' = {}
  /\ UNCHANGED <<disposed, terminalFired, debounceArmed, pending, stormVars,
                 flightVars>>

\* Mutant: the rerun is withdrawn, its resolvers are not.
RunFinallyForgets ==
  /\ phase = "finish"
  /\ phase' = "idle"
  /\ runWaiters' = {}
  /\ trailing' = FALSE
  /\ UNCHANGED <<disposed, terminalFired, debounceArmed, pending,
                 trailingWaiters, stormVars, flightVars>>

\* runReconnect's finally: free the mutex, settle the run's waiters, and run
\* once more if a reconnect() landed during the flight.
RunFinally ==
  /\ phase = "finish"
  /\ IF trailing /\ ~Stopped
     THEN /\ phase' = "jitter"
          /\ runWaiters' = trailingWaiters
     ELSE /\ phase' = "idle"
          /\ runWaiters' = {}
  /\ trailing' = FALSE
  /\ trailingWaiters' = {}
  /\ UNCHANGED <<disposed, terminalFired, debounceArmed, pending, stormVars,
                 flightVars>>

-----------------------------------------------------------------------------
(***************************************************************************)
(* tryAuthRecovery() and the single-flight refresh.                        *)
(***************************************************************************)

\* fireTerminalAuthFailure: at most once, and never on a dead client.
FireTerminal == terminalFired' = (terminalFired \/ ~Stopped)

Storm == inWindow /\ lastWasAuth

\* A dead client, a duplicate of the trigger that started the flight, or a
\* pre-open 1000 within the window: nothing to do.
AuthIgnored(trigger) ==
  /\ Stopped \/ memo \/ (Storm /\ trigger = "pre-open-1000")
  /\ UNCHANGED mgrVars

\* Mutant: a pre-open 1000 counts as a rejection (Bug 16).
AuthStormOfAny(trigger) ==
  /\ ~Stopped
  /\ ~memo
  /\ Storm
  /\ FireTerminal
  /\ UNCHANGED <<disposed, debounceArmed, pending, runVars, stormVars,
                 flightVars>>

\* A second explicit rejection within the window of an auth refresh.
AuthStorm(trigger) ==
  /\ ~Stopped
  /\ ~memo
  /\ Storm
  /\ trigger = "auth-close"
  /\ FireTerminal
  /\ UNCHANGED <<disposed, debounceArmed, pending, runVars, stormVars,
                 flightVars>>

\* Stamp the window as an auth recovery and start the refresh.
AuthRefreshes(trigger) ==
  /\ ~Stopped
  /\ ~memo
  /\ ~Storm
  /\ trigger \in Triggers
  /\ inWindow' = TRUE
  /\ lastWasAuth' = TRUE
  /\ RefreshTokenOnce
  /\ authWait' = TRUE
  /\ UNCHANGED <<disposed, terminalFired, debounceArmed, pending, runVars>>

\* The awaiting tryAuthRecovery resumes (with "ok" the client swaps sockets).
AuthResumes ==
  /\ authWait
  /\ refresh \in {"ok", "failed"}
  /\ authWait' = FALSE
  /\ refresh' = IF phase = "refresh" THEN refresh ELSE "none"
  /\ IF refresh = "failed" THEN FireTerminal ELSE UNCHANGED terminalFired
  /\ UNCHANGED <<disposed, debounceArmed, pending, runVars, stormVars, memo>>

\* The awaiting runReconnect resumes (with "ok" the client swaps sockets).
RunResumes ==
  /\ phase = "refresh"
  /\ refresh \in {"ok", "failed"}
  /\ phase' = "finish"
  /\ refresh' = IF authWait THEN refresh ELSE "none"
  /\ IF refresh = "failed" THEN FireTerminal ELSE UNCHANGED terminalFired
  /\ UNCHANGED <<disposed, debounceArmed, waiterVars, trailing, stormVars,
                 memo, authWait>>

-----------------------------------------------------------------------------
\* Mutant: a trailing rerun survives (F5).
DisposeKeepsRerun ==
  /\ ~disposed
  /\ disposed' = TRUE
  /\ debounceArmed' = FALSE
  /\ pending' = {}
  /\ phase' = IF phase = "jitter" THEN "finish" ELSE phase
  /\ UNCHANGED <<terminalFired, runWaiters, trailing, trailingWaiters,
                 stormVars, flightVars>>

\* dispose(): clear both timers (releasing a run in its jitter delay), settle
\* the pending and the trailing resolvers, withdraw the trailing rerun.
Dispose ==
  /\ ~disposed
  /\ disposed' = TRUE
  /\ debounceArmed' = FALSE
  /\ pending' = {}
  /\ phase' = IF phase = "jitter" THEN "finish" ELSE phase
  /\ trailing' = FALSE
  /\ trailingWaiters' = {}
  /\ UNCHANGED <<terminalFired, runWaiters, stormVars, flightVars>>

\* The clock passes lastRefreshAttemptedAt + minRefreshIntervalMs.
WindowExpires ==
  /\ inWindow
  /\ inWindow' = FALSE
  /\ UNCHANGED <<disposed, terminalFired, debounceArmed, pending, runVars,
                 lastWasAuth, flightVars>>

-----------------------------------------------------------------------------
(***************************************************************************)
(* The manager in its environment: any caller in any order, callers that   *)
(* keep the promise and callers that do not, and a client that may die at  *)
(* any step (kicked, terminal) but never comes back.                       *)
(***************************************************************************)
TryAuthRecovery(trigger) ==
  /\ Quiet
  /\ AuthIgnored(trigger) \/ AuthStorm(trigger) \/ AuthRefreshes(trigger)

ManagerStep ==
  \/ \E c \in Calls \ Waiting : Reconnect({c})
  \/ Reconnect({})
  \/ DebounceFires
  \/ JitterAborts
  \/ JitterRebuilds
  \/ JitterRefreshes
  \/ RunFinally
  \/ \E trigger \in Triggers : TryAuthRecovery(trigger)
  \/ \E outcome \in {"ok", "failed"} : RefreshSettles(outcome)
  \/ AuthResumes
  \/ RunResumes
  \/ Dispose
  \/ WindowExpires

ClientMayDie == dead' \in {dead, TRUE}

ManagerNext ==
  \/ ManagerStep /\ ClientMayDie
  \/ UNCHANGED mgrVars /\ ClientMayDie

RunBegins     == phase' = "jitter" /\ phase # "jitter"
FlightBegins  == refresh' = "inflight" /\ refresh # "inflight"
WindowEnds    == inWindow /\ ~inWindow'

\* A call is served once a run begins while it waits; a call issued again is
\* a new promise.
History ==
  /\ served' = (IF RunBegins THEN served \cup Waiting ELSE served)
                 \ (Waiting' \ Waiting)
  /\ burst' = IF WindowEnds THEN 0
              ELSE IF FlightBegins /\ burst < BurstCap THEN burst + 1
              ELSE burst

Next == ManagerNext /\ History /\ UNCHANGED canRefresh

Around == ClientMayDie /\ History /\ UNCHANGED canRefresh

\* Continuations run before anything else.  A due timer and a settling
\* refresh() are tasks of the event loop: continuations and other tasks may run
\* first, again and again, but its queue is served in order, hence SF.  Nothing
\* is assumed of callers, of the clock or of the client's death.
Fairness ==
  /\ SF_vars(DebounceFires /\ Around)
  /\ SF_vars((JitterAborts \/ JitterRebuilds \/ JitterRefreshes) /\ Around)
  /\ WF_vars((RunFinally \/ AuthResumes \/ RunResumes) /\ Around)
  /\ SF_vars((\E outcome \in {"ok", "failed"} : RefreshSettles(outcome))
               /\ Around)

Spec     == Init /\ [][Next]_vars
FairSpec == Spec /\ Fairness

-----------------------------------------------------------------------------
(***************************************************************************)
(* Properties.                                                             *)
(***************************************************************************)

\* The variables keep their types.
TypeOK ==
  /\ canRefresh \in BOOLEAN
  /\ dead \in BOOLEAN
  /\ disposed \in BOOLEAN
  /\ terminalFired \in BOOLEAN
  /\ debounceArmed \in BOOLEAN
  /\ trailing \in BOOLEAN
  /\ inWindow \in BOOLEAN
  /\ lastWasAuth \in BOOLEAN
  /\ memo \in BOOLEAN
  /\ authWait \in BOOLEAN
  /\ phase \in {"idle", "jitter", "refresh", "finish"}
  /\ refresh \in {"none", "inflight", "ok", "failed"}
  /\ pending \subseteq Calls
  /\ runWaiters \subseteq Calls
  /\ trailingWaiters \subseteq Calls
  /\ served \subseteq Calls
  /\ burst \in 0 .. BurstCap

\* No resolver is lost: every unresolved promise is held in exactly one place,
\* and whatever will settle that place is armed (reconnect-manager.ts:173,
\* :188-196: "callers never hang").
NoLostWaiter ==
  /\ pending # {} => debounceArmed
  /\ runWaiters # {} => phase # "idle"
  /\ trailingWaiters # {} => trailing
  /\ trailing => phase # "idle"
  /\ pending \cap runWaiters = {}
  /\ pending \cap trailingWaiters = {}
  /\ runWaiters \cap trailingWaiters = {}

\* The memo is set exactly while a refresh() of the provider runs.  So two never
\* run at once (a rotating provider would revoke the session), and no trigger is
\* dropped as a duplicate of, or answered by, a call that has settled, however it
\* settled (token-refresh-handler.ts:159-169, :215-259; Bug 16, F2).
MemoIsTheFlight == memo <=> refresh = "inflight"

\* dispose() leaves no timer behind, and nothing that could arm one again
\* (F5, reconnect-manager.ts:555-560, :572-586).
DisposedIsQuiet ==
  disposed => /\ ~debounceArmed
              /\ phase # "jitter"
              /\ ~trailing
              /\ pending \cup trailingWaiters = {}

\* A reconnect() promise resolves only if a run began at or after the call, or
\* the manager is stopped (reconnect-manager.ts:515, NFI-5).
ResolvedMeansServed ==
  [][\A c \in Waiting \ Waiting' : c \in served \/ Stopped']_vars

\* The identity provider sees at most two refresh() calls until the window
\* expires: a routine one and the first auth recovery (Bug 16, F2).
AtMostTwoRefreshesPerWindow == burst <= 2

\* A stopped manager starts no run and no refresh, whatever still fires.
StoppedStartsNothing ==
  [][Stopped => ~RunBegins /\ ~FlightBegins]_vars

\* Every reconnect() promise settles, however calls, refreshes, deaths and
\* dispose() interleave, provided the consumer's refresh() settles.
EveryCallSettles == \A c \in Calls : c \in Waiting ~> c \notin Waiting
=============================================================================
