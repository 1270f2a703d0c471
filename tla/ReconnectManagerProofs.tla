------------------------ MODULE ReconnectManagerProofs ------------------------
(***************************************************************************)
(* Proofs about ReconnectManager for every set of callers, with and without *)
(* a token provider.  Every theorem has the same shape: the initial states  *)
(* satisfy the invariant, and each action of the manager preserves it       *)
(* whatever the client around it does (ClientMayDie).                        *)
(***************************************************************************)
EXTENDS ReconnectManager, TLAPS

\* The variables keep their types (the state of ReconnectManager,
\* reconnect-manager.ts:150-247).
THEOREM TypeCorrect == Spec => []TypeOK
<1>1. Init => TypeOK
  <2> SUFFICES ASSUME Init
               PROVE  TypeOK
    OBVIOUS
  <2>1. /\ dead \in BOOLEAN /\ disposed \in BOOLEAN
        /\ terminalFired \in BOOLEAN /\ debounceArmed \in BOOLEAN
        /\ trailing \in BOOLEAN /\ inWindow \in BOOLEAN
        /\ lastWasAuth \in BOOLEAN /\ memo \in BOOLEAN
        /\ authWait \in BOOLEAN
    BY DEF Init
  <2>2. /\ phase \in {"idle", "jitter", "refresh", "finish"}
        /\ refresh \in {"none", "inflight", "ok", "failed"}
    BY DEF Init
  <2>3. /\ pending \subseteq Calls
        /\ runWaiters \subseteq Calls
        /\ trailingWaiters \subseteq Calls
        /\ served \subseteq Calls
    BY DEF Init
  <2>4. burst \in 0 .. BurstCap
    BY DEF Init, BurstCap
  <2>5. canRefresh \in BOOLEAN
    BY DEF Init
  <2> QED
    BY <2>1, <2>2, <2>3, <2>4, <2>5 DEF TypeOK
<1>2. TypeOK /\ [Next]_vars => TypeOK'
  <2> SUFFICES ASSUME TypeOK, [Next]_vars
               PROVE  TypeOK'
    OBVIOUS
  <2> USE DEF TypeOK, mgrVars, runVars, waiterVars, stormVars, flightVars
  <2> DEFINE ManagerTypeOK ==
        /\ disposed \in BOOLEAN
        /\ terminalFired \in BOOLEAN
        /\ debounceArmed \in BOOLEAN
        /\ trailing \in BOOLEAN
        /\ inWindow \in BOOLEAN
        /\ lastWasAuth \in BOOLEAN
        /\ memo \in BOOLEAN
        /\ authWait \in BOOLEAN
        /\ phase \in {"idle", "jitter", "refresh", "finish"}
        /\ refresh \in {"none", "inflight", "ok", "failed"}
        /\ pending \subseteq Calls
        /\ runWaiters \subseteq Calls
        /\ trailingWaiters \subseteq Calls
  <2>1. CASE UNCHANGED vars
    BY <2>1 DEF vars
  <2>2. CASE Next
    <3>1. dead' \in BOOLEAN
      BY <2>2 DEF Next, ManagerNext, ClientMayDie
    <3>2. ManagerTypeOK'
      <4>1. ASSUME NEW c \in Calls \ Waiting, Reconnect({c})
            PROVE  ManagerTypeOK'
        BY <4>1 DEF Reconnect
      <4>2. CASE Reconnect({})
        BY <4>2 DEF Reconnect
      <4>3. CASE DebounceFires
        BY <4>3 DEF DebounceFires
      <4>4. CASE JitterAborts
        BY <4>4 DEF JitterAborts
      <4>5. CASE JitterRebuilds
        BY <4>5 DEF JitterRebuilds
      <4>6. CASE JitterRefreshes
        BY <4>6 DEF JitterRefreshes, RefreshTokenOnce
      <4>7. CASE RunFinally
        BY <4>7 DEF RunFinally
      <4>8. ASSUME NEW trigger \in Triggers, TryAuthRecovery(trigger)
            PROVE  ManagerTypeOK'
        BY <4>8 DEF TryAuthRecovery, AuthIgnored, AuthStorm, AuthRefreshes,
                    RefreshTokenOnce, FireTerminal, Stopped
      <4>9. ASSUME NEW outcome \in {"ok", "failed"}, RefreshSettles(outcome)
            PROVE  ManagerTypeOK'
        BY <4>9 DEF RefreshSettles
      <4>10. CASE AuthResumes
        BY <4>10 DEF AuthResumes, FireTerminal, Stopped
      <4>11. CASE RunResumes
        BY <4>11 DEF RunResumes, FireTerminal, Stopped
      <4>12. CASE Dispose
        BY <4>12 DEF Dispose
      <4>13. CASE WindowExpires
        BY <4>13 DEF WindowExpires
      <4>14. CASE UNCHANGED mgrVars
        BY <4>14
      <4> QED
        BY <2>2, <4>1, <4>2, <4>3, <4>4, <4>5, <4>6, <4>7, <4>8, <4>9, <4>10,
           <4>11, <4>12, <4>13, <4>14 DEF Next, ManagerNext, ManagerStep
    <3>3. served' \subseteq Calls
      BY <2>2, <3>2 DEF Next, History, Waiting
    <3>4. burst' \in 0 .. BurstCap
      BY <2>2 DEF Next, History, BurstCap
    <3>5. canRefresh' \in BOOLEAN
      BY <2>2 DEF Next
    <3> QED
      BY <3>1, <3>2, <3>3, <3>4, <3>5
  <2> QED
    BY <2>1, <2>2
<1> QED
  BY <1>1, <1>2, PTL DEF Spec

\* No resolver is lost: every unresolved promise is held in exactly one place,
\* and the timer, run or rerun that will settle it is armed
\* (reconnect-manager.ts:173, :188-196).  The invariant is inductive.
THEOREM WaitersAreKept == Spec => []NoLostWaiter
<1>1. Init => NoLostWaiter
  BY DEF Init, NoLostWaiter
<1>2. TypeOK /\ NoLostWaiter /\ [Next]_vars => NoLostWaiter'
  <2> SUFFICES ASSUME TypeOK, NoLostWaiter, [Next]_vars
               PROVE  NoLostWaiter'
    OBVIOUS
  <2> USE DEF NoLostWaiter, mgrVars, runVars, waiterVars, stormVars, flightVars
  <2>1. CASE UNCHANGED vars
    BY <2>1 DEF vars
  <2>2. CASE Next
    <3>1. ASSUME NEW c \in Calls \ Waiting, Reconnect({c})
          PROVE  NoLostWaiter'
      BY <3>1 DEF Reconnect, Waiting
    <3>2. CASE Reconnect({})
      BY <3>2 DEF Reconnect
    <3>3. CASE DebounceFires
      BY <3>3 DEF DebounceFires
    <3>4. CASE JitterAborts
      BY <3>4 DEF JitterAborts
    <3>5. CASE JitterRebuilds
      BY <3>5 DEF JitterRebuilds
    <3>6. CASE JitterRefreshes
      BY <3>6 DEF JitterRefreshes
    <3>7. CASE RunFinally
      BY <3>7 DEF RunFinally
    <3>8. ASSUME NEW trigger \in Triggers, TryAuthRecovery(trigger)
          PROVE  NoLostWaiter'
      BY <3>8 DEF TryAuthRecovery, AuthIgnored, AuthStorm, AuthRefreshes
    <3>9. ASSUME NEW outcome \in {"ok", "failed"}, RefreshSettles(outcome)
          PROVE  NoLostWaiter'
      BY <3>9 DEF RefreshSettles
    <3>10. CASE AuthResumes
      BY <3>10 DEF AuthResumes
    <3>11. CASE RunResumes
      BY <3>11 DEF RunResumes
    <3>12. CASE Dispose
      BY <3>12 DEF Dispose
    <3>13. CASE WindowExpires
      BY <3>13 DEF WindowExpires
    <3>14. CASE UNCHANGED mgrVars
      BY <3>14
    <3> QED
      BY <2>2, <3>1, <3>2, <3>3, <3>4, <3>5, <3>6, <3>7, <3>8, <3>9,
         <3>10, <3>11, <3>12, <3>13, <3>14 DEF Next, ManagerNext, ManagerStep
  <2> QED
    BY <2>1, <2>2
<1> QED
  BY <1>1, <1>2, TypeCorrect, PTL DEF Spec

\* The memo of the single flight names a refresh() that still runs, and every
\* one that runs: two never run at once, and nobody joins one that has settled,
\* by success or by failure (token-refresh-handler.ts:159-169, :215-259).
THEOREM FlightIsMemoized == Spec => []MemoIsTheFlight
<1>1. Init => MemoIsTheFlight
  BY DEF Init, MemoIsTheFlight
<1>2. TypeOK /\ MemoIsTheFlight /\ [Next]_vars => MemoIsTheFlight'
  <2> SUFFICES ASSUME TypeOK, MemoIsTheFlight, [Next]_vars
               PROVE  MemoIsTheFlight'
    OBVIOUS
  <2> USE DEF MemoIsTheFlight, TypeOK, mgrVars, runVars, waiterVars, stormVars, flightVars
  <2>1. CASE UNCHANGED vars
    BY <2>1 DEF vars
  <2>2. CASE Next
    <3>1. ASSUME NEW c \in Calls \ Waiting, Reconnect({c})
          PROVE  MemoIsTheFlight'
      BY <3>1 DEF Reconnect
    <3>2. CASE Reconnect({})
      BY <3>2 DEF Reconnect
    <3>3. CASE DebounceFires
      BY <3>3 DEF DebounceFires
    <3>4. CASE JitterAborts
      BY <3>4 DEF JitterAborts
    <3>5. CASE JitterRebuilds
      BY <3>5 DEF JitterRebuilds
    <3>6. CASE JitterRefreshes
      BY <3>6 DEF JitterRefreshes, RefreshTokenOnce
    <3>7. CASE RunFinally
      BY <3>7 DEF RunFinally
    <3>8. ASSUME NEW trigger \in Triggers, TryAuthRecovery(trigger)
          PROVE  MemoIsTheFlight'
      BY <3>8 DEF TryAuthRecovery, AuthIgnored, AuthStorm, AuthRefreshes,
                  RefreshTokenOnce
    <3>9. ASSUME NEW outcome \in {"ok", "failed"}, RefreshSettles(outcome)
          PROVE  MemoIsTheFlight'
      BY <3>9 DEF RefreshSettles
    <3>10. CASE AuthResumes
      BY <3>10 DEF AuthResumes
    <3>11. CASE RunResumes
      BY <3>11 DEF RunResumes
    <3>12. CASE Dispose
      BY <3>12 DEF Dispose
    <3>13. CASE WindowExpires
      BY <3>13 DEF WindowExpires
    <3>14. CASE UNCHANGED mgrVars
      BY <3>14
    <3> QED
      BY <2>2, <3>1, <3>2, <3>3, <3>4, <3>5, <3>6, <3>7, <3>8, <3>9,
         <3>10, <3>11, <3>12, <3>13, <3>14 DEF Next, ManagerNext, ManagerStep
  <2> QED
    BY <2>1, <2>2
<1> QED
  BY <1>1, <1>2, TypeCorrect, PTL DEF Spec

\* dispose() leaves no timer, rerun or waiter of its own behind, and no later
\* step arms one (F5, reconnect-manager.ts:555-599).
THEOREM DisposeIsFinal == Spec => []DisposedIsQuiet
<1>1. Init => DisposedIsQuiet
  BY DEF Init, DisposedIsQuiet
<1>2. TypeOK /\ DisposedIsQuiet /\ [Next]_vars => DisposedIsQuiet'
  <2> SUFFICES ASSUME TypeOK, DisposedIsQuiet, [Next]_vars
               PROVE  DisposedIsQuiet'
    OBVIOUS
  <2> USE DEF DisposedIsQuiet, Stopped, mgrVars, runVars, waiterVars, stormVars, flightVars
  <2>1. CASE UNCHANGED vars
    BY <2>1 DEF vars
  <2>2. CASE Next
    <3>1. ASSUME NEW c \in Calls \ Waiting, Reconnect({c})
          PROVE  DisposedIsQuiet'
      BY <3>1 DEF Reconnect
    <3>2. CASE Reconnect({})
      BY <3>2 DEF Reconnect
    <3>3. CASE DebounceFires
      BY <3>3 DEF DebounceFires
    <3>4. CASE JitterAborts
      BY <3>4 DEF JitterAborts
    <3>5. CASE JitterRebuilds
      BY <3>5 DEF JitterRebuilds
    <3>6. CASE JitterRefreshes
      BY <3>6 DEF JitterRefreshes
    <3>7. CASE RunFinally
      BY <3>7 DEF RunFinally
    <3>8. ASSUME NEW trigger \in Triggers, TryAuthRecovery(trigger)
          PROVE  DisposedIsQuiet'
      BY <3>8 DEF TryAuthRecovery, AuthIgnored, AuthStorm, AuthRefreshes
    <3>9. ASSUME NEW outcome \in {"ok", "failed"}, RefreshSettles(outcome)
          PROVE  DisposedIsQuiet'
      BY <3>9 DEF RefreshSettles
    <3>10. CASE AuthResumes
      BY <3>10 DEF AuthResumes
    <3>11. CASE RunResumes
      BY <3>11 DEF RunResumes
    <3>12. CASE Dispose
      BY <3>12 DEF Dispose
    <3>13. CASE WindowExpires
      BY <3>13 DEF WindowExpires
    <3>14. CASE UNCHANGED mgrVars
      BY <3>14
    <3> QED
      BY <2>2, <3>1, <3>2, <3>3, <3>4, <3>5, <3>6, <3>7, <3>8, <3>9,
         <3>10, <3>11, <3>12, <3>13, <3>14 DEF Next, ManagerNext, ManagerStep
  <2> QED
    BY <2>1, <2>2
<1> QED
  BY <1>1, <1>2, TypeCorrect, PTL DEF Spec

\* A stopped manager starts neither a run nor a refresh, whatever timer,
\* continuation or trigger still fires (reconnect-manager.ts:260-270 and the
\* checks of isStopped() at :329, :516, :615, :646, :743).
THEOREM StoppedIsInert == Spec => StoppedStartsNothing
<1>1. [Next]_vars => [Stopped => ~RunBegins /\ ~FlightBegins]_vars
  <2> SUFFICES ASSUME Next, Stopped
               PROVE  ~RunBegins /\ ~FlightBegins
    OBVIOUS
  <2> USE DEF RunBegins, FlightBegins, mgrVars, runVars, waiterVars, stormVars,
              flightVars
  <2>1. ASSUME NEW c \in Calls \ Waiting, Reconnect({c})
        PROVE  ~RunBegins /\ ~FlightBegins
    BY <2>1 DEF Reconnect
  <2>2. CASE Reconnect({})
    BY <2>2 DEF Reconnect
  <2>3. CASE DebounceFires
    BY <2>3 DEF DebounceFires
  <2>4. CASE JitterAborts
    BY <2>4 DEF JitterAborts
  <2>5. CASE JitterRebuilds
    BY <2>5 DEF JitterRebuilds
  <2>6. CASE JitterRefreshes
    BY <2>6 DEF JitterRefreshes
  <2>7. CASE RunFinally
    BY <2>7 DEF RunFinally
  <2>8. ASSUME NEW trigger \in Triggers, TryAuthRecovery(trigger)
        PROVE  ~RunBegins /\ ~FlightBegins
    BY <2>8 DEF TryAuthRecovery, AuthIgnored, AuthStorm, AuthRefreshes
  <2>9. ASSUME NEW outcome \in {"ok", "failed"}, RefreshSettles(outcome)
        PROVE  ~RunBegins /\ ~FlightBegins
    BY <2>9 DEF RefreshSettles
  <2>10. CASE AuthResumes
    BY <2>10 DEF AuthResumes
  <2>11. CASE RunResumes
    BY <2>11 DEF RunResumes
  <2>12. CASE Dispose
    BY <2>12 DEF Dispose
  <2>13. CASE WindowExpires
    BY <2>13 DEF WindowExpires
  <2>14. CASE UNCHANGED mgrVars
    BY <2>14
  <2> QED
    BY <2>1, <2>2, <2>3, <2>4, <2>5, <2>6, <2>7, <2>8, <2>9,
       <2>10, <2>11, <2>12, <2>13, <2>14 DEF Next, ManagerNext, ManagerStep
<1> QED
  BY <1>1, PTL DEF Spec, StoppedStartsNothing

\* How many refreshes a window may have seen, by what it was last stamped
\* with: none outside a window, one in a window stamped by a routine refresh.
WindowBounds ==
  /\ ~inWindow => burst = 0
  /\ inWindow /\ ~lastWasAuth => burst <= 1
  /\ burst <= 2

\* The invariant that bounds the refreshes of a window
\* (reconnect-manager.ts:363-364, :434-445, :657-715).
LEMMA WindowBoundsHold == Spec => []WindowBounds
<1>1. Init => WindowBounds
  BY DEF Init, WindowBounds
<1>2. TypeOK /\ WindowBounds /\ [Next]_vars => WindowBounds'
  <2> SUFFICES ASSUME TypeOK, WindowBounds, [Next]_vars
               PROVE  WindowBounds'
    OBVIOUS
  <2> USE DEF TypeOK, BurstCap, WindowBounds, mgrVars, runVars, waiterVars,
              stormVars, flightVars
  <2>1. CASE UNCHANGED vars
    BY <2>1 DEF vars
  <2>2. CASE Next
    <3> USE DEF WindowEnds, FlightBegins
    <3>0. burst' = IF WindowEnds THEN 0
                   ELSE IF FlightBegins /\ burst < BurstCap THEN burst + 1
                   ELSE burst
      BY <2>2 DEF Next, History
    <3>1. ASSUME NEW c \in Calls \ Waiting, Reconnect({c})
          PROVE  WindowBounds'
      BY <3>1, <3>0 DEF Reconnect
    <3>2. CASE Reconnect({})
      BY <3>2, <3>0 DEF Reconnect
    <3>3. CASE DebounceFires
      BY <3>3, <3>0 DEF DebounceFires
    <3>4. CASE JitterAborts
      BY <3>4, <3>0 DEF JitterAborts
    <3>5. CASE JitterRebuilds
      BY <3>5, <3>0 DEF JitterRebuilds
    <3>6. CASE JitterRefreshes
      BY <3>6, <3>0 DEF JitterRefreshes
    <3>7. CASE RunFinally
      BY <3>7, <3>0 DEF RunFinally
    <3>8. ASSUME NEW trigger \in Triggers, TryAuthRecovery(trigger)
          PROVE  WindowBounds'
      BY <3>8, <3>0 DEF TryAuthRecovery, AuthIgnored, AuthStorm, AuthRefreshes, Storm
    <3>9. ASSUME NEW outcome \in {"ok", "failed"}, RefreshSettles(outcome)
          PROVE  WindowBounds'
      BY <3>9, <3>0 DEF RefreshSettles
    <3>10. CASE AuthResumes
      BY <3>10, <3>0 DEF AuthResumes
    <3>11. CASE RunResumes
      BY <3>11, <3>0 DEF RunResumes
    <3>12. CASE Dispose
      BY <3>12, <3>0 DEF Dispose
    <3>13. CASE WindowExpires
      BY <3>13, <3>0 DEF WindowExpires
    <3>14. CASE UNCHANGED mgrVars
      BY <3>14, <3>0
    <3> QED
      BY <2>2, <3>1, <3>2, <3>3, <3>4, <3>5, <3>6, <3>7, <3>8, <3>9,
         <3>10, <3>11, <3>12, <3>13, <3>14 DEF Next, ManagerNext, ManagerStep
  <2> QED
    BY <2>1, <2>2
<1> QED
  BY <1>1, <1>2, TypeCorrect, PTL DEF Spec

\* Between two expiries of the window the identity provider is asked at most
\* twice: by a routine refresh and by the first auth recovery (Bug 16, F2).
THEOREM RefreshesAreBounded == Spec => []AtMostTwoRefreshesPerWindow
<1>1. WindowBounds => AtMostTwoRefreshesPerWindow
  BY DEF WindowBounds, AtMostTwoRefreshesPerWindow
<1> QED
  BY <1>1, WindowBoundsHold, PTL

\* The run in flight began after the call of each of its waiters.
RunServesWaiters == runWaiters \subseteq served

\* The waiters handed to a run stay served until it settles them
\* (reconnect-manager.ts:601-634, :732-748).
LEMMA RunServesWaitersHolds == Spec => []RunServesWaiters
<1>1. Init => RunServesWaiters
  BY DEF Init, RunServesWaiters
<1>2. RunServesWaiters /\ [Next]_vars => RunServesWaiters'
  <2> SUFFICES ASSUME RunServesWaiters, [Next]_vars
               PROVE  RunServesWaiters'
    OBVIOUS
  <2> USE DEF RunServesWaiters, mgrVars, runVars, waiterVars, stormVars,
              flightVars
  <2>1. CASE UNCHANGED vars
    BY <2>1 DEF vars
  <2>2. CASE Next
    <3> USE DEF RunBegins, Waiting
    <3>0. served' = (IF RunBegins THEN served \cup Waiting ELSE served)
                       \ (Waiting' \ Waiting)
      BY <2>2 DEF Next, History
    <3>1. ASSUME NEW c \in Calls \ Waiting, Reconnect({c})
          PROVE  RunServesWaiters'
      BY <3>1, <3>0 DEF Reconnect
    <3>2. CASE Reconnect({})
      BY <3>2, <3>0 DEF Reconnect
    <3>3. CASE DebounceFires
      BY <3>3, <3>0 DEF DebounceFires
    <3>4. CASE JitterAborts
      BY <3>4, <3>0 DEF JitterAborts
    <3>5. CASE JitterRebuilds
      BY <3>5, <3>0 DEF JitterRebuilds
    <3>6. CASE JitterRefreshes
      BY <3>6, <3>0 DEF JitterRefreshes
    <3>7. CASE RunFinally
      BY <3>7, <3>0 DEF RunFinally
    <3>8. ASSUME NEW trigger \in Triggers, TryAuthRecovery(trigger)
          PROVE  RunServesWaiters'
      BY <3>8, <3>0 DEF TryAuthRecovery, AuthIgnored, AuthStorm, AuthRefreshes
    <3>9. ASSUME NEW outcome \in {"ok", "failed"}, RefreshSettles(outcome)
          PROVE  RunServesWaiters'
      BY <3>9, <3>0 DEF RefreshSettles
    <3>10. CASE AuthResumes
      BY <3>10, <3>0 DEF AuthResumes
    <3>11. CASE RunResumes
      BY <3>11, <3>0 DEF RunResumes
    <3>12. CASE Dispose
      BY <3>12, <3>0 DEF Dispose
    <3>13. CASE WindowExpires
      BY <3>13, <3>0 DEF WindowExpires
    <3>14. CASE UNCHANGED mgrVars
      BY <3>14, <3>0
    <3> QED
      BY <2>2, <3>1, <3>2, <3>3, <3>4, <3>5, <3>6, <3>7, <3>8, <3>9,
         <3>10, <3>11, <3>12, <3>13, <3>14 DEF Next, ManagerNext, ManagerStep
  <2> QED
    BY <2>1, <2>2
<1> QED
  BY <1>1, <1>2, PTL DEF Spec

\* A reconnect() promise resolves only if a run began at or after the call, or
\* the manager is stopped (NFI-5, reconnect-manager.ts:503-549, :732-748).
THEOREM ResolvedWasServed == Spec => ResolvedMeansServed
<1> DEFINE Resolved == \A c \in Waiting \ Waiting' : c \in served \/ Stopped'
<1>1. /\ NoLostWaiter /\ RunServesWaiters
      /\ [Next]_vars
      => [Resolved]_vars
  <2> SUFFICES ASSUME NoLostWaiter, RunServesWaiters, Next
               PROVE  Resolved
    OBVIOUS
  <2> USE DEF Waiting, mgrVars, runVars, waiterVars, stormVars, flightVars
  <2>0. dead => dead'
    BY DEF Next, ManagerNext, ClientMayDie
  <2>1. ASSUME NEW c \in Calls \ Waiting, Reconnect({c})
        PROVE  Resolved
    BY <2>1 DEF Reconnect
  <2>2. CASE Reconnect({})
    BY <2>2 DEF Reconnect
  <2>3. CASE DebounceFires
    <3>1. Stopped => Stopped'
      BY <2>0, <2>3 DEF DebounceFires, Stopped
    <3>2. Waiting \ Waiting' # {} => Stopped
      BY <2>3 DEF DebounceFires, NoLostWaiter
    <3> QED
      BY <3>1, <3>2
  <2>4. CASE JitterAborts
    BY <2>4 DEF JitterAborts
  <2>5. CASE JitterRebuilds
    BY <2>5 DEF JitterRebuilds
  <2>6. CASE JitterRefreshes
    BY <2>6 DEF JitterRefreshes
  <2>7. CASE RunFinally
    BY <2>0, <2>7 DEF RunFinally, Stopped, NoLostWaiter, RunServesWaiters
  <2>8. ASSUME NEW trigger \in Triggers, TryAuthRecovery(trigger)
        PROVE  Resolved
    BY <2>8 DEF TryAuthRecovery, AuthIgnored, AuthStorm, AuthRefreshes
  <2>9. ASSUME NEW outcome \in {"ok", "failed"}, RefreshSettles(outcome)
        PROVE  Resolved
    BY <2>9 DEF RefreshSettles
  <2>10. CASE AuthResumes
    BY <2>10 DEF AuthResumes
  <2>11. CASE RunResumes
    BY <2>11 DEF RunResumes
  <2>12. CASE Dispose
    BY <2>12 DEF Dispose, Stopped
  <2>13. CASE WindowExpires
    BY <2>13 DEF WindowExpires
  <2>14. CASE UNCHANGED mgrVars
    BY <2>14
  <2> QED
    BY <2>1, <2>2, <2>3, <2>4, <2>5, <2>6, <2>7, <2>8, <2>9,
       <2>10, <2>11, <2>12, <2>13, <2>14 DEF Next, ManagerNext, ManagerStep
<1> QED
  BY <1>1, WaitersAreKept, RunServesWaitersHolds, PTL
  DEF Spec, ResolvedMeansServed
=============================================================================
