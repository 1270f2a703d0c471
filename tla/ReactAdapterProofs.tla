------------------------- MODULE ReactAdapterProofs -------------------------
(***************************************************************************)
(* Theorems about ReactAdapter: the last registrant answers the server, a  *)
(* client lives exactly as long as its provider, and the subscription hook *)
(* shows the fate of its current run.                                      *)
(***************************************************************************)
EXTENDS ReactAdapter, TLAPS

\* The last registrant is registered while it is mounted, and after it nobody.
RegistryInv ==
  /\ mounted \subseteq Components
  /\ registry = IF newest \in mounted THEN newest ELSE NoComponent

\* A dispose is pending only for an unmounted provider, with its microtask
\* queued; one that unmounted has it pending or behind it, and the connection
\* of a disposed client never comes back.
OwnerInv ==
  /\ disposals \in Nat
  /\ pendingDispose => provider = "unmounted" /\ disposals > 0
  /\ disposed => provider = "unmounted" /\ connection = "closed"
  /\ provider = "unmounted" => pendingDispose \/ disposed

\* Nobody is registered at first.
LEMMA InitRegistry == Init => RegistryInv
  BY DEF Init, RegistryInv

\* Registration, disposal by identity and the unmount of the tree keep the
\* registry's entry that of the last registrant (orpc-ws.tsx:236-258).
LEMMA RegistryStep == ASSUME RegistryInv, [Next]_vars PROVE RegistryInv'
  <1> USE ConstantsAssumption DEF RegistryInv
  <1>1. CASE UNCHANGED treeVars
    BY <1>1 DEF treeVars
  <1>2. ASSUME NEW c \in Components, Registers(c) PROVE RegistryInv'
    BY <1>2 DEF Registers, SetsHandler
  <1>3. ASSUME NEW c \in Components, Unregisters(c) PROVE RegistryInv'
    BY <1>3 DEF Unregisters
  <1>4. CASE ProviderUnmounts
    BY <1>4 DEF ProviderUnmounts
  <1>5. Events \/ ProviderMounts \/ ProviderRemounts \/ DisposeRuns \/ Hook
          => UNCHANGED treeVars
    BY DEF Events, Opens, Drops, Responds, ProviderMounts, ProviderRemounts,
           DisposeRuns, Hook, HookRenders, HookSetsUp, HookCleansUp, HookUnmounts,
           Toggles, Delivers
  <1> QED
    BY <1>1, <1>2, <1>3, <1>4, <1>5 DEF Next, Provider, Handlers, vars

\* The last registrant answers the server while it is mounted, whoever comes and
\* goes around it; once it is gone nobody does (orpc-ws.tsx:236-258).
THEOREM LastHandlerAnswers == Spec => []LastRegistrantAnswers
  <1>1. RegistryInv => LastRegistrantAnswers
    BY ConstantsAssumption DEF RegistryInv, LastRegistrantAnswers, Answerer, NotFound
  <1> QED
    BY InitRegistry, RegistryStep, <1>1, PTL DEF Spec

-----------------------------------------------------------------------------
\* A new provider has disposed of nothing.
LEMMA InitOwner == Init => OwnerInv
  <1> SUFFICES ASSUME Init PROVE OwnerInv
    OBVIOUS
  <1>1. disposals \in Nat
    BY DEF Init
  <1>2. ~pendingDispose /\ ~disposed
    BY Zenon DEF Init
  <1>3. provider # "unmounted"
    BY DEF Init
  <1> QED
    BY <1>1, <1>2, <1>3 DEF OwnerInv

\* A setup cancels the dispose its cleanup queued, an unmount does not, and no
\* event opens a closed connection (orpc-ws.tsx:271-312).
LEMMA OwnerStep == ASSUME OwnerInv, [Next]_vars PROVE OwnerInv'
  <1> USE ConstantsAssumption DEF OwnerInv
  <1>1. CASE UNCHANGED <<connection, providerVars>>
    BY <1>1 DEF providerVars
  <1>2. CASE Opens
    BY <1>2 DEF Opens
  <1>3. CASE Drops("down") \/ Drops("closed")
    BY <1>3 DEF Drops, providerVars
  <1>4. CASE ProviderMounts
    BY <1>4 DEF ProviderMounts
  <1>5. CASE ProviderRemounts
    <2>1. disposals' \in Nat
      BY <1>5 DEF ProviderRemounts
    <2>2. ~pendingDispose' /\ ~disposed' /\ provider' # "unmounted"
      BY <1>5, Zenon DEF ProviderRemounts
    <2> QED
      BY <2>1, <2>2
  <1>6. CASE ProviderUnmounts
    <2>1. disposals' \in Nat /\ disposals' > 0
      BY <1>6 DEF ProviderUnmounts
    <2>2. pendingDispose' /\ ~disposed' /\ provider' = "unmounted"
      BY <1>6, Zenon DEF ProviderUnmounts
    <2> QED
      BY <2>1, <2>2
  <1>7. CASE DisposeRuns
    <2>1. disposals' \in Nat
      BY <1>7 DEF DisposeRuns
    <2>2. ~pendingDispose' /\ provider' = provider
      BY <1>7, Zenon DEF DisposeRuns
    <2>3. CASE pendingDispose
      <3>1. disposed' /\ connection' = "closed"
        BY <1>7, <2>3, Zenon DEF DisposeRuns, DisposesClient
      <3> QED
        BY <2>1, <2>2, <2>3, <3>1
    <2>4. CASE ~pendingDispose
      <3>1. disposed' = disposed /\ connection' = connection
        BY <1>7, <2>4, Zenon DEF DisposeRuns
      <3> QED
        BY <2>1, <2>2, <2>4, <3>1
    <2> QED
      BY <2>3, <2>4
  <1>8. ASSUME NEW k \in Runs, NEW with \in {"iterator", "event", "end", "fail"},
               Responds(k, with)
        PROVE UNCHANGED <<connection, providerVars>>
    BY <1>8 DEF Responds
  <1>9. Handlers \/ Hook => UNCHANGED <<connection, providerVars>>
    BY DEF Handlers, Registers, Unregisters, Hook, HookRenders, HookSetsUp,
           HookCleansUp, HookUnmounts, Toggles, Delivers
  <1>10. CASE Next
    BY <1>1, <1>2, <1>3, <1>4, <1>5, <1>6, <1>7, <1>8, <1>9, <1>10, Zenon
       DEF Next, Events, Provider
  <1> QED
    BY <1>1, <1>10 DEF vars

\* While the provider is mounted its client is not disposed, StrictMode or not;
\* once it is not, the client holds no connection (orpc-ws.tsx:271-312).
THEOREM ClientFollowsProvider == Spec => []ProviderOwnsClient
  <1>1. OwnerInv => ProviderOwnsClient
    BY DEF OwnerInv, ProviderOwnsClient
  <1> QED
    BY InitOwner, OwnerStep, <1>1, PTL DEF Spec

-----------------------------------------------------------------------------
\* Nothing is known of subscriptions that were not made yet, and without a
\* current run no call is open.
RunsInv ==
  /\ run <= runs
  /\ \A k \in Runs : k > runs => stream[k] = "none" /\ settled[k] = "none"
  /\ Active \subseteq {run}
  /\ hook # "on" => run = NoRun
  /\ hook = "on" => (seen <=> run # NoRun)

\* The status and the delivery under way tell the fate of the current run.  One
\* whose call was lost stays "active" until the hook is rendered again.
FateInv ==
  hook = "on" =>
    IF run = NoRun THEN status = "idle"
    ELSE \/ /\ stream[run] \in {"asked", "live"} /\ status = "active"
            /\ settled[run] \in {"none", "iterator", "event"}
         \/ /\ stream[run] = "ended"
            /\ \/ settled[run] = "end" /\ status = "active"
               \/ settled[run] = "none" /\ status = "completed"
         \/ /\ stream[run] = "failed"
            /\ \/ settled[run] = "fail" /\ status = "active"
               \/ settled[run] = "none" /\ status = "error"
         \/ /\ stream[run] = "lost" /\ status = "active" /\ connection # "open"
            /\ settled[run] \in {"none", "lost"}

HookInv == TypeOK /\ RunsInv /\ FateInv

\* No subscription was made, and the hook is not on.
LEMMA InitHook == Init => HookInv
<1> SUFFICES ASSUME Init
             PROVE  HookInv
  OBVIOUS
<1>1. {pendingDispose, disposed, gated, hasConnectedOnce, enabled, seen} \subseteq BOOLEAN
  BY Zenon DEF Init
<1>2. TypeOK
  BY <1>1, ConstantsAssumption DEF Init, TypeOK, Runs, NoRun
<1>3. RunsInv /\ FateInv
  BY DEF Init, RunsInv, FateInv, Active, Runs, NoRun
<1> QED
  BY <1>2, <1>3 DEF HookInv

\* The flags of the provider and the hook stay Boolean.
LEMMA FlagsStep ==
  ASSUME TypeOK, [Next]_vars
  PROVE  {pendingDispose, disposed, gated, hasConnectedOnce, enabled, seen}' \subseteq BOOLEAN
<1> DEFINE Flags == {pendingDispose, disposed, gated, hasConnectedOnce, enabled, seen}
<1>1. Flags \subseteq BOOLEAN
  BY DEF TypeOK
<1>2. CASE Events
  BY <1>1, <1>2, Zenon DEF Events, Opens, Drops, Responds, providerVars, hookVars
<1>3. CASE ProviderMounts
  BY <1>1, <1>3, Zenon DEF ProviderMounts, hookVars
<1>4. CASE ProviderRemounts
  BY <1>1, <1>4, Zenon DEF ProviderRemounts, hookVars
<1>5. CASE ProviderUnmounts
  BY <1>1, <1>5, Zenon DEF ProviderUnmounts, hookVars
<1>6. CASE DisposeRuns
  BY <1>1, <1>6, Zenon DEF DisposeRuns, DisposesClient, hookVars
<1>7. CASE Handlers
  BY <1>1, <1>7, Zenon DEF Handlers, Registers, Unregisters, providerVars, hookVars
<1>8. CASE HookRenders
  BY <1>1, <1>8, Zenon DEF HookRenders, providerVars, Wanted, Connected
<1>9. CASE HookSetsUp
  BY <1>1, <1>9, Zenon DEF HookSetsUp, providerVars
<1>10. CASE HookCleansUp
  BY <1>1, <1>10, Zenon DEF HookCleansUp, providerVars, Wanted, Connected
<1>11. CASE HookUnmounts
  BY <1>1, <1>11, Zenon DEF HookUnmounts, providerVars
<1>12. CASE Toggles
  BY <1>1, <1>12, Zenon DEF Toggles, providerVars
<1>13. ASSUME NEW k \in Runs, Delivers(k)
       PROVE  Flags' \subseteq BOOLEAN
  BY <1>1, <1>13, Zenon DEF Delivers, providerVars
<1>14. CASE UNCHANGED vars
  BY <1>1, <1>14, Zenon DEF vars, providerVars, hookVars
<1> QED
  BY <1>2, <1>3, <1>4, <1>5, <1>6, <1>7, <1>8, <1>9, <1>10, <1>11, <1>12, <1>13, <1>14,
     Zenon DEF Next, Provider, Hook

\* The other variables keep their types.
LEMMA HookTypeStep == ASSUME TypeOK, [Next]_vars PROVE TypeOK'
<1> USE ConstantsAssumption
    DEF TypeOK, Runs, NoRun, Active, providerVars, treeVars, streamVars, hookVars
<1> {pendingDispose, disposed, gated, hasConnectedOnce, enabled, seen}' \subseteq BOOLEAN
  BY FlagsStep
<1>1. CASE Opens
  BY <1>1 DEF Opens
<1>2. ASSUME NEW to \in {"down", "closed"}, Drops(to)
      PROVE  TypeOK'
  BY <1>2 DEF Drops, LoseStreams
<1>3. ASSUME NEW k \in Runs, NEW with \in {"iterator", "event", "end", "fail"},
             Responds(k, with)
      PROVE  TypeOK'
  BY <1>3 DEF Responds
<1>4. CASE ProviderMounts \/ ProviderRemounts \/ ProviderUnmounts
  BY <1>4 DEF ProviderMounts, ProviderRemounts, ProviderUnmounts
<1>5. CASE DisposeRuns
  BY <1>5 DEF DisposeRuns, DisposesClient, LoseStreams
<1>6. CASE Handlers
  BY <1>6 DEF Handlers, Registers, Unregisters, SetsHandler
<1>7. CASE HookRenders
  BY <1>7 DEF HookRenders
<1>8. CASE HookSetsUp
  BY <1>8 DEF HookSetsUp, Subscribes
<1>9. CASE HookCleansUp \/ HookUnmounts
  BY <1>9 DEF HookCleansUp, HookUnmounts, HookAborts
<1>10. CASE Toggles
  BY <1>10 DEF Toggles
<1>11. ASSUME NEW k \in Runs, Delivers(k)
       PROVE  TypeOK'
  BY <1>11 DEF Delivers, StatusAfter
<1>12. CASE UNCHANGED vars
  BY <1>12 DEF vars
<1> HIDE DEF TypeOK
<1> QED
  BY <1>1, <1>2, <1>3, <1>4, <1>5, <1>6, <1>7, <1>8, <1>9, <1>10, <1>11, <1>12, Zenon
     DEF Next, Events, Provider, Hook

\* A subscription is asked for by its own run; it ends with the connection or with
\* the run (use-ws-subscription.ts:139-263).
LEMMA RunsStep == ASSUME HookInv, TypeOK', [Next]_vars PROVE RunsInv'
<1> USE ConstantsAssumption
    DEF HookInv, RunsInv, Runs, NoRun, Active, providerVars, treeVars, streamVars, hookVars
<1>1. CASE Opens
  BY <1>1 DEF TypeOK, Opens
<1>2. ASSUME NEW to \in {"down", "closed"}, Drops(to)
      PROVE  RunsInv'
  BY <1>2 DEF TypeOK, Drops, LoseStreams
<1>3. ASSUME NEW k \in Runs, NEW with \in {"iterator", "event", "end", "fail"},
             Responds(k, with)
      PROVE  RunsInv'
  BY <1>3 DEF TypeOK, Responds
<1>4. CASE ProviderMounts \/ ProviderRemounts \/ ProviderUnmounts
  BY <1>4 DEF TypeOK, ProviderMounts, ProviderRemounts, ProviderUnmounts
<1>5. CASE DisposeRuns
  BY <1>5 DEF TypeOK, DisposeRuns, DisposesClient, LoseStreams
<1>6. CASE Handlers
  BY <1>6 DEF TypeOK, Handlers, Registers, Unregisters
<1>7. CASE HookRenders
  BY <1>7 DEF TypeOK, HookRenders
<1>8. CASE HookSetsUp
  BY <1>8 DEF TypeOK, HookSetsUp, Subscribes
<1>9. CASE HookCleansUp \/ HookUnmounts
  BY <1>9 DEF TypeOK, HookCleansUp, HookUnmounts, HookAborts
<1>10. CASE Toggles
  BY <1>10 DEF TypeOK, Toggles
<1>11. ASSUME NEW k \in Runs, Delivers(k)
       PROVE  RunsInv'
  BY <1>11 DEF TypeOK, Delivers
<1>12. CASE UNCHANGED vars
  BY <1>12 DEF TypeOK, vars
<1> HIDE DEF HookInv, RunsInv
<1> QED
  BY <1>1, <1>2, <1>3, <1>4, <1>5, <1>6, <1>7, <1>8, <1>9, <1>10, <1>11, <1>12, Zenon
     DEF Next, Events, Provider, Hook

\* What settled is delivered to the run that is current, and no other run's
\* delivery touches the status (use-ws-subscription.ts:139-263).
LEMMA FateStep == ASSUME HookInv, TypeOK', [Next]_vars PROVE FateInv'
<1> USE ConstantsAssumption
    DEF HookInv, FateInv, Runs, NoRun, Active, providerVars, treeVars, streamVars, hookVars
<1>1. CASE Opens
  BY <1>1 DEF TypeOK, RunsInv, Opens, Task, Wanted, Connected
<1>2. ASSUME NEW to \in {"down", "closed"}, Drops(to)
      PROVE  FateInv'
  BY <1>2 DEF TypeOK, Drops, LoseStreams
<1>3. ASSUME NEW k \in Runs, NEW with \in {"iterator", "event", "end", "fail"},
             Responds(k, with)
      PROVE  FateInv'
  BY <1>3 DEF TypeOK, RunsInv, Responds, Task
<1>4. CASE ProviderMounts \/ ProviderRemounts \/ ProviderUnmounts
  BY <1>4 DEF TypeOK, ProviderMounts, ProviderRemounts, ProviderUnmounts
<1>5. CASE DisposeRuns
  BY <1>5 DEF TypeOK, DisposeRuns, DisposesClient, LoseStreams
<1>6. CASE Handlers
  BY <1>6 DEF TypeOK, Handlers, Registers, Unregisters
<1>7. CASE HookRenders
  BY <1>7 DEF TypeOK, HookRenders
<1>8. CASE HookSetsUp
  BY <1>8 DEF TypeOK, RunsInv, HookSetsUp, Subscribes
<1>9. CASE HookCleansUp \/ HookUnmounts
  BY <1>9 DEF TypeOK, HookCleansUp, HookUnmounts
<1>10. CASE Toggles
  BY <1>10 DEF TypeOK, Toggles
<1>11. ASSUME NEW k \in Runs, Delivers(k)
       PROVE  FateInv'
  BY <1>11 DEF TypeOK, Delivers, StatusAfter
<1>12. CASE UNCHANGED vars
  BY <1>12 DEF TypeOK, vars
<1> HIDE DEF HookInv, FateInv
<1> QED
  BY <1>1, <1>2, <1>3, <1>4, <1>5, <1>6, <1>7, <1>8, <1>9, <1>10, <1>11, <1>12, Zenon
     DEF Next, Events, Provider, Hook

\* What the hook shows is the fate of its current subscription, whatever late
\* deliveries, aborts, reconnects and re-renders did in between, and no stream
\* is left behind (use-ws-subscription.ts:139-263).
THEOREM HookShowsItsRun == Spec => []HookIsCurrent
<1>1. HookInv /\ [Next]_vars => HookInv'
  BY HookTypeStep, RunsStep, FateStep DEF HookInv
<1>2. HookInv => HookIsCurrent
  <2> SUFFICES ASSUME HookInv
               PROVE  HookIsCurrent
    OBVIOUS
  <2>1. ASSUME Task, hook = "on"
        PROVE  CASE status = "idle"      -> ~Wanted /\ run = NoRun
                 [] status = "active"    -> run # NoRun /\ run \in Active
                 [] status = "completed" -> run # NoRun /\ stream[run] = "ended"
                 [] status = "error"     -> run # NoRun /\ stream[run] = "failed"
    <3>1. seen = Wanted /\ (seen <=> run # NoRun) /\ (Wanted => connection = "open")
      BY <2>1, Zenon DEF Task, HookInv, RunsInv, Wanted, Connected
    <3>2. run # NoRun => run \in Runs /\ settled[run] = "none"
      BY <2>1 DEF Task, HookInv, TypeOK
    <3>3. CASE run = NoRun
      <4>1. ~Wanted /\ status = "idle"
        BY <2>1, <3>1, <3>3 DEF HookInv, FateInv
      <4> QED
        BY <3>3, <4>1
    <3>4. CASE run # NoRun
      <4>1. connection = "open"
        BY <3>1, <3>4
      <4>2. \/ stream[run] \in {"asked", "live"} /\ status = "active"
            \/ stream[run] = "ended" /\ status = "completed"
            \/ stream[run] = "failed" /\ status = "error"
        BY <2>1, <3>2, <3>4, <4>1 DEF HookInv, FateInv
      <4> QED
        BY <3>2, <3>4, <4>2 DEF Active
    <3> QED
      BY <3>3, <3>4
  <2> QED
    BY <2>1 DEF HookIsCurrent, HookInv, RunsInv
<1> QED
  BY InitHook, <1>1, <1>2, PTL DEF Spec
=============================================================================
