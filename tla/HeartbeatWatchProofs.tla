------------------------ MODULE HeartbeatWatchProofs ------------------------
(***************************************************************************)
(* Theorems about HeartbeatWatch, for every number of calls of subscribe() *)
(* and every retry budget: which loop may drive the monitor, what the      *)
(* server's last-wins bound can hit, and what becomes of the timers.       *)
(***************************************************************************)
EXTENDS HeartbeatWatch, SequenceTheorems, TLAPS

Frames == [kind : {"call", "abort"}, gen : Gens]

\* A call that was claimed and is past its barrier.
Started(g) == loop[g] \notin {"none", "barrier"}

\* A loop that still takes events.
Live(g) == loop[g] \in {"calling", "watching"} /\ g \notin aborted

\* The calls among the frames are of started loops, were sent in the order of
\* their generations, and after what the connection serves now.
InOrder(frames, low, started) ==
  \A i \in 1 .. Len(frames) : frames[i].kind = "call" =>
    /\ frames[i].gen \in started
    /\ low < frames[i].gen
    /\ \A j \in 1 .. (i - 1) : frames[j].kind = "call" => frames[j].gen < frames[i].gen

StartedGens == {g \in Gens : Started(g)}

\* Generations are claimed one by one, and the newest leaves its budget room.
ClaimsInOrder ==
  /\ \A g \in Gens : loop[g] = "none" <=> generation < g
  /\ generation # None => generation + budget[generation] <= MaxGen

\* The controller is the newest call's, and reaches every live loop; but a call
\* that waits for a connection when its client dies is left to itself.
ControllerIsNewest ==
  /\ controller # None => controller = generation /\ Started(controller)
  /\ \A g \in Gens : Live(g) =>
       /\ g = generation
       /\ controller = g \/ (link = "gone" /\ loop[g] = "calling")

\* A retry is armed for the newest call, with budget left, of a client that
\* was not dropped; and one that is gone for good was.
RetryIsOwed ==
  /\ retry # None => retry = generation /\ budget[retry] > 0 /\ ~dropped
  /\ link = "gone" => dropped

CallsInOrder ==
  /\ serving # None => Started(serving)
  /\ InOrder(wire, serving, StartedGens)

SupersededIsOver == \A g \in superseded : Started(g) /\ ~Live(g)

WatchdogIsOfLink == polling => link \in {"up", "half"}

\* So is a loop that got its config event.
LoopIsOfLink == \A g \in Gens : loop[g] = "watching" => link \in {"up", "half"}

WatchInv ==
  /\ TypeOK
  /\ ClaimsInOrder
  /\ ControllerIsNewest
  /\ RetryIsOwed
  /\ CallsInOrder
  /\ SupersededIsOver
  /\ WatchdogIsOfLink

-----------------------------------------------------------------------------
(***************************************************************************)
(* Frames in order.                                                        *)
(***************************************************************************)

\* The frames that are left when the server took the first (publisher.ts:111-169).
LEMMA TailInOrder ==
  ASSUME NEW frames \in Seq(Frames), frames # <<>>, NEW low, NEW started,
         InOrder(frames, low, started)
  PROVE  /\ Tail(frames) \in Seq(Frames)
         /\ InOrder(Tail(frames), low, started)
         /\ Head(frames).kind = "call" =>
              /\ Head(frames).gen \in started
              /\ low < Head(frames).gen
              /\ InOrder(Tail(frames), Head(frames).gen, started)
<1>1. /\ Len(frames) \in Nat \ {0}
      /\ Tail(frames) \in Seq(Frames)
      /\ Len(Tail(frames)) = Len(frames) - 1
      /\ \A i \in 1 .. Len(Tail(frames)) : Tail(frames)[i] = frames[i + 1]
  BY HeadTailProperties, EmptySeq
<1>2. Head(frames) = frames[1]
  OBVIOUS
<1>3. \A i \in 1 .. Len(Tail(frames)) :
        /\ i + 1 \in 1 .. Len(frames)
        /\ Tail(frames)[i].kind = "call" =>
             /\ Tail(frames)[i].gen \in started
             /\ low < Tail(frames)[i].gen
             /\ Head(frames).kind = "call" => Head(frames).gen < Tail(frames)[i].gen
             /\ \A j \in 1 .. (i - 1) :
                  Tail(frames)[j].kind = "call" => Tail(frames)[j].gen < Tail(frames)[i].gen
  <2> SUFFICES ASSUME NEW i \in 1 .. Len(Tail(frames))
               PROVE  /\ i + 1 \in 1 .. Len(frames)
                      /\ Tail(frames)[i].kind = "call" =>
                           /\ Tail(frames)[i].gen \in started
                           /\ low < Tail(frames)[i].gen
                           /\ Head(frames).kind = "call" =>
                                Head(frames).gen < Tail(frames)[i].gen
                           /\ \A j \in 1 .. (i - 1) :
                                Tail(frames)[j].kind = "call" =>
                                  Tail(frames)[j].gen < Tail(frames)[i].gen
    OBVIOUS
  <2>1. i + 1 \in 1 .. Len(frames) /\ Tail(frames)[i] = frames[i + 1]
    BY <1>1
  <2>2. 1 \in 1 .. ((i + 1) - 1)
    OBVIOUS
  <2>3. \A j \in 1 .. (i - 1) :
          Tail(frames)[j] = frames[j + 1] /\ j + 1 \in 1 .. ((i + 1) - 1)
    BY <1>1
  <2> QED
    BY <1>2, <2>1, <2>2, <2>3 DEF InOrder
<1>4. 1 \in 1 .. Len(frames)
  BY <1>1
<1> QED
  BY <1>1, <1>2, <1>3, <1>4 DEF InOrder

\* A call that is newer than all started ones is sent after them, with or
\* without the abort of its predecessor (subscriber.ts:250-303, :445-459).
LEMMA CallIsNext ==
  ASSUME NEW frames \in Seq(Frames), NEW low \in Nat, NEW started \in SUBSET Gens,
         InOrder(frames, low, started), NEW g \in Gens, low < g,
         \A h \in started : h < g
  PROVE  /\ frames \o Calls(g) \in Seq(Frames)
         /\ InOrder(frames \o Calls(g), low, started \cup {g})
<1> DEFINE call == [kind |-> "call", gen |-> g]
<1>1. call \in Frames /\ Calls(g) = <<call>> /\ Calls(g) \in Seq(Frames)
  BY DEF Frames, Calls
<1>2. Len(Calls(g)) = 1 /\ Calls(g)[1] = call
  BY <1>1
<1>3. Len(frames) \in Nat
  OBVIOUS
<1>4. /\ frames \o Calls(g) \in Seq(Frames)
      /\ Len(frames \o Calls(g)) = Len(frames) + 1
      /\ \A i \in 1 .. (Len(frames) + 1) :
           (frames \o Calls(g))[i] = IF i <= Len(frames) THEN frames[i] ELSE call
  <2>1. /\ frames \o Calls(g) \in Seq(Frames)
        /\ Len(frames \o Calls(g)) = Len(frames) + Len(Calls(g))
        /\ \A i \in 1 .. Len(frames) + Len(Calls(g)) :
             (frames \o Calls(g))[i] =
               IF i <= Len(frames) THEN frames[i] ELSE Calls(g)[i - Len(frames)]
    BY <1>1, ConcatProperties
  <2>2. \A i \in 1 .. (Len(frames) + 1) : ~ i <= Len(frames) => i - Len(frames) = 1
    BY <1>3
  <2> QED
    BY <1>2, <2>1, <2>2
<1> DEFINE all == frames \o Calls(g)
           n   == Len(frames)
<1>5. /\ n \in Nat
      /\ \A i \in 1 .. n : all[i] = frames[i]
      /\ all[n + 1].kind = "call" /\ all[n + 1].gen = g
  BY <1>3, <1>4
<1>6. \A i \in 1 .. n : frames[i].kind = "call" =>
        /\ frames[i].gen \in started
        /\ low < frames[i].gen /\ frames[i].gen < g
        /\ \A j \in 1 .. (i - 1) :
             frames[j].kind = "call" => frames[j].gen < frames[i].gen
  BY DEF InOrder
<1>7. Len(all) = n + 1
  BY <1>4
<1> HIDE DEF all, n, call
<1>8. ASSUME NEW i \in 1 .. (n + 1), all[i].kind = "call"
      PROVE  /\ all[i].gen \in started \cup {g}
             /\ low < all[i].gen
             /\ \A j \in 1 .. (i - 1) : all[j].kind = "call" => all[j].gen < all[i].gen
  <2>1. CASE i \in 1 .. n
    <3>1. \A j \in 1 .. (i - 1) : all[j] = frames[j]
      BY <1>5, <2>1
    <3> QED
      BY <1>5, <1>6, <1>8, <2>1, <3>1
  <2>2. CASE i = n + 1
    <3>1. 1 .. (i - 1) = 1 .. n
      BY <1>5, <2>2
    <3> QED
      BY <1>5, <1>6, <2>2, <3>1
  <2> QED
    BY <1>5, <2>1, <2>2
<1>9. InOrder(all, low, started \cup {g})
  BY <1>7, <1>8 DEF InOrder
<1> QED
  BY <1>4, <1>9 DEF all

\* The abort of a call sends no call (subscriber.ts:305-335).
LEMMA AbortKeepsOrder ==
  ASSUME NEW frames \in Seq(Frames), NEW low, NEW started,
         InOrder(frames, low, started), NEW g \in Gens \cup {None}
  PROVE  /\ frames \o AbortOf(g) \in Seq(Frames)
         /\ InOrder(frames \o AbortOf(g), low, started)
<1>1. CASE g = None
  BY <1>1, ConcatEmptySeq DEF AbortOf
<1>2. CASE g \in Gens /\ g # None
  <2> DEFINE abort == [kind |-> "abort", gen |-> g]
  <2>1. abort \in Frames /\ AbortOf(g) = <<abort>> /\ AbortOf(g) \in Seq(Frames)
    BY <1>2 DEF Frames, AbortOf
  <2>2. Len(AbortOf(g)) = 1 /\ AbortOf(g)[1] = abort /\ abort.kind # "call"
    BY <2>1
  <2>3. Len(frames) \in Nat
    OBVIOUS
  <2>4. /\ frames \o AbortOf(g) \in Seq(Frames)
        /\ Len(frames \o AbortOf(g)) = Len(frames) + Len(AbortOf(g))
        /\ \A i \in 1 .. Len(frames) + Len(AbortOf(g)) :
             (frames \o AbortOf(g))[i] =
               IF i <= Len(frames) THEN frames[i] ELSE AbortOf(g)[i - Len(frames)]
    BY <2>1, ConcatProperties
  <2> HIDE DEF abort
  <2>5. ASSUME NEW i \in 1 .. (Len(frames) + 1), (frames \o AbortOf(g))[i].kind = "call"
        PROVE  /\ i \in 1 .. Len(frames) /\ (frames \o AbortOf(g))[i] = frames[i]
               /\ \A j \in 1 .. (i - 1) : (frames \o AbortOf(g))[j] = frames[j]
    <3>1. i <= Len(frames)
      <4> SUFFICES ASSUME i = Len(frames) + 1 PROVE FALSE
        BY <2>3
      <4>1. (frames \o AbortOf(g))[i] = abort
        BY <2>2, <2>3, <2>4
      <4> QED
        BY <2>2, <2>5, <4>1
    <3> QED
      BY <2>2, <2>3, <2>4, <3>1
  <2> QED
    BY <2>2, <2>4, <2>5 DEF InOrder
<1> QED
  BY <1>1, <1>2

-----------------------------------------------------------------------------
(***************************************************************************)
(* The subscriber.                                                         *)
(***************************************************************************)

\* runLoop of the newest call, past its barrier, while every loop before it is
\* over or aborted (subscriber.ts:418-461).
LEMMA RunsNewest ==
  ASSUME WatchInv, NEW g \in Gens, NEW retries \in 0 .. Retries,
         NEW c \in Gens \cup {None}, NEW gave \in BOOLEAN,
         RunLoop(g, retries, AbortOf(c), gave),
         generation' = g, ~Started(g),
         \A h \in Gens \ {g} : loop[h] = "none" <=> g < h,
         \A h \in Gens : Started(h) => h < g,
         aborted' \in SUBSET Gens, aborted \subseteq aborted',
         \A h \in Gens : Live(h) => h \in aborted',
         UNCHANGED <<serving, superseded>>
  PROVE  /\ {cached', gaveUp'} \subseteq BOOLEAN
         /\ {controller', active', retry'} \subseteq Gens \cup {None}
         /\ loop' \in [Gens -> LoopStates]
         /\ wire' \in Seq(Frames)
         /\ \A h \in Gens : loop'[h] = "none" <=> g < h
         /\ retry' # None => retry' = g /\ retries > 0 /\ ~dropped'
         /\ ControllerIsNewest' /\ CallsInOrder' /\ SupersededIsOver'
<1> DEFINE linked == cached \/ link' \in {"up", "half"}
<1>1. /\ loop \in [Gens -> LoopStates] /\ wire \in Seq(Frames)
      /\ cached \in BOOLEAN /\ serving \in Gens \cup {None}
      /\ superseded \subseteq Gens
  BY DEF WatchInv, TypeOK, Frames
<1>2. {cached', gaveUp'} \subseteq BOOLEAN
  <2>1. cached' \in {cached, TRUE}
    BY DEF RunLoop
  <2>2. gaveUp' \in BOOLEAN
    BY Zenon DEF RunLoop
  <2> QED
    BY <1>1, <2>1, <2>2
<1>3. {controller', active', retry'} \subseteq Gens \cup {None}
  BY DEF RunLoop
<1>4. /\ loop' \in [Gens -> LoopStates]
      /\ loop'[g] = IF linked THEN "calling" ELSE "done"
      /\ \A h \in Gens \ {g} : loop'[h] = loop[h]
  BY <1>1 DEF RunLoop, LoopStates
<1>5. retry' # None => retry' = g /\ retries > 0 /\ ~dropped'
  BY DEF RunLoop
<1>6. \A h \in Gens : loop'[h] = "none" <=> g < h
  BY <1>4 DEF Gens
<1>7. \A h \in Gens : Started(h)' <=> Started(h) \/ h = g
  BY <1>4 DEF Started
<1>8. ControllerIsNewest'
  <2>1. controller' # None => controller' = generation' /\ Started(controller)'
    BY <1>7 DEF RunLoop, Started
  <2>2. ASSUME NEW h \in Gens, Live(h)' PROVE h = generation' /\ controller' = h
    <3>1. h = g
      BY <1>4, <2>2 DEF Live
    <3>2. linked
      BY <1>4, <2>2, <3>1 DEF Live
    <3> QED
      BY <3>1, <3>2 DEF RunLoop
  <2> QED
    BY <2>1, <2>2 DEF ControllerIsNewest
<1>9. wire' \in Seq(Frames) /\ CallsInOrder'
  <2>1. serving' # None => Started(serving)'
    BY <1>1, <1>7 DEF WatchInv, CallsInOrder
  <2>2. serving \in Nat /\ serving < g /\ serving' = serving
    BY <1>1 DEF WatchInv, CallsInOrder, Gens, None
  <2>3. /\ wire \o AbortOf(c) \in Seq(Frames)
        /\ InOrder(wire \o AbortOf(c), serving, StartedGens)
    BY <1>1, AbortKeepsOrder DEF WatchInv, CallsInOrder
  <2>4. /\ wire \o AbortOf(c) \o Calls(g) \in Seq(Frames)
        /\ InOrder(wire \o AbortOf(c) \o Calls(g), serving, StartedGens \cup {g})
    BY <2>2, <2>3, CallIsNext DEF StartedGens
  <2>5. StartedGens' = StartedGens \cup {g}
    BY <1>7 DEF StartedGens
  <2>6. InOrder(wire \o AbortOf(c), serving, StartedGens \cup {g})
    BY <2>3 DEF InOrder
  <2>7. wire' \in {wire \o AbortOf(c), wire \o AbortOf(c) \o Calls(g)}
    BY DEF RunLoop
  <2>8. wire' \in Seq(Frames) /\ InOrder(wire', serving', StartedGens')
    BY <2>2, <2>3, <2>4, <2>5, <2>6, <2>7
  <2> QED
    BY <2>1, <2>8 DEF CallsInOrder
<1>10. SupersededIsOver'
  <2> SUFFICES ASSUME NEW h \in superseded PROVE Started(h)' /\ ~Live(h)'
    BY DEF SupersededIsOver
  <2>1. h \in Gens /\ Started(h) /\ ~Live(h) /\ h # g
    BY <1>1 DEF WatchInv, SupersededIsOver
  <2> QED
    BY <1>4, <1>7, <2>1 DEF Live
<1> QED
  BY <1>2, <1>3, <1>4, <1>5, <1>6, <1>8, <1>9, <1>10

\* subscribeWithRetryBudget: the next generation aborts the call before it, and
\* starts or waits in the barrier (subscriber.ts:243-302).
LEMMA SubscribesNext ==
  ASSUME WatchInv, NEW retries \in 0 .. Retries, NEW gave \in BOOLEAN,
         generation + 1 + retries <= MaxGen, SubscribeWith(retries, gave),
         ~dropped', "gone" \notin {link, link'}, UNCHANGED <<monVars, serverVars>>,
         link' \in {"down", "up", "half"}, dropped' \in BOOLEAN,
         polling => link' \in {"up", "half"}
  PROVE  WatchInv'
<1> DEFINE g == generation + 1
<1>1. /\ generation \in Gens \cup {None} /\ controller \in Gens \cup {None}
      /\ loop \in [Gens -> LoopStates] /\ budget \in [Gens -> 0 .. Retries]
      /\ aborted \subseteq Gens /\ waits \in [Gens -> Gens \cup {None}]
      /\ active \in Gens \cup {None} /\ wire \in Seq(Frames)
      /\ cached \in BOOLEAN
  BY DEF WatchInv, TypeOK, Frames
<1>2. g \in Gens /\ g # None
  BY <1>1, MaxGenAssumption, RetriesAssumption DEF Gens, None
<1>3. /\ \A h \in Gens \ {g} : loop[h] = "none" <=> g < h
      /\ loop[g] = "none"
      /\ \A h \in Gens : Started(h) => h < g
  <2>1. \A h \in Gens : loop[h] = "none" <=> generation < h
    BY DEF WatchInv, ClaimsInOrder
  <2> QED
    BY <1>1, <1>2, <2>1 DEF Gens, None, Started
<1>4. /\ generation' = g /\ budget' = [budget EXCEPT ![g] = retries]
      /\ aborted' = aborted \cup ({controller} \ {None})
  BY DEF SubscribeWith
<1>5. aborted' \in SUBSET Gens /\ \A h \in Gens : Live(h) => h \in aborted'
  BY <1>1, <1>4 DEF WatchInv, ControllerIsNewest, Gens, None
<1>6. budget' \in [Gens -> 0 .. Retries] /\ budget'[g] = retries
  BY <1>1, <1>2, <1>4
<1> DEFINE Kept == /\ {cached', gaveUp'} \subseteq BOOLEAN
                   /\ {controller', active', retry'} \subseteq Gens \cup {None}
                   /\ loop' \in [Gens -> LoopStates]
                   /\ wire' \in Seq(Frames)
                   /\ \A h \in Gens : loop'[h] = "none" <=> g < h
                   /\ retry' # None => retry' = g /\ retries > 0 /\ ~dropped'
                   /\ ControllerIsNewest' /\ CallsInOrder' /\ SupersededIsOver'
<1>7. Kept /\ waits' \in [Gens -> Gens \cup {None}]
  <2>1. CASE active = None
    <3>1. RunLoop(g, retries, AbortOf(controller), gave) /\ UNCHANGED waits
      BY <2>1 DEF SubscribeWith
    <3>2. ~Started(g) /\ aborted \subseteq aborted' /\ UNCHANGED <<serving, superseded>>
      BY <1>3, <1>4 DEF Started, serverVars
    <3> HIDE DEF g
    <3>3. Kept
      BY <1>1, <1>2, <1>3, <1>4, <1>5, <3>1, <3>2, RunsNewest
    <3> QED
      BY <1>1, <3>1, <3>3
  <2>2. CASE active # None
    <3>1. /\ loop' = [loop EXCEPT ![g] = "barrier"]
          /\ waits' = [waits EXCEPT ![g] = active]
          /\ active' = None /\ controller' = None /\ retry' = None
          /\ gaveUp' = gave /\ wire' = wire \o AbortOf(controller)
          /\ cached' = cached
      BY <2>2 DEF SubscribeWith
    <3>2. UNCHANGED <<serving, superseded>>
      BY DEF serverVars
    <3> HIDE DEF g
    <3>3. /\ loop' \in [Gens -> LoopStates] /\ loop'[g] = "barrier"
          /\ \A h \in Gens \ {g} : loop'[h] = loop[h]
          /\ waits' \in [Gens -> Gens \cup {None}]
      BY <1>1, <1>2, <3>1 DEF LoopStates
    <3>4. \A h \in Gens : loop'[h] = "none" <=> g < h
      BY <1>2, <1>3, <3>3 DEF Gens
    <3>5. \A h \in Gens : (Started(h)' <=> Started(h)) /\ (Live(h)' => Live(h))
      BY <1>3, <1>4, <3>3 DEF Started, Live
    <3>6. \A h \in Gens : ~Live(h)'
      BY <1>5, <3>5 DEF Live
    <3>7. ControllerIsNewest'
      BY <3>1, <3>6 DEF ControllerIsNewest
    <3>8. SupersededIsOver'
      BY <3>2, <3>5, <3>6 DEF WatchInv, TypeOK, SupersededIsOver
    <3>9. wire' \in Seq(Frames) /\ CallsInOrder'
      <4>1. StartedGens' = StartedGens
        BY <3>5 DEF StartedGens
      <4>2. wire' \in Seq(Frames) /\ InOrder(wire', serving, StartedGens)
        BY <1>1, <3>1, AbortKeepsOrder DEF WatchInv, CallsInOrder
      <4> QED
        BY <3>2, <3>5, <4>1, <4>2 DEF WatchInv, TypeOK, CallsInOrder
    <3> QED
      BY <1>1, <3>1, <3>3, <3>4, <3>7, <3>8, <3>9
  <2> QED
    BY <2>1, <2>2
<1>8. TypeOK'
  <2>1. UNCHANGED <<polling, fired, overdue, stream, serving, superseded>>
    BY DEF monVars, serverVars
  <2>2. {cached', dropped', gaveUp', polling', fired', overdue'} \subseteq BOOLEAN
    BY <1>7, <2>1 DEF WatchInv, TypeOK
  <2>3. {generation', controller', active', retry', serving'} \subseteq Gens \cup {None}
    BY <1>2, <1>4, <1>7, <2>1 DEF WatchInv, TypeOK
  <2>4. wire' \in Seq([kind : {"call", "abort"}, gen : Gens])
    BY <1>7 DEF Frames
  <2> QED
    BY <1>5, <1>6, <1>7, <2>1, <2>2, <2>3, <2>4 DEF WatchInv, TypeOK
<1>9. ClaimsInOrder'
  BY <1>4, <1>6, <1>7 DEF ClaimsInOrder
<1>10. RetryIsOwed'
  BY <1>2, <1>4, <1>6, <1>7 DEF RetryIsOwed
<1>11. WatchdogIsOfLink'
  BY DEF WatchdogIsOfLink, monVars
<1> QED
  BY <1>7, <1>8, <1>9, <1>10, <1>11 DEF WatchInv

\* Loops move on, and no call is claimed: what their order rests on stays
\* (subscriber.ts:461-572, the closes of the connection).
LEMMA LoopsGoOn ==
  ASSUME WatchInv, UNCHANGED <<generation, budget>>,
         loop' \in [Gens -> LoopStates],
         \A g \in Gens : loop'[g] = "none" <=> loop[g] = "none",
         \A g \in Gens : Started(g) => Started(g)',
         controller' \in {controller, None},
         \A g \in Gens : Live(g)' =>
           /\ Live(g)
           /\ \/ /\ controller' = controller
                 /\ link = "gone" => link' = "gone" /\ loop'[g] = loop[g]
              \/ link' = "gone" /\ loop'[g] = "calling"
  PROVE  /\ ClaimsInOrder' /\ ControllerIsNewest'
         /\ superseded' = superseded => SupersededIsOver'
         /\ wire' \in {wire, <<>>} /\ serving' \in {serving, None} => CallsInOrder'
<1>1. ClaimsInOrder'
  BY DEF WatchInv, ClaimsInOrder
<1>2. controller \in Gens \cup {None} /\ serving \in Gens \cup {None}
  BY DEF WatchInv, TypeOK
<1>3. ControllerIsNewest'
  BY <1>2 DEF WatchInv, ControllerIsNewest
<1>4. superseded' = superseded => SupersededIsOver'
  BY DEF WatchInv, TypeOK, SupersededIsOver
<1>5. ASSUME wire' \in {wire, <<>>}, serving' \in {serving, None}
      PROVE  CallsInOrder'
  <2>1. serving' # None => Started(serving)'
    BY <1>2, <1>5 DEF WatchInv, CallsInOrder
  <2>2. StartedGens \subseteq StartedGens'
    BY DEF StartedGens
  <2>3. None <= serving
    BY <1>2 DEF Gens, None
  <2>4. \A i \in 1 .. Len(wire) : wire[i].kind = "call" =>
          /\ wire[i].gen \in StartedGens'
          /\ serving' < wire[i].gen
    BY <1>2, <1>5, <2>2, <2>3
    DEF WatchInv, CallsInOrder, InOrder, StartedGens, Gens, None
  <2>5. CASE wire' = wire
    BY <2>1, <2>4, <2>5 DEF WatchInv, CallsInOrder, InOrder
  <2>6. CASE wire' = <<>>
    <3>1. Len(wire') = 0
      BY <2>6
    <3> QED
      BY <2>1, <3>1 DEF CallsInOrder, InOrder
  <2> QED
    BY <1>5, <2>5, <2>6
<1> QED
  BY <1>1, <1>3, <1>4, <1>5

\* The server takes the first frame that waits for it (publisher.ts:111-187).
LEMMA FrameArrives ==
  ASSUME WatchInv, NEW kind, Arrives(kind), wire' = Tail(wire)
  PROVE  /\ wire' \in Seq(Frames)
         /\ Head(wire) \in Frames /\ Head(wire).kind = kind
         /\ Head(wire).gen \in Gens
         /\ InOrder(wire', serving, StartedGens)
         /\ kind = "call" =>
              /\ Started(Head(wire).gen) /\ serving < Head(wire).gen
              /\ InOrder(wire', Head(wire).gen, StartedGens)
<1>1. wire \in Seq(Frames) /\ wire # <<>> /\ Head(wire).kind = kind
  BY DEF WatchInv, TypeOK, Frames, Arrives
<1>2. Head(wire) \in Frames
  BY <1>1, HeadTailProperties
<1>3. InOrder(wire, serving, StartedGens)
  BY DEF WatchInv, CallsInOrder
<1>4. /\ Tail(wire) \in Seq(Frames)
      /\ InOrder(Tail(wire), serving, StartedGens)
      /\ kind = "call" =>
           /\ Head(wire).gen \in StartedGens /\ serving < Head(wire).gen
           /\ InOrder(Tail(wire), Head(wire).gen, StartedGens)
  BY <1>1, <1>3, TailInOrder
<1>5. Head(wire).gen \in Gens
  BY <1>2 DEF Frames
<1>6. \A g \in StartedGens : Started(g)
  BY DEF StartedGens
<1> QED
  BY <1>1, <1>2, <1>4, <1>5, <1>6

\* The newest call of a connection takes the place of another one: that one's
\* loop is not live any more (publisher.ts:147-157).
LEMMA ServesNewest == ASSUME WatchInv, ServerSubscribes PROVE WatchInv'
<1> DEFINE g == Head(wire).gen
<1>1. /\ wire' \in Seq(Frames) /\ g \in Gens /\ Started(g) /\ serving < g
      /\ InOrder(wire', g, StartedGens)
  BY FrameArrives DEF ServerSubscribes
<1>2. /\ stream' = [stream EXCEPT ![g] = "config"] /\ serving' = g
      /\ superseded' \in {superseded, superseded \cup {serving}}
      /\ superseded' # superseded => serving # None
      /\ UNCHANGED <<link, cached, subVars, monVars>>
  BY DEF ServerSubscribes
<1> HIDE DEF g
<1>3. UNCHANGED <<generation, loop, waits, budget, aborted, controller, active,
                  dropped, retry, gaveUp, polling, fired, overdue, link, cached>>
  BY <1>2 DEF subVars, monVars
<1>4. serving \in Gens \cup {None} /\ superseded \subseteq Gens
  BY DEF WatchInv, TypeOK
<1>5. TypeOK'
  <2>1. wire' \in Seq([kind : {"call", "abort"}, gen : Gens])
    BY <1>1 DEF Frames
  <2>2. superseded' \subseteq Gens
    BY <1>2, <1>4
  <2> QED
    BY <1>1, <1>2, <1>3, <2>1, <2>2 DEF WatchInv, TypeOK
<1>6. \A h \in Gens : (Started(h)' <=> Started(h)) /\ (Live(h)' <=> Live(h))
  BY <1>3 DEF Started, Live
<1>7. CallsInOrder'
  BY <1>1, <1>2, <1>6 DEF CallsInOrder, StartedGens
<1>8. ASSUME serving # None PROVE Started(serving) /\ ~Live(serving)
  <2>1. Started(serving)
    BY <1>8 DEF WatchInv, CallsInOrder
  <2>2. g <= generation
    BY <1>1 DEF WatchInv, TypeOK, ClaimsInOrder, Started, Gens, None
  <2>3. serving # generation
    BY <1>1, <1>4, <2>2 DEF Gens, None, WatchInv, TypeOK
  <2> QED
    BY <1>4, <1>8, <2>1, <2>3 DEF WatchInv, ControllerIsNewest, ServerSubscribes, Arrives
<1>9. SupersededIsOver'
  BY <1>2, <1>4, <1>6, <1>8 DEF WatchInv, SupersededIsOver
<1>10. ClaimsInOrder' /\ ControllerIsNewest' /\ RetryIsOwed' /\ WatchdogIsOfLink'
  <2>1. ClaimsInOrder'
    BY <1>3 DEF WatchInv, ClaimsInOrder
  <2>2. ControllerIsNewest'
    BY <1>3, <1>6 DEF WatchInv, ControllerIsNewest, Started
  <2>3. RetryIsOwed' /\ WatchdogIsOfLink'
    BY <1>3 DEF WatchInv, RetryIsOwed, WatchdogIsOfLink
  <2> QED
    BY <2>1, <2>2, <2>3
<1> QED
  BY <1>5, <1>7, <1>9, <1>10 DEF WatchInv

\* A call leaves the barrier: it runs if it is the newest, and else is over
\* (subscriber.ts:270-303).
LEMMA BarrierKeeps ==
  ASSUME WatchInv, NEW g \in Gens, LeaveBarrier(g)
  PROVE  WatchInv'
<1>1. /\ loop[g] = "barrier" /\ waits' = [waits EXCEPT ![g] = None]
      /\ UNCHANGED <<link, generation, budget, aborted, dropped, monVars, serverVars>>
  BY DEF LeaveBarrier
<1>2. UNCHANGED <<polling, fired, overdue, stream, serving, superseded>>
  BY <1>1 DEF monVars, serverVars
<1>3. waits' \in [Gens -> Gens \cup {None}]
  BY <1>1 DEF WatchInv, TypeOK
<1> DEFINE Moved == /\ {cached', gaveUp'} \subseteq BOOLEAN
                    /\ {controller', active', retry'} \subseteq Gens \cup {None}
                    /\ loop' \in [Gens -> LoopStates]
                    /\ wire' \in Seq(Frames)
                    /\ ClaimsInOrder' /\ RetryIsOwed'
                    /\ ControllerIsNewest' /\ CallsInOrder' /\ SupersededIsOver'
<1>4. Moved
  <2>1. CASE generation = g
    <3>1. RunLoop(g, budget[g], AbortOf(None), gaveUp)
      BY <2>1 DEF LeaveBarrier, AbortOf
    <3>2. ~Started(g) /\ generation' = g
      BY <1>1, <2>1 DEF Started
    <3>3. \A h \in Gens : loop[h] = "none" <=> g < h
      BY <2>1 DEF WatchInv, ClaimsInOrder
    <3>4. \A h \in Gens : Started(h) => h < g
      BY <3>2, <3>3 DEF Started, Gens
    <3>5. \A h \in Gens : ~Live(h)
      BY <2>1, <3>2 DEF WatchInv, ControllerIsNewest, Started, Live
    <3>6. /\ budget[g] \in 0 .. Retries /\ gaveUp \in BOOLEAN
          /\ aborted' \in SUBSET Gens /\ aborted \subseteq aborted'
      BY <1>1 DEF WatchInv, TypeOK
    <3>7. /\ {cached', gaveUp'} \subseteq BOOLEAN
          /\ {controller', active', retry'} \subseteq Gens \cup {None}
          /\ loop' \in [Gens -> LoopStates]
          /\ wire' \in Seq(Frames)
          /\ \A h \in Gens : loop'[h] = "none" <=> g < h
          /\ retry' # None => retry' = g /\ budget[g] > 0 /\ ~dropped'
          /\ ControllerIsNewest' /\ CallsInOrder' /\ SupersededIsOver'
      BY <1>2, <3>1, <3>2, <3>3, <3>4, <3>5, <3>6, RunsNewest
    <3>8. ClaimsInOrder'
      BY <1>1, <2>1, <3>7 DEF WatchInv, ClaimsInOrder
    <3>9. RetryIsOwed'
      BY <1>1, <2>1, <3>7 DEF WatchInv, RetryIsOwed
    <3> QED
      BY <3>7, <3>8, <3>9
  <2>2. CASE generation # g
    <3>1. /\ loop' = [loop EXCEPT ![g] = "done"]
          /\ UNCHANGED <<cached, controller, active, retry, gaveUp, wire>>
      BY <2>2 DEF LeaveBarrier
    <3>2. loop' \in [Gens -> LoopStates]
      BY <3>1 DEF WatchInv, TypeOK, LoopStates
    <3>3. \A h \in Gens : /\ loop'[h] = "none" <=> loop[h] = "none"
                          /\ Started(h) => Started(h)'
                          /\ Live(h)' => Live(h) /\ loop'[h] = loop[h]
      BY <1>1, <3>1 DEF WatchInv, TypeOK, Started, Live
    <3>4. ClaimsInOrder' /\ ControllerIsNewest' /\ SupersededIsOver' /\ CallsInOrder'
      BY <1>1, <1>2, <3>1, <3>2, <3>3, LoopsGoOn
    <3>5. RetryIsOwed'
      BY <1>1, <3>1 DEF WatchInv, RetryIsOwed
    <3>6. /\ {cached', gaveUp'} \subseteq BOOLEAN
          /\ {controller', active', retry'} \subseteq Gens \cup {None}
          /\ wire' \in Seq(Frames)
      BY <3>1 DEF WatchInv, TypeOK, Frames
    <3> QED
      BY <3>2, <3>4, <3>5, <3>6
  <2> QED
    BY <2>1, <2>2
<1>5. TypeOK'
  <2>1. {cached', dropped', gaveUp', polling', fired', overdue'} \subseteq BOOLEAN
    BY <1>1, <1>2, <1>4 DEF WatchInv, TypeOK
  <2>2. {generation', controller', active', retry', serving'} \subseteq Gens \cup {None}
    BY <1>1, <1>2, <1>4 DEF WatchInv, TypeOK
  <2>3. wire' \in Seq([kind : {"call", "abort"}, gen : Gens])
    BY <1>4 DEF Frames
  <2> QED
    BY <1>1, <1>2, <1>3, <1>4, <2>1, <2>2, <2>3 DEF WatchInv, TypeOK
<1>6. WatchdogIsOfLink'
  BY <1>1, <1>2 DEF WatchInv, WatchdogIsOfLink
<1> QED
  BY <1>4, <1>5, <1>6 DEF WatchInv

\* A loop exits, and may arm a retry (subscriber.ts:482-572).
LEMMA ExitKeeps ==
  ASSUME WatchInv, NEW g \in Gens, LoopExits(g)
  PROVE  WatchInv'
<1>1. /\ Started(g) /\ loop' = [loop EXCEPT ![g] = "done"]
      /\ controller' = IF controller = g THEN None ELSE controller
      /\ active' = IF generation = g THEN None ELSE active
      /\ UNCHANGED <<link, cached, generation, waits, budget, aborted, dropped,
                     polling, fired, overdue, wire, stream, serving, superseded>>
  BY DEF LoopExits, Exits, Started, monVars, serverVars
<1>2. /\ retry' # retry =>
           retry' = g /\ generation = g /\ budget[g] > 0 /\ ~dropped
      /\ gaveUp' \in BOOLEAN
  <2>1. retry' # retry => retry' = g /\ generation = g /\ budget[g] > 0 /\ ~dropped
    BY DEF LoopExits
  <2>2. gaveUp' \in BOOLEAN
    BY Zenon DEF LoopExits
  <2> QED
    BY <2>1, <2>2
<1>3. loop' \in [Gens -> LoopStates]
  BY <1>1 DEF WatchInv, TypeOK, LoopStates
<1>4. \A h \in Gens : /\ loop'[h] = "none" <=> loop[h] = "none"
                      /\ Started(h) => Started(h)'
                      /\ Live(h)' => Live(h) /\ h # g /\ loop'[h] = loop[h]
  BY <1>1 DEF WatchInv, TypeOK, Started, Live
<1>5. \A h \in Gens : Live(h)' => Live(h) /\ controller' = controller
  BY <1>1, <1>4 DEF WatchInv, ControllerIsNewest
<1>6. ClaimsInOrder' /\ ControllerIsNewest' /\ SupersededIsOver' /\ CallsInOrder'
  BY <1>1, <1>3, <1>4, <1>5, LoopsGoOn
<1>7. RetryIsOwed' /\ WatchdogIsOfLink'
  BY <1>1, <1>2 DEF WatchInv, RetryIsOwed, WatchdogIsOfLink
<1>8. TypeOK'
  <2>1. {cached', dropped', gaveUp', polling', fired', overdue'} \subseteq BOOLEAN
    BY <1>1, <1>2 DEF WatchInv, TypeOK
  <2>2. {generation', controller', active', retry', serving'} \subseteq Gens \cup {None}
    BY <1>1, <1>2 DEF WatchInv, TypeOK
  <2> QED
    BY <1>1, <1>3, <2>1, <2>2 DEF WatchInv, TypeOK
<1> QED
  BY <1>6, <1>7, <1>8 DEF WatchInv

-----------------------------------------------------------------------------
(***************************************************************************)
(* The steps together.                                                     *)
(***************************************************************************)

\* onClose, a socket swap and every death: no timer survives, and no call but one
\* that waited for a connection (subscriber.ts:305-404,
\* token-refresh-handler.ts:282-343, client-lifecycle.ts:298-334).
LEMMA TeardownKeeps ==
  ASSUME WatchInv, LoopIsOfLink, Close \/ AttemptFails \/ Swap \/ TearDown
  PROVE  WatchInv'
<1>1. /\ UNCHANGED <<generation, budget>>
      /\ controller' = None /\ retry' = None /\ polling' = FALSE
      /\ UNCHANGED <<waits, active, gaveUp, fired, overdue>>
      /\ cached' \in {cached, FALSE} /\ dropped' \in {dropped, TRUE}
      /\ aborted' \in {aborted, aborted \cup ({controller} \ {None})}
      /\ link' \in {"down", "gone"} /\ (link' = "gone" => dropped')
  BY DEF Close, AttemptFails, Swap, TearDown
<1>2. /\ wire' \in {wire, <<>>} /\ serving' \in {serving, None}
      /\ superseded' = superseded
      /\ stream' \in [Gens -> {"none", "config", "attached", "ended"}]
  BY DEF Close, AttemptFails, Swap, TearDown, ConnectionEnds, serverVars, WatchInv, TypeOK
<1>3. \/ RejectCalls
      \/ /\ loop' = loop /\ link = "down"
         /\ aborted' = aborted \cup ({controller} \ {None}) \/ link' = "gone"
  BY DEF Close, AttemptFails, Swap, TearDown, CloseWrapper
<1>4. /\ loop' \in [Gens -> LoopStates] /\ wire' \in Seq(Frames)
      /\ ClaimsInOrder' /\ ControllerIsNewest' /\ CallsInOrder' /\ SupersededIsOver'
  <2>1. wire' \in Seq(Frames) /\ controller' \in {controller, None}
    BY <1>1, <1>2, EmptySeq DEF WatchInv, TypeOK, Frames
  <2>2. /\ loop' \in [Gens -> LoopStates]
        /\ \A g \in Gens : /\ loop'[g] = "none" <=> loop[g] = "none"
                           /\ Started(g) => Started(g)'
    BY <1>3 DEF RejectCalls, WatchInv, TypeOK, LoopStates, Started
  <2>3. ASSUME NEW g \in Gens, Live(g)'
        PROVE  Live(g) /\ link' = "gone" /\ loop'[g] = "calling"
    <3>1. loop' = loop /\ link = "down"
      BY <1>3, <2>3 DEF RejectCalls, Live
    <3>2. Live(g) /\ loop[g] = "calling"
      BY <1>1, <2>3, <3>1 DEF LoopIsOfLink, Live
    <3>3. controller = g /\ g # None
      BY <3>1, <3>2 DEF WatchInv, ControllerIsNewest, Gens, None
    <3> QED
      BY <1>3, <2>3, <3>1, <3>2, <3>3 DEF RejectCalls, Live
  <2> QED
    BY <1>1, <1>2, <2>1, <2>2, <2>3, LoopsGoOn
<1>5. RetryIsOwed' /\ WatchdogIsOfLink'
  BY <1>1 DEF RetryIsOwed, WatchdogIsOfLink
<1>6. TypeOK'
  <2>1. {cached', dropped', gaveUp', polling', fired', overdue'} \subseteq BOOLEAN
    <3>1. cached' \in BOOLEAN /\ dropped' \in BOOLEAN
      BY <1>1 DEF WatchInv, TypeOK
    <3>2. gaveUp' \in BOOLEAN /\ polling' \in BOOLEAN /\ fired' \in BOOLEAN /\ overdue' \in BOOLEAN
      BY <1>1 DEF WatchInv, TypeOK
    <3> QED
      BY <3>1, <3>2
  <2>2. {generation', controller', active', retry', serving'} \subseteq Gens \cup {None}
    BY <1>1, <1>2 DEF WatchInv, TypeOK
  <2>3. wire' \in Seq([kind : {"call", "abort"}, gen : Gens])
    BY <1>4 DEF Frames
  <2>4. aborted' \subseteq Gens /\ link' \in {"down", "up", "half", "gone"}
    BY <1>1 DEF WatchInv, TypeOK
  <2> QED
    BY <1>1, <1>2, <1>4, <2>1, <2>2, <2>3, <2>4 DEF WatchInv, TypeOK
<1> QED
  BY <1>4, <1>5, <1>6 DEF WatchInv

\* What the server does with a frame or a generator, but for a new call, and
\* what reaches the client's loop of it (publisher.ts:171-231).
LEMMA ServerKeeps ==
  ASSUME WatchInv,
         \/ ServerRefuses \/ ServerAborts
         \/ \E g \in Gens : ServerAttaches(g) \/ ServerDetaches(g)
  PROVE  WatchInv'
<1>1. /\ UNCHANGED <<link, cached, generation, waits, budget, aborted, controller,
                     active, dropped, retry, gaveUp, polling, fired, overdue,
                     serving, superseded>>
      /\ \/ loop' = loop
         \/ \E g \in Gens : loop[g] = "calling" /\ loop' = [loop EXCEPT ![g] = "broke"]
  <2>1. CASE ServerRefuses
    <3>1. Head(wire).gen \in Gens
      BY <2>1, FrameArrives DEF ServerRefuses
    <3> QED
      BY <2>1, <3>1 DEF ServerRefuses, monVars, WatchInv, TypeOK
  <2>2. CASE ServerAborts \/ \E g \in Gens : ServerAttaches(g) \/ ServerDetaches(g)
    BY <2>2 DEF ServerAborts, ServerAttaches, ServerDetaches, subVars, monVars
  <2> QED
    BY <2>1, <2>2
<1>2. /\ wire' \in Seq(Frames) /\ InOrder(wire', serving, StartedGens)
      /\ stream' \in [Gens -> {"none", "config", "attached", "ended"}]
  <2>1. CASE ServerRefuses \/ ServerAborts
    <3>1. PICK kind : Arrives(kind) /\ wire' = Tail(wire)
      BY <2>1 DEF ServerRefuses, ServerAborts
    <3>2. /\ wire' \in Seq(Frames) /\ InOrder(wire', serving, StartedGens)
          /\ Head(wire).gen \in Gens
      BY <3>1, FrameArrives
    <3>3. stream' \in [Gens -> {"none", "config", "attached", "ended"}]
      BY <2>1, <3>2 DEF ServerRefuses, ServerAborts, WatchInv, TypeOK
    <3> QED
      BY <3>2, <3>3
  <2>2. CASE \E g \in Gens : ServerAttaches(g) \/ ServerDetaches(g)
    <3>1. wire' = wire
      BY <2>2 DEF ServerAttaches, ServerDetaches
    <3>2. stream' \in [Gens -> {"none", "config", "attached", "ended"}]
      BY <2>2 DEF ServerAttaches, ServerDetaches, WatchInv, TypeOK
    <3> QED
      BY <3>1, <3>2 DEF WatchInv, TypeOK, CallsInOrder, Frames
  <2> QED
    BY <2>1, <2>2
<1>3. loop' \in [Gens -> LoopStates]
  BY <1>1 DEF WatchInv, TypeOK, LoopStates
<1>4. \A g \in Gens : /\ loop'[g] = "none" <=> loop[g] = "none"
                      /\ Started(g) <=> Started(g)'
                      /\ Live(g)' => Live(g) /\ loop'[g] = loop[g]
  BY <1>1 DEF WatchInv, TypeOK, Started, Live
<1>5. ClaimsInOrder' /\ ControllerIsNewest' /\ SupersededIsOver'
  BY <1>1, <1>3, <1>4, LoopsGoOn
<1>6. CallsInOrder'
  <2>1. StartedGens' = StartedGens
    BY <1>4 DEF StartedGens
  <2>2. serving' # None => Started(serving)'
    BY <1>1, <1>4 DEF WatchInv, TypeOK, CallsInOrder
  <2> QED
    BY <1>1, <1>2, <2>1, <2>2 DEF CallsInOrder
<1>7. RetryIsOwed' /\ WatchdogIsOfLink'
  BY <1>1 DEF WatchInv, RetryIsOwed, WatchdogIsOfLink
<1>8. TypeOK'
  <2>1. wire' \in Seq([kind : {"call", "abort"}, gen : Gens])
    BY <1>2 DEF Frames
  <2> QED
    BY <1>1, <1>2, <1>3, <2>1 DEF WatchInv, TypeOK
<1> QED
  BY <1>5, <1>6, <1>7, <1>8 DEF WatchInv

\* Events of the stream, the deadline and the monitor (subscriber.ts:461-481,
\* monitor.ts:128-246).
LEMMA EventsKeep ==
  ASSUME WatchInv,
         \/ \E g \in Gens : ConfigArrives(g) \/ PingArrives(g) \/ StreamEnds(g)
         \/ Dies \/ DeadlinePasses \/ Poll
  PROVE  WatchInv'
<1>1. /\ UNCHANGED <<cached, generation, waits, budget, aborted, controller,
                     active, dropped, retry, gaveUp, wire, stream, serving,
                     superseded>>
      /\ \/ loop' = loop
         \/ \E g \in Gens : /\ loop[g] = "calling" /\ g \notin aborted
                            /\ loop' = [loop EXCEPT ![g] = "watching"]
         \/ \E g \in Gens : /\ loop[g] = "watching"
                            /\ loop' = [loop EXCEPT ![g] = "over"]
      /\ loop' # loop => link = "up"
  BY DEF ConfigArrives, PingArrives, StreamEnds, Dies, DeadlinePasses, Poll,
         subVars, serverVars
<1>2. /\ link' \in {link, "half"} /\ (link' # link => link = "up")
      /\ polling' # polling => polling' = TRUE /\ link' = "up"
      /\ polling' \in {polling, TRUE}
      /\ fired' \in {fired, TRUE, FALSE} /\ overdue' \in {overdue, TRUE, FALSE}
  BY DEF ConfigArrives, PingArrives, StreamEnds, Dies, DeadlinePasses, Poll,
         monVars
<1>3. loop' \in [Gens -> LoopStates]
  BY <1>1 DEF WatchInv, TypeOK, LoopStates
<1>4. \A g \in Gens : /\ loop'[g] = "none" <=> loop[g] = "none"
                      /\ Started(g) => Started(g)'
                      /\ Live(g)' => Live(g)
  BY <1>1 DEF WatchInv, TypeOK, Started, Live
<1>5. ClaimsInOrder' /\ ControllerIsNewest' /\ SupersededIsOver' /\ CallsInOrder'
  <2>1. link = "gone" => link' = "gone" /\ loop' = loop
    BY <1>1, <1>2
  <2> QED
    BY <1>1, <1>3, <1>4, <2>1, LoopsGoOn
<1>6. RetryIsOwed' /\ WatchdogIsOfLink'
  BY <1>1, <1>2 DEF WatchInv, RetryIsOwed, WatchdogIsOfLink
<1>7. TypeOK'
  <2>1. {cached', dropped', gaveUp', polling', fired', overdue'} \subseteq BOOLEAN
    BY <1>1, <1>2 DEF WatchInv, TypeOK
  <2>2. link' \in {"down", "up", "half", "gone"}
    BY <1>2 DEF WatchInv, TypeOK
  <2> QED
    BY <1>1, <1>3, <2>1, <2>2 DEF WatchInv, TypeOK
<1> QED
  BY <1>5, <1>6, <1>7 DEF WatchInv

\* The public subscribe() of an open connection, and a retry (subscriber.ts
\* :219-241, :573-589): the generation it claims exists.
LEMMA SubscribesKeep ==
  ASSUME WatchInv, Open \/ RetryFires
  PROVE  WatchInv'
<1>1. CASE Open
  <2>1. /\ link = "down" /\ link' = "up" /\ dropped' = FALSE
        /\ SubscribeWith(Retries, FALSE)
        /\ generation + 1 + Retries <= MaxGen
        /\ UNCHANGED <<monVars, serverVars>>
    BY <1>1 DEF Open
  <2>2. Retries \in 0 .. Retries
    BY RetriesAssumption
  <2> QED
    BY <2>1, <2>2, SubscribesNext
<1>2. CASE RetryFires
  <2>1. /\ retry # None /\ UNCHANGED <<link, dropped, monVars, serverVars>>
        /\ SubscribeWith(budget[retry] - 1, gaveUp)
    BY <1>2 DEF RetryFires
  <2>2. /\ retry \in Gens /\ retry = generation /\ budget[retry] \in 0 .. Retries
        /\ budget[retry] > 0 /\ ~dropped /\ link # "gone"
        /\ generation + budget[generation] <= MaxGen
    BY <2>1 DEF WatchInv, TypeOK, RetryIsOwed, ClaimsInOrder
  <2>3. /\ budget[retry] - 1 \in 0 .. Retries
        /\ generation + 1 + (budget[retry] - 1) <= MaxGen
    BY <2>2, RetriesAssumption, MaxGenAssumption DEF Gens
  <2>4. gaveUp \in BOOLEAN /\ dropped' \in BOOLEAN /\ ~dropped'
    BY <2>1, <2>2 DEF WatchInv, TypeOK
  <2>5. /\ link' \in {"down", "up", "half"} /\ "gone" \notin {link, link'}
        /\ polling => link' \in {"up", "half"}
    BY <2>1, <2>2 DEF WatchInv, TypeOK, WatchdogIsOfLink
  <2> HIDE DEF WatchInv
  <2> QED
    BY <2>1, <2>3, <2>4, <2>5, SubscribesNext
<1> QED
  BY <1>1, <1>2

\* Every step of subscriber, client, server, stream and monitor keeps it.
LEMMA WatchStep == WatchInv /\ LoopIsOfLink /\ [Next]_vars => WatchInv'
<1> SUFFICES ASSUME WatchInv, LoopIsOfLink, [Next]_vars PROVE WatchInv'
  OBVIOUS
<1>1. CASE UNCHANGED vars
  <2>1. UNCHANGED <<link, cached, generation, loop, waits, budget, aborted,
                    controller, active, dropped, retry, gaveUp, polling, fired,
                    overdue, wire, stream, serving, superseded>>
    BY <1>1 DEF vars, subVars, monVars, serverVars
  <2>2. StartedGens' = StartedGens
    BY <2>1 DEF StartedGens, Started
  <2> QED
    BY <2>1, <2>2
    DEF WatchInv, TypeOK, ClaimsInOrder, ControllerIsNewest, RetryIsOwed,
        CallsInOrder, InOrder, SupersededIsOver, WatchdogIsOfLink, Started, Live
<1>2. CASE Subscriber
  BY <1>2, BarrierKeeps, ExitKeeps, SubscribesKeep DEF Subscriber
<1>3. CASE Client
  BY <1>3, SubscribesKeep, TeardownKeeps, EventsKeep DEF Client
<1>4. CASE Server
  BY <1>4, ServesNewest, ServerKeeps DEF Server
<1>5. CASE Stream \/ DeadlinePasses \/ Poll
  BY <1>5, EventsKeep DEF Stream
<1> QED
  BY <1>1, <1>2, <1>3, <1>4, <1>5 DEF Next

\* A loop gets its config event over an open connection, and is over when that ends
\* (subscriber.ts:461-481).
LEMMA LoopStep == WatchInv /\ LoopIsOfLink /\ [Next]_vars => LoopIsOfLink'
<1> SUFFICES ASSUME WatchInv, LoopIsOfLink, [Next]_vars,
                    NEW g \in Gens, loop'[g] = "watching"
             PROVE  link' \in {"up", "half"}
  BY DEF LoopIsOfLink
<1>1. loop \in [Gens -> LoopStates]
  BY DEF WatchInv, TypeOK
<1>2. CASE Subscriber \/ Open
  <2>1. link' \in {link, "up"}
    BY <1>2 DEF Subscriber, LeaveBarrier, LoopExits, RetryFires, Open
  <2>2. loop[g] = "watching"
    BY <1>1, <1>2 DEF Subscriber, LeaveBarrier, LoopExits, RetryFires, Open,
       SubscribeWith, RunLoop
  <2> QED
    BY <2>1, <2>2 DEF LoopIsOfLink
<1>3. CASE Close \/ AttemptFails \/ Swap \/ TearDown
  BY <1>1, <1>3 DEF Close, AttemptFails, Swap, TearDown, CloseWrapper, RejectCalls,
     LoopIsOfLink
<1>4. CASE Dies \/ DeadlinePasses \/ Poll \/ Server
  <2>1. link' \in {link, "half"}
    BY <1>4 DEF Dies, DeadlinePasses, Poll, Server, ServerSubscribes, ServerRefuses,
       ServerAborts, ServerAttaches, ServerDetaches
  <2>2. loop[g] = "watching"
    BY <1>1, <1>4 DEF Dies, DeadlinePasses, Poll, Server, ServerSubscribes, ServerRefuses,
       ServerAborts, ServerAttaches, ServerDetaches, subVars
  <2> QED
    BY <2>1, <2>2 DEF LoopIsOfLink
<1>5. CASE Stream
  BY <1>5 DEF Stream, ConfigArrives, PingArrives, StreamEnds
<1>6. CASE UNCHANGED vars
  BY <1>6 DEF vars, subVars, LoopIsOfLink
<1> QED
  BY <1>2, <1>3, <1>4, <1>5, <1>6 DEF Next, Client

\* A client starts with no call, no stream and no timer (index.ts:435-464).
LEMMA WatchInit == Init => WatchInv
<1> SUFFICES ASSUME Init PROVE WatchInv
  OBVIOUS
<1>1. TypeOK
  <2>1. {cached, dropped, gaveUp, polling, fired, overdue} \subseteq BOOLEAN
    BY DEF Init
  <2>2. {generation, controller, active, retry, serving} \subseteq Gens \cup {None}
    BY DEF Init
  <2>3. /\ loop \in [Gens -> LoopStates] /\ waits \in [Gens -> Gens \cup {None}]
        /\ budget \in [Gens -> 0 .. Retries]
        /\ stream \in [Gens -> {"none", "config", "attached", "ended"}]
    BY RetriesAssumption DEF Init, LoopStates
  <2>4. wire \in Seq([kind : {"call", "abort"}, gen : Gens])
    BY EmptySeq DEF Init
  <2> QED
    BY <2>1, <2>2, <2>3, <2>4 DEF Init, TypeOK
<1>2. ClaimsInOrder
  BY DEF Init, ClaimsInOrder, Gens, None
<1>3. Len(wire) = 0
  BY DEF Init
<1> QED
  BY <1>1, <1>2, <1>3
  DEF Init, WatchInv, ControllerIsNewest, RetryIsOwed, CallsInOrder, InOrder,
      SupersededIsOver, WatchdogIsOfLink, Live

\* The invariant of the heartbeat, whatever subscribes and whenever.
LEMMA WatchIsKept == Spec => []WatchInv
<1>1. Init => LoopIsOfLink
  BY DEF Init, LoopIsOfLink
<1> QED
  BY <1>1, WatchInit, WatchStep, LoopStep, PTL DEF Spec

\* For every number of calls and every budget, however calls, teardowns and the
\* barrier interleave: at most one loop takes events, abort() and drop() reach
\* it, and the server's last-wins bound ends no loop that is still in use
\* (subscriber.ts:150-165, publisher.ts:147-157).
THEOREM OneLoopWatches == Spec => []OneConsumer
<1>1. WatchInv => OneConsumer
  BY DEF WatchInv, OneConsumer, ControllerIsNewest, SupersededIsOver, Live
<1> QED
  BY <1>1, WatchIsKept, PTL

\* For every number of calls and every budget: the watchdog polls only over a
\* connection, and a retry is armed only for the newest call of a client that
\* still wants a heartbeat (subscriber.ts:166-174, :380-391).
THEOREM TimersAreOwed == Spec => []NoStrayTimer
<1>1. WatchInv => NoStrayTimer
  BY DEF WatchInv, NoStrayTimer, RetryIsOwed, WatchdogIsOfLink
<1> QED
  BY <1>1, WatchIsKept, PTL

-----------------------------------------------------------------------------
(***************************************************************************)
(* The safety half of WatchedOrGivenUp: nobody waits for nothing.          *)
(***************************************************************************)

\* A loop that is over, or about to be.
Ends(g) == loop[g] = "done" \/ Exits(g)

\* What a call in the barrier awaits is a loop that ends.
BarrierEnds == \A g \in Gens : loop[g] = "barrier" => waits[g] \in Gens /\ Ends(waits[g])

\* The newest call is still on its way to the config event.
OnItsWay == loop[generation] \in {"barrier", "calling", "broke"}

\* Over an open connection the newest call is not aborted; and the watchdog runs, or
\* a retry is armed, or that call is on its way, unless the budget is spent.
StillTrying ==
  link = "up" => /\ ~dropped /\ generation # None /\ generation \notin aborted
                 /\ polling \/ gaveUp \/ retry # None \/ OnItsWay

TryInv ==
  /\ \A g \in aborted : Started(g)
  /\ active # None => Started(active)
  /\ BarrierEnds
  /\ StillTrying

\* The server and the stream move a loop on its way, and no further than a watchdog
\* that runs (subscriber.ts:461-572).
LEMMA EventsTry ==
  ASSUME WatchInv, TryInv,
         \/ Server \/ Stream \/ Dies \/ DeadlinePasses \/ Poll
  PROVE  TryInv'
<1>1. /\ UNCHANGED <<generation, waits, aborted, active, dropped, retry, gaveUp>>
      /\ \/ loop' = loop
         \/ \E g \in Gens : loop[g] = "calling" /\ loop' = [loop EXCEPT ![g] = "broke"]
         \/ \E g \in Gens : /\ loop[g] = "calling" /\ g \notin aborted
                            /\ loop' = [loop EXCEPT ![g] = "watching"]
                            /\ polling' = TRUE
         \/ \E g \in Gens : /\ loop[g] = "watching"
                            /\ loop' = [loop EXCEPT ![g] = "over"]
  <2>1. CASE ServerRefuses
    <3>1. Head(wire).gen \in Gens
      BY <2>1, FrameArrives DEF ServerRefuses
    <3> QED
      BY <2>1, <3>1 DEF ServerRefuses, monVars, WatchInv, TypeOK
  <2>2. CASE \/ ServerSubscribes \/ ServerAborts \/ Dies \/ DeadlinePasses \/ Poll
             \/ \E g \in Gens : ServerAttaches(g) \/ ServerDetaches(g)
    BY <2>2 DEF ServerSubscribes, ServerAborts, ServerAttaches, ServerDetaches, Dies,
       DeadlinePasses, Poll, subVars
  <2>3. CASE Stream
    BY <2>3 DEF Stream, ConfigArrives, PingArrives, StreamEnds, subVars
  <2> QED
    BY <2>1, <2>2, <2>3 DEF Server
<1>2. link' \in {link, "half"} /\ polling' \in {polling, TRUE}
  BY DEF Server, Stream, ServerSubscribes, ServerRefuses, ServerAborts, ServerAttaches,
     ServerDetaches, ConfigArrives, PingArrives, StreamEnds, Dies, DeadlinePasses, Poll,
     monVars
<1>3. \A g \in Gens : /\ Started(g) => Started(g)'
                      /\ Ends(g) => Ends(g)'
                      /\ loop'[g] = "barrier" <=> loop[g] = "barrier"
  BY <1>1 DEF WatchInv, TypeOK, Started, Ends, Exits
<1>4. generation \in Gens /\ OnItsWay => OnItsWay' \/ polling'
  BY <1>1 DEF WatchInv, TypeOK, OnItsWay
<1>5. BarrierEnds'
  BY <1>1, <1>3 DEF WatchInv, TypeOK, TryInv, BarrierEnds
<1>6. StillTrying'
  <2> SUFFICES ASSUME link' = "up" PROVE StillTrying'
    BY DEF StillTrying
  <2>1. /\ ~dropped /\ generation # None /\ generation \notin aborted
        /\ polling \/ gaveUp \/ retry # None \/ OnItsWay
    BY <1>2 DEF TryInv, StillTrying
  <2>2. generation \in Gens
    BY <2>1 DEF WatchInv, TypeOK
  <2>3. polling => polling'
    BY <1>2, Zenon
  <2> QED
    BY <1>1, <1>4, <2>1, <2>2, <2>3 DEF StillTrying
<1> QED
  BY <1>1, <1>3, <1>5, <1>6 DEF WatchInv, TypeOK, TryInv

\* A connection that ends takes its calls with it, and the next one starts afresh
\* (subscriber.ts:305-404).
LEMMA TeardownTries ==
  ASSUME WatchInv, TryInv, Close \/ AttemptFails \/ Swap \/ TearDown
  PROVE  TryInv'
<1>1. /\ RejectCalls \/ loop' = loop
      /\ UNCHANGED <<waits, active>>
      /\ aborted' \in {aborted, aborted \cup ({controller} \ {None})}
      /\ link' # "up"
  BY DEF Close, AttemptFails, Swap, TearDown, CloseWrapper
<1>2. controller # None => controller \in Gens /\ Started(controller)
  BY DEF WatchInv, TypeOK, ControllerIsNewest
<1>3. \A g \in Gens : /\ Started(g) => Started(g)'
                      /\ Ends(g) => Ends(g)'
                      /\ loop'[g] = "barrier" <=> loop[g] = "barrier"
  BY <1>1 DEF RejectCalls, Started, Ends, Exits
<1> QED
  BY <1>1, <1>2, <1>3 DEF WatchInv, TypeOK, TryInv, BarrierEnds, StillTrying

\* A loop that exits is over for good; the newest one's failure arms a retry or spends
\* the budget (subscriber.ts:482-572).
LEMMA ExitTries ==
  ASSUME WatchInv, TryInv, NEW g \in Gens, LoopExits(g)
  PROVE  TryInv'
<1>1. /\ loop' = [loop EXCEPT ![g] = "done"]
      /\ active' \in {active, None}
      /\ UNCHANGED <<link, generation, waits, budget, aborted, dropped, polling>>
  BY DEF LoopExits, monVars
<1>2. \A h \in Gens : /\ Started(h) => Started(h)'
                      /\ Ends(h) => Ends(h)'
                      /\ loop'[h] = "barrier" => loop[h] = "barrier"
  BY <1>1 DEF WatchInv, TypeOK, Started, Ends, Exits
<1>3. StillTrying'
  <2> SUFFICES ASSUME link = "up"
               PROVE  polling \/ gaveUp' \/ retry' # None \/ OnItsWay'
    BY <1>1 DEF TryInv, StillTrying
  <2>1. retry # None => retry' # None
    BY DEF LoopExits, Gens, None
  <2>2. gaveUp => gaveUp'
    BY DEF LoopExits
  <2>3. CASE OnItsWay /\ generation = g
    <3>1. loop[g] = "broke" /\ g \notin aborted /\ ~dropped
      BY <2>3 DEF TryInv, StillTrying, OnItsWay, LoopExits, Exits
    <3>2. budget[g] > 0 \/ budget[g] = 0
      BY RetriesAssumption DEF WatchInv, TypeOK
    <3>3. g # None
      BY DEF Gens, None
    <3>4. budget[g] > 0 => retry' = g
      BY <2>3, <3>1 DEF LoopExits
    <3>5. budget[g] = 0 => gaveUp'
      BY <2>3, <3>1, Zenon DEF LoopExits
    <3> QED
      BY <3>2, <3>3, <3>4, <3>5
  <2>4. CASE OnItsWay /\ generation # g
    BY <1>1, <2>4 DEF WatchInv, TypeOK, OnItsWay
  <2> QED
    BY <1>1, <2>1, <2>2, <2>3, <2>4 DEF TryInv, StillTrying
<1> QED
  BY <1>1, <1>2, <1>3 DEF WatchInv, TypeOK, TryInv, BarrierEnds

\* A call leaves the barrier: it asks for its stream, or a newer one is there
\* (subscriber.ts:270-303).
LEMMA BarrierTries ==
  ASSUME WatchInv, TryInv, NEW g \in Gens, LeaveBarrier(g)
  PROVE  TryInv'
<1>1. /\ loop[g] = "barrier" /\ waits' = [waits EXCEPT ![g] = None]
      /\ UNCHANGED <<link, generation, budget, aborted, dropped, polling>>
  BY DEF LeaveBarrier, monVars
<1>2. CASE generation = g
  <2>1. RunLoop(g, budget[g], <<>>, gaveUp)
    BY <1>2 DEF LeaveBarrier
  <2>2. /\ active' = g
        /\ \/ loop' = [loop EXCEPT ![g] = "calling"]
           \/ loop' = [loop EXCEPT ![g] = "done"] /\ link # "up"
    BY <1>1, <2>1 DEF RunLoop
  <2>3. \A h \in Gens : /\ Started(h) => Started(h)'
                        /\ Ends(h) => Ends(h)'
                        /\ loop'[h] = "barrier" => loop[h] = "barrier" /\ h # g
    BY <1>1, <2>2 DEF WatchInv, TypeOK, Started, Ends, Exits
  <2>4. Started(g)'
    BY <2>2 DEF WatchInv, TypeOK, Started
  <2>5. StillTrying'
    BY <1>1, <1>2, <2>2 DEF WatchInv, TypeOK, TryInv, StillTrying, OnItsWay
  <2>6. BarrierEnds'
    BY <1>1, <2>3 DEF WatchInv, TypeOK, TryInv, BarrierEnds
  <2> QED
    BY <1>1, <2>2, <2>3, <2>4, <2>5, <2>6 DEF WatchInv, TypeOK, TryInv
<1>3. CASE generation # g
  <2>1. loop' = [loop EXCEPT ![g] = "done"] /\ UNCHANGED <<active, retry, gaveUp>>
    BY <1>3 DEF LeaveBarrier
  <2>2. \A h \in Gens : /\ Started(h) => Started(h)'
                        /\ Ends(h) => Ends(h)'
                        /\ loop'[h] = "barrier" => loop[h] = "barrier" /\ h # g
    BY <1>1, <2>1 DEF WatchInv, TypeOK, Started, Ends, Exits
  <2>3. StillTrying'
    BY <1>1, <1>3, <2>1 DEF WatchInv, TypeOK, TryInv, StillTrying, OnItsWay
  <2>4. BarrierEnds'
    BY <1>1, <2>2 DEF WatchInv, TypeOK, TryInv, BarrierEnds
  <2> QED
    BY <1>1, <2>1, <2>2, <2>3, <2>4 DEF WatchInv, TypeOK, TryInv
<1> QED
  BY <1>2, <1>3

\* A new call asks for its stream, or waits for the loop of its predecessor, which
\* it aborts (subscriber.ts:219-303).
LEMMA SubscribesTry ==
  ASSUME WatchInv, TryInv, NEW retries, NEW gave, SubscribeWith(retries, gave),
         generation + 1 \in Gens, link # "gone", link' = "up" => ~dropped'
  PROVE  TryInv'
<1> DEFINE g == generation + 1
<1>1. /\ generation' = g /\ g \in Gens /\ g # None
      /\ aborted' = aborted \cup ({controller} \ {None})
  BY DEF SubscribeWith, Gens, None
<1>2. loop[g] = "none" /\ ~Started(g)
  BY <1>1 DEF WatchInv, TypeOK, ClaimsInOrder, Started, Gens, None
<1>3. controller # None => controller \in Gens /\ Started(controller)
  BY DEF WatchInv, TypeOK, ControllerIsNewest
<1>4. /\ loop' \in {[loop EXCEPT ![g] = "calling"], [loop EXCEPT ![g] = "done"],
                    [loop EXCEPT ![g] = "barrier"]}
      /\ link' = "up" => loop'[g] # "done"
      /\ loop'[g] = "barrier" => active # None /\ waits' = [waits EXCEPT ![g] = active]
      /\ loop'[g] # "barrier" => waits' = waits
      /\ active' \in {g, None} /\ (active' = g => loop'[g] # "barrier")
  BY <1>1 DEF SubscribeWith, RunLoop, WatchInv, TypeOK
<1>5. \A h \in Gens : /\ Started(h) => Started(h)'
                      /\ Ends(h) => Ends(h)'
                      /\ h # g => loop'[h] = loop[h]
  BY <1>1, <1>2, <1>4 DEF WatchInv, TypeOK, Started, Ends, Exits
<1>6. \A h \in Gens : active = h => h # g /\ Ends(h)'
  <2> SUFFICES ASSUME NEW h \in Gens, active = h PROVE h # g /\ Ends(h)'
    OBVIOUS
  <2>1. Started(h) /\ h # g
    BY <1>2 DEF TryInv, Gens, None
  <2>2. Live(h) => h \in aborted'
    BY <1>1 DEF WatchInv, ControllerIsNewest, Gens, None
  <2>3. aborted \subseteq aborted' /\ loop'[h] = loop[h]
    BY <1>1, <1>5, <2>1
  <2>4. loop[h] \in LoopStates
    BY DEF WatchInv, TypeOK
  <2> QED
    BY <2>1, <2>2, <2>3, <2>4 DEF Started, Live, Ends, Exits, LoopStates
<1>7. BarrierEnds'
  <2> SUFFICES ASSUME NEW h \in Gens, loop'[h] = "barrier"
               PROVE  \E k \in Gens : waits'[h] = k /\ Ends(k)'
    BY DEF BarrierEnds, Ends, Exits
  <2>1. CASE h = g
    <3>1. active \in Gens /\ waits'[h] = active
      BY <1>1, <1>4, <2>1 DEF WatchInv, TypeOK
    <3>2. PICK k \in Gens : k = active
      BY <3>1
    <3> QED
      BY <1>6, <3>1, <3>2
  <2>2. CASE h # g
    <3>1. loop[h] = "barrier" /\ waits'[h] = waits[h]
      BY <1>1, <1>4, <1>5, <2>2 DEF WatchInv, TypeOK
    <3>2. PICK k \in Gens : waits[h] = k /\ Ends(k)
      BY <3>1 DEF TryInv, BarrierEnds
    <3> QED
      BY <1>5, <3>1, <3>2
  <2> QED
    BY <2>1, <2>2
<1>8. \A h \in aborted' : Started(h)' /\ h # g
  BY <1>1, <1>2, <1>3, <1>5 DEF TryInv, WatchInv, TypeOK
<1>9. active' # None => Started(active)'
  BY <1>1, <1>4 DEF Started, WatchInv, TypeOK
<1>10. StillTrying'
  <2>1. link' = "up" => OnItsWay'
    BY <1>1, <1>4 DEF OnItsWay, WatchInv, TypeOK
  <2> QED
    BY <1>1, <1>8, <2>1 DEF StillTrying
<1> QED
  BY <1>7, <1>8, <1>9, <1>10 DEF TryInv

\* Every step keeps it.
LEMMA TryStep == WatchInv /\ TryInv /\ [Next]_vars => TryInv'
<1> SUFFICES ASSUME WatchInv, TryInv, [Next]_vars PROVE TryInv'
  OBVIOUS
<1>1. CASE UNCHANGED vars
  BY <1>1 DEF vars, subVars, monVars, TryInv, BarrierEnds, StillTrying, OnItsWay,
     Started, Ends, Exits
<1>2. CASE Open
  <2>1. /\ SubscribeWith(Retries, FALSE) /\ dropped' = FALSE /\ link = "down"
        /\ generation + 1 + Retries <= MaxGen
    BY <1>2 DEF Open
  <2>2. generation + 1 \in Gens
    BY <2>1, RetriesAssumption, MaxGenAssumption DEF WatchInv, TypeOK, Gens, None
  <2> QED
    BY <2>1, <2>2, SubscribesTry
<1>3. CASE RetryFires
  <2>1. /\ retry # None /\ UNCHANGED <<link, dropped>>
        /\ SubscribeWith(budget[retry] - 1, gaveUp)
    BY <1>3 DEF RetryFires
  <2>2. /\ retry \in Gens /\ retry = generation /\ budget[retry] \in 0 .. Retries
        /\ budget[retry] > 0 /\ ~dropped /\ link # "gone"
        /\ generation + budget[generation] <= MaxGen
    BY <2>1 DEF WatchInv, TypeOK, RetryIsOwed, ClaimsInOrder
  <2>3. generation + 1 \in Gens
    BY <2>2, RetriesAssumption, MaxGenAssumption DEF Gens
  <2> QED
    BY <2>1, <2>2, <2>3, SubscribesTry
<1>4. CASE \E g \in Gens : LeaveBarrier(g) \/ LoopExits(g)
  BY <1>4, BarrierTries, ExitTries
<1>5. CASE Close \/ AttemptFails \/ Swap \/ TearDown
  BY <1>5, TeardownTries
<1>6. CASE Server \/ Stream \/ Dies \/ DeadlinePasses \/ Poll
  BY <1>6, EventsTry
<1> QED
  BY <1>1, <1>2, <1>3, <1>4, <1>5, <1>6 DEF Next, Subscriber, Client

\* For every number of calls and every budget: a call in the barrier awaits a loop
\* that has ended or is about to, and while a connection is open the watchdog runs, a
\* retry is armed or the newest call is on its way, unless the budget is spent; so the
\* heartbeat of an open connection is never lost in silence (subscriber.ts:242-303,
\* :482-589, NFI-1).
THEOREM NeverLostInSilence == Spec => [](BarrierEnds /\ StillTrying)
<1>1. Init => TryInv
  BY DEF Init, TryInv, BarrierEnds, StillTrying
<1>2. TryInv => BarrierEnds /\ StillTrying
  BY DEF TryInv
<1> QED
  BY <1>1, <1>2, TryStep, WatchIsKept, PTL DEF Spec
=============================================================================
