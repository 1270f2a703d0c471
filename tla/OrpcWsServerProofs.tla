------------------------- MODULE OrpcWsServerProofs -------------------------
(***************************************************************************)
(* Proofs about OrpcWsServer for every set of sockets and users, every     *)
(* configuration, fault and re-entrant hook: whoever is connected is       *)
(* reachable, an upgrade is answered once, the connection keys behave as   *)
(* SessionDirectory says, nothing is leaked and nobody is cut off early.   *)
(***************************************************************************)
EXTENDS OrpcWsServer, TLAPS

ConnStates == {"idle", "verifying", "refused", "open", "closing", "destroyed", "closed"}

\* The variables the proofs speak about.
Types ==
  /\ mode \in AllModes
  /\ conn \in [Sockets -> ConnStates]
  /\ key \in [Sockets -> Keys]
  /\ map \in [Keys -> Sockets \cup {NoWs}]
  /\ registering \in Sockets \cup {NoWs}
  /\ answers \in [Sockets -> Nat]
  /\ stash \in SUBSET Sockets
  /\ connected \in SUBSET Sockets

\* Without users and without exclusion, every connection has a key of its own.
KeysOwn == mode = "authless-concurrent" => \A s \in Sockets : key[s] = s

\* An upgrade that is not decided yet was not answered, and is nobody's session.
Undecided(s) == conn[s] \in {"idle", "verifying"}

UndecidedIsNew ==
  \A s \in Sockets : Undecided(s) =>
    /\ s \notin connected
    /\ s # registering
    /\ answers[s] = 0
    /\ s \notin stash

\* The newcomer whose predecessor's kick is being reported: it replaces whoever
\* was open under its key, and is announced only afterwards.
NewcomerIsAlone ==
  registering # NoWs =>
    /\ registering \notin connected
    /\ Single
    /\ ~Authless => registering \in stash
    /\ \A t \in connected : key[t] = key[registering] => conn[t] # "open"

IInv ==
  /\ Types
  /\ KeysOwn
  /\ UndecidedIsNew
  /\ NewcomerIsAlone
  /\ AnsweredOnce
  /\ EveryoneIsReachable

\* What the proofs see of a step that announces nobody.
AnnouncesNobody ==
  /\ UNCHANGED <<mode, key, connected>>
  /\ conn' \in [Sockets -> ConnStates]
  /\ \A s \in Sockets : conn'[s] = "open" /\ s \in connected => conn[s] = "open"

\* ... and one that announces s.
Announces(s) ==
  /\ UNCHANGED <<mode, key>>
  /\ s \notin connected
  /\ connected' = connected \cup {s}
  /\ conn' = [conn EXCEPT ![s] = "open"]
  /\ Single => \A t \in connected : key[t] = key[s] => conn[t] # "open"

\* What the proofs see of the verdict on s: at most one answer, and an identity
\* wherever there is authentication.
Answered(s) ==
  /\ stash' \in SUBSET Sockets
  /\ answers' \in [Sockets -> Nat]
  /\ answers'[s] <= 1
  /\ answers'[s] = 0 => s \notin stash'
  /\ ~Authless => s \in stash'
  /\ \A t \in Sockets \ {s} : answers'[t] = answers[t] /\ (t \in stash' <=> t \in stash)

USE NoWsAssumption, UsersAssumption, ModesAssumption

-----------------------------------------------------------------------------
\* The server starts with nobody connected.
LEMMA InitInv == Init => IInv
<1> SUFFICES ASSUME Init
             PROVE  IInv
  OBVIOUS
<1> USE DEF Init
<1>1. Types
  BY DEF Types, ConnStates, AllModes
<1>2. KeysOwn
  BY DEF KeysOwn, KeyOf, Authless
<1>3. UndecidedIsNew /\ NewcomerIsAlone /\ AnsweredOnce /\ EveryoneIsReachable
  BY DEF UndecidedIsNew, NewcomerIsAlone, AnsweredOnce, EveryoneIsReachable
<1> QED
  BY <1>1, <1>2, <1>3 DEF IInv

\* Closing, terminating and forgetting sockets keeps the invariant.
LEMMA Closing ==
  ASSUME IInv,
         conn' \in [Sockets -> ConnStates],
         \A s \in Sockets : conn'[s] = "open" => conn[s] = "open",
         \A s \in Sockets : Undecided(s)' => Undecided(s),
         UNCHANGED <<mode, key, map, registering, answers, stash, connected>>
  PROVE  IInv' /\ AnnouncesNobody
<1> USE DEF IInv
<1>1. Types' /\ KeysOwn'
  BY DEF Types, KeysOwn
<1>2. UndecidedIsNew'
  BY DEF UndecidedIsNew, Undecided
<1>3. NewcomerIsAlone'
  BY DEF NewcomerIsAlone, Single, Authless, Types
<1>4. AnsweredOnce'
  BY DEF AnsweredOnce, Authless
<1>5. EveryoneIsReachable'
  BY DEF EveryoneIsReachable, GetConnection, Get, Types
<1>6. AnnouncesNobody
  BY DEF AnnouncesNobody, Types
<1> QED
  BY <1>1, <1>2, <1>3, <1>4, <1>5, <1>6

-----------------------------------------------------------------------------
\* The end of handle(): the newcomer becomes the entry of its key and is
\* announced, or its wiring is rolled back and it closes.
LEMMA Finishing ==
  ASSUME IInv,
         NEW s \in Sockets,
         s \notin connected,
         mode # "concurrent" =>
           \A t \in connected : key[t] = key[s] => conn[t] # "open",
         Answered(s),
         Finish(s),
         UNCHANGED <<mode, key>>,
         registering' = NoWs
  PROVE  IInv' /\ (AnnouncesNobody \/ Announces(s))
<1> USE DEF IInv
<1>1. CASE /\ map' = [map EXCEPT ![key[s]] = s]
           /\ conn' = [conn EXCEPT ![s] = "open"]
           /\ connected' = connected \cup {s}
  <2>1. Types' /\ KeysOwn'
    BY <1>1 DEF Types, KeysOwn, Answered, ConnStates
  <2>2. UndecidedIsNew'
    BY <1>1 DEF UndecidedIsNew, Undecided, Answered, Types
  <2>3. NewcomerIsAlone'
    BY DEF NewcomerIsAlone
  <2>4. AnsweredOnce'
    BY <1>1 DEF AnsweredOnce, Authless, Answered, Types
  <2>5. EveryoneIsReachable'
    BY <1>1 DEF EveryoneIsReachable, GetConnection, Get, Types
  <2>6. Announces(s)
    BY <1>1 DEF Announces, Single
  <2> QED
    BY <2>1, <2>2, <2>3, <2>4, <2>5, <2>6
<1>2. CASE /\ map' = [map EXCEPT ![key[s]] = NoWs]
           /\ conn' = [conn EXCEPT ![s] = "closing"]
           /\ connected' = connected
  <2>1. Types' /\ KeysOwn'
    BY <1>2 DEF Types, KeysOwn, Answered, ConnStates
  <2>2. UndecidedIsNew'
    BY <1>2 DEF UndecidedIsNew, Undecided, Answered, Types
  <2>3. NewcomerIsAlone'
    BY DEF NewcomerIsAlone
  <2>4. AnsweredOnce'
    BY <1>2 DEF AnsweredOnce, Authless, Answered, Types
  <2>5. EveryoneIsReachable'
    BY <1>2 DEF EveryoneIsReachable, GetConnection, Get, Types
  <2>6. AnnouncesNobody
    BY <1>2 DEF AnnouncesNobody, Types, ConnStates
  <2> QED
    BY <2>1, <2>2, <2>3, <2>4, <2>5, <2>6
<1> QED
  BY <1>1, <1>2 DEF Finish, RollsBack, Wires

\* handle(): a newcomer with nobody to replace is wired at once; else its
\* predecessor is closed first, and it is alone while the hook runs.
LEMMA Connecting ==
  ASSUME IInv,
         Task,
         NEW s \in Sockets,
         Undecided(s),
         Answered(s),
         Connect(s),
         UNCHANGED <<mode, key>>
  PROVE  IInv' /\ (AnnouncesNobody \/ Announces(s))
<1> USE DEF IInv
<1>1. s \notin connected
  BY DEF UndecidedIsNew
<1>2. CASE Finish(s) /\ ~Kicks(s) /\ registering' = registering
  <2>1. mode # "concurrent" =>
          \A t \in connected : key[t] = key[s] => conn[t] # "open"
    <3> SUFFICES ASSUME mode # "concurrent",
                        NEW t \in connected, key[t] = key[s], conn[t] = "open"
                 PROVE  FALSE
      OBVIOUS
    <3>1. t \in Sockets /\ t # s /\ map[key[s]] = t
      BY <1>1 DEF EveryoneIsReachable, GetConnection, Get, Types
    <3>2. CASE Single
      BY <1>2, <3>1, <3>2 DEF Kicks
    <3>3. CASE ~Single
      BY <3>1, <3>3 DEF KeysOwn, Single, Types, AllModes
    <3> QED
      BY <3>2, <3>3
  <2> QED
    BY <1>1, <1>2, <2>1, Finishing DEF Task
<1>3. CASE /\ Kicks(s)
           /\ conn' = [conn EXCEPT ![s] = "open",
                                   ![map[key[s]]] = IF @ = "open" THEN "closing" ELSE @]
           /\ registering' = s
           /\ UNCHANGED <<map, connected>>
  <2> DEFINE old == map[key[s]]
  <2>1. old \in Sockets
    BY <1>3 DEF Kicks, Types
  <2>2. /\ conn' \in [Sockets -> ConnStates]
        /\ conn'[s] # "idle" /\ conn'[s] # "verifying"
        /\ \A t \in Sockets \ {s} : conn'[t] = conn[t] \/ (t = old /\ conn'[t] = "closing")
        /\ old # s => conn'[old] # "open"
    BY <1>3, <2>1 DEF Types, ConnStates
  <2>3. Types' /\ KeysOwn'
    BY <1>3, <2>2 DEF Types, KeysOwn, Answered
  <2>4. UndecidedIsNew'
    BY <1>3, <2>2 DEF UndecidedIsNew, Undecided, Answered, Types
  <2>5. \A t \in connected : key[t] = key[s] => conn'[t] # "open"
    <3> SUFFICES ASSUME NEW t \in connected, key[t] = key[s], conn'[t] = "open"
                 PROVE  FALSE
      OBVIOUS
    <3>1. t \in Sockets /\ t # s
      BY <1>1 DEF Types
    <3>2. conn[t] = "open"
      BY <2>2, <3>1
    <3>3. old = t
      BY <1>3, <3>1, <3>2 DEF EveryoneIsReachable, GetConnection, Get, Kicks, Single
    <3> QED
      BY <2>2, <3>1, <3>3
  <2>6. NewcomerIsAlone'
    BY <1>1, <1>3, <2>5 DEF NewcomerIsAlone, Kicks, Single, Answered, Authless
  <2>7. AnsweredOnce'
    BY <1>1, <1>3 DEF AnsweredOnce, Authless, Answered, Types
  <2>8. EveryoneIsReachable'
    BY <1>1, <1>3, <2>2 DEF EveryoneIsReachable, GetConnection, Get, Types
  <2>9. AnnouncesNobody
    BY <1>1, <1>3, <2>2 DEF AnnouncesNobody, Types
  <2> QED
    BY <2>3, <2>4, <2>6, <2>7, <2>8, <2>9
<1>4. CASE /\ conn' = [conn EXCEPT ![s] = "closing"]
           /\ UNCHANGED <<map, registering, connected>>
  <2>1. Types' /\ KeysOwn'
    BY <1>4 DEF Types, KeysOwn, Answered, ConnStates
  <2>2. UndecidedIsNew'
    BY <1>4 DEF UndecidedIsNew, Undecided, Answered, Types
  <2>3. NewcomerIsAlone'
    BY <1>4 DEF NewcomerIsAlone, Task
  <2>4. AnsweredOnce'
    BY <1>1, <1>4 DEF AnsweredOnce, Authless, Answered, Types
  <2>5. EveryoneIsReachable'
    BY <1>4 DEF EveryoneIsReachable, GetConnection, Get, Types
  <2>6. AnnouncesNobody
    BY <1>4 DEF AnnouncesNobody, Types, ConnStates
  <2> QED
    BY <2>1, <2>2, <2>3, <2>4, <2>5, <2>6
<1> QED
  BY <1>2, <1>3, <1>4 DEF Connect, TransportFails

\* An upgrade that is refused, or dropped although it was accepted.
LEMMA Refusing ==
  ASSUME IInv,
         NEW s \in Sockets,
         Undecided(s),
         conn' = [conn EXCEPT ![s] = "refused"],
         Answer(s),
         stash' \in {stash, stash \cup {s}},
         UNCHANGED <<mode, key, map, registering, connected>>
  PROVE  IInv' /\ AnnouncesNobody
<1> USE DEF IInv, Answer
<1>1. Types' /\ KeysOwn'
  BY DEF Types, KeysOwn, ConnStates
<1>2. UndecidedIsNew'
  BY DEF UndecidedIsNew, Undecided, Types
<1>3. NewcomerIsAlone'
  BY DEF NewcomerIsAlone, Single, Authless, Types, UndecidedIsNew, Undecided
<1>4. AnsweredOnce'
  BY DEF AnsweredOnce, Authless, Types, UndecidedIsNew
<1>5. EveryoneIsReachable'
  BY DEF EveryoneIsReachable, GetConnection, Get, Types
<1>6. AnnouncesNobody
  BY DEF AnnouncesNobody, Types, ConnStates
<1> QED
  BY <1>1, <1>2, <1>3, <1>4, <1>5, <1>6

-----------------------------------------------------------------------------
\* Every step keeps the invariant, and announces at most one connection.
LEMMA Stepping == IInv /\ [Next]_vars =>
  IInv' /\ (AnnouncesNobody \/ \E s \in Sockets : Announces(s))
<1> SUFFICES ASSUME IInv, [Next]_vars
             PROVE  IInv' /\ (AnnouncesNobody \/ \E s \in Sockets : Announces(s))
  OBVIOUS
<1> USE DEF upgradeVars, pingVars, hookVars
<1>1. CASE Attach
  BY <1>1, Closing DEF Attach, IInv, Types, Undecided
<1>2. CASE Dispose
  BY <1>2, Closing DEF Dispose, CloseAll, IInv, Types, Undecided, ConnStates
<1>3. CASE GraceFires
  BY <1>3, Closing DEF GraceFires, IInv, Types, Undecided, ConnStates
<1>4. CASE WssCloses
  BY <1>4, Closing DEF WssCloses, IInv, Types, Undecided
<1>5. CASE KickHookReturns
  <2>1. registering \in Sockets /\ registering \notin connected
    BY <1>5 DEF KickHookReturns, IInv, Types, NewcomerIsAlone
  <2>2. Answered(registering)
    BY <1>5, <2>1 DEF KickHookReturns, IInv, Types, NewcomerIsAlone, AnsweredOnce,
                      Answered
  <2> QED
    BY <1>5, <2>1, <2>2, Finishing DEF KickHookReturns, IInv, NewcomerIsAlone
<1>6. CASE PingTick
  BY <1>6, Closing DEF PingTick, IInv, Types, Undecided, ConnStates
<1>7. ASSUME NEW k \in Keys, CloseUser(k)
      PROVE  IInv' /\ AnnouncesNobody
  BY <1>7, Closing DEF CloseUser, CloseAll, IInv, Types, Undecided, ConnStates
<1>8. ASSUME NEW s \in Sockets, UpgradeArrives(s)
      PROVE  IInv' /\ (AnnouncesNobody \/ Announces(s))
  <2>1. Undecided(s) /\ Task
    BY <1>8 DEF UpgradeArrives, Undecided
  <2>2. CASE HandleAuthless(s) /\ UNCHANGED <<pending, answers>>
    <3>1. Answered(s)
      BY <1>8, <2>1, <2>2 DEF UpgradeArrives, HandleAuthless, Answered, IInv, Types,
                              UndecidedIsNew
    <3> QED
      BY <1>8, <2>1, <2>2, <3>1, Connecting DEF UpgradeArrives, HandleAuthless
  <2>3. CASE conn' = [conn EXCEPT ![s] = "verifying"] /\ UNCHANGED answers /\ NoConnection
    BY <1>8, <2>1, <2>3, Closing DEF UpgradeArrives, NoConnection, IInv, Types, Undecided,
                                     ConnStates
  <2>4. CASE conn' = [conn EXCEPT ![s] = "refused"] /\ Answer(s) /\ NoConnection
    BY <1>8, <2>1, <2>4, Refusing DEF UpgradeArrives, NoConnection
  <2> QED
    BY <1>8, <2>2, <2>3, <2>4 DEF UpgradeArrives
<1>9. ASSUME NEW s \in Sockets, VerifyTimesOut(s)
      PROVE  IInv' /\ AnnouncesNobody
  BY <1>9, Refusing DEF VerifyTimesOut, NoConnection, Undecided
<1>10. ASSUME NEW s \in Sockets, NEW verdict \in Verdicts, VerifySettles(s, verdict)
       PROVE  IInv' /\ (AnnouncesNobody \/ Announces(s))
  <2>1. CASE conn[s] # "verifying"
    BY <1>10, <2>1, Closing DEF VerifySettles, NoConnection, IInv, Types, Undecided
  <2>2. CASE conn[s] = "verifying" /\ verdict = "ok" /\ stage = "attached" /\ s \notin gone
    <3>1. Connect(s) /\ Answer(s) /\ stash' = stash \cup {s} /\ UNCHANGED <<mode, key>> /\ Task
      BY <1>10, <2>2 DEF VerifySettles, Accept
    <3>2. Undecided(s) /\ Answered(s)
      BY <2>2, <3>1 DEF Undecided, Answered, Answer, IInv, Types, UndecidedIsNew
    <3> QED
      BY <3>1, <3>2, Connecting
  <2>3. CASE conn[s] = "verifying" /\ ~(verdict = "ok" /\ stage = "attached" /\ s \notin gone)
    BY <1>10, <2>3, Refusing DEF VerifySettles, Accept, NoConnection, Undecided
  <2> QED
    BY <2>1, <2>2, <2>3
<1>11. ASSUME NEW s \in Sockets, CloseEvent(s)
       PROVE  IInv' /\ AnnouncesNobody
  <2>1. /\ conn' = [conn EXCEPT ![s] = "closed"]
        /\ map' = map \/ map' = [map EXCEPT ![key[s]] = IF @ = s THEN NoWs ELSE @]
        /\ UNCHANGED <<mode, key, registering, answers, stash, connected>>
    BY <1>11 DEF CloseEvent
  <2>2. Types' /\ KeysOwn'
    BY <2>1 DEF IInv, Types, KeysOwn, ConnStates
  <2>3. UndecidedIsNew'
    BY <2>1 DEF IInv, UndecidedIsNew, Undecided, Types
  <2>4. NewcomerIsAlone'
    BY <2>1 DEF IInv, NewcomerIsAlone, Single, Authless, Types
  <2>5. AnsweredOnce'
    BY <2>1 DEF IInv, AnsweredOnce, Authless
  <2>6. EveryoneIsReachable'
    BY <2>1 DEF IInv, EveryoneIsReachable, GetConnection, Get, Types
  <2>7. AnnouncesNobody
    BY <2>1 DEF AnnouncesNobody, IInv, Types, ConnStates
  <2> QED
    BY <2>2, <2>3, <2>4, <2>5, <2>6, <2>7 DEF IInv
<1>12. ASSUME NEW s \in Sockets, Pong(s)
       PROVE  IInv' /\ AnnouncesNobody
  BY <1>12, Closing DEF Pong, IInv, Types, Undecided
<1>13. ASSUME NEW s \in Sockets, ExpiryFires(s)
       PROVE  IInv' /\ AnnouncesNobody
  BY <1>13, Closing DEF ExpiryFires, CloseAll, IInv, Types, Undecided, ConnStates
<1>14. ASSUME NEW s \in Sockets, PeerCloses(s)
       PROVE  IInv' /\ AnnouncesNobody
  BY <1>14, Closing DEF PeerCloses, IInv, Types, Undecided, ConnStates
<1>15. ASSUME NEW s \in Sockets, PeerVanishes(s)
       PROVE  IInv' /\ AnnouncesNobody
  BY <1>15, Closing DEF PeerVanishes, IInv, Types, Undecided
<1>16. CASE UNCHANGED vars
  BY <1>16, Closing DEF vars, IInv, Types, Undecided
<1> QED
  BY <1>1, <1>2, <1>3, <1>4, <1>5, <1>6, <1>7, <1>8, <1>9, <1>10, <1>11, <1>12, <1>13,
     <1>14, <1>15, <1>16 DEF Next, Host

\* The invariant holds for ever.
LEMMA Invariance == Spec => []IInv
BY InitInv, Stepping, PTL DEF Spec

\* Whoever is connected is the entry of its key, whatever closes late, fails or
\* calls back (connection-registry.ts:132-144, connection-handler.ts:551-612).
THEOREM Reachable == Spec => []EveryoneIsReachable
BY Invariance, PTL DEF IInv

\* An upgrade is answered once and nobody connects without an accepted one
\* (verify-client-orchestrator.ts:227-231, :307-314).
THEOREM VerdictsAreFinal == Spec => []AnsweredOnce
BY Invariance, PTL DEF IInv

-----------------------------------------------------------------------------
\* The server implements the directory: a step that announces nobody lets
\* connections leave, and one that announces s admits it in its predecessor's
\* place (connection-registry.ts:75-130).
THEOREM ServerImplementsDirectory == Spec => ImplementsDirectory
<1>1. Init => Directory!Init
  BY DEF Init, Directory!Init, Single
<1> DEFINE open(k) == {s \in connected : key[s] = k /\ conn[s] = "open"}
<1>2. ASSUME IInv, AnnouncesNobody
      PROVE  Directory!Next
  <2>1. PICK left \in SUBSET Sockets :
          left = {s \in connected : conn[s] = "open" /\ conn'[s] # "open"}
    BY <1>2 DEF IInv, Types
  <2>2. Single' = Single /\ connected' = connected
    BY <1>2 DEF AnnouncesNobody, Single
  <2>3. ASSUME NEW k \in Keys
        PROVE  open(k)' = open(k) \ left
    BY <1>2, <2>1 DEF AnnouncesNobody, IInv, Types
  <2>4. Directory!Leave(left)
    <3> HIDE DEF open
    <3>1. [k \in Keys |-> open(k)]' = [k \in Keys |-> [i \in Keys |-> open(i)][k] \ left]
      BY <2>3 DEF Keys
    <3> QED
      BY <2>2, <3>1 DEF Directory!Leave, open
  <2> QED
    BY <2>4 DEF Directory!Next
<1>3. ASSUME IInv, NEW s \in Sockets, Announces(s)
      PROVE  Directory!Next
  <2>1. PICK k \in Keys : k = key[s]
    BY <1>3 DEF IInv, Types
  <2>2. Single' = Single /\ connected' = connected \cup {s} /\ s \notin connected
    BY <1>3 DEF Announces, Single
  <2>3. ASSUME NEW i \in Keys \ {k}
        PROVE  open(i)' = open(i)
    BY <1>3, <2>1 DEF Announces, IInv, Types
  <2>4. open(k)' = IF Single THEN {s} ELSE open(k) \cup {s}
    BY <1>3, <2>1 DEF Announces, IInv, Types
  <2>5. Directory!Admit(k, s)
    <3> HIDE DEF open
    <3>1. [i \in Keys |-> open(i)]' =
            [[i \in Keys |-> open(i)] EXCEPT
               ![k] = IF Single THEN {s} ELSE [i \in Keys |-> open(i)][k] \cup {s}]
      BY <2>3, <2>4 DEF Keys
    <3> QED
      BY <2>2, <3>1 DEF Directory!Admit, open
  <2> QED
    BY <2>5 DEF Directory!Next
<1>4. IInv /\ [Next]_vars => [Directory!Next]_(Directory!vars)
  BY <1>2, <1>3, Stepping
<1> QED
  BY <1>1, <1>4, Invariance, PTL DEF Spec, ImplementsDirectory, Directory!Spec

\* What the directory promises: under an exclusive key at most one connection is
\* admitted, whatever arrives, leaves or is kicked.
LEMMA DirectoryIsExclusive == Directory!Spec => []Directory!OnePerKey
<1> DEFINE admitted == [k \in Keys |-> {s \in connected : key[s] = k /\ conn[s] = "open"}]
           DInv == admitted \in [Keys -> SUBSET connected] /\ Directory!OnePerKey
<1>1. Directory!Init => DInv
  BY DEF Directory!Init, Directory!OnePerKey
<1>2. DInv /\ [Directory!Next]_(Directory!vars) => DInv'
  <2> SUFFICES ASSUME DInv, [Directory!Next]_(Directory!vars)
               PROVE  DInv'
    OBVIOUS
  <2>0. admitted' \in [Keys -> SUBSET connected']
    BY DEF Keys
  <2> HIDE DEF admitted
  <2>1. ASSUME NEW k \in Keys, NEW c \in Sockets, Directory!Admit(k, c)
        PROVE  DInv'
    <3>1. Directory!OnePerKey <=> (Single => \A i \in Keys : \A a, b \in admitted[i] : a = b)
      BY DEF Directory!OnePerKey, admitted
    <3>2. admitted' = [admitted EXCEPT ![k] = IF Single THEN {c} ELSE admitted[k] \cup {c}]
      BY <2>1 DEF Directory!Admit, admitted
    <3>3. Single' = Single
      BY <2>1 DEF Directory!Admit
    <3>4. Single => \A i \in Keys : \A a, b \in admitted'[i] : a = b
      BY <3>1, <3>2
    <3>5. (Single => \A i \in Keys : \A a, b \in admitted[i] : a = b)'
      BY <3>3, <3>4, Zenon
    <3>6. Directory!OnePerKey'
      BY <3>5 DEF Directory!OnePerKey, admitted
    <3> QED
      BY <2>0, <3>6
  <2>2. ASSUME NEW left \in SUBSET Sockets, Directory!Leave(left)
        PROVE  DInv'
    BY <2>0, <2>2 DEF Directory!Leave, Directory!OnePerKey, admitted
  <2>3. CASE UNCHANGED Directory!vars
    BY <2>0, <2>3 DEF Directory!vars, Directory!OnePerKey, admitted
  <2> QED
    BY <2>1, <2>2, <2>3 DEF Directory!Next
<1> QED
  BY <1>1, <1>2, PTL DEF Directory!Spec

\* So the server has one session per exclusive key (connection-registry.ts:75-130).
THEOREM AtMostOneSession == Spec => []Directory!OnePerKey
BY ServerImplementsDirectory, DirectoryIsExclusive, PTL DEF ImplementsDirectory

-----------------------------------------------------------------------------
\* The variables the invariant above does not speak about.
RestTypes ==
  /\ mode \in Modes
  /\ stage \in {"new", "attached", "disposing", "disposed"}
  /\ pingTimer \in BOOLEAN /\ graceTimer \in BOOLEAN
  /\ life \in [Sockets -> 0 .. 2]
  /\ pending \subseteq Sockets /\ wired \subseteq Sockets
  /\ tracked \subseteq Sockets /\ alive \subseteq Sockets /\ pinged \subseteq Sockets
  /\ expiring \subseteq Sockets
  /\ gone \subseteq Sockets /\ disconnected \subseteq Sockets

\* A connection from its upgrade to its close event.
On(s) == conn[s] \in {"open", "closing", "destroyed"}

\* Entries, trackings and timers are those of connections whose close event is
\* still to come and is listened to; a listener that ran has told the consumer.
Wired ==
  /\ \A k \in Keys : map[k] # NoWs => key[map[k]] = k /\ map[k] \in wired /\ On(map[k])
  /\ \A s \in tracked \cup expiring : s \in wired /\ On(s)
  /\ \A s \in wired : On(s) \/ (conn[s] = "closed" /\ s \in disconnected)
  /\ connected \subseteq wired
  /\ registering # NoWs => registering \notin wired /\ conn[registering] = "open"

\* Nobody is connected before attach() and after dispose().
Staged ==
  /\ stage = "new" => registering = NoWs /\ \A s \in Sockets : conn[s] = "idle"
  /\ stage = "disposed" => registering = NoWs /\ \A s \in Sockets : ~On(s)
  /\ pingTimer => stage = "attached"
  /\ graceTimer => stage = "disposing"

\* A tracked connection presumed dead owes a pong.
Owes == \A s \in tracked \ alive : conn[s] = "open" => s \in pinged

LeakInv == RestTypes /\ Wired /\ Staged /\ Owes

\* At first nothing is connected, tracked or timed.
LEMMA InitLeak == Init => LeakInv
<1> SUFFICES ASSUME Init
             PROVE  LeakInv
  OBVIOUS
<1>1. pingTimer \in BOOLEAN /\ graceTimer \in BOOLEAN
  BY Zenon DEF Init
<1>2. RestTypes /\ Wired
  BY <1>1 DEF Init, RestTypes, Wired, On
<1>3. Staged /\ Owes
  BY DEF Init, Staged, Owes, On
<1> QED
  BY <1>2, <1>3 DEF LeakInv

\* A step that opens, wires and announces nobody and forgets no entry.
LEMMA LeakClosing ==
  ASSUME IInv, LeakInv, RestTypes',
         \A s \in Sockets : conn'[s] = conn[s] \/ (On(s) /\ On(s)' /\ conn'[s] # "open"),
         UNCHANGED <<key, map, registering, wired, disconnected, connected>>,
         tracked' \subseteq tracked, expiring' \subseteq expiring,
         registering = NoWs \/ conn'[registering] = conn[registering],
         Staged', Owes'
  PROVE  LeakInv'
<1>1. Wired'
  BY DEF LeakInv, RestTypes, Wired, On, IInv, Types
<1> QED
  BY <1>1 DEF LeakInv

\* The end of handle(): a newcomer that is wired is tracked, and one whose wiring
\* threw is in no set (connection-handler.ts:551-612).
LEMMA LeakFinishing ==
  ASSUME IInv, LeakInv,
         NEW s \in Sockets,
         s \notin wired, conn[s] # "closed",
         Finish(s),
         UNCHANGED <<mode, stage, key, pinged, pingTimer, graceTimer, gone, disconnected>>,
         pending' \subseteq Sockets,
         registering' = NoWs,
         stage \notin {"new", "disposed"}
  PROVE  LeakInv'
<1> USE DEF LeakInv
<1>1. s \notin tracked \cup expiring \cup connected /\ \A k \in Keys : map[k] # s
  BY DEF Wired
<1>2. CASE /\ map' = [map EXCEPT ![key[s]] = s]
           /\ conn' = [conn EXCEPT ![s] = "open"]
           /\ Tracks(s)
           /\ Watches(s)
           /\ Wires(s)
  <2>1. RestTypes'
    BY <1>2 DEF RestTypes, Tracks, Watches, Wires
  <2>2. Wired'
    BY <1>1, <1>2 DEF Wired, On, Tracks, Watches, Wires, RestTypes, IInv, Types
  <2>3. Staged'
    BY DEF Staged
  <2>4. Owes'
    BY <1>2 DEF Owes, Tracks, IInv, Types, RestTypes
  <2> QED
    BY <2>1, <2>2, <2>3, <2>4
<1>3. CASE RollsBack(s)
  <2>1. RestTypes'
    BY <1>3 DEF RestTypes, RollsBack
  <2>2. Wired'
    BY <1>1, <1>3 DEF Wired, On, RollsBack, RestTypes, IInv, Types
  <2>3. Staged'
    BY DEF Staged
  <2>4. Owes'
    BY <1>3 DEF Owes, RollsBack, IInv, Types, RestTypes
  <2> QED
    BY <2>1, <2>2, <2>3, <2>4
<1> QED
  BY <1>2, <1>3 DEF Finish

\* handle(): the previous session leaves its entry to its own close event.
LEMMA LeakConnecting ==
  ASSUME IInv, LeakInv,
         NEW s \in Sockets,
         Undecided(s),
         Connect(s),
         Task,
         UNCHANGED <<mode, stage, key, pinged, pingTimer, graceTimer, gone, disconnected>>,
         pending' \subseteq Sockets,
         stage = "attached"
  PROVE  LeakInv'
<1> USE DEF LeakInv
<1>1. s \notin wired /\ s \notin tracked \cup expiring \cup connected
  BY DEF Undecided, Wired, On
<1>2. \A k \in Keys : map[k] # s
  BY <1>1 DEF Wired
<1>3. CASE ~Kicks(s) /\ Finish(s) /\ UNCHANGED registering
  BY <1>1, <1>3, LeakFinishing DEF Task, Undecided
<1>4. CASE /\ Kicks(s)
           /\ conn' = [conn EXCEPT ![s] = "open",
                                   ![map[key[s]]] = IF @ = "open" THEN "closing" ELSE @]
           /\ registering' = s
           /\ UNCHANGED <<map, wired, tracked, alive, expiring, life, connected>>
  <2> DEFINE old == map[key[s]]
  <2>1. old \in Sockets /\ old # s
    BY <1>2, <1>4 DEF Kicks, IInv, Types
  <2>2. /\ conn'[s] = "open"
        /\ \A t \in Sockets \ {s} : /\ On(t)' <=> On(t)
                                    /\ conn'[t] = "closed" <=> conn[t] = "closed"
                                    /\ conn'[t] = "open" => conn[t] = "open"
    BY <1>4, <2>1 DEF On, IInv, Types
  <2>3. RestTypes'
    BY <1>4 DEF RestTypes
  <2>4. Wired'
    BY <1>1, <1>2, <1>4, <2>2 DEF Wired, RestTypes, IInv, Types
  <2>5. Staged'
    BY DEF Staged
  <2>6. Owes'
    BY <1>1, <1>4, <2>2 DEF Owes, RestTypes
  <2> QED
    BY <2>3, <2>4, <2>5, <2>6
<1>5. CASE TransportFails(s)
  <2>1. RestTypes'
    BY <1>5 DEF RestTypes, TransportFails
  <2>2. Wired'
    BY <1>1, <1>2, <1>5 DEF Wired, On, TransportFails, RestTypes, IInv, Types, Task
  <2>3. Staged'
    BY DEF Staged
  <2>4. Owes'
    BY <1>1, <1>5 DEF Owes, TransportFails, RestTypes, IInv, Types
  <2> QED
    BY <2>1, <2>2, <2>3, <2>4
<1> QED
  BY <1>3, <1>4, <1>5 DEF Connect

\* An upgrade that becomes no connection: it was and is not on.
LEMMA LeakRefusing ==
  ASSUME IInv, LeakInv,
         NEW s \in Sockets,
         stage \notin {"new"},
         Undecided(s) \/ conn[s] = "refused",
         NEW c \in {"verifying", "refused"},
         conn' = [conn EXCEPT ![s] = c],
         NoConnection,
         UNCHANGED <<mode, stage, key, pinged, pingTimer, graceTimer, gone, disconnected>>,
         pending' \subseteq Sockets
  PROVE  LeakInv'
<1> USE DEF LeakInv, NoConnection
<1>1. s \notin wired /\ s \notin tracked \cup expiring \cup connected /\ s # registering
  BY DEF Undecided, Wired, On
<1>2. \A k \in Keys : map[k] # s
  BY <1>1 DEF Wired
<1>3. RestTypes'
  BY DEF RestTypes
<1>4. Wired'
  BY <1>1, <1>2 DEF Wired, On, RestTypes, IInv, Types
<1>5. Staged'
  BY DEF Staged, On, IInv, Types
<1>6. Owes'
  BY <1>1 DEF Owes, IInv, Types, RestTypes
<1> QED
  BY <1>3, <1>4, <1>5, <1>6

\* No step leaks.
LEMMA LeakStep == ASSUME IInv, LeakInv, [Next]_vars PROVE LeakInv'
<1> USE DEF LeakInv, upgradeVars, pingVars, hookVars
<1>1. CASE Attach
  <2>1. RestTypes' /\ Owes'
    BY <1>1 DEF Attach, StartsPinging, RestTypes, Owes
  <2>2. Staged'
    BY <1>1 DEF Attach, Staged, On
  <2> QED
    BY <1>1, <2>1, <2>2, LeakClosing DEF Attach
<1>2. CASE Dispose
  <2>1. Registered \subseteq wired /\ registering \notin Registered
    BY <1>2 DEF Wired, Registered
  <2>2. \A s \in Sockets :
          conn'[s] = conn[s] \/ (s \in wired /\ On(s) /\ On(s)' /\ conn'[s] # "open")
    BY <1>2, <2>1 DEF Dispose, CloseAll, On
  <2>3. graceTimer' \in BOOLEAN /\ (graceTimer' => stage = "attached")
    BY <1>2, Zenon DEF Dispose
  <2>4. RestTypes'
    BY <1>2, <2>3 DEF Dispose, StopsPinging, RestTypes
  <2>5. Staged'
    <3>1. CASE stage = "new"
      BY <1>2, <2>2, <2>3, <3>1 DEF Dispose, StopsPinging, Staged, On
    <3>2. CASE stage = "attached"
      BY <1>2, <2>3, <3>2 DEF Dispose, StopsPinging, Staged
    <3> QED
      BY <1>2, <3>1, <3>2 DEF Dispose
  <2>6. Owes'
    BY <1>2, <2>2 DEF Dispose, Owes, RestTypes
  <2>7. registering = NoWs \/ conn'[registering] = conn[registering]
    BY <2>2 DEF Wired, IInv, Types
  <2> QED
    BY <1>2, <2>2, <2>4, <2>5, <2>6, <2>7, LeakClosing DEF Dispose
<1>3. CASE GraceFires
  <2>1. RestTypes' /\ Staged' /\ Owes'
    BY <1>3 DEF GraceFires, RestTypes, Staged, Owes, On, Live, IInv, Types
  <2> QED
    BY <1>3, <2>1, LeakClosing DEF GraceFires, Live, On, Task
<1>4. CASE WssCloses
  <2>1. RestTypes' /\ Staged' /\ Owes'
    BY <1>4 DEF WssCloses, RestTypes, Staged, Owes, On, Live, Task
  <2> QED
    BY <1>4, <2>1, LeakClosing DEF WssCloses
<1>5. CASE KickHookReturns
  <2>1. registering \in Sockets
    BY <1>5 DEF KickHookReturns, IInv, Types
  <2> QED
    BY <1>5, <2>1, LeakFinishing DEF KickHookReturns, Wired, Staged, RestTypes
<1>6. CASE PingTick
  <2>1. RestTypes' /\ Staged' /\ Owes'
    BY <1>6 DEF PingTick, RestTypes, Staged, Owes, On, Live, IInv, Types
  <2> QED
    BY <1>6, <2>1, LeakClosing DEF PingTick, Live, On, Task
<1>7. ASSUME NEW k \in Keys, CloseUser(k)
      PROVE  LeakInv'
  <2>1. Get(k) \in wired /\ Get(k) # registering
    BY <1>7 DEF CloseUser, Get, Wired
  <2>2. RestTypes' /\ Staged' /\ Owes'
    BY <1>7 DEF CloseUser, CloseAll, RestTypes, Staged, Owes, On, IInv, Types
  <2>3. registering = NoWs \/ conn'[registering] = conn[registering]
    BY <1>7, <2>1 DEF CloseUser, CloseAll, IInv, Types
  <2> QED
    BY <1>7, <2>2, <2>3, LeakClosing DEF CloseUser, CloseAll, On
<1>8. ASSUME NEW s \in Sockets, UpgradeArrives(s)
      PROVE  LeakInv'
  <2>1. Undecided(s) /\ Task /\ stage = "attached"
    BY <1>8 DEF UpgradeArrives, Undecided
  <2>2. CASE HandleAuthless(s) /\ UNCHANGED <<pending, answers>>
    BY <1>8, <2>1, <2>2, LeakConnecting DEF UpgradeArrives, HandleAuthless, RestTypes
  <2>3. CASE conn' = [conn EXCEPT ![s] = "verifying"] /\ pending' = pending \cup {s}
             /\ NoConnection
    BY <1>8, <2>1, <2>3, LeakRefusing DEF UpgradeArrives, RestTypes
  <2>4. CASE conn' = [conn EXCEPT ![s] = "refused"] /\ UNCHANGED pending /\ NoConnection
    BY <1>8, <2>1, <2>4, LeakRefusing DEF UpgradeArrives, RestTypes
  <2> QED
    BY <1>8, <2>2, <2>3, <2>4 DEF UpgradeArrives
<1>9. ASSUME NEW s \in Sockets, VerifyTimesOut(s)
      PROVE  LeakInv'
  BY <1>9, LeakRefusing DEF VerifyTimesOut, Undecided, Staged, RestTypes
<1>10. ASSUME NEW s \in Sockets, NEW verdict \in Verdicts, VerifySettles(s, verdict)
       PROVE  LeakInv'
  <2>1. pending' \subseteq Sockets /\ Task
    BY <1>10 DEF VerifySettles, RestTypes
  <2>2. CASE conn[s] # "verifying"
    <3>1. RestTypes' /\ Staged' /\ Owes'
      BY <1>10, <2>2 DEF VerifySettles, NoConnection, RestTypes, Staged, On, Owes
    <3> QED
      BY <1>10, <2>2, <3>1, LeakClosing DEF VerifySettles, NoConnection
  <2>3. CASE conn[s] = "verifying" /\ verdict = "ok" /\ stage = "attached" /\ s \notin gone
    BY <1>10, <2>1, <2>3, LeakConnecting DEF VerifySettles, Accept, Undecided
  <2>4. CASE conn[s] = "verifying" /\ ~(verdict = "ok" /\ stage = "attached" /\ s \notin gone)
    BY <1>10, <2>1, <2>4, LeakRefusing DEF VerifySettles, Accept, Undecided, Staged
  <2> QED
    BY <2>2, <2>3, <2>4
<1>11. ASSUME NEW s \in Sockets, CloseEvent(s)
       PROVE  LeakInv'
  <2>1. RestTypes'
    BY <1>11 DEF CloseEvent, Untracks, RestTypes
  <2>2. Wired'
    <3>1. CASE s \in wired
      BY <1>11, <3>1 DEF CloseEvent, Untracks, Wired, On, RestTypes, IInv, Types, Task
    <3>2. CASE s \notin wired
      BY <1>11, <3>2 DEF CloseEvent, Wired, On, RestTypes, IInv, Types, Task
    <3> QED
      BY <3>1, <3>2
  <2>3. Staged'
    BY <1>11 DEF CloseEvent, Staged, On, IInv, Types
  <2>4. Owes'
    BY <1>11 DEF CloseEvent, Untracks, Owes, IInv, Types, RestTypes
  <2> QED
    BY <2>1, <2>2, <2>3, <2>4
<1>12. ASSUME NEW s \in Sockets, Pong(s)
       PROVE  LeakInv'
  <2>1. RestTypes' /\ Staged' /\ Owes'
    BY <1>12 DEF Pong, RestTypes, Staged, On, Owes
  <2> QED
    BY <1>12, <2>1, LeakClosing DEF Pong
<1>13. ASSUME NEW s \in Sockets, ExpiryFires(s)
       PROVE  LeakInv'
  <2>1. RestTypes'
    BY <1>13 DEF ExpiryFires, RestTypes
  <2>2. Staged' /\ Owes'
    BY <1>13 DEF ExpiryFires, CloseAll, RestTypes, Staged, On, Owes, IInv, Types
  <2> QED
    BY <1>13, <2>1, <2>2, LeakClosing DEF ExpiryFires, CloseAll, On, Task
<1>14. ASSUME NEW s \in Sockets, PeerCloses(s)
       PROVE  LeakInv'
  <2>1. RestTypes' /\ Staged' /\ Owes'
    BY <1>14 DEF PeerCloses, RestTypes, Staged, On, Owes, IInv, Types
  <2> QED
    BY <1>14, <2>1, LeakClosing DEF PeerCloses, On, Task, IInv, Types
<1>15. ASSUME NEW s \in Sockets, PeerVanishes(s)
       PROVE  LeakInv'
  <2>1. RestTypes' /\ Staged' /\ Owes'
    BY <1>15 DEF PeerVanishes, RestTypes, Staged, On, Owes
  <2> QED
    BY <1>15, <2>1, LeakClosing DEF PeerVanishes
<1>16. CASE UNCHANGED vars
  BY <1>16 DEF vars, RestTypes, Wired, On, Staged, Owes
<1> HIDE DEF LeakInv
<1> QED
  BY <1>1, <1>2, <1>3, <1>4, <1>5, <1>6, <1>7, <1>8, <1>9, <1>10, <1>11, <1>12, <1>13,
     <1>14, <1>15, <1>16 DEF Next, Host

\* No entry, tracking or timer outlives its socket's close event, whichever step
\* of the handler threw; and when dispose() resolves, no socket and no timer is
\* left and every session announced to the consumer was reported as ended
\* (connection-handler.ts:551-612).
THEOREM NobodyLeaks == Spec => []NothingLeaks
<1>1. IInv /\ LeakInv /\ [Next]_vars => LeakInv'
  BY LeakStep
<1>2. IInv /\ LeakInv => NothingLeaks
  <2> SUFFICES ASSUME IInv, LeakInv
               PROVE  NothingLeaks
    OBVIOUS
  <2>1. answers \in [Sockets -> 0 .. 2]
    BY DEF IInv, Types, AnsweredOnce
  <2>2. {pingTimer, graceTimer} \subseteq BOOLEAN
    BY Zenon DEF LeakInv, RestTypes
  <2>3. TypeOK
    BY <2>1, <2>2 DEF TypeOK, LeakInv, RestTypes, IInv, Types, ConnStates
  <2>4. stage = "disposed" =>
          /\ Registered = {} /\ tracked = {} /\ expiring = {}
          /\ connected = disconnected \cap connected
    BY DEF LeakInv, RestTypes, Staged, Wired, On, Registered, IInv, Types
  <2>5. stage = "disposed" => ~pingTimer /\ ~graceTimer
    BY DEF LeakInv, Staged
  <2> QED
    BY <2>3, <2>4, <2>5 DEF NothingLeaks, LeakInv, Wired, On
<1> QED
  BY InitLeak, Invariance, <1>1, <1>2, PTL DEF Spec

\* The server ends an open connection of its own accord only on evidence:
\* ping-pong drops it only if it owes a pong, the expiry watchdog only once its
\* token is over (ping-pong.ts, expiry-watchdog.ts).
THEOREM CutOffOnEvidence == Spec => NobodyIsCutOffEarly
<1> DEFINE Evidence ==
      \A s \in Sockets : conn[s] = "open" =>
        /\ s \in tracked \ tracked' => s \in pinged
        /\ s \in expiring \ expiring' => life'[s] = 0
<1>1. IInv /\ LeakInv /\ [Next]_vars => LeakInv'
  BY LeakStep
<1>2. ASSUME IInv, LeakInv, [Next]_vars
      PROVE  Evidence
  <2>1. CASE PingTick
    BY <1>2, <2>1 DEF PingTick, LeakInv, Owes
  <2>2. ASSUME NEW s \in Sockets, CloseEvent(s)
        PROVE  Evidence
    BY <2>2 DEF CloseEvent, Untracks
  <2>3. ASSUME NEW s \in Sockets, ExpiryFires(s)
        PROVE  Evidence
    BY <1>2, <2>3 DEF ExpiryFires, LeakInv, RestTypes, pingVars
  <2>4. CASE tracked \subseteq tracked' /\ expiring \subseteq expiring'
    BY <2>4
  <2>5. ASSUME NEW s \in Sockets, Connect(s)
        PROVE  tracked \subseteq tracked' /\ expiring \subseteq expiring'
    BY <2>5 DEF Connect, Finish, RollsBack, TransportFails, Tracks, Watches
  <2>6. ASSUME NEW s \in Sockets, Finish(s)
        PROVE  tracked \subseteq tracked' /\ expiring \subseteq expiring'
    BY <2>6 DEF Finish, RollsBack, Tracks, Watches
  <2>7. ASSUME NEW s \in Sockets,
               UpgradeArrives(s) \/ \E verdict \in Verdicts : VerifySettles(s, verdict)
        PROVE  tracked \subseteq tracked' /\ expiring \subseteq expiring'
    BY <2>5, <2>7 DEF UpgradeArrives, HandleAuthless, VerifySettles, Accept, NoConnection
  <2>8. CASE KickHookReturns
    BY <1>2, <2>4, <2>6, <2>8 DEF KickHookReturns, IInv, Types
  <2>9. ASSUME NEW s \in Sockets,
               VerifyTimesOut(s) \/ Pong(s) \/ PeerCloses(s) \/ PeerVanishes(s)
        PROVE  tracked \subseteq tracked' /\ expiring \subseteq expiring'
    BY <2>9 DEF VerifyTimesOut, NoConnection, Pong, PeerCloses, PeerVanishes, pingVars
  <2>10. CASE Host \/ GraceFires \/ WssCloses \/ UNCHANGED vars
    BY <2>4, <2>10 DEF Host, Attach, Dispose, CloseUser, GraceFires, WssCloses, vars,
                       pingVars
  <2> HIDE DEF Evidence
  <2> QED
    BY <1>2, <2>1, <2>2, <2>3, <2>4, <2>7, <2>8, <2>9, <2>10, Zenon DEF Next
<1>3. IInv /\ LeakInv /\ [Next]_vars => [Evidence]_vars
  BY <1>2
<1> QED
  BY InitLeak, Invariance, <1>1, <1>3, PTL DEF Spec, NobodyIsCutOffEarly

-----------------------------------------------------------------------------
(***************************************************************************)
(* The safety half of NothingHangs: what dispose() waits for comes.        *)
(***************************************************************************)

\* While dispose() waits, the fallback is scheduled or every peer is gone.
GraceLeft == stage = "disposing" => graceTimer \/ \A s \in Sockets : ~Live(s)

\* Once the fallback has run, no suspended register() can bring a newcomer.
GraceInv ==
  stage = "disposing" => graceTimer \/ (Task /\ \A s \in Sockets : ~Live(s))

\* Neither a newcomer nor a hook that returns late outwaits the fallback, which is
\* consumed only by the step that terminates everyone (wss-shutdown.ts:58,
\* orpc-ws-server.ts:701-731).
LEMMA GraceStep == ASSUME IInv, LeakInv, GraceInv, [Next]_vars PROVE GraceInv'
<1> SUFFICES ASSUME stage' = "disposing", ~graceTimer'
             PROVE  Task' /\ \A s \in Sockets : ~Live(s)'
  BY DEF GraceInv, Task, Live
<1>1. CASE Dispose
  <2>1. stage = "attached"
    BY <1>1 DEF Dispose
  <2>2. graceTimer'
    BY <1>1, <2>1, Zenon DEF Dispose
  <2> QED
    BY <2>2
<1>2. CASE GraceFires
  BY <1>2 DEF GraceFires, Task, Live, IInv, Types
<1>3. CASE Attach \/ WssCloses
  BY <1>3 DEF Attach, WssCloses
<1>4. CASE ~(Dispose \/ GraceFires \/ Attach \/ WssCloses)
  <2>1. stage = "disposing" /\ ~graceTimer
    <3>1. UNCHANGED <<stage, graceTimer>>
      BY <1>4 DEF Next, Host, CloseUser, KickHookReturns, PingTick, UpgradeArrives,
         VerifyTimesOut, VerifySettles, CloseEvent, Pong, ExpiryFires, PeerCloses,
         PeerVanishes, vars
    <3> QED
      BY <3>1
  <2>2. Task /\ \A s \in Sockets : ~Live(s)
    BY <2>1 DEF GraceInv
  <2>3. ~KickHookReturns /\ \A s \in Sockets : ~UpgradeArrives(s)
    BY <2>1, <2>2 DEF Task, KickHookReturns, UpgradeArrives
  <2>4. registering' = registering /\ \A s \in Sockets : Live(s)' => Live(s)
    <3>1. ASSUME NEW s \in Sockets, VerifyTimesOut(s)
          PROVE  registering' = registering /\ \A t \in Sockets : Live(t)' => Live(t)
      BY <3>1 DEF VerifyTimesOut, NoConnection, Live, IInv, Types
    <3>2. ASSUME NEW s \in Sockets, NEW verdict \in Verdicts, VerifySettles(s, verdict)
          PROVE  registering' = registering /\ \A t \in Sockets : Live(t)' => Live(t)
      BY <2>1, <3>2 DEF VerifySettles, Accept, NoConnection, Live, IInv, Types
    <3>3. ASSUME NEW s \in Sockets,
                 CloseEvent(s) \/ Pong(s) \/ ExpiryFires(s) \/ PeerCloses(s) \/ PeerVanishes(s)
          PROVE  registering' = registering /\ \A t \in Sockets : Live(t)' => Live(t)
      BY <3>3 DEF CloseEvent, Pong, ExpiryFires, CloseAll, PeerCloses, PeerVanishes, Live,
         IInv, Types
    <3>4. CASE PingTick \/ (\E k \in Keys : CloseUser(k)) \/ UNCHANGED vars
      BY <3>4 DEF PingTick, CloseUser, CloseAll, vars, Live, IInv, Types
    <3> QED
      BY <1>4, <2>3, <3>1, <3>2, <3>3, <3>4 DEF Next, Host
  <2> QED
    BY <2>2, <2>4 DEF Task
<1> QED
  BY <1>1, <1>2, <1>3, <1>4

\* While dispose() waits for the WebSocketServer to close, its fallback is still
\* scheduled or no peer is left that could keep it waiting, whatever hooks, upgrades
\* and late verdicts came in between; so the shutdown is bounded by the grace period
\* (wss-shutdown.ts:58, NFI-4).
THEOREM ShutdownIsBounded == Spec => []GraceLeft
<1>1. Init => GraceInv
  BY DEF Init, GraceInv
<1>2. GraceInv => GraceLeft
  BY DEF GraceInv, GraceLeft
<1>3. IInv /\ LeakInv /\ [Next]_vars => LeakInv'
  BY LeakStep
<1>4. IInv /\ LeakInv /\ GraceInv /\ [Next]_vars => GraceInv'
  BY GraceStep
<1> QED
  BY InitLeak, Invariance, <1>1, <1>2, <1>3, <1>4, PTL DEF Spec
=============================================================================
