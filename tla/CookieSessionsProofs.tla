------------------------ MODULE CookieSessionsProofs ------------------------
(***************************************************************************)
(* Theorems about CookieSessions, for every set of sessions, requests and  *)
(* failures: the single flight of the refresh; for a store that implements *)
(* touch(), what becomes of tokens and of deleted sessions; and, for one   *)
(* that does not, what the slide's fallback may spoil.                     *)
(***************************************************************************)
EXTENDS CookieSessions, TLAPS

RefreshAwaits == {"get", "token", "set"}

\* Which kind of request is suspended where.
AwaitsOfKind ==
  \A r \in Requests :
    /\ kind[r] = "refresh" => at[r] \in RefreshAwaits \cup {"join", "idle"}
    /\ at[r] \in {"token", "join"} => kind[r] = "refresh"
    /\ at[r] \in {"touch", "reget"} => Sliding(r)
    /\ hasTouch => at[r] # "reget"
    /\ hasTouch /\ at[r] = "set" => kind[r] = "refresh"

\* The memo names a refresh of its own session.
LeaderOwns ==
  \A s \in Sids : inFlight[s] # NoRequest =>
    sid[inFlight[s]] = s /\ kind[inFlight[s]] = "refresh"

SharedInv == TypeOK /\ AwaitsOfKind /\ LeaderOwns /\ FlightsAreShared

\* The variables have their types at first (CookieSessions' Init).
LEMMA InitTyped == Init => TypeOK
<1> SUFFICES ASSUME Init PROVE TypeOK
  OBVIOUS
<1>1. store \in [Sids -> Sessions] /\ minted \subseteq Sids
  BY DEF Init, Sessions
<1>2. grant \in [Sids -> Tokens] /\ seen \in [Requests -> Sessions]
  BY TokenCapAssumption DEF Init, Sessions, Tokens, Withheld
<1>3. at \in [Requests -> Awaits \cup {"idle"}]
  BY DEF Init
<1>4. kind \in [Requests -> Kinds] /\ sid \in [Requests -> Sids]
  BY DEF Init
<1>5. inFlight \in [Sids -> Requests \cup {NoRequest}]
  BY DEF Init
<1>6. outcome \in [Sids -> Outcomes]
  BY DEF Init, Outcomes
<1>7. gone \subseteq Sids /\ late \subseteq Requests /\ raced \subseteq Requests /\ lost \subseteq Sids
  BY DEF Init
<1>8. hasTouch \in BOOLEAN
  BY StoresAssumption, Zenon DEF Init
<1> QED
  BY <1>1, <1>2, <1>3, <1>4, <1>5, <1>6, <1>7, <1>8 DEF TypeOK

\* A flight that settles leaves the memo empty and nobody waiting
\* (refresh.ts:74-86).
LEMMA SettlingKeepsFlights ==
  ASSUME SharedInv, NEW r \in Requests, kind[r] = "refresh",
         at[r] \in RefreshAwaits, NEW result \in Outcomes, Settles(r, result),
         UNCHANGED requests
  PROVE  /\ at' \in [Requests -> Awaits \cup {"idle"}]
         /\ inFlight' \in [Sids -> Requests \cup {NoRequest}]
         /\ outcome' \in [Sids -> Outcomes]
         /\ AwaitsOfKind' /\ LeaderOwns' /\ FlightsAreShared'
<1>1. at' \in [Requests -> Awaits \cup {"idle"}]
  BY DEF SharedInv, TypeOK, Settles
<1>2. sid[r] \in Sids /\ inFlight[sid[r]] = r
  BY DEF SharedInv, TypeOK, FlightsAreShared, RefreshAwaits
<1>3. inFlight' \in [Sids -> Requests \cup {NoRequest}]
  BY <1>2 DEF SharedInv, TypeOK, Settles
<1>4. outcome' \in [Sids -> Outcomes]
  BY <1>2 DEF SharedInv, TypeOK, Settles
<1>5. \A q \in Requests : at'[q] \in {at[q], "idle"}
  BY DEF Settles
<1>6. AwaitsOfKind'
  BY <1>5 DEF SharedInv, AwaitsOfKind, Sliding, requests
<1>7. LeaderOwns'
  BY <1>2 DEF SharedInv, TypeOK, LeaderOwns, Settles, requests
<1>8. FlightsAreShared'
  BY <1>2, NoRequestAssumption
  DEF SharedInv, TypeOK, FlightsAreShared, AwaitsOfKind, LeaderOwns, Settles,
      requests, RefreshAwaits
<1> QED
  BY <1>1, <1>3, <1>4, <1>6, <1>7, <1>8

\* A request that is not a refresh leaves the flights alone.
LEMMA OthersKeepFlights ==
  ASSUME SharedInv, NEW r \in Requests, kind[r] # "refresh",
         NEW await \in {"idle", "get", "delete", "touch", "reget", "set"},
         await \in {"touch", "reget"} => Sliding(r),
         hasTouch => await \notin {"reget", "set"},
         Goes(r, await), UNCHANGED <<requests, inFlight, outcome>>
  PROVE  /\ at' \in [Requests -> Awaits \cup {"idle"}]
         /\ AwaitsOfKind' /\ LeaderOwns' /\ FlightsAreShared'
<1>1. at' \in [Requests -> Awaits \cup {"idle"}]
  BY DEF SharedInv, TypeOK, Goes, Awaits
<1>2. \A q \in Requests : at'[q] = IF q = r THEN await ELSE at[q]
  BY DEF SharedInv, TypeOK, Goes
<1>3. AwaitsOfKind'
  BY <1>2 DEF SharedInv, AwaitsOfKind, Sliding, requests
<1>4. LeaderOwns'
  BY DEF SharedInv, LeaderOwns, requests
<1>5. FlightsAreShared'
  BY <1>2 DEF SharedInv, FlightsAreShared, requests
<1> QED
  BY <1>1, <1>3, <1>4, <1>5

\* Nothing but the refreshes touches what they work on.
SharedUnchanged == UNCHANGED <<at, requests, inFlight, outcome>>

LEMMA StutterKeepsFlights ==
  ASSUME SharedInv, SharedUnchanged
  PROVE  /\ at' \in [Requests -> Awaits \cup {"idle"}]
         /\ AwaitsOfKind' /\ LeaderOwns' /\ FlightsAreShared'
  BY DEF SharedInv, TypeOK, AwaitsOfKind, LeaderOwns, FlightsAreShared,
         Sliding, SharedUnchanged, requests

\* The part of TypeOK that the flights' lemmas leave.
RestTyped ==
  /\ store \in [Sids -> Sessions]
  /\ minted \subseteq Sids
  /\ grant \in [Sids -> Tokens]
  /\ seen \in [Requests -> Sessions]
  /\ gone \subseteq Sids
  /\ late \subseteq Requests
  /\ raced \subseteq Requests
  /\ lost \subseteq Sids

LEMMA Reassemble ==
  ASSUME SharedInv, UNCHANGED requests, RestTyped',
         at' \in [Requests -> Awaits \cup {"idle"}],
         inFlight' \in [Sids -> Requests \cup {NoRequest}],
         outcome' \in [Sids -> Outcomes],
         AwaitsOfKind', LeaderOwns', FlightsAreShared'
  PROVE  SharedInv'
  BY DEF SharedInv, TypeOK, RestTyped, requests

\* A write keeps the types (session-store.ts: set, delete, deleteByUser).
LEMMA PutTyped ==
  ASSUME SharedInv, NEW s \in Sids, NEW session \in Sessions, Put(s, session)
  PROVE  store' \in [Sids -> Sessions] /\ raced' \subseteq Requests
  BY DEF SharedInv, TypeOK, Put

LEMMA DropTyped ==
  ASSUME SharedInv, NEW ss \in SUBSET Sids, Drop(ss)
  PROVE  /\ store' \in [Sids -> Sessions]
         /\ gone' \subseteq Sids
         /\ raced' \subseteq Requests
  BY DEF SharedInv, TypeOK, Drop, Sessions

LEMMA SharedStep == SharedInv /\ [Next]_vars => SharedInv'
<1> SUFFICES ASSUME SharedInv, [Next]_vars PROVE SharedInv'
  OBVIOUS
<1> USE DEF SharedInv
<1> DEFINE FlightsOK == /\ at' \in [Requests -> Awaits \cup {"idle"}]
                        /\ inFlight' \in [Sids -> Requests \cup {NoRequest}]
                        /\ outcome' \in [Sids -> Outcomes]
                        /\ AwaitsOfKind' /\ LeaderOwns' /\ FlightsAreShared'
<1>0. RestTyped
  BY DEF TypeOK, RestTyped
<1>1. ASSUME NEW s \in Sids, Login(s) PROVE SharedInv'
  <2>1. FlightsOK /\ UNCHANGED requests
    BY <1>1, StutterKeepsFlights DEF Login, SharedUnchanged, TypeOK
  <2>2. RestTyped'
    BY <1>0, <1>1, TokenCapAssumption
    DEF Login, RestTyped, requests, Sessions, Tokens, Withheld
  <2> QED
    BY <2>1, <2>2, Reassemble
<1>2. ASSUME NEW s \in Sids, Expires(s) PROVE SharedInv'
  <2>1. FlightsOK /\ UNCHANGED requests
    BY <1>2, StutterKeepsFlights DEF Expires, SharedUnchanged, TypeOK, refreshing
  <2>2. RestTyped'
    BY <1>0, <1>2, DropTyped DEF Expires, RestTyped, requests, refreshing
  <2> QED
    BY <2>1, <2>2, Reassemble
<1>3. ASSUME NEW s \in Sids, GrantEnds(s) PROVE SharedInv'
  <2>1. FlightsOK /\ UNCHANGED requests
    BY <1>3, StutterKeepsFlights DEF GrantEnds, SharedUnchanged, TypeOK
  <2>2. RestTyped'
    BY <1>0, <1>3, TokenCapAssumption
    DEF GrantEnds, RestTyped, requests, Tokens, Withheld
  <2> QED
    BY <2>1, <2>2, Reassemble
<1>4. ASSUME NEW r \in Requests, Begin(r) PROVE SharedInv'
  <2>1. FlightsOK /\ UNCHANGED requests
    BY <1>4, OthersKeepFlights DEF Begin, TypeOK, refreshing
  <2>2. RestTyped'
    BY <1>0, <1>4 DEF Begin, RestTyped, requests, refreshing
  <2> QED
    BY <2>1, <2>2, Reassemble
<1>5. ASSUME NEW r \in Requests, DoorCheck(r) PROVE SharedInv'
  <2>1. FlightsOK /\ UNCHANGED requests
    BY <1>5, OthersKeepFlights DEF DoorCheck, TypeOK, refreshing, Sliding
  <2>2. RestTyped'
    BY <1>0, <1>5 DEF DoorCheck, RestTyped, requests, refreshing, TypeOK
  <2> QED
    BY <2>1, <2>2, Reassemble
<1>6. ASSUME NEW r \in Requests, SlideTouches(r) PROVE SharedInv'
  <2>1. FlightsOK /\ UNCHANGED requests
    BY <1>6, OthersKeepFlights
    DEF SlideTouches, Finishes, TypeOK, refreshing, AwaitsOfKind, Sliding
  <2>2. RestTyped'
    BY <1>0, <1>6 DEF SlideTouches, RestTyped, requests, refreshing
  <2> QED
    BY <2>1, <2>2, Reassemble
<1>7. ASSUME NEW r \in Requests, SlideRereads(r) PROVE SharedInv'
  <2>1. FlightsOK /\ UNCHANGED requests
    BY <1>7, OthersKeepFlights
    DEF SlideRereads, TypeOK, refreshing, AwaitsOfKind, Sliding
  <2>2. RestTyped'
    BY <1>0, <1>7 DEF SlideRereads, RestTyped, requests, refreshing, TypeOK
  <2> QED
    BY <2>1, <2>2, Reassemble
<1>8. ASSUME NEW r \in Requests, SlideWrites(r) PROVE SharedInv'
  <2>1. FlightsOK /\ UNCHANGED requests
    BY <1>8, OthersKeepFlights
    DEF SlideWrites, Finishes, TypeOK, refreshing, Sliding
  <2>2. RestTyped'
    BY <1>0, <1>8, PutTyped
    DEF SlideWrites, RestTyped, requests, refreshing, TypeOK
  <2> QED
    BY <2>1, <2>2, Reassemble
<1>9. ASSUME NEW r \in Requests, LogoutChecks(r) PROVE SharedInv'
  <2>1. FlightsOK /\ UNCHANGED requests
    BY <1>9, OthersKeepFlights DEF LogoutChecks, Finishes, TypeOK, refreshing
  <2>2. RestTyped'
    BY <1>0, <1>9 DEF LogoutChecks, RestTyped, requests, refreshing
  <2> QED
    BY <2>1, <2>2, Reassemble
<1>10. ASSUME NEW r \in Requests, LogoutDeletes(r) PROVE SharedInv'
  <2>1. FlightsOK /\ UNCHANGED requests
    BY <1>10, OthersKeepFlights DEF LogoutDeletes, Finishes, TypeOK, refreshing
  <2>2. {sid[r]} \in SUBSET Sids
    BY DEF TypeOK
  <2>3. RestTyped'
    BY <1>0, <1>10, <2>2, DropTyped
    DEF LogoutDeletes, RestTyped, requests, refreshing
  <2> QED
    BY <2>1, <2>3, Reassemble
<1>11. ASSUME NEW r \in Requests, RevokeDeletes(r) PROVE SharedInv'
  <2>1. FlightsOK /\ UNCHANGED requests
    BY <1>11, OthersKeepFlights DEF RevokeDeletes, Finishes, TypeOK, refreshing
  <2>2. minted \in SUBSET Sids
    BY DEF TypeOK
  <2>3. RestTyped'
    BY <1>0, <1>11, <2>2, DropTyped
    DEF RevokeDeletes, RestTyped, requests, refreshing
  <2> QED
    BY <2>1, <2>3, Reassemble
<1>12. ASSUME NEW r \in Requests, Refresh(r) PROVE SharedInv'
  <2>1. at' \in [Requests -> Awaits \cup {"idle"}]
    BY <1>12 DEF Refresh, Goes, TypeOK, Awaits
  <2>2. inFlight' \in [Sids -> Requests \cup {NoRequest}]
    BY <1>12 DEF Refresh, TypeOK
  <2>3. outcome' \in [Sids -> Outcomes]
    BY <1>12 DEF Refresh, TypeOK, Outcomes
  <2>4. sid[r] \in Sids /\ UNCHANGED requests
    BY <1>12 DEF Refresh, TypeOK
  <2>5. AwaitsOfKind'
    BY <1>12
    DEF Refresh, Goes, TypeOK, AwaitsOfKind, Sliding, requests, RefreshAwaits
  <2>6. LeaderOwns'
    BY <1>12, <2>4 DEF Refresh, TypeOK, LeaderOwns, requests
  <2>7. FlightsAreShared'
    BY <1>12, <2>4, NoRequestAssumption
    DEF Refresh, Goes, TypeOK, FlightsAreShared, requests
  <2>8. RestTyped'
    BY <1>0, <1>12 DEF Refresh, RestTyped, requests
  <2> QED
    BY <2>1, <2>2, <2>3, <2>4, <2>5, <2>6, <2>7, <2>8, Reassemble
<1>13. ASSUME NEW r \in Requests, RefreshReads(r) PROVE SharedInv'
  <2>1. FlightsOK
    <3>1. CASE Settles(r, "terminal")
      BY <1>13, <3>1, SettlingKeepsFlights DEF RefreshReads, RefreshAwaits, Outcomes
    <3>2. CASE Goes(r, "token") /\ UNCHANGED <<inFlight, outcome>>
      BY <1>13, <3>2
      DEF RefreshReads, Goes, TypeOK, Awaits, AwaitsOfKind, Sliding, LeaderOwns,
          FlightsAreShared, requests, RefreshAwaits
    <3> QED
      BY <1>13, <3>1, <3>2 DEF RefreshReads
  <2>2. UNCHANGED requests
    BY <1>13 DEF RefreshReads
  <2>3. RestTyped'
    BY <1>0, <1>13 DEF RefreshReads, RestTyped, requests, TypeOK
  <2> QED
    BY <2>1, <2>2, <2>3, Reassemble
<1>14. ASSUME NEW r \in Requests, TokenAccepted(r) PROVE SharedInv'
  <2>1. kind[r] = "refresh"
    BY <1>14 DEF TokenAccepted, AwaitsOfKind
  <2>2. FlightsOK
    <3>1. CASE Settles(r, "transient")
      BY <1>14, <2>1, <3>1, SettlingKeepsFlights
      DEF TokenAccepted, RefreshAwaits, Outcomes
    <3>2. CASE Goes(r, "set") /\ UNCHANGED <<inFlight, outcome>>
      BY <1>14, <2>1, <3>2
      DEF TokenAccepted, Goes, TypeOK, Awaits, AwaitsOfKind, Sliding, LeaderOwns,
          FlightsAreShared, requests, RefreshAwaits
    <3> QED
      BY <1>14, <3>1, <3>2 DEF TokenAccepted
  <2>3. UNCHANGED requests
    BY <1>14 DEF TokenAccepted
  <2>4. RestTyped'
    BY <1>0, <1>14 DEF TokenAccepted, RestTyped, requests, TypeOK, Sessions
  <2> QED
    BY <2>2, <2>3, <2>4, Reassemble
<1>15. ASSUME NEW r \in Requests,
              \/ TokenRejected(r)
              \/ TokenUnavailable(r)
              \/ StoreFailsRefresh(r)
       PROVE  SharedInv'
  <2>1. kind[r] = "refresh" /\ at[r] \in RefreshAwaits
    BY <1>15
    DEF TokenRejected, TokenUnavailable, StoreFailsRefresh, AwaitsOfKind,
        RefreshAwaits
  <2>2. PICK result \in Outcomes : Settles(r, result) /\ UNCHANGED requests
    BY <1>15 DEF TokenRejected, TokenUnavailable, StoreFailsRefresh, Outcomes
  <2>3. FlightsOK
    BY <2>1, <2>2, SettlingKeepsFlights
  <2>4. RestTyped'
    BY <1>0, <1>15
    DEF TokenRejected, TokenUnavailable, StoreFailsRefresh, RestTyped, requests,
        TypeOK
  <2> QED
    BY <2>2, <2>3, <2>4, Reassemble
<1>16. ASSUME NEW r \in Requests, RefreshWrites(r) PROVE SharedInv'
  <2>1. FlightsOK
    BY <1>16, SettlingKeepsFlights DEF RefreshWrites, RefreshAwaits, Outcomes
  <2>2. UNCHANGED requests
    BY <1>16 DEF RefreshWrites
  <2>3. RestTyped'
    BY <1>0, <1>16, PutTyped DEF RefreshWrites, RestTyped, requests, TypeOK
  <2> QED
    BY <2>1, <2>2, <2>3, Reassemble
<1>17. ASSUME NEW r \in Requests, StoreFails(r) PROVE SharedInv'
  <2>1. FlightsOK /\ UNCHANGED requests
    BY <1>17, OthersKeepFlights DEF StoreFails, Finishes, TypeOK, refreshing
  <2>2. RestTyped'
    BY <1>0, <1>17 DEF StoreFails, RestTyped, requests, refreshing
  <2> QED
    BY <2>1, <2>2, Reassemble
<1>18. CASE Restart
  <2>1. FlightsOK /\ UNCHANGED requests
    BY <1>18, NoRequestAssumption
    DEF Restart, TypeOK, AwaitsOfKind, LeaderOwns, FlightsAreShared, Sliding,
        requests, RefreshAwaits
  <2>2. RestTyped'
    BY <1>0, <1>18 DEF Restart, RestTyped, requests
  <2> QED
    BY <2>1, <2>2, Reassemble
<1>19. CASE UNCHANGED vars
  <2>1. FlightsOK /\ UNCHANGED requests
    BY <1>19, StutterKeepsFlights
    DEF vars, SharedUnchanged, TypeOK, refreshing, requests
  <2>2. RestTyped'
    BY <1>0, <1>19 DEF vars, RestTyped, refreshing
  <2> QED
    BY <2>1, <2>2, Reassemble
<1> QED
  BY <1>1, <1>2, <1>3, <1>4, <1>5, <1>6, <1>7, <1>8, <1>9, <1>10, <1>11,
     <1>12, <1>13, <1>14, <1>15, <1>16, <1>17, <1>18, <1>19
  DEF Next, Slide, Logout, Flight

LEMMA SharedInit == Init => SharedInv
<1> SUFFICES ASSUME Init PROVE SharedInv
  OBVIOUS
<1>1. TypeOK
  BY InitTyped
<1>2. AwaitsOfKind /\ LeaderOwns
  BY DEF Init, AwaitsOfKind, LeaderOwns
<1>3. FlightsAreShared
  BY <1>1, NoRequestAssumption DEF Init, TypeOK, FlightsAreShared
<1> QED
  BY <1>1, <1>2, <1>3 DEF SharedInv

\* For any number of sessions and requests the variables keep their types
\* (session-store.ts:26-87, refresh.ts:31-41).
THEOREM SessionsAreTyped == Spec => []TypeOK
<1>1. SharedInv => TypeOK
  BY DEF SharedInv
<1> QED
  BY <1>1, SharedInit, SharedStep, PTL DEF Spec

\* For any number of sessions and requests: a session is refreshed by at most
\* one request at a time, and whoever joined it is answered when it settles
\* (refresh.ts:8-15, :74-86).
THEOREM RefreshIsShared == Spec => []FlightsAreShared
<1>1. Init => SharedInv
  BY SharedInit
<1>2. SharedInv /\ [Next]_vars => SharedInv'
  BY SharedStep
<1>3. SharedInv => FlightsAreShared
  BY DEF SharedInv
<1> QED
  BY <1>1, <1>2, <1>3, PTL DEF Spec

-----------------------------------------------------------------------------
(***************************************************************************)
(* The tokens, in a store that implements touch().                         *)
(***************************************************************************)

\* A session is stored, deleted or logged out only after it was minted.
Minting ==
  /\ \A s \in Sids : s \notin minted => store[s] = NoSession
  /\ gone \subseteq minted
  /\ \A r \in Requests :
       kind[r] = "logout" /\ at[r] = "delete" => sid[r] \in minted

Carrying(r) == kind[r] = "refresh" /\ at[r] \in {"token", "set"}

\* A refresh carries the token the store holds, or, once the IdP answered, one
\* that is not older.
TokensInOrder ==
  \A r \in Requests : Carrying(r) =>
    /\ sid[r] \in minted
    /\ seen[r] \in Tokens \ {Withheld}
    /\ \/ store[sid[r]] = NoSession
       \/ store[sid[r]] = seen[r]
       \/ at[r] = "set" /\ store[sid[r]] <= seen[r]

\* Between the answer of the IdP and the write.
Writing(s) == inFlight[s] # NoRequest /\ at[inFlight[s]] = "set"

\* Unless a rotated token was lost or the grant has ended, the IdP accepts the
\* token a refresh carries, and otherwise the one in the store.
GrantFollows ==
  /\ \A r \in Requests : Carrying(r) =>
       sid[r] \in lost \/ grant[sid[r]] \in {Withheld, seen[r]}
  /\ \A s \in Sids : s \notin lost /\ store[s] # NoSession /\ ~Writing(s) =>
       grant[s] \in {Withheld, store[s]}

TokensInv == Minting /\ TokensInOrder /\ GrantFollows

\* A request that is not a refresh and leaves store and IdP alone.
LEMMA QuietKeepsTokens ==
  ASSUME SharedInv, TokensInv, NEW r \in Requests, kind[r] # "refresh",
         UNCHANGED <<store, minted, grant, inFlight, lost, gone, requests>>,
         \A q \in Requests \ {r} : at'[q] = at[q] /\ seen'[q] = seen[q],
         kind[r] = "logout" /\ at'[r] = "delete" => sid[r] \in minted
  PROVE  TokensInv'
<1>1. Minting'
  BY DEF TokensInv, Minting, requests
<1>2. \A q \in Requests : Carrying(q)' = Carrying(q)
  BY DEF Carrying, requests
<1>3. \A q \in Requests : Carrying(q) => q # r
  BY DEF Carrying
<1>4. TokensInOrder'
  BY <1>2, <1>3 DEF TokensInv, TokensInOrder, requests
<1>5. \A s \in Sids : Writing(s)' = Writing(s)
  <2> SUFFICES ASSUME NEW s \in Sids, inFlight[s] # NoRequest
               PROVE  at'[inFlight[s]] = at[inFlight[s]]
    BY DEF Writing
  <2>1. inFlight[s] \in Requests /\ inFlight[s] # r
    BY DEF SharedInv, TypeOK, LeaderOwns
  <2> QED
    BY <2>1
<1>6. GrantFollows'
  BY <1>2, <1>3, <1>5 DEF TokensInv, GrantFollows, requests
<1> QED
  BY <1>1, <1>4, <1>6 DEF TokensInv

\* A session that is dropped (session-store.ts: delete, deleteByUser, expiry).
LEMMA DropKeepsTokens ==
  ASSUME SharedInv, TokensInv, NEW ss \in SUBSET minted, Drop(ss),
         UNCHANGED <<minted, seen, grant, inFlight, lost, requests>>,
         \/ at' = at
         \/ \E r \in Requests : kind[r] # "refresh" /\ Finishes(r)
  PROVE  TokensInv'
<1>1. \A q \in Requests : at'[q] = at[q] \/ (at'[q] = "idle" /\ kind[q] # "refresh")
  BY DEF SharedInv, TypeOK, Finishes, Goes
<1>2. \A s \in Sids : store'[s] = NoSession \/ store'[s] = store[s]
  BY DEF Drop
<1>3. gone' = gone \cup ss
  BY DEF Drop
<1>4. Minting'
  BY <1>1, <1>2, <1>3 DEF TokensInv, Minting, requests
<1>5. \A q \in Requests : Carrying(q)' = Carrying(q)
  BY <1>1 DEF Carrying, requests
<1>6. \A q \in Requests : Carrying(q) => at'[q] = at[q] /\ sid[q] \in Sids
  BY <1>1 DEF Carrying, SharedInv, TypeOK
<1>7. TokensInOrder'
  BY <1>2, <1>5, <1>6 DEF TokensInv, TokensInOrder, requests
<1>8. \A s \in Sids : Writing(s)' = Writing(s)
  <2> SUFFICES ASSUME NEW s \in Sids, inFlight[s] # NoRequest
               PROVE  at'[inFlight[s]] = at[inFlight[s]]
    BY DEF Writing
  <2> QED
    BY <1>1 DEF SharedInv, TypeOK, LeaderOwns
<1>9. GrantFollows'
  BY <1>2, <1>5, <1>8 DEF TokensInv, GrantFollows, requests
<1> QED
  BY <1>4, <1>7, <1>9 DEF TokensInv

\* A flight that settles without a word from the IdP that is not stored: it
\* carried the stored token, or lost one (refresh.ts:83-143).
LEMMA SettlingKeepsTokens ==
  ASSUME SharedInv, TokensInv, NEW r \in Requests, NEW result \in Outcomes,
         kind[r] = "refresh", at[r] \in RefreshAwaits, Settles(r, result),
         UNCHANGED <<store, minted, grant, seen, gone, requests>>,
         lost \subseteq lost', lost' \subseteq Sids,
         \/ at[r] # "set"
         \/ store[sid[r]] \in {NoSession, seen[r]}
         \/ sid[r] \in lost'
  PROVE  TokensInv'
<1>1. sid[r] \in Sids /\ inFlight[sid[r]] = r
  BY DEF SharedInv, TypeOK, FlightsAreShared, RefreshAwaits
<1>2. \A q \in Requests : at'[q] = at[q] \/ at'[q] = "idle"
  BY DEF Settles
<1>3. Minting'
  BY <1>2 DEF TokensInv, Minting, requests
<1>4. \A q \in Requests : Carrying(q)' => Carrying(q) /\ at'[q] = at[q]
  BY <1>2 DEF Carrying, requests
<1>5. TokensInOrder'
  BY <1>4 DEF TokensInv, TokensInOrder, requests
<1>6. ASSUME NEW s \in Sids, s \notin lost', store[s] # NoSession, ~Writing(s)'
      PROVE  grant[s] \in {Withheld, store[s]}
  <2>1. CASE s = sid[r]
    <3>1. CASE at[r] = "set"
      BY <1>1, <1>6, <2>1, <3>1 DEF TokensInv, GrantFollows, Carrying
    <3>2. CASE at[r] # "set"
      BY <1>1, <1>6, <2>1, <3>2 DEF TokensInv, GrantFollows, Writing
    <3> QED
      BY <3>1, <3>2
  <2>2. CASE s # sid[r]
    <3>1. inFlight'[s] = inFlight[s]
      BY <1>1, <2>2 DEF Settles, SharedInv, TypeOK
    <3>2. ASSUME inFlight[s] # NoRequest PROVE at'[inFlight[s]] = at[inFlight[s]]
      BY <2>2, <3>2 DEF Settles, SharedInv, TypeOK, LeaderOwns
    <3>3. ~Writing(s)
      BY <1>6, <3>1, <3>2 DEF Writing
    <3> QED
      BY <1>6, <3>3 DEF TokensInv, GrantFollows
  <2> QED
    BY <2>1, <2>2
<1>7. GrantFollows'
  BY <1>4, <1>6 DEF TokensInv, GrantFollows, requests
<1> QED
  BY <1>3, <1>5, <1>7 DEF TokensInv

\* The flights of other sessions are none of a request's business.
LEMMA OnlyOneCarries ==
  ASSUME SharedInv, NEW r \in Requests, NEW q \in Requests,
         kind[r] = "refresh", at[r] \in RefreshAwaits,
         kind[q] = "refresh", at[q] \in RefreshAwaits, sid[q] = sid[r]
  PROVE  q = r
  BY DEF SharedInv, FlightsAreShared, RefreshAwaits

LEMMA TokensStep ==
  hasTouch /\ SharedInv /\ TokensInv /\ [Next]_vars => TokensInv'
<1> SUFFICES ASSUME hasTouch, SharedInv, TokensInv, [Next]_vars
             PROVE  TokensInv'
  OBVIOUS
<1> USE DEF TokensInv
<1>1. ASSUME NEW s \in Sids, Login(s) PROVE TokensInv'
  <2>1. PICK token \in {Withheld, 1} :
          /\ store' = [store EXCEPT ![s] = token]
          /\ grant' = [grant EXCEPT ![s] = token]
    BY <1>1 DEF Login
  <2>2. \A q \in Requests : Carrying(q) => sid[q] # s
    BY <1>1 DEF TokensInOrder, Login
  <2>3. \A x \in Sids : x # s => store'[x] = store[x] /\ grant'[x] = grant[x]
    BY <2>1
  <2>4. store'[s] = token /\ grant'[s] = token
    BY <2>1 DEF SharedInv, TypeOK
  <2>5. UNCHANGED <<at, seen, requests, inFlight, lost, gone>>
    BY <1>1 DEF Login
  <2>6. minted' = minted \cup {s}
    BY <1>1 DEF Login
  <2>7. Minting'
    BY <2>3, <2>5, <2>6 DEF Minting, requests
  <2>8. TokensInOrder'
    BY <2>2, <2>3, <2>5, <2>6
    DEF TokensInOrder, Carrying, requests, SharedInv, TypeOK
  <2>9. GrantFollows'
    BY <2>2, <2>3, <2>4, <2>5
    DEF GrantFollows, Carrying, Writing, requests, SharedInv, TypeOK
  <2> QED
    BY <2>7, <2>8, <2>9
<1>2. ASSUME NEW s \in Sids, Expires(s) PROVE TokensInv'
  <2>1. {s} \in SUBSET minted
    BY <1>2 DEF Expires, Minting
  <2> QED
    BY <1>2, <2>1, DropKeepsTokens DEF Expires, refreshing
<1>3. ASSUME NEW s \in Sids, GrantEnds(s) PROVE TokensInv'
  <2>1. UNCHANGED <<store, minted, at, seen, requests, inFlight, lost, gone>>
    BY <1>3 DEF GrantEnds
  <2>2. \A x \in Sids : grant'[x] \in {Withheld, grant[x]}
    BY <1>3 DEF GrantEnds, SharedInv, TypeOK
  <2>3. Minting' /\ TokensInOrder'
    BY <2>1 DEF Minting, TokensInOrder, Carrying, requests
  <2>4. GrantFollows'
    BY <2>1, <2>2
    DEF GrantFollows, Carrying, Writing, requests, SharedInv, TypeOK
  <2> QED
    BY <2>3, <2>4
<1>4. ASSUME NEW r \in Requests,
             \/ Begin(r)
             \/ DoorCheck(r)
             \/ SlideTouches(r)
             \/ LogoutChecks(r)
             \/ StoreFails(r)
      PROVE  TokensInv'
  <2>1. kind[r] # "refresh"
    BY <1>4
    DEF Begin, DoorCheck, SlideTouches, LogoutChecks, StoreFails, Sliding,
        SharedInv, AwaitsOfKind
  <2>2. UNCHANGED <<store, minted, grant, inFlight, lost, gone, requests>>
    BY <1>4
    DEF Begin, DoorCheck, SlideTouches, LogoutChecks, StoreFails, refreshing
  <2>3. \A q \in Requests \ {r} : at'[q] = at[q] /\ seen'[q] = seen[q]
    BY <1>4
    DEF Begin, DoorCheck, SlideTouches, LogoutChecks, StoreFails, Goes, Finishes,
        SharedInv, TypeOK
  <2>4. ASSUME kind[r] = "logout", at'[r] = "delete" PROVE sid[r] \in minted
    BY <1>4, <2>4
    DEF Begin, DoorCheck, SlideTouches, LogoutChecks, StoreFails, Goes, Finishes,
        Minting, SharedInv, TypeOK, Sliding
  <2> QED
    BY <2>1, <2>2, <2>3, <2>4, QuietKeepsTokens
<1>5. ASSUME NEW r \in Requests, SlideRereads(r) \/ SlideWrites(r) PROVE FALSE
  BY <1>5 DEF SlideRereads, SlideWrites, Sliding, SharedInv, AwaitsOfKind
<1>6. ASSUME NEW r \in Requests, LogoutDeletes(r) \/ RevokeDeletes(r)
      PROVE  TokensInv'
  <2>1. PICK ss \in SUBSET minted : Drop(ss)
    BY <1>6 DEF LogoutDeletes, RevokeDeletes, Minting
  <2>2. kind[r] # "refresh" /\ Finishes(r)
    BY <1>6 DEF LogoutDeletes, RevokeDeletes
  <2>3. UNCHANGED <<minted, seen, grant, inFlight, lost, requests>>
    BY <1>6 DEF LogoutDeletes, RevokeDeletes, refreshing
  <2> QED
    BY <2>1, <2>2, <2>3, DropKeepsTokens
<1>7. ASSUME NEW r \in Requests, Refresh(r) PROVE TokensInv'
  <2>1. UNCHANGED <<store, minted, grant, seen, lost, gone, requests>>
    BY <1>7 DEF Refresh
  <2>2. \A q \in Requests : at'[q] # at[q] => q = r /\ at'[q] \in {"join", "get"}
    BY <1>7 DEF Refresh, Goes, SharedInv, TypeOK
  <2>3. \A q \in Requests : Carrying(q)' <=> Carrying(q) /\ at'[q] = at[q]
    BY <1>7, <2>1, <2>2 DEF Carrying, Refresh, requests
  <2>4. Minting' /\ TokensInOrder'
    BY <2>1, <2>2, <2>3 DEF Minting, TokensInOrder, requests
  <2>5. \A s \in Sids : Writing(s) => Writing(s)'
    <3> SUFFICES ASSUME NEW s \in Sids, Writing(s) PROVE Writing(s)'
      OBVIOUS
    <3>1. inFlight[s] \in Requests /\ sid[inFlight[s]] = s /\ inFlight[s] # r
      BY <1>7 DEF Refresh, Writing, SharedInv, TypeOK, LeaderOwns
    <3>2. inFlight'[s] = inFlight[s]
      BY <1>7 DEF Refresh, Writing, SharedInv, TypeOK
    <3> QED
      BY <2>2, <3>1, <3>2 DEF Writing
  <2>6. GrantFollows'
    BY <2>1, <2>3, <2>5 DEF GrantFollows, requests
  <2> QED
    BY <2>4, <2>6
<1>8. ASSUME NEW r \in Requests, RefreshReads(r) PROVE TokensInv'
  <2>1. UNCHANGED <<store, minted, grant, lost, gone, requests>>
    BY <1>8 DEF RefreshReads
  <2>2. CASE Settles(r, "terminal") /\ UNCHANGED seen
    BY <1>8, <2>1, <2>2, SettlingKeepsTokens
    DEF RefreshReads, RefreshAwaits, Outcomes, SharedInv, TypeOK
  <2>3. CASE /\ store[sid[r]] \notin {NoSession, Withheld}
             /\ seen' = [seen EXCEPT ![r] = store[sid[r]]]
             /\ Goes(r, "token")
             /\ UNCHANGED inFlight
    <3>1. \A q \in Requests : q # r => at'[q] = at[q] /\ seen'[q] = seen[q]
      BY <2>3 DEF Goes
    <3>2. at'[r] = "token" /\ seen'[r] = store[sid[r]]
      BY <2>3 DEF Goes, SharedInv, TypeOK
    <3>3. sid[r] \in Sids /\ store[sid[r]] \in Tokens \ {Withheld}
      BY <2>3 DEF SharedInv, TypeOK, Sessions
    <3>4. inFlight[sid[r]] = r /\ at[r] = "get" /\ kind[r] = "refresh"
      BY <1>8, <3>3 DEF RefreshReads, SharedInv, FlightsAreShared
    <3>5. sid[r] \in lost \/ grant[sid[r]] \in {Withheld, store[sid[r]]}
      BY <2>3, <3>3, <3>4 DEF GrantFollows, Writing
    <3>6. Minting'
      BY <2>1, <3>1, <3>2 DEF Minting, requests
    <3>7. TokensInOrder'
      BY <2>1, <2>3, <3>1, <3>2, <3>3
      DEF TokensInOrder, Carrying, Minting, requests
    <3>8. \A s \in Sids : Writing(s)' = Writing(s)
      BY <2>3, <3>1, <3>2, <3>4 DEF Writing, SharedInv, TypeOK
    <3>9. GrantFollows'
      BY <2>1, <3>1, <3>2, <3>5, <3>8 DEF GrantFollows, Carrying, requests
    <3> QED
      BY <3>6, <3>7, <3>9
  <2> QED
    BY <1>8, <2>2, <2>3 DEF RefreshReads
<1>9. ASSUME NEW r \in Requests, TokenAccepted(r) PROVE TokensInv'
  <2>1. /\ at[r] = "token" /\ kind[r] = "refresh"
        /\ sid[r] \in Sids /\ inFlight[sid[r]] = r
    BY <1>9
    DEF TokenAccepted, SharedInv, TypeOK, AwaitsOfKind, FlightsAreShared
  <2>2. UNCHANGED <<store, minted, gone, requests>> /\ seen[r] = grant[sid[r]]
    BY <1>9 DEF TokenAccepted
  <2>3. /\ sid[r] \in minted /\ seen[r] \in Tokens \ {Withheld}
        /\ store[sid[r]] \in {NoSession, seen[r]}
    BY <2>1 DEF TokensInOrder, Carrying
  <2>4. PICK token \in {seen[r], seen[r] + 1} \cap Tokens :
          /\ grant' = [grant EXCEPT ![sid[r]] = token]
          /\ \/ /\ seen' = [seen EXCEPT ![r] = token]
                /\ Goes(r, "set")
                /\ UNCHANGED <<inFlight, lost>>
             \/ /\ lost' = IF token = seen[r] THEN lost ELSE lost \cup {sid[r]}
                /\ Settles(r, "transient")
                /\ UNCHANGED seen
    BY <1>9 DEF TokenAccepted
  <2>5. \A s \in Sids : s # sid[r] => grant'[s] = grant[s]
    BY <2>4
  <2>6. grant'[sid[r]] = token
    BY <2>1, <2>4 DEF SharedInv, TypeOK
  <2>7. \A q \in Requests : q # r /\ Carrying(q) => sid[q] # sid[r]
    BY <2>1, OnlyOneCarries DEF Carrying, RefreshAwaits
  <2>8. CASE /\ seen' = [seen EXCEPT ![r] = token]
             /\ Goes(r, "set")
             /\ UNCHANGED <<inFlight, lost>>
    <3>1. \A q \in Requests : q # r => at'[q] = at[q] /\ seen'[q] = seen[q]
      BY <2>8 DEF Goes
    <3>2. at'[r] = "set" /\ seen'[r] = token
      BY <2>8 DEF Goes, SharedInv, TypeOK
    <3>3. token \in Tokens \ {Withheld} /\ seen[r] <= token
      BY <2>3, TokenCapAssumption DEF Tokens, Withheld
    <3>4. Minting'
      BY <2>2, <3>1, <3>2 DEF Minting, requests
    <3>5. TokensInOrder'
      BY <2>2, <2>3, <3>1, <3>2, <3>3
      DEF TokensInOrder, Carrying, requests
    <3>6. Writing(sid[r])'
      BY <2>1, <2>2, <2>8, <3>2, NoRequestAssumption DEF Writing, requests
    <3>7. \A s \in Sids : s # sid[r] => Writing(s)' = Writing(s)
      <4> SUFFICES ASSUME NEW s \in Sids, s # sid[r], inFlight[s] # NoRequest
                   PROVE  at'[inFlight[s]] = at[inFlight[s]]
        BY <2>8 DEF Writing
      <4> QED
        BY <3>1 DEF SharedInv, TypeOK, LeaderOwns
    <3>8. \A q \in Requests : q # r => Carrying(q)' = Carrying(q)
      BY <2>2, <3>1 DEF Carrying, requests
    <3>9. \A q \in Requests : Carrying(q)' =>
            sid[q] \in lost \/ grant'[sid[q]] \in {Withheld, seen'[q]}
      BY <2>5, <2>6, <2>7, <3>1, <3>2, <3>8
      DEF GrantFollows, SharedInv, TypeOK
    <3>10. GrantFollows'
      BY <2>2, <2>5, <2>8, <3>6, <3>7, <3>9 DEF GrantFollows, requests
    <3> QED
      BY <3>4, <3>5, <3>10
  <2>9. CASE /\ lost' = IF token = seen[r] THEN lost ELSE lost \cup {sid[r]}
             /\ Settles(r, "transient")
             /\ UNCHANGED seen
    <3>1. \A q \in Requests : at'[q] = at[q] \/ at'[q] = "idle"
      BY <2>9 DEF Settles
    <3>2. Minting'
      BY <2>2, <3>1 DEF Minting, requests
    <3>3. \A q \in Requests : Carrying(q)' =>
            Carrying(q) /\ at'[q] = at[q] /\ q # r
      BY <2>1, <2>2, <2>9, <3>1 DEF Carrying, requests, Settles
    <3>4. TokensInOrder'
      BY <2>2, <2>9, <3>3 DEF TokensInOrder, requests
    <3>5. \A q \in Requests : Carrying(q)' =>
            sid[q] \in lost' \/ grant'[sid[q]] \in {Withheld, seen'[q]}
      BY <2>5, <2>7, <2>9, <3>3 DEF GrantFollows, SharedInv, TypeOK
    <3>6. ASSUME NEW s \in Sids, s \notin lost', store[s] # NoSession, ~Writing(s)'
          PROVE  grant'[s] \in {Withheld, store[s]}
      <4>1. CASE s = sid[r]
        <5>1. token = seen[r]
          BY <2>9, <3>6, <4>1
        <5> QED
          BY <2>3, <2>6, <3>6, <4>1, <5>1
      <4>2. CASE s # sid[r]
        <5>1. inFlight'[s] = inFlight[s]
          BY <2>1, <2>9, <4>2 DEF Settles, SharedInv, TypeOK
        <5>2. ASSUME inFlight[s] # NoRequest
              PROVE  at'[inFlight[s]] = at[inFlight[s]]
          BY <2>9, <4>2, <5>2 DEF Settles, SharedInv, TypeOK, LeaderOwns
        <5>3. ~Writing(s) /\ s \notin lost
          BY <2>9, <3>6, <5>1, <5>2 DEF Writing
        <5> QED
          BY <2>5, <3>6, <4>2, <5>3 DEF GrantFollows
      <4> QED
        BY <4>1, <4>2
    <3>7. GrantFollows'
      BY <2>2, <3>5, <3>6 DEF GrantFollows, requests
    <3> QED
      BY <3>2, <3>4, <3>7
  <2> QED
    BY <2>4, <2>8, <2>9
<1>10. ASSUME NEW r \in Requests,
              TokenRejected(r) \/ TokenUnavailable(r) \/ StoreFailsRefresh(r)
       PROVE  TokensInv'
  <2>1. kind[r] = "refresh" /\ at[r] \in RefreshAwaits
    BY <1>10
    DEF TokenRejected, TokenUnavailable, StoreFailsRefresh, RefreshAwaits,
        SharedInv, AwaitsOfKind
  <2>2. PICK result \in Outcomes : Settles(r, result)
    BY <1>10 DEF TokenRejected, TokenUnavailable, StoreFailsRefresh, Outcomes
  <2>3. UNCHANGED <<store, minted, grant, seen, gone, requests>>
    BY <1>10 DEF TokenRejected, TokenUnavailable, StoreFailsRefresh
  <2>4. /\ lost \subseteq lost' /\ lost' \subseteq Sids
        /\ \/ at[r] # "set"
           \/ store[sid[r]] \in {NoSession, seen[r]}
           \/ sid[r] \in lost'
    BY <1>10
    DEF TokenRejected, TokenUnavailable, StoreFailsRefresh, SharedInv, TypeOK
  <2> QED
    BY <2>1, <2>2, <2>3, <2>4, SettlingKeepsTokens
<1>11. ASSUME NEW r \in Requests, RefreshWrites(r) PROVE TokensInv'
  <2>1. /\ at[r] = "set" /\ kind[r] = "refresh"
        /\ sid[r] \in Sids /\ inFlight[sid[r]] = r
    BY <1>11 DEF RefreshWrites, SharedInv, TypeOK, FlightsAreShared
  <2>2. UNCHANGED <<minted, grant, seen, requests, lost, gone>>
    BY <1>11 DEF RefreshWrites
  <2>3. /\ store'[sid[r]] = seen[r]
        /\ \A s \in Sids : s # sid[r] => store'[s] = store[s]
    BY <1>11, <2>1 DEF RefreshWrites, Put, SharedInv, TypeOK
  <2>4. Settles(r, "ok")
    BY <1>11 DEF RefreshWrites
  <2>5. \A q \in Requests : at'[q] = at[q] \/ at'[q] = "idle"
    BY <2>4 DEF Settles
  <2>6. \A q \in Requests : Carrying(q)' =>
          Carrying(q) /\ at'[q] = at[q] /\ sid[q] # sid[r]
    <3>1. \A q \in Requests : Carrying(q)' => Carrying(q) /\ at'[q] = at[q] /\ q # r
      BY <2>1, <2>2, <2>4, <2>5 DEF Carrying, requests, Settles
    <3> QED
      BY <2>1, <3>1, OnlyOneCarries DEF Carrying, RefreshAwaits
  <2>7. sid[r] \in minted /\ (sid[r] \in lost \/ grant[sid[r]] \in {Withheld, seen[r]})
    BY <2>1 DEF TokensInOrder, GrantFollows, Carrying
  <2>8. Minting'
    BY <2>2, <2>3, <2>5, <2>7 DEF Minting, requests
  <2>9. TokensInOrder'
    BY <2>2, <2>3, <2>6 DEF TokensInOrder, requests, SharedInv, TypeOK
  <2>10. ASSUME NEW s \in Sids, s \notin lost, store'[s] # NoSession, ~Writing(s)'
         PROVE  grant[s] \in {Withheld, store'[s]}
    <3>1. CASE s = sid[r]
      BY <2>3, <2>7, <2>10, <3>1
    <3>2. CASE s # sid[r]
      <4>1. inFlight'[s] = inFlight[s]
        BY <2>1, <2>4, <3>2 DEF Settles, SharedInv, TypeOK
      <4>2. ASSUME inFlight[s] # NoRequest
            PROVE  at'[inFlight[s]] = at[inFlight[s]]
        BY <2>4, <3>2, <4>2 DEF Settles, SharedInv, TypeOK, LeaderOwns
      <4>3. ~Writing(s)
        BY <2>10, <4>1, <4>2 DEF Writing
      <4> QED
        BY <2>3, <2>10, <3>2, <4>3 DEF GrantFollows
    <3> QED
      BY <3>1, <3>2
  <2>11. GrantFollows'
    BY <2>2, <2>6, <2>10 DEF GrantFollows, requests
  <2> QED
    BY <2>8, <2>9, <2>11
<1>12. CASE Restart
  <2>1. \A q \in Requests : at'[q] = "idle"
    BY <1>12 DEF Restart
  <2>2. UNCHANGED <<store, minted, grant, requests, gone>>
    BY <1>12 DEF Restart
  <2>3. Minting' /\ TokensInOrder'
    BY <2>1, <2>2 DEF Minting, TokensInOrder, Carrying, requests
  <2>4. ASSUME NEW s \in Sids, s \notin lost', store[s] # NoSession
        PROVE  grant[s] \in {Withheld, store[s]}
    <3>1. s \notin lost /\ (Writing(s) => store[s] = seen[inFlight[s]])
      BY <1>12, <2>4 DEF Restart, Writing
    <3>2. ASSUME Writing(s)
          PROVE  inFlight[s] \in Requests /\ sid[inFlight[s]] = s /\ Carrying(inFlight[s])
      BY <3>2 DEF Writing, Carrying, SharedInv, TypeOK, LeaderOwns
    <3> QED
      BY <2>4, <3>1, <3>2 DEF GrantFollows
  <2>5. GrantFollows'
    BY <2>1, <2>2, <2>4 DEF GrantFollows, Carrying, requests
  <2> QED
    BY <2>3, <2>5
<1>13. CASE UNCHANGED vars
  BY <1>13
  DEF vars, requests, refreshing, Minting, TokensInOrder, GrantFollows, Carrying,
      Writing
<1> QED
  BY <1>1, <1>2, <1>3, <1>4, <1>5, <1>6, <1>7, <1>8, <1>9, <1>10, <1>11, <1>12,
     <1>13
  DEF Next, Slide, Logout, Flight

LEMMA TokensInit == Init => TokensInv
  BY DEF Init, TokensInv, Minting, TokensInOrder, GrantFollows, Carrying

\* A store does not learn or forget touch().
LEMMA TouchIsFixed ==
  ASSUME [Next]_vars
  PROVE  hasTouch' = hasTouch
  BY DEF Next, vars, requests, refreshing, Login, Expires, GrantEnds, Begin,
         DoorCheck, Slide, SlideTouches, SlideRereads, SlideWrites, Logout,
         LogoutChecks, LogoutDeletes, RevokeDeletes, Refresh, Flight,
         RefreshReads, TokenAccepted, TokenRejected, TokenUnavailable,
         RefreshWrites, StoreFails, StoreFailsRefresh, Restart

SessionsInv == SharedInv /\ (hasTouch => TokensInv)

LEMMA SessionsAreKept == Spec => []SessionsInv
<1>1. Init => SessionsInv
  BY SharedInit, TokensInit DEF SessionsInv
<1>2. [Next]_vars => hasTouch' = hasTouch
  BY TouchIsFixed
<1>3. SessionsInv /\ [Next]_vars => SessionsInv'
  BY <1>2, SharedStep, TokensStep DEF SessionsInv
<1> QED
  BY <1>1, <1>3, PTL DEF Spec

\* What a step does to a session: a login stores one that was never minted, a
\* deletion drops it, and a refresh writes what it carries.
LEMMA WhoWrites ==
  ASSUME hasTouch, SessionsInv, Next, NEW s \in Sids
  PROVE  \/ store'[s] \in {NoSession, store[s]}
         \/ s \notin minted
         \/ \E r \in Requests : RefreshWrites(r) /\ sid[r] = s
<1>1. ASSUME NEW x \in Sids, Login(x) \/ Expires(x) \/ GrantEnds(x)
      PROVE  store'[s] \in {NoSession, store[s]} \/ s \notin minted
  BY <1>1
  DEF Login, Expires, GrantEnds, Drop, SessionsInv, SharedInv, TypeOK
<1>2. ASSUME NEW r \in Requests,
             \/ Begin(r) \/ DoorCheck(r) \/ SlideTouches(r) \/ LogoutChecks(r)
             \/ Refresh(r) \/ RefreshReads(r) \/ TokenAccepted(r)
             \/ TokenRejected(r) \/ TokenUnavailable(r) \/ StoreFails(r)
             \/ StoreFailsRefresh(r)
      PROVE  store' = store
  BY <1>2
  DEF Begin, DoorCheck, SlideTouches, LogoutChecks, Refresh, RefreshReads,
      TokenAccepted, TokenRejected, TokenUnavailable, StoreFails,
      StoreFailsRefresh
<1>3. ASSUME NEW r \in Requests, LogoutDeletes(r) \/ RevokeDeletes(r)
      PROVE  store'[s] \in {NoSession, store[s]}
  BY <1>3 DEF LogoutDeletes, RevokeDeletes, Drop
<1>4. ASSUME NEW r \in Requests, SlideRereads(r) \/ SlideWrites(r) PROVE FALSE
  BY <1>4
  DEF SlideRereads, SlideWrites, Sliding, SessionsInv, SharedInv, AwaitsOfKind
<1>5. ASSUME NEW r \in Requests, RefreshWrites(r), sid[r] # s
      PROVE  store'[s] = store[s]
  BY <1>5 DEF RefreshWrites, Put, SessionsInv, SharedInv, TypeOK
<1>6. CASE Restart
  BY <1>6 DEF Restart
<1> QED
  BY <1>1, <1>2, <1>3, <1>4, <1>5, <1>6 DEF Next, Slide, Logout, Flight

\* For any number of sessions and requests and under every failure: with a
\* store that implements touch(), no write rolls a rotated token back
\* (session-store.ts:117-125).
THEOREM NeverRolledBack ==
  Spec => TokensNeverRollBack
<1>1. SessionsInv /\ [Next]_vars =>
        [hasTouch =>
         \A s \in Sids : store[s] # NoSession /\ store'[s] # NoSession =>
           store'[s] >= store[s]]_vars
  <2> SUFFICES ASSUME SessionsInv, Next, hasTouch, NEW s \in Sids,
                      store[s] # NoSession, store'[s] # NoSession
               PROVE  store'[s] >= store[s]
    OBVIOUS
  <2>1. store[s] \in Nat /\ s \in minted
    BY DEF SessionsInv, SharedInv, TypeOK, Sessions, Tokens, TokensInv, Minting
  <2>2. CASE store'[s] = store[s]
    BY <2>1, <2>2
  <2>3. CASE \E r \in Requests : RefreshWrites(r) /\ sid[r] = s
    <3>1. PICK r \in Requests : RefreshWrites(r) /\ sid[r] = s
      BY <2>3
    <3>2. store'[s] = seen[r]
      BY <3>1 DEF RefreshWrites, Put, SessionsInv, SharedInv, TypeOK
    <3>3. seen[r] \in Nat /\ store[s] <= seen[r]
      BY <2>1, <3>1
      DEF RefreshWrites, SessionsInv, TokensInv, TokensInOrder, Carrying, Tokens
    <3> QED
      BY <2>1, <3>2, <3>3
  <2> QED
    BY <2>1, <2>2, <2>3, WhoWrites
<1> QED
  BY <1>1, SessionsAreKept, PTL DEF Spec, TokensNeverRollBack

\* With touch(), what brings a deleted session back can only be a refresh that
\* is in flight (session-store.ts:114-115, refresh.ts:125).
THEOREM OnlyRefreshesResurrect ==
  Spec => OnlyRefreshResurrects
<1>1. SessionsInv /\ [Next]_vars =>
        [hasTouch =>
         \A s \in gone : store[s] = NoSession /\ store'[s] # NoSession =>
           inFlight[s] # NoRequest]_vars
  <2> SUFFICES ASSUME SessionsInv, Next, hasTouch, NEW s \in gone,
                      store[s] = NoSession, store'[s] # NoSession
               PROVE  inFlight[s] # NoRequest
    OBVIOUS
  <2>1. s \in Sids /\ s \in minted
    BY DEF SessionsInv, SharedInv, TypeOK, TokensInv, Minting
  <2>2. PICK r \in Requests : RefreshWrites(r) /\ sid[r] = s
    BY <2>1, WhoWrites
  <2> QED
    BY <2>2, NoRequestAssumption
    DEF RefreshWrites, SessionsInv, SharedInv, FlightsAreShared
<1> QED
  BY <1>1, SessionsAreKept, PTL DEF Spec, OnlyRefreshResurrects

\* With touch(), a refresh reports "terminal", on which the user is logged out,
\* only of a session that is deleted, has no refresh token, was ended by the
\* IdP, or lost a rotated token on the way (refresh.ts:15-20, :128-143).
THEOREM TerminalIsDeserved ==
  Spec => TerminalMeansOver
<1>1. SessionsInv /\ [Next]_vars =>
        [hasTouch =>
         \A s \in Sids : outcome[s] # "terminal" /\ outcome'[s] = "terminal" =>
           store[s] \in {NoSession, Withheld} \/ grant[s] = Withheld \/ s \in lost]_vars
  <2> SUFFICES ASSUME SessionsInv, Next, hasTouch, NEW s \in Sids,
                      outcome[s] # "terminal", outcome'[s] = "terminal"
               PROVE  \/ store[s] \in {NoSession, Withheld}
                      \/ grant[s] = Withheld
                      \/ s \in lost
    OBVIOUS
  <2>1. ASSUME NEW r \in Requests, RefreshReads(r)
        PROVE  store[s] \in {NoSession, Withheld}
    BY <2>1
    DEF RefreshReads, Settles, SessionsInv, SharedInv, TypeOK
  <2>2. ASSUME NEW r \in Requests, TokenRejected(r)
        PROVE  grant[s] = Withheld \/ s \in lost
    <3>1. sid[r] = s
      BY <2>2 DEF TokenRejected, Settles, SessionsInv, SharedInv, TypeOK
    <3>2. Carrying(r)
      BY <2>2
      DEF TokenRejected, Carrying, SessionsInv, SharedInv, AwaitsOfKind
    <3> QED
      BY <2>2, <3>1, <3>2 DEF TokenRejected, SessionsInv, TokensInv, GrantFollows
  <2>3. ASSUME NEW r \in Requests,
               \/ Refresh(r) \/ TokenAccepted(r) \/ TokenUnavailable(r)
               \/ RefreshWrites(r) \/ StoreFailsRefresh(r)
        PROVE  FALSE
    BY <2>3
    DEF Refresh, TokenAccepted, TokenUnavailable, RefreshWrites,
        StoreFailsRefresh, Settles, SessionsInv, SharedInv, TypeOK
  <2>4. ASSUME NEW x \in Sids, Login(x) \/ Expires(x) \/ GrantEnds(x)
        PROVE  FALSE
    BY <2>4 DEF Login, Expires, GrantEnds, refreshing
  <2>5. ASSUME NEW r \in Requests,
               \/ Begin(r) \/ DoorCheck(r) \/ Slide(r) \/ Logout(r)
               \/ RevokeDeletes(r) \/ StoreFails(r)
        PROVE  FALSE
    BY <2>5
    DEF Begin, DoorCheck, Slide, SlideTouches, SlideRereads, SlideWrites, Logout,
        LogoutChecks, LogoutDeletes, RevokeDeletes, StoreFails, refreshing
  <2>6. CASE Restart
    BY <2>6 DEF Restart
  <2> QED
    BY <2>1, <2>2, <2>3, <2>4, <2>5, <2>6 DEF Next, Flight
<1> QED
  BY <1>1, SessionsAreKept, PTL DEF Spec, TerminalMeansOver

-----------------------------------------------------------------------------
(***************************************************************************)
(* The slide's fallback, in a store without touch().                       *)
(***************************************************************************)

\* Only a sid that was issued names a session, or is worked on.
Stored ==
  /\ \A s \in Sids : store[s] # NoSession => s \in minted
  /\ \A r \in Requests : at[r] \in {"token", "set"} => sid[r] \in minted

\* A slide about to write holds what the store holds, or has been raced.
SlidesAreFresh ==
  \A r \in Requests : at[r] = "set" /\ Sliding(r) /\ r \notin raced =>
    seen[r] = store[sid[r]]

FallbackInv == SharedInv /\ Stored /\ SlidesAreFresh

\* A request that leaves the store alone, and starts no slide's write.
LEMMA QuietKeepsFresh ==
  ASSUME FallbackInv, UNCHANGED <<store, minted, requests, raced>>,
         \A q \in Requests : at'[q] \in {"token", "set"} =>
           \/ at'[q] = at[q] /\ seen'[q] = seen[q]
           \/ kind[q] = "refresh" /\ sid[q] \in minted
  PROVE  Stored' /\ SlidesAreFresh'
<1>1. Stored'
  BY DEF FallbackInv, Stored, requests
<1>2. SlidesAreFresh'
  BY DEF FallbackInv, SlidesAreFresh, Sliding, requests
<1> QED
  BY <1>1, <1>2

\* A write of a session that was issued (set()): the slides it overtakes are
\* raced, unless it changes nothing.
LEMMA PutKeepsFresh ==
  ASSUME FallbackInv, NEW s \in minted, NEW session \in Sessions, Put(s, session),
         UNCHANGED <<minted, seen, requests>>,
         \A q \in Requests : at'[q] \in {at[q], "idle"}
  PROVE  Stored' /\ SlidesAreFresh'
<1>1. \A x \in Sids : store'[x] = IF x = s THEN session ELSE store[x]
  BY DEF Put, FallbackInv, SharedInv, TypeOK
<1>2. Stored'
  BY <1>1 DEF FallbackInv, Stored, requests
<1>3. SlidesAreFresh'
  <2> SUFFICES ASSUME NEW r \in Requests, at[r] = "set", Sliding(r), r \notin raced'
               PROVE  seen[r] = store'[sid[r]]
    BY DEF SlidesAreFresh, Sliding, requests
  <2>1. sid[r] \in Sids /\ r \notin raced
    BY DEF Put, FallbackInv, SharedInv, TypeOK
  <2>2. sid[r] = s => session = store[s]
    BY DEF Put
  <2> QED
    BY <1>1, <2>1, <2>2 DEF FallbackInv, SlidesAreFresh
<1> QED
  BY <1>2, <1>3

\* A deletion (delete(), deleteByUser(), expiry) races every slide of what it
\* deletes.
LEMMA DropKeepsFresh ==
  ASSUME FallbackInv, NEW ss \in SUBSET Sids, Drop(ss),
         UNCHANGED <<minted, seen, requests>>,
         \A q \in Requests : at'[q] \in {at[q], "idle"}
  PROVE  Stored' /\ SlidesAreFresh'
<1>1. Stored'
  BY DEF Drop, FallbackInv, Stored, requests
<1>2. SlidesAreFresh'
  BY DEF Drop, FallbackInv, SharedInv, TypeOK, SlidesAreFresh, Sliding, requests
<1> QED
  BY <1>1, <1>2

\* The steps of requests that neither write nor delete (verifier.ts, me.ts,
\* logout.ts, refresh.ts up to the write).
LEMMA QuietSteps ==
  ASSUME FallbackInv, NEW r \in Requests,
         \/ Begin(r) \/ DoorCheck(r) \/ SlideTouches(r) \/ LogoutChecks(r)
         \/ Refresh(r) \/ RefreshReads(r) \/ TokenAccepted(r)
         \/ TokenRejected(r) \/ TokenUnavailable(r) \/ StoreFails(r)
         \/ StoreFailsRefresh(r)
  PROVE  Stored' /\ SlidesAreFresh'
<1>1. UNCHANGED <<store, minted, requests, raced>>
  BY DEF Begin, DoorCheck, SlideTouches, LogoutChecks, Refresh, RefreshReads,
         TokenAccepted, TokenRejected, TokenUnavailable, StoreFails,
         StoreFailsRefresh
<1>2. \A q \in Requests \ {r} :
        at'[q] \in {at[q], "idle"} /\ seen'[q] = seen[q]
  BY DEF Begin, DoorCheck, SlideTouches, LogoutChecks, Refresh, RefreshReads,
         TokenAccepted, TokenRejected, TokenUnavailable, StoreFails,
         StoreFailsRefresh, Goes, Finishes, Settles, FallbackInv, SharedInv, TypeOK
<1>3. at'[r] \in {"token", "set"} => kind[r] = "refresh" /\ sid[r] \in minted
  BY DEF Begin, DoorCheck, SlideTouches, LogoutChecks, Refresh, RefreshReads,
         TokenAccepted, TokenRejected, TokenUnavailable, StoreFails,
         StoreFailsRefresh, Goes, Finishes, Settles, FallbackInv, SharedInv,
         TypeOK, AwaitsOfKind, Stored
<1> QED
  BY <1>1, <1>2, <1>3, QuietKeepsFresh

LEMMA FallbackStep == FallbackInv /\ [Next]_vars => FallbackInv'
<1> SUFFICES ASSUME FallbackInv, [Next]_vars PROVE Stored' /\ SlidesAreFresh'
  BY SharedStep DEF FallbackInv
<1>1. ASSUME NEW s \in Sids, Login(s) PROVE Stored' /\ SlidesAreFresh'
  <2>1. UNCHANGED <<at, seen, requests, raced>> /\ minted' = minted \cup {s}
    BY <1>1 DEF Login
  <2>2. \A x \in Sids \ {s} : store'[x] = store[x]
    BY <1>1 DEF Login, FallbackInv, SharedInv, TypeOK
  <2>3. \A r \in Requests : at[r] = "set" => sid[r] \in Sids \ {s}
    BY <1>1 DEF Login, FallbackInv, SharedInv, TypeOK, Stored
  <2> QED
    BY <2>1, <2>2, <2>3 DEF FallbackInv, Stored, SlidesAreFresh, Sliding, requests
<1>2. ASSUME NEW s \in Sids, Expires(s) PROVE Stored' /\ SlidesAreFresh'
  BY <1>2, DropKeepsFresh DEF Expires
<1>3. ASSUME NEW s \in Sids, GrantEnds(s) PROVE Stored' /\ SlidesAreFresh'
  BY <1>3, QuietKeepsFresh DEF GrantEnds
<1>4. ASSUME NEW r \in Requests, SlideRereads(r) PROVE Stored' /\ SlidesAreFresh'
  <2>1. UNCHANGED <<store, minted, requests>> /\ raced' = raced \ {r}
    BY <1>4 DEF SlideRereads
  <2>2. \A q \in Requests \ {r} : at'[q] = at[q] /\ seen'[q] = seen[q]
    BY <1>4 DEF SlideRereads, Goes, FallbackInv, SharedInv, TypeOK
  <2>3. /\ seen'[r] = store[sid[r]]
        /\ at'[r] # "token"
        /\ at'[r] = "set" => store[sid[r]] # NoSession
    BY <1>4 DEF SlideRereads, Goes, FallbackInv, SharedInv, TypeOK
  <2>4. sid[r] \in Sids
    BY DEF FallbackInv, SharedInv, TypeOK
  <2>5. Stored'
    BY <2>1, <2>2, <2>3, <2>4 DEF FallbackInv, Stored, requests
  <2>6. SlidesAreFresh'
    BY <2>1, <2>2, <2>3 DEF FallbackInv, SlidesAreFresh, Sliding, requests
  <2> QED
    BY <2>5, <2>6
<1>5. ASSUME NEW r \in Requests, SlideWrites(r) \/ RefreshWrites(r)
      PROVE  Stored' /\ SlidesAreFresh'
  <2>1. Put(sid[r], seen[r]) /\ UNCHANGED <<minted, seen, requests>>
    BY <1>5 DEF SlideWrites, RefreshWrites, refreshing
  <2>2. sid[r] \in minted /\ seen[r] \in Sessions
    BY <1>5
    DEF SlideWrites, RefreshWrites, FallbackInv, SharedInv, TypeOK, Stored
  <2>3. \A q \in Requests : at'[q] \in {at[q], "idle"}
    BY <1>5
    DEF SlideWrites, RefreshWrites, Finishes, Goes, Settles, FallbackInv,
        SharedInv, TypeOK
  <2> QED
    BY <2>1, <2>2, <2>3, PutKeepsFresh
<1>6. ASSUME NEW r \in Requests, LogoutDeletes(r) \/ RevokeDeletes(r)
      PROVE  Stored' /\ SlidesAreFresh'
  <2>1. PICK ss \in SUBSET Sids : Drop(ss)
    BY <1>6 DEF LogoutDeletes, RevokeDeletes, FallbackInv, SharedInv, TypeOK
  <2>2. UNCHANGED <<minted, seen, requests>>
    BY <1>6 DEF LogoutDeletes, RevokeDeletes
  <2>3. \A q \in Requests : at'[q] \in {at[q], "idle"}
    BY <1>6
    DEF LogoutDeletes, RevokeDeletes, Finishes, Goes, FallbackInv, SharedInv,
        TypeOK
  <2> QED
    BY <2>1, <2>2, <2>3, DropKeepsFresh
<1>7. CASE Restart
  BY <1>7, QuietKeepsFresh DEF Restart
<1>8. CASE UNCHANGED vars
  BY <1>8, QuietKeepsFresh DEF vars
<1> QED
  BY <1>1, <1>2, <1>3, <1>4, <1>5, <1>6, <1>7, <1>8, QuietSteps
  DEF Next, Slide, Logout, Flight

\* For any number of sessions and requests, with and without touch() and under
\* every failure: what a slide may spoil is only what changed between its own
\* re-read and its write (session-slide.ts:32-38).
THEOREM SlideSpoilsOnlyItsRace ==
  Spec => FallbackKeepsFresh
<1>1. Init => FallbackInv
  BY SharedInit DEF Init, FallbackInv, Stored, SlidesAreFresh
<1>2. FallbackInv /\ [Next]_vars =>
        [\A r \in Requests : at[r] = "set" /\ Sliding(r) /\ r \notin raced =>
           store'[sid[r]] = store[sid[r]] \/ at'[r] = "set"]_vars
  <2> SUFFICES ASSUME FallbackInv, Next, NEW r \in Requests, at[r] = "set",
                      Sliding(r), r \notin raced, at'[r] # "set"
               PROVE  store'[sid[r]] = store[sid[r]]
    OBVIOUS
  <2>1. kind[r] # "refresh" /\ sid[r] \in Sids /\ seen[r] = store[sid[r]]
    BY DEF Sliding, FallbackInv, SharedInv, TypeOK, SlidesAreFresh
  <2>2. ASSUME NEW s \in Sids, Login(s) \/ Expires(s) \/ GrantEnds(s) PROVE FALSE
    BY <2>2 DEF Login, Expires, GrantEnds
  <2>3. ASSUME NEW q \in Requests, SlideWrites(q)
        PROVE  store'[sid[r]] = store[sid[r]]
    <3>1. q = r
      BY <2>3 DEF SlideWrites, Finishes, Goes, FallbackInv, SharedInv, TypeOK
    <3> QED
      BY <2>1, <2>3, <3>1
      DEF SlideWrites, Put, FallbackInv, SharedInv, TypeOK
  <2>4. ASSUME NEW q \in Requests,
               RefreshWrites(q) \/ LogoutDeletes(q) \/ RevokeDeletes(q)
        PROVE  FALSE
    BY <2>1, <2>4
    DEF RefreshWrites, LogoutDeletes, RevokeDeletes, Settles, Finishes, Goes,
        FallbackInv, SharedInv, TypeOK
  <2>5. ASSUME NEW q \in Requests,
               \/ Begin(q) \/ DoorCheck(q) \/ SlideTouches(q) \/ SlideRereads(q)
               \/ LogoutChecks(q) \/ Refresh(q) \/ RefreshReads(q)
               \/ TokenAccepted(q) \/ TokenRejected(q) \/ TokenUnavailable(q)
               \/ StoreFails(q) \/ StoreFailsRefresh(q) \/ Restart
        PROVE  store' = store
    BY <2>5
    DEF Begin, DoorCheck, SlideTouches, SlideRereads, LogoutChecks, Refresh,
        RefreshReads, TokenAccepted, TokenRejected, TokenUnavailable, StoreFails,
        StoreFailsRefresh, Restart
  <2> QED
    BY <2>2, <2>3, <2>4, <2>5 DEF Next, Slide, Logout, Flight
<1> QED
  BY <1>1, <1>2, FallbackStep, PTL DEF Spec, FallbackKeepsFresh
=============================================================================
