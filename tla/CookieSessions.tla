--------------------------- MODULE CookieSessions ---------------------------
(***************************************************************************)
(* The session store of orpc-ws-cookie-bff and the requests that work on   *)
(* it concurrently: the WebSocket verifier and /auth/me (which slide the   *)
(* session window), the lazy single-flight refresh, logout, revocation and *)
(* login.                                                                  *)
(*                                                                         *)
(* Every store operation and the call of the token endpoint is an await:   *)
(* "at" names the one a request is suspended in.  An action is the effect  *)
(* of that operation together with the code up to the request's next       *)
(* await; in between, every other request may run.                         *)
(*                                                                         *)
(* A session is reduced to the refresh token it holds, the only field a    *)
(* lost or repeated write can spoil: the n-th token of its grant, or       *)
(* Withheld.  One subject owns all sessions: sessions of different         *)
(* subjects share no operation.                                            *)
(***************************************************************************)
EXTENDS Naturals

CONSTANTS
  Sids,        \* session ids; minted by login, never twice
  Requests,    \* identities of requests in flight
  Kinds,       \* the kinds of requests that occur
  Stores,      \* whether the store implements touch(): TRUE, FALSE, or either
  Faults,      \* what befalls the sessions, the store and the process
  TokenCap,    \* bound: rotations of a grant
  NoSession,   \* null
  NoRequest    \* no refresh in flight

AllKinds  == {"verify", "me", "logout", "revoke", "refresh"}
AllFaults == {"expiry", "store-fails", "answer-lost", "restart"}

Withheld == 0
Tokens   == 0 .. TokenCap

ASSUME KindsAssumption     == Kinds \subseteq AllKinds
ASSUME StoresAssumption    == Stores \subseteq BOOLEAN
ASSUME FaultsAssumption    == Faults \subseteq AllFaults
ASSUME TokenCapAssumption  == TokenCap \in Nat \ {0}
ASSUME NoSessionAssumption == NoSession \notin Nat
ASSUME NoRequestAssumption == NoRequest \notin Requests

VARIABLES
  hasTouch,  \* fixed: the store implements the optional touch()
  store,     \* the SessionStore: the token of each session, or NoSession
  minted,    \* sids that were ever issued
  grant,     \* external: the token of each session that the IdP accepts now
  at,        \* the await a request is suspended in, or "idle"
  kind,      \* what a request is; a finished one may begin again
  sid,       \* the session it is about (a revocation: all)
  seen,      \* the session it read, or is about to write
  inFlight,  \* RefreshManager.inFlight: the request that runs doRefresh
  outcome,   \* history: RefreshResult of the last refresh
  gone,      \* history: sessions deleted, revoked or expired
  late,      \* history: requests that began when their session was gone
  raced,     \* history: slides whose session changed since they re-read it
  lost       \* history: sessions whose rotated token never reached the store

requests   == <<hasTouch, kind, sid>>
refreshing == <<grant, inFlight, outcome, lost>>
vars       == <<store, minted, at, seen, requests, refreshing, gone, late, raced>>

Awaits   == {"get", "touch", "reget", "set", "token", "join", "delete"}
Outcomes == {"none", "ok", "terminal", "transient", "thrown"}

Init ==
  /\ hasTouch \in Stores
  /\ store = [s \in Sids |-> NoSession]
  /\ minted = {}
  /\ grant = [s \in Sids |-> Withheld]
  /\ at = [r \in Requests |-> "idle"]
  /\ kind \in [Requests -> Kinds]
  /\ sid \in [Requests -> Sids]
  /\ seen = [r \in Requests |-> Withheld]
  /\ inFlight = [s \in Sids |-> NoRequest]
  /\ outcome = [s \in Sids |-> "none"]
  /\ gone = {}
  /\ late = {}
  /\ raced = {}
  /\ lost = {}

-----------------------------------------------------------------------------
(***************************************************************************)
(* Requests and the store.                                                 *)
(***************************************************************************)
Goes(r, await) == at' = [at EXCEPT ![r] = await]

Finishes(r) == Goes(r, "idle")

\* set(): the whole record, whatever is there now.  A slide whose session
\* changed behind its back is remembered as raced.
Put(s, session) ==
  /\ store' = [store EXCEPT ![s] = session]
  /\ raced' = IF session = store[s] THEN raced
              ELSE raced \cup {q \in Requests : sid[q] = s /\ at[q] = "set"}

\* delete(), deleteByUser() and the store's own expiry.
Drop(ss) ==
  /\ store' = [s \in Sids |-> IF s \in ss THEN NoSession ELSE store[s]]
  /\ gone' = gone \cup ss
  /\ raced' = raced \cup {q \in Requests : sid[q] \in ss /\ at[q] = "set"}

\* handleCallback mints a sid and stores a session under it; the IdP may
\* withhold a refresh token.
Login(s) ==
  /\ s \notin minted
  /\ minted' = minted \cup {s}
  /\ \E token \in {Withheld, 1} :
       /\ store' = [store EXCEPT ![s] = token]
       /\ grant' = [grant EXCEPT ![s] = token]
  /\ UNCHANGED <<at, seen, requests, inFlight, outcome, lost, gone, late, raced>>

\* The store drops a session whose window is over.
Expires(s) ==
  /\ "expiry" \in Faults
  /\ store[s] # NoSession
  /\ Drop({s})
  /\ UNCHANGED <<minted, at, seen, requests, refreshing, late>>

Begin(r) ==
  /\ at[r] = "idle"
  /\ kind[r] # "refresh"
  /\ Goes(r, IF kind[r] = "revoke" THEN "delete" ELSE "get")
  /\ late' = IF sid[r] \in gone THEN late \cup {r} ELSE late \ {r}
  /\ UNCHANGED <<store, minted, seen, requests, refreshing, gone, raced>>

-----------------------------------------------------------------------------
(***************************************************************************)
(* The verifier and /auth/me: the door check, then the slide.              *)
(***************************************************************************)
Sliding(r) == kind[r] \in {"verify", "me"}

\* An unknown session is refused; a known one is slid.
DoorCheck(r) ==
  /\ at[r] = "get"
  /\ Sliding(r)
  /\ seen' = [seen EXCEPT ![r] = store[sid[r]]]
  /\ Goes(r, IF store[sid[r]] = NoSession THEN "idle"
             ELSE IF hasTouch THEN "touch" ELSE "reget")
  /\ UNCHANGED <<store, minted, requests, refreshing, gone, late, raced>>

\* Mutant: touch() is a set() of the caller's snapshot.
SlideTouchesAll(r) ==
  /\ at[r] = "touch"
  /\ Put(sid[r], seen[r])
  /\ Finishes(r)
  /\ UNCHANGED <<minted, seen, requests, refreshing, gone, late>>

\* touch() re-stamps the expiry and nothing else, of a session that exists.
SlideTouches(r) ==
  /\ at[r] = "touch"
  /\ Finishes(r)
  /\ UNCHANGED <<store, minted, seen, requests, refreshing, gone, late, raced>>

\* Mutant: the slide writes the caller's snapshot instead of what it re-reads.
SlideTrustsCaller(r) ==
  /\ at[r] = "reget"
  /\ Goes(r, "set")
  /\ raced' = raced \ {r}
  /\ UNCHANGED <<store, minted, seen, requests, refreshing, gone, late>>

\* Without touch(): read again, and give the slide up if the session is gone.
SlideRereads(r) ==
  /\ at[r] = "reget"
  /\ seen' = [seen EXCEPT ![r] = store[sid[r]]]
  /\ Goes(r, IF store[sid[r]] = NoSession THEN "idle" ELSE "set")
  /\ raced' = raced \ {r}
  /\ UNCHANGED <<store, minted, requests, refreshing, gone, late>>

SlideWrites(r) ==
  /\ at[r] = "set"
  /\ Sliding(r)
  /\ Put(sid[r], seen[r])
  /\ Finishes(r)
  /\ UNCHANGED <<minted, seen, requests, refreshing, gone, late>>

-----------------------------------------------------------------------------
(***************************************************************************)
(* Logout and revocation.                                                  *)
(***************************************************************************)

\* Mutant: an await that nothing resumes.
LogoutHangs(r) ==
  /\ at[r] = "get"
  /\ kind[r] = "logout"
  /\ Goes(r, "end-session")
  /\ UNCHANGED <<store, minted, seen, requests, refreshing, gone, late, raced>>

\* A CSRF token is compared with the session's; without a session, or with
\* the wrong token, the request is refused.
LogoutChecks(r) ==
  /\ at[r] = "get"
  /\ kind[r] = "logout"
  /\ \/ Finishes(r)
     \/ store[sid[r]] # NoSession /\ Goes(r, "delete")
  /\ UNCHANGED <<store, minted, seen, requests, refreshing, gone, late, raced>>

LogoutDeletes(r) ==
  /\ at[r] = "delete"
  /\ kind[r] = "logout"
  /\ Drop({sid[r]})
  /\ Finishes(r)
  /\ UNCHANGED <<minted, seen, requests, refreshing, late>>

\* revokeUser: deleteByUser, then closeUser (the server's part).
RevokeDeletes(r) ==
  /\ at[r] = "delete"
  /\ kind[r] = "revoke"
  /\ Drop(minted)
  /\ Finishes(r)
  /\ UNCHANGED <<minted, seen, requests, refreshing, late>>

-----------------------------------------------------------------------------
(***************************************************************************)
(* RefreshManager.                                                         *)
(***************************************************************************)

\* Mutant: no single flight.
RefreshAlone(r) ==
  /\ at[r] = "idle"
  /\ kind[r] = "refresh"
  /\ Goes(r, "get")
  /\ inFlight' = [inFlight EXCEPT ![sid[r]] = r]
  /\ outcome' = [outcome EXCEPT ![sid[r]] = "none"]
  /\ UNCHANGED <<store, minted, grant, seen, requests, lost, gone, late, raced>>

\* refresh(): join the flight of this session, or start one.
Refresh(r) ==
  /\ at[r] = "idle"
  /\ kind[r] = "refresh"
  /\ \/ /\ inFlight[sid[r]] # NoRequest
        /\ Goes(r, "join")
        /\ UNCHANGED <<inFlight, outcome>>
     \/ /\ inFlight[sid[r]] = NoRequest
        /\ Goes(r, "get")
        /\ inFlight' = [inFlight EXCEPT ![sid[r]] = r]
        /\ outcome' = [outcome EXCEPT ![sid[r]] = "none"]
  /\ UNCHANGED <<store, minted, grant, seen, requests, lost, gone, late, raced>>

\* Mutant: the memo is cleared, the callers that joined are not answered.
SettlesLeader(r, result) ==
  /\ at' = [at EXCEPT ![r] = "idle"]
  /\ inFlight' = [inFlight EXCEPT ![sid[r]] = NoRequest]
  /\ outcome' = [outcome EXCEPT ![sid[r]] = result]

\* The flight settles: the memo is cleared, everybody who joined is answered.
Settles(r, result) ==
  /\ at' = [q \in Requests |->
              IF q = r \/ (at[q] = "join" /\ sid[q] = sid[r]) THEN "idle"
              ELSE at[q]]
  /\ inFlight' = [inFlight EXCEPT ![sid[r]] = NoRequest]
  /\ outcome' = [outcome EXCEPT ![sid[r]] = result]

\* doRefresh reads the session: unknown or without a token is terminal.
RefreshReads(r) ==
  /\ at[r] = "get"
  /\ kind[r] = "refresh"
  /\ \/ /\ store[sid[r]] \in {NoSession, Withheld}
        /\ Settles(r, "terminal")
        /\ UNCHANGED seen
     \/ /\ store[sid[r]] \notin {NoSession, Withheld}
        /\ seen' = [seen EXCEPT ![r] = store[sid[r]]]
        /\ Goes(r, "token")
        /\ UNCHANGED <<inFlight, outcome>>
  /\ UNCHANGED <<store, minted, grant, requests, lost, gone, late, raced>>

\* The token endpoint accepts the token it issued last (and may rotate it),
\* rejects any other (4xx), or is out of order (5xx, network).
TokenAccepted(r) ==
  /\ at[r] = "token"
  /\ seen[r] = grant[sid[r]]
  /\ \E token \in {seen[r], seen[r] + 1} \cap Tokens :
       /\ grant' = [grant EXCEPT ![sid[r]] = token]
       /\ \/ /\ seen' = [seen EXCEPT ![r] = token]
             /\ Goes(r, "set")
             /\ UNCHANGED <<inFlight, outcome, lost>>
          \/ /\ "answer-lost" \in Faults
             /\ lost' = IF token = seen[r] THEN lost ELSE lost \cup {sid[r]}
             /\ Settles(r, "transient")
             /\ UNCHANGED seen
  /\ UNCHANGED <<store, minted, requests, gone, late, raced>>

TokenRejected(r) ==
  /\ at[r] = "token"
  /\ seen[r] # grant[sid[r]]
  /\ Settles(r, "terminal")
  /\ UNCHANGED <<store, minted, grant, seen, requests, lost, gone, late, raced>>

TokenUnavailable(r) ==
  /\ at[r] = "token"
  /\ Settles(r, "transient")
  /\ UNCHANGED <<store, minted, grant, seen, requests, lost, gone, late, raced>>

\* The whole record is written back with the new tokens.
RefreshWrites(r) ==
  /\ at[r] = "set"
  /\ kind[r] = "refresh"
  /\ Put(sid[r], seen[r])
  /\ Settles(r, "ok")
  /\ UNCHANGED <<minted, grant, seen, requests, lost, gone, late>>

\* The IdP's own session ends: no token of the grant is accepted any more.
GrantEnds(s) ==
  /\ s \in minted
  /\ grant[s] # Withheld
  /\ grant' = [grant EXCEPT ![s] = Withheld]
  /\ UNCHANGED <<store, minted, at, seen, requests, inFlight, outcome, lost,
                 gone, late, raced>>

-----------------------------------------------------------------------------
(***************************************************************************)
(* Failures.                                                               *)
(***************************************************************************)

\* A store operation fails without effect.  The door check fails closed, a
\* slide and the delete of a logout are best effort, a revocation rejects: all
\* of them end.
StoreFails(r) ==
  /\ "store-fails" \in Faults
  /\ kind[r] # "refresh"
  /\ at[r] \in {"get", "touch", "reget", "set", "delete"}
  /\ Finishes(r)
  /\ UNCHANGED <<store, minted, seen, requests, refreshing, gone, late, raced>>

\* A failing read rejects the shared promise; a failing write is reported as
\* transient, although a rotated token is lost with it.
StoreFailsRefresh(r) ==
  /\ "store-fails" \in Faults
  /\ kind[r] = "refresh"
  /\ \/ at[r] = "get" /\ Settles(r, "thrown") /\ UNCHANGED lost
     \/ /\ at[r] = "set"
        /\ Settles(r, "transient")
        /\ lost' = IF store[sid[r]] = seen[r] THEN lost ELSE lost \cup {sid[r]}
  /\ UNCHANGED <<store, minted, grant, seen, requests, gone, late, raced>>

\* The process restarts: the store survives, every request and the memo do not.
Restart ==
  /\ "restart" \in Faults
  /\ \E r \in Requests : at[r] # "idle"
  /\ at' = [r \in Requests |-> "idle"]
  /\ inFlight' = [s \in Sids |-> NoRequest]
  /\ lost' = lost \cup {s \in Sids : /\ inFlight[s] # NoRequest
                                     /\ at[inFlight[s]] = "set"
                                     /\ store[s] # seen[inFlight[s]]}
  /\ UNCHANGED <<store, minted, grant, seen, requests, outcome, gone, late,
                 raced>>

-----------------------------------------------------------------------------
Slide(r)  == SlideTouches(r) \/ SlideRereads(r) \/ SlideWrites(r)
Logout(r) == LogoutChecks(r) \/ LogoutDeletes(r)
Flight(r) == \/ RefreshReads(r)
             \/ TokenAccepted(r)
             \/ TokenRejected(r)
             \/ TokenUnavailable(r)
             \/ RefreshWrites(r)

Next ==
  \/ \E s \in Sids : Login(s) \/ Expires(s) \/ GrantEnds(s)
  \/ \E r \in Requests :
       \/ Begin(r)
       \/ DoorCheck(r)
       \/ Slide(r)
       \/ Logout(r)
       \/ RevokeDeletes(r)
       \/ Refresh(r)
       \/ Flight(r)
       \/ StoreFails(r)
       \/ StoreFailsRefresh(r)
  \/ Restart

Spec == Init /\ [][Next]_vars

-----------------------------------------------------------------------------
(***************************************************************************)
(* Properties.                                                             *)
(***************************************************************************)

Sessions == Tokens \cup {NoSession}

\* The variables keep their types.
TypeOK ==
  /\ hasTouch \in BOOLEAN
  /\ store \in [Sids -> Sessions]
  /\ minted \subseteq Sids
  /\ grant \in [Sids -> Tokens]
  /\ at \in [Requests -> Awaits \cup {"idle"}]
  /\ kind \in [Requests -> Kinds]
  /\ sid \in [Requests -> Sids]
  /\ seen \in [Requests -> Sessions]
  /\ inFlight \in [Sids -> Requests \cup {NoRequest}]
  /\ outcome \in [Sids -> Outcomes]
  /\ gone \subseteq Sids
  /\ late \subseteq Requests
  /\ raced \subseteq Requests
  /\ lost \subseteq Sids

\* Single flight (refresh.ts:8-15, :74-86): at most one request per session
\* works on a refresh, it is the one the memo names, and nobody has joined a
\* flight that will not answer.
FlightsAreShared ==
  \A r \in Requests : kind[r] = "refresh" =>
    /\ at[r] \in {"get", "token", "set"} <=> inFlight[sid[r]] = r
    /\ at[r] = "join" => inFlight[sid[r]] # NoRequest

\* With touch(), a refresh says "terminal" (on which the caller logs the user out) only of a
\* session that is over: deleted, without a refresh token, ended by the IdP, or
\* with a rotated token lost on the way (refresh.ts:15-20, :32-38).
TerminalMeansOver ==
  [][hasTouch =>
     \A s \in Sids : outcome[s] # "terminal" /\ outcome'[s] = "terminal" =>
       store[s] \in {NoSession, Withheld} \/ grant[s] = Withheld \/ s \in lost]_vars

\* With touch(), no write takes a session back to an older token (session-slide.ts:22-28).
TokensNeverRollBack ==
  [][hasTouch =>
     \A s \in Sids : store[s] # NoSession /\ store'[s] # NoSession =>
       store'[s] >= store[s]]_vars

\* With touch(), a slide never brings a deleted session back (session-store.ts:114-115): what
\* does is a refresh that was in flight when the session was deleted.
OnlyRefreshResurrects ==
  [][hasTouch =>
     \A s \in gone : store[s] = NoSession /\ store'[s] # NoSession =>
       inFlight[s] # NoRequest]_vars

\* Without touch() a slide spoils only what changed between its own re-read and
\* its write, never what changed before (session-slide.ts:32-38).
FallbackKeepsFresh ==
  [][\A r \in Requests : at[r] = "set" /\ Sliding(r) /\ r \notin raced =>
       store'[sid[r]] = store[sid[r]] \/ at'[r] = "set"]_vars

\* Once a session was deleted or revoked, a connect that begins afterwards does
\* not pass the door check: "future connects AND future lazy refreshes for that
\* subject fail (the drawer is empty)" (session-store.ts:160-162).
GoneStaysOut ==
  \A r \in late : kind[r] = "verify" => at[r] \in {"idle", "get"}
=============================================================================
