----------------------------- MODULE CookieLogin -----------------------------
(***************************************************************************)
(* The login of orpc-ws-cookie-bff: GET /auth/login, the round trip to the *)
(* identity provider, GET /auth/callback, and the memo of the discovery    *)
(* document both go through.                                               *)
(*                                                                         *)
(* A login is known by its state: one fresh state, verifier and code each. *)
(* Every await is a step boundary, so requests interleave between them.    *)
(* The browser's cookie jar, the identity provider, the store and          *)
(* resolveUser are external.  The provider may accept a code twice: that a *)
(* login is used once must not rest on it.  The verifiers are those of the *)
(* in-memory store, which a restart loses.                                 *)
(***************************************************************************)
EXTENDS Naturals

CONSTANTS
  Browsers,
  Logins,     \* requests for /auth/login
  Callbacks,  \* requests for /auth/callback
  None

ASSUME NoneAssumption == None \notin Browsers \cup Logins \cup Callbacks

VARIABLES
  discovery,    \* OidcDiscovery.cache: "none", "fetching", "ready", "rejected"
  fetches,      \* discovery requests the provider has not answered
  login,        \* each login request: "none", "discovering", "storing", "stored",
                \* "failed" (an error escapes), "answered"
  at,           \* its browser
  verifiers,    \* InMemoryPkceStore.pending
  lapsed,       \* logins whose time is over or whose verifier a restart lost
  stateCookie,  \* the oauth_state cookie of each browser
  callback,     \* each callback request: "none", "taking", "discovering",
                \* "posting", "storing", then its answer under way: "refused",
                \* "failed", "crashed", "welcomed"; "over"
  from,         \* its browser
  for,          \* its login
  sessions,     \* callbacks whose session was stored
  sid,          \* the session cookie of each browser
  unwelcome,    \* history: callbacks whose state was rejected
  restarted     \* the process restarted (at most once)

idpVars     == <<discovery, fetches>>
loginVars   == <<login, at, verifiers, lapsed>>
browserVars == <<stateCookie, sid>>
cbVars      == <<callback, from, for, sessions, unwelcome>>
vars        == <<idpVars, loginVars, browserVars, cbVars, restarted>>

Init ==
  /\ discovery = "none" /\ fetches = 0
  /\ login = [l \in Logins |-> "none"]
  /\ at = [l \in Logins |-> None]
  /\ verifiers = {} /\ lapsed = {}
  /\ stateCookie = [b \in Browsers |-> None]
  /\ callback = [c \in Callbacks |-> "none"]
  /\ from = [c \in Callbacks |-> None]
  /\ for = [c \in Callbacks |-> None]
  /\ sessions = {}
  /\ sid = [b \in Browsers |-> None]
  /\ unwelcome = {}
  /\ restarted = FALSE

-----------------------------------------------------------------------------
(***************************************************************************)
(* The memo of the discovery document: concurrent callers share a fetch,   *)
(* and one that fails is forgotten.                                        *)
(***************************************************************************)

\* What getEndpoints() does to the memo, and where its caller is afterwards.
GetEndpoints ==
  IF discovery = "none" THEN discovery' = "fetching" /\ fetches' = fetches + 1
  ELSE UNCHANGED idpVars

WithEndpoints(next) == CASE discovery = "ready"    -> next
                         [] discovery = "rejected" -> "failed"
                         [] OTHER                  -> "discovering"

\* The fetch settles: everybody who awaits the shared promise goes on.
Settles(memo, loginNext, callbackNext) ==
  /\ discovery = "fetching"
  /\ fetches > 0
  /\ discovery' = memo
  /\ fetches' = fetches - 1
  /\ login' = [l \in Logins |-> IF login[l] = "discovering" THEN loginNext ELSE login[l]]
  /\ callback' = [c \in Callbacks |->
       IF callback[c] = "discovering" THEN callbackNext ELSE callback[c]]
  /\ UNCHANGED <<at, verifiers, lapsed, browserVars, from, for, sessions, unwelcome,
                 restarted>>

FetchSucceeds == Settles("ready", "storing", "posting")

\* Mutant: the rejected promise stays in the cache.
FetchFailsForGood == Settles("rejected", "failed", "failed")

FetchFails == Settles("none", "failed", "failed")

-----------------------------------------------------------------------------
(***************************************************************************)
(* GET /auth/login.                                                        *)
(***************************************************************************)
LoginBegins(l, b) ==
  /\ login[l] = "none"
  /\ at' = [at EXCEPT ![l] = b]
  /\ login' = [login EXCEPT ![l] = WithEndpoints("storing")]
  /\ GetEndpoints
  /\ UNCHANGED <<verifiers, lapsed, browserVars, cbVars, restarted>>

\* Mutant: the sweep spares nobody.
LoginStoresAlone(l) ==
  /\ login[l] = "storing"
  /\ login' = [login EXCEPT ![l] = "stored"]
  /\ verifiers' = {l}
  /\ UNCHANGED <<at, lapsed, idpVars, browserVars, cbVars, restarted>>

\* pkceStore.set: a sweep of what has expired, then the verifier.
LoginStores(l) ==
  /\ login[l] = "storing"
  /\ login' = [login EXCEPT ![l] = "stored"]
  /\ verifiers' = (verifiers \ lapsed) \cup {l}
  /\ UNCHANGED <<at, lapsed, idpVars, browserVars, cbVars, restarted>>

LoginStoreFails(l) ==
  /\ login[l] = "storing"
  /\ login' = [login EXCEPT ![l] = "failed"]
  /\ UNCHANGED <<at, verifiers, lapsed, idpVars, browserVars, cbVars, restarted>>

\* The redirect reaches the browser, with the state cookie.
LoginAnswers(l) ==
  /\ login[l] \in {"stored", "failed"}
  /\ login' = [login EXCEPT ![l] = IF @ = "stored" THEN "answered" ELSE "over"]
  /\ stateCookie' = IF login[l] = "stored" THEN [stateCookie EXCEPT ![at[l]] = l]
                    ELSE stateCookie
  /\ UNCHANGED <<at, verifiers, lapsed, idpVars, sid, cbVars, restarted>>

\* The time of a pending login is over: its verifier is not accepted any more,
\* and its cookie is gone.
Lapses(l) ==
  /\ login[l] \in {"stored", "answered"}
  /\ l \notin lapsed
  /\ lapsed' = lapsed \cup {l}
  /\ stateCookie' = [b \in Browsers |-> IF stateCookie[b] = l THEN None
                                        ELSE stateCookie[b]]
  /\ UNCHANGED <<login, at, verifiers, idpVars, sid, cbVars, restarted>>

-----------------------------------------------------------------------------
(***************************************************************************)
(* GET /auth/callback.                                                     *)
(***************************************************************************)

\* oauthStateMatches, clearOAuthStateCookie.
StateMatches(b, l) == stateCookie[b] = l
ClearsState(b)     == stateCookie' = [stateCookie EXCEPT ![b] = None]

\* The redirect of the provider, in the browser it sent there, the same once
\* more (reload, back button), or the same address in another browser.  The
\* state must be the one in the browser's cookie.
CallbackBegins(c, l, b) ==
  /\ callback[c] = "none"
  /\ login[l] = "answered"
  /\ from' = [from EXCEPT ![c] = b]
  /\ for' = [for EXCEPT ![c] = l]
  /\ callback' = [callback EXCEPT ![c] = IF StateMatches(b, l) THEN "taking" ELSE "refused"]
  /\ unwelcome' = IF StateMatches(b, l) THEN unwelcome ELSE unwelcome \cup {c}
  /\ UNCHANGED <<sessions, idpVars, loginVars, browserVars, restarted>>

\* Mutant: the verifier is read, and stays.
TakeKeeps(c) ==
  LET known == for[c] \in verifiers \ lapsed IN
  /\ callback[c] = "taking"
  /\ callback' = [callback EXCEPT ![c] = IF known THEN WithEndpoints("posting") ELSE "refused"]
  /\ unwelcome' = IF known THEN unwelcome ELSE unwelcome \cup {c}
  /\ IF known THEN GetEndpoints ELSE UNCHANGED idpVars
  /\ UNCHANGED <<login, at, verifiers, lapsed, browserVars, from, for, sessions,
                 restarted>>

\* exchangeCode: the verifier is taken, whatever comes of it.
Take(c) ==
  LET known == for[c] \in verifiers \ lapsed IN
  /\ callback[c] = "taking"
  /\ verifiers' = verifiers \ {for[c]}
  /\ callback' = [callback EXCEPT ![c] = IF known THEN WithEndpoints("posting") ELSE "refused"]
  /\ unwelcome' = IF known THEN unwelcome ELSE unwelcome \cup {c}
  /\ IF known THEN GetEndpoints ELSE UNCHANGED idpVars
  /\ UNCHANGED <<login, at, lapsed, browserVars, from, for, sessions, restarted>>

\* The token endpoint answers, the claims are decoded, resolveUser returns; or
\* one of them fails.
Exchanges(c) ==
  /\ callback[c] = "posting"
  /\ \E next \in {"storing", "failed"} : callback' = [callback EXCEPT ![c] = next]
  /\ UNCHANGED <<from, for, sessions, unwelcome, idpVars, loginVars, browserVars,
                 restarted>>

\* store.set under a fresh sid; a store that throws is not caught.
StoresSession(c) ==
  /\ callback[c] = "storing"
  /\ \/ /\ sessions' = sessions \cup {c}
        /\ callback' = [callback EXCEPT ![c] = "welcomed"]
     \/ /\ callback' = [callback EXCEPT ![c] = "crashed"]
        /\ UNCHANGED sessions
  /\ UNCHANGED <<from, for, unwelcome, idpVars, loginVars, browserVars, restarted>>

\* The answer reaches the browser: 302 with the session cookie, or 400; both
\* clear the state cookie, an escaped error does not.
CallbackAnswers(c) ==
  /\ callback[c] \in {"refused", "failed", "crashed", "welcomed"}
  /\ callback' = [callback EXCEPT ![c] = "over"]
  /\ IF callback[c] = "crashed" THEN UNCHANGED stateCookie ELSE ClearsState(from[c])
  /\ sid' = IF callback[c] = "welcomed" THEN [sid EXCEPT ![from[c]] = c] ELSE sid
  /\ UNCHANGED <<from, for, sessions, unwelcome, idpVars, loginVars, restarted>>

-----------------------------------------------------------------------------
\* The process restarts: its requests, memo and in-memory verifiers are gone.
Restart ==
  /\ ~restarted
  /\ restarted' = TRUE
  /\ discovery' = "none" /\ fetches' = 0
  /\ login' = [l \in Logins |-> IF login[l] \in {"none", "answered"} THEN login[l] ELSE "over"]
  /\ callback' = [c \in Callbacks |-> IF callback[c] = "none" THEN "none" ELSE "over"]
  /\ verifiers' = {}
  /\ lapsed' = lapsed \cup verifiers
  /\ UNCHANGED <<at, browserVars, from, for, sessions, unwelcome>>

Requests == \/ \E l \in Logins, b \in Browsers : LoginBegins(l, b)
            \/ \E c \in Callbacks, l \in Logins, b \in Browsers : CallbackBegins(c, l, b)

Handles == \/ FetchSucceeds \/ FetchFails
           \/ \E l \in Logins : LoginStores(l) \/ LoginStoreFails(l) \/ LoginAnswers(l)
           \/ \E c \in Callbacks : \/ Take(c) \/ Exchanges(c)
                                   \/ StoresSession(c) \/ CallbackAnswers(c)

Next == Requests \/ Handles \/ Restart \/ \E l \in Logins : Lapses(l)

\* What a request awaits settles: the provider, the stores and resolveUser
\* answer or fail.  Nobody has to begin a request.
Fairness ==
  /\ WF_vars(FetchSucceeds \/ FetchFails)
  /\ \A l \in Logins : WF_vars(LoginStores(l) \/ LoginStoreFails(l) \/ LoginAnswers(l))
  /\ \A c \in Callbacks :
       WF_vars(Take(c) \/ Exchanges(c) \/ StoresSession(c) \/ CallbackAnswers(c))

Spec     == Init /\ [][Next]_vars
FairSpec == Spec /\ Fairness

-----------------------------------------------------------------------------
(***************************************************************************)
(* Properties.                                                             *)
(***************************************************************************)

\* The variables keep their types.
TypeOK ==
  /\ discovery \in {"none", "fetching", "ready", "rejected"}
  /\ fetches \in Nat
  /\ login \in [Logins -> {"none", "discovering", "storing", "stored", "failed",
                           "answered", "over"}]
  /\ at \in [Logins -> Browsers \cup {None}]
  /\ verifiers \subseteq Logins /\ lapsed \subseteq Logins
  /\ stateCookie \in [Browsers -> Logins \cup {None}]
  /\ callback \in [Callbacks -> {"none", "taking", "discovering", "posting", "storing",
                                 "refused", "failed", "crashed", "welcomed", "over"}]
  /\ from \in [Callbacks -> Browsers \cup {None}]
  /\ for \in [Callbacks -> Logins \cup {None}]
  /\ sessions \subseteq Callbacks
  /\ sid \in [Browsers -> Callbacks \cup {None}]
  /\ unwelcome \subseteq Callbacks
  /\ restarted \in BOOLEAN

\* A login gives one session at most, to the browser that began it, however
\* callbacks are repeated, carried elsewhere or overlap, and a browser is only
\* given the cookie of a session that is stored (callback.ts:5-13,
\* pkce-store.ts:14-16).
OneSessionPerLogin ==
  /\ TypeOK
  /\ \A c \in sessions : from[c] = at[for[c]]
  /\ \A c, d \in sessions : for[c] = for[d] => c = d
  /\ \A b \in Browsers : sid[b] # None => sid[b] \in sessions /\ from[sid[b]] = b

\* A login is turned away for its state only if it took too long, was carried to
\* another browser, or another request of that browser overtook it; a verifier
\* is there before the browser is told its state (code-exchange.ts:124-126).
OnlyOvertakenIsRefused ==
  \A c \in unwelcome :
    LET l == for[c]
        b == from[c]
    IN  \/ b # at[l] \/ l \in lapsed
        \/ \E d \in Callbacks \ {c} : for[d] = l \/ from[d] = b
        \/ \E k \in Logins \ {l} : at[k] = b

\* Every request is answered; requests share one discovery fetch, and one that
\* failed fails nobody who comes later (discovery.ts:61-62, :105-116).
EveryRequestIsAnswered ==
  /\ \A l \in Logins : login[l] # "none" ~> login[l] \in {"answered", "over"}
  /\ \A c \in Callbacks : callback[c] # "none" ~> callback[c] = "over"
  /\ [](fetches <= 1)
  /\ [][\A l \in Logins : login[l] = "none" => login'[l] # "failed"]_vars
=============================================================================
