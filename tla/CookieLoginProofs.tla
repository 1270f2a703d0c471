-------------------------- MODULE CookieLoginProofs --------------------------
(***************************************************************************)
(* Proofs about CookieLogin for every set of browsers, logins and          *)
(* callbacks: a login gives one session at most, to its own browser, and   *)
(* is turned away for its state only if something came between.            *)
(***************************************************************************)
EXTENDS CookieLogin, TLAPS

\* A request that began has its browser, and a callback its login, which was
\* answered and stays so.
Begun ==
  /\ \A l \in Logins : login[l] # "none" => at[l] \in Browsers
  /\ \A c \in Callbacks : callback[c] # "none" =>
       from[c] \in Browsers /\ for[c] \in Logins /\ login[for[c]] = "answered"

\* A state cookie is one the browser got with its own login.
CookieIsOwn ==
  \A b \in Browsers : stateCookie[b] # None =>
    login[stateCookie[b]] # "none" /\ at[stateCookie[b]] = b

\* A callback past the check of its state is in the browser of its login.
Checked(c) == callback[c] \in {"taking", "discovering", "posting", "storing"} \/ c \in sessions

CheckedIsOwn == \A c \in Callbacks : Checked(c) => from[c] = at[for[c]]

\* A callback that took the verifier is the only one of its login.
Took(c) == callback[c] \in {"discovering", "posting", "storing"} \/ c \in sessions

TakenOnce ==
  /\ \A c \in Callbacks : Took(c) => for[c] \notin verifiers
  /\ \A c, d \in Callbacks : Took(c) /\ Took(d) /\ for[c] = for[d] => c = d

\* A session cookie is of a stored session, as is the answer that carries it.
SidIsStored ==
  /\ \A c \in Callbacks : c \in sessions => callback[c] \in {"welcomed", "over"}
  /\ \A c \in Callbacks : callback[c] = "welcomed" => c \in sessions
  /\ \A b \in Browsers : sid[b] # None => sid[b] \in sessions /\ from[sid[b]] = b

IInv == TypeOK /\ Begun /\ CookieIsOwn /\ CheckedIsOwn /\ TakenOnce /\ SidIsStored

USE NoneAssumption

\* Nothing has begun.
LEMMA InitInv == Init => IInv
<1> SUFFICES ASSUME Init
             PROVE  IInv
  OBVIOUS
<1>1. TypeOK
  BY DEF Init, TypeOK
<1>2. Begun /\ CookieIsOwn /\ CheckedIsOwn /\ TakenOnce /\ SidIsStored
  BY DEF Init, Begun, CookieIsOwn, CheckedIsOwn, Checked, TakenOnce, Took, SidIsStored
<1> QED
  BY <1>1, <1>2 DEF IInv

-----------------------------------------------------------------------------
\* The fetch of the discovery document settles.
LEMMA SettlesKeeps ==
  ASSUME IInv,
         Settles("ready", "storing", "posting") \/ Settles("none", "failed", "failed")
  PROVE  IInv'
<1> USE DEF IInv, Settles, loginVars, browserVars, cbVars
<1>1. TypeOK'
  BY DEF TypeOK
<1>2. Begun'
  BY DEF Begun, TypeOK
<1>3. CookieIsOwn'
  BY DEF CookieIsOwn, TypeOK
<1>4. CheckedIsOwn'
  BY DEF CheckedIsOwn, Checked, TypeOK
<1>5. TakenOnce'
  BY DEF TakenOnce, Took, TypeOK
<1>6. SidIsStored'
  BY DEF SidIsStored, TypeOK
<1> QED
  BY <1>1, <1>2, <1>3, <1>4, <1>5, <1>6

\* A step of a login.
LEMMA LoginKeeps ==
  ASSUME IInv,
         NEW l \in Logins,
         \/ \E b \in Browsers : LoginBegins(l, b)
         \/ LoginStores(l) \/ LoginStoreFails(l) \/ LoginAnswers(l) \/ Lapses(l)
  PROVE  IInv'
<1> USE DEF IInv, LoginBegins, LoginStores, LoginStoreFails, LoginAnswers, Lapses,
            GetEndpoints, WithEndpoints, idpVars, loginVars, browserVars, cbVars
<1>1. TypeOK'
  BY DEF TypeOK, Begun
<1>2. Begun'
  BY DEF Begun, TypeOK
<1>3. CookieIsOwn'
  BY DEF CookieIsOwn, TypeOK, Begun
<1>4. CheckedIsOwn'
  BY DEF CheckedIsOwn, Checked, TypeOK, Begun, SidIsStored
<1>5. TakenOnce'
  BY DEF TakenOnce, Took, TypeOK, Begun, SidIsStored
<1>6. SidIsStored'
  BY DEF SidIsStored
<1> QED
  BY <1>1, <1>2, <1>3, <1>4, <1>5, <1>6

\* A step of a callback.
LEMMA CallbackKeeps ==
  ASSUME IInv,
         NEW c \in Callbacks,
         \/ \E l \in Logins, b \in Browsers : CallbackBegins(c, l, b)
         \/ Take(c) \/ Exchanges(c) \/ StoresSession(c) \/ CallbackAnswers(c)
  PROVE  IInv'
<1> USE DEF IInv, idpVars, loginVars, browserVars, cbVars
<1>1. ASSUME NEW l \in Logins, NEW b \in Browsers, CallbackBegins(c, l, b)
      PROVE  IInv'
  <2> USE <1>1 DEF CallbackBegins
  <2>1. TypeOK'
    BY DEF TypeOK
  <2>2. c \notin sessions
    BY DEF SidIsStored
  <2>3. Begun' /\ CookieIsOwn'
    BY DEF Begun, CookieIsOwn, TypeOK
  <2>4. CheckedIsOwn'
    BY <2>2 DEF CheckedIsOwn, Checked, CookieIsOwn, StateMatches, TypeOK
  <2>5. TakenOnce'
    BY <2>2 DEF TakenOnce, Took, TypeOK
  <2>6. SidIsStored'
    BY <2>2 DEF SidIsStored, TypeOK
  <2> QED
    BY <2>1, <2>3, <2>4, <2>5, <2>6
<1>2. CASE Take(c)
  <2> USE <1>2 DEF Take, WithEndpoints, GetEndpoints
  <2>1. TypeOK'
    BY DEF TypeOK
  <2>2. c \notin sessions
    BY DEF SidIsStored
  <2>3. Begun' /\ CookieIsOwn'
    BY DEF Begun, CookieIsOwn, TypeOK
  <2>4. CheckedIsOwn'
    BY <2>2 DEF CheckedIsOwn, Checked, TypeOK
  <2>5. TakenOnce'
    BY <2>2 DEF TakenOnce, Took, TypeOK
  <2>6. SidIsStored'
    BY <2>2 DEF SidIsStored, TypeOK
  <2> QED
    BY <2>1, <2>3, <2>4, <2>5, <2>6
<1>3. CASE Exchanges(c) \/ StoresSession(c) \/ CallbackAnswers(c)
  <2> USE <1>3 DEF Exchanges, StoresSession, CallbackAnswers, ClearsState
  <2>1. TypeOK'
    BY DEF TypeOK, Begun
  <2>2. Begun' /\ CookieIsOwn'
    BY DEF Begun, CookieIsOwn, TypeOK
  <2>3. CheckedIsOwn'
    BY DEF CheckedIsOwn, Checked, TypeOK
  <2>4. TakenOnce'
    BY DEF TakenOnce, Took, TypeOK
  <2>5. SidIsStored'
    BY DEF SidIsStored, TypeOK, Begun
  <2> QED
    BY <2>1, <2>2, <2>3, <2>4, <2>5
<1> QED
  BY <1>1, <1>2, <1>3

\* A restart leaves sessions and cookies, and takes every verifier.
LEMMA RestartKeeps ==
  ASSUME IInv, Restart
  PROVE  IInv'
<1> USE DEF IInv, Restart, browserVars
<1>1. TypeOK'
  BY DEF TypeOK
<1>2. Begun' /\ CookieIsOwn'
  BY DEF Begun, CookieIsOwn, TypeOK
<1>3. CheckedIsOwn'
  BY DEF CheckedIsOwn, Checked, TypeOK
<1>4. TakenOnce'
  BY DEF TakenOnce, Took, TypeOK
<1>5. SidIsStored'
  BY DEF SidIsStored, TypeOK
<1> QED
  BY <1>1, <1>2, <1>3, <1>4, <1>5

-----------------------------------------------------------------------------
\* Every step keeps the inductive invariant.
LEMMA InvStep == ASSUME IInv, [Next]_vars PROVE IInv'
<1>1. CASE Requests
  BY <1>1, LoginKeeps, CallbackKeeps DEF Requests
<1>2. CASE Handles
  BY <1>2, SettlesKeeps, LoginKeeps, CallbackKeeps DEF Handles, FetchSucceeds, FetchFails
<1>3. CASE Restart
  BY <1>3, RestartKeeps
<1>4. ASSUME NEW l \in Logins, Lapses(l)
      PROVE  IInv'
  BY <1>4, LoginKeeps
<1>5. CASE UNCHANGED vars
  BY <1>5 DEF vars, idpVars, loginVars, browserVars, cbVars, IInv, TypeOK, Begun,
              CookieIsOwn, CheckedIsOwn, Checked, TakenOnce, Took, SidIsStored
<1> QED
  BY <1>1, <1>2, <1>3, <1>4, <1>5 DEF Next

\* A login gives one session at most, to the browser that began it, and a
\* browser holds the cookie of a stored session of its own (callback.ts:5-13,
\* pkce-store.ts:14-16).
THEOREM LoginIsUsedOnce == Spec => []OneSessionPerLogin
<1>1. IInv /\ [Next]_vars => IInv'
  BY InvStep
<1>2. IInv => OneSessionPerLogin
  BY DEF IInv, OneSessionPerLogin, CheckedIsOwn, Checked, TakenOnce, Took, SidIsStored, TypeOK
<1> QED
  BY InitInv, <1>1, <1>2, PTL DEF Spec

-----------------------------------------------------------------------------
\* What has not begun has no browser and no login.
Unbegun ==
  /\ \A l \in Logins : login[l] = "none" => at[l] = None
  /\ \A c \in Callbacks : callback[c] = "none" => from[c] = None /\ for[c] = None

\* A browser told its state has the cookie, unless a newer login of that browser
\* replaced it or the answer to a callback of that browser cleared it.
CookieStays ==
  \A l \in Logins : login[l] = "answered" /\ l \notin lapsed =>
    \/ stateCookie[at[l]] = l
    \/ \E k \in Logins \ {l} : at[k] = at[l]
    \/ \E d \in Callbacks : callback[d] = "over" /\ from[d] = at[l]

\* The verifier of a stored login is there until a callback takes it.
VerifierStays ==
  \A l \in Logins : login[l] \in {"stored", "answered"} /\ l \notin lapsed =>
    \/ l \in verifiers
    \/ \E d \in Callbacks : callback[d] \notin {"none", "taking"} /\ for[d] = l

\* A callback that was turned away has begun.
UnwelcomeBegan == \A c \in unwelcome : callback[c] # "none"

\* All of it together.
Overtaken ==
  /\ Unbegun /\ CookieStays /\ VerifierStays
  /\ UnwelcomeBegan /\ OnlyOvertakenIsRefused

\* Nothing has begun, nobody was turned away.
LEMMA InitOvertaken == Init => Overtaken
  BY DEF Init, Overtaken, Unbegun, CookieStays, VerifierStays, UnwelcomeBegan,
         OnlyOvertakenIsRefused

\* What began stays begun, with its browser and its login.
LEMMA BegunStays ==
  ASSUME IInv, Unbegun, [Next]_vars
  PROVE  /\ Unbegun'
         /\ \A l \in Logins : login[l] # "none" => login'[l] # "none" /\ at'[l] = at[l]
         /\ \A l \in Logins : login[l] = "answered" => login'[l] = "answered"
         /\ \A c \in Callbacks : callback[c] # "none" =>
              callback'[c] # "none" /\ from'[c] = from[c] /\ for'[c] = for[c]
         /\ \A c \in Callbacks : callback[c] = "over" => callback'[c] = "over"
         /\ lapsed \subseteq lapsed'
<1> DEFINE Kept ==
      /\ Unbegun'
      /\ \A l \in Logins : login[l] # "none" => login'[l] # "none" /\ at'[l] = at[l]
      /\ \A l \in Logins : login[l] = "answered" => login'[l] = "answered"
      /\ \A c \in Callbacks : callback[c] # "none" =>
           callback'[c] # "none" /\ from'[c] = from[c] /\ for'[c] = for[c]
      /\ \A c \in Callbacks : callback[c] = "over" => callback'[c] = "over"
      /\ lapsed \subseteq lapsed'
<1> USE DEF IInv, TypeOK, Unbegun, idpVars, loginVars, browserVars, cbVars
<1>1. ASSUME NEW l \in Logins, NEW b \in Browsers, LoginBegins(l, b)
      PROVE  Kept
  BY <1>1 DEF LoginBegins, WithEndpoints
<1>2. ASSUME NEW c \in Callbacks, NEW l \in Logins, NEW b \in Browsers,
             CallbackBegins(c, l, b)
      PROVE  Kept
  BY <1>2 DEF CallbackBegins
<1>3. ASSUME Settles("ready", "storing", "posting") \/ Settles("none", "failed", "failed")
      PROVE  Kept
  BY <1>3 DEF Settles
<1>4. ASSUME NEW l \in Logins,
             LoginStores(l) \/ LoginStoreFails(l) \/ LoginAnswers(l) \/ Lapses(l)
      PROVE  Kept
  BY <1>4 DEF LoginStores, LoginStoreFails, LoginAnswers, Lapses
<1>5. ASSUME NEW c \in Callbacks, Take(c)
      PROVE  Kept
  BY <1>5 DEF Take, WithEndpoints
<1>6. ASSUME NEW c \in Callbacks, Exchanges(c) \/ StoresSession(c) \/ CallbackAnswers(c)
      PROVE  Kept
  BY <1>6 DEF Exchanges, StoresSession, CallbackAnswers
<1>7. CASE Restart
  BY <1>7 DEF Restart
<1>8. CASE UNCHANGED vars
  BY <1>8 DEF vars
<1> QED
  BY <1>1, <1>2, <1>3, <1>4, <1>5, <1>6, <1>7, <1>8
     DEF Next, Requests, Handles, FetchSucceeds, FetchFails

\* A cookie goes when its browser gets a newer one, when a callback of the browser
\* is answered, or when its time is over (callback.ts:5-13).
LEMMA CookieStaysStep ==
  ASSUME IInv, Unbegun, CookieStays, [Next]_vars
  PROVE  CookieStays'
<1> SUFFICES ASSUME NEW l \in Logins, login'[l] = "answered", l \notin lapsed'
             PROVE  \/ stateCookie'[at'[l]] = l
                    \/ \E k \in Logins \ {l} : at'[k] = at'[l]
                    \/ \E d \in Callbacks : callback'[d] = "over" /\ from'[d] = at'[l]
  BY DEF CookieStays
<1>1. ASSUME login[l] # "answered"
      PROVE  stateCookie'[at'[l]] = l
  <2>1. LoginAnswers(l) /\ login[l] = "stored"
    BY <1>1 DEF Next, Requests, Handles, FetchSucceeds, FetchFails, LoginBegins,
       WithEndpoints, CallbackBegins, Settles, LoginStores, LoginStoreFails, LoginAnswers,
       Lapses, Take, Exchanges, StoresSession, CallbackAnswers, Restart, IInv, TypeOK,
       vars, loginVars
  <2> QED
    BY <2>1 DEF LoginAnswers, IInv, TypeOK, Begun
<1>2. ASSUME login[l] = "answered"
      PROVE  \/ stateCookie'[at'[l]] = l
             \/ \E k \in Logins \ {l} : at'[k] = at'[l]
             \/ \E d \in Callbacks : callback'[d] = "over" /\ from'[d] = at'[l]
  <2>1. l \notin lapsed /\ at'[l] = at[l] /\ at[l] \in Browsers
    BY <1>2, BegunStays DEF IInv, Begun
  <2>2. CASE \E k \in Logins \ {l} : at[k] = at[l]
    BY <2>1, <2>2, BegunStays DEF Unbegun
  <2>3. CASE \E d \in Callbacks : callback[d] = "over" /\ from[d] = at[l]
    BY <2>1, <2>3, BegunStays
  <2>4. CASE stateCookie[at[l]] = l
    <3>1. ASSUME NEW k \in Logins, LoginAnswers(k)
          PROVE  \/ stateCookie'[at'[l]] = l
                 \/ \E j \in Logins \ {l} : at'[j] = at'[l]
      <4>1. at' = at
        BY <3>1 DEF LoginAnswers
      <4>2. stateCookie'[at[l]] = l \/ (k # l /\ at[k] = at[l])
        BY <3>1, <2>1, <2>4, <1>2 DEF LoginAnswers, IInv, TypeOK
      <4> QED
        BY <4>1, <4>2
    <3>2. ASSUME NEW c \in Callbacks, CallbackAnswers(c)
          PROVE  \/ stateCookie'[at'[l]] = l
                 \/ \E d \in Callbacks : callback'[d] = "over" /\ from'[d] = at'[l]
      <4>1. stateCookie'[at[l]] = l \/ from[c] = at[l]
        BY <3>2, <2>1, <2>4 DEF CallbackAnswers, ClearsState, IInv, TypeOK
      <4>2. callback'[c] = "over" /\ from' = from
        BY <3>2 DEF CallbackAnswers, IInv, TypeOK
      <4> QED
        BY <4>1, <4>2, <2>1
    <3>3. ASSUME NEW k \in Logins, Lapses(k)
          PROVE  stateCookie'[at'[l]] = l
      BY <3>3, <2>1, <2>4 DEF Lapses, IInv, TypeOK
    <3>4. \/ UNCHANGED stateCookie \/ (\E k \in Logins : LoginAnswers(k) \/ Lapses(k))
          \/ \E c \in Callbacks : CallbackAnswers(c)
      BY DEF Next, Requests, Handles, FetchSucceeds, FetchFails, LoginBegins,
         CallbackBegins, Settles, LoginStores, LoginStoreFails, Take, Exchanges,
         StoresSession, Restart, vars, browserVars
    <3> QED
      BY <3>1, <3>2, <3>3, <3>4, <2>1, <2>4
  <2> QED
    BY <1>2, <2>1, <2>2, <2>3, <2>4 DEF CookieStays
<1> QED
  BY <1>1, <1>2

\* A verifier goes when a callback takes it, when its time is over, or with the
\* process; a login is only answered once it is stored (code-exchange.ts:124-126).
LEMMA VerifierStaysStep ==
  ASSUME IInv, Unbegun, VerifierStays, [Next]_vars
  PROVE  VerifierStays'
<1> SUFFICES ASSUME NEW l \in Logins, login'[l] \in {"stored", "answered"},
                    l \notin lapsed'
             PROVE  \/ l \in verifiers'
                    \/ \E d \in Callbacks : /\ callback'[d] \notin {"none", "taking"}
                                            /\ for'[d] = l
  BY DEF VerifierStays
<1>1. l \notin lapsed
  BY BegunStays
<1>2. CASE LoginStores(l)
  BY <1>2 DEF LoginStores
<1>3. CASE ~LoginStores(l)
  <2>1. login[l] \in {"stored", "answered"}
    BY <1>3 DEF Next, Requests, Handles, FetchSucceeds, FetchFails, LoginBegins,
       WithEndpoints, CallbackBegins, Settles, LoginStores, LoginStoreFails, LoginAnswers,
       Lapses, Take, Exchanges, StoresSession, CallbackAnswers, Restart, IInv, TypeOK,
       vars, loginVars
  <2>2. ASSUME NEW d \in Callbacks, callback[d] \notin {"none", "taking"}, for[d] = l
        PROVE  callback'[d] \notin {"none", "taking"} /\ for'[d] = l
    <3>1. callback'[d] # "taking"
      BY <2>2 DEF Next, Requests, Handles, FetchSucceeds, FetchFails, LoginBegins,
         WithEndpoints, CallbackBegins, Settles, LoginStores, LoginStoreFails,
         LoginAnswers, Lapses, Take, Exchanges, StoresSession, CallbackAnswers, Restart,
         IInv, TypeOK, vars, cbVars
    <3> QED
      BY <2>2, <3>1, BegunStays
  <2>3. ASSUME l \in verifiers, l \notin verifiers'
        PROVE  \E d \in Callbacks : Take(d) /\ for[d] = l
    <3>1. ~Restart
      BY <2>3, <1>1 DEF Restart
    <3>2. ASSUME NEW k \in Logins
          PROVE  ~LoginStores(k)
      BY <2>3, <1>1 DEF LoginStores
    <3>3. UNCHANGED verifiers \/ \E d \in Callbacks : Take(d)
      BY <3>1, <3>2 DEF Next, Requests, Handles, FetchSucceeds, FetchFails, LoginBegins,
         CallbackBegins, Settles, LoginStoreFails, LoginAnswers, Lapses, Exchanges,
         StoresSession, CallbackAnswers, vars, loginVars
    <3> QED
      BY <3>3, <2>3 DEF Take
  <2>4. ASSUME NEW d \in Callbacks, Take(d), for[d] = l
        PROVE  callback'[d] \notin {"none", "taking"} /\ for'[d] = l
    BY <2>4 DEF Take, WithEndpoints, IInv, TypeOK
  <2> QED
    BY <1>1, <2>1, <2>2, <2>3, <2>4 DEF VerifierStays
<1> QED
  BY <1>2, <1>3

\* Who is turned away is turned away for a reason, and the reason stays.
LEMMA OvertakenStep == ASSUME IInv, Overtaken, [Next]_vars PROVE Overtaken'
<1> DEFINE Reason(c) ==
      \/ from[c] # at[for[c]] \/ for[c] \in lapsed
      \/ \E d \in Callbacks \ {c} : for[d] = for[c] \/ from[d] = from[c]
      \/ \E k \in Logins \ {for[c]} : at[k] = from[c]
<1>1. Unbegun' /\ CookieStays' /\ VerifierStays'
  BY BegunStays, CookieStaysStep, VerifierStaysStep DEF Overtaken
<1>2. ASSUME NEW c \in Callbacks, c \in unwelcome
      PROVE  callback'[c] # "none" /\ Reason(c)'
  <2>1. /\ callback[c] # "none" /\ Reason(c)
        /\ from[c] \in Browsers /\ for[c] \in Logins /\ login[for[c]] = "answered"
    BY <1>2 DEF Overtaken, UnwelcomeBegan, OnlyOvertakenIsRefused, IInv, Begun
  <2>2. /\ callback'[c] # "none" /\ from'[c] = from[c] /\ for'[c] = for[c]
        /\ at'[for[c]] = at[for[c]]
    BY <2>1, BegunStays DEF Overtaken
  <2>3. CASE from[c] # at[for[c]] \/ for[c] \in lapsed
    BY <2>2, <2>3, BegunStays DEF Overtaken
  <2>4. ASSUME NEW d \in Callbacks \ {c}, for[d] = for[c] \/ from[d] = from[c]
        PROVE  for'[d] = for'[c] \/ from'[d] = from'[c]
    <3>1. callback[d] # "none"
      BY <2>1, <2>4 DEF Overtaken, Unbegun
    <3> QED
      BY <2>2, <2>4, <3>1, BegunStays DEF Overtaken
  <2>5. ASSUME NEW k \in Logins \ {for[c]}, at[k] = from[c]
        PROVE  k \in Logins \ {for'[c]} /\ at'[k] = from'[c]
    <3>1. login[k] # "none"
      BY <2>1, <2>5 DEF Overtaken, Unbegun
    <3> QED
      BY <2>2, <2>5, <3>1, BegunStays DEF Overtaken
  <2> QED
    BY <2>1, <2>2, <2>3, <2>4, <2>5
<1>3. ASSUME NEW c \in Callbacks, c \notin unwelcome, c \in unwelcome'
      PROVE  callback'[c] # "none" /\ Reason(c)'
  <2>1. \/ \E l \in Logins, b \in Browsers : CallbackBegins(c, l, b)
        \/ Take(c)
    BY <1>3 DEF Next, Requests, Handles, FetchSucceeds, FetchFails, LoginBegins,
       CallbackBegins, Settles, LoginStores, LoginStoreFails, LoginAnswers,
       Lapses, Take, Exchanges, StoresSession, CallbackAnswers, Restart, vars, cbVars
  <2>2. ASSUME NEW l \in Logins, NEW b \in Browsers, CallbackBegins(c, l, b)
        PROVE  callback'[c] # "none" /\ Reason(c)'
    <3>1. /\ callback[c] = "none" /\ login[l] = "answered" /\ stateCookie[b] # l
          /\ callback' = [callback EXCEPT ![c] = "refused"]
          /\ from' = [from EXCEPT ![c] = b] /\ for' = [for EXCEPT ![c] = l]
          /\ UNCHANGED <<at, lapsed>>
      BY <2>2, <1>3 DEF CallbackBegins, StateMatches, loginVars
    <3>2. from'[c] = b /\ for'[c] = l /\ callback'[c] = "refused"
      BY <3>1 DEF IInv, TypeOK
    <3>3. CASE b # at[l] \/ l \in lapsed
      BY <3>1, <3>2, <3>3
    <3>4. CASE \E k \in Logins \ {l} : at[k] = at[l]
      BY <3>1, <3>2, <3>4
    <3>5. CASE \E d \in Callbacks : callback[d] = "over" /\ from[d] = at[l] /\ b = at[l]
      <4>1. PICK d \in Callbacks : callback[d] = "over" /\ from[d] = b
        BY <3>5
      <4>2. d # c /\ from'[d] = b
        BY <4>1, <3>1 DEF IInv, TypeOK
      <4> QED
        BY <3>2, <4>2
    <3> QED
      BY <3>1, <3>3, <3>4, <3>5 DEF Overtaken, CookieStays
  <2>3. CASE Take(c)
    <3>1. /\ callback[c] = "taking" /\ for[c] \notin verifiers \ lapsed
          /\ callback' = [callback EXCEPT ![c] = "refused"]
          /\ UNCHANGED <<at, lapsed, from, for>>
      BY <2>3, <1>3 DEF Take
    <3>2. callback'[c] = "refused" /\ for[c] \in Logins /\ login[for[c]] = "answered"
      BY <3>1 DEF IInv, TypeOK, Begun
    <3>3. ASSUME for[c] \notin lapsed
          PROVE  \E d \in Callbacks \ {c} : for[d] = for[c]
      BY <3>1, <3>2, <3>3 DEF Overtaken, VerifierStays
    <3> QED
      BY <3>1, <3>2, <3>3
  <2> QED
    BY <2>1, <2>2, <2>3
<1>4. unwelcome' \subseteq Callbacks
  BY InvStep DEF IInv, TypeOK
<1>5. UnwelcomeBegan' /\ OnlyOvertakenIsRefused'
  BY <1>2, <1>3, <1>4 DEF UnwelcomeBegan, OnlyOvertakenIsRefused
<1> QED
  BY <1>1, <1>5 DEF Overtaken

\* A login is turned away for its state only if it took too long, was carried to
\* another browser, or another request of that browser overtook it; a verifier
\* is there before the browser is told its state (code-exchange.ts:124-126).
THEOREM RefusedForAReason == Spec => []OnlyOvertakenIsRefused
<1>1. IInv /\ Overtaken /\ [Next]_vars => (IInv /\ Overtaken)'
  BY InvStep, OvertakenStep
<1>2. Overtaken => OnlyOvertakenIsRefused
  BY DEF Overtaken
<1> QED
  BY InitInv, InitOvertaken, <1>1, <1>2, PTL DEF Spec

-----------------------------------------------------------------------------
(***************************************************************************)
(* The discovery document, the safety half of EveryRequestIsAnswered.      *)
(***************************************************************************)

\* A request that awaits the discovery document.
Awaits == \/ \E l \in Logins : login[l] = "discovering"
          \/ \E c \in Callbacks : callback[c] = "discovering"

\* The memo is a fetch under way exactly while there is one, never one that failed,
\* and nobody waits for a fetch that is not under way.
FetchInv ==
  /\ discovery \in {"none", "fetching", "ready"}
  /\ fetches = IF discovery = "fetching" THEN 1 ELSE 0
  /\ Awaits => discovery = "fetching"

\* Each step keeps it, a restart between a request and its fetch included.
LEMMA FetchStep == ASSUME IInv, FetchInv, [Next]_vars PROVE FetchInv'
<1> USE DEF IInv, TypeOK, FetchInv, Awaits
<1>1. ASSUME NEW l \in Logins, NEW b \in Browsers, LoginBegins(l, b)
      PROVE  FetchInv'
  BY <1>1 DEF LoginBegins, GetEndpoints, WithEndpoints, idpVars, cbVars
<1>2. CASE FetchSucceeds \/ FetchFails
  BY <1>2 DEF FetchSucceeds, FetchFails, Settles
<1>3. ASSUME NEW l \in Logins,
             LoginStores(l) \/ LoginStoreFails(l) \/ LoginAnswers(l) \/ Lapses(l)
      PROVE  FetchInv'
  BY <1>3 DEF LoginStores, LoginStoreFails, LoginAnswers, Lapses, idpVars, cbVars,
     loginVars
<1>4. ASSUME NEW c \in Callbacks, Take(c)
      PROVE  FetchInv'
  BY <1>4 DEF Take, GetEndpoints, WithEndpoints, idpVars
<1>5. ASSUME NEW c \in Callbacks,
             \/ \E l \in Logins, b \in Browsers : CallbackBegins(c, l, b)
             \/ Exchanges(c) \/ StoresSession(c) \/ CallbackAnswers(c)
      PROVE  FetchInv'
  BY <1>5 DEF CallbackBegins, Exchanges, StoresSession, CallbackAnswers, idpVars,
     loginVars
<1>6. CASE Restart
  BY <1>6 DEF Restart
<1>7. CASE UNCHANGED vars
  BY <1>7 DEF vars, idpVars, loginVars, cbVars
<1> QED
  BY <1>1, <1>2, <1>3, <1>4, <1>5, <1>6, <1>7 DEF Next, Requests, Handles

\* There is at most one discovery fetch, whoever waits for the document waits for
\* one that is under way, and a request that begins is not failed by a fetch that
\* failed before (discovery.ts:61-62, :105-116).
THEOREM FetchIsShared ==
  Spec => /\ [](fetches <= 1 /\ (Awaits => fetches = 1))
          /\ [][\A l \in Logins : login[l] = "none" => login'[l] # "failed"]_vars
<1> DEFINE NotFailed == \A l \in Logins : login[l] = "none" => login'[l] # "failed"
<1>1. Init => FetchInv
  BY DEF Init, FetchInv, Awaits
<1>2. IInv /\ FetchInv /\ [Next]_vars => FetchInv'
  BY FetchStep
<1>3. IInv /\ FetchInv /\ [Next]_vars => [NotFailed]_vars
  <2> SUFFICES ASSUME IInv, FetchInv, Next, NEW l \in Logins, login[l] = "none"
               PROVE  login'[l] # "failed"
    BY DEF NotFailed
  <2> USE DEF IInv, TypeOK
  <2>1. CASE \E k \in Logins, b \in Browsers : LoginBegins(k, b)
    BY <2>1 DEF FetchInv, LoginBegins, WithEndpoints
  <2>2. CASE \E c \in Callbacks, k \in Logins, b \in Browsers : CallbackBegins(c, k, b)
    BY <2>2 DEF CallbackBegins, loginVars
  <2>3. CASE Handles
    BY <2>3 DEF Handles, FetchSucceeds, FetchFails, Settles, LoginStores,
       LoginStoreFails, LoginAnswers, Take, Exchanges, StoresSession, CallbackAnswers,
       loginVars
  <2>4. CASE Restart
    BY <2>4 DEF Restart
  <2>5. CASE \E k \in Logins : Lapses(k)
    BY <2>5 DEF Lapses
  <2> QED
    BY <2>1, <2>2, <2>3, <2>4, <2>5 DEF Next, Requests
<1>4. FetchInv => fetches <= 1 /\ (Awaits => fetches = 1)
  BY DEF FetchInv
<1>5. IInv /\ [Next]_vars => IInv'
  BY InvStep
<1> QED
  BY InitInv, <1>1, <1>2, <1>3, <1>4, <1>5, PTL DEF Spec
=============================================================================
