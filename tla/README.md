# A verification project for orpc-ws

`orpc-ws` is a TypeScript library that runs oRPC over one WebSocket per user:
a browser client that keeps the connection alive (`orpc-ws-client`), a server
that accepts, verifies and watches connections (`orpc-ws-server`), a React and
two NestJS adapters, and a cookie-session backend-for-frontend
(`orpc-ws-cookie-bff`) for applications that log in with OIDC. This directory
holds TLA+ models of its stateful core, TLC configurations that check them,
and proofs checked by TLAPS.

The code is single-threaded, but almost nothing in it is sequential: timers,
socket events, promises and the consumer's own callbacks interleave, and many
of its comments name the bug ("Bug 9", "F2", "NFI-5") that an unforeseen order
once caused. The models are about these orders.

## 1. Inventory

Paths are below `src/packages/`.

| Part (source) | State | Operations | What must be true of it | Module |
|---|---|---|---|---|
| **reconnect manager** (`orpc-ws-client/src/reconnect/reconnect-manager.ts`) | debounce and jitter timers, run mutex, trailing rerun, two resolver lists, storm window, terminal latch | `reconnect`, `tryAuthRecovery`, `runReconnect`, `fireTerminalAuthFailure`, `dispose` | no promise is lost; a bounded number of refreshes; one terminal failure; inert once stopped | `ReconnectManager` |
| **token refresh handler** (`token-refresh-handler.ts`) | the refresh in flight, the swap latch | `refreshTokenOnce`, `refreshAndReconnect`, `swapSocket` | single flight; a swap survives re-entrant `connect()` and `dispose()` | `ReconnectManager`, `OrpcWsClient` |
| **connection core** (`lifecycle/`, `state/`) | connection state, WebSocket holder, per-attempt flag, terminal and disposed latches | `connect`, `dispose`, open and close events, terminal teardown, kick | at most one socket; truthful state; death is final | `OrpcWsClient`, `ClientContract` |
| **heartbeat** (client `heartbeat/`, server `heartbeat/publisher.ts`) | consumption loop, generation counter, barrier, retry timer; poll timer, deadline, latch; live generator per connection | `subscribe`, `abort`, `drop`; `configure`, `recordPing`, `poll`; the server's stream | one live loop; a dead link is noticed; nothing fires after teardown | `HeartbeatWatch` |
| **sleep detector** (`sleep/`) | worker, last tick | `start`, `stop`, tick | a wake-up of a running client asks for a reconnect | `OrpcWsClient` |
| **uploads** (client `upload/`, server `upload/http-handler.ts`) | the request's promise; the stage of a request, its response | `upload`, the 401 as a trigger; verify, gate, handle, answer | a stale 401 is no rejection of the new token; one answer per request | `Uploads` |
| **bidi and multiplexer** (`orpc-ws-shared/src`, both `bidi/`) | channels over one socket, close fan-out, deferred dispose | attach, send, dispatch, dispose | no call hangs on a dead channel; an answer reaches its own call | `BidiChannels` |
| **server: registry and connection handler** (`orpc-ws-server/src/state`, `lifecycle/connection-handler.ts`, `orpc-ws-server.ts`) | connections by key, per-connection resources | connect, kick, close, `closeUser`, `dispose` | who is connected is reachable; a session is one; nothing leaks | `OrpcWsServer`, `SessionDirectory` |
| **server: upgrade verification** (`verify-client-orchestrator.ts`) | pending verification, timeout, stash | verify, time out, answer | exactly one answer per upgrade | `OrpcWsServer` |
| **server: liveness** (`ws-ping-pong.ts`, `token-expiry-watchdog.ts`, `wss-shutdown.ts`) | ping flags, expiry timers, grace timer | tick, pong, expire, shut down | a dead peer is dropped, a live one is not; shutdown ends | `OrpcWsServer` |
| **cookie-bff sessions** (`session-store.ts`, `session-slide.ts`, `oidc/refresh.ts`) | sessions by id, refreshes in flight | slide, refresh, log out, revoke | a deleted session stays deleted; rotated tokens are not rolled back | `CookieSessions` |
| **cookie-bff login** (`pkce-store.ts`, `handlers/callback.ts`, `oidc/code-exchange.ts`, `oidc/discovery.ts`) | pending verifiers, the discovery memo, the state cookie | login, callback | a login is used once, by its browser; a failed fetch is forgotten | `CookieLogin` |
| **react adapter** (`orpc-ws-react/src`) | deferred dispose, handler registry, subscription effect | mount, unmount, render, events | the hook shows its own stream; the client lives as long as its provider | `ReactAdapter` |

How they interact: the composition root (`index.ts`) wires the client's parts
with callbacks. Socket events reach `EventHandlers`, which asks the pure
`decideClose` and calls the reconnect manager, the lifecycle or neither; the
manager calls the refresh handler, which swaps sockets and reports a terminal
failure to the lifecycle; open and close hooks start and stop the heartbeat,
whose watchdog calls the manager again. Closing a wrapper dispatches its close
event *synchronously*, and every change of the connection state runs the
consumer's listeners *synchronously*, so a handler can be re-entered in the
middle. On the server, an upgrade is verified by the consumer's promise against
a timeout; an accepted one becomes a connection that may kick its predecessor,
whose `onKicked` hook may call the server again.

The behaviours that are hard: triggers that race (close event, watchdog,
wake-up, upload 401 and `reconnect()` all ask for a connection, with a refresh
in flight or not); resumption after `await` in a client that died meanwhile;
re-entrancy; late and duplicated socket events; a close that arrives after the
successor; teardown order (who must see the close before listeners go); and
liveness, since each guard that drops a redundant trigger could drop the only
one.

`PROJECT.json` lists every component with its status, and under `hazards`
every place where such an order bites, with the properties that cover it.

## 2. Modules

| Module | Models |
|---|---|
| `ReconnectManager` | the reconnect manager with the single-flight refresh, in an environment that may call it in any order and die at any step |
| `OrpcWsClient` | the whole connection core around an `INSTANCE` of `ReconnectManager`, with partysocket, network, server and token as environment |
| `ClientContract` | the abstract promise of the client to the code that holds it, which `OrpcWsClient` implements |
| `HeartbeatWatch` | the heartbeat of one client from subscriber and monitor to the server's publisher, over connections that open, close, swap and go silent |
| `BidiChannels` | both ends of the socket multiplexer, the bidi wiring, the link memo and the calls of both directions |
| `Uploads` | upload requests from `client.upload()` through the server's handler, with the auth recovery a 401 sets off |
| `OrpcWsServer` | upgrade verification, registry, connection handler, ping-pong, expiry and shutdown, composed as in `orpc-ws-server.ts` |
| `SessionDirectory` | the abstract promise of the registry, which `OrpcWsServer` implements |
| `CookieSessions` | the session store of the cookie BFF under the requests that work on it |
| `CookieLogin` | login, callback, verifier store and discovery memo |
| `ReactAdapter` | `<OrpcWs>`, `useServerHandler` and `useWsSubscription` |
| `ReconnectManagerProofs`, `OrpcWsClientProofs`, `HeartbeatWatchProofs`, `OrpcWsServerProofs`, `CookieSessionsProofs`, `CookieLoginProofs`, `ReactAdapterProofs` | theorems about the module each is named after |
| `TransportProofs` | theorems about `BidiChannels` and `Uploads`, the two transports besides the RPC stream |
| `MC...` | TLC instances: symmetries and sets of configurations |

Every module that has configurations keeps the chosen one in a variable that
no step changes (`setup`, `canRefresh`, `hasTouch`, `mode`, `gated`,
`express`), so that one run covers all of them. The type invariant `TypeOK` is a
conjunct of one invariant of each module and checked with it.

### ReconnectManager

Variables are the manager's fields, named in the declarations. `phase` is how
far the `runReconnect` that holds the mutex has come: `jitter` (awaiting its
delay), `refresh` (awaiting the single flight), `finish` (about to run its
`finally`). `memo` is `refreshInFlight`, by which triggers join a refresh under way
or are dropped as duplicates of it; `refresh` is what the provider's `refresh()`
really does, `inflight`, then its outcome until each awaiter (`authWait` for
`tryAuthRecovery`, `phase = "refresh"` for the run) has resumed. That the memo goes
with the flight is a property, not an assumption.

| Action | Code |
|---|---|
| `Reconnect` | `reconnect()`, up to arming the debounce |
| `DebounceFires` | the debounce callback and `runReconnect` up to its jitter |
| `JitterAborts`, `JitterRebuilds`, `JitterRefreshes` | `runReconnect` after the jitter: stopped; within the window (or no provider); refresh |
| `RunResumes`, `AuthResumes` | the code after `await refreshAndReconnect()` in `runReconnect` and in `tryAuthRecovery` |
| `RunFinally` | the `finally` of `runReconnect`, with the trailing rerun |
| `AuthIgnored`, `AuthStorm`, `AuthRefreshes` | the three ways through `tryAuthRecovery` |
| `RefreshSettles` | the consumer's `refresh()` settling |
| `Dispose` | `dispose()` |
| `WindowExpires` | the clock passing `lastRefreshAttemptedAt + minRefreshIntervalMs` |

Time appears only as the code looks at it: the one comparison with
`minRefreshIntervalMs` is the Boolean `inWindow`; delays are timers that fire
at any later moment. `Quiet` is the JavaScript task rule: continuations of
settled promises run before the next timer or event.

### OrpcWsClient

`RM!A` is action `A` of the manager; the client conjoins it with what the
handler does to the rest. A handler is one action except where the code calls
out synchronously: `frame` then names the suspended handler.

| `frame` | Suspended handler | What runs there | Ended by |
|---|---|---|---|
| `connect` | `connect()` after announcing `connecting` | state listeners | `ConnectEnds` |
| `open` | `handleOpen` after announcing `connected` | state listeners | `OpenEnds` |
| `auth-close`, `pre-open-1000` | `handleClose` after announcing `disconnected` | state listeners | `TokenAuthEnds`, `CookieAuthEnds` |
| `swap` | `swapSocket` around `close()` of the old wrapper | the close event (`SwapCloseEvent`), state listeners | `SwapEnds` |

A deployment (`setup`) says whether there is a token provider, at which frames
the consumer calls `connect()` or `dispose()`, and which misbehaviours of
server, identity provider and partysocket occur. A wrapper's condition
`sock[w]` is `closed`, `backoff` (partysocket between two attempts),
`handshake`, `open` or `halfopen` (dead without a close event). Close codes are
the classes `decideClose` tells apart: `1008` stands for 1008 and 4001,
`1000-timeout` for the synthetic 1000 of a handshake that timed out. The
heartbeat is one variable here (`off`, `subscribing`, `watching`, `timedout`);
`HeartbeatWatch` opens it up.

`partysocket` is external: an open, a close, a close that fires twice for one
1008, a queued open that arrives after `close()`, and its internal retry are
modelled from how `websocket-factory.ts` and `event-handlers.ts` use them and
from what their comments report.

`ClientContract` is the client as its consumer sees it: the state it shows, whether
it is connected, whether it is over, and how often a terminal failure was reported.
`OrpcWsClient` implements it with `shown` as `state`, `linked` as "some wrapper is
open or half-open", `over` as `IsDead` and `reported` as `terminalCalls`. Each of its
seven actions is a promise: a client connects only while it is not connected, a
connection that opens was not there before, a doubt about a connection keeps it
until it is lost or replaced, and what ends a client ends its connection in the same
step, with a report only if it is a terminal failure of one that was not over.

### HeartbeatWatch

A call of `subscribe()` is named by the generation it claims. `loop[g]` follows
it: `barrier` (it awaits the loop of its predecessor), `calling` (its stream has
not delivered the config event), `watching`, `broke` (failed before config),
`over`, `done`.

| Action | Code |
|---|---|
| `Open`, `Close`, `AttemptFails`, `Swap`, `TearDown` | what the client's open hook, close hook (of a connection, or of an attempt that failed), socket swap and dispose do to subscriber, monitor and link |
| `LeaveBarrier` | `subscribeWithRetryBudget` after the barrier |
| `LoopExits` | the `catch` and `finally` of `runLoop`, `schedulePreConfigRetry` |
| `RetryFires` | the pre-config retry timer |
| `ConfigArrives`, `PingArrives`, `StreamEnds` | the events of the stream; `configure`, `start`, `recordPing` of the monitor |
| `Poll` | the watchdog's poll; `DeadlinePasses` is the clock |
| `ServerSubscribes`, `ServerAttaches`, `ServerAborts`, `ServerDetaches` | the generator of `publisher.ts` up to its config event, after it, its abort and its end |

Frames travel in order and are lost with their connection, except that
partysocket keeps what is sent while there is none. A wrapper closed between two
attempts dispatches no event (`CloseWrapper`): a heartbeat call that waits in its
queue is then not told. At a swap its abort ends it; at the client's death `drop()`
only lets go of it, and it waits on with a monitor nobody starts (the exception in
`OneConsumer`). The connection itself is an environment here: `OrpcWsClient` says when
it really opens, closes and swaps.

### BidiChannels

A wrapper of the client lives through several *lines* (native sockets), its
multiplexer with it; the server has a connection and a multiplexer per line.
Client-to-server calls are streams, server-to-client calls have one answer.
`wrapper[w]` is `backoff` (between two attempts), `handshake`, `open` or `closed` for
good. Giving up a wrapper in `backoff` dispatches no close event (`Retires`), since
its native socket is closed already; what partysocket kept for it is dropped.
`departed` are the calls whose request has left the client.

| Action | Code |
|---|---|
| `Create` (`Attach`) | `BidiWebSocketFactory.create`, `createClientBidi().attach` |
| `Attempt` | partysocket's next attempt |
| `Opens`, `Drops` | a handshake completes (`createConnectionBidi`); it fails, or the client's side of a line is lost |
| `Swap`, `TearDown` | `swapSocket` and `dispose` as they touch wrapper, link and bidi |
| `MuxDisposes`, `ServerMuxDisposes` | the microtask in which a retired multiplexer drops its listeners |
| `ServerCloses` | the `close` listener of the connection handler |
| `Call`, `Abort`, `Serves`, `Asks`, `Hosts` | the typed clients and routers on both ends |
| `ClientReceives`, `ServerReceives` | `handleMessage`: the frame goes to the channel its tag names |

The oRPC peers behind the channels are external; both number their calls from
one, so only the tag tells a request from an answer, which is what
`AnswersAreOwn` rests on. The numbers of the server's calls start again with each
connection; those of the client's calls go on across wrappers, where the code's start
again with each link. The bytes of a frame are data.

### Uploads

The client's half keeps of the auth recovery what an upload can reach: the
refresh in flight, the storm window and its kind, death. The server's half
follows a request through `verify`, `beforeUpload`, the procedure and the answer,
with a consumer that throws, answers by itself, returns something malformed or
leaves the request to the next middleware (`express`). A token is a number; the
server accepts the newest ones (`accepted`), and a new token is accepted when it
is issued: the property about logouts is claimed for such a server only.

### OrpcWsServer and SessionDirectory

A handler is one step; only `register()` is interrupted, by the consumer's
`onKicked` hook, and `registering` is the newcomer meanwhile.

| Action | Code |
|---|---|
| `Attach`, `Dispose`, `GraceFires`, `WssCloses` | `attach()`; `dispose()` to its await, the grace timer, the close callback |
| `UpgradeArrives`, `VerifyTimesOut`, `VerifySettles` | `buildWsVerifyClient`: the invocation, the timeout, the consumer's promise |
| `Connect`, `KickHookReturns` (`Finish`) | `handle()` with `register()`, ping-pong, watchdog and `wireLifecycle`, or `rollbackFailedWiring` |
| `CloseEvent` | the `close` listener |
| `CloseUser` | `closeUser()` |
| `PingTick`, `Pong`, `ExpiryFires` | `WsPingPong.tick`, its pong handler, `armExpiryTimer` |

`mode` is the configuration: one connection per user or several, with
authentication or without. An expiry further away than one timer can wait
(2^31 - 1 ms) is `life` in units of that segment. `SessionDirectory` knows no
sockets: it admits a connection under a key, ending the one before in the same
step if the key is exclusive, and lets connections leave. The server implements
it with `admitted` as the announced connections that are open.

### CookieSessions

The backend keeps one record per session in a pluggable store; every store
operation and the call of the token endpoint is an `await`, and between two of
them any other request may run. `at[r]` names the await request `r` is
suspended in, and an action is the effect of that operation with the code up to
the next await.

| `at[r]` | Await | Next step |
|---|---|---|
| `get` | `store.get` of the door check, of logout, of `doRefresh` | `DoorCheck`, `LogoutChecks`, `RefreshReads` |
| `touch` | `store.touch` of the slide | `SlideTouches` |
| `reget`, `set` | the slide's fallback: `store.get`, then `store.set` | `SlideRereads`, `SlideWrites` |
| `token` | `exchange.refreshTokens` | `TokenAccepted`, `TokenRejected`, `TokenUnavailable` |
| `set` (a refresh) | `store.set` of `doRefresh` | `RefreshWrites` |
| `join` | the promise of somebody else's flight | answered by `Settles` |
| `delete` | `store.delete`, `store.deleteByUser` | `LogoutDeletes`, `RevokeDeletes` |

A session is reduced to its refresh token, the field a lost or repeated write
spoils: `n` is the n-th token of its grant, `Withheld` none. The identity
provider is external and rotates: it accepts only the token it issued last
(`grant`), rejects any other with a 4xx, and may be out of order or have its
answer lost. `gone`, `late`, `raced`, `lost` and `outcome` are history that no
action's guard reads. The model has one subject (sessions of different subjects
share no operation) and one process: the single flight is per process, as the
design document says, so two instances of the backend are outside its promise.
A login is one step, since nobody knows a sid before its cookie is sent. `Stores`
says which stores are considered: with `touch()` (`hasTouch`), without, or both. A
failing store operation has no effect.

### CookieLogin

A login request is followed from `/auth/login` (`LoginBegins`, `LoginStores`,
`LoginAnswers`) to callbacks that name its state (`CallbackBegins`, `Take`,
`Exchanges`, `StoresSession`, `CallbackAnswers`). Both go through the memo of the
discovery document (`FetchSucceeds`, `FetchFails`). Browsers, their two cookies,
the identity provider, the session store and `resolveUser` are external; the
provider may accept a code twice, so that a login is used once cannot rest on
it. A callback may be repeated, come from another browser, or overlap another.
A restart of the process loses the memo, the verifiers of the in-memory store
and every request under way.

### ReactAdapter

Tasks of the page wait until effects, re-renders of the connection state and
queued microtasks are through (`Task`). `ProviderMounts`, `ProviderRemounts`
(StrictMode's cleanup and setup in one task), `ProviderUnmounts` and
`DisposeRuns` are the effect of `<OrpcWs>` and its deferred dispose;
`Registers`, `Unregisters` the handlers of `useServerHandler`, whose components
share one procedure; `HookRenders`, `HookSetsUp`, `HookCleansUp`, `HookUnmounts`,
`Toggles` and `Delivers` the life of a `useWsSubscription` and of the
subscriptions it starts. Of the client only its connection is modelled.

## 3. Runs

| Run | Question | Result | Distinct states |
|---|---|---|---|
| `MCReconnectManager` | Is a waiter, flight or trigger ever lost; is the refresh rate bounded; is a stopped manager inert; does every `reconnect()` promise settle? | holds, the last under `FairSpec` | 79,959 |
| `MCClient` | In three deployments (every fault with a token provider, an honest server, cookie auth), with re-entrant calls: one socket, truthful state, final death, the manager used as its own module assumes, no logout by an unlucky order; all of it an implementation of `ClientContract` | holds | 61,215 |
| `MCClientLive` | Does a client that lost its connection, noticed or not, regain it or die? | holds under `FairSpec` | 15,928 |
| `MCClientReentrantConnect` | `dispose()` from a listener on the `connecting` frame | violated (finding 1) | |
| `MCHeartbeat` | Is there one consumer of the heartbeat, no stray timer, and is an open connection watched in the end? | holds, the last under `FairSpec` | 142,916 |
| `MCBidi` | Does a call that was sent, in either direction, wait on a dead channel; can one that waits in a queue be sent; does any get another's answer? | never; yes, until its wrapper is given up; never | 2,203,607 |
| `MCUploads` | Does a stale 401 log the user out; is every upload answered once, whatever the hooks do? | never; always | 472,056 |
| `MCServer` | In all four configurations: is whoever is connected reachable, is anything leaked, is an upgrade answered twice, is a live peer cut off, does the registry implement the directory, does anything wait for ever? | holds, the last under `FairSpec` | 150,020 |
| `MCCookieSessions` | Stores with and without `touch()`, every failure: are refreshes shared, is anyone logged out of a live session, is a token rolled back, who can bring a deleted session back? | holds: with `touch()` only a refresh in flight can; without, the fallback spoils only what changes between its re-read and its write | 2,416,008 |
| `MCCookieRevoked` | With `touch()`, so that no slide writes a record: does a connect that begins after a revocation fail, also with a refresh in flight at the revocation? | violated (finding 2) | |
| `MCLogin` | Does a login give one session, to its own browser; is an honest callback refused without a cause; is every request answered, with one discovery fetch at a time? | holds, the last under `FairSpec` | 97,716 |
| `MCReact` | Does the hook show its current subscription; is the client disposed exactly with its provider; does the last registrant of a procedure answer, and nobody else? | holds | 175,337 |

`PROJECT.json` names for each property of a passing run a *mutant*: an operator
of the module (commented "Mutant:") that changes one definition the way a
plausible bug would. Substituting it must make TLC find the property violated.

### Bounds

- `Calls` (`MCReconnectManager`): three `reconnect()` promises: one can wait in
  each of the three places (pending, run, trailing) at once; a fourth meets the
  same code. There is no symmetry reduction, which TLC does not support for
  liveness.
- `BurstCap = 3` is one more than the two refreshes the property allows;
  `CallCap = 2` one more than one terminal callback. Both bound history
  counters that no action reads.
- `Wrappers` (`MCClient`): three: the current one, one that still owes a queued
  open, one that owes a duplicate close. At most one of each is owed at a time,
  so a free wrapper always exists when the code creates one. `MCClientLive` has
  two, no late events and no re-entrant calls.
- `MaxGen = 6`, `Retries = 2` (`MCHeartbeat`): a subscription that spends its
  budget claims three generations, so two full ones fit, or up to four openings
  that overlap with barriers and retries. A connection opens only while a whole
  budget of generations is left: no subscription is cut short by the bound.
- `MCBidi`: two wrappers and two lines give a swap, a reconnect of one wrapper
  and a reconnect after a swap; two calls of the client and one of the server per
  connection give the collision of numbers (both peers count from one). One frame
  in flight per line to the client, `MaxFlight`, bounds the queue only.
- `MCUploads`: two uploads and three tokens: two stale 401s of different tokens,
  before, during and after a refresh, in a routine window or not.
- `MCServer`: two sockets and two users, with keys chosen freely: a session and
  the one that kicks it, or two that do not meet. A late close, a failed wiring
  or a hook's call concerns one predecessor and one newcomer. `life` up to two
  segments of the expiry timer.
- `MCCookieSessions`: three requests. The longest races have three parties: a
  writer, whoever changes the session behind it, and a later connect or a refresh
  that meets the result. `Sids` is one: only a revocation concerns several
  sessions, and it treats them alike; the theorems hold for any number.
  `TokenCap = 3` rotations: the stored token, one that replaces it and one more.
- `MCLogin`: two browsers, two logins, two callbacks and one restart: a callback
  repeated, carried to the other browser, or overtaken by a second login.
- `MCReact`: three subscriptions (one that is current, one whose deliveries are
  late, one in between), three components, two cleanups of the provider waiting
  for their microtask.

Everything else is finite by itself. Deadlock checking is off where the system
really stops: a disposed client, a server shut down, a page closed, all requests
answered, or a bound reached. It is on in `MCReconnectManager`,
`MCCookieSessions` and `MCCookieRevoked`.

### Fairness

Safety needs none. `FairSpec` assumes:

- weak fairness of handlers' remainders and promise continuations: the
  JavaScript event loop runs them before anything else;
- for `ReconnectManager` and `OrpcWsClient`, strong fairness of the debounce and
  jitter timers, of the settling of the consumer's `refresh()` and of
  partysocket's retries: a due task is queued and the queue is served in order,
  but other tasks may disable and re-enable it (`reconnect()` re-arms the
  debounce), so weak fairness would be too weak. This assumes that calls pause
  for `debounceMs` now and then, and that the consumer's `refresh()` settles: the
  code has no timeout for it;
- for `OrpcWsClient`, strong fairness of an opening handshake (a server that can
  be reached again and again accepts in the end) and of the watchdog on a dead
  link;
- for `HeartbeatWatch`, weak fairness of the subscriber's promises and timers, of
  the server answering or ending a call, of the delivery of what it sent, of time,
  of the poll, and of the swap that a timeout asks for (which is what `Recovers`
  shows of the client);
- for `OrpcWsServer`, weak fairness of its timers, of the return of a hook and of
  the close event of a destroyed socket. Nothing is assumed of peers, of
  `verifyClient` or of the close handshake: this is the point of `NothingHangs`;
- for `CookieLogin`, the discovery request is answered or fails (it has a timeout,
  `discovery.ts`), and so do the store and the token request;
- for `Uploads`, hooks and procedures settle, and a response or a broken
  connection reaches the client.

Nothing is assumed of the consumer, the clock, triggers or failures.

## 4. Proofs

Theorems hold for every set of callers, wrappers, sessions, requests, keys,
sockets, users, browsers, logins or components, and for every set of deployments.
Assumptions used: `Stores` is a set of Booleans, the sentinels are none of the values
they stand beside (`NoWs`, `NoSession`, `NoRequest`, `NoComponent`, `None`),
`TokenCap` is a positive number, bounds are numbers, users are no sockets, and the
configurations considered are among those declared. Theorems about the death of a
client assume in addition, in their statement, that the consumer is `Considerate`.

`ReconnectManagerProofs`. `TypeOK` and `NoLostWaiter` are inductive together;
with typing, `MemoIsTheFlight` and `DisposedIsQuiet` are inductive too.
`AtMostTwoRefreshesPerWindow` is not: it needs `WindowBounds`, which says how
the count relates to the window flags (no refresh in a window that has not
been stamped; at most one while the stamp is routine). `ResolvedMeansServed`
needs `RunServesWaiters`: every waiter of a run beyond `idle` has been marked
as served. `StoppedStartsNothing` follows action by action.

`OrpcWsClientProofs`. `SocketsAreHeld` proves that a wrapper that is not closed
is the one in the holder. The invariant adds the typing of `sock`, that the
holder is empty while `connect()` is suspended (`ConnectHoldsNothing`), without
which `ConnectEnds` could orphan a wrapper, and that the wrapper a swap is closing
is not the held one (`ClosingIsReplaced`). `ConnectedIsTruthful` needs two facts
more: which wrappers still owe an event and in which condition they are
(`OwedEvents`), so that a queued open is never the held wrapper's; and that a
heartbeat that runs or timed out is of the attempt that opened, unless its auth
close is just being announced (`WatchIsOfAttempt`), so that a new open never meets
the latch of the last one.

The rest of the module is about consumers that do not dispose of the client in a
listener on the connecting or connected frame, nor under cookie auth on an auth
close (`Considerate`); finding 1 is why the hypothesis is needed. `DeadInv` says
that a dead client is empty and that the handlers which act unasked when they
resume (`AliveInFrame`) are suspended only on a living one. From it follow
`DeadIsEmpty` and `DeathIsFinal`. `ManagerIsInContext`
needs that the manager is quiet while an auth close is announced
(`TriggerIsQuiet`): every step of the client is then a step of `ReconnectManager`
or leaves it alone. The client, with a history variable that counts its refreshes
(`Counted`), is therefore an instance of the manager's own specification
(`ClientRunsManager`), and the theorems of `ReconnectManagerProofs` are cited for it:
`ClientRefreshesAreBounded`, `ClientsManagerIsSound` (a disposed manager is quiet in
the client too) and `DeadClientStartsNothing`.
`LuckDoesNotLogOut` rests on `LuckInv`: within the window of a refresh that
came back the token is accepted, and once the sockets were swapped for it none
carries an older one, none owes a second close, and no auth close is being
announced; so an auth close never meets the stamp of a successful auth refresh.

`ClientKeepsContract` is the refinement of `ClientContract`. There is at most one
connection, the one in the holder, and `attemptOpened` says whether it is there
(`OpenedIsLinked`); so each step is reduced to what the contract sees of it: nothing,
a change of a living client's state or connection, or a death (`Seen`). The invariant
adds that a client with a connection shows it or that it is replacing it, and that
nothing was reported before a terminal failure (`ShowsInv`). `ClientIsHonest` draws
the conclusion in the contract alone and carries it back: the callback runs at most
once and only of a client that is over, one that is over has no connection, and one
that shows `connected` has one. `NobodyIsStranded` is the safety half of `Recovers`,
for every deployment: a living client that says it is connecting or retrying has a
`connect()` or a swap under way, a wrapper that tries, or a run of the manager that is
owed (`NotStranded`). Inductive with it are that a wrapper held during a swap is the
fresh one of a re-entrant `connect()` (`SwapIsOpen`), that the manager's latch is never
ahead of the client's, and that a run which awaits a refresh has one (`BackInv`).

`HeartbeatWatchProofs`. `OneConsumer` and `NoStrayTimer` are about a client whose
calls of `subscribe()` overlap without bound. `WatchInv` names who owns what:
generations are claimed one by one and the newest still has its budget
(`ClaimsInOrder`); the controller is that of the newest call and reaches every loop
that lives, except one whose call waited in the queue of a wrapper given up between
two attempts (`ControllerIsNewest`), which is why aborting it is enough; calls reach the
server in the order of their generations, each before its own abort (`CallsInOrder`),
so a call that a newer one supersedes at the server is one its client had given up
(`SupersededIsOver`); a retry is the newest call's, and there is none on a dropped
client (`RetryIsOwed`); and the watchdog runs on a link only (`WatchdogIsOfLink`).
`NeverLostInSilence` is the safety half of `WatchedOrGivenUp`: every abort hits a call
that is past its barrier, and what a call in the barrier awaits is a loop that has
ended or is about to (`BarrierEnds`), because whoever claims a generation aborts the
loop it then waits for; so over an open connection the newest call is on its way, a
retry is armed or the watchdog runs, unless the budget is spent (`StillTrying`).

`CookieSessionsProofs`. `FlightsAreShared` needs to know which kind of request
is suspended where and that the memo names a refresh of its own session. The
other three are about a store with `touch()` and rest on `TokensInv`: a session
is stored or deleted only after it was minted (`Minting`); a refresh carries the
stored token or, once the provider answered, one that is not older
(`TokensInOrder`); and unless a rotated token was lost or the grant ended, the
provider accepts what the refresh carries or, if none is about to write, what
the store holds (`GrantFollows`). `WhoWrites` then says which steps change a
session. Without `touch()` the three are false, as the slide's header says;
there `FallbackKeepsFresh` is what remains (`SlideSpoilsOnlyItsRace`): a slide about
to write holds what the store holds unless it was raced (`SlidesAreFresh`), and every
step that changes the session of a waiting slide makes it a raced one.

`OrpcWsServerProofs`. The abstract directory never has
two sessions under an exclusive key (`AtMostOneSession`), and the server implements
it (`ServerImplementsDirectory`), so neither has the server. `IInv` of the server
says that an undecided upgrade was not answered and is nobody's session
(`UndecidedIsNew`), that connections without users and without exclusion have keys
of their own (`KeysOwn`), and that the newcomer whose predecessor's kick is being
reported is not announced yet and alone under its key (`NewcomerIsAlone`);
`AnsweredOnce` and `EveryoneIsReachable` are inductive with these. Every step is
reduced to what the directory sees: it announces nobody, and connections only leave
(`AnnouncesNobody`), or it announces one (`Announces`). `NobodyLeaks` needs that
entries, trackings and timers belong to connections with a listener whose close event
is still to come (`Wired`), and that nobody is connected before `attach()` and after
the close of the server (`Staged`); then the last close event leaves nothing behind.
`CutOffOnEvidence` follows from `Owes`: a tracked connection presumed dead was pinged
and its pong is outstanding. `ShutdownIsBounded` is the safety half of the last clause
of `NothingHangs`: while `dispose()` waits, the fallback is scheduled or every peer is
gone; inductive once it adds that a `register()` suspended in its hook still has the
fallback ahead of it (`GraceInv`).

`CookieLoginProofs`. `OneSessionPerLogin` follows from where a request stands: a state
cookie is of the browser's own login (`CookieIsOwn`), so a callback past the check of
its state is in the right browser (`CheckedIsOwn`); and one that took the verifier is
the only one of its login, the store having none to give a second time (`TakenOnce`).
The provider's refusal of a used code is not needed. `RefusedForAReason` is the
converse promise: the cookie of an answered login is still there unless a newer login
of the browser replaced it or the answer to one of its callbacks cleared it
(`CookieStays`), and its verifier unless a callback took it (`VerifierStays`); so a
callback that is turned away was overtaken in one of these ways, or too late.
`FetchIsShared` is the safety half of `EveryRequestIsAnswered`: the memo says
`fetching` exactly while there is one fetch, and whoever awaits the document awaits
that one (`FetchInv`).

`ReactAdapterProofs`. The registry's entry is the last registrant while it is
mounted, and nobody once it is gone, even if an older component is still mounted
(`RegistryInv`); a dispose is pending only for an unmounted
provider with a microtask queued, and one that unmounted has it pending or behind it
(`OwnerInv`). `HookShowsItsRun` needs that only the current run has an open call
(`RunsInv`), and how the status goes with the fate of that call and with what is
still to be delivered of it (`FateInv`); a run that ended shows it one delivery later.

`TransportProofs`. Of `BidiChannels`: an ongoing call is on the multiplexer of a
wrapper that is not closed, or of a connection that is open, and these still listen
(`ClientEnds`, `ServerEnds`, `CallsEnd`), so whoever closes that connection settles
it; and one that has not been sent is in the queue of its wrapper until that is given
up (`CallsAreSettled`; what becomes of it then is among the observations below).
`NothingCrosses` holds because frames to the client and frames to the server are of
different kinds on each channel (`UpFrames`, `DownFrames`): a peer calls on its own
channel and answers on the other's. Of `Uploads`: a 401 is the
verdict on the token in its header (`RefusedForItsToken`), and within the window of an
auth refresh that came back the current token is accepted (`TokensAreIssued`), so a
401 of the current token never meets that window (`StaleTokensLogNobodyOut`).
`HandedOnAsItArrived` is the safety half of `EveryUploadIsAnswered`.

Only model-checked are the liveness claims: `EveryCallSettles`, `Recovers`,
`WatchedOrGivenUp`, `NothingHangs`, `EveryRequestIsAnswered` and
`EveryUploadIsAnswered` (liveness under fairness and `ENABLED` are out of the
prover's reach). The safety half of each is a theorem, of `NothingHangs` that of its
last clause; section 7 names them. The two violated properties have their
counterexamples. Every other property of a run is a theorem. No module uses a
recursive definition.

## 5. Findings

1. A listener that disposes on the `connecting` frame leaves a disposed client
   with a socket and a sleep detector nothing will ever close
   (`client-lifecycle.ts:274`; `MCClientReentrantConnect`).
2. A refresh that is in flight when its session is revoked or logged out writes
   the whole record back: the session lives on for a new window and admits later
   connects (`oidc/refresh.ts:125`; the contract is at `session-store.ts:160-162`;
   `MCCookieRevoked`, whose store has `touch()`: no slide has a part in it).

Observations met while modelling, which no run is spent on. Where a deviation
from a comment matters to a property, the model does what the code does.

- `ReconnectManager.dispose()` does not settle the promises of a run that awaits
  `refresh()`, although its comment says it resolves every pending one
  (`reconnect-manager.ts:558-559`, `:587`); `DisposedIsQuiet` makes the exception.
- A call made over the cached link between two attempts waits in partysocket's queue
  (`link-factory.ts:113-115`). If the wrapper is given up then, by a swap or by the
  client's death (`token-refresh-handler.ts:371`, `client-lifecycle.ts:157-166`,
  `:320-328`), its multiplexer is disposed without a close event and nothing settles
  the call, although `client-bidi.ts:53-54` says every pending call is settled by
  then. `NoCallHangs` makes the exception, for these calls alone.
- A listener that disposes on the `connected` frame leaves a disposed client
  subscribing to the heartbeat (`event-handlers.ts:182`), and under cookie auth
  one that disposes on the frame of an auth close is still called back about a
  terminal failure (`client-lifecycle.ts:140`); `MCClient` has no re-entry at
  `open`, and none at an auth close under cookie auth.
- A 401 on an upload of a client that never connected opens a WebSocket, without
  the sleep detector that `connect()` starts (`index.ts:774`; `UploadRejected` has
  no guard on `connect()` having run).
- `rollbackFailedWiring` calls `disposeBidi()`, although the header of
  `connection-bidi.ts` says the dispose is only invoked from the socket's `close`
  handler. A connection that fails its wiring has no calls yet, so nothing hangs.
- With `singleConnectionPerUser` off, connections of one key overwrite each
  other's entry: `closeUser` and the farewell of shutdown reach only the newest
  (`orpc-ws-server.ts:688-689` says every connection); the grace timer ends the
  others, which is what `NothingLeaks` and `NothingHangs` show.
- A refresh of a session without a refresh token is `terminal` (`RefreshReads`;
  `oidc/refresh.ts:91-95`), where the comment of `RefreshResult` calls it
  transient (`:36-37`).
- `handleCallback` stores the session outside its `try` (`callback.ts:91`): a
  store that fails ends in an error without the 400 and the `onCallbackFailure`
  its comment promises for every failure, and the `oauth_state` cookie stays
  (`crashed` in `CookieLogin`).
- A refused callback clears the `oauth_state` cookie of a newer login of the same
  browser; and the verifier is consumed before discovery and the token request, so
  a login whose exchange failed has to start over. `OnlyOvertakenIsRefused` names
  both.
- When the upload procedure throws, the handler answers 500 and also calls
  `next(err)`; the response is written once all the same.
- A heartbeat stream that ends cleanly before its config event is not retried:
  the connection stays unwatched until the next one. `WatchedOrGivenUp` is about
  a server whose stream begins with its config, as `publisher.ts` does.
- In `orpc-ws-cookie-bff-client`, answers of `me()` that arrive out of order can
  leave the older CSRF token (`auth-client.ts`).

## 6. Not modelled

Logging, error wording, HTTP transport, encodings (crypto, cookies, the bytes of
a frame), the clock and logger seams, framework glue (the NestJS modules, the
scan of Express routes at bootstrap) and the demo applications keep no state a
property could be about. The browser client of the cookie BFF keeps one CSRF
token. `oidc-verifier-jose` has the same memo as `CookieLogin`; its claim checks
are pure functions of a token.

Of the modelled parts, left out are: the emission of events to the consumer, the
timer of the sleep detector's worker and the arithmetic of its ticks (a tick that
finds a gap is `Wakes`), body limits and URL prefixes of uploads, and the
presigned-URL strategy, which is a stub, and hooks of the upload handler that write
the response themselves. The starvation of the debounce by calls
closer than `debounceMs` apart is documented behaviour and excluded by the
fairness of `EveryCallSettles`. A consumer's server code is taken not to call
`conn.client` after its connection's close event. React's `<Activity>`, which
runs cleanups without an unmount, is outside `ReactAdapter`. In the session store,
`slideSessionOnActivity: false` is a special case of a request that ends at its
door check; the encryption of the record, the CSRF comparison and the cookie are
data; and which 4xx of the token endpoint mean a dead grant is taken to be the
provider's contract.

## 7. Plan

What is left, the most important first:

1. A composition of client and server over a lossy link: the kick of an older
   connection against the client's own reconnect, with `ClientContract` and
   `SessionDirectory` as what each side relies on.
2. The progress measures behind the liveness claims. Their safety halves are theorems
   (`WaitersAreKept`, `NobodyIsStranded`, `NeverLostInSilence`, `ShutdownIsBounded`,
   `FetchIsShared`, `HandedOnAsItArrived`): whoever waits, waits for something that is
   under way. What is left to state is what each step of it leaves to do.
