# Formal models of binance-sdk

TLA+ models of the stateful parts of this SDK, TLC configurations that check
them on small instances, and proofs of the properties that matter most. The
reference is the code under `src/src`; line numbers below and in `PROJECT.json`
("map") are of that tree. Paths are relative to the repository unless they start
with `src/src`, which is how `PROJECT.json` writes them.

    tlc -workers 2 -config BookFaults.cfg MCBookEngine     # a run
    tlapm BookEngineProofs.tla                             # the proofs about it

Each component `X.tla` has a module `MCX.tla` with the constants of its runs,
and a module `XProofs.tla` with its theorems.

## 1. Inventory

| component | state | operations | hard part | correct when |
|---|---|---|---|---|
| `OrderBook`, `ManagedBook` (`state/`) | levels, `lastUpdateId`, `synced`, `desynced`; life cycle, diff buffer | `applySnapshot`, `applyDiff`, `receiveDiff`, `markInterrupted`, `close` | sequence rules of spot and futures, buffer bound, snapshot/stream races | a book in sync mirrors the exchange |
| `BookEngine` (`state/platform`) | books, subscriptions, `resyncing`, `closed` | `watch`, `unwatch`, `close`, frame handler, resync task | awaits inside `watch` and the resync, several watches of a symbol | no step leaves a live book wrong; a desynced book is repaired or its resync gave up |
| `ExecutionManager` (`execution/`) | ledger, `byClientOrderId`, in-flight placements | `placeOrder`, `cancelOrder`, `reconcile`, `onExecutionReport` | lost answers, late requests, duplicate and early frames, eviction | one order per intent, no order lost, the ledger is true |
| `RiskGateway` (`risk/`) | open notional, failure streak, breaker, daily PnL, positions | `check`, `registerOpenOrder`, `releaseOpenOrder`, `recordFailure`, `trip`, `resetBreaker`, day roll | check-then-act over awaits, exposure never released, day boundary | nothing passes while tripped; exposure is released |
| `WsConnection` (`ws/`) | state, active and pending socket with tokens, timers, acks | `connect`, `close`, `reconnect`, `rotateNow`, timers, socket events | rotation against loss, timers against calls | one socket, a truthful state, no gap in a rotation |
| `BaseWS`, pool, registry, renewal (`ws/`, `ws/platform`) | desired and confirmed streams, mappings, renewal slots | `subscribe`, `unsubscribe`, `resynchronize`, acquire, release | resynchronisation across sockets, failed SUBSCRIBE, refcounts | a live Subscription is delivered; confirmed is true; nobody stays pending |
| `WsApiClient`, `WsSession` (`ws/platform`) | state, pending requests, waiters, session, generation | `request`, logon, logout, `close` | in-flight outcome at a drop, drop during a logon, pending limit | each request ends once and truthfully, and is never replayed |
| `UserStreamSession` (`execution/platform`) | listen key, keep-alive failures, session state | `start`, `close`, keep-alive, rotation | creation, rotation and `close` at each other's awaits | one session in charge, no key leaked, delivery resumes |
| `ExecutionPlatform`, trackers, `Reconciler` | orders, positions, session | `startUserSession`, `close`, fold of stream and REST | stale REST over newer stream, gaps, eviction | the view is the account's after a clean pass; a terminal record is final |
| `PaperTradingEngine`, `PaperSession` | balances, positions, orders | place, tick, cancel | balance identities | no money appears or vanishes |
| `HttpClient`, `RateLimitTracker` | pending requests, limits, clock offset | request with retries | retry only what cannot double | (used by `OrderExecution`) |
| `RealizedPnlFeed` (`risk/`) | day, seen rows | `seedToday`, `poll` | midnight between pages, restart, repeated rows | each row counts once, on its day; a loss trips the breaker |
| `AtomicOrderManager`, `Gateway`, `Transports`, `AuditSink` | little | cancel-replace, send, append | partial failure | — |
| resources, products, registry, types, contracts, tools, mcp, agent, core, errors | none or immutable | REST wrappers, generated types, value code | — | — |

How they interact: `BookEngine` subscribes through `SubscriptionRegistry`
(refcount per stream), which sits on `BaseWS`, which is a `WsConnection`; it
hears of connection loss as `interrupted` on its `Subscription` and of frames as
`message`. `ExecutionManager` sends through `HttpClient`, whose policy hook is
`RiskGateway.check`, records the outcome, and feeds the gateway from each record;
the user stream reports executions into the ledger at any time. Everything runs
on one event loop: code between two awaits is atomic, and every await is a point
where any other handler may run. The models follow exactly this: one action is
one such stretch of code.

## 2. Modules

### OrderBook, BookEngine

`OrderBook.tla` holds the synchronous methods of `OrderBook` and `ManagedBook` as
operators on records. Price levels are abstracted to the set of exchange update
ids whose effect they carry: a snapshot at id n carries `1..n`, a diff, which
holds absolute quantities, adds `U..u`. A missed update is a hole in that set.

`BookEngine.tla` is the engine for one symbol (symbols share no state), together
with the exchange (`Trade`, `Publish`), the pooled subscription (`Interrupt`,
`Reconnect`, `Rotate`, `StreamClosed`) and the REST snapshot, which is the
exchange's book at some moment between request and answer.

| model | code |
|---|---|
| `cur`, `mb` | `books.get(symbol)`; `cur` tells which `watch` call created the book |
| `sub`, `registered`, `listening`, `confirmed` | `subscriptions`; the registry's mapping; Subscriptions with the engine's listeners; Subscriptions in state `live` |
| `watch[w]` | where a `watch()` is suspended, the book it looked up before its await, the exchange's update id at that time |
| `resync` | the task of `scheduleResync`; its presence is `resyncing.has(symbol)` |
| `WatchStart`, `WatchAcked`, `WatchJoined`, `WatchSnapshot`, `WatchFails` | the stretches of `watch()` between its awaits |
| `Deliver` | `onDepthFrame`, once per listening Subscription |
| `ResyncWakes`, `ResyncSnapshot`, `ResyncFails` | the stretches of `scheduleResync` |

### OrderExecution

`OrderExecution.tla` is `ExecutionManager` with the matching engine, the user
stream and the parts of `RiskGateway` it drives. `HttpClient.request` asks the
gateway and then waits for its limiter and throttle; so a create request passes
the gateway (`Admit`, part of `PlaceOrder` and `NotFound`), leaves (`Send`), takes
effect (`Accept`) and is answered in separate steps, and a timeout can come before,
between or after the last two. A throttled request (429, 418) goes back to waiting
and leaves again without passing the gateway again (`Throttled`, at most
`MaxRetries` times). Every order is a limit order of notional 1 that fills in
one trade; amounts are counted in orders.

| model | code |
|---|---|
| `ledger`, `byId` | `ledger` (in insertion order), `byClientOrderId` |
| `task[c]` | the placement in `inFlight` for client order id `c`: let pass and waiting to leave (`admitted`), submitting or polling; first or second submission; how often it was sent again |
| `sent[c]` | the create requests under `c` the gateway has let pass |
| `call[t]` | a `cancelOrder` or `reconcile` in flight |
| `risk` | `openNotional`, `consecutiveFailures`, `breaker.tripped` |
| `orders`, `wire`, `stream` | external: the matching engine, requests on their way to it, reports on their way back |
| `Record` | `record()` with eviction and `updateRiskGateway` |
| `ApplyReport` | `onExecutionReport` |

### WsConnection

`WsConnection.tla` is one connection over a succession of sockets; a socket is
its token. Handlers and timer callbacks run to their end, so each is one action.

| model | code |
|---|---|
| `active`, `pendingSocket`, `pendingToken` | `activeSocket` with `activeToken`, and the replacement of a rotation |
| `reconnectTimer` | a reconnect is scheduled; the code never arms a second one |
| `rotationTimer`, `livenessTimer` | how many run, and whether the handle refers to one of them (`held`) |
| `StartTimers`, `ClearTimers` | `startRotationTimer` and `startLivenessTimer`, which overwrite the handle of a timer that runs; `clearTimers`, which clears what the handle refers to |
| `RotateNow`, `RotationTimerFires`, `RotationTimerIdle`, `RotationTimerNoUrl` | `rotateNow`; a rotation timer that rotates, finds nothing to do, or finds no URL |
| `Stale` | a liveness interval, whichever, replaces a silent connection |

A rotation starts both timers again, so after it more of them run than handles
exist, and `close()` does not reach the older ones (`TimersCleared`, section 3).

### StreamPool

`StreamPool.tla` is `BaseWS` on one pooled connection with `SubscriptionRegistry`
on top. A socket is what the server has subscribed on it and two queues, requests
(`reqs`) and answers (`acks`); its life cycle is a digest of `WsConnection`. A
replacement that takes over while the reconnect timer of its predecessor still
runs may be lost in turn: `scheduleReconnect` then returns at once, and the state
stays OPEN without a socket until the timer fires. The model calls this `LOST`.

| model | code |
|---|---|
| `desired`, `confirmed` | the sets of `BaseWS`; `desired` is also the keys of the registry's mappings |
| `sub[u]` | the state of each `Subscription` |
| `resync` | the task behind `resyncPromise`: which answer it awaits, and `serverSet`, `missing`, `extra` as it computed them |
| `Join`, `Acquire`, `Release` | `doAcquire` with and without a mapping, `release` |
| `ResyncAck`, `ResyncLost`, `Proceed` | the stretches of `doResynchronize`, its request answered or failed |
| `Established` | the `open` and `rotated` handlers |
| `doubt` | history, see "Fault models" |

### WsApi, Rpc

`WsApi.tla` is `WsApiClient` with `WsSession`: calls, the waiters for a
connection, the logon after each open, the logout, the reconnect delay. A call's
frame at the exchange (`frame`) is a variable of its own, because it may be
executed after its call has ended. `Rpc.tla` is what a caller is promised: an
outcome that is true and final (`ok` executed; `error`, `refused` not; an order
write never `retryable` when it may be executed), and each frame executed once.
`ImplementsRpc` is the refinement: waiting and pending are *running*, the effect
is the set of executed frames.

### UserSession

`UserSession.tla` is `UserStreamSession` in listen-key mode, several sessions of
one `ExecutionPlatform`, and the exchange's one listen key per API key. A REST
call is two steps, its effect and its answer, and may fail before or after the
first.

| model | code |
|---|---|
| `current`, `stream` | `sessionValue`; the session given to `executionManager.setUserStream` |
| `status`, `key`, `conn`, `failures` | `sessionStateValue`, `listenKeyValue`, the `WsConnection` state, the three counters |
| `tick` | the keep-alive: timer armed, request out, or its rotation awaited |
| `create` | the creation under way, for `start` or for a rotation (`rotating`) |
| `valid`, `issued`, `deletes` | external: the exchange's key, deletions on their way |

### RiskDay

`RiskDay.tla` is the daily half of `RiskGateway` (PnL, streak, breaker, day) and
`RealizedPnlFeed` over a ledger of income rows served page by page, in a host that
saves `persistedState()` at any time, dies, and boots with `restoreDailyState` and
`seedToday()`, the order of `src/examples/agentic-futures.ts`. Midnight, new rows,
failures, a reset or a crash may come between any two pages. What rows add up to
(`SumOf`) is a recursive function over the ledger, as the code's `reduce` is a loop.

### AccountView

`AccountView.tla` is `OrderTracker` and `PositionTracker` under the user stream
and `reconcile()`: the exchange's orders trade and are cancelled, frames travel in
order while the stream is up and are lost when it drops, and a pass reads the open
orders, folds them, reads the positions and folds them, four steps between which
anything may happen. The tracker is a value (`records`, and `recency`, the
insertion order of the map), so that a fold of several rows is one action.

`MC*.tla` only give constants their values.

## 3. Runs

Bounds are constants that guard the environment's actions; they are listed with
a comment in each module. `CHECK_DEADLOCK FALSE` everywhere: these systems may
stop (nobody has to call anything, the exchange may fall silent).

| run | states | checks | shows |
|---|---|---|---|
| `BookFaults` | 738,010 | `TypeOK`, `BookExact`, `LiveAfterFrame`, `SpotOverlapGoesLive`, `LiveOrGivenUp` | two watches, spot and futures, one drop, one platform close, two rotations, one error, buffer of 2: a book in sync is exact; a live book includes the last frame; on spot a snapshot over a buffer without a hole goes live with all of it; a watched book goes live or is dropped, unless a resync ended without repairing it, and nothing else leaves a book given up |
| `OrderPlacement` | 875,602 | `TypeOK`, `AtMostOnePerIntent`, `NoOrderLost`, `LedgerTruthful`, `PlacementSettles` | one intent and one cancel under throttled, lost, late and repeated messages |
| `OrderPair` | 1,579,673 | `OvershootBounded`, `BreakerHolds` | three placements, two under one client order id, and one gateway with room for one order; placement again after a denial; while tripped, nothing more passes the gateway |
| `WsConnection` | 555,928 | `TypeOK`, `OneConnection`, `StateTruthful`, `GaplessRotation`, `ComesBack` | three calls, two rotations, two lost sockets, one race, one missing URL |
| `StreamPool` | 1,557,066 | `TypeOK`, `LiveIsDelivered`, `ConfirmedTruthful`, `Converged` | two streams, three Subscriptions, three faults of any kind: live means delivered, confirmed means subscribed, and when all is quiet server and client agree, but for streams in doubt |
| `StreamLive` | 40,113 | `GoesLive` | two Subscriptions of one stream, five faults: a pending Subscription goes live |
| `WsApi` | 75,346 | `TypeOK`, `SessionTruthful`, `NoStrandedWaiter`, `ImplementsRpc`, `EveryCallEnds`, `ComesBack` | a read and two order writes, two lost sockets, one lost during a logon, a logout that may time out, a pending limit of one |
| `UserSession` | 120,184 | `TypeOK`, `SessionInCharge`, `ClosedIsQuiet`, `NoKeyLeak`, `KeepsDelivering` | two sessions, limits of two, two faults and one lost answer or deletion |
| `RiskDay` | 1,189,370 | `CountedOnce`, `TripSurvives`, `OnlyReviewClears`, `EventuallyTrips` | three rows of +1 or -1 in pages of one, a loss limit of two, one midnight, two crashes or failed polls |
| `AccountView` | 1,701,502 | `TypeOK`, `ViewCurrent`, `TerminalExact` | a buy and a sell of two lots, a tracker with room for one record, one lost connection, two passes |

Runs that end in a counterexample, each against a sentence of the repository
(quoted in `PROJECT.json`, "findings"):

| run | property | what happens |
|---|---|---|
| `OrderLate` | `NeverDoubled` | the first request arrives after the `-2013`; two orders |
| `AccountGap` | `GapClosed` | an order that ended during a gap of the stream stays open in the tracker, whatever passes follow |

More statements of the repository are written down as properties and refuted by
TLC, but have no configuration of their own; each needs a change to an existing one:

| property | configuration and change | what happens |
|---|---|---|
| `OverlapGoesLive` | `BookFaults`, as PROPERTY | futures: the overlapping buffered diff fails the `pu` check, the first seed desyncs |
| `BookRecovers` | `BookFaults`, as PROPERTY, without drops, closes, rotations and errors | futures: the resync's own tail desyncs the book again, that desync is swallowed while the resync still runs, and a desynced book raises no other. Spot needs two rotations: one watch, `MaxUpdateId = 5`, `MaxBuffered = 6` |
| `NothingLeavesTripped` | `OrderPair`, as PROPERTY | a request that passed the gateway waits for the limiter while a rejection trips the breaker, and leaves |
| `RejectedMeansNoOrder` | `OrderPlacement`, as INVARIANT | an executed order answered 5xx with a body is recorded as rejected |
| `LedgerTruthful` | `OrderPlacement`, `AckCarriesFills = TRUE` | a spot fill is counted from the acknowledgement and again from the stream |
| `LedgerTruthful` | `OrderPlacement`, `MaxLedger = 1`, without its premise `Roomy` | the ledger evicts an intent but not its client order id; placed again under another id, the intent gets the fills of its first order |
| `ExposureReleased` | `OrderPlacement`, as INVARIANT | an order that fills through the stream stays in the open-notional budget |
| `OvershootBounded` | `OrderPair`, one intent and id, `MaxLookups = 3`, without its term for lookups | every `reconcile()` of a resting order charges it again |
| `TimersCleared` | `WsConnection`, as INVARIANT | after a rotation, the liveness interval of the first socket outlives `close()` |
| `OpenHasSocket` | `WsConnection`, as INVARIANT | the active socket and the replacement that took over from it are lost before the reconnect timer fires: OPEN without a socket |
| `RepairDropsNothing` | `StreamPool`, as PROPERTY | the resynchronisation unsubscribes a stream acquired again while it waited for its SUBSCRIBE |
| `RepairForgetsNothing` | `StreamPool`, as PROPERTY | the end of the resynchronisation forgets a stream acknowledged while it ran |
| `NoDuplicateConnections` | `WsConnection`, as INVARIANT | the replacement of an interrupted rotation is never closed |
| `CountedOnceAlways` | `RiskDay`, as INVARIANT | a fetch that spans midnight counts rows on the wrong day, or twice |

The other findings were met while modelling and are steps of the models or
exclusions of a property named below.

The passing properties say precisely what remains true: `SpotOverlapGoesLive`,
`LiveOrGivenUp` (a book is lost only at the end of a resync that did not repair
it: failed request, hole in its own tail, or book replaced meanwhile),
`BreakerHolds` (while tripped, the requests that may still reach the engine are
those that had passed before, re-sends included, and they only grow fewer),
`AtMostOnePerIntent` (no request executed after the lookup that missed it),
`NoOrderLost` (`Timely`), `LedgerTruthful` (nothing evicted), `OneConnection` (no
race of loss and rotation), `OvershootBounded` (the cap on open notional, plus what
was checked together and what `reconcile()` charges again).

Fault models, and what the history variables exclude. A property that leaves out
a case says so with a history variable, which nothing reads but properties:

* `doubt` (`StreamPool`): the streams the code can be wrong about. A timed-out
  request doubts the streams it names (the code goes on as if it had worked, or
  as if nothing were subscribed); a socket established, or lost, while a
  resynchronisation runs doubts every stream (the new socket joins the old pass);
  a Subscription that joins on a dead connection doubts its stream, and so does an
  acknowledgement that comes after the release or leaves a second Subscription
  pending. Two more need no fault at all: the UNSUBSCRIBE of a resynchronisation
  names a stream acquired since it compared the list (`RepairDropsNothing`), and its end
  forgets a stream acknowledged since (`RepairForgetsNothing`). A fresh resynchronisation
  clears the doubt. A loss, also of a replacement before the reconnect timer fires,
  a rotation, a replacement or a failed connect doubts nothing by itself.
* `overlapped` (`UserSession`): a session began while a closed one was still
  creating its key; `startUserSession` then clears `sessionValue` for the wrong
  session. `faults["lost"]` excludes a lost creation answer or deletion.
* `spanned` (`RiskDay`): midnight fell into a fetch of this process. `reviewed`
  and `unsaved` remember an operator's reset.
* `current`, `missed`, `evicted` (`AccountView`): a pass ran since the last gap
  without a frame between a snapshot and its fold; orders a frame or a record of
  which was lost. A frame in that window lets an older snapshot overwrite a newer
  record until the next frame of that order.

Why the bounds are enough. *Book*: three updates make a snapshot that falls
before, inside and after a buffered diff, and a hole next to it; a buffer of two
overflows with three diffs; two watches are the least with an older and a newer
book, and a third adds no new relation between a suspended task and the current
book; two rotations let a resync meet a hole in its own tail.
*Orders*: two submissions are all the code makes per placement, and one re-send of
each is enough to leave again after a trip (`MaxRetries = 1`); two polls give a
failed and a last one; one late request, one server error, one lost and one
repeated frame suffice for each failure alone and for the pairs that meet in one
placement; three intents and two ids make two placements that pass the gateway
together and a third that must not. The ledger has room for the intents of the
passing runs (`Roomy`): after an eviction the manager has no memory of an intent, and placing it again
makes a second order. *Connection*: two rotations and two losses give a rotation
that fails, one that succeeds and a loss after each; three calls include
close–connect–close. *Streams*: two Subscriptions of one stream and one of another
give a shared, a last and an unrelated release; three faults give a rotation during
which the socket is lost and whose replacement is lost, too, and a timeout inside a
resynchronisation with a loss before and after; `StreamLive` has five, with less to
acquire, so that the recovery itself is disturbed. *Calls*: a
pending limit of one makes every second call meet it; two writes and a read give
the two kinds of a lost call and a pair on one socket. *Sessions*: two are the
least with a late answer of the older; limits of two make a first failure that
does nothing and a second that rotates; with two keys an old one can be replaced.
*Day*: pages of one row make every fetch of more than one row a sequence of
awaits; three rows are a loss at the limit and one that recovers or exceeds it;
two days are all a snapshot distinguishes (its own and another). *View*: two lots
make an order that is partly filled; one record makes the second order evict the
first; with two passes the older one can be disturbed and the newer clean.

Fairness. *Book* (`FairSpec`): the exchange publishes what changed, frames and
REST answers arrive, the resync timer fires (`setTimeout`), a subscribe whose
Subscription the platform has closed is rejected, and a dropped connection comes
back (`ComesBack` of `WsConnection`). *Orders*: a request that passed
the gateway leaves (the limiter serves its queue, `setTimeout`), is answered or
times out (`HttpClient` has a timeout), and a placement's next step runs; nothing is assumed of the engine, the stream or the caller. *Connection*:
the reconnect timer fires, and some handshake in progress succeeds unless the
socket is lost, which happens finitely often. *Streams*:
the server answers on a socket that lives, a lost request ends by its own timer,
an attempt to connect ends, the reconnect timer fires. *Calls*: every timer fires
(`setTimeout` per request and per waiter) and a socket that connects or closes
gets its event; nothing is assumed of the server's answers. *Sessions*: REST calls
are answered or fail, timers fire, an attempt to connect ends; a socket on a dead
key need not be dropped. *Day*: the host boots and polls (its own loop), requests
are answered. No fairness is put on anything the user does.

## 4. Proofs

Each proofs module extends its component, states an inductive invariant `IInv`,
shows `Init => IInv` and, one step per action, `IInv /\ [Next]_vars => IInv'`, and
derives the properties of the runs from it. TLC checked every conjunct of every
`IInv` on the run of its module before it was proved. The only assumptions are the
named `ASSUME`s of the modules: bounds and limits are naturals, sets that are
counted are finite, there is a client order id, and the names the models use for "nobody" or "none" are not
names of sessions, intents or Subscriptions. The bounds on calls and faults are
constants like the others, so the theorems hold for any number of them.

| theorem | states | excludes (as the run does) |
|---|---|---|
| `BookEngineProofs.TypeCorrect`, `ExactBook` | `TypeOK`, `BookExact` | |
| `FrameIncluded`, `SpotOverlap` | `LiveAfterFrame`, `SpotOverlapGoesLive` (actions) | |
| `WsConnectionProofs.ConnectionTypeCorrect`, `OneSocket`, `TruthfulState`, `Gapless` | `TypeOK`, `OneConnection`, `StateTruthful`, `GaplessRotation` (action) | a loss during a rotation; a missing URL |
| `StreamPoolProofs.PoolTypeCorrect`, `LiveDelivered`, `TruthfulConfirmation`, `Agreement` | `TypeOK`, `LiveIsDelivered`, `ConfirmedTruthful`, `Converged` | streams in doubt |
| `WsApiProofs.ClientTypeCorrect`, `TruthfulSession`, `NoneStranded` | `TypeOK`, `SessionTruthful`, `NoStrandedWaiter` | |
| `WsApiProofs.Refinement` | `ImplementsRpc`: `WsApi` implements `Rpc` | |
| `OrderExecutionProofs.OrderTypeCorrect`, `AtMostOne`, `NoneLost` | `TypeOK`, `AtMostOnePerIntent`, `NoOrderLost` | eviction; a late request; a 5xx answer (`NoOrderLost`) |
| `TruthfulLedger` | `LedgerTruthful` | eviction; fills in acknowledgements |
| `Overshoot`, `Breaker` | `OvershootBounded`, `BreakerHolds` (action) | |
| `UserSessionProofs.SessionTypeCorrect`, `InCharge`, `StaysQuiet`, `NoneLeaked` | `TypeOK`, `SessionInCharge`, `ClosedIsQuiet`, `NoKeyLeak` | a start over an unfinished creation; a lost answer |
| `RiskDayProofs.EveryRowOnce`, `TripOutlivesRestarts` | `CountedOnce`, `TripSurvives` | a fetch that midnight falls into |
| `ClearedByReview` | `OnlyReviewClears` (action) | |
| `AccountViewProofs.ViewTypeCorrect`, `EndsExact`, `CurrentView` | `TypeOK`, `TerminalExact`, `ViewCurrent` | fills of orders a frame of which was missed; evicted orders; passes a frame disturbed |

The library's induction theorems take a predicate as a parameter, which the
installed provers cannot instantiate. `BookEngineProofs`, `RiskDayProofs` and
`AccountViewProofs` begin with a section "Loops" that states induction over a set
(`NumberInduction`), that a recursion has a result (`LoopExists`) and that its
steps keep an invariant (`LoopInvariant`), for the code's loops and sums.

The invariants, and why they are needed:

**BookEngine.** `BookExact` alone is not inductive: the book is fed from the buffer
and the channel, and those have to hold diffs of the exchange's past only. `IInv`
is `TypeOK` and `DataOK`: every diff in flight ends at or before the exchange's
current id (`KnownDiffs`), and the managed book is *good* (`GoodManagedBooks`): if
its inner book is in sync its content is `1..last` with `last` at most the
exchange's id; if it is live it is in sync; its buffer holds known diffs. The
lemmas follow the code bottom up: `applyDiff` keeps a book good, then
`receiveDiff`, the listeners' loop, the replay of the buffer over a snapshot, and
`applySnapshot`; the two loops use `LoopExists` and `LoopInvariant`.
The two action properties need a second invariant besides (`SideInv`): a book is
closed exactly when the map has none, a snapshot is fetched for a book, and diffs
of spot carry no `pu`. `FrameIncluded` then follows the frame through the
listeners' loop, `SpotOverlap` the snapshot through the replay: over a buffer
without a hole every diff applies or is stale.

**WsConnection.** `OneConnection` does not say enough to survive a step: a
handshake that succeeds makes its socket the active one and forgets the pending
one, which leaves no socket behind only if a primary socket never opens while a
rotation is under way. `IInv` adds that (`Tidy`, as long as no connection was lost
during a rotation): a pending token belongs to a connecting rotation socket and
exists only in OPEN; a connecting active socket is a primary one and exists only
in CONNECTING; the reconnect timer runs only in RECONNECTING, next to no live
socket; IDLE and CLOSED have no active socket. `TimerInv` adds the timers
(`LookedAfter`): in OPEN a rotation timer runs or a rotation is under way, which
survives a timer that fires idle only because another rotation is under way then,
and a liveness interval runs; a held handle refers to a timer that runs, so that
clearing one of several leaves the count right. `Truthful` holds as long as, besides, there always was a URL: an attempt without one leaves the state as it
was. Lemmas state what retiring, moving and adding a socket do to the sequence of
sockets, then what the actions share.

**StreamPool.** What the server has now says little; what it will have once it has
served its queue (`Carried`) is what the code steers. For a stream not in doubt,
on an open connection, `Phase` relates it to the desired streams: they agree when
no resynchronisation runs, or it is in its last request; while the LIST is out,
the server will have what is desired or what it will answer; while the missing
streams are subscribed, all that is desired and at most the extra ones besides.
`ListFirst` is why that is enough: the LIST is the first request on its socket, so
nothing is confirmed before its answer, unless it was given up, which puts every
stream in doubt. `Awaited` is the other half, for `Converged`: a desired stream
that is not confirmed, or has a pending Subscription, is named by a request a
Subscription waits for or will be confirmed by the resynchronisation. `Orphaned`
says that a resynchronisation which outlived its socket doubts everything. In
`LOST` the server has nothing and a reconnect is scheduled; `Phase` asks for
nothing there, because the next socket is compared afresh. The
lemmas on queues say what appending, serving and abandoning a request do to
`CarriedBy`.

**WsApi.** `FramesMatch` relates what a caller was told to what became of its
frame; `StateMatchesSocket` and `WaitersMatch` say in which states of the client a
socket, a delay or a logon is under way, so that whoever waits is heard of;
`SessionMatches` that only a logged-on socket is used without signatures. For the
refinement every action is shown to map to a step of `Rpc` or to change nothing it
sees: a call ends once, and only with an outcome that agrees with its frame.

**OrderExecution.** `AtMostOnePerIntent` counts orders at the engine, which may be
ahead of everything the manager knows. `OrdersCounted` bounds them by the intents
recorded plus one for a placement in flight, and needs that "Missing" means there
is no order, for which nothing may be on the wire that nobody awaits
(`OnlyAwaited`, no late request). `OrdersKnown` says where an order that is not in
the ledger yet is known: in the answer a placement is about to record.
`Remembered` (nothing evicted) keeps a recorded intent recorded, `Labelled` ties
calls, entries and ids to the intents they were made for, `TruthTold` says that
frames, answers and entries report only trades of the engine, each once. Each
premise (`Roomy`, `Timely`, no fills in acknowledgements) is one the run's property
has or the run's constants give, and each is needed: section 3 lists what happens
without it. `TruthfulLedger` assumes `~AckCarriesFills` (futures), as the run does.
`OvershootBounded` has an invariant of its own (`BudgetHeld`): what is charged,
plus the placements in flight, plus the `reconcile()` calls under way, is at most
the cap, the further ids and the lookups so far. A placement that leaves finds room
for one order and at most the other ids in flight; what ends afterwards only turns
what was counted into a charge. It needs nothing but the types of `IInv`. `Breaker`
shows, action by action, that with the breaker tripped no step adds to
`Outstanding`, the requests waiting to leave or on their way: `Send` moves one from
the first to the second, `Throttled` back, and only `Admit`, which the gateway
guards in `PlaceOrder` and `NotFound`, makes one.

**UserSession.** `SessionInCharge` breaks when the failure of an older start clears
`sessionValue`. `NoneBegun` says that this has not happened unless `overlapped`:
while a closed session is still creating its key, no session runs. `KeyAccounted`
follows the exchange's valid key: it is held by a session, on its way to one, or
being deleted, unless an answer or a deletion was lost. `IdleIsBlank` and
`GivenToCreation` say what a session that was not started has.

**RiskDay.** Gateway and feed keep the day apart, and either may be behind.
`Accounted` says what each has counted in the three cases (same day, gateway
behind, gateway ahead), as long as no fetch spanned midnight; `FetchOfToday` that
the rows under way are of today, `SavedIsRolled` that a snapshot of today was taken
by a gateway of today. The sums need their own lemmas: that the recursion has a
result, the sum of none, of two disjoint sets, and over a ledger that grew.

**AccountView.** `TerminalExact` is about a record, but a record is made from frames
and rows that may be old when they are folded. `QueueTells` says what the frames of
an order amount to: the last one tells its state, and a terminal one is the last.
A terminal record can then only come from the last frame (`RecordEnded`), for the
rows of a snapshot are of open orders; a row folded over a record never ends it.
`FillsKept` finds every fill of an order in its record or among its frames, unless
one was missed. For the position, `Net` counts the lots traded, which bounds every
amount shown. `ViewFollows` says, at each step of a pass, what the view knows or
the pass will tell it. An open order is in the view, or in the rows about to be
folded, as the exchange has it, or else a frame of it is still on its way; that
frame, or a later one, catches up what an older row overwrites. The snapshot's fold is a loop
over the tracker: `FoldKeeps` says that its rows end no record, lose no fill, leave
the orders they do not name alone, and show those they name, but for evictions.

Not proved, checked by TLC only:

* liveness, all of it: `LiveOrGivenUp` (its second half is an action property, checked
  with the first), `PlacementSettles`, `ComesBack`, `GoesLive`,
  `EveryCallEnds`, `KeepsDelivering`, `EventuallyTrips`. The prover handles neither
  liveness under fairness nor `ENABLED`.

## 5. Not modelled

Within the modelled components: price levels and decimal arithmetic, event
payloads, `waitForSync`, `waitForOpen` and `waitForTerminal`; orders other than
limit orders, average prices, transport-level retries of cancels and
lookups inside `HttpClient` (they are idempotent; a create request is never retried
but for a 429 or 418),
transport errors that are neither `NetworkError` nor `BinanceApiError` (they pass
through and record nothing); back-off values, and listeners that call back into
the connection from inside an event. Messages on a REST connection carry no order:
the model lets requests overtake each other.

* *Connection*: nothing calls again where the code gives up: a rotation skipped for
  lack of a URL schedules no other (`RotationTimerNoUrl`), nor does an attempt to
  connect, so `ComesBack`, `StateTruthful` and `LookedAfter` exclude a missing URL.
* *Streams*: one connection, so no `ConnectionPool` choice and no
  `RenewalController` limit; heartbeat probes appear as the replacement they end
  in; `acquire`'s own confirmation timeout only rejects the promise.
* *Calls*: signing, the clock, `session.status`, rate-limit figures. An answer
  with a status of 400 or more means "not executed" in the model, as it does to
  `handleMessage`; whether the exchange keeps to that for a 5xx is not covered.
* *Sessions*: the spot mode, which subscribes over the WebSocket API; the 23-hour
  rotation of the socket, which keeps the key; repeated `start()` calls.
* *Day*: one income type and one asset; rows of the same millisecond (the feed
  skips those that fall on a page boundary, see the findings); position budget,
  leverage cap and the other checks of the gateway.
* *View*: spot, hedge mode and paper reconciliation; quantities are whole lots.

Whole components: see "components" in `PROJECT.json`, each with its reason.
Most of the lines under `src/src` are type declarations of wire formats and
stateless wrappers that build one request; they keep no state and take no
decision, so there is no behaviour in them to model, and the share of the source
the modules stand for is small for that reason.

## 6. Plan

Done: `OrderBook`, `BookEngine`, `OrderExecution`, `WsConnection`, `StreamPool`,
`WsApi` with `Rpc`, `UserSession`, `RiskDay`, `AccountView`, and the proofs above.

Every state invariant of every passing run is a theorem, and so are the action
properties and the refinement of `Rpc`; what is left for TLC is liveness.

Models that could follow: `RenewalController` over several connections, the spot
mode of `UserStreamSession` (a `WsConnection` request after each open), and
`PaperTradingEngine`'s balance identities.
