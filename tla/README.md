# TLA+ models of CryptoTradingSystem

The repository is a single-process asyncio trading backend: it streams Binance
market data, builds one-minute candles, runs an SMA/EMA crossover strategy, and
trades the signals with each user's own keys on the Spot test network. These
modules model what happens between its awaits: the capital reservations taken
before an order is sent, the strategy positions with their protective orders, the
closing of single orders, the candles and signals, the subscriptions and the
fan-out to browsers, the accounts' keys, and the life of the process that trades.
They are checked with TLC, and every invariant the passing runs check is also a
theorem that TLAPS has proved for every value of the constants.

All paths below are relative to `src/`; `services/` is `backend/services/`.

## Inventory

| Component | State it keeps | Operations | What must be right |
|---|---|---|---|
| Pre-trade risk engine (`services/pretrade_risk.py`) | `_reserved` per (account, asset), `_uncertain`, one lock per key, table `risk_reservations` | reserve, release, mark_uncertain, acknowledge, acknowledge_client, pending, restore | never promise the same capital twice; give it back exactly once; survive a restart |
| Reconciliation (`services/reconciliation_service.py`) | none | reconcile_unknown: bounded queries by client id | never resend, never guess an outcome |
| Order service: placement (`services/order_service.py`) | circuit breaker, history, `_orders` | place_order, query_order, cancel_order, order lists, the reservation sweep | every reserved order is acknowledged, also after a timeout |
| Order service: positions | `_positions`, `_inflight`, `_pending_entries`, `_reconciled_positions`, table `user_positions` | process_signal, process_tick, square_off, position reconciliation, `_enter`, `_exit`, `_resolve_protectives` | one task per key, the limit of open positions, books equal holdings, protectives follow the position |
| Order service: sessions | `_user_sessions`, `_strategy_symbols` | connect, deactivate, enable, restore | keys stay while work or positions need them |
| Order service: square-off and matching | `_squaring_orders`, `_open_order_positions`, `order_matches` | square_off_order, `_record_order_match`, pnl | a lot is closed once |
| Order service: requests | semaphore, failure count, cooldown | `_request_async`, circuit breaker | uncertain outcomes are told from certain ones |
| Persistence (`services/db_handler.py`) | SQL tables, execution lease | row operations, sessions, lease | one process per database; rows match memory |
| Candles (`services/candle_service.py`) | current candle, history per symbol | process_tick, gap filling, bootstrap, boundary loop | one finished candle per minute, in order |
| Strategy (`services/strategy_service.py`) | window, EMA, last relation | seed, process_candle | a signal exactly on a change of relation |
| Market data (`services/market_data.py`) | subscribed symbols and depths, socket | add, remove, reconnect, resubscribe | subscriptions equal wishes after any reconnect |
| Broadcaster (`services/tick_broadcaster.py`) | clients, pending ticks and depths | connect, disconnect, publish, run | the newest value reaches every client, no lost wake-up |
| Stores (`services/tick_store.py`, `order_book_store.py`) | last value per symbol | update, get | newest value |
| Routes, wiring (`backend/api/`, `backend/main.py`) | auth sessions | HTTP, WebSocket, start and shutdown | session checks, start-up order |
| Models, configuration, browser client, migration script | | | no concurrent behaviour of their own |

How they interact: market data calls the candle service and the broadcaster per
tick; a finished candle goes to the strategy; a signal starts one
`process_signal_for_user` task per automated user; every tick also goes to
`process_tick`, which may start exits; entries and exits call `place_order`,
which calls the risk engine, the exchange and the repository. Everything runs in
one event loop; the hard behaviour is what happens *between awaits*: database
calls run in threads and HTTP requests take as long as they take, so tasks of
different signals, the reconciliation loop, sweeps after a login, and user
requests interleave there, requests time out with unknown outcome, the process
stops, and rows and memory must still agree with the exchange.

`PROJECT.json` lists the hazards line by line with the properties that cover them.

## Modules

**`PreTradeRisk`** — one (account, asset) key of the risk engine and everyone who
uses it. A task is a `place_order` call (`Orders`), the reconciliation loop
(`Loops`), a sweep after a reconnect (`Reconnects`) or a user request (`Users`);
`pc[t]` is the await it is at and `job[t]` the answer it is about to acknowledge.

| Variable | Code |
|---|---|
| `reserved`, `uncertain`, `lock` | `_reserved[key]`, `_uncertain`, `_locks[key]` |
| `rows` | table `risk_reservations` |
| `snapshot` | the free balance `reserve` read and has not used yet |
| `order`, `exchFree` | the order in transit or at the exchange, its free balance (external) |
| `active` | the account has a verified session, so the loop sweeps it (`active_execution_user_ids`) |
| `tries`, `todo` | loop state of `reconcile_unknown` and of the sweep |
| `holding`, `repeats`, `denied` | auxiliary: reservations that are counted; released again; given up on an error answer |

`Refuse … SaveFails` is `reserve` step by step (the lock is held over the account
request and the write), `PostReturns, PostTimesOut, PostUnreadable` the three ways
out of the POST, `ServerError` an HTTP error that the code takes for a refusal while
the order may still execute, `QueryAnswers, QueryFails, GiveUp` is `reconcile_unknown`,
`ReleaseBegin, RetainBegin, WriteDone, WriteFails` are release / mark_uncertain /
acknowledge for whichever task calls them, `Sweep…` is
`_reconcile_account_reservations`, `SessionChanges` a user signing in or out,
`UserQuery, UserCancel, AcknowledgeClient` the user's own calls, `Crash` the process stopping anywhere with `__init__` reading the
rows back. FILLED and CANCELED stand for every terminal status, NEW for every
other; amounts are small integers for decimals. An order executes or rests as a
whole, for exactly its amount: partial fills leave the reservation as it is, like
NEW, and a market order's slippage is left out.

**`ReservationLifecycle`** — the abstract promise: an order leaves at most once and
only with a durable reservation, and the reservation goes away only when the order
can take no more capital or the exchange answered with an error.
`PreTradeRisk!LifecycleSpec` is the refinement (`durable` = rows, `submitted` =
orders sent, `settled` = sent orders that are not live any more, `denied` = orders
whose error answer decided nothing).

**`PositionLifecycle`** — the positions of one account. A worker is one task running
process_signal, a risk exit or a square-off, and one worker, `Loop`, is the
reconciliation loop; `worker[w]` records the await it is at, its key, what it found
and the position its exit read. `candidates`, `flat`, `looping` are the loop's keys
still to look at, the one it found flat, and whether it runs. `pos`, `inflight`, `pending`,
`reconciled` are `_positions`, `_inflight`, `_pending_entries`,
`_reconciled_positions`; `saved` is `user_positions`; `session` is whether an
enabled session is in memory, `automated` whether an automation window is open,
`trend` the strategy's relation. `held`, `prot` and `gen` are the exchange: what the
strategy bought and not sold, the protective orders of each entry, the number of
entries. `Spare` is what the account owns of the asset besides.

`SignalBuy, SignalExit, SignalDropped, TickExit, Finish` claim and return keys;
`ReconcileBegin, ReconcileLook, ReconcileExit, ReconcileSkip` are the loop, await by
await: a key whose second check fails is skipped inside the `try`, and the `finally`
discards the claim another task holds. `Buy … OpenPosition` is `_enter` await by
await with every refusal and the emergency sell in full or in part; `ExitStart …
Book` is `_exit` with `_resolve_protectives`; `SavePosition` the row.
Kinds of fault are named in `FaultKinds`: refusals and failures (`stopRefused`,
`queryFails`, `cancelFails`, `saveFails`, …), executed orders whose answer stayed
unknown (`buyLost`, `stopLost`, `takeLost`, `sellLost`), and `breaks`, an exception
that is no `BinanceOrderError` (a database error around an order): it leaves the
entry or exit at once and ends the loop for good (`Dies`). The auxiliary `astray`
names what happened to a key that no later step makes good: `robbed` (its claim was
discarded), `crashed` (a restart lost its work), `lost` (an order without a position
that knows it), `unsold` (an entry's lot left over), `uncancelled` (a protective left
by an exit), `twice` (two orders sold one lot).

Simplifications: each key has a base asset of its own (variants A and B of one
symbol share it in the code); `process_tick`'s exit and a manual square-off are one
action since they claim the key under the same conditions; the balance a sell is
sized by and the one the engine checks are read in one step; the reservation of a
protective ends with the protective (the code waits for the next sweep, which
refuses sells and protectives for longer: `sellRefused`, `takeRefused`); quantities
are whole lots, fees and filters are left out; the process-wide kill switch stays
on; a position closed at the exchange by its protective counts as closed in the
books only when an exit has looked.

**`SquareOff`** — closing one filled order by its opposite (`square_off_order`)
beside the strategy's exit of the same lot, and the three places that remember how
much of an order is open. Quantities are summed by counting units (`Closings`, `Closed`,
`Matched`). `orders`, `base` and `quote` are the exchange (external);
`resting`, `fill` are the native stop of an entry, which locks the lot, and the order
it executed as; `rows` is `order_matches`, `tracked` is `_open_order_positions`,
`squaring` is `_squaring_orders`, `position` and `saved` the open quantity of the
position an entry opened, in memory and in its row; `task[t]` is one request or exit
and the await it is at. `Claim, Query, Matches` lead a square-off to its order;
`StartExit, Look, Cancel` are an exit with `_resolve_protectives`, where a stop that
executed is the exit; `Trigger` is the stop executing at any moment. `Balance, Post,
PostLost, Reconcile` send the closing order and learn what became of it; `Record,
Match, Store` are `_record`, the saved position with `_record_order_match` in memory,
and the table; `WriteFails` and `Restart` the faults; `QueryOrder` the route that
reads an order back. The auxiliary `astray` notes four things that may happen to an
order out of line: `queried` (read back after part of it was closed, which tracks it
in full again), `cut` (the row of a close was lost to a crash, an unknown outcome or
a failed write), `shared` (strategy and square-off closed the same lot) and `raced`
(an exit sold beside its stop: the stop executed after it had been asked for, or
could not be asked for or cancelled). An entry has one protective, the stop
(`PositionLifecycle` has both). The price is one quote unit per base unit, fees are
left out; manual orders fill at once.

**`Crossover`, `CandlePipeline`** — one symbol from ticks to signals. `Crossover` is
the rolling state of `StrategyService` (window, sum, EMA as an exact fraction) with
the reference definition of both averages beside it; `CandlePipeline` is
`process_tick` (`Receive`), `_finalize_due` (`Boundary`), `bootstrap_history` with
its request in flight (`Load…`, `Answer`), the routes that add and remove the
symbol, the clock and the wire. `hist`, `cur` are `_history`, `_current`; `strat` is
the strategy's state. No candle handler yields, so each is one step. Auxiliary:
`fed` (candles since the seed), `told` (the last signal since the seed), `found` (the
first comparison since the seed, which like the seed itself is silent), `crossed` (what kinds of candle gave a signal), `straddled` (a load was answered in
an earlier minute than it took effect in, or met a candle the boundary loop had not
closed). A kline the exchange returned while it was in progress is `partial`.

**`MarketStream`** — the subscriptions of the one market-data connection, with the
depth viewers of the browser sockets. `symbols`, `depth` are `_symbols`,
`_depth_symbols`; `viewers` is `_depth_clients`; `queue` holds the callers of
`_send_streams` in the order of the send lock, each with the connection it looked
up; `conn` is `_websocket`, `link` the connection that is really alive, `subs` what
the exchange sends on it (external). `Dial, Connect, ConnectFails, Disconnected,
Stop` are the stream loop; `Drop` the loss of the connection; `SendOk, SendFails`
one message (`RollBack` is what a request undoes); the other actions are the
routes and the WebSocket handler with its `finally` block (`Close`, `CleanUp`).
Auxiliary: `stale`, `reinstated`, `failed` name the roll-backs that break an
otherwise exact property.

**`TickBroadcaster`** — the fan-out to browser sockets. A value is the number of
the publication it came from. `pending`, `event`, `clients`, `viewers` are the
broadcaster's fields, `pc`, `batch`, `at`, `sending`, `broken` the place in `_run`:
`Wake, Snapshot, Sent, SendRaises, Gathered`. `got` and `since` record what each
browser was sent and what was published before it came.

**`UserSession`** — one account's keys: `stored` (`user_credentials`), `signed`
(`sessions`), `automated` (`user_strategy_symbols`), `window` (`_strategy_symbols`),
`session` (`_user_sessions`). A browser's request runs await by await:
`connect_user_credentials` is `Connect` then `Accepted` or what the request does
without acceptance (`Undo, SignupRefused, Unaccepted`), then the writes; `Raises` is
any exception but `BinanceOrderError`, which ends the request where it is. `Restart`
and `Restore` are `restore_automated_users` and `_restore_open_position_users`, and
`RestoreFails` is stored keys that cannot be decrypted or market data that are
disabled.
`Keys` that may trade, that Binance knows but that may not, and the rest (refused)
differ. Trading itself is only `Enter, Entered, Exited`: `PositionLifecycle` has the
detail. Auxiliary: `answered` (keys Binance accepted), `mixed` (the session was
marked by the answer for another key), `overlap` (the session's connection ran
beside another request), `broken` (a sign-up or update ended in an exception, or its
keys could not be stored), `locked` (start-up did not bring the keys back), `late`
(the entry executed after its session had gone). A database error during start-up
ends the start-up itself, like a restart.

**`EngineLifetime`** — the processes that share one database: `Import` is `main.py`
reading positions, orders and reservations, `Start`/`Refused` the lease,
`Signal`/`Store` execution tasks, `Drain, Drained, Release, End` the shutdown,
`Kill` the process dying anywhere and `LoseConnection` the advisory lock ending with
its connection. `behind` records whose memory lacks a row another process wrote;
auxiliary `early`, `late`, `lost` name the exceptions.

How the modules fit: each takes the others' effect as its input. `CandlePipeline`
gives the signals `PositionLifecycle` starts from; `PositionLifecycle` calls the
engine of `PreTradeRisk` (whose refusals it enumerates) and closes lots that
`SquareOff` closes too (its `Exits` compose the two on one lot); `UserSession` says
when there is a session for either; `MarketStream` composes the market client with
the broadcaster's viewers; `EngineLifetime` says when any of it may run. They share
no state in the code beyond those calls, so they are not multiplied into one.

**`…Proofs`** — theorems. **`MC…`** — values for the constants and symmetry. Operators
whose comment begins with *Mutation* are plausible bugs used to show that each
checked property can fail; no action uses them.

## Runs

| Run | Shows | Bounds |
|---|---|---|
| `PreTradeRisk_safety` | `LedgerExact`, `NoOvercommit`, `DurableWhileLive`, `TypeOK`, `LifecycleSpec` | orders of 3 and 2 over a balance of 4, so either fits and not both, one with a client id; a reconnect sweep and a user; 1 crash, 2 faults |
| `PreTradeRisk_live` | `TerminalReleased` | balance 6 so both orders live at once; the loop, sign-ins and sign-outs; 1 crash, no fault |
| `Position_claims` | `OneWorkerPerKey`, `EntryLimit` | 2 keys, limit 1, the loop and 2 workers, any fault once, 1 crash, 1 logout |
| `Position_books` | `BooksMatch`, `ClaimsEnd` | 1 key, 2 entries, lot 2 (partial exits and emergency sells), the loop and 1 worker, any fault once, 1 crash |
| `Position_protectives` | `LiveSellTracked`, `TypeOK` | 1 key, 2 entries, lot 2, the loop and 1 worker, spare 4 so both protectives fit, any fault once, 1 crash |
| `SquareOff` | `ClosedOnceUnlessAstray`, `RowsTell`, `TrackedTells`, `ClaimsHeld`, `TypeOK` | 2 tasks, 3 executed orders of 2 lots, the strategy's exits and stops, 1 fault |
| `SquareOff_again` ✗ | `ClosedOnce` fails | 1 task, lots of 1, no strategy, no fault |
| `CandlePipeline` | `FollowsHistory`, `RollingExact`, `TrendTold`, `OrderedUnlessStraddled`, `TypeOK` | 2 prices, periods 2 and 2, history and bootstrap of 2, minutes up to 5, 1 tick under way, 2 adds, 1 lost connection, 2 loads at once |
| `MarketStream` | `InSync`, `WithinLimit`, `BooksForViewers`, `TicksArrive`, `StopEnds`, `TypeOK` | 2 symbols, 1 request at a time and 2 browsers, 3 streams (all four do not fit), 1 lost or refused connection |
| `TickBroadcaster` | `NoLostWakeup`, `CauseFirst`, `Arrives`, `TypeOK` | 2 browsers, 3 kinds, 2 publications |
| `UserSession` | `OnlyAcceptedTradeUnlessMixed`, `LiveIsStored`, `KeysForPositions`, `KeysReturn`, `TypeOK` | 2 browsers, a key that may trade and one that may not, 1 restart |
| `EngineLifetime` | `OneEngine`, `EngineKnows`, `TypeOK` | 3 processes, 2 tasks each, everything else unbounded |

✗ marks a statement of the repository that the code does not keep; the finding in
`PROJECT.json` quotes it. The other runs hold.

What the passing properties need as conditions is part of what they say.

- `LedgerExact` and `NoOvercommit` hold while nothing was released twice
  (`repeats`), so the double release is the *only* way the ledger goes wrong.
  `NoOvercommit` and `DurableWhileLive` except an order given up on an HTTP error
  that had decided nothing (`denied`), and `LifecycleSpec` has that step: a 5xx is the
  only thing that costs a live order its reservation. `TerminalReleased` is about an
  account that keeps a verified session from some time on; of the others the loop
  asks for nothing.
- `OneWorkerPerKey` excepts a key whose claim the reconciliation loop discarded
  (`robbed`) and `EntryLimit` also one a restart forgot (`crashed`: a close whose row
  was not stored yet is open again). `BooksMatch` is about a key nothing of `astray`
  happened to, `LiveSellTracked` about one that is not robbed, crashed, lost or
  uncancelled. These are no conditions on the runs: every fault, logout and restart
  may happen to the same key before and after, and each exception is recorded at the
  step that causes it, so the properties say that no *other* step leads there. Each is
  needed: TLC finds the property violated without it, in these runs or (for `robbed` in
  `EntryLimit`) with a larger lot and spare.
- `ClosedOnceUnlessAstray`: an order is closed beyond its quantity for one of the
  four reasons in `astray` and for no other; each of them really leads there.
  `RowsTell` and `TrackedTells` say the table and memory agree with the exchange
  about every order nobody is closing; `RowsTell` excepts only a row that was cut
  off, and the execution of a native stop that the position still has the id of.
- `OrderedUnlessStraddled`: no minute comes twice or out of order, and one is missing
  only behind the fillers gap filling stopped after, unless a load straddled a minute.
  `TrendTold` speaks of the signals since the last seed: a seed changes the standing
  side without one, so a follower has to ask `relation()` then, as its docstring says.
  `RollingExact` has no exception; `FollowsHistory` none as long as
  the history keeps no more candles than one load returns (`config.yaml:42-43`: 120
  of both). With a longer history a load replaces it by fewer candles than it held.
- `InSync` excepts a request that waited for the send lock across a reconnect and
  was undone afterwards, or took a symbol from under its depth stream;
  `WithinLimit` a removal that failed and was undone; `BooksForViewers` a failed
  depth message or the removal of a symbol somebody watches.
- `OnlyAcceptedTradeUnlessMixed` and `LiveIsStored` except two requests of one
  account side by side: the answer that comes later marks whatever session is there.
  `LiveIsStored` also excepts a sign-up or update that ended in an exception (`broken`),
  `KeysForPositions` and `KeysReturn` a start-up that could not decrypt or did not look
  for the keys (`locked`), both only until the next connection.
- `OneEngine` excepts a lost database connection and a candle that closes during
  the drain: the candle service stops after the order service, so the task it starts
  is waited for by nobody. `EngineKnows` excepts an engine that was imported while
  its predecessor was still there.

Why the bounds are enough. Two orders suffice for the ledger because it is one sum
and every hazard is between one order and the rest; two keys with two workers let
two entries compete for the last place, and a third worker, the loop, discard the
claim of either. One fault reaches every error path once; two let an error answer meet
a failed write. Three orders are a lot, its close and
one more close; lots of two make executions partial. Six minutes with a history of
two let a gap exceed the history, a load be answered in an older minute and the
symbol be removed and added again; two prices give every order of the averages,
equality included. Two browsers are the last viewer and the one before it, or one
dead and one living client; two publications are a value and one stored during its
round. Three kinds are enough for the order of sending (a candle before its signal)
and for the kind that only viewers get; ticks and indicators behave as candles do.
One drop separates a request's connection from the next. Three processes are an
engine, its successor and one started beside both.

`CHECK_DEADLOCK FALSE` is set where the model really comes to rest: time, wire and
additions used up (`CandlePipeline`), a stream or broadcaster that was stopped with
all browsers gone (`MarketStream`, `TickBroadcaster`), orders used up and nothing
left to close (`SquareOff`), an account whose sign-up was
cut off before its keys were stored, which login refuses (`UserSession`).

### Known counterexamples

These configurations are not in the run list; run by hand they show a statement of
the repository that the code does not keep, in the same modules. Each checks one
property and TLC reports it violated.

| Configuration | Module | Property | The statement and what happens instead |
|---|---|---|---|
| `PreTradeRisk_double.cfg` | `MCPreTradeRisk` | `LedgerCoversHolding` | `pretrade_risk.py:26` "reserve capital until order acknowledgement": two tasks that saw one order end both release, the second gives another order's capital back (line 105). |
| `PreTradeRisk_loopdies.cfg` | `MCPreTradeRisk` | `PendingReleased` | `README.md:166` "Execution tasks are supervised": one database error ends the reconciliation loop for good (`order_service.py:645`). |
| `PreTradeRisk_servererror.cfg` | `MCPreTradeRisk` | `ReservedWhileLive` | `pretrade_risk.py:26`, the same line: an HTTP 5xx acknowledges nothing, but is no uncertain error (`order_service.py:1356`), so the reservation of an order that may execute is released. |
| `Position_robbed.cfg` | `MCPositionLifecycle` | `NoConcurrentWork` | `README.md:382` "Prevent duplicate and concurrent positions per symbol/variant": the loop's second check fails inside the `try`, and the `finally` discards the claim of the task at work (`order_service.py:682`, `690`). |
| `Position_cancelfails.cfg` | `MCPositionLifecycle` | `FlatHasNoLiveSell` | `README.md:380` "a flat position never keeps a live sell order behind it": a failed cancellation is logged and its id dropped (`order_service.py:1114`). |
| `Position_takeprofit.cfg` | `MCPositionLifecycle` | `BothProtectives` | `README.md:376` "Place both protectives natively at the exchange": the stop's reservation counts twice and the take profit is refused (`pretrade_risk.py:73`). |
| `Position_logout.cfg` | `MCPositionLifecycle` | `HoldingsManaged` | `order_service.py:337` keys are kept while a position is open: an entry under way does not count (line 348). With `MaxCrashes = 1` and no logout: no restart finds a BUY whose row was not written. |
| `Position_racingstop.cfg` | `MCPositionLifecycle` | `NeverOversold` | `order_service.py:1091` "both are checked before submitting any exit order": a stop that fills between its query and its cancellation is missed (line 1107). |
| `Position_flat.cfg` | `MCPositionLifecycle` | `FlatIsClosed` | `order_service.py:656` "closes any open position whose symbol is no longer in an uptrend": a key is marked reconciled before its exit is tried (line 684). |
| `UserSession_mixed.cfg` | `UserSession` | `OnlyAcceptedTrade` | `auth_routes.py:5` an account whose keys cannot be verified "cannot trade until the keys are reconnected": of two overlapping connects the slower answer enables the other's keys (`order_service.py:271`). |
| `UserSession_stranded.cfg` | `UserSession` | `NotStranded` | `auth_routes.py:186` "Do not strand the signed-in account with an invalid replacement": an exception other than `BinanceOrderError` skips the undo, and the unverified keys stay (`order_service.py:260`). |
| `CandlePipeline_fillers.cfg` | `CandlePipeline` | `FillersNeverCross` | `candle_service.py:114` fillers "cannot create a crossover on their own": the averages go on moving while the price stands, and cross or touch. |

The neighbouring cases: `TerminalReleased` fails with `HasClient = {}` (no sweep
looks at an order without client id), and `BothProtectives` with `Lot = 2` and
`Spare = 4` (a partial exit forgets both protectives).

## Fairness

`PreTradeRisk!Fairness`: the event loop runs ready tasks (weak fairness of each
step); `asyncio.Lock` wakes waiters in order, so a waiting task gets it (strong
fairness of entering the lock); the loop comes around every
`reconciliation_interval_seconds` and the exchange, asked again and again, answers
(strong fairness of `SweepQuery` while the account has a verified session, the only
ones the loop goes over). No user acts or signs in and no order fills by fairness.

`PositionLifecycle!Fairness`: a task goes on; a signal task that was spawned
starts. `LoopSpec` adds that the reconciliation loop comes around while it lives.
Prices, users and the exchange owe nothing, and faults are never fair.

`MarketStream!Fairness`: the send lock is handed on in order and the send of the
first caller ends, with an exception if the connection is dead (`SendOk ∨
SendFails`); the stream loop dials, connects and notices a dead connection. Drops
are bounded and nobody subscribes by fairness.

`TickBroadcaster`: `WF(Round)` only. The loop is one task; a `send_json` to a dead
browser ends because the server's keep-alive closes the socket.

`UserSession!LiveSpec`: the restore at start-up ends, with the keys or without, and each
request goes on: every HTTP call has a timeout and every write returns or raises. `KeysReturn` needs nothing of the users.

## Proofs

Every invariant of a passing run is a theorem `Spec => []Inv`, and so is the
refinement of `ReservationLifecycle`. Each proof module has one inductive invariant
in named parts, one lemma per action (or per kind of action) and part, and ends with
the theorems. The step lemmas of a part assume the parts before it.

**`PreTradeRiskProofs`**, for any orders, amounts, tasks and bounds. Three layers.

- `IInv`, what tasks know of orders. Durability alone is not inductive: a row may be
  deleted by a task that got its answer long ago, so a task about to write holds an
  answer (`JobsPresent`), an answer saying *terminal* is still true of the order or an
  error that decided nothing (`JobsTrue`: orders never become live again), and an order still being reserved has
  not been sent (`SentAfterReserve`). From it `StateTypes`, `Durability` and
  `ImplementsLifecycle` (initial states map to initial states, every step to a step of
  the abstract module or a stutter).
- `Control`: who is between taking the key's lock and releasing it holds it
  (`Exclusive`), and from admission until it leaves transit a reservation is counted
  (`Held`).
- `Sound`, the sums: the ledger is the sum of what it holds (`LedgerExact`), the
  balance that `reserve` read and has not used is stale only by reservations that are
  still counted (`SnapshotCovers`), and so what was admitted and is not yet at the
  exchange fits into what is free there (`Committed`). That is the argument for a
  balance read before an await. The sum is the library's fold; the lemmas about it say
  what adding or removing one order does.

Theorems: `LedgerInductive`, `Types` (the reserved sum stays a natural number),
`LedgerIsExact`, `Overcommitment`.

**`PositionLifecycleProofs`**, for any keys, tasks, entries, lots and bounds.

- `IInv` gives `Types`, `OneWorker` and `Limit`: a busy worker's key is in `inflight`
  (so a second one cannot claim it) or was robbed; an entry keeps its place in `pending`
  until its position is open (so opening does not grow their union); an exit finds its
  position open until it books it (so booking never re-opens one). `MovesOn` says what
  all steps of a worker have in common, and that nothing ever leaves `astray`. `CanBuy`
  adds two cardinalities where the property counts a union; the union is never larger.
- `Sound` gives `RestingIsTracked` (`LiveSellTracked`) and `BooksAreTrue` (`BooksMatch`).
  It has two halves: `Idly`, of keys nobody works on, and `Stages`, of keys by the await
  their task is at. For a key that is still `Sure` (not robbed, crashed, lost or
  uncancelled) the first says that every resting protective is known to the open position
  (`Tracked`), the second (`Protected`) which orders may rest: none before the stop, those
  of this entry until the position is open, those of the position until their
  cancellation, none while it sells; and that the position an exit read is still the one
  there is. For a key nothing happened to (`Clean`) they add the account of what is held
  (`Account`, `Kept`). Each action either keeps this or puts its reason into `astray`.

The theorems have no hypotheses but the assumptions on the constants: other holdings,
lost answers, failed cancellations, exceptions, logouts and restarts are all in `Spec`.

**`UserSessionProofs`**, for any browsers, keys and restarts: `Types`, `OnlyAccepted`,
`LiveKeysAreStored`, `KeysForOpenPositions`. The exceptions of the properties are about
requests side by side, so the invariant says what a request that had the account to
itself knows: only logouts run beside it (`Solo`), the keys it works with are the
stored ones unless it brings its own (`Sourced`), and the session has its key unless an
exception ended a sign-up or update (`Carried`). `BootAlone` and `SignupAlone` are why the restore and a sign-up always
have the account to themselves; `Keyless` says what cannot be before keys are stored.

**`SquareOffProofs`**, for any requests, orders, lots and faults, in five layers
(`LotsInv`).

- `Inv`: each claim belongs to exactly one request (`Claims`). Steps that keep what each
  task is about are one lemma; a claim, an end and a restart are the three that do not.
- `Frame`: orders are numbered as they execute, an order closes an earlier one, a
  task's closing order closes its order, memory never has more of an order than it
  executed (`Types`).
- `Guards`: while a native stop rests, and until its execution is booked, the position
  is whole and no exit is past it unless `raced` says so; the row of a position is what
  memory has of it but for the exit between the two.
- `Books`: a closing order has its row, a task that will store it, or an exit still to
  find it (a stop), or lost it to something `astray` names. With *a row repeats what executed* this is `RowsAgree`.
- `Lots`: an order nothing happened to is closed by one square-off, which found it
  untouched, or by exits, each of which took its share from the position; memory tracks
  what is open but for the close being matched. It gives `ClosedOnceProved` and
  `TrackedAgrees`.

Sums of quantities are cardinalities of sets of units, so that one more close adds a
disjoint set.

**`CandlePipelineProofs`**, for any prices, periods, history length and load limit:
`Types`, `Averages`, `Trend`, `InSequence`, `Follows`. `Feed`: ticks arrive in the order
of their minutes, none from a minute to come, and a load was answered no later than now.
`Building`: the candle being built is of no later minute than any tick under way.
`Following`: the strategy's values are those computed from the closes it was fed
(`Exact`), its side is that of the last signal or of the first comparison (`TrendTold`),
history and feed end with the same candle, both are in order and the next candle may
follow them. That the running sum is the windowed sum, and the recursive
EMA the defined one, is an induction over the sequence. The library's induction
theorems take an operator, so `Induct` states induction for a set of numbers and gets
it from the pigeonhole principle for finite sets. `Follows` assumes `History <= Limit`.

**`MarketStreamProofs`**, for any symbols, users, browsers and lost connections.
`Limit`: every way to grow a set checks the limit in the same step, before the message
waits; steps that only take away are one lemma, `FewerStreams`. `Sync` (`InSync`) needs
the queue: among the waiting messages for the connection at hand the last one about a
stream says whether it is wanted, and if there is none the exchange already sends what
is wanted (`Settled`). `Numbered` keeps connections apart: the next one gets a number no
waiting message has. `Books` (`BooksForViewers`) is inductive with the types and the
shape of the queue.

**`TickBroadcasterProofs`**. `Wakeup` (`NoLostWakeup`) from a stronger statement: outside
the sleep, whenever something is pending the event is set; a value stored during a round
leaves it set, and only the sleep that follows its clearing may have it pending without.
`CausesFirst` (`CauseFirst`) from `Ordered`: a signal waits and is taken together with a
candle that is no older (`CandleFirst`), what is pending is newer than all that was taken
or sent (`NewerPending`), and within a round whoever is connected was sent the candle
before its signal or came after both (`CandleSeen`).

**`EngineLifetimeProofs`**: `Types`, `Exclusive` (`OneEngine`), `Knows` (`EngineKnows`) from
`LockHeld` (who believes to have the lease has the lock, unless a connection was lost),
`Supervised` (once the drain is over only late tasks are left) and `Overlap` (only a
process that read the tables while there was an engine can be behind).

What the proofs brought to light: two alternatives of the crossover rule in `Crossover`
overlapped and were made disjoint; the subscriptions are told apart by their callers, so
a user is not a browser (`StreamAssumption`); and `FollowsHistory` rests on two
configuration values no code compares.

The assumptions about constants are named, and TLC evaluates them in the runs of their
modules:
`TaskAssumption`, `ValueAssumption`, `BoundAssumption`, `FiniteAssumption`,
`KeyAssumption`, `StreamAssumption`, `BroadcastAssumption`, `NoProcessAssumption`,
`PeriodAssumption`, `PipelineAssumption`. They are kinds of values, distinctness of model
values and finiteness; `Limit <= MaxMinute` in the last only says that the clock starts
where a first load has history to return.

Only model-checked: the liveness properties `TerminalReleased`, `ClaimsEnd`,
`TicksArrive`, `StopEnds`, `Arrives` and `KeysReturn` (fairness and `ENABLED` are out of
the prover's reach here), and the counterexamples.

## Not modelled

- The request layer (`_request_async`: semaphore, failure count, cooldown) has no
  module of its own: the models take its refusals, timeouts, unreadable bodies, error
  answers and answers as nondeterministic.
- Filters, number formatting and order lists: decimal arithmetic on strings without
  state of its own. Quantities are whole lots, prices do not enter the books. Averages
  are exact fractions: Decimal's rounding at 28 digits is left out.
- A SUBSCRIBE the exchange refuses: `market_data.py:249-252` only logs it, so
  `MarketStream` lets every message that arrives take effect. In `CandlePipeline` the
  removal of a symbol and its UNSUBSCRIBE are one step; the ticks still under way are not.
- Parsing of stream messages, `chart_history`, and the routes that only read.
- `tick_store.py` and `order_book_store.py`: one value per symbol under a lock, only
  read by answers.
- The audit and history tables and the schema of `db_handler.py`: pure I/O.
- The process-wide credentials of `connect_credentials` (account 0), models,
  configuration, the browser client and the migration script.

What would come next: the circuit breaker with its cooldown as a module refining the
"refused or unanswered" of the others, and two keys of one base asset in
`PositionLifecycle`.
