# WickHunter: a TLA+ model of the trading core

WickHunter quotes passive orders on a thin leg B when the order book of B collapses, and hedges every
fill on a liquid leg A. This directory holds TLA+ specifications of the part of `src/src/wickhunter` that
decides and trades: the local order book and its gate, the order tracker, the adapter to Binance, the
runtime with its circuit breaker, the user data stream, the execution engine with its event log, the
live session that starts and ends them, and the parts beside them: the quote manager, the closing of OKX
positions, the portfolio, the parquet buffer, the discovery of pairs and their backtests. TLC
checks them on small instances; TLAPS proves every safety property of the passing runs, state invariants and
action properties alike, for every value of the constants.

Paths below are relative to `src/src/wickhunter` unless they start with `docs/`.

## 1. The system

| Component | State | Operations | Talks to |
|---|---|---|---|
| `marketdata/orderbook.py`, `synchronizer.py` | `last_update_id`, `_from_snapshot`, bids, asks; `_buffer`, `_synced` | `load_snapshot`, `apply`; `on_depth_update`, `apply_snapshot`, `reset` | fed by the depth stream through `exchange/bridge.py`; read by the signal engine |
| `strategy/signal_engine.py`, `quote_engine.py`, `marketdata/calculators.py` | the synchronizer and a baseline | `generate_quote_plan`: is the book synced, and does `should_arm` hold? | asked by the orchestrator |
| `execution/order_tracker.py` | open and closed orders, status and fill of each, index from exchange ids | `track_order`, `bind_exchange_order_id`, `on_report` | owned by the adapter and shared with the execution engine |
| `core/mature_engine.py` (`BinanceDirectAdapter`) | tracker, `active_quote`, quote manager | `submit_quote_plan`, `submit_hedge_order`, `on_execution_report`, `reconcile_open_orders_strict`, `emergency_stop` | REST requests to the venue, one at a time, each retried in a loop |
| `execution/quote_manager.py`, `throttle.py` | creation times, rolling windows of cancellations | `can_cancel`, `record_cancel` | asked before a cancellation |
| `runtime.py`, `core/orchestrator.py` | `halted`, `emergency_events`, portfolio, last account snapshot | `step`, `on_account_update`, `on_user_report`, `reset_halt` | the breaker, the orchestrator, the backend |
| `risk/circuit_breaker.py`, `risk/checks.py` | the trip and its time | `evaluate`, `reset`; threshold checks | asked by `step` |
| `exchange/binance_live.py` | listen key, keepalive task, stop and restart events, remembered updates, failure count | `start`, `stop`, `_keepalive_loop`, `_on_message` | hands reports to the runtime; cancelled by `run_live` |
| `exchange/binance_futures.py`, `okx_swap.py` | a session | REST requests, streams, depth parsers, `close_position_market` (OKX) | the venues |
| `execution/engine.py`, `common/recovery.py` | a tracker and an append-only log | `track_order`, `on_order_report`, `recover_state`, `request_cancel`, `on_b_fill` | `run_live` recovers at start |
| `execution/hedge_manager.py`, `portfolio/position.py` | positions with average prices | `build_hedge_order`, `on_fill` | the orchestrator and the runtime |
| `storage/parquet_writer.py` | two buffers, the flush task | `record_*`, `start`, `flush`, `stop`, the background loop | the directory it writes to |
| `strategy/discover.py`, `universe.py`, `pair_selector.py` | the universe, `top_pairs` | three discovery cycles | the list of an exchange, price histories |
| `backtest/pair_backtest.py`, `okx_tick_pair_backtest.py` | position, entry, equity, trades | one loop over bars or ticks | scripts |
| `cli/run_live.py` | tasks of a session | wiring, startup reconciliation, cancellation, shutdown | everything above |
| `strategy/` (statistics, state machine), `simulation/`, the rest of `backtest/` and `storage/`, `analytics/`, `common/` (config, logs, metrics, alerts) | mostly none, or batch state | computations and output | not on the live path |

What is hard:

- **Ordering and loss.** Diff events and order reports may be lost, repeated and late. The book must stay a
  book the venue had; the tracker must end up where the venue is.
- **The venue moves between two requests.** An adapter call is synchronous, but an order can fill while its
  cancellation is under way, and the answer to a request that succeeded can be lost.
- **Retries.** Each request is retried; the second one meets what the first one did.
- **One event loop, several tasks.** `start`, its keepalive task, `stop` and a cancellation interleave at
  every await.
- **Half-done steps.** A replay, a reconciliation, an emergency stop and a step of the runtime can fail or
  raise half way.
- **Crashes.** The log is written after the tracker changed; a line may be cut short. A buffer of rows is
  written in the background and lost with the process.
- **Asked before, recorded after.** The rolling limit on cancellations and the closing of a position decide on
  what they read some requests ago.

What makes each component correct: the book is a venue book at its id and a plan is armed on such a book
only (order book, gate); orders only advance and the index is exact (tracker); no phantom fill, no live
quote nobody knows, agreement with the venue once the reports are handled, an honest "ok" from a
reconciliation and from an emergency stop (adapter); a halt for every breach and one stop for every halt, no
hedge without its booked fill (runtime); nothing left behind, nothing handed over twice, `stop` ends and an
expired key is replaced (stream); a session ends, and nothing of it survives (runner); recovery knows every logged order, and the rolling window of
cancellations is
respected (engine, quote manager); a position is not closed twice over (OKX); no recorded row vanishes
unexplained (parquet); a trade reports what its ticks returned, an average price comes from its fills (backtests, portfolio); the pairs to trade are the best there were
(discovery).

## 2. Modules

| Module | Models | Its state and the code's |
|---|---|---|
| `DepthBook` | `LocalOrderBook`, `BookSynchronizer`, the gate of `SignalEngine` | `book`, `buffer`, `synced` are `last_update_id`/`_from_snapshot`/levels, `_buffer`, `_synced`; `plan` is the last `QuotePlan`; `gapped` and `loaded` (the id of the last snapshot taken) are history |
| `VenueMirror` | what a local book promises | abstract: the id and the book shown, and the snapshot they come from |
| `OrderTracker` | `OrderTracker` | one record; the operations are functions of it, so that other modules use them with `INSTANCE` |
| `BinanceAdapter` | `BinanceDirectAdapter` and the venue | `tracker`, `active` (`active_quote`), `call` (the call in progress with its locals), `venue`, `stream` |
| `QuoteManager` | `QuoteManager` as the adapter uses it | its creation times and timestamps; `asking` is the cancellation under way, `taken` is history |
| `RateLimit` | what a rolling limit promises | abstract: a clock and what was taken |
| `RollingWindow` | `_evict_expired` of the throttle, the pruning of the manager | operators |
| `OkxClose` | `close_position_market` of the OKX client, and the venue | `pc` is the await it is in; `qty`, `target`, `net` are its locals; counters of who traded what are history |
| `Runtime` | `WickHunterRuntime`, `CoreOrchestrator`, `CircuitBreaker` | `halted`, `tripped`, `events`, `account`, fills booked/hedged/done; the backend is four booleans |
| `UserStream` | `BinanceUserDataStream`, `stream_user_data` | `task` is where `start` is; events, key, keepalive task, deduplication queue |
| `ExecutionEngine` | `ExecutionEngine`, `PersistentEventLog`, `CancelThrottle` | tracker, the event still to be appended, the lines of the log, `_cancel_timestamps` |
| `LiveSession` | `main` of `run_live`, its health loop and depth task | `main` is where `main` is; `depth`, `health` and UserStream's `task` are the tasks it awaits; `halted`, the attempt of the reconciliation |
| `Portfolio` | `Portfolio`, `Position` | quantity and average price by symbol; the fills are history |
| `ParquetBuffer` | `ParquetEventBuffer` | the buffers, the files by kind and millisecond, the task of each `start` |
| `PairBacktest` | the loops of `run_pair_backtest` and `run_okx_tick_pair_backtest` | their locals |
| `Discover` | `DiscoverEngine`, `UniverseManager`, `PairSelector` | `active_instruments`, `top_pairs`; the inputs of the last cycle are history |
| `MCDepthBook`, `MCBinanceAdapter`, `MCLibrary` | instances for TLC | a venue and a feed; a symmetry set; seven components, one to a behaviour |
| `DepthBookProofs`, `BinanceAdapterProofs`, `RuntimeProofs`, `UserStreamProofs`, `LiveSessionProofs`, `ExecutionEngineProofs`, `OkxCloseProofs` | theorems about the module each is named after | - |
| `Numbers`, `Ordering` | arithmetic and partial sums that several modules share; the elements of a set in order | operators |
| `LibraryProofs` | theorems about `OrderTracker`, `QuoteManager`, `ParquetBuffer`, `PairBacktest`, `Portfolio`, `Discover` | - |

**Composition.** `BinanceAdapter` and `ExecutionEngine` instantiate `OrderTracker` and change their tracker
only by its operators; `TrackerUsedValidly` says that every step of the adapter is a step of the
`OrderTracker` specification (checked and proved), so what is proved of the tracker holds inside the adapter. `Runtime` keeps
of the backend what `BinanceAdapter` has in detail. `LiveSession` instantiates `UserStream` on its own
variables: the stream's actions are its actions, and its cancellation and `stop` are steps of `main`. `DepthBook` implements `VenueMirror`, `QuoteManager`
implements `RateLimit`. `MCLibrary` is a sum, not a product: its initial states choose a `unit`, one of
seven components that share nothing, and only that one moves; so that small components share a run without
multiplying their states. It extends all seven, so that what the run checks are the definitions the theorems are about.

**DepthBook.** The venue is a constant function `Venue` from update ids to books, and an event carries the
absolute sizes of the levels that changed in the ids it covers, which is how both venues define their diff
streams. The model delivers any event at any time, any number of times. `apply_snapshot` replays the buffer
in the order of (U, u): event numbers follow that order by assumption, so the sorted list of the code is a
set here. A replay that raises leaves what the code leaves: the book where it stopped, the filtered buffer,
`_synced` as it was. Prices are integers; the 5 bps and 30 bps tests are exact integer inequalities, and
floating-point rounding at their edge is not modelled. `0.4 * baseline` is the default of the quote engine.

`VenueMirror` knows nothing of buffers, events and replays. A book is loaded from a snapshot and as many updates as continue
it (`Chain`), follows one update that covers its next id, or is thrown away. So `MirrorSpec` adds to `BookIsVenue` the way a
book came about: a venue book reached over a gap, one older than its snapshot, or one taken back by an update is refused.

**BinanceAdapter.** One step is one request with its answer, since the venue can move only between
requests; every handler begins, retries and returns as its code does. A failure is either the request or
the answer that is lost (the venue acted or not), or an error code that is retried or is not. The
requests the client makes (`place_order`, `cancel_order`, `cancel_all_open_orders`, `get_open_orders`,
`get_order_status`) are operators named after it. The venue is external: orders rest, fill by lots,
expire, and push one report for each change; client ids are unique for ever (Binance refuses a duplicate
only among open orders, a difference noted among the hazards). The answers of the quote manager (see
`QuoteManager`), the requote interval and thresholds are a free choice. With the real client
`get_order_status` raises on an HTTP error, so that "-2013" arrives as an exception; the model has both
outcomes, since the adapter handles the payload too. An answer to `cancel_all_open_orders` that is not JSON becomes the HTTP status
as a code (`binance_futures.py:176-179`), and the stop refuses negative codes only (`mature_engine.py:446`): in `CancelAllUnread` a
symbol counts as cancelled whether or not the venue did anything, and `unread` of the call remembers it.

**Runtime.** A method is one step because nothing in it awaits; the clock ticks between steps. Conditions of
the breaker, limits and risk checks are inputs. A call to the backend succeeds, fails or raises. A quote
whose placement the venue took and never answered for is an `orphan`: the backend does not hold it, an emergency stop
with symbols takes it with the rest. A stop may be accepted on an answer nobody could read (`unread`), with nothing cancelled.

**UserStream.** A step is what one task does between two awaits. A cancellation raises in the await `start`
is in, and the model distinguishes them: in the finally block the await on the keepalive task swallows it.
A `stop` before the first step of the task returns at once and is forgotten, because `start` clears the event
(`binance_live.py:45`). After `MaxFailures` failed key requests in a row (1024 in the code) the backoff
`2 ** n` no longer fits a float, and the exception ends `start`. A `stream_event_callback` that raises on `listenKeyExpired`
keeps the restart event unset (`binance_live.py:129-132`) and changes nothing else: that is a behaviour without `KeyExpired`, which no
fairness asks for. The callback of `run_live` counts and logs.

**LiveSession.** `main` goes through the startup reconciliation (each attempt is one step: ok, a failed query,
another failure), the loop, and the `finally` block, which is a step for each await: the health task, `gather`,
`stop`. The depth task ends at a payload the parser refuses, or another exception that is not a `ConnectionClosed`, and no
step of `main` looks at it. (No gap ends it: without a snapshot, which `run_live` never applies, updates are only buffered.) The health loop writes a snapshot or fails to; if it failed, `main` raises out of its `finally`
block and the end of `asyncio.run` cancels what is left. An interrupt is a loop that ends early, like
a duration that is over. Halts come from account updates: `run_live` never calls `step`.

**ExecutionEngine.** A method changes the tracker in one step and appends in the next. A torn line swallows
the record written after it, and reading stops before the first line that cannot be parsed. The events hold
what a reader can use of them: no logged report has a status.

**OkxClose.** Each request is an await: others trade and the venue matches, lot by lot, between any two. A query
that fails is read as a flat position, as `get_net_position_qty` does; a placement is accepted, raced (codes 51169
and 51170), or fails with the order taken or not.

**QuoteManager.** `can_cancel`, the requests, and `record_cancel` are steps of their own with time between
them; a cancellation that fails is not recorded. `time.time()` is taken not to step back.

**ParquetBuffer.** Rows are recorded once each and told apart, so that a batch is a set. A flush writes both buffers at
one millisecond; a write fails, is cut short, or replaces a file of the same name. `start` may be called twice.

**PairBacktest.** The spread of a tick (of log prices) and the return it books (arithmetic, `pct_change`) are two given series,
`Spread` and `Return`, and nothing relates them: the model, like the loops, books returns and reports spreads. That the spreads of
a trade explain its pnl is not claimed; with finite returns it is false. z-scores are an input, whole
numbers or none at all (`Skip`); `skipped` is history. **Discover.** Ratios, correlations and scores are whole percents; the
statistics of a pair, its liquidity penalty among them, are an input, and a symbol may be listed twice, without a name, or with a number that does not parse.
A pair the loops look at is its two places in the universe and its score; as the sort is stable, equal scores stay in the order
of the loops, so that the sorted list is a set in a total order (`Sorting`). **Portfolio.** Quantities and prices are integers and an average
price is an exact fraction, not reduced; symbols and sides are as `step` hands them on.

## 3. Runs

| Run | Question | Distinct states |
|---|---|---|
| `depth_book` | Is the local book always a venue book, are plans armed on venue books only, does a failed replay lose nothing, does the stream never rewind, and is this an implementation of `VenueMirror`? | 2 835 |
| `depth_book_gap` | Does a gap stop the quoting, as `docs/wickhunter_prd.md:211-213` says? **No.** | - |
| `library` | Seven components on their own. Tracker: does any sequence of calls keep open/closed, index and statuses coherent, and move orders forward only? OKX: how much more than asked can be closed, and what does success mean? Quote manager: does it keep the rolling limit? Parquet: where is every row? Backtests: do trades and equity add up to the returns of their ticks? Discovery: are the pairs the best? Portfolio: is the average price one of its entries? | 234 557 |
| `adapter_quotes` | Two quotes of two lots, one after the other: phantom fills, orphans, agreement after the reports, reconciliation, valid use of the tracker. | 293 676 |
| `adapter_restart` | A quote and a hedge on two symbols with a restart: emergency stop over symbols and retries, and that closed orders close here. | 765 078 |
| `adapter_fills` | Does the tracker know every fill once the reports are handled? **No**: -2011. | - |
| `runtime` | Halts, trips, stops, resets and fills in every order. | 1 029 792 |
| `user_stream` | Is anything left behind, handed over twice, or never ended? | 14 287 |
| `live_session` | However a session of `run_live` goes, is nothing of it left at its end, does its last health snapshot show a halt, and does it end unless a cancellation is swallowed? | 26 586 |
| `session_ends` | Does a session that is due end? **No**, when the cancellation is swallowed. | - |
| `execution_engine` | Does recovery know every logged order, and is the cancellation window respected? | 1 058 600 |
| `execution_replay` | Does a replay reconstruct the tracker? **No.** | - |

Properties of each run (all are commented where they are defined):

- `depth_book`: `BookIsVenue`, `PlanFromVenueBook`, `NoUpdateLost`, `StreamNeverRewinds`, `MirrorSpec`.
- `library`: `ClosedIffTerminal`, `IndexExact`, `OrdersOnlyAdvance`; `OvershootIsExplained`, `SuccessIsShrunk`;
  `RateSpec`; `RowsAccounted`; `TradesAreExplained`; `TopPairsRanked`; `AverageIsExplained`.
- `adapter_quotes`: `NoPhantomFill`, `NoSilentOrphan`, `ReportsSettle`, `ReconcileOkIsHealthy`,
  `TrackerUsedValidly`; `adapter_restart`: `StopIsFlat`, `ClosedOrdersClose`.
- `runtime`: `BreachMeansHalted`, `StoppedIsFlat`, `ActiveIsLive`, `FillsAccounted`.
- `user_stream`: `NothingLeft`, `NotRepeated`, `StopEnds`, `ExpiryIsRepaired`.
- `live_session`: `NothingSurvives`, `HealthShowsHalt`, `EndsUnlessSwallowed`.
- `execution_engine`: `RecoveryKnowsOrders`, `CancelWindow`.

**Bounds.** `DepthBook`: seven update ids and four events, one of each dialect (a plain range, an overlapping
range, an OKX id with `prevSeqId`, a Binance range with `pu`), with books that pass through every outcome of
the gate; a gap, a bridge and a replay that fails need two or three events. `MCLibrary`, of the tracker: two orders suffice for
one to disturb another, and quantity 2 gives a partial fill. `BinanceAdapter`: two quotes make a requote with a
predecessor whose reports are still in the stream; two attempts give a first, a retry and a last; two waiting
reports can be a partial fill and an end, or the ends of two orders; one restart. `Runtime`: two fills, two
resets and a clock of three seconds against a cooldown of two, so that a breaker resumes. `UserStream`: one
more update than the window remembers, so that the queue is cut; failures and the log of updates are
bounded. `LiveSession`: two
attempts of the reconciliation, and one update in a stream whose shutdown is the question, not its reports. `ExecutionEngine`: two orders, three lines, a window of two in a clock of four, limit two, so that three grants at the edges
of the window are possible. `OkxClose`: two rounds, two lots asked for, two lots traded by others, so that a whole round can be
closed twice. `QuoteManager`: limit two in a window of two over a clock of six, three full windows.
`ParquetBuffer`: three rows, two milliseconds, two tasks, so that two flushes meet in one name. `PairBacktest`: seven
ticks hold two trades with a skipped tick in each and more, scores lie on and between both thresholds, the spreads
differ, and no two sets of ticks have the same sum of returns, so that a wrong tick shows. `Discover`: three symbols, four lists, two timeframes, five configurations, with ties in
score and volumes. `Portfolio`: four fills open, add, turn and reduce. The bounds are named constants in the guards: `MaxReports`, `MaxRestarts`, `MaxTime`,
`MaxResets`, `MaxLog`, `MaxWal`, `MaxId`, `NumEvents`, `MaxPos`, `MaxOthers`, `MaxClock`, `MaxMs`, `MaxStarts`, `MaxTicks`, `MaxFills`; `MaxFailures` is a
parameter of the code, smaller here. Where a run says
`CHECK_DEADLOCK FALSE` the bounds, or the end of a session, really stop the system.

**Fairness.** `BinanceAdapter`: `WF(CallStep)`, as a request is answered or times out and the loop then goes on;
`SF(on_execution_report)`, as between two calls the event loop reaches the stream again and again, although a call
in between disables it. Nothing obliges the venue, the callers or the operator. `UserStream`: weak fairness of
each step of a task, since an event loop runs what is ready and every request ends; strong fairness of
`CreateOk`, since asking for a key again and again succeeds some day; weak fairness of `Closed`, since the venue
closes every connection within a day. A silent connection is what `stop` waits for: without that last
assumption `StopEnds` is false. `LiveSession` keeps the fairness of
the stream and adds weak fairness of the steps of `main` and of the last turn of the health loop, which the event
loop runs as they become ready; nothing obliges time, the venue or a halt. No other module states a liveness property.

## 4. Findings

1. `depth_book_gap`: a sequence gap raises and nothing else; `_synced` stays set and plans are armed from the
   stale book. The PRD lists an order-book gap among the conditions that stop the machine.
2. `adapter_fills`: a cancellation answered -2011 closes the quote as EXPIRED with nothing filled; if it was
   gone because it had filled, the report of the fill is then an invalid transition, and the fill is lost.
3. `session_ends`: `_cancel_keepalive_task` swallows a cancellation of `start` itself. `main` cancels the task once
   and gathers it before it calls `stop`, so that the session waits for ever; `EndsUnlessSwallowed` shows that
   this is the only way it does not end.
4. `execution_replay`: no logged report has a status, so that recovery brings every order back PENDING.

An order of steps that is no finding, as nothing in the repository promises otherwise, but that a reader should know:
`_trigger_emergency_stop` sets `halted` after the backend's `emergency_stop`, so that a backend that raises leaves
the runtime running. That is the exception in `BreachMeansHalted`. In `run_live` no emergency symbols are
configured, and the backend accepts without a request. More of that kind:

- An emergency stop that says `emergency_cancel_ok` may have cancelled nothing: the page of a gateway (502, 503) is not JSON, its
  status becomes a positive code, and only negative codes fail a stop (`binance_futures.py:176-179`, `mature_engine.py:445-460`). The
  runtime records an accepted stop and halts over live orders. `StopIsFlat` and `StoppedIsFlat` except such answers (`unread`): they say
  that a stop accepted on an answer it could read is flat.
- `close_position_market` takes any shrinking of the position for the effect of its order, and a failed query for a
  flat position; `OvershootIsExplained` and `SuccessIsShrunk` say how far that goes.
- The quote manager counts neither cancellations that failed nor the requests they took, and its `active_quotes` keeps
  quotes that filled.
- A bar backtest reports as the pnl of a trade the equity so far; both loops book the return of the tick they enter on, and skip
  those of ticks whose score is not finite.
- Anchors are upper-cased and compared with symbols as they came; an empty set of anchors allows every symbol, so that a symbol
  can be paired with itself if the range of ratios holds 1.
- A process that starts adopts none of the venue's open orders; orders whose line of the log is torn, rows of a failed write, and
  pairs of a universe that a later cycle left half rebuilt are as lost or stale as the code leaves them. `NoSilentOrphan`,
  `RecoveryKnowsOrders`, `RowsAccounted` and `TopPairsRanked` except them by history variables, or speak of the last cycle that
  returned: the hazards are described there, and what is checked is that nothing else is lost.
- A listen key that lapses while the venue says nothing sets no restart event. `ExpiryIsRepaired` begins with that event.
- A buffer that is stopped before its task's first step flushes nothing, and one started twice keeps a task that `stop` does not know.

## 5. Proofs

Every theorem below is proved for all values of the constants that satisfy the named assumption of its module; TLC
evaluates each assumption in the runs. The assumptions are ranges of numbers (a limit or a window of at least one where
the code's is), sets apart from each other, and, of the adapter, that its ids are finitely many, since the
cancellation of all orders reports them one by one. `DepthBook` alone assumes more: a feed that numbers its events in the
order of (U, u), with `pu` below `U`.

**`DepthBookProofs`**: `TypeCorrect`, `BookFaithful` (`BookIsVenue`), `PlanFaithful` (`PlanFromVenueBook`),
`ReplayLosesNothing` (`NoUpdateLost`), `NoRewind` (`StreamNeverRewinds`) and `Refinement` (`MirrorSpec`).

- The inductive invariant is `TypeOK`, `BookIsVenue` and `PlanFromVenueBook` together. `BookIsVenue` alone is
  inductive but for types; a plan is faithful because the book it was made from is.
- The heart is `ApplyKeepsVenueBook`: if the book is the venue's at `last`, and `n` is accepted, then `last`
  is at least the id before the event and below its end; a level the event does not list has not changed in
  that range, so that it is already right, and the others are set.
- A replay is a loop over at most `NumEvents` events; `ReplaySound` shows by induction on their number that
  its book is a venue book, that it never falls behind the snapshot, and that, if it ended well, every
  replayed event is in the book. The induction theorems of the library take an operator as a
  parameter, which the provers cannot instantiate; the lemma `NatInductionOnSets` states induction over the naturals for a
  set instead (from the well-foundedness of `<`), and is used on the set of numbers of events for which the claim holds.
- An action property follows from the same invariant, action by action. `Refinement` takes the invariant too, and from
  `ReplaySound` that a replay, ended well or not, leaves the book on the `Chain` of its snapshot; `ChainLonger` is one event of it.

**`BinanceAdapterProofs`**: `TypeCorrect`, `NoFillIsInvented` (`NoPhantomFill`), `NoQuoteIsForgotten` (`NoSilentOrphan`),
`ReportsDoSettle` (`ReportsSettle`), `OkIsHealthy` (`ReconcileOkIsHealthy`), `StoppedIsFlat` (`StopIsFlat`),
`TrackerIsUsedValidly` (`TrackerUsedValidly`). None of them is inductive by itself: an answer or a report that arrives
now was true when it was made, and the venue has moved since. The invariant `IInv` says how far apart the two may be:

- `StreamOK`: every report that waits was true when it was made (`StillTrue`), and the last one of each order tells
  what the venue has now (`Current`). `Settled`: what the tracker does not know yet is on its way, unless a report was lost.
- `Behind`: the tracker is never ahead of the venue; `ClosedAsVenue`: what ended here ended so there. The orders
  whose fate is unknown and those closed by assumption are excepted (`excluded`), as in the properties.
- `CallOK`: what the call in progress relies on between two requests: a submitted order is tracked and still PENDING, a
  cancelled one is an open quote, the reports of a reconciliation were true, and what it looked up is closed or unresolved.
- These parts are operators on a tracker, a venue and a stream, so that a step in which first the venue and then the tracker
  moves is two lemmas: `VenueMoves`, `VenueCancelsAll` keep them, then `TrueReport`, `CurrentReport`, `OwnReport`, `NewOrder`.
- `ReportStaysBehind` needs the table of transitions: a late report is refused, or is no news. `TrackerIsUsedValidly`
  comes with it, as each step shows which step of `OrderTracker` it is.

**`RuntimeProofs`**, for any choice of the backend: `BreachHalts` (`BreachMeansHalted`), `AcceptedStopIsFlat`
(`StoppedIsFlat`, of stops accepted on an answer that could be read), `ActiveQuoteIsLive` (`ActiveIsLive`), `NoFillVanishes` (`FillsAccounted`) and `TypeCorrect`. The inductive
invariant is these four, the types, and `HaltHasEvent`: a halted runtime has an event that says how its stop ended.
`FillsAccounted` needs it, since a halted runtime is done with fills it does not
book; the other three hold by induction with the types alone, as a halted runtime submits nothing. Two lemmas carry
the steps: `TriggerEffect`, for every handler that may stop ends in it, and `SubmitEffect`. The types of the breaker and
the books are an invariant of their own (`Rest`); `FirstReason` says that `evaluate` finds a reason to trip for when one holds.

**`UserStreamProofs`**: `StreamLeavesNothing` (`NothingLeft`), `UpdatesDoNotRepeat` (`NotRepeated`), `TypeCorrect`.

- `Clean`: outside the states from a created key to the `finally` block, `start` holds neither key nor task, and in the
  block the task ends before the key. `NothingLeft` follows for every state in which no stop is under way.
- `Remembered`: the queue of the deduplication is exactly the tail of what was handed over, of length `MaxSeen` or all.
  An update that is not in it is at least `MaxSeen` others old, which is `NotRepeated`, for any size of the queue.

**`LiveSessionProofs`**: `SessionLeavesNothing` (`NothingSurvives`), `LastSnapshotShowsHalt` (`HealthShowsHalt`),
`TypeCorrect`. It takes the invariant of `UserStreamProofs` for the stream inside, since each step of the session is a step
of the stream or leaves it alone. `Phases` relates `main` to its tasks: none before the loop, those of depth and health over
when `main` gathers, the stream's over when `main` goes on to `stop` it. `Halts`: a halt that ended the loop stays, and
the health loop does not end before `main` leaves the loop.

**`ExecutionEngineProofs`**: `TypeCorrect`, `RecoveryKnows` (`RecoveryKnowsOrders`), `WindowProtects` (`CancelWindow`).

- `LogOK`: the tracker knows every order whose `order_new` stands before the first line that cannot be read, and the one
  still to be appended; while no append was lost, no line is broken and those are all.
- `ThrottleOK`: the throttle holds the tail of the grants, and those it let go are older than the window. That
  `Leading` of `RollingWindow` cuts exactly the old ones off is `DroppedIsSuffix`.

**`LibraryProofs`**:

- Order tracker, `TypeCorrect`, `ClosedExactlyWhenTerminal`, `IndexIsExact`, `Advance` (`OrdersOnlyAdvance`): the
  invariant is the conjunction of the three state properties and `FreshUntouched`. That a report found by exchange id is
  one of an open order needs `IndexExact`, and that a closed order keeps its status needs `ClosedIffTerminal` with the
  table of transitions.
- Quote manager, `QuoteRefinement` (`RateSpec`): it implements `RateLimit`, by the identity on the clock and the
  cancellations. The invariant has the timestamps kept as the tail of those recorded, the others older than the window, and
  room for one while a cancellation is under way: that is why recording after asking is no race.
  `CancellationsAreSpaced` draws the consequence: any limit + 1 recorded cancellations span at least the window.
- Parquet buffer, `RowsAreAccounted` (`RowsAccounted`): `FlushEffect` says what a flush moves, for every way its writes
  fail; what was due when a stop began is in memory only while a cancelled task has not yet ended.
- Backtests, `TradesExplainTheEquity` (`TradesAreExplained`), for any two series: the gain of a trade is a difference of two partial
  sums of the returns booked, and what the trades made is a partial sum of the gains. `GainsAgree` shows that later ticks leave
  the gains alone, `GainsAppend` that a further trade leaves the earlier sums alone. The invariant adds that the entry holds what the
  trades before it made, and that over ticks the limit was met only at ticks skipped (`EntryExplained`). `HeldStep` treats a
  tick with a position, entered on it or before.

- Portfolio, `AveragePriceIsExplained` (`AverageIsExplained`): the invariant says of each symbol that the position is what the fills
  so far `Booked`: for an open one there is a fill from which on its side is `Explained`. It is stronger than the property in
  that it names the fill; that there is only one such fill is `OpensOnce`, by which the `CHOOSE` of the property picks it. A fill
  of another symbol changes nothing (`OtherExplained`), one that reduces only takes fills from the mean's claim
  (`LessExplained`), one that turns starts anew (`TurnExplained`), and one that adds (`MoreExplained`) leaves the average between the
  old one and its own price (`AverageBetween`, nonlinear and so split by hand) and a mean what it was (`AverageIsMean`).
  `NetSums`, `PaidLonger` and `PaidFirst` say what the partial sums of a longer list of fills are.
- Discovery, `PairsAreRanked` (`TopPairsRanked`): the property is inductive, and all the work is in the step. `UniverseIsOne`: a symbol stands in
  the universe once, although the exchange may list it twice, so that a pair of metas has one pair of places; `ChosenIsScored`: the
  pairs the cycle wanted are then, one to one, the scored ones of its loops; `SortingSorts` and `InOrderSorts`: a strict total order on a finite set makes
  one list of it, without repetition and in order; `BestIsBest`: its first elements are the best.

**`OkxCloseProofs`**, for any number of rounds, any quantities and any trading of others: `OvershootExplained`
(`OvershootIsExplained`) and `SuccessShrinks` (`SuccessIsShrunk`). The invariant keeps one account for each await:

- `Balance`: between two reads the position is the one that was read, but for what traded since. It needs that
  a read that goes on was true, for a misread position is flat and ends the call.
- `Ordered` and `Shrunk` bound from above what is ordered and from below what is closed, by what the target was
  at the read the round began with.
- The heart is `Remainder`, on the second read: a true one says by how much the position shrank, and the balance
  who made it shrink; a misread one says that all of it went, and no more than all of it was ordered.
- Every step of the venue or of others is one `Traded` describes, so that they are proved together.

**Only model-checked.** All liveness: `StopEnds`, `ExpiryIsRepaired`, `ClosedOrdersClose`, `EndsUnlessSwallowed`, and the violated
`SessionEnds`. Liveness under fairness and ENABLED are out of the prover's reach.

**What the proofs do not say.** They are about the exact integers and fractions of the models, not about floating-point numbers
that round. The library's induction theorems take an operator as a parameter, which no installed prover can instantiate; where
a recursive definition had to be known for every input (the replay, the partial sums, the sorted list of a set, the pruned
windows), its values are characterised by induction over a set of numbers instead.

## 6. Not modelled

- Prices and sizes of a plan's quotes, hedge arithmetic, fair value: floating-point arithmetic without
  control. In `Runtime` the portfolio is the set of fills it took; its arithmetic is in `Portfolio`.
- Signing, sessions, parsing of payloads that carry no decision, notifications, metrics, logs.
- `NautilusTraderAdapter` and the interface class: stubs that record what they are given.
- Pair statistics (correlations, half-lives), alpha, analytics, cost and latency models: pure floating-point
  computations. `simulation/` and `strategy/state_machine.py` are used by nothing but tests and the demo; `l2_simulator.py` calls
  the runtime with recorded events, one call at a time.
- The demos, the catalog and schema of the storage, the scripts, configuration, the event bus nothing in the runtime uses.
- The summary statistics of the backtests.
- `on_snapshot` is never called by `run_live`; the model lets a snapshot arrive at any time, as tests and
  other callers do.

## 7. Plan

Modules in the order of their importance; all but the last exist: `DepthBook` refining `VenueMirror`, `OrderTracker`,
`BinanceAdapter` over it, `Runtime`, `UserStream`, `ExecutionEngine`, `LiveSession` over `UserStream`, `OkxClose`,
`QuoteManager` refining `RateLimit`, `ParquetBuffer`, `Portfolio`, `PairBacktest`, `Discover`.

- `LiveTrading`: `LiveSession` with `Runtime` and `BinanceAdapter` in the place of its choices: which reports reach
  the adapter after a halt, and what a restart finds.

No theorem is missing for a safety property the passing runs check. One to come with that module: what an interrupted `LiveTrading`
leaves to a restart.
