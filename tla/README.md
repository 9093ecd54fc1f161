# TLA+ models of the spread monitor

The program collects the best bid and ask of several exchanges over WebSocket,
computes the arbitrage spread of every pair, pushes it to a React dashboard,
records quotes and spread events in PostgreSQL, and simulates trades. It is one
asyncio process (`src/backend/app`) and one page (`src/frontend/src`). Code runs
without interruption between two `await`s, so an action of a model is the code
from one suspension point to the next; every interleaving of the models is one
of tasks, of the process with the network, the database or the browser, or of
HTTP requests with each other.

Paths below are relative to `backend/app` unless they begin with `frontend` or
`docs`. `PROJECT.json` gives, for every definition that models code, the lines
it stands for.

## 1. Inventory

### Collection

| Part | State | Operations | What is hard | What makes it correct |
|---|---|---|---|---|
| `BaseWsAdapter` (`exchanges/base_ws.py`) | `_ws`, `_run_task`, `_stopping`, `_status`, `_reconnect_count`, local `delay` | `connect`, `disconnect`, `_run`, `_recv_loop`, `handle_message` | a link lost, silent or broken at any await; a server that accepts and drops; `disconnect` during a backoff | dead links are left, nothing of the old connection survives, `disconnect` is final |
| Bybit normalizer (`normalizer/bybit.py`) | the two sides per symbol, known sequence | `handle`, `reset` | deltas over a snapshot; a message that was lost or broken; a side that becomes empty | a quote is a top of book the exchange had |
| Binance and OKX normalizers | none | one conversion per message | formats only | a field lands where it belongs |
| `QuoteCache` (`quote_cache/cache.py`) | quote per exchange, market and symbol; status | `update`, `get`, `snapshot`, `set_status` | numbers of different connections | only out-of-order messages are dropped |
| `SpreadEngine` (`spread/engine.py`, `spread/formulas.py`) | fees | `compute_all`, `update_taker_fee` | quotes of different age, clocks that differ | a valid row comes of fresh, aligned quotes that it prices with fees |

### History

| Part | State | Operations | What is hard | What makes it correct |
|---|---|---|---|---|
| `SpreadEventTracker` (`spread/events.py`) | the open event per direction | `process`, `flush_open` | ticks that fail, equal peaks, shutdown | events are the maximal runs of ticks over the threshold |
| `HistoryRecorder` (`services/history_recorder.py`) | two tasks | `start`, `stop`, sampling, event tick | the final flush beside the writer's shutdown | nothing accepted is lost by a clean shutdown |
| `DbWriter` (`database/writer.py`) | bounded queue, task, `_stopping`, metrics | `enqueue`, `_collect_batch`, `_write`, `start`, `stop` | overflow, failing or hanging database, cancelled shutdown, restart | order, at most once, losses are counted, `stop` returns |
| `RetentionManager`, `PartitionManager` | partitions in PostgreSQL, metrics | `run_once`, its loop | startup order, midnight, a step that fails | recent rows are kept, today has a partition |
| `Downsampler` | aggregate tables | `run` | windows that cut buckets, late rows, downtime | an aggregate is computed from all rows of its bucket, none is missing |
| `BacktestEngine` (`backtesting/engine.py`) | a cache, an engine and a tracker of its own per run | `run`, `_load_ticks` | rows that were never written, a limit that cuts a moment in two | the replay sees the spreads that were live |
| `AnalyticsRepository` (`repositories/analytics.py`) and its routes | none | charts, event list, statistics, export | limits, rounding, a table that grows between pages | an unmarked chart is complete, pages together show every event |

### Delivery

| Part | State | Operations | What is hard | What makes it correct |
|---|---|---|---|---|
| `Broadcaster`, `ConnectionManager`, endpoint | sequence, a queue per client, endpoint suspended in `get` or `send_text` | push, heartbeat, connect, disconnect | slow clients, eviction between two awaits, dead connections | a slow client loses the oldest messages and holds up nobody |
| `useSpreadFeed.ts` | last number, missed counter, rows, pause | `onopen`, `onmessage`, `onclose`, reconnect | reconnects, renders that run updaters later | the counter is what was skipped, rows never go back |

### Simulation and operation

| Part | State | Operations | What is hard | What makes it correct |
|---|---|---|---|---|
| `OrderBook`, `compute_vwap` | levels, sequence, `_synced` | `apply_snapshot`, `apply_delta`, fills | lost, repeated, reordered deltas | a synced book is the exchange's book; a fill is the best one |
| `PaperTradingEngine`, `BalanceManager` | balances, rate limiters | `execute_arbitrage`, balance changes, transfers | other requests between the legs, partial fills, deep books | money is neither lost nor made, no balance is overdrawn |
| `CapitalMonitor` | none of its own | `snapshot`, `rebalance_signals`, `check_direction` | greedy pairing at thresholds | transfers never overshoot, are not asked for twice and lead to within the threshold |
| Testnet client (`testnet/binance.py`) | idempotency cache | `create_order`, status, cancel, retries, `aclose` | lost, late and unreadable answers, concurrent calls | an id is placed once, callers agree on one order |
| Health, time sync, configuration, migrations, dashboard view, backup scripts | none that evolves concurrently | | | see `PROJECT.json`, components |

### Interactions

`main.py` (`lifespan`) connects the adapters, starts the broadcaster, the writer
and the recorder, awaits a first maintenance run and starts the maintenance
loop; it stops them as broadcaster, adapters, recorder, writer, maintenance, database
engine.
Adapters call the cache synchronously (`on_quote`); the recorder, the broadcaster
and the HTTP routes read the cache through the spread engine; the recorder hands
rows to the writer's queue; the writer calls the repository; the maintenance
works on the tables the writer fills. Paper trading and capital monitoring share
one `BalanceManager`.

## 2. Plan

Order of work, the most important behaviour first. Done are 1 to 13.

1. `LossyFifo` (abstract) and `DbWriter` (implements it).
2. `QuoteFeed`: connection loop, normalizer and cache in one module, since the
   properties relate all three; `ExchangeProofs`.
3. `SpreadEvents`: the detector.
4. `HistoryPipeline`: extends `DbWriter` with the recorder and the lifespan;
   `HistoryPipelineProofs`, about the writer, the abstract channel and the composition.
5. `PushChannel`: server, connection and page; `PushChannelProofs`.
6. `OrderBook`, proved about in `ExchangeProofs` beside the feed.
7. `Vwap`: the fill as a pure operator.
8. `PaperTrading` and `MCPaperTrading`, over `Vwap`; `PaperTradingProofs`.
9. `Partitions` and `Downsampling`, with `MaintenanceProofs` about both.
10. `Testnet`: retries, lost answers, idempotency; `TestnetProofs`.
11. `SpreadEngine`, and `SpreadHistory`, which composes it with the cache, the
    detector, the recorder and the backtest; `MCSpreadHistory`, `SpreadHistoryProofs`.
12. `Rebalance`, `Charts` and `EventPages`, checked with `Vwap` by `Calculations` and
    `MCCalculations`; `CalculationsProofs`.
13. `MCParts` (`Testnet`, `OrderBook`, `Downsampling`, `Partitions`) and `MCSimulation`
    (`MCPaperTrading`, `MCCalculations`), which give TLC parts without a common variable
    in one run each.

Left to do: nothing of the plan. Every invariant and every action property of the
passing runs is stated by a theorem; liveness stays with TLC (section 6).

## 3. Modules

Every module names the code of each action in its comments. Operators marked
"Fault" are wrong forms of the operator that follows them; nothing uses them, they
exist to show that a property notices that bug.

**`LossyFifo`** promises what a producer may rely on: rows leave in the order they
came, each at most once, and any row may be lost.

**`DbWriter`**. A row is its number in the order it was offered. `queue`, `task`,
`stop`, `stopping` and `metrics` are the fields of the class; `batch` is the local
of `_collect_batch` and `_write`; `db` is what was inserted. `Enqueue` is one
synchronous call with its three overflow branches. `CollectRow` and
`CollectTimeout` are the two ways a `wait_for` ends, the batch bound and the
drain test included. `StopTimeout` is the `wait_for` of `stop()` running out and
the cancellation of the task, at any point of the batch. `offered`, `stopMark`
and `aborts` are history.

**`HistoryPipeline`** extends it: `phase` is how far `lifespan` has got, `loops`
the tasks of the recorder, `burst` the rows that one synchronous iteration still
has to enqueue (no step of the writer may come between them), `openCount` the
open events. The last phases are the three awaits at the end of the shutdown: of
`writer.stop()` (`stopping`), `retention.stop()` (`maintaining`) and `engine.dispose()`
(`disposing`). `hung` is a database that answers no more.

**`SpreadEngine`** is `compute_all()` as an operator from a cache and a moment to a row
for each direction: stale quotes, unaligned exchange times and too small volumes make a
row invalid, and the net spread is the formula with fees, in hundredths of a percent,
rounded down.

**`SpreadEvents`**. `open` is the tracker's dictionary; `process()` is one action over
the rows of a tick, `Flush` the call of `flush_open()`. `seen` records the ticks with
running totals of the net spreads, and the properties compare the events with the
maximal runs of active ticks in `seen`, computed independently.

**`SpreadHistory`** composes the two with `QuoteCache` and with both users of the
tracker. Live, quotes arrive between the iterations of the event loop, an iteration may
raise, and `Sample` writes the quotes of a moment, of which the writer may lose rows.
After `Stop` a backtest begins with its own threshold and period: `Loaded` are the rows
that `_load_ticks()` and the cut leave, `BacktestTick` is one round of `groupby()`.
`arrivals`, and the `truth` kept beside each sample, are history.

**`QuoteFeed`**. `pc` is where `_run` is suspended (dialling, subscribing, receiving,
backing off), `norm` the normalizer, `quote` the cache entry. The exchange (`book`,
`useq`, `session`, `stream`) is external: it sends a snapshot on each connection and
deltas after it, it may lose the link and restart its numbering. A dead link does not
show when the adapter sends: `Subscribed` is possible on it as well, and only the
receive timeout ends it. A message, and the quote made of it, carry the exchange's book
of that moment as ghost fields, so that a quote whose sides come from different updates
is visible.

**`PushChannel`**. `handler[c]` and `holding[c]` are the suspended endpoint of
connection `c`; `queue`, `clients`, `sequence`, `sinceBeat` are the server's fields;
`lastSeq`, `missed`, `rows`, `paused` the hook's. An updater given to
`setMissedMessages` may run at once or at a later render (`Render`): React runs it
during the call only when the component has no update pending.

**`OrderBook`**. `bids` and `asks` are functions of slots (a side and a price), an
exchange numbers its changes, `published` is its part of the state, `deltas` are in
flight and may be lost, repeated or taken in any order, and snapshots may be older than
the deltas already seen.

**`Vwap`** is `compute_vwap()` as a recursive function over the sorted levels of a side.
**`Rebalance`** is `rebalance_signals()` with the two sorted lists and the greedy
pairing: `Pair` is one iteration of its loop and `Pairing` the loop after each number of
them; amounts are in hundredths, so that percentages of the capital are whole.
**`Charts`** holds `choose_interval()`, the two chart queries and their routes; a row is
its timestamp. **`EventPages`** is a client of the paged event list and the writer that
inserts meanwhile; the order of events of one start is any, and another one for each
statement. **`Calculations`** lets a call be any of these (`CallSpec`: an event list is
read step by step, the inputs of the others are all inputs within the bounds and do not
change) and checks fills against the cheapest (or dearest) way to take the quantity,
signals against what repeating the call would suggest, and charts against the rows of
their period.

**`PaperTrading`**. A leg of a trade (`_place_leg`, with reservation, fill and
settlement) has no suspension point and is one action; the sleep between the legs
is where other trades, `POST /balances` and `POST /transfer` come in. `given` is
history: what the operator put in. A refused or expired buy leg changes nothing
and is a stutter, except that an unfunded one was counted by the rate limiter.

**`Testnet`**. A call is suspended in a request (`waiting`) or in a backoff. `wire`
holds the attempts that were sent and not handled: the exchange may handle one after the
client has given up on it, or never. A 2xx whose body cannot be read (`Unreadable`) ends
the call by an exception: nothing is remembered of an order that was placed. An order is
its number at the exchange. Its policy on a repeated id is left open: it may place a
second order or refuse. `doubtful` and `overlaps` are history: attempts that ended
without a verdict, and calls begun beside another one of their id.

**`Partitions`**. Time passes in half days. `run_once()` is split at its database
sessions, each a transaction; `current` is read at its start. PostgreSQL is
external: a row goes to the partition of its day or to the default one, and a
partition cannot be created when the default one has rows of it.

**`Downsampling`**. One level and one series; an aggregate is the set of rows it was
computed from, which determines high, low, average and count. `StartRun` is the first run
after a start: the application may have been down for any time before, and the rows that
the writer held are gone.

## 4. Runs

One run for each component that has liveness or a composition of its own, safety and
liveness together. The others are checked in two runs, `parts` and `simulation`: their
modules have no variable in common, a behaviour is one of a single part (`part`) and the
others stay as they began, so that each part is explored exactly as it would be alone.
Five runs expect a violation: each checks what a document or a comment of the program says
and the code does not do. `CHECK_DEADLOCK FALSE` is set where the bounded behaviour ends
(every row offered, every day passed, every call made) or where the process may be stopped
for good. The inputs of `Calculations` other than an event list have no steps and stutter.

| Run | Instance | Shows |
|---|---|---|
| `writer` | queue 2, batch 2, five rows, two shutdowns, `drop_oldest` | order, every eviction counted, drain before a clean stop, implementation of `LossyFifo`; each accepted row is settled |
| `pipeline` | queue 2, five rows, two rows per sample, two open events, one aborted shutdown, `drop_newest` | the shutdown order loses nothing; a shutdown ends unless the database hangs in what is awaited after the writer |
| `feed` | two levels, two updates, two reconnects, one restart of the exchange, one broken message | the normalizer is reset; quotes are real; only old messages are dropped; the cache catches up; dead links are left; `disconnect` is final |
| `spread_history` | two exchanges, one with three prices, another clock and another fee; three moments, one failing tick, one sample with lost rows, a backtest of four rows at most with another threshold | events are the maximal runs, live and replayed; a backtest sees what was live; valid spreads come of fresh and aligned quotes |
| `push` | two pages, one of which may stop reading, two connections, one of which may break, four messages, one pause | queues keep the newest, the counter is exact, rows never go back, the last message arrives |
| `parts`: `OrderBook` | one bid and one ask slot, two quantities, three changes | a synced book is exact |
| `parts`: `Partitions` | five days, two days ahead, one failure | today is covered while runs succeed; recent rows are kept |
| `parts`: `Downsampling` | buckets of 3, lookback 6, margin 2, a run every 7, 13 moments, one restart after any downtime | whole buckets of the last window are exact |
| `parts`: `Testnet` | two order calls with one id, a status or cancel call, one retry each, `aclose` at any time | what each order beyond the first comes of, callers agree, results are real, calls end |
| `simulation`: `PaperTrading` | two exchanges, two interchangeable trades, books of two levels, one operator change, two seconds | ledger of both assets and reservations; only the depth of a book overdraws a balance |
| `simulation`: `Calculations` | books of three prices; three exchanges, all allocations in tens; three intervals, samples of eleven moments; four events, pages of one or two | fills are the best, rebalancing never overshoots, charts are complete, pages miss only ties |
| `writer_loss` (violated) | as `writer` | a cancelled batch is in no count |
| `paper_partial` (violated) | as `simulation` | a partial sale takes base assets that were not sold |
| `testnet_repeat` (violated) | two order calls with one id, no retry | repeating a call after a timeout places a second order |
| `rebalance_gap` (violated) | three exchanges, threshold 10 | an exchange stays 20 percent below its target and nothing is suggested |
| `caught_up` (violated) | buckets of 3, lookback 6, margin 2, a run every 7, no restart | buckets between two runs are never aggregated |

**Why these bounds.** Queues and batches of two are full, half full and empty within a
few steps, and five rows overflow the queue around a batch in flight; two of each actor
(directions, trades, connections, pages) give each pair of interactions. Two reconnects
let state of the first connection meet the third. Of four messages one can arrive, two
wait, and one evict. The book needs one slot of each side, since slots never interact,
and three changes for a loss, a repetition and a reordering at once. For `Partitions`
five days are more than the window of four, so that the first partitions expire and
their days return to nothing; the retention is one day in place of seven. For
`Downsampling` a run every 7 with a lookback of 6 has, as every accepted configuration
has, an interval longer than the window. Three moments are enough to open, move and
close an event, with a quote that ages past the limit of two; a limit of four rows cuts
the third moment of a backtest in two or ends it between two moments. One retry is a
first attempt, a last one and a backoff between them, and the second order call can
repeat, overlap or follow the first. Pages of two with four events let an insertion
shift a page that was read. Real sizes (a queue of 100, a window of an hour) differ by
scale only: no code compares a size with anything but its bound.

**What the code does not do.** Five runs refute what a document or a comment says, and
several properties carry a condition, because without it TLC finds a counterexample that
the code really has:

- Violated (`writer_loss`): `writer.py:6` says that all losses are counted, and
  `docs/phase-2/README.md:13` that a stop that times out logs the number of lost rows. It
  logs the size of the queue (`writer.py:101`); the batch of the task it cancels is in no
  count. `DropsCounted`, which holds, is about what the queue gives up. A failed batch
  is logged with its rows (`writer.py:142`) and counted as a batch, not in rows; the theorem
  `LossAlwaysBounded` says that the rows in no count are at most one batch for each
  failure and each shutdown that timed out.
- `ShutdownCompletes` allows a shutdown to stay where it awaits `retention.stop()` or
  `engine.dispose()` when the database hangs: unlike `writer.stop()`, neither has a timeout
  (`main.py:236`, `main.py:238`).
- `OnlyOldDropped` and `FeedCatchesUp` need `restarts = 0`: after an exchange has
  restarted its numbering, the cache compares numbers of two connections and drops
  newer messages until the old number is passed (`quote_cache/cache.py:36`).
- `QuoteWasReal` needs `broken = 0`: the normalizer does not compare update numbers,
  so after a message that could not be parsed the next delta is merged into a stale
  side (`normalizer/bybit.py:59`).
- `MissedIsExact` leaves out pages for which React ran an updater at a later render:
  the updater reads `lastSeqRef` after it has moved on (`useSpreadFeed.ts:56`).
- `OverdraftIsExcess` allows an overdraft: the reserve is taken at the best price,
  and a deeper fill costs more (`paper_trading/engine.py:221`).
- `TodayCovered` needs `AheadDays` of at least two, the default: with one, which
  the configuration also accepts, the maintenance loop slides past a midnight
  (24 hours of sleep and the length of the runs) and a day begins without a
  partition.
- Violated (`caught_up`): `retention_manager.py:4` says that the maintenance catches up with the
  downsampling. A run looks back one hour (`main.py:179` gives no other), while the interval
  is an hour or more (24 by default) and the margin five seconds, so in every accepted
  configuration there are rows between two windows that no run aggregates
  (`services/downsampler.py:91`). The trace needs no restart; a downtime longer
  than the lookback has the same effect.
- Violated (`paper_partial`): `settle()` is described as
  taking what was really spent, but a sale that fills in part is charged its whole
  quantity (`paper_trading/engine.py:244`, `balance.py:54`). `LedgerExact` states
  what the code does: what was bought is credited nowhere, and fees are reported but
  change no balance.
- A row that is written before the first `run_once()` has created the partition of its
  day goes to `quotes_1s_default`, and that partition can then never be created:
  the writer and the recorder are started before (`main.py:210-216`). The comment in
  `main.py:215` and `docs/phase-2.1/README.md:63` take the opposite for granted.
  `TodayCovered` therefore speaks of runs that succeed.
- Violated (`testnet_repeat`): the docstring of the client (`testnet/binance.py:22`) calls it safe
  to repeat a call after a timeout, but the cache is written only after an answer
  (`testnet/binance.py:182`): when the exchange accepts an id again, which it does once the
  first order is filled, the repeat of a request whose answer was lost places a second
  order. `DuplicatesExplained` says what else can and cannot: one order more for each
  attempt without a verdict (a transport error, a 5xx, a 2xx that `json()` or
  `_parse_order` cannot read) and for each call that overlapped another, and none from
  refusals, late requests or closing. `timeout_s` is stored and
  never used, so the time limit of a request is that of `httpx`; the signed timestamp is
  made once for all attempts.
- Violated (`rebalance_gap`): the docstring of `rebalance_signals()`
  (`capital/monitor.py:115-119`) promises transfers until the allocation is within the
  threshold of its target. Only exchanges beyond the threshold are paired: with
  deviations of +10, +10 and -20 percent and a threshold of ten nothing is suggested.
  `RebalanceSettles` states what the transfers do achieve. It counts totals, while a transfer
  is debited from what is available; reservations last no longer than a leg.
- `ReplayIsLive` speaks of moments all of whose rows arrived. A lost row, or the limit of
  rows, leaves the older quote of that exchange in the cache until its next row.
- `ClosedAreRuns` counts ticks, not time: an event goes on over a gap in the rows, live
  when iterations fail and in a backtest when the program was not running.
- `ChartsComplete` allows the automatic interval to lose one row (`repositories/analytics.py:50`
  rounds down), and assumes the default sampling interval of a second: with
  a smaller one, which the configuration accepts, the raw level holds more rows than
  `choose_interval()` counts on, and the chart is marked as truncated.
- `PagesMissOnlyTies` allows an event to be missed that starts together with one that was
  shown: the query orders by the start alone (`repositories/analytics.py:294`).
- `WindowWhole` speaks of buckets that lie within the window: the one the window
  begins in is replaced by an aggregate of its later rows (`downsampler.py:57`).

## 5. Fairness

- `DbWriter`: weak fairness of the task's steps and of `stop()`, because the event
  loop runs a ready task and a timed wait ends, and of the flush, which succeeds or
  fails; `RowsSettle` needs it.
- `HistoryPipeline` does not assume that a flush ends: the timeout of the `wait_for` in
  `stop()` is what gets the shutdown past the writer, and the cancelled task ends. The steps
  of the lifespan are weakly fair; `retention.stop()` and `engine.dispose()` return
  only as long as the database has not hung. `CancelEventLoop` is strongly fair, since each burst of
  the event loop disables it for a moment: the cancellation is delivered at the next
  suspension point of the loop, which comes again and again.
- `QuoteFeed`: the loop's own steps, each timer and the receive timeout on a dead
  link are fair, `disconnect()` goes on once its close has timed out, the exchange answers a subscription with a snapshot, and a dial ends
  one way or the other; dialling succeeds in the end only because link losses are
  bounded. Nothing makes the exchange change its book.
- `PushChannel`: endpoints are tasks and are fair; pages are fair unless they are in
  `Slow`; pushes are not fair.

- `Testnet`: for each call, an attempt ends in some way (an answer or `httpx`'s own timeout) and
  a backoff ends. The exchange owes no answer.
- `SpreadHistory`, `OrderBook`, `PaperTrading`, `Partitions`, `Downsampling` and `Calculations` state
  safety only.

## 6. Proofs

The theorems hold for every value of the constants that the named assumptions of the
modules allow (sizes are natural numbers, some positive, an id exists, the levels of a
side are finitely many). Each rests on an inductive invariant: the initial states satisfy
it, each action keeps it (one lemma per action or group of actions), and it implies the
property.

**`HistoryPipelineProofs`**, the writer. The order of rows is inductive with the type
invariant, once it says that every row is at most `offered`. That drops are counted and
the loss is bounded (`Accounted`) needs that a batch holds at most `BatchMaxRows` rows,
that a row leaves the queue only into the batch or into `dropped_total`, and the ranges
of the counters. The drain property needs that while the task is past its last test and
stopping, whatever is queued was offered after `stop()` (`ShutdownInv`).
`WriterImplementsLossyFifo` maps the batch followed by the queue to the content of the
abstract channel: each step of the writer appends to it, removes from its front, loses
from it, or leaves it.

The composition. `PipelineImplementsWriter` shows each step of it to be one of the writer
or to leave the writer alone, so the writer's theorems hold in it. `Stages` says how far
the shutdown has got in each phase, `WriterEnd` that a writer that ended without an abort
has drained, and `WrittenIsStored` that the database holds what was counted as written as
long as no batch failed; from them follow `NeverARowAfterStop` and `ShutdownNeverLoses`.

**`ExchangeProofs`**, two independent specifications of what is kept of an exchange's
book. A quote of the feed is real because the messages in flight follow one from the
other without a gap, from what the normalizer has applied to the exchange's book
(`InStep`); a lost link empties the stream and the next connection begins with a snapshot.
`Numbered` ties the numbers to the changes while the exchange has not restarted, and
`Local` what the adapter has seen of the connection it is on.

For the order book, `SyncedIsExact` is not inductive: a delta in flight must carry what
the exchange changed at its number. The conjunct `DeltasAreComplete` says so; with it, a
delta that follows the book's number takes an exact book to an exact book, and all others
are ignored or make the book unsynced.

**`PushChannelProofs`**. What is on its way to a page (the wire, the payload its endpoint
holds, its queue) is in ascending order and newer than what it received (`InOrder`); a
connection never used has nothing on its way (`Unused`), hence what it will deliver is
newer than the rows on display (`Pages`). `Counted` states the counter as the size of a
union of intervals, one for each gap; a message that arrives adds the stretch since the
last one, which is disjoint from the others.

**`SpreadHistoryProofs`**. A sample is the cache of its moment less the rows it lost
(`Sampled`), samples are in order (`Ordered`), and what one holds any whole later one holds
as well (`Growing`); so the replay's cache, which holds at most what earlier samples held
(`Replaying`), is after a whole sample the live one of that moment. For the detector,
`OpenIsRun` says that an open event is that of the one run lasting until the last tick,
and `EventsOfRuns` that the closed ones are those of the runs that ended. That a
stretch of spreads has a peak at all, which TLC sees by evaluating `CHOOSE`, is an
invariant of its own (`PeaksExist`).

**`CalculationsProofs`**. The calls of `Calculations` with an input of their own have no
steps; their theorems are about operators, for every input. Loops and sums need
induction. The library states it with an operator as a parameter, which the provers
cannot instantiate, so it is used in its other form: a set of natural numbers that is
not empty has a least element (`Smallest`, from the well-foundedness of `<`), hence a
set with 0 and every successor has them all (`Inductive`). From it follow what a sum
over a finite set is, element by element (`SumRemove`, `SumCompare`), and that a finite
set can be sorted (`SortedExists`).

*Fills.* What `compute_vwap()` returns goes by induction over the levels (`FillOfLevels`:
filled and remaining add up to what was asked for, and a side with a level fills
something; `LoopIsGreedy`: the levels before the last one touched are taken whole, those
behind it not at all). Any other way to take the same quantity takes less before that
level and more at it or behind it, where no price is better, so its cost, compared price
by price with that of the level in between, is no better (`Cheapest`).

*Rebalancing.* `Settling` is the invariant of the loop: the exchanges before `i` and `j` are
settled, the others are not, the signals account for every difference, and every signal
but the last has settled an exchange. Each iteration settles an exchange or finds a list at its
end (`PairSettles`), so after as many as there are exchanges one list is settled whole.
The transfers leave the capital as it was, the settled side is then at its targets and
the other not past them, so the next call has an empty list (`RebalanceIsSettled`).

*Charts.* A query keeps the rows of a period whose rank is below the limit (`Ranks`), and
asks for one row more than it may return; that row is there exactly when something is lost
(`OneMoreRow`). A spread chart needs both sides at once (`TwoSides`): a moment of both that
was lost makes one of the two queries exceed the limit. That the automatic interval loses one
row at most follows from the division: rows that lie an interval apart are in
different quotients (`RowsFit`).

*The list of events* has steps. `Deeper` says that an event of which no other of its
start was shown has at least as many newer events before it as the pages have shown, so
that the last page was full. An insertion only pushes it deeper; a page that ends before
it shows a full page of newer ones (`NewerComeFirst`: in every order the database may
choose the newer events are exactly the first ones). So a page that is not full has left
out only ties.

**`PaperTradingProofs`** uses the facts about fills. `reserve()` and `settle()` of a leg
cancel because nothing was reserved before it. The ledger counts units, so that it can be
proved without sums: a purchase adds the units `{t} \X 1..paid` to what its buyer has paid,
disjoint from all others, and a sale does the same for its seller (`BooksOpen` keeps the
sets finite). A base balance never falls below zero, since the quantity sold is what is
reserved; a quote balance does only by the excess of a fill, and while it is overdrawn its
exchange can buy nothing, so that every other step makes the overdraft smaller.

**`MaintenanceProofs`**, two independent specifications. For the partitions, `RunDates`
says how long ago the last run began and that `current` is the day it began on, which
bounds what a run drops; `Covered` says which days the runs leave with a partition. The
theorem about today needs two or more days created ahead; the configuration also allows
one, for which `TodayCovered` is false. For the downsampling, `Recent` says that the
writer holds no row older than the margin; so the rows of a bucket that ended a margin
before a run were all there, and a row that comes later belongs to none
(`LateRowsAreNew`). `WindowAlwaysWhole` assumes that rows are late by no more than the
margin (`MarginSuffices`), and nothing of the interval, the lookback or a downtime.

**`TestnetProofs`**. Results are real because the answers that wait for a call are
(`RealAnswers`), and orders keep their id and stay cancelled. The callers agree because
of `Undisturbed`: while no calls of an id have overlapped, a running order call of it is
the only one, and no earlier call of the id was given an order. `Account` bounds the
orders of an id: each one, and each attempt still on the wire, is paid for by a call
that may yet return it, by a doubt (an answer that cannot be read is one), or by an
overlap. The exchange is as in the model, which lets it accept or refuse a repeated id.

**Only model-checked.** The liveness properties (`RowsSettle`, `ShutdownCompletes`,
`FeedCatchesUp`, `LossNoticed`, `DisconnectFinal`, `LatestReaches`, `CallsEnd`), which
rest on fairness and `ENABLED` and are out of the prover's reach. `LossesCounted`,
`OnlySoldLeaves`, `SafeToRepeat`, `WithinThreshold` and `CaughtUp` are false.

## 7. What the models leave out

- Decimal arithmetic: prices and quantities are small whole numbers, the net spread is
  rounded down, and the rounding of amounts to 28 digits in `rebalance_signals()` is left out.
- `asyncio.wait_for` of CPython before 3.12 may swallow a cancellation that arrives
  together with a result; `StopTimeout` and the stops of the other tasks take a
  cancellation to end the task.
- `Broadcaster.stop()`, which ends the process a moment later, `subscribe()` and
  `cancel_order()`, which nothing calls, and the keepalive, whose interval is longer
  than the receive timeout of the default configuration.
- The feeder of `OrderBook`: the program has none yet, so its environment is any
  channel.
- The wall clock stepping back, which the rate limiter and the freshness checks
  would see.
- `check_direction()`, which has the guards of the two legs; the statistics and the CSV export
  of the analytics and the count that goes with a page, which are SQL; deletion of spread
  events, which is off by default. `quote_asset` of a trade is that of its symbol.
- The order limit of a second is modelled and bounded, but no property speaks of it: a
  refused order changes nothing else.
- Health, time sync, the stateless normalizers, rendering, formatting, logging, shell scripts.
