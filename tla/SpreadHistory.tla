---------------------------- MODULE SpreadHistory ----------------------------
(***************************************************************************)
(* One symbol's quotes through the program and back: QuoteCache and        *)
(* SpreadEngine, read live by the two loops of HistoryRecorder             *)
(* (services/history_recorder.py), and BacktestEngine                      *)
(* (backtesting/engine.py), which replays the recorded rows through an     *)
(* engine and a tracker of its own.  The phases follow each other: the     *)
(* recorder runs and stops, then one backtest runs.                        *)
(*                                                                         *)
(* A moment is one iteration of the event loop; quotes arrive between the  *)
(* iterations.  A recorded row may be lost by the writer's queue.          *)
(*                                                                         *)
(* Operators marked "Fault" are mutated forms of the one that follows.     *)
(***************************************************************************)
EXTENDS SpreadEvents, FiniteSetsExt

CONSTANTS
  MarketBooks, (* per exchange: the top-of-book states it may show         *)
  Lag,         (* per exchange: how long before its arrival a quote's own time is *)
  BacktestThresholds, (* values of BacktestParams.spread_threshold         *)
  MinDurations, (* values of BacktestParams.min_duration_ms                *)
  MaxRows,     (* backtest.max_ticks_per_run                               *)
  MaxMoments,  (* bound: iterations of the live event loop                 *)
  MaxFails,    (* bound: iterations that raise                             *)
  MaxLosses    (* bound: samples of which the writer loses rows            *)

ASSUME BooksAssumption == MarketBooks \in [Exchanges -> SUBSET Books]
ASSUME LagAssumption == Lag \in [Exchanges -> Nat]
ASSUME LimitAssumption == MaxRows \in Nat \ {0}

VARIABLES
  phase,   (* "live" or "replay"                                           *)
  cache,   (* QuoteCache._quotes of the phase                              *)
  arrivals,(* history: the quotes that arrived, with their exchange        *)
  samples, (* live: the moments sampled into quotes_1s;                    *)
           (* replay: those that the backtest loaded                       *)
  fails, losses, (* iterations that raised, samples that lost rows         *)
  report   (* BacktestResult of the replay, once it has ended              *)

vars == <<threshold, open, closed, now, task, seen,
          phase, cache, arrivals, samples, fails, losses, report>>

liveVars == <<phase, arrivals, fails, losses>>

HistoryInit ==
  /\ Init
  /\ phase = "live"
  /\ cache = [e \in Exchanges |-> NoQuote]
  /\ arrivals = {}
  /\ samples = <<>>
  /\ fails = 0 /\ losses = 0
  /\ report = [done |-> FALSE, truncated |-> FALSE, events |-> {}]

-----------------------------------------------------------------------------
(* Live.                                                                   *)

Recorded == {e \in Exchanges : cache[e] # NoQuote}

(* Any of the exchanges send a quote: QuoteCache.update().                 *)
QuotesArrive ==
  /\ phase = "live" /\ task = "running" /\ now < MaxMoments
  /\ \A e \in Recorded : cache[e].at < now
  /\ \E new \in SUBSET Exchanges \ {{}} :
     \E news \in [new -> UNION {MarketBooks[e] : e \in new}] :
       LET quote(e) == [book |-> news[e], at |-> now, ets |-> now - Lag[e]]
       IN  /\ \A e \in new : news[e] \in MarketBooks[e]
           /\ cache' = [e \in Exchanges |-> IF e \in new THEN quote(e) ELSE cache[e]]
           /\ arrivals' = arrivals \cup {<<e, quote(e)>> : e \in new}
  /\ UNCHANGED <<trackerVars, phase, samples, fails, losses, report>>

(* process_events_once(). *)
EventTick ==
  /\ phase = "live" /\ now < MaxMoments
  /\ Tick(ComputeAll(cache, now + 1), now + 1)
  /\ UNCHANGED <<phase, cache, arrivals, samples, fails, losses, report>>

(* compute_all() raises: the iteration is skipped, open events stay open. *)
EventTickFails ==
  /\ phase = "live" /\ now < MaxMoments
  /\ task = "running" /\ fails < MaxFails
  /\ now' = now + 1
  /\ fails' = fails + 1
  /\ UNCHANGED <<threshold, open, closed, task, seen,
                 phase, cache, arrivals, samples, losses, report>>

(* The rows of a moment, those lost left out, and what was live then.      *)
SampleOf(kept) ==
  [at |-> now, kept |-> kept,
   quotes |-> [e \in Exchanges |-> IF e \in kept THEN cache[e] ELSE NoQuote],
   whole |-> kept = Recorded,
   truth |-> ComputeAll(cache, now)]

(* Fault: stale quotes are not written. *)
SampleFresh ==
  /\ phase = "live" /\ task = "running" /\ Recorded # {}
  /\ \A i \in DOMAIN samples : samples[i].at < now
  /\ LET fresh == {e \in Recorded : ~IsStale(cache[e], now)}
     IN  samples' = Append(samples, [SampleOf(fresh) EXCEPT !.whole = TRUE])
  /\ UNCHANGED <<trackerVars, phase, cache, arrivals, fails, losses, report>>

(* sample_quotes_once(): a row for each exchange in the cache, stale ones  *)
(* included, all with the same timestamp.  Losing all of them is the same  *)
(* as not sampling.                                                        *)
Sample ==
  /\ phase = "live" /\ task = "running" /\ Recorded # {}
  /\ \A i \in DOMAIN samples : samples[i].at < now
  /\ \E kept \in SUBSET Recorded \ {{}} :
       /\ kept # Recorded => losses < MaxLosses
       /\ losses' = IF kept = Recorded THEN losses ELSE losses + 1
       /\ samples' = Append(samples, SampleOf(kept))
  /\ UNCHANGED <<trackerVars, phase, cache, arrivals, fails, report>>

(* stop(): the tasks are cancelled and flush_open() runs. *)
Stop ==
  /\ phase = "live"
  /\ Flush(now + 1)
  /\ UNCHANGED <<phase, cache, arrivals, samples, fails, losses, report>>

-----------------------------------------------------------------------------
(* The backtest.                                                           *)

RowsIn(ticks) == SumFunction([i \in DOMAIN ticks |-> Cardinality(ticks[i].kept)])

(* _load_ticks() and the cut to max_ticks: the rows come in the order of   *)
(* their timestamps, and in any order within one, so the cut may go        *)
(* through a tick.                                                         *)
Loaded(ticks) ==
  IF RowsIn(ticks) <= MaxRows THEN {ticks}
  ELSE LET before(n) == RowsIn(SubSeq(ticks, 1, n - 1))
           last == {n \in DOMAIN ticks :
                      /\ before(n) < MaxRows
                      /\ MaxRows <= before(n) + Cardinality(ticks[n].kept)}
           cut(n, kept) == [ticks[n] EXCEPT !.kept = kept, !.whole = @ /\ kept = ticks[n].kept,
                              !.quotes = [e \in Exchanges |-> IF e \in kept THEN @[e] ELSE NoQuote]]
       IN  UNION {{Append(SubSeq(ticks, 1, n - 1), cut(n, kept)) :
                     kept \in kSubset(MaxRows - before(n), ticks[n].kept)} : n \in last}

(* run() up to its loop: a new cache, engine and tracker, and the samples  *)
(* of the period, a stretch of them since they are in order.               *)
StartBacktest ==
  /\ phase = "live" /\ task = "stopped"
  /\ phase' = "replay"
  /\ \E from \in 0..MaxMoments, to \in 1..MaxMoments + 1, limit \in BacktestThresholds,
        first \in 1..Len(samples) + 1, last \in 0..Len(samples) :
       LET ticks == SubSeq(samples, first, last)
       IN  /\ from < to
           /\ \A i \in DOMAIN samples :
                i \in first..last <=> from <= samples[i].at /\ samples[i].at < to
           /\ Fresh(limit, from)
           /\ samples' \in Loaded(ticks)
           /\ report' = [done |-> FALSE, truncated |-> RowsIn(ticks) > MaxRows, events |-> {}]
  /\ cache' = [e \in Exchanges |-> NoQuote]
  /\ fails' = 0 /\ losses' = 0
  /\ UNCHANGED arrivals

(* The spreads after the rows of a tick have gone into the cache. *)
Replayed(rows, at) ==
  /\ cache' = rows
  /\ Tick(ComputeAll(rows, at), at)

(* One round of groupby(): the rows of a tick, then its spreads. *)
BacktestTick ==
  /\ phase = "replay" /\ Len(seen) < Len(samples)
  /\ LET tick == samples[Len(seen) + 1]
     IN  Replayed([e \in Exchanges |-> IF e \in tick.kept THEN tick.quotes[e] ELSE cache[e]],
                  tick.at)
  /\ UNCHANGED <<liveVars, samples, report>>

Qualifying(events, minDuration) == {e \in events : e.end - e.start >= minDuration}

(* The end of run(): what is still open closes at the last tick. *)
EndBacktest ==
  /\ phase = "replay" /\ Len(seen) = Len(samples)
  /\ Flush(now)
  /\ \E minDuration \in MinDurations :
       report' = [report EXCEPT !.done = TRUE, !.events = Qualifying(closed', minDuration)]
  /\ UNCHANGED <<liveVars, cache, samples>>

Next ==
  \/ QuotesArrive \/ EventTick \/ EventTickFails \/ Sample \/ Stop
  \/ StartBacktest \/ BacktestTick \/ EndBacktest

Spec == HistoryInit /\ [][Next]_vars

-----------------------------------------------------------------------------
(* A backtest sees at each recorded moment exactly the spreads that were   *)
(* live then, as long as all rows of that moment reached it: whatever was  *)
(* lost before heals with the next whole sample, and stale quotes are      *)
(* stale again (backtesting/engine.py:3).                                  *)
ReplayIsLive ==
  phase = "replay" =>
    \A i \in DOMAIN seen : samples[i].whole =>
      seen[i].at = samples[i].at /\ seen[i].row = samples[i].truth

(* A spread that is shown as valid, live or in a backtest that lost rows,  *)
(* was made of two quotes that both arrived within the allowed age, and at *)
(* exchange times that are close enough (spread/engine.py:111).            *)
ValidIsFresh ==
  \A i \in DOMAIN seen, d \in Directions : seen[i].row[d] \in Nets =>
    \E a, b \in arrivals :
      /\ a[1] = d[1] /\ b[1] = d[2]
      /\ {a[2].at, b[2].at} \subseteq seen[i].at - MaxAge..seen[i].at
      /\ Distance(a[2].at - Lag[a[1]], b[2].at - Lag[b[1]]) <= MaxDiff
      /\ seen[i].row[d] = NetSpread(a[2].book.ask, b[2].book.bid,
                                    TakerFee[d[1]], TakerFee[d[2]])
=============================================================================
