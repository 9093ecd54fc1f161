-------------------------------- MODULE Charts --------------------------------
(***************************************************************************)
(* The charts of AnalyticsRepository (repositories/analytics.py) behind    *)
(* GET /quotes and GET /spread-history (api/routes/analytics.py).  A row   *)
(* is its timestamp: the prices of a point are those of its row, or of the *)
(* rows of both exchanges.                                                 *)
(* Operators marked "Fault" are mutated forms of the one that follows      *)
(* them; they show which property notices the bug and occur nowhere else.  *)
(***************************************************************************)
EXTENDS Integers, Sequences, FiniteSetsExt

CONSTANTS
  Intervals  (* INTERVAL_MS by _INTERVAL_ORDER: the raw level is the first *)

ASSUME IntervalsAssumption == Intervals \in Seq(Nat \ {0}) /\ Intervals # <<>>

AutoInterval == 0

(* The first n of a set of timestamps: ORDER BY ... LIMIT n. *)
FirstOf(times, n) == {t \in times : Cardinality({u \in times : u < t}) < n}

-----------------------------------------------------------------------------
(* Charts.                                                                 *)

Fits(level, from, to, maxPoints) == (to - from) \div Intervals[level] <= maxPoints

(* choose_interval(); the route has refused an empty period. *)
ChooseInterval(from, to, maxPoints, requested) ==
  LET fitting == {i \in DOMAIN Intervals : Fits(i, from, to, maxPoints)}
  IN  IF requested # AutoInterval THEN requested
      ELSE IF fitting # {} THEN Min(fitting)
      ELSE Len(Intervals)

(* The rows of a level that has aggregated all samples. *)
RowsAt(level, samples) ==
  IF level = 1 THEN samples ELSE {t - (t % Intervals[level]) : t \in samples}

InPeriod(rows, from, to) == {t \in rows : from <= t /\ t < to}

(* _fetch_ohlc(): one row more than may be returned. *)
FetchOhlc(rows, from, to, maxPoints) == FirstOf(InPeriod(rows, from, to), maxPoints + 1)

QuoteHistory(rows, from, to, maxPoints) ==
  LET fetched == FetchOhlc(rows, from, to, maxPoints)
  IN  [points    |-> FirstOf(fetched, maxPoints),
       truncated |-> Cardinality(fetched) > maxPoints]

(* Fault: only the buy side is looked at. *)
TruncatedBuyOnly(buyRows, sellRows, maxPoints) == Cardinality(buyRows) > maxPoints

Truncated(buyRows, sellRows, maxPoints) ==
  Cardinality(buyRows) > maxPoints \/ Cardinality(sellRows) > maxPoints

(* A point for each timestamp that both sides have. *)
SpreadHistory(buy, sell, from, to, maxPoints) ==
  LET buyRows == FetchOhlc(buy, from, to, maxPoints)
      sellRows == FetchOhlc(sell, from, to, maxPoints)
  IN  [points    |-> FirstOf(buyRows \cap sellRows, maxPoints),
       truncated |-> Truncated(buyRows, sellRows, maxPoints)]

-----------------------------------------------------------------------------
(* The routes: an empty period is refused, and so is one exchange for both *)
(* sides, by the callers of these operators.                               *)

QuotesRoute(samples, from, to, requested, maxPoints) ==
  LET level == ChooseInterval(from, to, maxPoints, requested)
  IN  QuoteHistory(RowsAt(level, samples), from, to, maxPoints)

SpreadRoute(buySamples, sellSamples, from, to, requested, maxPoints) ==
  LET level == ChooseInterval(from, to, maxPoints, requested)
  IN  SpreadHistory(RowsAt(level, buySamples), RowsAt(level, sellSamples), from, to, maxPoints)
=============================================================================
