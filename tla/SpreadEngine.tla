----------------------------- MODULE SpreadEngine ----------------------------
(***************************************************************************)
(* SpreadEngine.compute_all() (spread/engine.py) over a QuoteCache, with   *)
(* the formulas (spread/formulas.py) and the freshness of a quote          *)
(* (models/quote.py): what the dashboard, the event detector and the       *)
(* backtest see of the quotes of one symbol.                               *)
(*                                                                         *)
(* A quote is [book, at, ets]: its two sides, when it was received and the *)
(* exchange's own time.  Prices are whole numbers and fees parts per       *)
(* thousand; the net spread, a Decimal ratio in the code, is rounded down  *)
(* to hundredths of a percent.  A row shows its net spread, or Invalid     *)
(* when its valid flag is False.                                           *)
(***************************************************************************)
EXTENDS Integers

CONSTANTS
  Exchanges,
  TakerFee,    (* _taker_fees, of the enabled exchanges                    *)
  MaxAge,      (* trading.max_quote_age_ms                                 *)
  MaxDiff,     (* trading.max_timestamp_diff_ms                            *)
  MinQuantity, MinNotional, (* trading.min_executable_...                  *)
  NoQuote,     (* an exchange without a quote                              *)
  Absent,      (* a direction without a row                                *)
  Invalid      (* a row with valid = False                                 *)

ASSUME FeesAssumption == TakerFee \in [Exchanges -> 0..1000]
ASSUME AgesAssumption == MaxAge \in Nat /\ MaxDiff \in Nat
ASSUME VolumeAssumption == MinQuantity \in Nat /\ MinNotional \in Nat

Books == [bid : Nat \ {0}, bidQty : Nat, ask : Nat \ {0}, askQty : Nat]
Quotes == [book : Books, at : Nat, ets : Int]

ASSUME NoQuoteAssumption == NoQuote \notin Quotes

(* The (buy exchange, sell exchange) pairs: permutations(available, 2).    *)
Directions == {d \in Exchanges \X Exchanges : d[1] # d[2]}

Minimum(a, b) == IF a < b THEN a ELSE b
Distance(a, b) == IF a < b THEN b - a ELSE a - b

IsStale(q, now) == now - q.at > MaxAge

NetSpread(ask, bid, buyFee, sellFee) ==
  (bid * (1000 - sellFee) * 10000) \div (ask * (1000 + buyFee)) - 10000

VolumeOk(buy, sell) ==
  LET quantity == Minimum(buy.book.askQty, sell.book.bidQty)
  IN  /\ quantity >= MinQuantity
      /\ quantity > 0
      /\ quantity * buy.book.ask >= MinNotional

(* Fault: a pair is fresh if one of its quotes is. *)
ValidOneSide(buy, sell, now) ==
  /\ ~(IsStale(buy, now) /\ IsStale(sell, now))
  /\ Distance(buy.ets, sell.ets) <= MaxDiff
  /\ VolumeOk(buy, sell)

Valid(buy, sell, now) ==
  /\ ~IsStale(buy, now) /\ ~IsStale(sell, now)
  /\ Distance(buy.ets, sell.ets) <= MaxDiff
  /\ VolumeOk(buy, sell)

(* _compute_pair(): buy at the ask of d[1], sell at the bid of d[2]. *)
ComputePair(d, cache, now) ==
  LET buy == cache[d[1]]  sell == cache[d[2]]
  IN  IF Valid(buy, sell, now)
      THEN NetSpread(buy.book.ask, sell.book.bid, TakerFee[d[1]], TakerFee[d[2]])
      ELSE Invalid

(* compute_all(): a row for each direction whose exchanges have quotes. *)
ComputeAll(cache, now) ==
  [d \in Directions |-> IF cache[d[1]] = NoQuote \/ cache[d[2]] = NoQuote
                   THEN Absent ELSE ComputePair(d, cache, now)]
=============================================================================
