----------------------------- MODULE Calculations -----------------------------
(***************************************************************************)
(* What the program computes on request from state that it does not        *)
(* change: the fill of an order, the signals of a rebalance and the points *)
(* of a chart, each for every input within bounds, and the pages of a list *)
(* of events, read while the table grows.                                  *)
(***************************************************************************)
EXTENDS Vwap, Rebalance, Charts, EventPages

CONSTANTS
  MaxPrice,     (* bound: prices are 1..MaxPrice                           *)
  MaxQuantity,  (* bound: quantity of a level                              *)
  MaxTarget,    (* bound: quantity of an order                             *)
  MaxExchanges, (* bound: exchanges of a rebalance                         *)
  Totals,       (* the totals of an exchange                               *)
  Targets,      (* the target allocations: percentages by exchange         *)
  Thresholds,   (* rebalance_threshold_pct                                 *)
  Horizon,      (* bound: samples of a quote chart are in 0..Horizon       *)
  SpreadHorizon, (* bound: those of a spread chart in 0..SpreadHorizon     *)
  ChartStarts,  (* the starts of a period                                  *)
  MaxPoints     (* bound: max_chart_points                                 *)

ASSUME BoundsAssumption ==
  /\ {MaxPrice, MaxQuantity, MaxTarget, MaxExchanges} \subseteq Nat
  /\ {Horizon, SpreadHorizon, MaxPoints} \subseteq Nat
  /\ ChartStarts \subseteq 0..SpreadHorizon

ASSUME TargetsAssumption ==
  Targets \subseteq [1..MaxExchanges -> Int] /\ \A target \in Targets : ValidAllocation(target)

ASSUME CapitalAssumption == Totals \subseteq Int /\ Thresholds \subseteq Nat \ {0}

VARIABLE call   (* what is asked for                                       *)

-----------------------------------------------------------------------------
Takes == [1..MaxPrice -> 0..MaxQuantity]

FillCalls == [kind : {"fill"}, side : Takes, quantity : 1..MaxTarget]

RebalanceCalls ==
  [kind : {"rebalance"}, target : Targets, total : [1..MaxExchanges -> Totals], threshold : Thresholds]

(* Samples are a raw interval apart or more: the loop sleeps between them. *)
Samples ==
  {times \in SUBSET (0..Horizon) :
     \A s, t \in times : s < t => t - s >= Intervals[1]}

QuoteCalls ==
  {c \in [kind : {"quotes"}, samples : Samples, from : ChartStarts, to : 1..Horizon + 1,
          requested : {AutoInterval} \cup DOMAIN Intervals, maxPoints : 1..MaxPoints] : c.from < c.to}

(* The samples of two exchanges; their rows are read one after the other,  *)
(* and some may be inserted in between.                                    *)
SpreadCalls ==
  [kind : {"spread"}, buy : SUBSET (0..SpreadHorizon), sell : SUBSET (0..SpreadHorizon),
   from : ChartStarts, to : {SpreadHorizon + 1},
   requested : {AutoInterval} \cup DOMAIN Intervals, maxPoints : 1..MaxPoints]

CallInit ==
  /\ NoTable
  /\ \/ call = [kind |-> "events"]
     \/ /\ call \in FillCalls \cup RebalanceCalls \cup QuoteCalls \cup SpreadCalls
        /\ filter = CHOOSE f \in Filters : TRUE
        /\ requested = 0

CallNext ==
  \/ call.kind = "events" /\ QueryNext /\ UNCHANGED call
  \/ call.kind # "events" /\ UNCHANGED <<call, queryVars>>

CallSpec == CallInit /\ [][CallNext]_<<call, queryVars>>

-----------------------------------------------------------------------------
(* Properties.                                                             *)

Total(take) == SumOver(take, 1..MaxPrice)
Cost(take) == SumOver([p \in 1..MaxPrice |-> take[p] * p], 1..MaxPrice)

(* What may be taken from the side, as much of the target as there is. *)
Fills(side, target) ==
  {take \in Takes : /\ \A p \in 1..MaxPrice : take[p] <= side[p]
                    /\ Total(take) = Lesser(target, Total(side))}

(* The fill takes as much as there is and never more than asked; a buy     *)
(* pays the least and a sale earns the most that the book allows, so the   *)
(* slippage against the top of the book is never negative.                 *)
FillIsBest ==
  call.kind = "fill" =>
    LET side == call.side
        target == call.quantity
        buy == ComputeVwap(AsksSorted(side), target)
        sale == ComputeVwap(BidsSorted(side), target)
    IN  /\ buy.filled = Lesser(target, Total(side)) /\ sale.filled = buy.filled
        /\ buy.remaining = target - buy.filled /\ sale.remaining = buy.remaining
        /\ buy.notional = Min({Cost(take) : take \in Fills(side, target)})
        /\ sale.notional = Max({Cost(take) : take \in Fills(side, target)})
        /\ buy.filled > 0 => /\ buy.notional >= buy.filled * Min(PricesOf(side))
                             /\ sale.notional <= sale.filled * Max(PricesOf(side))

(* What the signals take from an exchange, or bring to it. *)
Volumes(signals) == [i \in DOMAIN signals |-> signals[i].amount]
Taken(signals, e) == SumOver(Volumes(signals), {i \in DOMAIN signals : signals[i].from = e})
Brought(signals, e) == SumOver(Volumes(signals), {i \in DOMAIN signals : signals[i].to = e})

(* What the deviation of an exchange is when every transfer is made.       *)
DeviationLeft(total, target, signals, e) ==
  Deviation(total, target, e) - Taken(signals, e) + Brought(signals, e)

(* An operator who makes every transfer never has to make another one: no  *)
(* exchange is taken past its target, all of one side reach theirs, and    *)
(* the next call suggests nothing, with at most one transfer less than     *)
(* there are exchanges to settle.  It does not say that all of them end    *)
(* within the threshold, which WithinThreshold refutes.                    *)
RebalanceSettles ==
  call.kind = "rebalance" =>
    LET target == call.target
        threshold == call.threshold
        signals == RebalanceSignals(call.total, target, threshold)
        over == Over(call.total, target, threshold)
        under == Under(call.total, target, threshold)
        Left(e) == DeviationLeft(call.total, target, signals, e)
        moved == [e \in DOMAIN call.total |->
                    100 * call.total[e] - Taken(signals, e) + Brought(signals, e)]
    IN  Capital(call.total) > 0 =>
          /\ \A i \in DOMAIN signals : /\ signals[i].amount > 0
                                       /\ signals[i].from \in over /\ signals[i].to \in under
          /\ \A e \in over : Left(e) >= 0
          /\ \A e \in under : Left(e) <= 0
          /\ (\A e \in over : Left(e) = 0) \/ (\A e \in under : Left(e) = 0)
          /\ RebalanceSignals(moved, target, threshold) = <<>>
          /\ signals # <<>> => Len(signals) < Cardinality(over) + Cardinality(under)

(* The transfers bring the allocation within the threshold of its target   *)
(* (monitor.py:115-119): once all are made no exchange is beyond it.       *)
WithinThreshold ==
  call.kind = "rebalance" /\ Capital(call.total) > 0 =>
    LET signals == RebalanceSignals(call.total, call.target, call.threshold)
        limit == call.threshold * Capital(call.total)
    IN  \A e \in Targeted(call.target) :
          DeviationLeft(call.total, call.target, signals, e) \in -limit..limit

(* A chart that is not marked as truncated shows every row of its period,  *)
(* and one that is shows the first of them.  Where a level fits the limit, *)
(* the automatic choice loses the last row at most: with the default       *)
(* sampling a period has at most one row more than whole intervals.        *)
ChartsComplete ==
  /\ call.kind = "quotes" =>
       LET level == ChooseInterval(call.from, call.to, call.maxPoints, call.requested)
           rows == InPeriod(RowsAt(level, call.samples), call.from, call.to)
           chart == QuotesRoute(call.samples, call.from, call.to, call.requested, call.maxPoints)
           lost == rows \ chart.points
       IN  /\ chart.truncated <=> lost # {}
           /\ \A t \in lost, u \in chart.points : u < t
           /\ call.requested = AutoInterval /\ Fits(level, call.from, call.to, call.maxPoints)
                => Cardinality(lost) <= 1
  /\ call.kind = "spread" =>
       LET level == ChooseInterval(call.from, call.to, call.maxPoints, call.requested)
           both == RowsAt(level, call.buy) \cap RowsAt(level, call.sell)
           chart == SpreadRoute(call.buy, call.sell, call.from, call.to, call.requested, call.maxPoints)
           lost == InPeriod(both, call.from, call.to) \ chart.points
       IN  /\ lost # {} => chart.truncated
           /\ \A t \in lost, u \in chart.points : u < t
=============================================================================
