--------------------------------- MODULE Vwap ---------------------------------
(***************************************************************************)
(* Filling an order from the depth of a book: compute_vwap() of            *)
(* orderbook/vwap.py over the sorted sides of orderbook/book.py.  A side   *)
(* is a function from prices to quantities, zero meaning no level.         *)
(* Quantities and prices are whole units.                                  *)
(* Operators marked "Fault" are mutated forms of the one that follows      *)
(* them; they show which property notices the bug and occur nowhere else.  *)
(***************************************************************************)
EXTENDS Integers, Sequences, FiniteSets

PricesOf(side) == {p \in DOMAIN side : side[p] > 0}

Ascending(prices) ==
  CHOOSE s \in [1..Cardinality(prices) -> prices] :
    \A i, j \in DOMAIN s : i < j => s[i] < s[j]

Descending(prices) ==
  LET s == Ascending(prices)
  IN  [i \in DOMAIN s |-> s[Len(s) + 1 - i]]

LevelsAt(side, prices) ==
  [i \in DOMAIN prices |-> [price |-> prices[i], quantity |-> side[prices[i]]]]

(* Fault: the worst ask comes first. *)
AsksSortedDescending(side) == LevelsAt(side, Descending(PricesOf(side)))

AsksSorted(side) == LevelsAt(side, Ascending(PricesOf(side)))
BidsSorted(side) == LevelsAt(side, Descending(PricesOf(side)))

Lesser(a, b) == IF a < b THEN a ELSE b

(* Fault: a level is taken whole. *)
TakeWholeLevel(fill, level) ==
  LET take == IF fill.remaining > 0 THEN level.quantity ELSE 0
  IN  [remaining |-> IF take > fill.remaining THEN 0 ELSE fill.remaining - take,
       filled    |-> fill.filled + take,
       notional  |-> fill.notional + take * level.price]

(* One level of the loop. *)
TakeLevel(fill, level) ==
  LET take == Lesser(level.quantity, fill.remaining)
  IN  [remaining |-> fill.remaining - take,
       filled    |-> fill.filled + take,
       notional  |-> fill.notional + take * level.price]

(* The fill after each of the levels, in the order they are given. *)
FillAfter(levels, target) ==
  LET fill[n \in 0..Len(levels)] ==
        IF n = 0 THEN [remaining |-> target, filled |-> 0, notional |-> 0]
                 ELSE TakeLevel(fill[n - 1], levels[n])
  IN  fill

(* Fully filled when nothing remains, and without a price when nothing was *)
(* filled.                                                                 *)
ComputeVwap(levels, target) == FillAfter(levels, target)[Len(levels)]
=============================================================================
