------------------------------- MODULE Rebalance -------------------------------
(***************************************************************************)
(* The transfers CapitalMonitor suggests (capital/monitor.py).  total and  *)
(* target are functions of the exchanges, numbered in the order of the     *)
(* list that is passed in: the total of the quote asset, negative where a  *)
(* deep fill has overdrawn it, and the percentage of the capital that      *)
(* should be there, NoTarget where none is configured.                     *)
(*                                                                         *)
(* Amounts of signals are in hundredths of the unit of the totals, so that *)
(* percentages of the capital are whole; Decimal's rounding at 28 digits   *)
(* is left out.                                                            *)
(* Operators marked "Fault" are mutated forms of the one that follows      *)
(* them; they show which property notices the bug and occur nowhere else.  *)
(***************************************************************************)
EXTENDS Integers, Sequences, FiniteSetsExt

NoTarget == -1

SumOver(f, S) == MapThenSumSet(LAMBDA x : f[x], S)

Capital(total) == SumOver(total, DOMAIN total)

(* deviation_pct of snapshot(), in hundredths of the capital. *)
Deviation(total, target, e) == 100 * total[e] - target[e] * Capital(total)

Targeted(target) == {e \in DOMAIN target : target[e] # NoTarget}

(* What the configuration accepts: percentages of a hundred, or none.      *)
ValidAllocation(target) ==
  Targeted(target) # {} => SumOver(target, Targeted(target)) = 100

(* The two filters of rebalance_signals(): both are strict. *)
Over(total, target, threshold) ==
  {e \in Targeted(target) : Deviation(total, target, e) > threshold * Capital(total)}
Under(total, target, threshold) ==
  {e \in Targeted(target) : -Deviation(total, target, e) > threshold * Capital(total)}

(* Largest first; the sort is stable. *)
Sorted(exchanges, left) ==
  CHOOSE order \in [1..Cardinality(exchanges) -> exchanges] :
    \A i, j \in DOMAIN order : i < j =>
      \/ left[order[i]] > left[order[j]]
      \/ left[order[i]] = left[order[j]] /\ order[i] < order[j]

(* Fault: the excess moves whole. *)
AmountWhole(excess, deficit) == excess

Amount(excess, deficit) == Min({excess, deficit})

(* One iteration of the loop, over[i] and under[j] being its exchanges and *)
(* left what each has still to give or to take.                            *)
Pair(loop, over, under) ==
  IF loop.i > Len(over) \/ loop.j > Len(under) THEN loop ELSE
    LET from == over[loop.i]
        to == under[loop.j]
        amount == Amount(loop.left[from], loop.left[to])
        signal == [from |-> from, to |-> to, amount |-> amount]
    IN  [i       |-> IF loop.left[from] <= amount THEN loop.i + 1 ELSE loop.i,
         j       |-> IF loop.left[to] <= amount THEN loop.j + 1 ELSE loop.j,
         left    |-> [loop.left EXCEPT ![from] = @ - amount, ![to] = @ - amount],
         signals |-> IF amount > 0 THEN Append(loop.signals, signal) ELSE loop.signals]

(* The loop after each of its iterations, which settle an exchange each. *)
Pairing(over, under, left) ==
  LET loop[n \in 0..(Len(over) + Len(under))] ==
        IF n = 0 THEN [i |-> 1, j |-> 1, left |-> left, signals |-> <<>>]
                 ELSE Pair(loop[n - 1], over, under)
  IN  loop

RebalanceSignals(total, target, threshold) ==
  LET over == Over(total, target, threshold)
      under == Under(total, target, threshold)
      left == [e \in over \cup under |->
                 IF e \in over THEN Deviation(total, target, e) ELSE -Deviation(total, target, e)]
      last == Cardinality(over) + Cardinality(under)
  IN  IF Capital(total) <= 0 THEN <<>>
      ELSE Pairing(Sorted(over, left), Sorted(under, left), left)[last].signals
=============================================================================
