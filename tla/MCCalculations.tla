---------------------------- MODULE MCCalculations ----------------------------
(* Calculations for TLC: the values that a configuration file cannot write. *)
EXTENDS Calculations

(* The raw level and two aggregated ones. *)
ShortIntervals == <<2, 4, 8>>

(* Whole tens for three exchanges, for two, for one or for none. *)
SmallTargets ==
  {target \in [1..3 -> {NoTarget} \cup {10 * n : n \in 0..10}] : ValidAllocation(target)}

(* Every exchange has a target, and none is to be empty. *)
FullTargets == {target \in SmallTargets : \A e \in 1..3 : target[e] > 0}

(* One total is overdrawn. *)
SmallTotals == {-1, 0, 1, 2, 4, 5}

(* With and without a minimum duration, and a period. *)
SmallFilters ==
  {[from |-> 1, to |-> 9, minDuration |-> 0], [from |-> 2, to |-> 9, minDuration |-> NoDuration]}
=============================================================================
