---------------------------- MODULE MCPaperTrading ----------------------------
(* PaperTrading for TLC: the books it uses, and the trades interchangeable. *)
EXTENDS PaperTrading, TLC

(* Sides of one, two and no levels. *)
SmallBooks == [1..2 -> 0..2]

Swap == Permutations(Trades)
=============================================================================
