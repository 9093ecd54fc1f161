--------------------------- MODULE MCSpreadHistory ---------------------------
(* SpreadHistory for TLC: the first exchange shows one price, the second   *)
(* one that makes the second direction profitable, or the first a little   *)
(* or much; the second exchange's clock and fee differ.                    *)
EXTENDS SpreadHistory

CONSTANTS a, b

Per(x, y) == [e \in Exchanges |-> IF e = a THEN x ELSE y]
Book(bid) == [bid |-> bid, bidQty |-> 2, ask |-> bid + 1, askQty |-> 2]

MCFee == Per(1, 2)
MCLag == Per(0, 1)
MCBooks == Per({Book(100)}, {Book(97), Book(103), Book(106)})
MCNets == -2000..2000
=============================================================================
