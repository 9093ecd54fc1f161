------------------------------ MODULE LossyFifo ------------------------------
(***************************************************************************)
(* What a history pipeline promises to its producers: rows are numbered in *)
(* the order they are offered, wait in a pending list, and are moved in    *)
(* that order, each at most once, to durable storage.  The pipeline may    *)
(* refuse a row, evict one waiting row to make room, and lose the front of *)
(* the pending list, but it never reorders, repeats or resurrects a row.   *)
(*                                                                         *)
(* DbWriter (src/backend/app/database/writer.py) is shown to implement it. *)
(***************************************************************************)
EXTENDS Naturals, Sequences

VARIABLES
  offered,   (* number of rows offered so far; row n is the n-th one       *)
  pending,   (* rows accepted and not yet stored or lost, oldest first     *)
  stored     (* rows in durable storage, in the order they were committed  *)

vars == <<offered, pending, stored>>

Init ==
  /\ offered = 0
  /\ pending = <<>>
  /\ stored = <<>>

Accept ==
  /\ offered' = offered + 1
  /\ pending' = Append(pending, offered')
  /\ UNCHANGED stored

Refuse ==
  /\ offered' = offered + 1
  /\ UNCHANGED <<pending, stored>>

(* One waiting row makes room for the new one. *)
Replace ==
  /\ offered' = offered + 1
  /\ \E i \in 1..Len(pending) :
       pending' = SubSeq(pending, 1, i - 1)
                    \o SubSeq(pending, i + 1, Len(pending)) \o <<offered'>>
  /\ UNCHANGED stored

(* The oldest k rows are committed together. *)
Store ==
  /\ \E k \in 1..Len(pending) :
       /\ stored' = stored \o SubSeq(pending, 1, k)
       /\ pending' = SubSeq(pending, k + 1, Len(pending))
  /\ UNCHANGED offered

(* The oldest k rows are lost together. *)
Lose ==
  /\ \E k \in 1..Len(pending) :
       pending' = SubSeq(pending, k + 1, Len(pending))
  /\ UNCHANGED <<offered, stored>>

Next == Accept \/ Refuse \/ Replace \/ Store \/ Lose

Spec == Init /\ [][Next]_vars
=============================================================================
