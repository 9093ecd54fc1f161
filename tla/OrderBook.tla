------------------------------ MODULE OrderBook -------------------------------
(***************************************************************************)
(* The local order book (orderbook/book.py) as a replica of an exchange's  *)
(* book: the exchange numbers its changes, snapshots are fetched apart and *)
(* may arrive late, and the deltas may be lost, repeated and reordered     *)
(* before they reach apply_delta().  No adapter feeds the book yet: the    *)
(* exchange, the channel and the caller are external, and may do anything. *)
(*                                                                         *)
(* A slot is a side and a price: the two dictionaries never interact.      *)
(* Operators marked "Fault" are mutated forms of the one that follows      *)
(* them; they show which property notices the bug and occur nowhere else.  *)
(***************************************************************************)
EXTENDS Integers

CONSTANTS
  Slots,       (* the keys of _bids and _asks                              *)
  Quantities,  (* the quantities a level may have                          *)
  MaxChanges   (* bound: changes of the exchange's book                    *)

ASSUME QuantitiesAssumption == Quantities \subseteq Nat \ {0}
ASSUME ChangesAssumption == MaxChanges \in Nat

Absent == 0      (* the level is not in the dictionary                     *)
NoSequence == -1 (* _sequence is None                                      *)

VARIABLES
  version,   (* the exchange's update number                               *)
  past,      (* the exchange's book at each number so far                  *)
  changed,   (* the slots each numbered delta mentions                     *)
  levels,    (* OrderBook._bids and _asks                                  *)
  sequence,  (* OrderBook._sequence                                        *)
  synced     (* OrderBook._synced                                          *)

published == <<version, past, changed>>
replica == <<levels, sequence, synced>>
bookVars == <<published, replica>>

LevelMaps == [Slots -> Quantities \cup {Absent}]

BookTypeOK ==
  /\ version \in 0..MaxChanges
  /\ past \in [0..version -> LevelMaps]
  /\ changed \in [1..version -> SUBSET Slots]
  /\ levels \in LevelMaps
  /\ sequence \in NoSequence..version
  /\ synced \in BOOLEAN
  /\ synced => sequence # NoSequence

BookInit ==
  /\ version = 0
  /\ past \in [0..0 -> LevelMaps]
  /\ changed = [n \in 1..0 |-> {}]
  /\ levels = [s \in Slots |-> Absent]
  /\ sequence = NoSequence
  /\ synced = FALSE

-----------------------------------------------------------------------------
(* The exchange publishes a change as the delta of the slots it touches. *)
ExchangeChanges ==
  /\ version < MaxChanges
  /\ version' = version + 1
  /\ \E book \in LevelMaps, touched \in SUBSET Slots :
       /\ \A s \in Slots \ touched : book[s] = past[version][s]
       /\ past' = [n \in 0..version' |-> IF n = version' THEN book ELSE past[n]]
       /\ changed' = [n \in 1..version' |-> IF n = version' THEN touched ELSE changed[n]]
  /\ UNCHANGED replica

(* Fault: the levels that the snapshot does not mention are kept. *)
SnapshotLevelsMerged(book) ==
  [s \in Slots |-> IF book[s] = Absent THEN levels[s] ELSE book[s]]

(* The snapshot replaces both dictionaries. *)
SnapshotLevels(book) == [s \in Slots |-> book[s]]

(* Fault: the number of the snapshot is not taken over. *)
ApplySnapshotNoSequence(n) ==
  /\ levels' = SnapshotLevels(past[n])
  /\ synced' = TRUE
  /\ UNCHANGED <<published, sequence>>

(* apply_snapshot(): unconditional, even when the snapshot is an old one. *)
ApplySnapshot(n) ==
  /\ levels' = SnapshotLevels(past[n])
  /\ sequence' = n
  /\ synced' = TRUE
  /\ UNCHANGED published

-----------------------------------------------------------------------------
(* Fault: a level whose quantity becomes zero is kept. *)
ApplySidesKeepsZero(n) ==
  [s \in Slots |-> IF s \in changed[n] /\ past[n][s] # Absent THEN past[n][s] ELSE levels[s]]

(* _apply_side() on both sides: zero removes a level, anything else sets it. *)
ApplySides(n) == [s \in Slots |-> IF s \in changed[n] THEN past[n][s] ELSE levels[s]]

(* Fault: a gap of one message is taken for the successor. *)
IsGapOffByOne(n) == n > sequence + 2

IsGap(n) == n > sequence + 1

(* Fault: an old message is applied again, and takes the number back. *)
IsOldNever(n) == FALSE

IsOld(n) == n <= sequence

(* apply_delta() of whichever delta the channel delivers: a book that is   *)
(* not synced refuses it; a synced one ignores an old message, gives up at *)
(* a gap, and applies its direct successor.                                *)
ApplyDelta(n) ==
  /\ synced
  /\ \/ IsOld(n) /\ UNCHANGED replica
     \/ /\ ~IsOld(n) /\ IsGap(n)
        /\ synced' = FALSE
        /\ UNCHANGED <<levels, sequence>>
     \/ /\ ~IsOld(n) /\ ~IsGap(n)
        /\ sequence' = n
        /\ levels' = ApplySides(n)
        /\ UNCHANGED synced
  /\ UNCHANGED published

BookNext ==
  \/ ExchangeChanges
  \/ \E n \in 0..version : ApplySnapshot(n)
  \/ \E n \in 1..version : ApplyDelta(n)

BookSpec == BookInit /\ [][BookNext]_bookVars

-----------------------------------------------------------------------------
(* A delta names every slot its change touches. *)
DeltasAreComplete ==
  \A n \in 1..version : \A s \in Slots \ changed[n] : past[n][s] = past[n - 1][s]

(* While the book calls itself synced it is exactly the exchange's book at *)
(* its sequence number, although deltas are lost, repeated and reordered,  *)
(* and snapshots come late and take the book back.                         *)
SyncedIsExact == synced => levels = past[sequence]
=============================================================================
