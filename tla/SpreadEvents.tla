----------------------------- MODULE SpreadEvents ----------------------------
(***************************************************************************)
(* The spread-event detector, SpreadEventTracker (spread/events.py): one   *)
(* call of process() per tick and flush_open() at the end.  Its users are  *)
(* the event loop of HistoryRecorder and the backtest, which SpreadHistory *)
(* adds with the rows they give it.                                        *)
(*                                                                         *)
(* A direction is a (symbol, buy exchange, sell exchange) key; one symbol  *)
(* is enough, since keys never interact.  What the tracker reads of a      *)
(* SpreadRow is whether it is there, whether it is valid, and its net      *)
(* spread; Absent stands for a direction without a row, Invalid for a row  *)
(* with valid = False.                                                     *)
(*                                                                         *)
(* Operators marked "Fault" are mutated forms of the one that follows      *)
(* them; they show which property notices the bug and occur nowhere else.  *)
(***************************************************************************)
EXTENDS SpreadEngine, Sequences

CONSTANTS
  Nets,        (* net spreads a row may show                               *)
  Threshold,   (* trading.spread_threshold                                 *)
  NoEvent      (* a direction without an open event                        *)

ASSUME NetsAssumption == Nets \subseteq Int /\ Threshold \in Int
ASSUME MarksAssumption == Absent \notin Nets /\ Invalid \notin Nets

VARIABLES
  threshold, (* SpreadEventTracker._threshold                              *)
  open,    (* SpreadEventTracker._open                                     *)
  closed,  (* the events closed so far                                     *)
  now,     (* the time of the last tick                                    *)
  task,    (* the tracker's user: "running" or "stopped"                   *)
  seen     (* history: the ticks processed, oldest first, each with the    *)
           (* total of the net spreads that a direction has shown so far   *)

trackerVars == <<threshold, open, closed, now, task, seen>>

Rows == Nets \cup {Absent, Invalid}
OpenEvents == [start : Nat, first : Nets, max : Nets, sum : Int,
               samples : Nat \ {0}, peak : Nat]
Events == [dir : Directions, start : Nat, end : Nat, first : Nets, max : Nets,
           sum : Int, samples : Nat \ {0}, peak : Nat]

ASSUME NoEventAssumption == NoEvent \notin OpenEvents

TypeOK ==
  /\ threshold \in Int
  /\ open \in [Directions -> OpenEvents \cup {NoEvent}]
  /\ closed \subseteq Events
  /\ now \in Int
  /\ task \in {"running", "stopped"}
  /\ seen \in Seq([at : Int, row : [Directions -> Rows], total : [Directions -> Int]])

(* A new tracker, and nothing processed yet. *)
Fresh(limit, at) ==
  /\ threshold' = limit
  /\ open' = [d \in Directions |-> NoEvent]
  /\ closed' = {}
  /\ now' = at
  /\ task' = "running"
  /\ seen' = <<>>

Init ==
  /\ threshold = Threshold
  /\ open = [d \in Directions |-> NoEvent]
  /\ closed = {}
  /\ now = 0
  /\ task = "running"
  /\ seen = <<>>

-----------------------------------------------------------------------------
Active(row) == row \in Nets /\ row >= threshold

(* The peak is the moment whose volume and profit the event reports. *)
Begin(net, at) ==
  [start |-> at, first |-> net, max |-> net, sum |-> net, samples |-> 1, peak |-> at]

(* Fault: an equal spread moves the peak. *)
UpdateEqual(e, net, at) ==
  [e EXCEPT !.samples = @ + 1, !.sum = @ + net,
            !.max = IF net >= e.max THEN net ELSE @,
            !.peak = IF net >= e.max THEN at ELSE @]

Update(e, net, at) ==
  [e EXCEPT !.samples = @ + 1, !.sum = @ + net,
            !.max = IF net > e.max THEN net ELSE @,
            !.peak = IF net > e.max THEN at ELSE @]

Close(d, e, at) ==
  [dir |-> d, start |-> e.start, end |-> at, first |-> e.first, max |-> e.max,
   sum |-> e.sum, samples |-> e.samples, peak |-> e.peak]

(* process(): a crossing opens an event, an active row updates it, and an  *)
(* inactive or missing row closes it at this tick's time.                  *)
Process(rows, at) ==
  LET ends == {d \in Directions : open[d] # NoEvent /\ ~Active(rows[d])}
  IN  /\ open' = [d \in Directions |->
                    IF ~Active(rows[d]) THEN NoEvent
                    ELSE IF open[d] = NoEvent THEN Begin(rows[d], at)
                    ELSE Update(open[d], rows[d], at)]
      /\ closed' = closed \cup {Close(d, open[d], at) : d \in ends}

(* What the net spreads of a direction add up to, tick by tick. *)
Total(ticks, d, i) == IF i = 0 THEN 0 ELSE ticks[i].total[d]
Totals(rows) ==
  [d \in Directions |-> Total(seen, d, Len(seen)) + (IF rows[d] \in Nets THEN rows[d] ELSE 0)]

(* One tick: process() with the rows of the moment at. *)
Tick(rows, at) ==
  /\ task = "running"
  /\ now' = at
  /\ Process(rows, at)
  /\ seen' = Append(seen, [at |-> at, row |-> rows, total |-> Totals(rows)])
  /\ UNCHANGED <<threshold, task>>

(* Fault: the open events are dropped. *)
FlushNothing(at) ==
  /\ task = "running"
  /\ task' = "stopped"
  /\ now' = at
  /\ open' = [d \in Directions |-> NoEvent]
  /\ UNCHANGED <<threshold, closed, seen>>

(* flush_open(): every open event is closed at the time given. *)
Flush(at) ==
  /\ task = "running"
  /\ task' = "stopped"
  /\ now' = at
  /\ open' = [d \in Directions |-> NoEvent]
  /\ closed' = closed \cup {Close(d, open[d], at) :
                              d \in {e \in Directions : open[e] # NoEvent}}
  /\ UNCHANGED <<threshold, seen>>

-----------------------------------------------------------------------------
(* What the events should be, from the rows that were seen.                *)

ActiveAt(d, i) == i \in 1..Len(seen) /\ Active(seen[i].row[d])

(* The maximal runs of consecutive ticks at which the direction is active. *)
Runs(d) ==
  {r \in (1..Len(seen)) \X (1..Len(seen)) :
     /\ \A i \in r[1]..r[2] : ActiveAt(d, i)
     /\ r[1] <= r[2] /\ ~ActiveAt(d, r[1] - 1) /\ ~ActiveAt(d, r[2] + 1)}

Peak(ticks, d, r) ==
  CHOOSE i \in r[1]..r[2] :
    \A j \in r[1]..r[2] : \/ ticks[j].row[d] < ticks[i].row[d]
                          \/ ticks[j].row[d] = ticks[i].row[d] /\ i <= j

RunEvent(ticks, d, r) ==
  LET peak == Peak(ticks, d, r)
  IN  [start |-> ticks[r[1]].at, first |-> ticks[r[1]].row[d],
       max |-> ticks[peak].row[d], peak |-> ticks[peak].at,
       sum |-> Total(ticks, d, r[2]) - Total(ticks, d, r[1] - 1),
       samples |-> r[2] - r[1] + 1]

(* A run that has ended is closed by the next tick seen, and the last one  *)
(* when the tracker is flushed.                                            *)
RunEnd(r) == IF r[2] < Len(seen) THEN seen[r[2] + 1].at ELSE now

Ended(r) == r[2] < Len(seen) \/ task = "stopped"

(* The events recorded are exactly the maximal runs of ticks at which a    *)
(* direction was valid and at or above the threshold, with the extremes    *)
(* and the average of the run: none is split, merged, cut short or lost at *)
(* the end, whatever rows disappear and whatever ticks fail; live and in a *)
(* backtest alike (events.py:72, backtesting/engine.py:130).               *)
ClosedAreRuns ==
  closed = UNION {{Close(d, RunEvent(seen, d, r), RunEnd(r)) :
                     r \in {q \in Runs(d) : Ended(q)}} : d \in Directions}

(* An event is open exactly while its run is still going on. *)
OpenAreRuns ==
  \A d \in Directions :
    LET last == {r \in Runs(d) : ~Ended(r)}
    IN  IF last = {} THEN open[d] = NoEvent
                     ELSE \E r \in last : open[d] = RunEvent(seen, d, r)
=============================================================================
