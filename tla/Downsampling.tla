----------------------------- MODULE Downsampling -----------------------------
(***************************************************************************)
(* One aggregation level of Downsampler.run() (services/downsampler.py):   *)
(* rows of quotes_1s of one series, which the writer inserts late, are     *)
(* aggregated into buckets by a maintenance run at startup and by the      *)
(* loop of RetentionManager (services/retention_manager.py) after it.      *)
(*                                                                         *)
(* Time is counted in samples.  An aggregate is the set of rows it was     *)
(* computed from: high, low, average, close and sample_count are functions *)
(* of that set, which an upsert replaces.                                  *)
(* Operators marked "Fault" are mutated forms of the one that follows      *)
(* them; they show which property notices the bug and occur nowhere else.  *)
(***************************************************************************)
EXTENDS Integers, FiniteSets

CONSTANTS
  BucketSize,  (* bucket_ms                                                *)
  Lookback,    (* lookback_ms: an hour, as the application gives none      *)
  Margin,      (* _SAFETY_MARGIN_MS                                        *)
  Interval,    (* maintenance_interval_hours: an hour or more, 24 by default *)
  MaxLate,     (* the longest that the writer keeps a row                  *)
  MaxTime,     (* bound: the time that passes                              *)
  MaxRestarts  (* bound: restarts of the application                       *)

ASSUME LevelAssumption ==
  /\ BucketSize \in Nat \ {0} /\ Lookback \in Nat /\ Margin \in Nat
  /\ Interval \in Nat \ {0} /\ MaxLate \in Nat
ASSUME LevelBoundsAssumption == MaxTime \in Nat /\ MaxRestarts \in Nat

VARIABLES
  now,
  pending,   (* the timestamps of the rows the writer still holds          *)
  raw,       (* the timestamps of the rows of quotes_1s                    *)
  buckets,   (* the aggregate of each bucket, {} when it has no row        *)
  lastRun,   (* when run() was called last; NoRun before the first call    *)
  restarts

seriesVars == <<now, pending, raw, buckets, lastRun, restarts>>

NoRun == -1
Times == 0..MaxTime
Buckets == 0..MaxTime \div BucketSize

RowsOf(b) == {t \in raw : t \div BucketSize = b}

(* An aggregate holds rows of its own bucket only. *)
SeriesTypeOK ==
  /\ now \in Times /\ pending \subseteq Times /\ raw \subseteq Times
  /\ buckets \in [Buckets -> SUBSET Times]
  /\ \A b \in Buckets : buckets[b] \subseteq RowsOf(b)
  /\ lastRun \in Times \cup {NoRun} /\ restarts \in 0..MaxRestarts

SeriesInit ==
  /\ now = 0 /\ pending = {} /\ raw = {}
  /\ buckets = [b \in Buckets |-> {}]
  /\ lastRun = NoRun /\ restarts = 0

-----------------------------------------------------------------------------
(* A moment passes and is sampled, unless the feed has no quote.  The      *)
(* maintenance loop runs in time, and no row is kept longer than MaxLate.  *)
SampleRow ==
  /\ now < MaxTime
  /\ lastRun # NoRun /\ now < lastRun + Interval
  /\ \A t \in pending : now < t + MaxLate
  /\ now' = now + 1
  /\ \E rows \in {{}, {now}} : pending' = pending \cup rows
  /\ UNCHANGED <<raw, buckets, lastRun, restarts>>

(* The writer inserts a batch: rows leave in time order. *)
InsertBatch ==
  /\ \E t \in pending :
       LET batch == {r \in pending : r <= t}
       IN  pending' = pending \ batch /\ raw' = raw \cup batch
  /\ UNCHANGED <<now, buckets, lastRun, restarts>>

(* The rows of a bucket in the window of a run at a time. *)
UpperBound(time) == time - Margin
LowerBound(time) == time - Lookback

Selected(b, time) ==
  {t \in raw : LowerBound(time) <= t /\ t < UpperBound(time) /\ t \div BucketSize = b}

(* Fault: a conflict keeps the stored aggregate. *)
UpsertKeeps(stored, rows) == IF stored = {} THEN rows ELSE stored

Upsert(stored, rows) == IF rows = {} THEN stored ELSE rows

Aggregate(time) ==
  /\ buckets' = [b \in Buckets |-> Upsert(buckets[b], Selected(b, time))]
  /\ lastRun' = time

(* The loop of the retention manager. *)
Maintain ==
  /\ lastRun # NoRun
  /\ now = lastRun + Interval
  /\ Aggregate(now)
  /\ UNCHANGED <<now, pending, raw, restarts>>

(* The application starts, after having been down for any time, without    *)
(* the rows that the writer held.                                          *)
StartRun ==
  /\ lastRun # NoRun => restarts < MaxRestarts
  /\ restarts' = IF lastRun = NoRun THEN restarts ELSE restarts + 1
  /\ pending' = {}
  /\ now' \in now..MaxTime
  /\ Aggregate(now')
  /\ UNCHANGED raw

SeriesNext == SampleRow \/ InsertBatch \/ Maintain \/ StartRun

SeriesSpec == SeriesInit /\ [][SeriesNext]_seriesVars

-----------------------------------------------------------------------------
(* Properties.                                                             *)

Starts(b) == b * BucketSize
Ends(b) == (b + 1) * BucketSize

(* A bucket that lies within the window of the last run was aggregated     *)
(* from all its rows, also those that the writer inserted late.            *)
WindowWhole ==
  lastRun # NoRun =>
    \A b \in Buckets :
      Starts(b) >= lastRun - Lookback /\ Ends(b) <= lastRun - Margin
        => buckets[b] = RowsOf(b)

(* Maintenance catches up with the downsampling (retention_manager.py:4):  *)
(* no bucket is left out, and every one that has rows and has ended before *)
(* the margin of the last run has an aggregate.                            *)
CaughtUp ==
  lastRun # NoRun =>
    \A b \in Buckets :
      RowsOf(b) # {} /\ Ends(b) <= lastRun - Margin => buckets[b] # {}
=============================================================================
