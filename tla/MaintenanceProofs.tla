--------------------------- MODULE MaintenanceProofs --------------------------
(***************************************************************************)
(* The two parts of the retention manager's work, each a specification     *)
(* with variables of its own.                                              *)
(*                                                                         *)
(* The daily partitions, for every retention and every number of days:     *)
(* types, the rows that are kept, and, with two days or more created       *)
(* ahead, a partition for today.  The last needs to know when the last run *)
(* began (RunDates), and which days it left with a partition (Covered): up *)
(* to two days after its own while the loop sleeps, and those that the     *)
(* next run can last into while it has not created its own yet.            *)
(*                                                                         *)
(* The downsampling of one series, for every bucket size, lookback,        *)
(* margin, interval and number of restarts: types, and buckets of the      *)
(* window that are aggregated from all their rows.  The window is whole    *)
(* because a row that the writer still holds is never older than the       *)
(* margin (Recent).                                                        *)
(***************************************************************************)
EXTENDS Partitions, Downsampling, TLAPS


(* A run began since half days ago, on the day it takes for the current    *)
(* one, and lasts no longer than half a day.                               *)
RunDates ==
  /\ run # "idle" => app # "down" /\ since <= 1
  /\ app # "down" => 2 * current <= clock - since /\ clock - since <= 2 * current + 1
  /\ app = "starting" => since <= 1

(* What the runs have left for the days to come. *)
Covered ==
  /\ run \in {"list", "drop", "aggregate"} => current..current + 2 \subseteq parts
  /\ run = "idle" /\ app # "down" /\ ~error => current..current + 2 \subseteq parts
  /\ run = "ensure" /\ ~error =>
       \A day \in Nat : 2 * day <= clock + 1 - since /\ clock <= 2 * day + 1 => day \in parts

Inv == PartitionsTypeOK /\ RunDates

(* Half days and days. *)
LEMMA TodayBounds ==
  ASSUME clock \in Nat PROVE today \in Nat /\ 2 * today <= clock /\ clock <= 2 * today + 1
BY DEF today

(* Nothing exists before the first start. *)
LEMMA InitInv == PartitionsInit => Inv
<1> USE RetentionAssumption, RetentionBoundsAssumption
<1> QED
  BY DEF PartitionsInit, Inv, PartitionsTypeOK, RunDates, Days

(* Starting the application, or the loop, begins a run today. *)
LEMMA RunBegins ==
  ASSUME Inv, StartApp \/ StartLoop \/ Wake
  PROVE  Inv' /\ current' = today /\ since' = 0 /\ run' = "ensure" /\ parts' = parts
<1> USE RetentionAssumption, RetentionBoundsAssumption DEF Inv
<1>1. clock \in Nat /\ clock \in 2..2 * MaxDay + 1
  BY DEF PartitionsTypeOK
<1>2. today \in 1..MaxDay /\ 2 * today <= clock /\ clock <= 2 * today + 1
  BY <1>1, TodayBounds
<1>3. /\ current' = today /\ since' = 0 /\ run' = "ensure"
      /\ UNCHANGED <<clock, parts, inPart, inDefault, queued, names, failures>>
      /\ app' \in {"starting", "up"} /\ error' \in BOOLEAN
  BY DEF StartApp, StartLoop, Wake, storage, PartitionsTypeOK
<1>4. PartitionsTypeOK'
  BY <1>2, <1>3 DEF PartitionsTypeOK, Days
<1>5. RunDates'
  BY <1>1, <1>2, <1>3 DEF RunDates
<1>6. QED
  BY <1>3, <1>4, <1>5

(* The steps of a run leave its dates alone. *)
LEMMA RunGoesOn ==
  ASSUME Inv, EnsurePartitions \/ ExistingPartitions \/ DropOldPartitions \/ RunSucceeds \/ RunFails
  PROVE  Inv'
<1> USE RetentionAssumption, RetentionBoundsAssumption DEF Inv
<1>1. run # "idle" /\ UNCHANGED <<clock, app, queued, current, since>>
  BY DEF EnsurePartitions, ExistingPartitions, DropOldPartitions, RunSucceeds, RunFails,
         storage, PartitionsTypeOK
<1>2. RunDates'
  BY <1>1 DEF RunDates
<1>3. current \in 1..MaxDay /\ Window(current) \subseteq Days
  BY DEF PartitionsTypeOK, Window, BehindDays, Days
<1>4. PartitionsTypeOK'
  <2>1. CASE EnsurePartitions
    BY <1>3, <2>1 DEF EnsurePartitions, Conflict, PartitionsTypeOK
  <2>2. CASE ExistingPartitions
    BY <2>2 DEF ExistingPartitions, storage, PartitionsTypeOK
  <2>3. CASE DropOldPartitions
    BY <2>3 DEF DropOldPartitions, PartitionsTypeOK
  <2>4. CASE RunSucceeds
    BY <2>4 DEF RunSucceeds, storage, PartitionsTypeOK
  <2>5. CASE RunFails
    BY <2>5 DEF RunFails, storage, PartitionsTypeOK
  <2>6. QED
    BY <2>1, <2>2, <2>3, <2>4, <2>5
<1>5. QED
  BY <1>2, <1>4

(* Rows, time and the end of the process. *)
LEMMA OthersKeepInv ==
  ASSUME Inv, StopApp \/ Sample \/ (\E day \in Days : Insert(day)) \/ TimePasses
  PROVE  Inv'
<1> USE RetentionAssumption, RetentionBoundsAssumption DEF Inv
<1>1. CASE StopApp
  BY <1>1 DEF StopApp, storage, PartitionsTypeOK, RunDates
<1>2. CASE Sample
  <2>1. clock \in Nat /\ clock \in 2..2 * MaxDay + 1
    BY DEF PartitionsTypeOK
  <2>2. today \in Days
    BY <2>1, TodayBounds DEF Days
  <2>3. QED
    BY <1>2, <2>2 DEF Sample, storage, maintenance, PartitionsTypeOK, RunDates
<1>3. CASE \E day \in Days : Insert(day)
  BY <1>3 DEF Insert, maintenance, PartitionsTypeOK, RunDates
<1>4. CASE TimePasses
  <2>1. UNCHANGED <<parts, inPart, inDefault, app, queued, run, current, names, error, failures>>
    BY <1>4 DEF TimePasses, storage
  <2>2. clock' = clock + 1 /\ clock' \in 2..2 * MaxDay + 1
    BY <1>4 DEF TimePasses, PartitionsTypeOK
  <2>3. CASE app = "down"
    BY <1>4, <2>1, <2>2, <2>3 DEF TimePasses, PartitionsTypeOK, RunDates
  <2>4. CASE app # "down"
    <3>1. since' = since + 1 /\ since < 3 /\ (run # "idle" => since < 1)
          /\ (app = "starting" => run # "idle")
      BY <1>4, <2>4 DEF TimePasses, PartitionsTypeOK
    <3>2. since \in 0..3 /\ since' \in 0..3
      BY <3>1 DEF PartitionsTypeOK
    <3>3. PartitionsTypeOK'
      BY <2>1, <2>2, <3>2 DEF PartitionsTypeOK
    <3>4. RunDates'
      BY <2>1, <2>2, <2>4, <3>1, <3>2 DEF PartitionsTypeOK, RunDates
    <3>5. QED
      BY <3>3, <3>4
  <2>5. QED
    BY <2>3, <2>4
<1>5. QED
  BY <1>1, <1>2, <1>3, <1>4

(* Every step keeps the types and the dates of the runs. *)
LEMMA StepKeepsInv == Inv /\ [PartitionsNext]_partitionVars => Inv'
<1> SUFFICES ASSUME Inv, [PartitionsNext]_partitionVars PROVE Inv'
  OBVIOUS
<1>1. CASE UNCHANGED partitionVars
  BY <1>1 DEF Inv, PartitionsTypeOK, RunDates, partitionVars, storage, maintenance
<1>2. CASE PartitionsNext
  BY <1>2, RunBegins, RunGoesOn, OthersKeepInv DEF PartitionsNext
<1>3. QED
  BY <1>1, <1>2

(* The variables of the maintenance keep their types: in particular no day *)
(* has rows both in its partition and in the default one, and a run never  *)
(* takes a day of the future for the current one.                          *)
THEOREM PartitionsTypeCorrect == PartitionsSpec => []PartitionsTypeOK
<1>1. PartitionsSpec => []Inv
  BY InitInv, StepKeepsInv, PTL DEF PartitionsSpec
<1>2. Inv => PartitionsTypeOK
  BY DEF Inv
<1>3. QED
  BY <1>1, <1>2, PTL

(* A partition disappears only in DropOldPartitions. *)
LEMMA OnlyDropsRemove ==
  ASSUME Inv, [PartitionsNext]_partitionVars
  PROVE  DropOldPartitions \/ (parts \subseteq parts' /\ inPart \subseteq inPart')
<1>1. CASE UNCHANGED partitionVars
  BY <1>1 DEF partitionVars, storage
<1>2. CASE PartitionsNext
  BY <1>2 DEF PartitionsNext, StartApp, StartLoop, StopApp, Sample, Insert, EnsurePartitions,
     ExistingPartitions, RunSucceeds, RunFails, Wake, TimePasses, storage
<1>3. QED
  BY <1>1, <1>2

(* Rows leave with a partition that is older than the retention of raw     *)
(* data, seen from today, which is never before the day the run began.     *)
THEOREM RecentRowsAlwaysKept == PartitionsSpec => RecentRowsKept
<1> USE RetentionAssumption, RetentionBoundsAssumption
<1>1. Inv /\ [PartitionsNext]_partitionVars =>
        [inPart \ inPart' \subseteq {day \in Days : day < today - RawDays}]_partitionVars
  <2> SUFFICES ASSUME Inv, [PartitionsNext]_partitionVars
               PROVE  inPart \ inPart' \subseteq {day \in Days : day < today - RawDays}
    OBVIOUS
  <2>1. CASE DropOldPartitions
    <3>1. inPart \ inPart' \subseteq {day \in names : day < current - RawDays}
      BY <2>1 DEF DropOldPartitions, Expired
    <3>2. run = "drop" /\ app # "down"
      BY <2>1 DEF DropOldPartitions, Inv, RunDates
    <3>3. clock \in Nat /\ since \in Nat /\ current \in Nat /\ names \subseteq Days
      BY DEF Inv, PartitionsTypeOK
    <3>4. today \in Nat /\ current <= today
      BY <3>2, <3>3, TodayBounds DEF Inv, RunDates
    <3>5. SUFFICES ASSUME NEW day \in names, day < current - RawDays
                   PROVE  day \in Days /\ day < today - RawDays
      BY <3>1
    <3>6. day \in Days /\ day \in Nat
      BY <3>3 DEF Days
    <3>7. QED
      BY <3>3, <3>4, <3>5, <3>6
  <2>2. CASE inPart \subseteq inPart'
    BY <2>2
  <2>3. QED
    BY <2>1, <2>2, OnlyDropsRemove
<1>2. PartitionsSpec => []Inv
  BY InitInv, StepKeepsInv, PTL DEF PartitionsSpec
<1>3. QED
  BY <1>1, <1>2, PTL DEF PartitionsSpec, RecentRowsKept

-----------------------------------------------------------------------------
(* The coverage of today, when at least two days are created ahead.        *)

(* The steps that begin a run keep the days covered. *)
LEMMA CoveredStart ==
  ASSUME AheadDays >= 2, Inv, Covered, StartApp \/ StartLoop \/ Wake
  PROVE  Covered'
<1> USE RetentionAssumption DEF Inv
<1>1. Inv' /\ current' = today /\ since' = 0 /\ run' = "ensure" /\ parts' = parts
  BY RunBegins
<1>2. clock' = clock /\ clock \in Nat
  BY DEF StartApp, StartLoop, Wake, PartitionsTypeOK
<1>3. CASE StartApp
  BY <1>1, <1>3 DEF StartApp, Covered
<1>4. CASE StartLoop \/ Wake
  <2>1. run = "idle" /\ app # "down" /\ error' = error
    BY <1>4 DEF StartLoop, Wake
  <2>2. current \in Nat /\ since \in 0..3 /\ 2 * current <= clock - since
        /\ clock - since <= 2 * current + 1
    BY <2>1 DEF PartitionsTypeOK, RunDates
  <2>3. ASSUME ~error', NEW day \in Nat, 2 * day <= clock + 1, clock <= 2 * day + 1
        PROVE  day \in parts
    <3>1. current <= day /\ day <= current + 2
      BY <1>2, <2>2, <2>3
    <3>2. current..current + 2 \subseteq parts
      BY <2>1, <2>3 DEF Covered
    <3>3. QED
      BY <2>2, <3>1, <3>2
  <2>4. QED
    BY <1>1, <1>2, <2>3 DEF Covered
<1>5. QED
  BY <1>3, <1>4

(* So do the steps of a run, whether it succeeds or fails. *)
LEMMA CoveredRun ==
  ASSUME AheadDays >= 2, Inv, Covered,
         EnsurePartitions \/ ExistingPartitions \/ DropOldPartitions \/ RunSucceeds \/ RunFails
  PROVE  Covered'
<1> USE RetentionAssumption DEF Inv
<1>1. current \in Nat /\ current' = current
  BY DEF EnsurePartitions, ExistingPartitions, DropOldPartitions, RunSucceeds, RunFails, PartitionsTypeOK
<1>2. CASE EnsurePartitions
  <2>1. current..current + 2 \subseteq Window(current)
    BY <1>1 DEF Window, BehindDays
  <2>2. QED
    BY <1>1, <1>2, <2>1 DEF EnsurePartitions, Covered
<1>3. CASE ExistingPartitions
  BY <1>1, <1>3 DEF ExistingPartitions, storage, Covered
<1>4. CASE DropOldPartitions
  <2>1. \A day \in current..current + 2 : ~Expired(day)
    BY <1>1 DEF Expired
  <2>2. current..current + 2 \subseteq parts'
    BY <1>4, <2>1 DEF DropOldPartitions, Covered
  <2>3. QED
    BY <1>1, <1>4, <2>2 DEF DropOldPartitions, Covered
<1>5. CASE RunSucceeds
  BY <1>1, <1>5 DEF RunSucceeds, storage, Covered
<1>6. CASE RunFails
  BY <1>6 DEF RunFails, Covered
<1>7. QED
  BY <1>2, <1>3, <1>4, <1>5, <1>6

(* So do the others: rows, midnights and the end of the process. *)
LEMMA CoveredOthers ==
  ASSUME AheadDays >= 2, Inv, Covered,
         StopApp \/ Sample \/ (\E day \in Days : Insert(day)) \/ TimePasses
  PROVE  Covered'
<1> USE DEF Inv
<1>1. CASE StopApp
  BY <1>1 DEF StopApp, Covered
<1>2. CASE Sample \/ \E day \in Days : Insert(day)
  BY <1>2 DEF Sample, Insert, storage, maintenance, Covered
<1>3. CASE TimePasses
  <2>1. /\ UNCHANGED <<parts, app, run, current, error>>
        /\ clock' = clock + 1 /\ since' = IF app = "down" THEN 0 ELSE since + 1
    BY <1>3 DEF TimePasses, storage
  <2>2. clock \in Nat /\ since \in Nat
    BY DEF PartitionsTypeOK
  <2>3. run = "ensure" => clock' + 1 - since' = clock + 1 - since
    BY <2>1, <2>2 DEF RunDates
  <2>4. \A day \in Nat : clock' <= 2 * day + 1 => clock <= 2 * day + 1
    BY <2>1, <2>2
  <2>5. QED
    BY <2>1, <2>3, <2>4 DEF Covered
<1>4. QED
  BY <1>1, <1>2, <1>3

(* A loop whose last run succeeded has a partition for today, for every    *)
(* number of days created ahead from two on: the configuration also allows *)
(* one, for which it is false.                                             *)
THEOREM TodayAlwaysCovered == AheadDays >= 2 => (PartitionsSpec => []TodayCovered)
<1> SUFFICES ASSUME AheadDays >= 2 PROVE PartitionsSpec => []TodayCovered
  OBVIOUS
<1>1. PartitionsInit => Covered
  BY DEF PartitionsInit, Covered
<1>2. Inv /\ Covered /\ [PartitionsNext]_partitionVars => Covered'
  <2> SUFFICES ASSUME Inv, Covered, [PartitionsNext]_partitionVars PROVE Covered'
    OBVIOUS
  <2>1. CASE UNCHANGED partitionVars
    BY <2>1 DEF Covered, partitionVars, storage, maintenance
  <2>2. CASE PartitionsNext
    BY <2>2, CoveredStart, CoveredRun, CoveredOthers DEF PartitionsNext
  <2>3. QED
    BY <2>1, <2>2
<1>3. Inv /\ Covered => TodayCovered
  <2> SUFFICES ASSUME Inv, Covered, app = "up", ~error PROVE today \in parts
    BY DEF TodayCovered
  <2>1. clock \in Nat /\ current \in Nat /\ since \in 0..3
        /\ 2 * current <= clock - since /\ clock - since <= 2 * current + 1
    BY DEF Inv, PartitionsTypeOK, RunDates
  <2>2. today \in Nat /\ 2 * today <= clock /\ clock <= 2 * today + 1
    BY <2>1, TodayBounds
  <2>3. CASE run = "ensure"
    BY <2>1, <2>2, <2>3 DEF Covered, Inv, RunDates
  <2>4. CASE run # "ensure"
    <3>1. current..current + 2 \subseteq parts
      BY <2>4 DEF Covered, Inv, PartitionsTypeOK
    <3>2. today \in current..current + 2
      BY <2>1, <2>2
    <3>3. QED
      BY <3>1, <3>2
  <2>5. QED
    BY <2>3, <2>4
<1>4. QED
  BY InitInv, StepKeepsInv, <1>1, <1>2, <1>3, PTL DEF PartitionsSpec

-----------------------------------------------------------------------------
(* Downsampling. *)


(* The runs are no further apart than the interval, and nothing is sampled *)
(* before the first.                                                       *)
RunTimes ==
  IF lastRun = NoRun THEN raw = {} /\ pending = {}
                     ELSE lastRun <= now /\ now <= lastRun + Interval

Recent == \A t \in pending : now <= t + Margin

(* The safety margin outlasts the writer's delays: 5 s against a flush     *)
(* every second.                                                           *)
MarginSuffices == MaxLate <= Margin /\ 0 < Margin

-----------------------------------------------------------------------------
(* A row belongs to one bucket, and lies between its start and its end.    *)
LEMMA BucketOfRow ==
  ASSUME NEW t \in Times
  PROVE  /\ t \div BucketSize \in Buckets
         /\ Starts(t \div BucketSize) <= t /\ t < Ends(t \div BucketSize)
<1> USE LevelAssumption, LevelBoundsAssumption DEF Times
<1>1. t \div BucketSize \in Nat /\ t \div BucketSize <= MaxTime \div BucketSize
  OBVIOUS
<1>2. MaxTime \div BucketSize \in Nat
  OBVIOUS
<1>3. (t \div BucketSize) * BucketSize <= t /\ t < (t \div BucketSize + 1) * BucketSize
  OBVIOUS
<1>4. QED
  BY <1>1, <1>2, <1>3 DEF Buckets, Starts, Ends

LEMMA SeriesInitInv == SeriesInit => SeriesTypeOK /\ RunTimes /\ Recent /\ WindowWhole
<1> SUFFICES ASSUME SeriesInit PROVE SeriesTypeOK /\ RunTimes /\ Recent /\ WindowWhole
  OBVIOUS
<1> USE LevelAssumption, LevelBoundsAssumption DEF SeriesInit
<1>1. SeriesTypeOK
  BY DEF SeriesTypeOK, Times, NoRun, RowsOf
<1>2. RunTimes /\ Recent /\ WindowWhole
  BY DEF RunTimes, Recent, WindowWhole
<1>3. QED
  BY <1>1, <1>2

(* What an aggregation does: buckets with rows in the window are replaced. *)
LEMMA Aggregated ==
  ASSUME SeriesTypeOK, NEW time \in Times, Aggregate(time), raw' = raw
  PROVE  /\ lastRun' = time
         /\ buckets' \in [Buckets -> SUBSET Times]
         /\ \A b \in Buckets : buckets'[b] = IF Selected(b, time) = {} THEN buckets[b] ELSE Selected(b, time)
         /\ \A b \in Buckets : buckets'[b] \subseteq RowsOf(b)'
<1>1. lastRun' = time
  BY DEF Aggregate
<1>2. \A b \in Buckets : Selected(b, time) \subseteq RowsOf(b) /\ RowsOf(b)' = RowsOf(b)
                           /\ RowsOf(b) \subseteq Times
  BY DEF Selected, RowsOf, SeriesTypeOK
<1>3. \A b \in Buckets : buckets'[b] = IF Selected(b, time) = {} THEN buckets[b] ELSE Selected(b, time)
  BY DEF Aggregate, Upsert
<1>4. \A b \in Buckets : buckets'[b] \subseteq RowsOf(b)' /\ buckets'[b] \subseteq Times
  BY <1>2, <1>3 DEF SeriesTypeOK
<1>5. buckets' = [b \in Buckets |-> buckets'[b]]
  BY DEF Aggregate
<1>6. QED
  BY <1>1, <1>3, <1>4, <1>5

-----------------------------------------------------------------------------
(* The types, and the times of the runs, whatever the constants are.       *)
Base == SeriesTypeOK /\ RunTimes

(* Types, run times and the age of rows are kept by every step. *)
LEMMA BaseStep == Base /\ [SeriesNext]_seriesVars => Base'
<1> SUFFICES ASSUME Base, [SeriesNext]_seriesVars PROVE Base'
  OBVIOUS
<1> USE LevelAssumption, LevelBoundsAssumption
<1>1. now \in 0..MaxTime /\ lastRun \in 0..MaxTime \cup {NoRun} /\ restarts \in 0..MaxRestarts
  BY DEF Base, SeriesTypeOK, Times
<1>2. CASE SampleRow
  <2>1. /\ now < MaxTime /\ lastRun # NoRun /\ now < lastRun + Interval /\ now' = now + 1
        /\ pending' \subseteq pending \cup {now}
        /\ UNCHANGED <<raw, buckets, lastRun, restarts>>
    BY <1>2 DEF SampleRow
  <2>2. now' \in Times /\ pending' \subseteq Times
    BY <1>1, <2>1 DEF Base, SeriesTypeOK, Times
  <2>3. SeriesTypeOK'
    BY <2>1, <2>2 DEF Base, SeriesTypeOK, RowsOf
  <2>4. RunTimes'
    BY <1>1, <2>1 DEF Base, RunTimes, NoRun
  <2>5. QED
    BY <2>3, <2>4 DEF Base
<1>3. CASE InsertBatch
  <2>1. /\ pending' \subseteq pending /\ raw \subseteq raw' /\ raw' \subseteq raw \cup pending
        /\ UNCHANGED <<now, buckets, lastRun, restarts>>
    BY <1>3 DEF InsertBatch
  <2>2. \A b \in Buckets : RowsOf(b) \subseteq RowsOf(b)'
    BY <2>1 DEF RowsOf
  <2>3. SeriesTypeOK'
    BY <2>1, <2>2 DEF Base, SeriesTypeOK
  <2>4. RunTimes'
    BY <2>1 DEF Base, RunTimes
  <2>5. QED
    BY <2>3, <2>4 DEF Base
<1>4. CASE Maintain \/ StartRun
  <2>1. /\ now' \in Times /\ Aggregate(now') /\ pending' \subseteq pending /\ raw' = raw
        /\ restarts' = restarts \/ (restarts < MaxRestarts /\ restarts' = restarts + 1)
    BY <1>1, <1>4 DEF Maintain, StartRun, Times
  <2>2. PICK time \in Times : time = now' /\ Aggregate(time)
    BY <2>1
  <2>3. /\ lastRun' = time /\ buckets' \in [Buckets -> SUBSET Times]
        /\ \A b \in Buckets : buckets'[b] \subseteq RowsOf(b)'
    BY <2>1, <2>2, Aggregated DEF Base
  <2>4. restarts' \in 0..MaxRestarts
    BY <1>1, <2>1
  <2>5. SeriesTypeOK'
    BY <2>1, <2>2, <2>3, <2>4 DEF Base, SeriesTypeOK
  <2>6. RunTimes'
    <3>1. lastRun' = time /\ now' = time /\ time \in Nat /\ Interval \in Nat
      BY <2>2, <2>3 DEF Times
    <3>2. time # NoRun /\ time <= time + Interval
      BY <3>1 DEF NoRun
    <3>3. QED
      BY <3>1, <3>2 DEF RunTimes
  <2>7. QED
    BY <2>5, <2>6 DEF Base
<1>5. CASE UNCHANGED seriesVars
  BY <1>5 DEF Base, SeriesTypeOK, RunTimes, RowsOf, seriesVars
<1>6. QED
  BY <1>2, <1>3, <1>4, <1>5 DEF SeriesNext

(* What the writer still holds is no older than the margin. *)
LEMMA RecentStep == MarginSuffices /\ Base /\ Recent /\ [SeriesNext]_seriesVars => Recent'
<1> SUFFICES ASSUME MarginSuffices, Base, Recent, [SeriesNext]_seriesVars, NEW t \in pending'
             PROVE  now' <= t + Margin
  BY DEF Recent
<1> USE LevelAssumption DEF MarginSuffices
<1>1. now \in Nat /\ pending \subseteq Nat
  BY LevelBoundsAssumption DEF Base, SeriesTypeOK, Times
<1>2. CASE SampleRow
  BY <1>1, <1>2 DEF SampleRow
<1>3. CASE StartRun
  BY <1>3 DEF StartRun
<1>4. CASE InsertBatch \/ Maintain \/ UNCHANGED seriesVars
  BY <1>4 DEF InsertBatch, Maintain, seriesVars, Recent
<1>5. QED
  BY <1>2, <1>3, <1>4 DEF SeriesNext

(* Inserting a row changes no bucket that ends before the last window does. *)
LEMMA LateRowsAreNew ==
  ASSUME Base, Recent, InsertBatch, lastRun # NoRun, NEW t \in raw' \ raw
  PROVE  lastRun - Margin <= t
<1>1. t \in pending
  BY DEF InsertBatch
<1>2. now \in Nat /\ lastRun \in Nat /\ t \in Nat /\ lastRun <= now
  BY <1>1, LevelBoundsAssumption DEF Base, SeriesTypeOK, Times, RunTimes
<1>3. QED
  BY <1>1, <1>2, LevelAssumption DEF Recent

(* Every step leaves the aggregates of the window whole. *)
LEMMA WholeStep == Base /\ Recent /\ WindowWhole /\ [SeriesNext]_seriesVars => WindowWhole'
<1> SUFFICES ASSUME Base, Recent, WindowWhole, [SeriesNext]_seriesVars, lastRun' # NoRun, NEW b \in Buckets,
                    Starts(b) >= lastRun' - Lookback, Ends(b) <= lastRun' - Margin
             PROVE  buckets'[b] = RowsOf(b)'
  BY DEF WindowWhole, Starts, Ends
<1> USE LevelAssumption, LevelBoundsAssumption
<1>1. /\ raw \subseteq Times /\ pending \subseteq Times /\ now \in Nat
      /\ buckets[b] \subseteq RowsOf(b)
      /\ b \in Nat /\ Starts(b) \in Nat /\ Ends(b) \in Nat
  <2>1. MaxTime \div BucketSize \in Nat
    OBVIOUS
  <2>2. b \in Nat
    BY <2>1 DEF Buckets
  <2>3. Starts(b) \in Nat /\ Ends(b) \in Nat
    BY <2>2 DEF Starts, Ends
  <2>4. QED
    BY <2>2, <2>3 DEF Base, SeriesTypeOK, Times
<1>2. CASE SampleRow \/ UNCHANGED seriesVars
  BY <1>2 DEF SampleRow, seriesVars, WindowWhole, RowsOf
<1>3. CASE InsertBatch
  <2>1. /\ lastRun' = lastRun /\ buckets' = buckets /\ raw \subseteq raw'
        /\ raw' \subseteq Times
    BY <1>1, <1>3 DEF InsertBatch
  <2>2. ASSUME NEW t \in raw' \ raw PROVE t \div BucketSize # b
    <3>1. lastRun - Margin <= t /\ t \in Times /\ lastRun \in Int
      BY <1>3, <2>1, LateRowsAreNew DEF Base, SeriesTypeOK, NoRun, Times
    <3>2. t \div BucketSize = b => t < Ends(b)
      BY <3>1, BucketOfRow
    <3>3. QED
      BY <1>1, <2>1, <3>1, <3>2 DEF Times
  <2>3. RowsOf(b)' = RowsOf(b)
    BY <2>1, <2>2 DEF RowsOf
  <2>4. QED
    BY <2>1, <2>3 DEF WindowWhole
<1>4. CASE Maintain \/ StartRun
  <2>1. now' \in Times /\ Aggregate(now') /\ raw' = raw
    <3>1. now \in Times
      BY DEF Base, SeriesTypeOK
    <3>2. QED
      BY <1>1, <1>4, <3>1 DEF Maintain, StartRun, Times
  <2>2. PICK time \in Times : time = now' /\ Aggregate(time)
    BY <2>1
  <2>3. /\ lastRun' = time /\ time \in Nat
        /\ buckets'[b] = IF Selected(b, time) = {} THEN buckets[b] ELSE Selected(b, time)
    BY <2>1, <2>2, Aggregated DEF Base, Times
  <2>4. RowsOf(b) \subseteq Selected(b, time)
    <3> SUFFICES ASSUME NEW t \in RowsOf(b) PROVE t \in Selected(b, time)
      OBVIOUS
    <3>1. t \in raw /\ t \in Times /\ t \div BucketSize = b
      BY <1>1 DEF RowsOf
    <3>2. Starts(b) <= t /\ t < Ends(b) /\ t \in Nat
      BY <3>1, BucketOfRow DEF Times
    <3>3. time - Lookback <= t /\ t < time - Margin
      BY <1>1, <2>3, <3>2
    <3>4. QED
      BY <3>1, <3>3 DEF Selected, LowerBound, UpperBound
  <2>5. Selected(b, time) = RowsOf(b)
    BY <2>4 DEF Selected, RowsOf
  <2>6. RowsOf(b)' = RowsOf(b)
    BY <2>1 DEF RowsOf
  <2>7. QED
    BY <1>1, <2>3, <2>5, <2>6
<1>5. QED
  BY <1>2, <1>3, <1>4 DEF SeriesNext

-----------------------------------------------------------------------------
(* The variables keep their types, and an aggregate holds rows of its own  *)
(* bucket only.                                                            *)
THEOREM DownsamplingTypeCorrect == SeriesSpec => []SeriesTypeOK
<1>1. Base => SeriesTypeOK
  BY DEF Base
<1>2. SeriesInit => Base
  BY SeriesInitInv DEF Base
<1>3. QED
  BY <1>1, <1>2, BaseStep, PTL DEF SeriesSpec

(* A bucket within the window of the last run was aggregated from all its  *)
(* rows, if the margin covers the delays of the writer.                    *)
THEOREM WindowAlwaysWhole == MarginSuffices => (SeriesSpec => []WindowWhole)
<1> SUFFICES ASSUME MarginSuffices PROVE SeriesSpec => []WindowWhole
  OBVIOUS
<1>1. SeriesInit => Base /\ Recent /\ WindowWhole
  BY SeriesInitInv DEF Base
<1>2. Base /\ Recent /\ WindowWhole /\ [SeriesNext]_seriesVars => (Base /\ Recent /\ WindowWhole)'
  BY BaseStep, RecentStep, WholeStep
<1>3. QED
  BY <1>1, <1>2, PTL DEF SeriesSpec
=============================================================================
