------------------------------ MODULE Partitions ------------------------------
(***************************************************************************)
(* The daily partitions of quotes_1s: RetentionManager.run_once()          *)
(* (services/retention_manager.py) with PartitionManager                   *)
(* (database/partitioning.py), run at startup (main.py) and once a day     *)
(* after it, beside the recorder and the writer that fill the table.       *)
(*                                                                         *)
(* Time is counted in half days; a day stands for its partition and for    *)
(* its rows.  A row of a day without a partition goes to quotes_1s_default,    *)
(* and PostgreSQL refuses to create a partition that the default one has   *)
(* rows of.  Each session of run_once() is one transaction, one step here. *)
(* Operators marked "Fault" are mutated forms of the one that follows      *)
(* them; they show which property notices the bug and occur nowhere else.  *)
(***************************************************************************)
EXTENDS Integers

CONSTANTS
  AheadDays,    (* retention.partition_ahead_days                          *)
  RawDays,      (* retention.raw_retention_days                            *)
  MaxDay,       (* bound: the days that pass                               *)
  MaxFailures   (* bound: maintenance steps that fail in the database      *)

BehindDays == 1   (* the default of ensure_partitions()                    *)

ASSUME RetentionAssumption == AheadDays \in Nat \ {0} /\ RawDays \in Nat \ {0}
ASSUME RetentionBoundsAssumption == MaxDay \in Nat \ {0} /\ MaxFailures \in Nat

VARIABLES
  clock,      (* half days                                                 *)
  parts,      (* the days that have a partition                            *)
  inPart,     (* the days with rows in their partition                     *)
  inDefault,  (* the days with rows in quotes_1s_default                   *)
  app,        (* "down", "starting" or "up"                                *)
  queued,     (* the days with rows in the writer's queue                  *)
  run,        (* where run_once() is suspended, or "idle"                  *)
  current,    (* its local `current`                                       *)
  names,      (* its list of existing_partitions()                         *)
  since,      (* half days since the run began                             *)
  error,      (* metrics.last_error is set, or there was no run yet        *)
  failures    (* database failures so far                                  *)

storage == <<parts, inPart, inDefault>>
maintenance == <<run, current, names, since, error>>
partitionVars == <<clock, storage, app, queued, maintenance, failures>>

today == clock \div 2

Days == 0..MaxDay + AheadDays

PartitionsTypeOK ==
  /\ clock \in 2..2 * MaxDay + 1
  /\ parts \subseteq Days /\ inPart \subseteq parts /\ inDefault \subseteq Days \ parts
  /\ app \in {"down", "starting", "up"} /\ queued \subseteq Days
  /\ run \in {"idle", "ensure", "list", "drop", "aggregate"}
  /\ current \in 1..MaxDay /\ names \subseteq Days /\ since \in 0..3
  /\ error \in BOOLEAN /\ failures \in 0..MaxFailures

(* After the migrations: only the default partition, without rows. *)
PartitionsInit ==
  /\ clock = 2 /\ current = 1
  /\ parts = {} /\ inPart = {} /\ inDefault = {}
  /\ app = "down" /\ queued = {}
  /\ run = "idle" /\ names = {} /\ since = 0
  /\ error = TRUE /\ failures = 0

-----------------------------------------------------------------------------
(* The application.                                                        *)

(* lifespan() starts the writer and the recorder and awaits run_once(). *)
StartApp ==
  /\ app = "down"
  /\ app' = "starting"
  /\ run' = "ensure" /\ current' = today
  /\ since' = 0 /\ error' = TRUE
  /\ UNCHANGED <<clock, storage, queued, names, failures>>

(* retention.start(): the loop runs at once. *)
StartLoop ==
  /\ app = "starting"
  /\ run = "idle"
  /\ app' = "up"
  /\ run' = "ensure" /\ current' = today /\ since' = 0
  /\ UNCHANGED <<clock, storage, queued, names, error, failures>>

(* The process ends; what the writer still held is lost. *)
StopApp ==
  /\ app # "down"
  /\ app' = "down" /\ queued' = {} /\ run' = "idle" /\ names' = {}
  /\ UNCHANGED <<clock, storage, current, since, error, failures>>

Sample ==
  /\ app # "down"
  /\ queued' = queued \cup {today}
  /\ UNCHANGED <<clock, storage, app, maintenance, failures>>

(* A batch is inserted, or lost. *)
Insert(day) ==
  /\ day \in queued
  /\ queued' = queued \ {day}
  /\ IF day \in parts
       THEN inPart' = inPart \cup {day} /\ UNCHANGED inDefault
       ELSE inDefault' = inDefault \cup {day} /\ UNCHANGED inPart
  /\ UNCHANGED <<clock, parts, app, maintenance, failures>>

-----------------------------------------------------------------------------
(* run_once().                                                             *)

(* Fault: the last day of the range is left out. *)
WindowExclusive(day) == day - BehindDays..day + AheadDays - 1

(* Fault: one day more in the past. *)
WindowTwoBehind(day) == day - BehindDays - 1..day + AheadDays

Window(day) == day - BehindDays..day + AheadDays

Conflict == (Window(current) \ parts) \cap inDefault # {}

EnsurePartitions ==
  /\ run = "ensure"
  /\ ~Conflict
  /\ parts' = parts \cup Window(current)
  /\ run' = "list"
  /\ UNCHANGED <<clock, inPart, inDefault, app, queued, current, names, since, error, failures>>

ExistingPartitions ==
  /\ run = "list"
  /\ names' = parts
  /\ run' = "drop"
  /\ UNCHANGED <<clock, storage, app, queued, current, since, error, failures>>

(* Fault: the day of the cutoff is dropped too. *)
ExpiredOneMore(day) == day <= current - RawDays

Expired(day) == day < current - RawDays

DropOldPartitions ==
  /\ run = "drop"
  /\ LET dropped == {day \in names : Expired(day)}
     IN  parts' = parts \ dropped /\ inPart' = inPart \ dropped
  /\ names' = {}
  /\ run' = "aggregate"
  /\ UNCHANGED <<clock, inDefault, app, queued, current, since, error, failures>>

(* Downsampling, expired rows and sizes: the run has succeeded. *)
RunSucceeds ==
  /\ run = "aggregate"
  /\ run' = "idle" /\ error' = FALSE
  /\ UNCHANGED <<clock, storage, app, queued, current, names, since, failures>>

(* A step raises: the steps after it are not run. *)
RunFails ==
  /\ \/ run = "ensure" /\ Conflict /\ UNCHANGED failures
     \/ run # "idle" /\ failures < MaxFailures /\ failures' = failures + 1
  /\ run' = "idle" /\ error' = TRUE /\ names' = {}
  /\ UNCHANGED <<clock, storage, app, queued, current, since>>

(* The loop sleeps 24 hours after a run; with the time the runs take it    *)
(* wakes up later every day, and at last misses a day.                     *)
Wake ==
  /\ app = "up"
  /\ run = "idle"
  /\ since >= 2
  /\ run' = "ensure" /\ current' = today /\ since' = 0
  /\ UNCHANGED <<clock, storage, app, queued, names, error, failures>>

(* A run, and a row in the queue, take less than half a day. *)
TimePasses ==
  /\ clock < 2 * MaxDay + 1
  /\ app # "down" => /\ since < (IF run = "idle" THEN 3 ELSE 1)
                     /\ app = "starting" => run # "idle"
                     /\ queued \subseteq {today}
  /\ clock' = clock + 1
  /\ since' = IF app = "down" THEN 0 ELSE since + 1
  /\ UNCHANGED <<storage, app, queued, run, current, names, error, failures>>

PartitionsNext ==
  \/ StartApp \/ StartLoop \/ StopApp \/ Sample
  \/ \E day \in Days : Insert(day)
  \/ EnsurePartitions \/ ExistingPartitions \/ DropOldPartitions
  \/ RunSucceeds \/ RunFails \/ Wake \/ TimePasses

PartitionsSpec == PartitionsInit /\ [][PartitionsNext]_partitionVars

-----------------------------------------------------------------------------
(* Properties.                                                             *)

(* Rows are dropped only when they are older than the retention of raw     *)
(* data, even by a run that midnight overtakes.                            *)
RecentRowsKept == [][ inPart \ inPart' \subseteq {day \in Days : day < today - RawDays} ]_partitionVars

(* As long as the last run succeeded, the rows of today have a partition   *)
(* to go to, however the wake-ups of the loop slide past midnight.         *)
TodayCovered == app = "up" /\ ~error => today \in parts
=============================================================================
