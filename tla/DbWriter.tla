------------------------------- MODULE DbWriter ------------------------------
(***************************************************************************)
(* The asynchronous database writer, src/backend/app/database/writer.py:   *)
(* a bounded queue filled by synchronous producers (HistoryRecorder) and   *)
(* drained in batches by one asyncio task; each batch is one transaction   *)
(* (MarketDataRepository.bulk_insert).                                     *)
(*                                                                         *)
(* A step is what the code does between two suspension points.  Rows are   *)
(* numbered in the order enqueue() is called, so a row is its number.      *)
(* Taking one row from the queue is a step of its own: asyncio.wait_for    *)
(* runs Queue.get in a task on Python 3.11, so producers run in between.   *)
(* Operators marked "Fault" are mutated forms of the one that follows      *)
(* them; they show which property notices the bug and occur nowhere else.  *)
(***************************************************************************)
EXTENDS Naturals, Sequences

CONSTANTS
  QueueSize,      (* config.write_queue_size                               *)
  BatchMaxRows,   (* config.batch_max_rows                                 *)
  OverflowPolicy, (* config.queue_overflow_policy                          *)
  MaxRows,        (* bound: rows the producers offer                       *)
  MaxAborts       (* bound: shutdowns that run into the flush timeout      *)

DropNewest == "drop_newest"
DropOldest == "drop_oldest"
Block      == "block"

ASSUME SizesAssumption ==
  /\ QueueSize \in Nat \ {0}
  /\ BatchMaxRows \in Nat \ {0}
ASSUME PolicyAssumption == OverflowPolicy \in {DropNewest, DropOldest, Block}
ASSUME BoundsAssumption == MaxRows \in Nat /\ MaxAborts \in Nat

VARIABLES
  queue,     (* DbWriter._queue                                            *)
  batch,     (* the local `batch` of _run while it collects or writes      *)
  task,      (* DbWriter._task: where the writer task is suspended         *)
  stopping,  (* DbWriter._stopping                                         *)
  stop,      (* where a call of stop() is suspended                        *)
  metrics,   (* DbWriter.metrics                                           *)
  db,        (* the committed rows, in commit order                        *)
  offered,   (* history: calls of enqueue()                                *)
  aborts,    (* history: batches cancelled by stop()                       *)
  stopMark   (* history: `offered` when stop() was last called             *)

vars == <<queue, batch, task, stopping, stop, metrics, db,
          offered, aborts, stopMark>>
history == <<aborts, stopMark>>

NoTask    == "none"       (* _task is None                                 *)
Collect   == "collect"    (* suspended in _queue.get()                     *)
Write     == "write"      (* suspended in flush()                          *)
Drained   == "drained"    (* _run has returned                             *)
Cancelled == "cancelled"  (* _run has ended with CancelledError            *)

Idle      == "idle"       (* stop() is not running                         *)
Waiting   == "waiting"    (* stop() awaits wait_for(_task, ...)            *)
Cleaning  == "cleaning"   (* stop() awaits the cancelled _task             *)

Metrics == [enqueued_total : Nat, written_total : Nat, dropped_total : Nat,
            failed_batches : Nat, batches_total : Nat]

TypeOK ==
  /\ queue \in Seq(Nat) /\ Len(queue) <= QueueSize
  /\ batch \in Seq(Nat) /\ Len(batch) <= BatchMaxRows
  /\ task \in {NoTask, Collect, Write, Drained, Cancelled}
  /\ stopping \in BOOLEAN
  /\ stop \in {Idle, Waiting, Cleaning}
  /\ metrics \in Metrics
  /\ db \in Seq(Nat)
  /\ offered \in Nat /\ aborts \in Nat /\ stopMark \in Nat

Init ==
  /\ queue = <<>> /\ batch = <<>> /\ db = <<>>
  /\ task = NoTask /\ stopping = FALSE /\ stop = Idle
  /\ metrics = [enqueued_total |-> 0, written_total |-> 0, dropped_total |-> 0,
                failed_batches |-> 0, batches_total |-> 0]
  /\ offered = 0 /\ aborts = 0 /\ stopMark = 0

-----------------------------------------------------------------------------
(* Producer side: enqueue() is synchronous and never waits.                *)

(* Fault: the bound is off by one. *)
EnqueueFitsOffByOne ==
  /\ Len(queue) <= QueueSize
  /\ queue' = Append(queue, offered')
  /\ metrics' = [metrics EXCEPT !.enqueued_total = @ + 1]

EnqueueFits ==
  /\ Len(queue) < QueueSize
  /\ queue' = Append(queue, offered')
  /\ metrics' = [metrics EXCEPT !.enqueued_total = @ + 1]

(* DROP_NEWEST and BLOCK: the new row is refused. *)
EnqueueRefused ==
  /\ Len(queue) = QueueSize
  /\ OverflowPolicy # DropOldest
  /\ metrics' = [metrics EXCEPT !.dropped_total = @ + 1]
  /\ UNCHANGED queue

(* Fault: the evicted row is not counted. *)
EnqueueEvictsSilently ==
  /\ Len(queue) = QueueSize
  /\ OverflowPolicy = DropOldest
  /\ queue' = Append(Tail(queue), offered')
  /\ metrics' = [metrics EXCEPT !.enqueued_total = @ + 1]

(* DROP_OLDEST: the head of the queue makes room. *)
EnqueueEvicts ==
  /\ Len(queue) = QueueSize
  /\ OverflowPolicy = DropOldest
  /\ queue' = Append(Tail(queue), offered')
  /\ metrics' = [metrics EXCEPT !.dropped_total = @ + 1,
                                !.enqueued_total = @ + 1]

Enqueue ==
  /\ offered < MaxRows
  /\ offered' = offered + 1
  /\ EnqueueFits \/ EnqueueRefused \/ EnqueueEvicts
  /\ UNCHANGED <<batch, task, stopping, stop, db, history>>

-----------------------------------------------------------------------------
(* Consumer side: the task created by start().                             *)

(* Fault: the task ends as soon as stop() is called. *)
LoopTestStopsAtOnce(q) == IF stopping THEN Drained ELSE Collect

(* The test of _run's loop, on the queue it finds. *)
LoopTest(q) == IF stopping /\ q = <<>> THEN Drained ELSE Collect

Start ==
  /\ task = NoTask
  /\ stopping' = FALSE
  /\ task' = Collect
  /\ UNCHANGED <<queue, batch, stop, metrics, db, offered, history>>

(* Fault: the batch is built newest row first. *)
CollectRowLifo ==
  /\ task = Collect
  /\ queue # <<>>
  /\ batch' = <<Head(queue)>> \o batch
  /\ queue' = Tail(queue)
  /\ task' = IF Len(batch') = BatchMaxRows \/ (stopping /\ queue' = <<>>)
               THEN Write ELSE Collect
  /\ UNCHANGED <<stopping, stop, metrics, db, offered, history>>

(* _collect_batch leaves its loop when the batch is full, or when it has   *)
(* taken the last row of a writer that is stopping.                        *)
CollectRow ==
  /\ task = Collect
  /\ queue # <<>>
  /\ batch' = Append(batch, Head(queue))
  /\ queue' = Tail(queue)
  /\ task' = IF Len(batch') = BatchMaxRows \/ (stopping /\ queue' = <<>>)
               THEN Write ELSE Collect
  /\ UNCHANGED <<stopping, stop, metrics, db, offered, history>>

(* Fault: only a full batch is written. *)
CollectTimeoutFullOnly ==
  /\ task = Collect
  /\ task' = IF batch # <<>> THEN Collect ELSE LoopTest(queue)
  /\ UNCHANGED <<queue, batch, stopping, stop, metrics, db, offered, history>>

(* The interval runs out: a non-empty batch is written, an empty one sends *)
(* _run back to its loop test.                                             *)
CollectTimeout ==
  /\ task = Collect
  /\ task' = IF batch # <<>> THEN Write ELSE LoopTest(queue)
  /\ UNCHANGED <<queue, batch, stopping, stop, metrics, db, offered, history>>

FlushSucceeds ==
  /\ task = Write
  /\ db' = db \o batch
  /\ batch' = <<>>
  /\ metrics' = [metrics EXCEPT !.batches_total = @ + 1,
                                !.written_total = @ + Len(batch)]
  /\ task' = LoopTest(queue)
  /\ UNCHANGED <<queue, stopping, stop, offered, history>>

(* Fault: the batch is written again after an error, committed or not. *)
FlushFailsRetries ==
  /\ task = Write
  /\ db' \in {db, db \o batch}
  /\ metrics' = [metrics EXCEPT !.failed_batches = @ + 1]
  /\ UNCHANGED <<queue, batch, task, stopping, stop, offered, history>>

(* flush() raises: the transaction was rolled back, or it was committed    *)
(* and the acknowledgement was lost.                                       *)
FlushFails ==
  /\ task = Write
  /\ db' \in {db, db \o batch}
  /\ batch' = <<>>
  /\ metrics' = [metrics EXCEPT !.failed_batches = @ + 1]
  /\ task' = LoopTest(queue)
  /\ UNCHANGED <<queue, stopping, stop, offered, history>>

-----------------------------------------------------------------------------
(* Shutdown.                                                               *)

StopCall ==
  /\ stop = Idle
  /\ aborts < MaxAborts
  /\ stopping' = TRUE
  /\ stop' = IF task = NoTask THEN Idle ELSE Waiting
  /\ stopMark' = offered
  /\ UNCHANGED <<queue, batch, task, metrics, db, offered, aborts>>

(* shutdown_flush_timeout_s elapses: wait_for cancels the task, which may  *)
(* be collecting, or writing a transaction that is or is not committed.    *)
StopTimeout ==
  /\ stop = Waiting
  /\ task \in {Collect, Write}
  /\ task' = Cancelled
  /\ batch' = <<>>
  /\ db' \in IF task = Write THEN {db, db \o batch} ELSE {db}
  /\ stop' = Cleaning
  /\ aborts' = aborts + 1
  /\ UNCHANGED <<queue, stopping, metrics, offered, stopMark>>

(* Fault: the CancelledError of the cancelled task is not handled. *)
StopReturnDrainedOnly ==
  /\ stop = Waiting /\ task = Drained
  /\ stop' = Idle
  /\ task' = NoTask
  /\ UNCHANGED <<queue, batch, stopping, metrics, db, offered, history>>

StopReturn ==
  /\ \/ stop = Waiting /\ task = Drained
     \/ stop = Cleaning /\ task = Cancelled
  /\ stop' = Idle
  /\ task' = NoTask
  /\ UNCHANGED <<queue, batch, stopping, metrics, db, offered, history>>

-----------------------------------------------------------------------------
WriterStep == CollectRow \/ CollectTimeout
Flush == FlushSucceeds \/ FlushFails

Next ==
  \/ Enqueue
  \/ Start \/ WriterStep \/ Flush
  \/ StopCall \/ StopTimeout \/ StopReturn

Spec == Init /\ [][Next]_vars

(* The event loop runs the writer task, its interval timer, stop() and the *)
(* timer of stop(), and the database answers every flush, one way or the   *)
(* other.                                                                  *)
Fairness ==
  /\ WF_vars(CollectRow) /\ WF_vars(CollectTimeout) /\ WF_vars(Flush)
  /\ WF_vars(StopTimeout) /\ WF_vars(StopReturn)

LiveSpec == Spec /\ Fairness

-----------------------------------------------------------------------------
(* Properties.                                                             *)

Increasing(s) == \A i, j \in 1..Len(s) : i < j => s[i] < s[j]
Before(s, t) == \A i \in 1..Len(s), j \in 1..Len(t) : s[i] < t[j]
UpTo(s, n) == \A i \in 1..Len(s) : s[i] <= n

(* The database, the batch in flight and the queue, read in this order,    *)
(* list rows strictly in the order enqueue() received them: nothing is     *)
(* written twice, reordered or written after it was dropped, whatever      *)
(* flush failures, evictions and cancelled shutdowns happen in between.    *)
PipelineOrdered ==
  /\ Increasing(db) /\ Increasing(batch) /\ Increasing(queue)
  /\ Before(db, batch) /\ Before(batch, queue) /\ Before(db, queue)
  /\ UpTo(db, offered) /\ UpTo(batch, offered) /\ UpTo(queue, offered)

(* Rows that are nowhere any more: not stored, in flight or queued. *)
Lost == offered - (Len(db) + Len(batch) + Len(queue))

(* As long as no flush failed and no stop was cut short, the rows that are *)
(* nowhere any more are exactly those counted in dropped_total, whichever  *)
(* of them the overflow policy gave up.                                    *)
DropsCounted == metrics.failed_batches = 0 /\ aborts = 0 => Lost = metrics.dropped_total

(* All losses are counted, says writer.py:6.  Even without a failed flush, *)
(* which the log reports with its number of rows, this is false: stop()    *)
(* gives up the batch of the task it cancels, and its log line has the     *)
(* rows of the queue only.                                                 *)
LossesCounted == metrics.failed_batches = 0 => Lost <= metrics.dropped_total

(* A shutdown that was not cut short has written or given up every row     *)
(* accepted before stop() was called: what is still queued when the task   *)
(* is gone was offered after the call.                                     *)
CleanStopDrains ==
  task = Drained => batch = <<>> /\ \A i \in 1..Len(queue) : queue[i] > stopMark

(* While the task runs, no accepted row waits for ever: it is written,     *)
(* evicted or lost with its batch.                                         *)
Waits(r) == \/ \E i \in 1..Len(queue) : queue[i] = r
            \/ \E i \in 1..Len(batch) : batch[i] = r
RowsSettle == \A r \in 1..MaxRows : (Waits(r) /\ task # NoTask)
                                      ~> (~Waits(r) \/ task = NoTask)

(* The writer implements the lossy, ordered, at-most-once pipeline. *)
Pipeline == INSTANCE LossyFifo WITH pending <- batch \o queue, stored <- db
ImplementsLossyFifo == Pipeline!Spec
=============================================================================
