---------------------------- MODULE HistoryPipeline ---------------------------
(***************************************************************************)
(* HistoryRecorder and DbWriter together, started and stopped by the       *)
(* lifespan of main.py: the quote sampler and the spread-event loop        *)
(* produce rows in synchronous bursts (services/history_recorder.py), the  *)
(* writer (module DbWriter) drains them, and the shutdown has to stop the  *)
(* two in the right order for nothing to be left behind.                   *)
(*                                                                         *)
(* The event tracker itself is module SpreadEvents; what matters here is   *)
(* how many events are open, since each owes one row.                      *)
(* Operators marked "Fault" are mutated forms of the one that follows      *)
(* them; they show which property notices the bug and occur nowhere else.  *)
(***************************************************************************)
EXTENDS DbWriter

CONSTANTS
  SampleRows,  (* quotes the cache may hold for one sample                 *)
  MaxOpen      (* directions that may have an open event                   *)

ASSUME BurstAssumption == SampleRows \in Nat \ {0} /\ MaxOpen \in Nat

VARIABLES
  phase,    (* how far the lifespan has come                               *)
  loops,    (* which of _quote_task and _event_task are running            *)
  burst,    (* rows the running synchronous call has still to enqueue      *)
  openCount,(* SpreadEventTracker._open: how many events are open          *)
  hung      (* the database has ceased to answer                           *)

pipelineVars == <<vars, phase, loops, burst, openCount, hung>>
writerVars == vars

(* "boot": nothing is started.  "up": the application serves.  "halving":  *)
(* recorder.stop() has ended the sampler and waits for the event loop.     *)
(* "flushing": it enqueues the events that were open.  "stopping": the     *)
(* lifespan awaits writer.stop().  "maintaining": it awaits                *)
(* retention.stop().  "disposing": it awaits engine.dispose().  "down":    *)
(* the shutdown is complete.                                               *)
WriterStopped == {"maintaining", "disposing", "down"}
LifespanPhases == {"boot", "up", "halving", "flushing", "stopping"} \cup WriterStopped

PipelineTypeOK ==
  /\ TypeOK
  /\ phase \in LifespanPhases /\ loops \subseteq {"sampler", "events"}
  /\ openCount \in 0..MaxOpen
  /\ burst \in Nat /\ hung \in BOOLEAN
  /\ offered + burst + openCount <= MaxRows

PipelineInit ==
  /\ Init
  /\ phase = "boot" /\ loops = {}
  /\ burst = 0
  /\ openCount = 0
  /\ hung = FALSE

(* Between two suspension points nothing else runs: not while a burst is   *)
(* being enqueued, nor between the flush and the call of writer.stop().    *)
Suspended == burst = 0 /\ phase # "flushing"

-----------------------------------------------------------------------------
(* writer.start() and recorder.start() run one after the other without     *)
(* suspending.                                                             *)
LifespanStart ==
  /\ phase = "boot"
  /\ Start
  /\ phase' = "up" /\ loops' = {"sampler", "events"}
  /\ UNCHANGED <<burst, openCount, hung>>

(* sample_quotes_once(): a row for each quote the cache holds. *)
SampleQuotes ==
  /\ "sampler" \in loops
  /\ Suspended
  /\ burst' \in 1..SampleRows
  /\ offered + burst' + openCount <= MaxRows
  /\ UNCHANGED <<writerVars, phase, loops, openCount, hung>>

(* Fault: an event is recorded and stays open. *)
ProcessEventsKeepsOpen ==
  /\ "events" \in loops
  /\ Suspended
  /\ \E closing \in 0..openCount, opening \in 0..MaxOpen :
       /\ closing + opening > 0
       /\ openCount' = openCount + opening
       /\ burst' = closing
  /\ offered + burst' + openCount' <= MaxRows
  /\ UNCHANGED <<writerVars, phase, loops, hung>>

(* process_events_once(): some events end, and are enqueued; some begin. *)
ProcessEvents ==
  /\ "events" \in loops
  /\ Suspended
  /\ \E closing \in 0..openCount, opening \in 0..MaxOpen :
       /\ closing + opening > 0
       /\ openCount' = openCount - closing + opening
       /\ burst' = closing
  /\ openCount' <= MaxOpen
  /\ offered + burst' + openCount' <= MaxRows
  /\ UNCHANGED <<writerVars, phase, loops, hung>>

(* One enqueue() of the burst. *)
EnqueueNext ==
  /\ burst > 0
  /\ Enqueue
  /\ burst' = burst - 1
  /\ UNCHANGED <<phase, loops, openCount, hung>>

-----------------------------------------------------------------------------
(* The shutdown: recorder.stop(), then writer.stop().                      *)

(* recorder.stop() cancels the sampler and awaits it; the event loop may   *)
(* run once more meanwhile.                                                *)
CancelSampler ==
  /\ phase = "up"
  /\ Suspended
  /\ phase' = "halving" /\ loops' = loops \ {"sampler"}
  /\ UNCHANGED <<writerVars, burst, openCount, hung>>

(* Fault: the open events are left in the tracker. *)
CancelEventLoopNoFlush ==
  /\ phase = "halving"
  /\ Suspended
  /\ phase' = "flushing" /\ loops' = loops \ {"events"}
  /\ UNCHANGED <<writerVars, burst, openCount, hung>>

(* The event loop has ended: flush_open() closes what is open. *)
CancelEventLoop ==
  /\ phase = "halving"
  /\ Suspended
  /\ phase' = "flushing" /\ loops' = loops \ {"events"}
  /\ burst' = openCount
  /\ openCount' = 0
  /\ UNCHANGED <<writerVars, hung>>

(* Fault: the writer is stopped while the event loop still runs. *)
RecorderStoppedTooSoon == phase = "halving" /\ Suspended

RecorderStopped == phase = "flushing" /\ burst = 0

StopWriter ==
  /\ RecorderStopped
  /\ StopCall
  /\ phase' = "stopping"
  /\ UNCHANGED <<loops, burst, openCount, hung>>

(* writer.stop() returns. *)
StopRetention ==
  /\ phase = "stopping"
  /\ StopReturn
  /\ phase' = "maintaining"
  /\ UNCHANGED <<loops, burst, openCount, hung>>

(* retention.stop() returns: the maintenance loop, which may have been     *)
(* cancelled within a statement, has ended.                                *)
DisposeEngine ==
  /\ phase = "maintaining"
  /\ phase' = "disposing"
  /\ UNCHANGED <<writerVars, loops, burst, openCount, hung>>

(* engine.dispose() returns and the lifespan ends. *)
LifespanEnd ==
  /\ phase = "disposing"
  /\ phase' = "down"
  /\ UNCHANGED <<writerVars, loops, burst, openCount, hung>>

-----------------------------------------------------------------------------
(* The database may cease to answer: then a flush does not end by itself,  *)
(* and whatever else waits for the database may wait for ever.             *)
DatabaseHangs ==
  /\ ~hung
  /\ hung' = TRUE
  /\ UNCHANGED <<writerVars, phase, loops, burst, openCount>>

WriterRuns ==
  /\ Suspended
  /\ WriterStep \/ (~hung /\ Flush) \/ StopTimeout
  /\ UNCHANGED <<phase, loops, burst, openCount, hung>>

Produce == SampleQuotes \/ ProcessEvents \/ EnqueueNext
Shutdown == CancelSampler \/ CancelEventLoop \/ StopWriter
              \/ StopRetention \/ DisposeEngine \/ LifespanEnd

PipelineNext == LifespanStart \/ Produce \/ Shutdown \/ WriterRuns \/ DatabaseHangs

PipelineSpec == PipelineInit /\ [][PipelineNext]_pipelineVars

(* The event loop goes on with the shutdown once it has begun, and runs    *)
(* the timer of writer.stop(), whose cancelled task ends.  What is awaited *)
(* after it has no timeout: it ends unless the database hangs.             *)
PipelineLive ==
  /\ PipelineSpec
  /\ WF_pipelineVars(EnqueueNext)
  /\ SF_pipelineVars(CancelEventLoop)
  /\ WF_pipelineVars(StopWriter)
  /\ WF_pipelineVars(Suspended /\ StopTimeout /\ UNCHANGED <<phase, loops, burst, openCount, hung>>)
  /\ WF_pipelineVars(StopRetention)
  /\ WF_pipelineVars(~hung /\ (DisposeEngine \/ LifespanEnd))

-----------------------------------------------------------------------------
(* A shutdown of the writer that is not cut short by its timeout leaves    *)
(* nothing behind: no event open, nothing queued or in flight, and, unless *)
(* a batch failed, every row ever offered is in the database or counted as *)
(* dropped.                                                                *)
ShutdownLosesNothing ==
  phase \in WriterStopped /\ aborts = 0 =>
    /\ openCount = 0 /\ queue = <<>> /\ batch = <<>>
    /\ metrics.failed_batches = 0 => Len(db) + metrics.dropped_total = offered

(* Once writer.stop() has been called nobody enqueues any more: such a row *)
(* would be accepted, and counted, and never be written.                   *)
NoRowAfterStop == phase \in {"stopping"} \cup WriterStopped => offered = stopMark

(* A shutdown that has begun completes if the database goes on answering.  *)
(* If it hangs, the shutdown gets past the writer, whose stop() has a      *)
(* timeout, and may stay only where it awaits the maintenance or the       *)
(* connections, which have none (main.py:233-238).                         *)
ShutdownCompletes ==
  phase = "halving" ~>
    (phase = "down" \/ (hung /\ phase \in {"maintaining", "disposing"}))
=============================================================================
