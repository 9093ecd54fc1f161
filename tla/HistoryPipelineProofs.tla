------------------------ MODULE HistoryPipelineProofs ------------------------
(***************************************************************************)
(* Theorems about the writer by itself (DbWriter's Spec), for every queue  *)
(* size, batch size, overflow policy and bound, and then about the         *)
(* shutdown of the recorder and the writer together (PipelineSpec), for    *)
(* every number of rows, open events and shutdowns.                        *)
(*                                                                         *)
(* Every step of the composition is one of the writer or leaves it alone,  *)
(* so what is proved of the writer holds in it too.  What is added is how  *)
(* far the shutdown has come (Stages), what the writer's end means in it   *)
(* (WriterEnd), and that the database holds what was counted as written as *)
(* long as no batch has failed (WrittenIsStored).                          *)
(***************************************************************************)
EXTENDS HistoryPipeline, SequenceTheorems, TLAPS

(* What TypeOK needs to be inductive: the batch exists only while the task *)
(* collects or writes, has room while it collects, and is never empty when *)
(* it is written.                                                          *)
BatchShape ==
  /\ task \in {NoTask, Drained, Cancelled} => batch = <<>>
  /\ task = Collect => Len(batch) < BatchMaxRows
  /\ task = Write => batch # <<>>

TypeInv == TypeOK /\ BatchShape

USE DEF Idle, Waiting, Cleaning, NoTask, Collect, Write, Drained, Cancelled

-----------------------------------------------------------------------------
(* The counters are natural numbers, and stay so under the updates made.   *)
LEMMA MetricsNat ==
  ASSUME NEW m \in Metrics
  PROVE  /\ m.enqueued_total \in Nat /\ m.written_total \in Nat
         /\ m.dropped_total \in Nat /\ m.failed_batches \in Nat
         /\ m.batches_total \in Nat
BY DEF Metrics

(* A counter that changes stays a number. *)
LEMMA MetricsUpdate ==
  ASSUME NEW m \in Metrics, NEW k \in Nat
  PROVE  /\ [m EXCEPT !.enqueued_total = k] \in Metrics
         /\ [m EXCEPT !.dropped_total = k] \in Metrics
         /\ [m EXCEPT !.failed_batches = k] \in Metrics
<1>1. [m EXCEPT !.enqueued_total = k] \in Metrics
  BY DEF Metrics
<1>2. [m EXCEPT !.dropped_total = k] \in Metrics
  BY DEF Metrics
<1>3. [m EXCEPT !.failed_batches = k] \in Metrics
  BY DEF Metrics
<1> QED  BY <1>1, <1>2, <1>3

(* So do two that change together. *)
LEMMA MetricsUpdate2 ==
  ASSUME NEW m \in Metrics, NEW j \in Nat, NEW k \in Nat
  PROVE  /\ [m EXCEPT !.dropped_total = j, !.enqueued_total = k] \in Metrics
         /\ [m EXCEPT !.batches_total = j, !.written_total = k] \in Metrics
<1>1. [m EXCEPT !.dropped_total = j, !.enqueued_total = k] \in Metrics
  BY Zenon DEF Metrics
<1>2. [m EXCEPT !.batches_total = j, !.written_total = k] \in Metrics
  BY Zenon DEF Metrics
<1> QED  BY <1>1, <1>2

(* Enqueueing leaves a queue of row numbers within its bound. *)
LEMMA EnqueueType ==
  ASSUME TypeInv, Enqueue
  PROVE  TypeInv'
<1>1. /\ queue \in Seq(Nat) /\ offered' \in Nat
      /\ Len(queue) \in Nat /\ QueueSize \in Nat \ {0}
      /\ metrics \in Metrics
  BY SizesAssumption, LenProperties DEF TypeInv, TypeOK, Enqueue
<1>2. CASE EnqueueFits
  <2>1. queue' \in Seq(Nat) /\ Len(queue') = Len(queue) + 1
    BY <1>1, <1>2, AppendProperties DEF EnqueueFits
  <2>2. Len(queue') <= QueueSize
    BY <1>1, <1>2, <2>1 DEF EnqueueFits
  <2>3. metrics' \in Metrics
    <3>1. metrics.enqueued_total + 1 \in Nat
      BY <1>1, MetricsNat
    <3> QED  BY <1>1, <1>2, <3>1, MetricsUpdate DEF EnqueueFits
  <2> QED  BY <1>1, <2>1, <2>2, <2>3 DEF TypeInv, TypeOK, BatchShape, Enqueue, history
<1>3. CASE EnqueueRefused
  <2>1. metrics' \in Metrics
    <3>1. metrics.dropped_total + 1 \in Nat
      BY <1>1, MetricsNat
    <3> QED  BY <1>1, <1>3, <3>1, MetricsUpdate DEF EnqueueRefused
  <2> QED  BY <1>1, <1>3, <2>1
           DEF EnqueueRefused, TypeInv, TypeOK, BatchShape, Enqueue, history
<1>4. CASE EnqueueEvicts
  <2>1. Tail(queue) \in Seq(Nat) /\ Len(Tail(queue)) = Len(queue) - 1
    <3>1. queue # <<>>
      BY <1>1, <1>4 DEF EnqueueEvicts
    <3> QED  BY <1>1, <3>1, HeadTailProperties
  <2>2. queue' \in Seq(Nat) /\ Len(queue') = Len(Tail(queue)) + 1
    BY <1>1, <1>4, <2>1, AppendProperties DEF EnqueueEvicts
  <2>3. Len(queue') <= QueueSize
    BY <1>1, <1>4, <2>1, <2>2 DEF EnqueueEvicts
  <2>4. metrics' \in Metrics
    <3>1. metrics.dropped_total + 1 \in Nat /\ metrics.enqueued_total + 1 \in Nat
      BY <1>1, MetricsNat
    <3> QED  BY <1>1, <1>4, <3>1, MetricsUpdate2 DEF EnqueueEvicts
  <2> QED  BY <1>1, <2>2, <2>3, <2>4 DEF TypeInv, TypeOK, BatchShape, Enqueue, history
<1> QED  BY <1>2, <1>3, <1>4 DEF Enqueue

(* The steps of the writer task and of stop() keep the batch in shape. *)
LEMMA TaskType ==
  ASSUME TypeInv, Start \/ CollectRow \/ CollectTimeout \/ Flush
                    \/ StopCall \/ StopTimeout \/ StopReturn
  PROVE  TypeInv'
<1>1. /\ queue \in Seq(Nat) /\ batch \in Seq(Nat) /\ db \in Seq(Nat)
      /\ Len(queue) \in Nat /\ Len(batch) \in Nat
      /\ metrics \in Metrics /\ offered \in Nat /\ aborts \in Nat
      /\ QueueSize \in Nat \ {0} /\ BatchMaxRows \in Nat \ {0}
  BY SizesAssumption, LenProperties DEF TypeInv, TypeOK
<1>2. <<>> \in Seq(Nat) /\ Len(<<>>) = 0 /\ db \o batch \in Seq(Nat)
  BY <1>1, EmptySeq, ConcatProperties
<1>3. LoopTest(queue) \in {Drained, Collect}
  BY DEF LoopTest
<1>4. CASE Start
  <2>1. BatchShape'
    BY <1>1, <1>2, <1>4 DEF Start, TypeInv, BatchShape
  <2> QED  BY <1>4, <2>1 DEF Start, TypeInv, TypeOK, history
<1>5. CASE CollectRow
  <2>1. /\ Head(queue) \in Nat
        /\ Tail(queue) \in Seq(Nat) /\ Len(Tail(queue)) = Len(queue) - 1
    BY <1>1, <1>5, HeadTailProperties DEF CollectRow
  <2>2. /\ batch' \in Seq(Nat) /\ Len(batch') = Len(batch) + 1
        /\ batch' # <<>>
    BY <1>1, <1>5, <2>1, AppendProperties DEF CollectRow
  <2>3. Len(batch') <= BatchMaxRows
    BY <1>1, <1>5, <2>2 DEF CollectRow, TypeInv, BatchShape
  <2>4. queue' \in Seq(Nat) /\ Len(queue') <= QueueSize
    BY <1>1, <1>5, <2>1 DEF CollectRow, TypeInv, TypeOK
  <2>5. BatchShape'
    <3>1. task' \in {Collect, Write} /\ (task' = Collect => Len(batch') # BatchMaxRows)
      BY <1>5 DEF CollectRow
    <3> QED  BY <1>1, <2>2, <2>3, <3>1 DEF BatchShape
  <2> QED
    BY <1>1, <1>5, <2>2, <2>3, <2>4, <2>5 DEF CollectRow, TypeInv, TypeOK, history
<1>6. CASE CollectTimeout
  <2>1. BatchShape'
    BY <1>1, <1>3, <1>6 DEF CollectTimeout, TypeInv, BatchShape
  <2> QED  BY <1>3, <1>6, <2>1 DEF CollectTimeout, TypeInv, TypeOK, history
<1>7. CASE Flush
  <2>1. /\ batch' = <<>> /\ task' = LoopTest(queue) /\ db' \in Seq(Nat)
        /\ UNCHANGED <<queue, stopping, stop, offered, aborts, stopMark>>
    BY <1>1, <1>2, <1>7 DEF Flush, FlushSucceeds, FlushFails, history
  <2>2. metrics' \in Metrics
    <3>1. CASE FlushSucceeds
      <4>1. metrics' = [metrics EXCEPT !.batches_total = @ + 1,
                                       !.written_total = @ + Len(batch)]
        BY <3>1 DEF FlushSucceeds
      <4>2. metrics.batches_total + 1 \in Nat /\ metrics.written_total + Len(batch) \in Nat
        BY <1>1, MetricsNat
      <4> QED  BY <1>1, <4>1, <4>2, MetricsUpdate2
    <3>2. CASE FlushFails
      <4>1. metrics' = [metrics EXCEPT !.failed_batches = @ + 1]
        BY <3>2 DEF FlushFails
      <4>2. metrics.failed_batches + 1 \in Nat
        BY <1>1, MetricsNat
      <4> QED  BY <1>1, <4>1, <4>2, MetricsUpdate
    <3> QED  BY <1>7, <3>1, <3>2 DEF Flush
  <2> QED  BY <1>1, <1>2, <1>3, <2>1, <2>2 DEF TypeInv, TypeOK, BatchShape
<1>8. CASE StopCall
  BY <1>1, <1>8 DEF StopCall, TypeInv, TypeOK, BatchShape
<1>9. CASE StopTimeout
  <2>1. /\ batch' = <<>> /\ task' = Cancelled /\ stop' = Cleaning
        /\ aborts' = aborts + 1
        /\ UNCHANGED <<queue, stopping, metrics, offered, stopMark>>
    BY <1>9 DEF StopTimeout
  <2>2. db' \in Seq(Nat) /\ aborts' \in Nat
    <3>1. db' = db \/ db' = db \o batch
      BY <1>9 DEF StopTimeout
    <3>2. aborts + 1 \in Nat
      BY <1>1
    <3> QED  BY <1>1, <1>2, <2>1, <3>1, <3>2
  <2>3. BatchShape'
    BY <2>1 DEF BatchShape
  <2> QED  BY <1>1, <1>2, <2>1, <2>2, <2>3 DEF TypeInv, TypeOK
<1>10. CASE StopReturn
  BY <1>1, <1>10 DEF StopReturn, TypeInv, TypeOK, BatchShape, history
<1> QED
  BY <1>4, <1>5, <1>6, <1>7, <1>8, <1>9, <1>10

LEMMA TypeInit == Init => TypeInv
<1> SUFFICES ASSUME Init PROVE TypeInv
  OBVIOUS
<1>1. <<>> \in Seq(Nat) /\ Len(<<>>) = 0
  BY EmptySeq
<1>2. metrics \in Metrics
  BY DEF Init, Metrics
<1>3. BatchShape
  BY DEF Init, BatchShape
<1>4. QueueSize >= 0 /\ BatchMaxRows >= 0
  BY SizesAssumption
<1> QED  BY <1>1, <1>2, <1>3, <1>4 DEF Init, TypeInv, TypeOK

LEMMA TypeStep == TypeInv /\ [Next]_vars => TypeInv'
<1> SUFFICES ASSUME TypeInv, [Next]_vars PROVE TypeInv'
  OBVIOUS
<1>1. CASE UNCHANGED vars
  BY <1>1 DEF vars, TypeInv, TypeOK, BatchShape
<1>2. CASE Next
  BY <1>2, EnqueueType, TaskType DEF Next, WriterStep
<1> QED  BY <1>1, <1>2

(* Every variable keeps its type and the queue and the batch their bounds. *)
THEOREM TypeCorrect == Spec => []TypeOK
<1>1. TypeInv => TypeOK
  BY DEF TypeInv
<1> QED  BY <1>1, TypeInit, TypeStep, PTL DEF Spec

-----------------------------------------------------------------------------
(* Facts about ordered lists of row numbers. *)

(* The empty sequence is in order with any other. *)
LEMMA EmptyOrdered ==
  ASSUME NEW s \in Seq(Nat), NEW n \in Nat
  PROVE  /\ Increasing(<<>>) /\ UpTo(<<>>, n)
         /\ Before(<<>>, s) /\ Before(s, <<>>)
<1>1. Len(<<>>) = 0
  BY EmptySeq
<1> QED  BY <1>1 DEF Increasing, UpTo, Before

(* A new, larger row may be appended. *)
LEMMA AppendOrdered ==
  ASSUME NEW s \in Seq(Nat), NEW n \in Nat, Increasing(s), UpTo(s, n)
  PROVE  /\ Increasing(Append(s, n + 1)) /\ UpTo(Append(s, n + 1), n + 1)
         /\ \A t \in Seq(Nat) : UpTo(t, n) /\ Before(t, s) => Before(t, Append(s, n + 1))
<1> DEFINE a == Append(s, n + 1)
<1>1. /\ Len(s) \in Nat /\ Len(a) = Len(s) + 1 /\ a[Len(s) + 1] = n + 1
      /\ \A i \in 1..Len(s) : a[i] = s[i] /\ s[i] \in Nat /\ s[i] <= n
  BY AppendProperties, LenProperties, ElementOfSeq DEF UpTo
<1> HIDE DEF a
<1>2. Increasing(a)
  BY SMTT(30), <1>1 DEF Increasing
<1>3. UpTo(a, n + 1)
  BY <1>1 DEF UpTo
<1>4. ASSUME NEW t \in Seq(Nat), UpTo(t, n), Before(t, s) PROVE Before(t, a)
  <2>1. \A i \in 1..Len(t) : t[i] \in Nat /\ t[i] <= n
    BY <1>4, ElementOfSeq DEF UpTo
  <2>2. ASSUME NEW i \in 1..Len(t), NEW j \in 1..Len(a) PROVE t[i] < a[j]
    <3>1. CASE j \in 1..Len(s)
      BY <1>1, <1>4, <2>1, <3>1 DEF Before
    <3>2. CASE j = Len(s) + 1
      BY <1>1, <2>1, <3>2
    <3> QED  BY <1>1, <3>1, <3>2
  <2> QED  BY <2>2 DEF Before
<1> QED  BY <1>2, <1>3, <1>4 DEF a

(* The oldest row may be taken away. *)
LEMMA TailOrdered ==
  ASSUME NEW s \in Seq(Nat), s # <<>>, Increasing(s)
  PROVE  /\ Increasing(Tail(s))
         /\ \A n \in Nat : UpTo(s, n) => UpTo(Tail(s), n)
         /\ \A t \in Seq(Nat) : Before(t, s) => Before(t, Tail(s))
<1> DEFINE r == Tail(s)
<1>1. /\ Len(s) \in Nat /\ Len(r) = Len(s) - 1
      /\ \A i \in 1..Len(r) : r[i] = s[i + 1] /\ i + 1 \in 1..Len(s)
  BY HeadTailProperties, LenProperties
<1> HIDE DEF r
<1>2. Increasing(r)
  <2>1. ASSUME NEW i \in 1..Len(r), NEW j \in 1..Len(r), i < j PROVE r[i] < r[j]
    <3>1. /\ i + 1 \in 1..Len(s) /\ j + 1 \in 1..Len(s) /\ i + 1 < j + 1
          /\ r[i] = s[i + 1] /\ r[j] = s[j + 1]
      BY <1>1, <2>1
    <3> QED  BY <3>1 DEF Increasing
  <2> QED  BY <2>1 DEF Increasing
<1>3. \A n \in Nat : UpTo(s, n) => UpTo(r, n)
  BY <1>1 DEF UpTo
<1>4. \A t \in Seq(Nat) : Before(t, s) => Before(t, r)
  BY <1>1 DEF Before
<1> QED  BY <1>2, <1>3, <1>4 DEF r

(* The head of a later list may move to the end of an earlier one. *)
LEMMA MoveOrdered ==
  ASSUME NEW b \in Seq(Nat), NEW q \in Seq(Nat), q # <<>>,
         Increasing(b), Increasing(q), Before(b, q)
  PROVE  /\ Increasing(Append(b, Head(q))) /\ Before(Append(b, Head(q)), Tail(q))
         /\ \A n \in Nat : UpTo(b, n) /\ UpTo(q, n) => UpTo(Append(b, Head(q)), n)
         /\ \A t \in Seq(Nat) : Before(t, b) /\ Before(t, q)
                                  => Before(t, Append(b, Head(q)))
<1> DEFINE h == Head(q)
           a == Append(b, h)
           r == Tail(q)
<1>1. /\ Len(q) \in Nat \ {0} /\ h = q[1] /\ h \in Nat
      /\ Len(r) = Len(q) - 1
      /\ \A i \in 1..Len(r) : r[i] = q[i + 1] /\ r[i] \in Nat
  BY HeadTailProperties, LenProperties, EmptySeq, ElementOfSeq
<1> HIDE DEF h
<1>2. /\ Len(b) \in Nat /\ Len(a) = Len(b) + 1 /\ a[Len(b) + 1] = h
      /\ \A i \in 1..Len(b) : a[i] = b[i] /\ b[i] \in Nat
  BY <1>1, AppendProperties, LenProperties, ElementOfSeq
<1> HIDE DEF a, r
<1>0. ASSUME NEW i \in 1..Len(a) PROVE i \in 1..Len(b) \/ i = Len(b) + 1
  BY <1>2
<1>3. \A i \in 1..Len(b) : b[i] < h
  BY <1>1, <1>2 DEF Before
<1>4. ASSUME NEW i \in 1..Len(r) PROVE h < r[i]
  <2>1. /\ 1 \in 1..Len(q) /\ i + 1 \in 1..Len(q) /\ 1 < i + 1
        /\ r[i] = q[i + 1]
    BY <1>1
  <2> QED  BY <1>1, <2>1 DEF Increasing
<1>5. Increasing(a)
  <2>1. ASSUME NEW i \in 1..Len(a), NEW j \in 1..Len(a), i < j PROVE a[i] < a[j]
    <3>1. CASE j \in 1..Len(b)
      <4>1. i \in 1..Len(b) /\ a[i] = b[i] /\ a[j] = b[j]
        BY <1>2, <2>1, <3>1
      <4> QED  BY <2>1, <3>1, <4>1 DEF Increasing
    <3>2. CASE j = Len(b) + 1
      <4>1. i \in 1..Len(b) /\ a[i] = b[i]
        BY <1>2, <2>1, <3>2
      <4> QED  BY <1>2, <1>3, <3>2, <4>1
    <3> QED  BY <1>0, <3>1, <3>2
  <2> QED  BY <2>1 DEF Increasing
<1>6. Before(a, r)
  <2>1. ASSUME NEW i \in 1..Len(b), NEW j \in 1..Len(r) PROVE b[i] < r[j]
    <3>1. j + 1 \in 1..Len(q) /\ r[j] = q[j + 1]
      BY <1>1
    <3> QED  BY <3>1 DEF Before
  <2>2. ASSUME NEW i \in 1..Len(a), NEW j \in 1..Len(r) PROVE a[i] < r[j]
    <3>1. CASE i \in 1..Len(b)
      BY <1>2, <2>1, <3>1
    <3>2. CASE i = Len(b) + 1
      BY <1>2, <1>4, <3>2
    <3> QED  BY <1>0, <3>1, <3>2
  <2> QED  BY <2>2 DEF Before
<1>7. ASSUME NEW n \in Nat, UpTo(b, n), UpTo(q, n) PROVE UpTo(a, n)
  <2>1. h <= n
    BY <1>1, <1>7 DEF UpTo
  <2>2. \A i \in 1..Len(b) : b[i] <= n
    BY <1>7 DEF UpTo
  <2>3. ASSUME NEW i \in 1..Len(a) PROVE a[i] <= n
    <3>1. CASE i \in 1..Len(b)
      BY <1>2, <2>2, <3>1
    <3>2. CASE i = Len(b) + 1
      BY <1>2, <2>1, <3>2
    <3> QED  BY <1>0, <3>1, <3>2
  <2> QED  BY <2>3 DEF UpTo
<1>8. ASSUME NEW t \in Seq(Nat), Before(t, b), Before(t, q) PROVE Before(t, a)
  <2>1. \A i \in 1..Len(t) : t[i] < h
    BY <1>1, <1>8 DEF Before
  <2>2. \A i \in 1..Len(t), j \in 1..Len(b) : t[i] < b[j]
    BY <1>8 DEF Before
  <2>3. ASSUME NEW i \in 1..Len(t), NEW j \in 1..Len(a) PROVE t[i] < a[j]
    <3>1. CASE j \in 1..Len(b)
      BY <1>2, <2>2, <3>1
    <3>2. CASE j = Len(b) + 1
      BY <1>2, <2>1, <3>2
    <3> QED  BY <1>0, <3>1, <3>2
  <2> QED  BY <2>3 DEF Before
<1> QED  BY <1>5, <1>6, <1>7, <1>8 DEF h, a, r

(* A list may be appended to an earlier one. *)
LEMMA ConcatOrdered ==
  ASSUME NEW d \in Seq(Nat), NEW b \in Seq(Nat),
         Increasing(d), Increasing(b), Before(d, b)
  PROVE  /\ Increasing(d \o b)
         /\ \A n \in Nat : UpTo(d, n) /\ UpTo(b, n) => UpTo(d \o b, n)
         /\ \A t \in Seq(Nat) : Before(d, t) /\ Before(b, t) => Before(d \o b, t)
<1> DEFINE c == d \o b
<1>1. /\ Len(d) \in Nat /\ Len(b) \in Nat /\ Len(c) = Len(d) + Len(b)
      /\ \A i \in 1..Len(c) : c[i] = IF i <= Len(d) THEN d[i] ELSE b[i - Len(d)]
      /\ \A i \in 1..Len(d) : d[i] \in Nat
      /\ \A i \in 1..Len(b) : b[i] \in Nat
  BY ConcatProperties, LenProperties, ElementOfSeq
<1> HIDE DEF c
<1>2. ASSUME NEW i \in 1..Len(c)
      PROVE  \/ i \in 1..Len(d) /\ c[i] = d[i]
             \/ i - Len(d) \in 1..Len(b) /\ i > Len(d) /\ c[i] = b[i - Len(d)]
  BY <1>1
<1>3. Increasing(c)
  <2> SUFFICES ASSUME NEW i \in 1..Len(c), NEW j \in 1..Len(c), i < j
               PROVE  c[i] < c[j]
    BY DEF Increasing
  <2>1. CASE i \in 1..Len(d) /\ j \in 1..Len(d)
    <3>1. c[i] = d[i] /\ c[j] = d[j]
      BY <1>1, <2>1
    <3> QED  BY <2>1, <3>1 DEF Increasing
  <2>2. CASE i \in 1..Len(d) /\ j > Len(d)
    <3>1. c[i] = d[i] /\ j - Len(d) \in 1..Len(b) /\ c[j] = b[j - Len(d)]
      BY <1>1, <2>2
    <3> QED  BY <2>2, <3>1 DEF Before
  <2>3. CASE i > Len(d) /\ j > Len(d)
    <3>1. /\ i - Len(d) \in 1..Len(b) /\ c[i] = b[i - Len(d)]
          /\ j - Len(d) \in 1..Len(b) /\ c[j] = b[j - Len(d)]
          /\ i - Len(d) < j - Len(d)
      BY <1>1, <2>3
    <3> QED  BY <3>1 DEF Increasing
  <2> QED  BY <1>1, <2>1, <2>2, <2>3
<1>4. ASSUME NEW n \in Nat, UpTo(d, n), UpTo(b, n) PROVE UpTo(c, n)
  <2>1. ASSUME NEW i \in 1..Len(c) PROVE c[i] <= n
    <3>1. CASE i \in 1..Len(d) /\ c[i] = d[i]
      BY <1>4, <3>1 DEF UpTo
    <3>2. CASE i - Len(d) \in 1..Len(b) /\ c[i] = b[i - Len(d)]
      BY <1>4, <3>2 DEF UpTo
    <3> QED  BY <1>2, <3>1, <3>2
  <2> QED  BY <2>1 DEF UpTo
<1>5. ASSUME NEW t \in Seq(Nat), Before(d, t), Before(b, t) PROVE Before(c, t)
  <2>1. ASSUME NEW i \in 1..Len(c), NEW j \in 1..Len(t) PROVE c[i] < t[j]
    <3>1. CASE i \in 1..Len(d) /\ c[i] = d[i]
      BY <1>5, <3>1 DEF Before
    <3>2. CASE i - Len(d) \in 1..Len(b) /\ c[i] = b[i - Len(d)]
      BY <1>5, <3>2 DEF Before
    <3> QED  BY <1>2, <3>1, <3>2
  <2> QED  BY <2>1 DEF Before
<1> QED  BY <1>3, <1>4, <1>5 DEF c

(* Rows up to a number are also up to the next one. *)
LEMMA UpToNext ==
  ASSUME NEW s \in Seq(Nat), NEW n \in Nat, UpTo(s, n)
  PROVE  UpTo(s, n + 1)
<1>1. \A i \in 1..Len(s) : s[i] \in Nat
  BY ElementOfSeq
<1> QED  BY <1>1 DEF UpTo

-----------------------------------------------------------------------------
(* The order of the pipeline. *)

(* The row that is offered is the newest, and the others keep their order. *)
LEMMA EnqueueOrder ==
  ASSUME TypeInv, PipelineOrdered, Enqueue
  PROVE  PipelineOrdered'
<1>1. /\ queue \in Seq(Nat) /\ batch \in Seq(Nat) /\ db \in Seq(Nat)
      /\ offered \in Nat /\ offered' = offered + 1 /\ batch' = batch /\ db' = db
      /\ Len(queue) \in Nat /\ QueueSize \in Nat \ {0}
  BY LenProperties, SizesAssumption DEF TypeInv, TypeOK, Enqueue
<1>2. /\ Increasing(db) /\ Increasing(batch) /\ Increasing(queue)
      /\ Before(db, batch) /\ Before(batch, queue) /\ Before(db, queue)
      /\ UpTo(db, offered) /\ UpTo(batch, offered) /\ UpTo(queue, offered)
  BY DEF PipelineOrdered
<1>3. UpTo(db, offered') /\ UpTo(batch, offered') /\ UpTo(queue, offered')
  BY <1>1, <1>2, UpToNext
<1>4. /\ Increasing(queue') /\ UpTo(queue', offered')
      /\ Before(batch, queue') /\ Before(db, queue')
  <2>1. CASE EnqueueFits
    <3>1. queue' = Append(queue, offered + 1)
      BY <1>1, <2>1 DEF EnqueueFits
    <3> QED  BY <1>1, <1>2, <3>1, AppendOrdered
  <2>2. CASE EnqueueRefused
    BY <1>2, <1>3, <2>2 DEF EnqueueRefused
  <2>3. CASE EnqueueEvicts
    <3> DEFINE rest == Tail(queue)
    <3>1. queue' = Append(rest, offered + 1) /\ queue # <<>>
      BY <1>1, <2>3 DEF EnqueueEvicts
    <3>2. rest \in Seq(Nat)
      BY <1>1, <3>1, HeadTailProperties
    <3>3. /\ Increasing(rest) /\ UpTo(rest, offered)
          /\ Before(batch, rest) /\ Before(db, rest)
      BY <1>1, <1>2, <3>1, TailOrdered
    <3> HIDE DEF rest
    <3> QED  BY <1>1, <1>2, <3>1, <3>2, <3>3, AppendOrdered
  <2> QED  BY <2>1, <2>2, <2>3 DEF Enqueue
<1> QED  BY <1>1, <1>2, <1>3, <1>4 DEF PipelineOrdered

LEMMA OrderInit == Init => PipelineOrdered
<1> SUFFICES ASSUME Init PROVE PipelineOrdered
  OBVIOUS
<1>1. <<>> \in Seq(Nat)
  BY EmptySeq
<1> QED  BY <1>1, EmptyOrdered DEF Init, PipelineOrdered

LEMMA OrderStep == TypeInv /\ PipelineOrdered /\ [Next]_vars => PipelineOrdered'
<1> SUFFICES ASSUME TypeInv, PipelineOrdered, [Next]_vars PROVE PipelineOrdered'
  OBVIOUS
<1>1. /\ queue \in Seq(Nat) /\ batch \in Seq(Nat) /\ db \in Seq(Nat) /\ offered \in Nat
      /\ <<>> \in Seq(Nat)
  BY EmptySeq DEF TypeInv, TypeOK
<1>2. /\ Increasing(db) /\ Increasing(batch) /\ Increasing(queue)
      /\ Before(db, batch) /\ Before(batch, queue) /\ Before(db, queue)
      /\ UpTo(db, offered) /\ UpTo(batch, offered) /\ UpTo(queue, offered)
  BY DEF PipelineOrdered
<1>3. CASE Enqueue
  BY <1>3, EnqueueOrder
<1>4. CASE CollectRow
  <2>1. /\ queue # <<>> /\ batch' = Append(batch, Head(queue)) /\ queue' = Tail(queue)
        /\ UNCHANGED <<db, offered>>
    BY <1>4 DEF CollectRow
  <2>2. /\ Increasing(batch') /\ Before(batch', queue')
        /\ UpTo(batch', offered) /\ Before(db, batch')
    BY <1>1, <1>2, <2>1, MoveOrdered
  <2>3. Increasing(queue') /\ UpTo(queue', offered) /\ Before(db, queue')
    BY <1>1, <1>2, <2>1, TailOrdered
  <2> QED  BY <1>2, <2>1, <2>2, <2>3 DEF PipelineOrdered
<1>5. CASE /\ batch' = <<>> /\ db' \in {db, db \o batch}
           /\ UNCHANGED <<queue, offered>>
  <2>1. /\ Increasing(<<>>) /\ UpTo(<<>>, offered) /\ Before(<<>>, queue)
        /\ Before(db, <<>>) /\ Before(db \o batch, <<>>)
    BY <1>1, EmptyOrdered, ConcatProperties
  <2>2. /\ Increasing(db \o batch) /\ UpTo(db \o batch, offered)
        /\ Before(db \o batch, queue)
    BY <1>1, <1>2, ConcatOrdered
  <2>3. CASE db' = db
    BY <1>2, <1>5, <2>1, <2>3 DEF PipelineOrdered
  <2>4. CASE db' = db \o batch
    BY <1>2, <1>5, <2>1, <2>2, <2>4 DEF PipelineOrdered
  <2> QED  BY <1>5, <2>3, <2>4
<1>6. CASE UNCHANGED <<db, batch, queue, offered>>
  BY <1>2, <1>6 DEF PipelineOrdered
<1>7. CASE Flush
  BY <1>5, <1>7 DEF Flush, FlushSucceeds, FlushFails
<1>8. CASE StopTimeout
  BY <1>5, <1>8 DEF StopTimeout
<1>9. CASE Start \/ CollectTimeout \/ StopCall \/ StopReturn \/ UNCHANGED vars
  BY <1>6, <1>9 DEF Start, CollectTimeout, StopCall, StopReturn, vars
<1> QED
  BY <1>3, <1>4, <1>7, <1>8, <1>9 DEF Next, WriterStep

(* The database, the batch and the queue hold rows in the order they were  *)
(* offered, each at most once, for every sequence of evictions, failed     *)
(* flushes, cancelled shutdowns and restarts.                              *)
THEOREM PipelineAlwaysOrdered == Spec => []PipelineOrdered
BY OrderInit, TypeInit, TypeStep, OrderStep, PTL DEF Spec

-----------------------------------------------------------------------------
(* The accounting of losses. *)

(* Rows offered that neither the metrics nor the pipeline account for. *)
Uncounted ==
  offered - (metrics.written_total + metrics.dropped_total
               + Len(batch) + Len(queue))

(* No row is counted twice, and the rows that vanish uncounted fit in the  *)
(* failed and the cancelled batches.                                       *)
LossBounded ==
  /\ metrics.written_total + metrics.dropped_total + Len(batch) + Len(queue)
       <= offered
  /\ Uncounted <= BatchMaxRows * (metrics.failed_batches + aborts)

(* LossBounded over numbers: b rows in the batch, q in the queue, o offered, *)
(* and at most lim rows gone uncounted.                                      *)
Accounted(w, d, b, q, o, lim) == w + d + b + q <= o /\ o - (w + d + b + q) <= lim

(* One failure more allows one batch more. *)
LEMMA BatchesOfLoss ==
  ASSUME NEW n \in Nat, NEW x \in Nat
  PROVE  n * x \in Nat /\ n * (x + 1) = n * x + n
OBVIOUS

(* The ways in which a row moves from one account to another. *)
LEMMA AccountedSteps ==
  ASSUME NEW w \in Nat, NEW d \in Nat, NEW b \in Nat, NEW q \in Nat,
         NEW o \in Nat, NEW lim \in Nat, NEW n \in Nat, b <= n,
         Accounted(w, d, b, q, o, lim)
  PROVE  /\ Accounted(w, d, b, q + 1, o + 1, lim)
         /\ Accounted(w, d + 1, b, q, o + 1, lim)
         /\ Accounted(w, d, b + 1, q - 1, o, lim)
         /\ Accounted(w + b, d, 0, q, o, lim)
         /\ Accounted(w, d, 0, q, o, lim + n)
BY DEF Accounted

LEMMA LossInit == Init => LossBounded
<1> SUFFICES ASSUME Init PROVE LossBounded
  OBVIOUS
<1>1. /\ queue = <<>> /\ batch = <<>> /\ Len(<<>>) = 0 /\ offered = 0 /\ aborts = 0
      /\ metrics.written_total = 0 /\ metrics.dropped_total = 0
      /\ metrics.failed_batches = 0 /\ BatchMaxRows \in Nat
  BY EmptySeq, SizesAssumption DEF Init
<1> QED  BY <1>1 DEF LossBounded, Uncounted

LEMMA LossStep == TypeInv /\ LossBounded /\ [Next]_vars => LossBounded'
<1> SUFFICES ASSUME TypeInv, LossBounded, [Next]_vars PROVE LossBounded'
  OBVIOUS
<1> DEFINE w == metrics.written_total
           d == metrics.dropped_total
           f == metrics.failed_batches
           lim == BatchMaxRows * (f + aborts)
<1>1. /\ Len(queue) \in Nat /\ Len(batch) \in Nat /\ Len(<<>>) = 0
      /\ queue \in Seq(Nat) /\ batch \in Seq(Nat) /\ Len(batch) <= BatchMaxRows
      /\ offered \in Nat /\ aborts \in Nat /\ metrics \in Metrics
      /\ BatchMaxRows \in Nat /\ QueueSize \in Nat \ {0}
  BY LenProperties, EmptySeq, SizesAssumption DEF TypeInv, TypeOK
<1>2. w \in Nat /\ d \in Nat /\ f \in Nat
  BY <1>1, MetricsNat
<1>3. f + aborts \in Nat /\ (f + 1) + aborts = (f + aborts) + 1
      /\ f + (aborts + 1) = (f + aborts) + 1
  <2> HIDE DEF f
  <2> QED  BY <1>1, <1>2
<1>4. /\ lim \in Nat
      /\ BatchMaxRows * ((f + 1) + aborts) = lim + BatchMaxRows
      /\ BatchMaxRows * (f + (aborts + 1)) = lim + BatchMaxRows
  BY <1>1, <1>3, BatchesOfLoss
<1>5. Accounted(w, d, Len(batch), Len(queue), offered, lim)
  BY DEF LossBounded, Uncounted, Accounted
<1> DEFINE Goal(w1, d1, b1, q1, o1, lim1) ==
             /\ metrics'.written_total = w1 /\ metrics'.dropped_total = d1
             /\ Len(batch') = b1 /\ Len(queue') = q1 /\ offered' = o1
             /\ BatchMaxRows * (metrics'.failed_batches + aborts') = lim1
             /\ Accounted(w1, d1, b1, q1, o1, lim1)
<1>6. ASSUME NEW w1, NEW d1, NEW b1, NEW q1, NEW o1, NEW lim1,
             Goal(w1, d1, b1, q1, o1, lim1)
      PROVE  LossBounded'
  BY <1>6 DEF LossBounded, Uncounted, Accounted
<1>7. /\ Accounted(w, d, Len(batch), Len(queue) + 1, offered + 1, lim)
      /\ Accounted(w, d + 1, Len(batch), Len(queue), offered + 1, lim)
      /\ Accounted(w, d, Len(batch) + 1, Len(queue) - 1, offered, lim)
      /\ Accounted(w + Len(batch), d, 0, Len(queue), offered, lim)
      /\ Accounted(w, d, 0, Len(queue), offered, lim + BatchMaxRows)
  <2> HIDE DEF lim, w, d, f
  <2> QED  BY <1>1, <1>2, <1>4, <1>5, AccountedSteps
<1>8. CASE Enqueue
  <2>1. offered' = offered + 1 /\ UNCHANGED <<batch, aborts>>
    BY <1>8 DEF Enqueue, history
  <2>2. CASE EnqueueFits
    <3>1. Len(queue') = Len(queue) + 1
      BY <1>1, <2>1, <2>2, AppendProperties DEF EnqueueFits
    <3>2. metrics'.written_total = w /\ metrics'.dropped_total = d
          /\ metrics'.failed_batches = f
      BY <1>1, <2>2 DEF EnqueueFits, Metrics
    <3> QED  BY <1>6, <1>7, <2>1, <3>1, <3>2
  <2>3. CASE EnqueueRefused
    <3>1. metrics'.written_total = w /\ metrics'.dropped_total = d + 1
          /\ metrics'.failed_batches = f /\ queue' = queue
      BY <1>1, <2>3 DEF EnqueueRefused, Metrics
    <3> QED  BY <1>6, <1>7, <2>1, <3>1
  <2>4. CASE EnqueueEvicts
    <3>1. queue # <<>> /\ queue' = Append(Tail(queue), offered + 1)
      BY <1>1, <2>1, <2>4 DEF EnqueueEvicts
    <3>2. Tail(queue) \in Seq(Nat) /\ Len(Tail(queue)) = Len(queue) - 1
      BY <1>1, <3>1, HeadTailProperties
    <3>3. Len(queue') = Len(queue)
      BY <1>1, <3>1, <3>2, AppendProperties
    <3>4. metrics'.written_total = w /\ metrics'.dropped_total = d + 1
          /\ metrics'.failed_batches = f
      BY <1>1, <2>4 DEF EnqueueEvicts, Metrics
    <3> QED  BY <1>6, <1>7, <2>1, <3>3, <3>4
  <2> QED  BY <1>8, <2>2, <2>3, <2>4 DEF Enqueue
<1>9. CASE CollectRow
  <2>1. /\ queue # <<>> /\ batch' = Append(batch, Head(queue)) /\ queue' = Tail(queue)
        /\ UNCHANGED <<offered, aborts, metrics>>
    BY <1>9 DEF CollectRow, history
  <2>2. Len(queue') = Len(queue) - 1 /\ Len(batch') = Len(batch) + 1
    BY <1>1, <2>1, HeadTailProperties, AppendProperties
  <2> QED  BY <1>6, <1>7, <2>1, <2>2
<1>10. CASE FlushSucceeds
  <2>1. /\ batch' = <<>> /\ metrics'.written_total = w + Len(batch)
        /\ metrics'.dropped_total = d /\ metrics'.failed_batches = f
        /\ UNCHANGED <<queue, offered, aborts>>
    BY <1>1, <1>10 DEF FlushSucceeds, Metrics, history
  <2> QED  BY <1>1, <1>6, <1>7, <2>1
<1>11. CASE FlushFails
  <2>1. /\ batch' = <<>> /\ metrics'.written_total = w
        /\ metrics'.dropped_total = d /\ metrics'.failed_batches = f + 1
        /\ UNCHANGED <<queue, offered, aborts>>
    BY <1>1, <1>11 DEF FlushFails, Metrics, history
  <2> QED  BY <1>1, <1>4, <1>6, <1>7, <2>1
<1>12. CASE StopTimeout
  <2>1. /\ batch' = <<>> /\ aborts' = aborts + 1
        /\ UNCHANGED <<queue, offered, metrics>>
    BY <1>12 DEF StopTimeout
  <2> QED  BY <1>1, <1>4, <1>6, <1>7, <2>1
<1>13. CASE Start \/ CollectTimeout \/ StopCall \/ StopReturn \/ UNCHANGED vars
  <2>1. UNCHANGED <<queue, batch, metrics, offered, aborts>>
    BY <1>13 DEF Start, CollectTimeout, StopCall, StopReturn, vars, history
  <2> QED  BY <2>1 DEF LossBounded, Uncounted
<1> QED
  BY <1>8, <1>9, <1>10, <1>11, <1>12, <1>13 DEF Next, WriterStep, Flush

(* How many rows may vanish uncounted: a batch for each failed flush and   *)
(* each cancelled one, never more.                                         *)
THEOREM LossAlwaysBounded == Spec => []LossBounded
BY LossInit, TypeInit, TypeStep, LossStep, PTL DEF Spec

-----------------------------------------------------------------------------
(* A shutdown that was not cut short. *)

(* While the task of a stopping writer lives, stop() is waiting for it, so *)
(* stopMark is the count at the call that makes the task drain.            *)
ShutdownInv ==
  /\ stopping /\ task \in {Collect, Write, Drained} => stop = Waiting
  /\ task = Drained => stopping
  /\ stopMark <= offered
  /\ CleanStopDrains

LEMMA ShutdownInit == Init => ShutdownInv
BY DEF Init, ShutdownInv, CleanStopDrains

LEMMA ShutdownStep == TypeInv /\ ShutdownInv /\ [Next]_vars => ShutdownInv'
<1> SUFFICES ASSUME TypeInv, ShutdownInv, [Next]_vars PROVE ShutdownInv'
  OBVIOUS
<1>1. /\ Len(queue) \in Nat /\ Len(<<>>) = 0 /\ queue \in Seq(Nat)
      /\ offered \in Nat /\ stopMark \in Nat /\ QueueSize \in Nat \ {0}
      /\ task \in {NoTask, Collect, Write, Drained, Cancelled}
  BY LenProperties, EmptySeq, SizesAssumption DEF TypeInv, TypeOK
<1>2. CASE Enqueue
  <2>1. /\ offered' = offered + 1
        /\ UNCHANGED <<batch, task, stopping, stop, stopMark>>
    BY <1>2 DEF Enqueue, history
  <2>2. ASSUME task = Drained, NEW i \in 1..Len(queue') PROVE queue'[i] > stopMark
    <3>1. \A j \in 1..Len(queue) : queue[j] > stopMark
      BY <2>2 DEF ShutdownInv, CleanStopDrains
    <3>2. offered + 1 > stopMark /\ offered + 1 \in Nat
      BY <1>1 DEF ShutdownInv
    <3>3. CASE EnqueueFits
      <4>1. queue' = Append(queue, offered + 1)
        BY <2>1, <3>3 DEF EnqueueFits
      <4>2. i \in 1..Len(queue) \/ i = Len(queue) + 1
        BY <1>1, <2>2, <3>2, <4>1, AppendProperties
      <4> QED  BY <1>1, <3>1, <3>2, <4>1, <4>2, AppendProperties
    <3>4. CASE EnqueueRefused
      BY <2>2, <3>1, <3>4 DEF EnqueueRefused
    <3>5. CASE EnqueueEvicts
      <4> DEFINE rest == Tail(queue)
      <4>1. queue # <<>> /\ queue' = Append(rest, offered + 1)
        BY <1>1, <2>1, <3>5 DEF EnqueueEvicts
      <4>2. /\ rest \in Seq(Nat) /\ Len(rest) = Len(queue) - 1
            /\ \A j \in 1..Len(rest) : rest[j] = queue[j + 1] /\ j + 1 \in 1..Len(queue)
        BY <1>1, <4>1, HeadTailProperties
      <4> HIDE DEF rest
      <4>3. \A j \in 1..Len(rest) : rest[j] > stopMark
        BY <3>1, <4>2
      <4>4. i \in 1..Len(rest) \/ i = Len(rest) + 1
        BY <1>1, <2>2, <3>2, <4>1, <4>2, AppendProperties
      <4>5. queue' \in Seq(Nat) /\ queue'[Len(rest) + 1] = offered + 1
            /\ \A j \in 1..Len(rest) : queue'[j] = rest[j]
        BY <1>1, <3>2, <4>1, <4>2, AppendProperties
      <4>6. CASE i \in 1..Len(rest)
        BY <4>3, <4>5, <4>6
      <4>7. CASE i = Len(rest) + 1
        BY <3>2, <4>5, <4>7
      <4> QED  BY <4>4, <4>6, <4>7
    <3> QED  BY <1>2, <3>3, <3>4, <3>5 DEF Enqueue
  <2>3. CleanStopDrains'
    BY <2>1, <2>2 DEF ShutdownInv, CleanStopDrains
  <2> QED  BY <1>1, <2>1, <2>3 DEF ShutdownInv
<1>3. CASE Start
  BY <1>3 DEF Start, ShutdownInv, CleanStopDrains, history
<1>4. CASE CollectRow
  <2>1. /\ task = Collect /\ task' \in {Collect, Write}
        /\ UNCHANGED <<stopping, stop, offered, stopMark>>
    BY <1>4 DEF CollectRow, history
  <2> QED  BY <2>1 DEF ShutdownInv, CleanStopDrains
<1>5. CASE CollectTimeout \/ Flush
  <2>1. /\ task \in {Collect, Write} /\ task' \in {Collect, Write, Drained}
        /\ task' = Drained => stopping /\ queue = <<>> /\ batch' = <<>>
        /\ UNCHANGED <<queue, stopping, stop, offered, stopMark>>
    BY <1>5 DEF CollectTimeout, Flush, FlushSucceeds, FlushFails, LoopTest, history
  <2> QED  BY <1>1, <2>1 DEF ShutdownInv, CleanStopDrains
<1>6. CASE StopCall
  <2>1. task # Drained
    BY <1>6 DEF StopCall, ShutdownInv
  <2> QED  BY <1>1, <1>6, <2>1 DEF StopCall, ShutdownInv, CleanStopDrains
<1>7. CASE StopTimeout
  BY <1>7 DEF StopTimeout, ShutdownInv, CleanStopDrains
<1>8. CASE StopReturn
  BY <1>8 DEF StopReturn, ShutdownInv, CleanStopDrains, history
<1>9. CASE UNCHANGED vars
  BY <1>9 DEF vars, ShutdownInv, CleanStopDrains
<1> QED
  BY <1>2, <1>3, <1>4, <1>5, <1>6, <1>7, <1>8, <1>9 DEF Next, WriterStep

(* When the task ends without being cancelled, every row accepted before   *)
(* stop() was called has left the queue.                                   *)
THEOREM CleanStopAlwaysDrains == Spec => []CleanStopDrains
<1>1. ShutdownInv => CleanStopDrains
  BY DEF ShutdownInv
<1> QED  BY ShutdownInit, <1>1, TypeInit, TypeStep, ShutdownStep, PTL DEF Spec

-----------------------------------------------------------------------------
(* The refinement: what is in flight is the batch and, after it, the queue. *)

(* The batch is the front of the pending rows, the queue the rest. *)
LEMMA PendingSplits ==
  ASSUME NEW b \in Seq(Nat), NEW q \in Seq(Nat)
  PROVE  /\ b \o q \in Seq(Nat) /\ Len(b \o q) = Len(b) + Len(q)
         /\ SubSeq(b \o q, 1, Len(b)) = b
         /\ SubSeq(b \o q, Len(b) + 1, Len(b \o q)) = q
<1> DEFINE p == b \o q
<1>1. /\ Len(b) \in Nat /\ Len(q) \in Nat /\ p \in Seq(Nat) /\ Len(p) = Len(b) + Len(q)
      /\ \A i \in 1..Len(p) : p[i] = IF i <= Len(b) THEN b[i] ELSE q[i - Len(b)]
  BY ConcatProperties, LenProperties
<1>2. \A i \in 1..Len(p) : p[i] \in Nat
  BY <1>1, ElementOfSeq
<1> HIDE DEF p
<1>3. SubSeq(p, 1, Len(b)) = b
  <2>1. /\ SubSeq(p, 1, Len(b)) \in Seq(Nat) /\ Len(SubSeq(p, 1, Len(b))) = Len(b)
        /\ \A i \in 1..Len(b) : SubSeq(p, 1, Len(b))[i] = p[i]
    BY <1>1, <1>2, SubSeqProperties
  <2>2. \A i \in 1..Len(b) : SubSeq(p, 1, Len(b))[i] = b[i]
    BY <1>1, <2>1
  <2>3. QED
    BY <2>1, <2>2, SeqEqual
<1>4. SubSeq(p, Len(b) + 1, Len(p)) = q
  <2> DEFINE r == SubSeq(p, Len(b) + 1, Len(p))
  <2>1. /\ r \in Seq(Nat) /\ Len(r) = Len(q)
        /\ \A i \in 1..Len(q) : r[i] = p[Len(b) + i]
    BY <1>1, <1>2, SubSeqProperties
  <2> HIDE DEF r
  <2>2. ASSUME NEW i \in 1..Len(q) PROVE r[i] = q[i]
    <3>1. /\ Len(b) + i \in 1..Len(p) /\ ~(Len(b) + i <= Len(b))
          /\ (Len(b) + i) - Len(b) = i
      BY <1>1
    <3>2. p[Len(b) + i] = q[(Len(b) + i) - Len(b)]
      BY <1>1, <3>1
    <3>3. QED
      BY <2>1, <3>1, <3>2
  <2>3. QED
    BY <2>1, <2>2, SeqEqual DEF r
<1>5. QED
  BY <1>1, <1>3, <1>4 DEF p

(* A row appended to the queue is appended to the pending rows, and the    *)
(* first one of the queue may pass to the batch.                           *)
LEMMA PendingMoves ==
  ASSUME NEW b \in Seq(Nat), NEW q \in Seq(Nat), NEW n \in Nat
  PROVE  /\ b \o Append(q, n) = Append(b \o q, n)
         /\ q # <<>> => Append(b, Head(q)) \o Tail(q) = b \o q
<1>1. /\ Append(q, n) = q \o <<n>> /\ <<n>> \in Seq(Nat)
      /\ Append(b \o q, n) = (b \o q) \o <<n>>
  <2>1. b \o q \in Seq(Nat)
    BY ConcatProperties
  <2>2. Append(q, n) = q \o <<n>> /\ Append(b \o q, n) = (b \o q) \o <<n>>
    BY <2>1, AppendIsConcat
  <2>3. <<n>> \in Seq(Nat)
    OBVIOUS
  <2>4. QED
    BY <2>2, <2>3
<1>2. b \o Append(q, n) = Append(b \o q, n)
  BY <1>1, ConcatAssociative
<1>3. ASSUME q # <<>> PROVE Append(b, Head(q)) \o Tail(q) = b \o q
  <2>1. /\ Head(q) \in Nat /\ Tail(q) \in Seq(Nat) /\ <<Head(q)>> \in Seq(Nat)
        /\ Append(b, Head(q)) = b \o <<Head(q)>>
    BY <1>3, HeadTailProperties, AppendIsConcat
  <2>2. <<Head(q)>> \o Tail(q) = q
    <3>1. Len(q) \in Nat \ {0} /\ Head(q) = q[1] /\ Tail(q) = SubSeq(q, 2, Len(q))
      BY <1>3, EmptySeq, TailIsSubSeq
    <3>2. QED
      BY <3>1, SubSeqRecursiveFirst, SubSeqFull
  <2>3. QED
    BY <2>1, <2>2, ConcatAssociative
<1>4. QED
  BY <1>2, <1>3

(* Evicting the oldest row of the queue is replacing the row after the batch. *)
LEMMA PendingReplaces ==
  ASSUME NEW b \in Seq(Nat), NEW q \in Seq(Nat), NEW n \in Nat, q # <<>>,
         NEW i, i = Len(b) + 1
  PROVE  /\ i \in 1..Len(b \o q)
         /\ b \o Append(Tail(q), n) =
              SubSeq(b \o q, 1, i - 1) \o SubSeq(b \o q, i + 1, Len(b \o q)) \o <<n>>
<1>1. /\ Len(b) \in Nat /\ Len(q) \in Nat \ {0} /\ Len(b \o q) = Len(b) + Len(q)
      /\ b \o q \in Seq(Nat)
  BY LenProperties, EmptySeq, ConcatProperties
<1>2. Tail(q) \in Seq(Nat) /\ <<n>> \in Seq(Nat) /\ Append(Tail(q), n) = Tail(q) \o <<n>>
  BY HeadTailProperties, AppendIsConcat
<1>3. SubSeq(b \o q, 1, i - 1) = b
  BY <1>1, PendingSplits
<1>4. SubSeq(b \o q, i + 1, Len(b \o q)) = Tail(q)
  <2> DEFINE c == Append(b, Head(q))
  <2>1. Head(q) \in Nat /\ c \in Seq(Nat) /\ Len(c) = Len(b) + 1
    BY HeadTailProperties, AppendProperties
  <2>2. c \o Tail(q) = b \o q
    BY PendingMoves
  <2> HIDE DEF c
  <2>3. SubSeq(c \o Tail(q), Len(c) + 1, Len(c \o Tail(q))) = Tail(q)
    BY <1>2, <2>1, PendingSplits
  <2>4. QED
    BY <2>1, <2>2, <2>3
<1>5. b \o (Tail(q) \o <<n>>) = (b \o Tail(q)) \o <<n>>
  BY SMTT(30), <1>2, ConcatAssociative
<1>6. i \in 1..Len(b \o q)
  BY <1>1
<1>7. b \o Append(Tail(q), n) = (b \o Tail(q)) \o <<n>>
  BY <1>2, <1>5
<1>8. QED
  BY <1>3, <1>4, <1>6, <1>7

(* A batch that is given up is stored, or lost, as a whole. *)
LEMMA BatchLeaves ==
  ASSUME TypeInv, batch' = <<>>, UNCHANGED <<queue, offered>>, db' \in {db, db \o batch}
  PROVE  [Pipeline!Next]_(Pipeline!vars)
<1>1. /\ batch \in Seq(Nat) /\ queue \in Seq(Nat) /\ db \in Seq(Nat)
      /\ Len(batch) \in Nat /\ Len(queue) \in Nat
  BY LenProperties DEF TypeInv, TypeOK
<1>2. <<>> \o queue = queue /\ db \o <<>> = db
  BY <1>1, ConcatEmptySeq
<1>3. CASE batch = <<>>
  BY <1>1, <1>2, <1>3 DEF Pipeline!vars
<1>4. CASE batch # <<>>
  <2>1. Len(batch) \in 1..Len(batch \o queue)
    BY <1>1, <1>4, EmptySeq, PendingSplits
  <2>2. /\ SubSeq(batch \o queue, 1, Len(batch)) = batch
        /\ SubSeq(batch \o queue, Len(batch) + 1, Len(batch \o queue)) = queue
    BY <1>1, PendingSplits
  <2>3. (batch \o queue)' = queue
    BY <1>2
  <2>4. CASE db' = db
    <3>1. Pipeline!Lose
      BY <2>1, <2>2, <2>3, <2>4 DEF Pipeline!Lose
    <3>2. QED
      BY <3>1 DEF Pipeline!Next
  <2>5. CASE db' = db \o batch
    <3>1. Pipeline!Store
      BY <2>1, <2>2, <2>3, <2>5 DEF Pipeline!Store
    <3>2. QED
      BY <3>1 DEF Pipeline!Next
  <2>6. QED
    BY <2>4, <2>5
<1>5. QED
  BY <1>3, <1>4

(* Every call of enqueue() is an acceptance, a refusal or a replacement.   *)
LEMMA EnqueueMaps ==
  ASSUME TypeInv, Enqueue
  PROVE  Pipeline!Next
<1>1. /\ batch \in Seq(Nat) /\ queue \in Seq(Nat) /\ offered' = offered + 1
      /\ offered' \in Nat /\ UNCHANGED <<batch, db>>
  BY DEF TypeInv, TypeOK, Enqueue
<1>2. CASE EnqueueFits
  <2>1. (batch \o queue)' = Append(batch \o queue, offered')
    BY <1>1, <1>2, PendingMoves DEF EnqueueFits
  <2>2. QED
    BY <1>1, <2>1 DEF Pipeline!Accept, Pipeline!Next
<1>3. CASE EnqueueRefused
  BY <1>1, <1>3 DEF EnqueueRefused, Pipeline!Refuse, Pipeline!Next
<1>4. CASE EnqueueEvicts
  <2>1. queue # <<>> /\ queue' = Append(Tail(queue), offered')
    BY <1>4, EmptySeq, SizesAssumption DEF EnqueueEvicts
  <2>2. PICK i : i = Len(batch) + 1
    OBVIOUS
  <2>3. /\ i \in 1..Len(batch \o queue)
        /\ (batch \o queue)' =
             SubSeq(batch \o queue, 1, i - 1)
               \o SubSeq(batch \o queue, i + 1, Len(batch \o queue)) \o <<offered'>>
    BY ZenonT(60), <1>1, <2>1, <2>2, PendingReplaces
  <2>4. Pipeline!Replace
    BY <1>1, <2>3 DEF Pipeline!Replace
  <2>5. QED
    BY <2>4 DEF Pipeline!Next
<1>5. QED
  BY <1>2, <1>3, <1>4 DEF Enqueue

(* Every step of the writer is one of the pipeline, or none. *)
LEMMA StepMaps == TypeInv /\ [Next]_vars => [Pipeline!Next]_(Pipeline!vars)
<1> SUFFICES ASSUME TypeInv, [Next]_vars PROVE [Pipeline!Next]_(Pipeline!vars)
  OBVIOUS
<1>1. CASE Enqueue
  BY <1>1, EnqueueMaps
<1>2. CASE CollectRow
  <2>1. batch \in Seq(Nat) /\ queue \in Seq(Nat) /\ queue # <<>>
    BY <1>2 DEF TypeInv, TypeOK, CollectRow
  <2>2. (batch \o queue)' = batch \o queue
    BY <1>2, <2>1, PendingMoves DEF CollectRow
  <2>3. QED
    BY <1>2, <2>2 DEF CollectRow, Pipeline!vars
<1>3. CASE Flush \/ StopTimeout
  <2>1. batch' = <<>> /\ db' \in {db, db \o batch} /\ UNCHANGED <<queue, offered>>
    BY <1>3 DEF Flush, FlushSucceeds, FlushFails, StopTimeout
  <2>2. QED
    BY <2>1, BatchLeaves
<1>4. CASE Start \/ CollectTimeout \/ StopCall \/ StopReturn \/ UNCHANGED vars
  BY <1>4 DEF Start, CollectTimeout, StopCall, StopReturn, vars, Pipeline!vars
<1>5. QED
  BY <1>1, <1>2, <1>3, <1>4 DEF Next, WriterStep

(* The writer implements the lossy, ordered, at-most-once pipeline, for    *)
(* every size, policy and bound: rows leave the queue through the batch in *)
(* the order of enqueue(), and a batch is committed or lost as a whole.    *)
THEOREM WriterImplementsLossyFifo == Spec => ImplementsLossyFifo
<1>1. Init => Pipeline!Init
  <2>1. <<>> \o <<>> = <<>>
    BY EmptySeq, ConcatEmptySeq
  <2>2. QED
    BY <2>1 DEF Init, Pipeline!Init
<1>2. QED
  BY <1>1, TypeInit, TypeStep, StepMaps, PTL DEF Spec, ImplementsLossyFifo, Pipeline!Spec
-----------------------------------------------------------------------------
(* What runs, and what is owed, in each phase of the lifespan. *)
Stages ==
  /\ phase = "boot" => loops = {} /\ burst = 0
  /\ phase = "halving" => "sampler" \notin loops
  /\ phase \in {"flushing", "stopping"} \cup WriterStopped => loops = {} /\ openCount = 0
  /\ phase \in {"stopping"} \cup WriterStopped => burst = 0 /\ offered = stopMark

(* A task is cancelled only by a shutdown that was cut short, and after    *)
(* one that was not, nothing is left.                                      *)
WriterEnd ==
  /\ task = Cancelled => aborts > 0
  /\ phase \in WriterStopped => task = NoTask
  /\ phase \in WriterStopped /\ aborts = 0 => queue = <<>>

(* Until a batch fails, what is counted as written is what is stored. *)
WrittenIsStored ==
  metrics.failed_batches = 0 /\ aborts = 0 => Len(db) = metrics.written_total

WriterInv ==
  /\ TypeInv /\ PipelineOrdered /\ LossBounded /\ ShutdownInv /\ WrittenIsStored

PipelineInv == WriterInv /\ PipelineTypeOK /\ Stages /\ WriterEnd

USE DEF WriterStopped

-----------------------------------------------------------------------------
(* A step of the composition is a step of the writer, or leaves it alone. *)
LEMMA StepOfWriter ==
  ASSUME [PipelineNext]_pipelineVars PROVE [Next]_vars
<1>1. CASE LifespanStart \/ EnqueueNext \/ StopWriter \/ StopRetention \/ WriterRuns
  BY <1>1 DEF LifespanStart, EnqueueNext, StopWriter, StopRetention, WriterRuns, Next, Flush
<1>2. CASE SampleQuotes \/ ProcessEvents \/ CancelSampler \/ CancelEventLoop
             \/ DisposeEngine \/ LifespanEnd \/ DatabaseHangs \/ UNCHANGED pipelineVars
  BY <1>2 DEF SampleQuotes, ProcessEvents, CancelSampler, CancelEventLoop, DisposeEngine,
              LifespanEnd, DatabaseHangs, pipelineVars, writerVars
<1>3. QED
  BY <1>1, <1>2 DEF PipelineNext, Produce, Shutdown

(* The composition implements the writer's specification: no caller of the *)
(* writer does what DbWriter does not allow for.                           *)
THEOREM PipelineImplementsWriter == PipelineSpec => Spec
<1>1. PipelineInit => Init
  BY DEF PipelineInit
<1>2. [PipelineNext]_pipelineVars => [Next]_vars
  BY StepOfWriter
<1>3. QED
  BY <1>1, <1>2, PTL DEF PipelineSpec, Spec

-----------------------------------------------------------------------------
(* What is counted as written stays stored as long as no batch fails. *)
LEMMA WrittenStep ==
  ASSUME TypeInv, WrittenIsStored, [Next]_vars PROVE WrittenIsStored'
<1>1. /\ metrics \in Metrics /\ aborts \in Nat /\ db \in Seq(Nat) /\ batch \in Seq(Nat)
      /\ metrics.failed_batches \in Nat /\ metrics.written_total \in Nat
  BY MetricsNat DEF TypeInv, TypeOK
<1>2. CASE FlushSucceeds
  <2>1. Len(db') = Len(db) + Len(batch)
    BY <1>1, <1>2, ConcatProperties DEF FlushSucceeds
  <2>2. /\ metrics'.written_total = metrics.written_total + Len(batch)
        /\ metrics'.failed_batches = metrics.failed_batches /\ aborts' = aborts
    BY <1>1, <1>2 DEF FlushSucceeds, Metrics, history
  <2>3. QED
    BY <2>1, <2>2 DEF WrittenIsStored
<1>3. CASE FlushFails \/ StopTimeout
  <2>1. metrics'.failed_batches > 0 \/ aborts' > 0
    BY <1>1, <1>3 DEF FlushFails, StopTimeout, Metrics
  <2>2. metrics'.failed_batches \in Nat /\ aborts' \in Nat
    BY <1>1, <1>3 DEF FlushFails, StopTimeout, Metrics, history
  <2>3. QED
    BY <2>1, <2>2 DEF WrittenIsStored
<1>4. CASE Enqueue
  <2>1. /\ metrics'.written_total = metrics.written_total
        /\ metrics'.failed_batches = metrics.failed_batches /\ UNCHANGED <<db, aborts>>
    BY <1>1, <1>4 DEF Enqueue, EnqueueFits, EnqueueRefused, EnqueueEvicts, Metrics, history
  <2>2. QED
    BY <2>1 DEF WrittenIsStored
<1>5. CASE Start \/ WriterStep \/ StopCall \/ StopReturn \/ UNCHANGED vars
  <2>1. UNCHANGED <<metrics, db, aborts>>
    BY <1>5 DEF Start, WriterStep, CollectRow, CollectTimeout, StopCall, StopReturn, vars, history
  <2>2. QED
    BY <2>1 DEF WrittenIsStored
<1>6. QED
  BY <1>2, <1>3, <1>4, <1>5 DEF Next, Flush

LEMMA WriterInvInit == Init => WriterInv
<1> SUFFICES ASSUME Init PROVE WriterInv
  OBVIOUS
<1>1. TypeInv /\ PipelineOrdered /\ LossBounded /\ ShutdownInv
  BY TypeInit, OrderInit, LossInit, ShutdownInit
<1>2. WrittenIsStored
  BY EmptySeq DEF Init, WrittenIsStored
<1>3. QED
  BY <1>1, <1>2 DEF WriterInv

LEMMA WriterInvStep == WriterInv /\ [Next]_vars => WriterInv'
BY TypeStep, OrderStep, LossStep, ShutdownStep, WrittenStep DEF WriterInv

(* As long as no flush failed and no stop was cut short, what is nowhere   *)
(* any more was counted, whatever the policy evicted or refused.           *)
THEOREM DropsAlwaysCounted == Spec => []DropsCounted
<1>1. WriterInv => DropsCounted
  <2> SUFFICES ASSUME WriterInv, metrics.failed_batches = 0, aborts = 0
               PROVE  Lost = metrics.dropped_total
    BY DEF DropsCounted
  <2>1. /\ metrics.written_total \in Nat /\ metrics.dropped_total \in Nat /\ offered \in Nat
        /\ Len(batch) \in Nat /\ Len(queue) \in Nat /\ BatchMaxRows \in Nat
    BY MetricsNat, SizesAssumption, LenProperties DEF WriterInv, TypeInv, TypeOK
  <2>2. /\ metrics.written_total + metrics.dropped_total + Len(batch) + Len(queue) <= offered
        /\ offered - (metrics.written_total + metrics.dropped_total + Len(batch) + Len(queue))
             <= BatchMaxRows * (0 + 0)
    BY <2>1 DEF WriterInv, LossBounded, Uncounted
  <2>3. Len(db) = metrics.written_total
    BY DEF WriterInv, WrittenIsStored
  <2>4. BatchMaxRows * (0 + 0) = 0
    BY <2>1
  <2> DEFINE w == metrics.written_total
             d == metrics.dropped_total
             b == Len(batch)
             q == Len(queue)
  <2>5. w + d + b + q <= offered /\ offered - (w + d + b + q) <= 0
    BY <2>2, <2>4
  <2>6. offered - (w + b + q) = d
    <3>1. w \in Nat /\ d \in Nat /\ b \in Nat /\ q \in Nat /\ offered \in Nat
      BY <2>1
    <3> HIDE DEF w, d, b, q
    <3>2. QED
      BY <2>5, <3>1
  <2>7. QED
    BY <2>3, <2>6 DEF Lost
<1>2. QED
  BY WriterInvInit, WriterInvStep, <1>1, PTL DEF Spec

-----------------------------------------------------------------------------
LEMMA PipelineInvInit == PipelineInit => PipelineInv
<1> SUFFICES ASSUME PipelineInit PROVE PipelineInv
  OBVIOUS
<1>1. WriterInv
  BY WriterInvInit DEF PipelineInit
<1>2. PipelineTypeOK
  <2>1. offered = 0 /\ burst = 0 /\ openCount = 0 /\ phase = "boot" /\ loops = {} /\ hung = FALSE
    BY DEF PipelineInit, Init
  <2>2. MaxRows \in Nat /\ MaxOpen \in Nat
    BY BoundsAssumption, BurstAssumption
  <2>3. /\ phase \in LifespanPhases /\ loops \subseteq {"sampler", "events"}
        /\ openCount \in 0..MaxOpen /\ burst \in Nat
        /\ offered + burst + openCount <= MaxRows
    BY <2>1, <2>2 DEF LifespanPhases
  <2>4. QED
    BY Zenon, <1>1, <2>1, <2>3 DEF PipelineTypeOK, WriterInv, TypeInv
<1>3. Stages /\ WriterEnd
  BY DEF Stages, WriterEnd, PipelineInit, Init
<1>4. QED
  BY <1>1, <1>2, <1>3 DEF PipelineInv

(* The producers' steps. *)
LEMMA ProduceKeepsInv ==
  ASSUME PipelineInv, Produce, WriterInv'
  PROVE  PipelineInv'
<1> USE DEF PipelineInv
<1>1. /\ offered \in Nat /\ burst \in Nat /\ openCount \in 0..MaxOpen /\ MaxRows \in Nat
      /\ MaxOpen \in Nat /\ SampleRows \in Nat /\ TypeOK'
  BY BoundsAssumption, BurstAssumption DEF PipelineTypeOK, TypeOK, WriterInv, TypeInv
<1>2. CASE SampleQuotes
  <2>1. /\ loops # {} /\ burst' \in Nat /\ UNCHANGED <<vars, phase, loops, openCount, hung>>
        /\ offered + burst' + openCount <= MaxRows
    <3>1. "sampler" \in loops /\ burst' \in 1..SampleRows
      BY <1>2 DEF SampleQuotes
    <3>2. /\ UNCHANGED <<vars, phase, loops, openCount, hung>>
          /\ offered + burst' + openCount <= MaxRows
      BY <1>2 DEF SampleQuotes, writerVars
    <3>3. burst' \in Nat
      BY <1>1, <3>1
    <3>4. loops # {}
      BY <3>1
    <3>5. QED
      BY <3>2, <3>3, <3>4
  <2>2. QED
    BY <1>1, <2>1 DEF vars, PipelineTypeOK, Stages, WriterEnd
<1>3. CASE ProcessEvents
  <2>1. /\ loops # {} /\ burst' \in Nat /\ openCount' \in 0..MaxOpen
        /\ UNCHANGED <<vars, phase, loops, hung>>
        /\ offered + burst' + openCount' <= MaxRows
    BY <1>1, <1>3 DEF ProcessEvents, writerVars
  <2>2. QED
    BY <1>1, <2>1 DEF vars, PipelineTypeOK, Stages, WriterEnd
<1>4. CASE EnqueueNext
  <2>1. /\ burst > 0 /\ burst' = burst - 1 /\ offered' = offered + 1
        /\ UNCHANGED <<phase, loops, openCount, hung, task, aborts, stopMark>>
    BY <1>4 DEF EnqueueNext, Enqueue, history
  <2>2. PipelineTypeOK'
    BY <1>1, <2>1 DEF PipelineTypeOK
  <2>3. phase \notin {"boot", "stopping"} \cup WriterStopped
    BY <1>1, <2>1 DEF Stages
  <2>4. Stages' /\ WriterEnd'
    BY <2>1, <2>3 DEF Stages, WriterEnd
  <2>5. QED
    BY <2>2, <2>4
<1>5. QED
  BY <1>2, <1>3, <1>4 DEF Produce

(* A queue that holds only rows of after stop(), when none was offered     *)
(* since, is empty.                                                        *)
LEMMA DrainedIsEmpty ==
  ASSUME PipelineInv, phase = "stopping", task = Drained
  PROVE  queue = <<>>
<1>1. offered = stopMark /\ offered \in Nat
  BY DEF PipelineInv, Stages, WriterInv, TypeInv, TypeOK
<1>2. queue \in Seq(Nat) /\ Len(queue) \in Nat
  BY LenProperties DEF PipelineInv, WriterInv, TypeInv, TypeOK
<1>3. \A i \in 1..Len(queue) : queue[i] > stopMark /\ queue[i] <= offered /\ queue[i] \in Nat
  BY <1>2, ElementOfSeq
     DEF PipelineInv, WriterInv, ShutdownInv, CleanStopDrains, PipelineOrdered, UpTo
<1>4. Len(queue) = 0
  BY <1>1, <1>2, <1>3
<1>5. QED
  BY <1>2, <1>4, EmptySeq

(* The steps of the lifespan. *)
LEMMA LifespanKeepsInv ==
  ASSUME PipelineInv, LifespanStart \/ Shutdown, WriterInv'
  PROVE  PipelineInv'
<1> USE DEF PipelineInv
<1>1. /\ offered \in Nat /\ burst \in Nat /\ openCount \in 0..MaxOpen /\ MaxRows \in Nat
      /\ MaxOpen \in Nat /\ TypeOK' /\ aborts \in Nat
      /\ offered + burst + openCount <= MaxRows /\ loops \subseteq {"sampler", "events"}
  BY BoundsAssumption, BurstAssumption DEF PipelineTypeOK, TypeOK, WriterInv, TypeInv
<1>2. CASE LifespanStart
  <2>1. /\ phase' = "up" /\ loops' = {"sampler", "events"} /\ task' # Cancelled
        /\ UNCHANGED <<burst, openCount, hung, offered>>
    BY <1>2 DEF LifespanStart, Start
  <2>2. QED
    BY <1>1, <2>1 DEF PipelineTypeOK, LifespanPhases, Stages, WriterEnd
<1>3. CASE CancelSampler
  <2>1. /\ phase' = "halving" /\ loops' = loops \ {"sampler"}
        /\ UNCHANGED <<vars, burst, openCount, hung>>
    BY <1>3 DEF CancelSampler, writerVars
  <2>2. QED
    BY <1>1, <2>1 DEF vars, PipelineTypeOK, LifespanPhases, Stages, WriterEnd
<1>4. CASE CancelEventLoop
  <2>1. /\ phase = "halving" /\ phase' = "flushing" /\ loops' = loops \ {"events"}
        /\ burst = 0 /\ burst' = openCount /\ openCount' = 0 /\ UNCHANGED <<vars, hung>>
    BY <1>4 DEF CancelEventLoop, Suspended, writerVars
  <2>2. loops' = {}
    BY <1>1, <2>1 DEF Stages
  <2>3. QED
    BY <1>1, <2>1, <2>2 DEF vars, PipelineTypeOK, LifespanPhases, Stages, WriterEnd
<1>5. CASE StopWriter
  <2>1. /\ phase = "flushing" /\ burst = 0 /\ phase' = "stopping" /\ stopMark' = offered
        /\ UNCHANGED <<loops, burst, openCount, hung, task, aborts, offered>>
    BY <1>5 DEF StopWriter, RecorderStopped, StopCall
  <2>2. QED
    BY <1>1, <2>1 DEF PipelineTypeOK, LifespanPhases, Stages, WriterEnd
<1>6. CASE StopRetention
  <2>1. /\ phase = "stopping" /\ phase' = "maintaining" /\ task' = NoTask
        /\ task = Drained \/ task = Cancelled
        /\ UNCHANGED <<loops, burst, openCount, hung, queue, aborts, offered, stopMark>>
    BY <1>6 DEF StopRetention, StopReturn, history
  <2>2. aborts = 0 => queue = <<>>
    BY <1>1, <2>1, DrainedIsEmpty DEF WriterEnd
  <2>3. QED
    BY <1>1, <2>1, <2>2 DEF PipelineTypeOK, LifespanPhases, Stages, WriterEnd
<1>7. CASE DisposeEngine \/ LifespanEnd
  <2>1. /\ phase \in WriterStopped /\ phase' \in WriterStopped
        /\ UNCHANGED <<vars, loops, burst, openCount, hung>>
    BY <1>7 DEF DisposeEngine, LifespanEnd, writerVars
  <2>2. QED
    BY <1>1, <2>1 DEF vars, PipelineTypeOK, LifespanPhases, Stages, WriterEnd
<1>8. QED
  BY <1>2, <1>3, <1>4, <1>5, <1>6, <1>7 DEF Shutdown

(* The steps of the writer. *)
LEMMA WriterKeepsInv ==
  ASSUME PipelineInv, WriterRuns, WriterInv'
  PROVE  PipelineInv'
<1> USE DEF PipelineInv
<1>1. /\ UNCHANGED <<phase, loops, burst, openCount, hung, offered, stopMark>>
      /\ TypeOK' /\ aborts \in Nat
  BY DEF WriterRuns, WriterStep, CollectRow, CollectTimeout, Flush, FlushSucceeds, FlushFails,
         StopTimeout, history, WriterInv, TypeInv, TypeOK
<1>2. PipelineTypeOK' /\ Stages'
  BY <1>1 DEF PipelineTypeOK, Stages
<1>3. task \in {Collect, Write}
  BY DEF WriterRuns, WriterStep, CollectRow, CollectTimeout, Flush, FlushSucceeds, FlushFails,
         StopTimeout
<1>4. phase \notin WriterStopped
  BY <1>3 DEF WriterEnd
<1>5. task' = Cancelled => aborts' > 0
  <2>1. CASE StopTimeout
    BY <1>1, <2>1 DEF StopTimeout
  <2>2. CASE WriterStep \/ Flush
    BY <2>2 DEF WriterStep, CollectRow, CollectTimeout, Flush, FlushSucceeds, FlushFails, LoopTest
  <2>3. QED
    BY <2>1, <2>2 DEF WriterRuns
<1>6. QED
  BY <1>1, <1>2, <1>4, <1>5 DEF WriterEnd

LEMMA PipelineInvStep == PipelineInv /\ [PipelineNext]_pipelineVars => PipelineInv'
<1> SUFFICES ASSUME PipelineInv, [PipelineNext]_pipelineVars PROVE PipelineInv'
  OBVIOUS
<1>1. WriterInv'
  BY StepOfWriter, WriterInvStep DEF PipelineInv
<1>2. CASE DatabaseHangs \/ UNCHANGED pipelineVars
  <2>1. UNCHANGED <<vars, phase, loops, burst, openCount>> /\ hung' \in BOOLEAN
    BY <1>2 DEF DatabaseHangs, pipelineVars, writerVars, PipelineInv, PipelineTypeOK
  <2>2. PipelineTypeOK' /\ Stages' /\ WriterEnd'
    BY <1>1, <2>1 DEF PipelineInv, vars, PipelineTypeOK, Stages, WriterEnd, WriterInv, TypeInv
  <2>3. QED
    BY <1>1, <2>2 DEF PipelineInv
<1>3. CASE Produce \/ LifespanStart \/ Shutdown \/ WriterRuns
  BY <1>1, <1>3, ProduceKeepsInv, LifespanKeepsInv, WriterKeepsInv
<1>4. QED
  BY <1>2, <1>3 DEF PipelineNext

-----------------------------------------------------------------------------
(* The variables keep their types; there is always room for the rows of    *)
(* the running burst and of the events that are open.                      *)
THEOREM PipelineTypeCorrect == PipelineSpec => []PipelineTypeOK
<1>1. PipelineInv => PipelineTypeOK
  BY DEF PipelineInv
<1>2. QED
  BY PipelineInvInit, PipelineInvStep, <1>1, PTL DEF PipelineSpec

(* Nobody enqueues a row once writer.stop() was called. *)
THEOREM NeverARowAfterStop == PipelineSpec => []NoRowAfterStop
<1>1. PipelineInv => NoRowAfterStop
  BY DEF PipelineInv, Stages, NoRowAfterStop
<1>2. QED
  BY PipelineInvInit, PipelineInvStep, <1>1, PTL DEF PipelineSpec

(* A shutdown that its timeout does not cut short leaves no event open and *)
(* no row behind, and unless a batch failed every row ever offered is in   *)
(* the database or counted as dropped.                                     *)
THEOREM ShutdownNeverLoses == PipelineSpec => []ShutdownLosesNothing
<1>1. PipelineInv => ShutdownLosesNothing
  <2> SUFFICES ASSUME PipelineInv, phase \in WriterStopped, aborts = 0
               PROVE  /\ openCount = 0 /\ queue = <<>> /\ batch = <<>>
                      /\ metrics.failed_batches = 0 => Len(db) + metrics.dropped_total = offered
    BY DEF ShutdownLosesNothing
  <2>1. openCount = 0 /\ queue = <<>> /\ batch = <<>>
    BY DEF PipelineInv, Stages, WriterEnd, WriterInv, TypeInv, BatchShape
  <2>2. ASSUME metrics.failed_batches = 0 PROVE Len(db) + metrics.dropped_total = offered
    <3>1. /\ metrics.written_total \in Nat /\ metrics.dropped_total \in Nat /\ offered \in Nat
          /\ BatchMaxRows \in Nat /\ Len(<<>>) = 0
      BY MetricsNat, SizesAssumption, EmptySeq DEF PipelineInv, WriterInv, TypeInv, TypeOK
    <3>2. metrics.written_total + metrics.dropped_total <= offered
          /\ offered - (metrics.written_total + metrics.dropped_total) <= BatchMaxRows * (0 + 0)
      BY <2>1, <2>2, <3>1 DEF PipelineInv, WriterInv, LossBounded, Uncounted
    <3>3. Len(db) = metrics.written_total
      BY <2>2 DEF PipelineInv, WriterInv, WrittenIsStored
    <3>4. QED
      BY <3>1, <3>2, <3>3
  <2>3. QED
    BY <2>1, <2>2
<1>2. QED
  BY PipelineInvInit, PipelineInvStep, <1>1, PTL DEF PipelineSpec
=============================================================================
