-------------------------- MODULE ThreadPoolProofs --------------------------
(***************************************************************************)
(* PoolInv is an inductive invariant of the pool, whatever the number of   *)
(* workers and of tasks; its conjuncts and WaitIsComplete follow.          *)
(***************************************************************************)
EXTENDS ThreadPool, FiniteSetTheorems, SequenceTheorems, TLAPS

(***************************************************************************)
(* The steps of the pool with any client: unlike PoolNext, a task may be   *)
(* enqueued twice.  Portfolio composes with the same steps.                *)
(***************************************************************************)
AnyPoolStep ==
  \/ \E t \in Tasks : EnqueuePush(t)
  \/ \E deadline \in BOOLEAN : BeginWait(deadline)
  \/ KillAll \/ DestroyKilled \/ Destroy
  \/ CallerStep \/ Environment
  \/ \E w \in Workers : WorkerStep(w)

-----------------------------------------------------------------------------
(* Sequences and cardinalities *)

\* Appending to the queue appends to what was submitted.
LEMMA PushConcat ==
  ASSUME NEW S, NEW a \in Seq(S), NEW q \in Seq(S), NEW t \in S
  PROVE  a \o Append(q, t) = (a \o q) \o <<t>>
<1>1. <<t>> \in Seq(S)
  OBVIOUS
<1>2. (a \o q) \o <<t>> = a \o (q \o <<t>>)
  BY <1>1, ConcatAssociative
<1>. QED
  BY <1>2, AppendIsConcat

\* Moving the head of the queue to the end of the started tasks changes nothing.
LEMMA PopConcat ==
  ASSUME NEW S, NEW a \in Seq(S), NEW q \in Seq(S), q # <<>>
  PROVE  a \o q = Append(a, Head(q)) \o Tail(q)
<1>1. Head(q) \in S /\ Tail(q) \in Seq(S) /\ <<Head(q)>> \in Seq(S)
  BY HeadTailProperties
<1>2. q = <<Head(q)>> \o Tail(q)
  <2>1. <<Head(q)>> \o Tail(q) \in Seq(S)
    BY <1>1, ConcatProperties
  <2>2. Len(<<Head(q)>> \o Tail(q)) = Len(q)
    BY <1>1, ConcatProperties, HeadTailProperties, LenProperties
  <2>3. ASSUME NEW i \in 1..Len(q)
        PROVE  q[i] = (<<Head(q)>> \o Tail(q))[i]
    BY <1>1, ConcatProperties, HeadTailProperties, LenProperties
  <2>. QED
    BY <2>1, <2>2, <2>3, SeqEqual
<1>3. (a \o <<Head(q)>>) \o Tail(q) = a \o (<<Head(q)>> \o Tail(q))
  BY <1>1, ConcatAssociative
<1>. QED
  BY <1>1, <1>2, <1>3, AppendIsConcat

\* What a sequence holds after Append.
LEMMA RangeAppend ==
  ASSUME NEW S, NEW s \in Seq(S), NEW e \in S
  PROVE  RangeOf(Append(s, e)) = RangeOf(s) \cup {e}
<1>1. /\ Len(s) \in Nat /\ Len(Append(s, e)) = Len(s) + 1
      /\ \A i \in 1..Len(s) : Append(s, e)[i] = s[i]
      /\ Append(s, e)[Len(s) + 1] = e
  BY AppendProperties, LenProperties
<1>2. ASSUME NEW x \in RangeOf(Append(s, e))  PROVE x \in RangeOf(s) \cup {e}
  <2>1. PICK i \in 1..(Len(s) + 1) : x = Append(s, e)[i]
    BY <1>1, <1>2 DEF RangeOf
  <2>2. CASE i = Len(s) + 1
    BY <1>1, <2>1, <2>2
  <2>3. CASE i \in 1..Len(s)
    BY <1>1, <2>1, <2>3 DEF RangeOf
  <2>. QED
    BY <1>1, <2>2, <2>3
<1>3. ASSUME NEW x \in RangeOf(s)  PROVE x \in RangeOf(Append(s, e))
  BY <1>1 DEF RangeOf
<1>4. e \in RangeOf(Append(s, e))
  BY <1>1 DEF RangeOf
<1>. QED
  BY <1>2, <1>3, <1>4

\* The sets of workers are finite, and one worker more or less is one more or
\* less in their cardinality.
LEMMA WorkerSets ==
  ASSUME NEW S \in SUBSET Workers
  PROVE  /\ IsFiniteSet(S) /\ Cardinality(S) \in Nat
         /\ Cardinality(S) = 0 => S = {}
         /\ \A w \in Workers \ S : Cardinality(S \cup {w}) = Cardinality(S) + 1
         /\ \A w \in S : Cardinality(S \ {w}) = Cardinality(S) - 1
<1>1. IsFiniteSet(S)
  BY WorkersAssumption, FS_Subset
<1>2. Cardinality(S) \in Nat /\ (Cardinality(S) = 0 => S = {})
  BY <1>1, FS_CardinalityType, FS_EmptySet
<1>3. \A w \in Workers \ S : Cardinality(S \cup {w}) = Cardinality(S) + 1
  BY <1>1, FS_AddElement
<1>4. \A w \in S : Cardinality(S \ {w}) = Cardinality(S) - 1
  BY <1>1, FS_RemoveElement
<1>. QED
  BY <1>1, <1>2, <1>3, <1>4

-----------------------------------------------------------------------------
(* PoolInv is inductive: one lemma per conjunct *)

\* The initial state satisfies every conjunct.
LEMMA PoolInitInv == PoolInit => PoolInv
<1> SUFFICES ASSUME PoolInit PROVE PoolInv
  OBVIOUS
<1>1. PoolTypeOK
  <2>1. <<>> \in Seq(Tasks)
    BY EmptySeq
  <2>2. wpc \in [Workers -> WorkerPC] /\ wtask \in [Workers -> Tasks \cup {NoTask}]
    BY DEF PoolInit, WorkerPC
  <2>3. caller \in CallerPC
    BY DEF PoolInit, CallerPC
  <2>4. stop \in BOOLEAN /\ killed \in BOOLEAN /\ timed \in BOOLEAN
        /\ waitResult \in BOOLEAN
    BY Zenon DEF PoolInit
  <2>5. pending \in Int
    BY DEF PoolInit
  <2>. QED
    BY <2>1, <2>2, <2>3, <2>4, <2>5 DEF PoolInit, PoolTypeOK
<1>2. InTask = {} /\ Waiters = {}
  BY DEF PoolInit, InTask, Busy, Waiters, At
<1>3. PendingCounts
  BY <1>2, FS_EmptySet, EmptySeq DEF PoolInit, PendingCounts
<1>4. FIFO /\ NoLostWakeup
  BY <1>2, ConcatEmptySeq, EmptySeq DEF PoolInit, FIFO, NoLostWakeup
<1>5. StartedAccounted
  <2>1. RangeOf(started) = {}
    BY EmptySeq DEF PoolInit, RangeOf
  <2>. QED
    BY <2>1 DEF PoolInit, StartedAccounted
<1>6. EndOfLife
  BY DEF PoolInit, EndOfLife
<1>. QED
  BY <1>1, <1>3, <1>4, <1>5, <1>6 DEF PoolInv

\* A worker that runs a task holds one that was enqueued, so every step keeps
\* the types.
LEMMA PoolTypeStep ==
  ASSUME PoolInv, AnyPoolStep  PROVE PoolTypeOK'
<1> USE DEF PoolInv, PoolTypeOK, WorkerPC, CallerPC, Busy, Gone
<1>1. ASSUME NEW t \in Tasks, EnqueuePush(t)  PROVE PoolTypeOK'
  BY <1>1, AppendProperties DEF EnqueuePush
<1>2. CASE EnqueueNotify
  BY <1>2 DEF EnqueueNotify, Waiters, At, history
<1>3. ASSUME NEW d \in BOOLEAN, BeginWait(d)  PROVE PoolTypeOK'
  BY <1>3 DEF BeginWait, history
<1>4. CASE WaitCheck \/ DeadlineExpires \/ SpuriousCallerWake
  BY <1>4 DEF WaitCheck, DeadlineExpires, SpuriousCallerWake, history
<1>5. CASE KillAll
  BY <1>5, EmptySeq DEF KillAll, history
<1>6. CASE KillNotify \/ DtorNotify
  BY <1>6 DEF KillNotify, DtorNotify, WakeAll, history
<1>7. CASE KillCancel \/ DestroyKilled \/ Destroy \/ DtorJoined
  BY <1>7 DEF KillCancel, DestroyKilled, Destroy, DtorJoined, history
<1>8. ASSUME NEW w \in Workers, PopTask(w)  PROVE PoolTypeOK'
  BY <1>8, HeadTailProperties, AppendProperties DEF PopTask
<1>9. ASSUME NEW w \in Workers, Sleep(w) \/ ExitLoop(w)  PROVE PoolTypeOK'
  BY <1>9 DEF Sleep, ExitLoop, history
<1>10. ASSUME NEW w \in Workers, TaskReturn(w)  PROVE PoolTypeOK'
  <2>1. wtask[w] \in Tasks
    BY <1>10, ElementOfSeq DEF TaskReturn, StartedAccounted, RangeOf
  <2>. QED
    BY <1>10, <2>1 DEF TaskReturn
<1>11. ASSUME NEW w \in Workers, Finish(w)  PROVE PoolTypeOK'
  <2>1. WakeAll \in [Workers -> WorkerPC]
    BY DEF WakeAll
  <2>2. wpc' \in [Workers -> WorkerPC] /\ caller' \in CallerPC
    BY <1>11, <2>1 DEF Finish
  <2>3. wtask' \in [Workers -> Tasks \cup {NoTask}]
    BY <1>11 DEF Finish
  <2>4. pending' \in Int
    BY <1>11 DEF Finish
  <2>5. stop' = TRUE \/ stop' = stop
    BY <1>11, Zenon DEF Finish
  <2>. QED
    BY <1>11, <2>2, <2>3, <2>4, <2>5 DEF Finish, history
<1>12. ASSUME NEW w \in Workers,
              Cancelled(w) \/ UseDestroyed(w) \/ SpuriousWorkerWake(w)
       PROVE PoolTypeOK'
  BY <1>12 DEF Cancelled, UseDestroyed, SpuriousWorkerWake, history
<1>. QED
  BY <1>1, <1>2, <1>3, <1>4, <1>5, <1>6, <1>7, <1>8, <1>9, <1>10, <1>11, <1>12
  DEF AnyPoolStep, CallerStep, Environment, WorkerStep

\* pending_ goes up with each push and down with each second lock; the steps
\* in between only move a task from the queue to a worker.
LEMMA PendingStep ==
  ASSUME PoolInv, AnyPoolStep  PROVE PendingCounts'
<1> USE DEF PoolInv, PoolTypeOK
<1>0. /\ Len(tasks) \in Nat /\ InTask \in SUBSET Workers
      /\ Cardinality(InTask) \in Nat
  BY LenProperties, WorkerSets DEF InTask
<1>1. ASSUME NEW t \in Tasks, EnqueuePush(t)  PROVE PendingCounts'
  <2>1. InTask' = InTask
    BY <1>1 DEF EnqueuePush, InTask
  <2>2. Len(tasks') = Len(tasks) + 1
    BY <1>1, AppendProperties DEF EnqueuePush
  <2>. QED
    BY <1>0, <1>1, <2>1, <2>2 DEF EnqueuePush, PendingCounts
<1>2. CASE tasks' = tasks /\ pending' = pending /\ killed' = killed /\ InTask' = InTask
  BY <1>2 DEF PendingCounts
<1>3. CASE killed'
  BY <1>3 DEF PendingCounts
<1>4. ASSUME NEW w \in Workers, PopTask(w)  PROVE PendingCounts'
  <2>1. w \notin InTask /\ InTask' = InTask \cup {w}
    BY <1>4 DEF PopTask, InTask, Busy
  <2>2. Len(tasks') = Len(tasks) - 1
    BY <1>4, HeadTailProperties DEF PopTask
  <2>3. Cardinality(InTask') = Cardinality(InTask) + 1
    BY <1>0, <2>1, WorkerSets
  <2>. QED
    BY <1>0, <1>4, <2>2, <2>3 DEF PopTask, PendingCounts
<1>5. ASSUME NEW w \in Workers, Finish(w)  PROVE PendingCounts'
  <2>1. w \in InTask /\ InTask' = InTask \ {w}
    BY <1>5 DEF Finish, InTask, Busy, WakeAll
  <2>2. Cardinality(InTask') = Cardinality(InTask) - 1
    BY <1>0, <2>1, WorkerSets
  <2>. QED
    BY <1>0, <1>5, <2>2 DEF Finish, PendingCounts
<1>6. CASE EnqueueNotify \/ KillNotify \/ DtorNotify
  <2>1. InTask' = InTask
    BY <1>6 DEF EnqueueNotify, KillNotify, DtorNotify, InTask, WakeAll, Busy, Waiters, At
  <2>. QED
    BY <1>2, <1>6, <2>1 DEF EnqueueNotify, KillNotify, DtorNotify
<1>7. ASSUME NEW d \in BOOLEAN, BeginWait(d)  PROVE PendingCounts'
  BY <1>2, <1>7 DEF BeginWait, InTask
<1>8. CASE WaitCheck \/ DeadlineExpires \/ SpuriousCallerWake \/ KillCancel
           \/ DestroyKilled \/ Destroy \/ DtorJoined
  BY <1>2, <1>8 DEF WaitCheck, DeadlineExpires, SpuriousCallerWake, KillCancel,
                    DestroyKilled, Destroy, DtorJoined, InTask
<1>9. CASE KillAll
  BY <1>3, <1>9 DEF KillAll
<1>10. ASSUME NEW w \in Workers,
              Sleep(w) \/ ExitLoop(w) \/ TaskReturn(w) \/ SpuriousWorkerWake(w)
       PROVE PendingCounts'
  <2>1. InTask' = InTask
    BY <1>10 DEF Sleep, ExitLoop, TaskReturn, SpuriousWorkerWake, InTask, Busy
  <2>. QED
    BY <1>2, <1>10, <2>1 DEF Sleep, ExitLoop, TaskReturn, SpuriousWorkerWake
<1>11. ASSUME NEW w \in Workers, Cancelled(w) \/ UseDestroyed(w)  PROVE PendingCounts'
  \* both need a pool that was killed: a joined pool has no worker left
  BY <1>3, <1>11 DEF Cancelled, UseDestroyed, CancelSent, EndOfLife, Gone
<1>. QED
  BY <1>1, <1>4, <1>5, <1>6, <1>7, <1>8, <1>9, <1>10, <1>11
  DEF AnyPoolStep, CallerStep, Environment, WorkerStep

\* enqueue appends to both sides of the equation, a pop moves a task from the
\* queue to the started ones.
LEMMA FIFOStep ==
  ASSUME PoolInv, AnyPoolStep  PROVE FIFO'
<1> USE DEF PoolInv, PoolTypeOK
<1>1. ASSUME NEW t \in Tasks, EnqueuePush(t)  PROVE FIFO'
  <2>1. ~killed /\ submitted = started \o tasks
    BY <1>1 DEF EnqueuePush, FIFO
  <2>2. Append(submitted, t) = submitted \o <<t>>
    BY AppendIsConcat
  <2>3. started \o Append(tasks, t) = (started \o tasks) \o <<t>>
    BY PushConcat
  <2>. QED
    BY <1>1, <2>1, <2>2, <2>3 DEF EnqueuePush, FIFO
<1>2. ASSUME NEW w \in Workers, PopTask(w)  PROVE FIFO'
  BY <1>2, PopConcat DEF PopTask, FIFO
<1>3. CASE KillAll
  BY <1>3 DEF KillAll, FIFO
<1>4. CASE EnqueueNotify \/ WaitCheck \/ KillNotify \/ KillCancel \/ DtorNotify
           \/ DtorJoined \/ DeadlineExpires \/ SpuriousCallerWake
           \/ DestroyKilled \/ Destroy
  BY <1>4 DEF FIFO, EnqueueNotify, WaitCheck, KillNotify, KillCancel, DtorNotify,
     DtorJoined, DeadlineExpires, SpuriousCallerWake, DestroyKilled, Destroy, history
<1>5. ASSUME NEW d \in BOOLEAN, BeginWait(d)  PROVE FIFO'
  BY <1>5 DEF FIFO, BeginWait, history
<1>6. ASSUME NEW w \in Workers,
             \/ Sleep(w) \/ ExitLoop(w) \/ TaskReturn(w) \/ Finish(w)
             \/ SpuriousWorkerWake(w) \/ Cancelled(w) \/ UseDestroyed(w)
      PROVE FIFO'
  BY <1>6 DEF FIFO, Sleep, ExitLoop, TaskReturn, Finish, SpuriousWorkerWake,
     Cancelled, UseDestroyed, history
<1>. QED
  BY <1>1, <1>2, <1>3, <1>4, <1>5, <1>6
  DEF AnyPoolStep, CallerStep, Environment, WorkerStep

\* What a killed or a destroyed pool cannot do any more, it never does again.
LEMMA EndOfLifeStep ==
  ASSUME PoolInv, AnyPoolStep  PROVE EndOfLife'
<1> USE DEF PoolInv, PoolTypeOK
<1>1. ASSUME NEW t \in Tasks, EnqueuePush(t)  PROVE EndOfLife'
  BY <1>1 DEF EnqueuePush, EndOfLife
<1>2. ASSUME NEW w \in Workers, PopTask(w)  PROVE EndOfLife'
  BY <1>2 DEF PopTask, EndOfLife
<1>3. CASE EnqueueNotify \/ WaitCheck \/ DeadlineExpires \/ SpuriousCallerWake
  BY <1>3 DEF EndOfLife, EnqueueNotify, WaitCheck, DeadlineExpires, SpuriousCallerWake
<1>4. CASE KillAll \/ KillNotify \/ KillCancel
  BY <1>4 DEF EndOfLife, KillAll, KillNotify, KillCancel
<1>5. CASE DtorNotify \/ DtorJoined \/ DestroyKilled \/ Destroy
  BY <1>5 DEF EndOfLife, DtorNotify, DtorJoined, DestroyKilled, Destroy
<1>6. ASSUME NEW d \in BOOLEAN, BeginWait(d)  PROVE EndOfLife'
  BY <1>6 DEF EndOfLife, BeginWait
<1>7. ASSUME NEW w \in Workers,
             \/ Sleep(w) \/ ExitLoop(w) \/ TaskReturn(w)
             \/ SpuriousWorkerWake(w) \/ Cancelled(w) \/ UseDestroyed(w)
      PROVE EndOfLife'
  BY <1>7 DEF EndOfLife, Sleep, ExitLoop, TaskReturn, SpuriousWorkerWake,
     Cancelled, UseDestroyed, Gone
<1>8. ASSUME NEW w \in Workers, Finish(w)  PROVE EndOfLife'
  BY <1>8 DEF EndOfLife, Finish, Gone
<1>. QED
  BY <1>1, <1>2, <1>3, <1>4, <1>5, <1>6, <1>7, <1>8
  DEF AnyPoolStep, CallerStep, Environment, WorkerStep

\* A worker that leaves "loop" takes a task, or found the queue empty, or the
\* pool is killed; a worker that falls asleep found the queue empty.
LEMMA WakeupStep ==
  ASSUME PoolInv, AnyPoolStep  PROVE NoLostWakeup'
<1> USE DEF PoolInv, PoolTypeOK
<1> DEFINE Loop == At("loop")
           Flying == IF caller = "notify" THEN 1 ELSE 0
<1>0. /\ Len(tasks) \in Nat /\ Loop \in SUBSET Workers /\ Cardinality(Loop) \in Nat
      /\ Loop' \in SUBSET Workers /\ Cardinality(Loop') \in Nat
  BY LenProperties, WorkerSets DEF At
<1>1. CASE tasks' = <<>>
  <2>1. Len(tasks') = 0
    BY <1>1, EmptySeq
  <2>. QED
    BY <1>0, <2>1 DEF NoLostWakeup
<1>2. CASE Waiters' = {}
  BY <1>2 DEF NoLostWakeup
<1>3. CASE tasks' = tasks /\ wpc' = wpc /\ caller # "notify"
  BY <1>0, <1>3 DEF NoLostWakeup, Waiters, At
<1>4. ASSUME NEW t \in Tasks, EnqueuePush(t)  PROVE NoLostWakeup'
  <2>1. Len(tasks') = Len(tasks) + 1
    BY <1>4, AppendProperties DEF EnqueuePush
  <2>2. Waiters' = Waiters /\ Loop' = Loop /\ caller # "notify" /\ caller' = "notify"
    BY <1>4 DEF EnqueuePush, Waiters, At
  <2>. QED
    BY <1>0, <2>1, <2>2 DEF NoLostWakeup
<1>5. CASE EnqueueNotify
  <2>1. CASE Waiters = {} /\ wpc' = wpc
    BY <1>2, <2>1 DEF Waiters, At
  <2>2. ASSUME NEW w \in Waiters, wpc' = [wpc EXCEPT ![w] = "loop"]
        PROVE  NoLostWakeup'
    <3>1. w \in Workers \ Loop /\ Loop' = Loop \cup {w}
      BY <2>2 DEF Waiters, At
    <3>2. Cardinality(Loop') = Cardinality(Loop) + 1
      BY <1>0, <3>1, WorkerSets
    <3>. QED
      BY <1>0, <1>5, <2>2, <3>2 DEF EnqueueNotify, NoLostWakeup
  <2>. QED
    BY <1>5, <2>1, <2>2 DEF EnqueueNotify
<1>6. ASSUME NEW w \in Workers, PopTask(w)  PROVE NoLostWakeup'
  <2>1. Len(tasks') = Len(tasks) - 1
    BY <1>6, HeadTailProperties DEF PopTask
  <2>2. w \in Loop /\ Loop' = Loop \ {w} /\ Waiters' = Waiters
    BY <1>6 DEF PopTask, Waiters, At
  <2>3. Cardinality(Loop') = Cardinality(Loop) - 1
    BY <1>0, <2>2, WorkerSets
  <2>. QED
    BY <1>0, <1>6, <2>1, <2>2, <2>3 DEF PopTask, NoLostWakeup
<1>7. ASSUME NEW w \in Workers, Finish(w)  PROVE NoLostWakeup'
  <2>1. CASE pending = 1
    <3>1. Waiters' = {}
      BY <1>7, <2>1 DEF Finish, Waiters, At, WakeAll
    <3>. QED
      BY <1>2, <3>1
  <2>2. CASE pending # 1
    <3>1. w \in Workers \ Loop /\ Loop' = Loop \cup {w} /\ Waiters' = Waiters
      BY <1>7, <2>2 DEF Finish, Waiters, At
    <3>2. Cardinality(Loop') = Cardinality(Loop) + 1
      BY <1>0, <3>1, WorkerSets
    <3>3. tasks' = tasks /\ caller' = caller
      BY <1>7, <2>2 DEF Finish
    <3>. QED
      BY <1>0, <3>1, <3>2, <3>3 DEF NoLostWakeup
  <2>. QED
    BY <2>1, <2>2
<1>8. ASSUME NEW w \in Workers, TaskReturn(w)  PROVE NoLostWakeup'
  <2>1. Waiters' = Waiters /\ Loop' = Loop
    BY <1>8 DEF TaskReturn, Waiters, At
  <2>. QED
    BY <1>8, <2>1 DEF TaskReturn, NoLostWakeup
<1>9. ASSUME NEW w \in Workers, SpuriousWorkerWake(w)  PROVE NoLostWakeup'
  <2>1. w \in Workers \ Loop /\ Loop' = Loop \cup {w} /\ Waiters # {}
    BY <1>9 DEF SpuriousWorkerWake, Waiters, At
  <2>2. Cardinality(Loop') = Cardinality(Loop) + 1
    BY <1>0, <2>1, WorkerSets
  <2>. QED
    BY <1>0, <1>9, <2>1, <2>2 DEF SpuriousWorkerWake, NoLostWakeup
<1>10. ASSUME NEW w \in Workers, Cancelled(w) \/ UseDestroyed(w)  PROVE NoLostWakeup'
  <2>1. tasks' = <<>>
    BY <1>10 DEF Cancelled, UseDestroyed, CancelSent, EndOfLife, Gone
  <2>. QED
    BY <1>1, <2>1
<1>11. ASSUME NEW w \in Workers, Sleep(w) \/ ExitLoop(w)  PROVE NoLostWakeup'
  BY <1>1, <1>11 DEF Sleep, ExitLoop
<1>12. CASE KillNotify \/ DtorNotify
  <2>1. Waiters' = {}
    BY <1>12 DEF KillNotify, DtorNotify, Waiters, At, WakeAll
  <2>. QED
    BY <1>2, <2>1
<1>13. CASE KillAll
  BY <1>1, <1>13 DEF KillAll
<1>14. CASE WaitCheck \/ DeadlineExpires \/ SpuriousCallerWake \/ KillCancel
            \/ DestroyKilled \/ Destroy \/ DtorJoined
  BY <1>3, <1>14 DEF WaitCheck, DeadlineExpires, SpuriousCallerWake, KillCancel,
                     DestroyKilled, Destroy, DtorJoined
<1>15. ASSUME NEW d \in BOOLEAN, BeginWait(d)  PROVE NoLostWakeup'
  BY <1>3, <1>15 DEF BeginWait
<1>. QED
  BY <1>4, <1>5, <1>6, <1>7, <1>8, <1>9, <1>10, <1>11, <1>12, <1>13, <1>14, <1>15
  DEF AnyPoolStep, CallerStep, Environment, WorkerStep

\* A task enters the started ones with a worker that runs it, and that worker
\* leaves "run" only through finished, or in a killed pool.
LEMMA AccountedStep ==
  ASSUME PoolInv, AnyPoolStep  PROVE StartedAccounted'
<1> USE DEF PoolInv, PoolTypeOK
<1>1. CASE /\ started' = started /\ finished' = finished /\ (killed => killed')
           /\ \A w \in Workers : wpc'[w] = "run" <=> wpc[w] = "run"
           /\ \A w \in Workers : wpc[w] = "run" => wtask'[w] = wtask[w]
  BY <1>1 DEF StartedAccounted, RangeOf
<1>2. ASSUME NEW w \in Workers, PopTask(w)  PROVE StartedAccounted'
  <2>1. RangeOf(started') = RangeOf(started) \cup {Head(tasks)}
    BY <1>2, RangeAppend, HeadTailProperties DEF PopTask
  <2>2. wpc'[w] = "run" /\ wtask'[w] = Head(tasks) /\ wpc[w] = "loop"
    BY <1>2 DEF PopTask
  <2>3. \A v \in Workers \ {w} : wpc'[v] = wpc[v] /\ wtask'[v] = wtask[v]
    BY <1>2 DEF PopTask
  <2>. QED
    BY <1>2, <2>1, <2>2, <2>3 DEF PopTask, StartedAccounted
<1>3. ASSUME NEW w \in Workers, TaskReturn(w)  PROVE StartedAccounted'
  <2>1. /\ wpc[w] = "run" /\ wpc'[w] = "done" /\ wtask' = wtask
        /\ started' = started /\ killed' = killed
        /\ finished' = finished \cup {wtask[w]}
    BY <1>3 DEF TaskReturn
  <2>2. \A v \in Workers \ {w} : wpc'[v] = wpc[v]
    BY <1>3 DEF TaskReturn
  <2>. QED
    BY <2>1, <2>2 DEF StartedAccounted
<1>4. ASSUME NEW w \in Workers, Cancelled(w)  PROVE StartedAccounted'
  <2>1. /\ killed' /\ started' = started /\ finished' = finished /\ wtask' = wtask
        /\ wpc'[w] # "run" /\ \A v \in Workers \ {w} : wpc'[v] = wpc[v]
    BY <1>4 DEF Cancelled, CancelSent, history
  <2>. QED
    BY <2>1 DEF StartedAccounted
<1>5. ASSUME NEW w \in Workers,
             Sleep(w) \/ ExitLoop(w) \/ SpuriousWorkerWake(w) \/ UseDestroyed(w)
      PROVE StartedAccounted'
  BY <1>1, <1>5 DEF Sleep, ExitLoop, SpuriousWorkerWake, UseDestroyed, history
<1>6. ASSUME NEW w \in Workers, Finish(w)  PROVE StartedAccounted'
  <2>1. \A v \in Workers : (wpc'[v] = "run" <=> wpc[v] = "run")
                           /\ (wpc[v] = "run" => wtask'[v] = wtask[v])
    BY <1>6 DEF Finish, WakeAll
  <2>. QED
    BY <1>1, <1>6, <2>1 DEF Finish, history
<1>7. CASE EnqueueNotify \/ KillNotify \/ DtorNotify
  <2>1. \A v \in Workers : wpc'[v] = "run" <=> wpc[v] = "run"
    BY <1>7 DEF EnqueueNotify, KillNotify, DtorNotify, WakeAll, Waiters, At
  <2>. QED
    BY <1>1, <1>7, <2>1 DEF EnqueueNotify, KillNotify, DtorNotify, history
<1>8. CASE WaitCheck \/ DeadlineExpires \/ SpuriousCallerWake \/ KillCancel
           \/ DestroyKilled \/ Destroy \/ DtorJoined \/ KillAll
  BY <1>1, <1>8 DEF WaitCheck, DeadlineExpires, SpuriousCallerWake, KillCancel,
                    DestroyKilled, Destroy, DtorJoined, KillAll, history
<1>9. ASSUME NEW d \in BOOLEAN, BeginWait(d)  PROVE StartedAccounted'
  BY <1>1, <1>9 DEF BeginWait, history
<1>10. ASSUME NEW t \in Tasks, EnqueuePush(t)  PROVE StartedAccounted'
  BY <1>1, <1>10 DEF EnqueuePush
<1>. QED
  BY <1>2, <1>3, <1>4, <1>5, <1>6, <1>7, <1>8, <1>9, <1>10
  DEF AnyPoolStep, CallerStep, Environment, WorkerStep

\* PoolInv is preserved by every step of the pool.
LEMMA PoolInvStep ==
  ASSUME PoolInv, AnyPoolStep  PROVE PoolInv'
<1>1. PoolTypeOK' /\ PendingCounts' /\ FIFO' /\ NoLostWakeup'
  BY PoolTypeStep, PendingStep, FIFOStep, WakeupStep
<1>2. StartedAccounted' /\ EndOfLife'
  BY AccountedStep, EndOfLifeStep
<1>. QED
  BY <1>1, <1>2 DEF PoolInv

\* ... and by a step that leaves the pool alone.
LEMMA PoolInvStutter ==
  ASSUME PoolInv, UNCHANGED poolVars  PROVE PoolInv'
<1> USE DEF poolVars
<1>1. PoolTypeOK' /\ PendingCounts' /\ FIFO'
  BY DEF PoolInv, PoolTypeOK, PendingCounts, FIFO, InTask
<1>2. NoLostWakeup'
  BY DEF PoolInv, NoLostWakeup, Waiters, At
<1>3. StartedAccounted' /\ EndOfLife'
  BY DEF PoolInv, StartedAccounted, EndOfLife, RangeOf
<1>. QED
  BY <1>1, <1>2, <1>3 DEF PoolInv

\* PoolNext is AnyPoolStep with a client that enqueues each task at most once.
LEMMA PoolNextIsAny == PoolNext => AnyPoolStep
BY DEF PoolNext, AnyPoolStep, ClientCall, Unsubmitted

-----------------------------------------------------------------------------
(* The theorems *)

\* Every reachable state of the pool satisfies PoolInv.
THEOREM PoolInvariance == PoolSpec => []PoolInv
<1>1. PoolInv /\ [PoolNext]_poolVars => PoolInv'
  BY PoolInvStep, PoolInvStutter, PoolNextIsAny
<1>. QED
  BY <1>1, PoolInitInv, PTL DEF PoolSpec

\* pending_ is the number of tasks queued or in a worker's hands, tasks are
\* taken in enqueue order and exactly once, and no wakeup is lost.
THEOREM PoolSafety ==
  PoolSpec => [](PoolTypeOK /\ PendingCounts /\ FIFO /\ NoLostWakeup)
<1>1. PoolInv => PoolTypeOK /\ PendingCounts /\ FIFO /\ NoLostWakeup
  BY DEF PoolInv
<1>. QED
  BY <1>1, PoolInvariance, PTL

\* Its parts by themselves: the variables have their types.
THEOREM PoolTypes == PoolSpec => []PoolTypeOK
BY PoolSafety, PTL

\* pending_ counts the tasks that are queued or in a worker's hands.
THEOREM PendingIsRight == PoolSpec => []PendingCounts
BY PoolSafety, PTL

\* Tasks leave the queue in the order they entered it, each once.
THEOREM FirstInFirstOut == PoolSpec => []FIFO
BY PoolSafety, PTL

\* When pending_ is 0, no task is queued or in a worker's hands, and every
\* submitted task has returned.
LEMMA PendingZero ==
  ASSUME PoolInv, ~killed, pending = 0
  PROVE  tasks = <<>> /\ InTask = {} /\ finished = RangeOf(submitted)
<1> USE DEF PoolInv, PoolTypeOK
<1>1. /\ Len(tasks) \in Nat /\ InTask \in SUBSET Workers
      /\ Cardinality(InTask) \in Nat
  BY LenProperties, WorkerSets DEF InTask
<1>2. Len(tasks) = 0 /\ Cardinality(InTask) = 0
  BY <1>1 DEF PendingCounts
<1>3. tasks = <<>> /\ InTask = {}
  BY <1>1, <1>2, WorkerSets, EmptySeq
<1>4. submitted = started
  BY <1>3, ConcatEmptySeq DEF FIFO
<1>5. \A w \in Workers : wpc[w] # "run"
  BY <1>3 DEF InTask, Busy
<1>. QED
  BY <1>3, <1>4, <1>5 DEF StartedAccounted

\* A wait returns true only when every task enqueued so far has returned.
THEOREM WaitCompleteness == PoolSpec => WaitIsComplete
<1> DEFINE A == (caller \in {"check", "blocked"} /\ caller' = "idle" /\ waitResult')
                  => finished = RangeOf(submitted)
<1>1. ASSUME PoolInv, PoolNext  PROVE A
  <2> SUFFICES ASSUME caller \in {"check", "blocked"}, caller' = "idle", waitResult'
               PROVE  finished = RangeOf(submitted)
    OBVIOUS
  <2>1. ~killed
    BY <1>1 DEF PoolInv, EndOfLife
  <2>2. pending = 0
    BY <1>1 DEF PoolNext, ClientCall, CallerStep, Environment, WorkerStep,
       EnqueuePush, BeginWait, KillAll, DestroyKilled, Destroy, EnqueueNotify,
       WaitCheck, KillNotify, KillCancel, DtorNotify, DtorJoined, DeadlineExpires,
       SpuriousCallerWake, SpuriousWorkerWake, Cancelled, UseDestroyed,
       PopTask, Sleep, ExitLoop, TaskReturn, Finish
  <2>. QED
    BY <1>1, <2>1, <2>2, PendingZero
<1>2. PoolInv /\ [PoolNext]_poolVars => [A]_poolVars
  BY <1>1
<1>. QED
  BY <1>2, PoolInvariance, PTL DEF PoolSpec, WaitIsComplete
=============================================================================
