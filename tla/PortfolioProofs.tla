--------------------------- MODULE PortfolioProofs ---------------------------
(***************************************************************************)
(* PortfolioInv is an inductive invariant of solve() and join(), for any   *)
(* number of techniques and of workers; the verdict invariants and the     *)
(* refinement of PortfolioVerdict follow.                                  *)
(***************************************************************************)
EXTENDS Portfolio, ThreadPoolProofs

(***************************************************************************)
(* The steps of Next, sorted by what they touch: the pool alone; one       *)
(* technique inside runTechnique; the task of a technique being taken or   *)
(* returning; an exception in init(); solve() and join().                  *)
(***************************************************************************)
PoolOnly ==
  /\ \/ CallerStep \/ Environment
     \/ \E w \in Workers : Sleep(w) \/ ExitLoop(w) \/ Finish(w)
  /\ UNCHANGED <<runVars, mainVars>>

TechStep(w, i) ==
  \/ SkipEarly(w, i) \/ EnterInit(w, i) \/ ClearCancelled(w, i) \/ EndInit(w, i)
  \/ Recheck(w, i) \/ AnalyzeReturns(w, i) \/ AnalyzeThrows(w, i) \/ Store(w, i)
  \/ Cas(w, i) \/ StopOthers(w, i) \/ CancelOther(w, i) \/ CancelDone(w, i)
  \/ StoreFinal(w, i)

LEMMA NextCases ==
  ASSUME Next
  PROVE  \/ PoolOnly \/ MainStep
         \/ \E w \in Workers : StartTask(w)
         \/ \E w \in Workers, i \in Techniques :
              TechStep(w, i) \/ ReturnTask(w, i) \/ InitThrows(w, i)
BY DEF Next, PoolOnly, TechStep, RunStep, LongCall, PoolWorkerStep, PoolCallerStep,
       PoolEnvironment

\* A step of a technique leaves the pool and the main thread alone.
LEMMA TechStepFrame ==
  ASSUME NEW w \in Workers, NEW i \in Techniques, TechStep(w, i)
  PROVE  /\ UNCHANGED <<poolVars, mainVars>>
         /\ wpc[w] = "run"
BY DEF TechStep, SkipEarly, EnterInit, ClearCancelled, EndInit, Recheck,
       AnalyzeReturns, AnalyzeThrows, Store, Cas, StopOthers, CancelOther,
       CancelDone, StoreFinal, On

\* What a step of the pool alone may do to the variables the invariants relate
\* to the techniques.
LEMMA PoolOnlyFrame ==
  ASSUME PoolInv, PoolOnly
  PROVE  /\ UNCHANGED <<runVars, mainVars>>
         /\ tasks' = tasks /\ killed' = killed /\ timed' = timed
         /\ submitted' = submitted /\ finished' = finished /\ started' = started
         /\ InTask' \subseteq InTask
         /\ InTask = {} => pending' = pending
         /\ caller = "idle" => caller' = "idle" /\ waitResult' = waitResult
         /\ caller \in {"check", "blocked"} =>
              /\ caller' \in {"check", "blocked", "idle"}
              /\ caller' = "idle" =>
                   /\ pending' = pending
                   /\ waitResult' => pending = 0
                   /\ ~timed => waitResult'
<1> USE DEF PoolOnly, InTask, Busy, PoolInv, PoolTypeOK
<1>1. CASE CallerStep
  BY <1>1 DEF CallerStep, EnqueueNotify, WaitCheck, KillNotify, KillCancel,
     DtorNotify, DtorJoined, WakeAll, Waiters, At, history
<1>2. CASE DeadlineExpires \/ SpuriousCallerWake
  BY <1>2 DEF DeadlineExpires, SpuriousCallerWake, history
<1>3. ASSUME NEW w \in Workers, SpuriousWorkerWake(w) \/ Cancelled(w) \/ UseDestroyed(w)
      PROVE  /\ tasks' = tasks /\ killed' = killed /\ timed' = timed
             /\ submitted' = submitted /\ finished' = finished /\ started' = started
             /\ InTask' \subseteq InTask /\ pending' = pending
             /\ caller' = caller /\ waitResult' = waitResult
  BY <1>3 DEF SpuriousWorkerWake, Cancelled, UseDestroyed, history
<1>4. ASSUME NEW w \in Workers, Sleep(w) \/ ExitLoop(w)
      PROVE  /\ tasks' = tasks /\ killed' = killed /\ timed' = timed
             /\ submitted' = submitted /\ finished' = finished /\ started' = started
             /\ InTask' \subseteq InTask /\ pending' = pending
             /\ caller' = caller /\ waitResult' = waitResult
  BY <1>4 DEF Sleep, ExitLoop, history
<1>5. ASSUME NEW w \in Workers, Finish(w)
      PROVE  /\ tasks' = tasks /\ killed' = killed /\ timed' = timed
             /\ submitted' = submitted /\ finished' = finished /\ started' = started
             /\ InTask' \subseteq InTask /\ InTask # {}
             /\ caller' = caller \/ (caller = "blocked" /\ caller' = "check")
             /\ waitResult' = waitResult
  <2>1. w \in InTask /\ InTask' \subseteq InTask
    BY <1>5 DEF Finish, WakeAll
  <2>. QED
    BY <1>5, <2>1 DEF Finish, history
<1>. QED
  BY <1>1, <1>2, <1>3, <1>4, <1>5 DEF Environment

\* Every step of the composition is a step of the pool or leaves it alone.
LEMMA PoolPart ==
  ASSUME PortfolioInv, [Next]_vars  PROVE PoolInv'
<1> USE DEF PortfolioInv
<1>1. CASE UNCHANGED vars
  BY <1>1, PoolInvStutter DEF vars
<1>2. CASE PoolOnly
  BY <1>2, PoolInvStep DEF PoolOnly, AnyPoolStep, WorkerStep
<1>3. CASE MainStep
  <2>1. CASE SolveEnqueue
    <3>1. Len(submitted) + 1 \in Tasks
      BY <2>1, PortfolioAssumption, LenProperties DEF SolveEnqueue, PoolInv, PoolTypeOK
    <3>. QED
      BY <2>1, <3>1, PoolInvStep DEF SolveEnqueue, AnyPoolStep
  <2>2. CASE JoinBegin \/ TimeoutWait
    BY <2>2, PoolInvStep, PortfolioAssumption DEF JoinBegin, TimeoutWait, AnyPoolStep
  <2>3. CASE JoinKill \/ ResetKilled \/ ResetPool
    BY <2>3, PoolInvStep DEF JoinKill, ResetKilled, ResetPool, AnyPoolStep
  <2>4. CASE JoinWaited \/ TimeoutStop \/ TimeoutCancel \/ TimeoutDrained \/ JoinReturn
    BY <2>4, PoolInvStutter DEF JoinWaited, TimeoutStop, TimeoutCancel,
       TimeoutDrained, JoinReturn
  <2>. QED
    BY <1>3, <2>1, <2>2, <2>3, <2>4 DEF MainStep
<1>4. ASSUME NEW w \in Workers, StartTask(w)  PROVE PoolInv'
  BY <1>4, PoolInvStep DEF StartTask, AnyPoolStep, WorkerStep
<1>5. ASSUME NEW w \in Workers, NEW i \in Techniques, TechStep(w, i)  PROVE PoolInv'
  BY <1>5, TechStepFrame, PoolInvStutter
<1>6. ASSUME NEW w \in Workers, NEW i \in Techniques, ReturnTask(w, i)  PROVE PoolInv'
  BY <1>6, PoolInvStep DEF ReturnTask, AnyPoolStep, WorkerStep
<1>7. ASSUME NEW w \in Workers, NEW i \in Techniques, InitThrows(w, i)  PROVE PoolInv'
  BY <1>7, PoolInvStutter DEF InitThrows
<1>. QED
  BY <1>1, <1>2, <1>3, <1>4, <1>5, <1>6, <1>7, NextCases

-----------------------------------------------------------------------------
(* The initial state *)

LEMMA PortfolioInit == Init => PortfolioInv
<1> SUFFICES ASSUME Init PROVE PortfolioInv
  OBVIOUS
<1>1. PoolInv /\ PoolTypeOK
  BY PoolInitInv DEF Init, PoolInv
<1>2. <<>> \in Seq(Techniques) /\ Stored = {} /\ Len(submitted) = 0
  BY EmptySeq DEF Init, PoolInit, Stored, RangeOf
<1>3. TypeOK
  <2>1. N + 1 \in Nat /\ 1 \in 1..(N + 1)
    BY PortfolioAssumption
  <2>2. /\ answer \in [Techniques -> Answers] /\ tpc \in [Techniques -> TechniquePC]
        /\ cursor \in [Techniques \cup {None} -> 1..(N + 1)]
    BY <2>1 DEF Init, Answers, TechniquePC
  <2>3. conclusive_found \in BOOLEAN /\ stop_early \in BOOLEAN /\ timed_out \in BOOLEAN
    BY Zenon DEF Init
  <2>4. report \in [overall : Answers \cup {"none"}, winner : Techniques \cup {None},
                    results : Seq(Techniques)]
    BY <1>2 DEF Init, NoReport
  <2>. QED
    BY <1>1, <1>2, <2>2, <2>3, <2>4 DEF Init, TypeOK, MainPC
<1>4. TasksInOrder
  BY <1>2, PortfolioAssumption DEF Init, PoolInit, TasksInOrder
<1>5. JoinFollowsPool /\ DecidedWhenOver
  BY DEF Init, PoolInit, JoinFollowsPool, DecidedWhenOver, Deciding
<1>6. WinnerUnique /\ StoredAnswers
  BY <1>2 DEF Init, WinnerUnique, StoredAnswers, Winning
<1>7. CancelAfterStop
  BY PortfolioAssumption DEF Init, CancelAfterStop, Techniques
<1>8. ReportBuilt
  BY DEF Init, ReportBuilt, NoReport
<1>. QED
  BY <1>1, <1>3, <1>4, <1>5, <1>6, <1>7, <1>8 DEF PortfolioInv

-----------------------------------------------------------------------------
(* Each conjunct is preserved *)

\* The types: a technique's task holds an index, a loop index stays in range.
LEMMA TypeStep ==
  ASSUME PortfolioInv, Next  PROVE TypeOK'
<1> USE DEF PortfolioInv, TypeOK
<1>0. PoolTypeOK'
  BY PoolPart DEF PoolInv
<1>1. CASE PoolOnly
  BY <1>0, <1>1 DEF PoolOnly, runVars, mainVars
<1>2. ASSUME NEW w \in Workers, StartTask(w)  PROVE TypeOK'
  BY <1>0, <1>2 DEF StartTask, Goto, TechniquePC, mainVars
<1>3. ASSUME NEW w \in Workers, NEW i \in Techniques, ReturnTask(w, i)  PROVE TypeOK'
  BY <1>0, <1>3 DEF ReturnTask, Goto, TechniquePC, mainVars
<1>4. ASSUME NEW w \in Workers, NEW i \in Techniques, InitThrows(w, i)  PROVE TypeOK'
  BY <1>0, <1>4 DEF InitThrows, MainPC, runVars
<1>5. ASSUME NEW w \in Workers, NEW i \in Techniques, TechStep(w, i)  PROVE TypeOK'
  <2>1. UNCHANGED mainVars
    BY <1>5, TechStepFrame
  <2>2. CASE SkipEarly(w, i) \/ EnterInit(w, i) \/ ClearCancelled(w, i) \/ EndInit(w, i)
             \/ Recheck(w, i) \/ AnalyzeThrows(w, i) \/ CancelDone(w, i)
    BY <1>0, <2>1, <2>2 DEF SkipEarly, EnterInit, ClearCancelled, EndInit, Recheck,
       AnalyzeThrows, CancelDone, Goto, TechniquePC, mainVars
  <2>3. CASE AnalyzeReturns(w, i)
    <3>1. MayAnswer(i) \subseteq Answers
      BY DEF MayAnswer, Answers
    <3>2. answer' \in [Techniques -> Answers] /\ tpc' \in [Techniques -> TechniquePC]
      BY <2>3, <3>1 DEF AnalyzeReturns, Goto, TechniquePC
    <3>. QED
      BY <1>0, <2>1, <2>3, <3>2 DEF AnalyzeReturns, mainVars
  <2>4. CASE Store(w, i)
    <3>1. all_results' \in Seq(Techniques)
      BY <2>4, AppendProperties DEF Store
    <3>2. tpc' \in [Techniques -> TechniquePC]
      BY <2>4 DEF Store, Goto, TechniquePC
    <3>. QED
      BY <1>0, <2>1, <2>4, <3>1, <3>2 DEF Store, mainVars
  <2>5. CASE Cas(w, i) \/ StopOthers(w, i) \/ StoreFinal(w, i)
    <3>1. tpc' \in [Techniques -> TechniquePC]
      BY <2>5 DEF Cas, StopOthers, StoreFinal, Goto, TechniquePC
    <3>. QED
      BY <1>0, <2>1, <2>5, <3>1 DEF Cas, StopOthers, StoreFinal, mainVars
  <2>6. CASE CancelOther(w, i)
    <3>1. cursor[i] \in 1..N /\ cursor[i] + 1 \in 1..(N + 1)
      BY <2>6, PortfolioAssumption DEF CancelOther, CancelNext
    <3>2. /\ cursor' \in [Techniques \cup {None} -> 1..(N + 1)]
          /\ interrupted' \subseteq Techniques /\ cancelled' \subseteq Ranking
      BY <2>6, <3>1 DEF CancelOther, CancelNext, Techniques
    <3>. QED
      BY <1>0, <2>1, <2>6, <3>2 DEF CancelOther, mainVars
  <2>. QED
    BY <1>5, <2>2, <2>3, <2>4, <2>5, <2>6 DEF TechStep
<1>6. CASE MainStep
  <2>1. CASE SolveEnqueue
    BY <1>0, <2>1 DEF SolveEnqueue, runVars, mainVars
  <2>2. CASE JoinBegin \/ TimeoutWait \/ TimeoutDrained \/ JoinKill \/ ResetKilled
             \/ ResetPool
    BY <1>0, <2>2 DEF JoinBegin, TimeoutWait, TimeoutDrained, JoinKill, ResetKilled,
       ResetPool, runVars, MainPC
  <2>3. CASE JoinWaited
    BY <1>0, <2>3 DEF JoinWaited, runVars, MainPC, PoolTypeOK
  <2>4. CASE TimeoutStop
    BY <1>0, <2>4 DEF TimeoutStop, MainPC
  <2>5. CASE TimeoutCancel
    <3>1. cursor[None] \in 1..N /\ cursor[None] + 1 \in 1..(N + 1)
      BY <2>5, PortfolioAssumption DEF TimeoutCancel, CancelNext
    <3>2. /\ cursor' \in [Techniques \cup {None} -> 1..(N + 1)]
          /\ interrupted' \subseteq Techniques /\ cancelled' \subseteq Ranking
      BY <2>5, <3>1 DEF TimeoutCancel, CancelNext, Techniques
    <3>. QED
      BY <1>0, <2>5, <3>2 DEF TimeoutCancel, mainVars
  <2>6. CASE JoinReturn
    BY <1>0, <2>6 DEF JoinReturn, runVars, MainPC, Answers
  <2>. QED
    BY <1>6, <2>1, <2>2, <2>3, <2>4, <2>5, <2>6 DEF MainStep
<1>. QED
  BY <1>1, <1>2, <1>3, <1>4, <1>5, <1>6, NextCases

\* A step of a technique moves that technique only, and not out of "over".
LEMMA TechStepPc ==
  ASSUME PortfolioInv, NEW w \in Workers, NEW i \in Techniques, TechStep(w, i)
  PROVE  /\ tpc[i] \notin {"idle", "over", "ret"} /\ tpc'[i] \notin {"idle", "over"}
         /\ \A j \in Techniques \ {i} : tpc'[j] = tpc[j]
<1> USE DEF PortfolioInv, TypeOK, On, Goto
<1>1. CASE SkipEarly(w, i) \/ EnterInit(w, i) \/ ClearCancelled(w, i) \/ EndInit(w, i)
           \/ Recheck(w, i)
  BY <1>1 DEF SkipEarly, EnterInit, ClearCancelled, EndInit, Recheck
<1>2. CASE AnalyzeReturns(w, i) \/ AnalyzeThrows(w, i) \/ Store(w, i) \/ Cas(w, i)
  BY <1>2 DEF AnalyzeReturns, AnalyzeThrows, Store, Cas
<1>3. CASE StopOthers(w, i) \/ CancelOther(w, i) \/ CancelDone(w, i) \/ StoreFinal(w, i)
  BY <1>3 DEF StopOthers, CancelOther, CancelDone, StoreFinal
<1>. QED
  BY <1>1, <1>2, <1>3 DEF TechStep

\* The task a worker takes is that of the next technique in index order, whose
\* code has not run yet.
LEMMA StartIsFresh ==
  ASSUME PortfolioInv, NEW w \in Workers, StartTask(w)
  PROVE  /\ Head(tasks) \in Techniques /\ Head(tasks) \notin finished
         /\ tpc[Head(tasks)] = "idle"
         /\ RangeOf(started') = RangeOf(started) \cup {Head(tasks)}
         /\ tpc' = [tpc EXCEPT ![Head(tasks)] = "entry"]
         /\ ~killed /\ tasks # <<>>
<1> USE DEF PortfolioInv, PoolInv, PoolTypeOK
<1>1. tasks # <<>> /\ ~killed
  BY DEF StartTask, PopTask, EndOfLife
<1>2. Head(tasks) \in Tasks /\ Len(tasks) \in Nat \ {0} /\ Head(tasks) = tasks[1]
  BY <1>1, HeadTailProperties, EmptySeq
<1>3. /\ Len(started) \in Nat
      /\ Len(submitted) = Len(started) + Len(tasks)
      /\ \A k \in 1..Len(started) : submitted[k] = started[k]
      /\ submitted[Len(started) + 1] = tasks[1]
  BY <1>1, <1>2, ConcatProperties, LenProperties DEF FIFO
<1>4. Head(tasks) = Len(started) + 1 /\ \A k \in 1..Len(started) : started[k] = k
  BY <1>2, <1>3 DEF TasksInOrder
<1>5. Head(tasks) \notin RangeOf(started)
  BY <1>3, <1>4 DEF RangeOf
<1>6. tpc' = [tpc EXCEPT ![Head(tasks)] = "entry"]
  BY DEF StartTask, Goto
<1>7. RangeOf(started') = RangeOf(started) \cup {Head(tasks)}
  BY <1>2, RangeAppend DEF StartTask, PopTask
<1>8. Head(tasks) \in Techniques /\ Head(tasks) \notin finished
  BY <1>2, <1>5, PortfolioAssumption DEF StartedAccounted, Techniques
<1>. QED
  BY <1>1, <1>5, <1>6, <1>7, <1>8 DEF TasksInOrder

LEMMA TasksInOrderStep ==
  ASSUME PortfolioInv, Next  PROVE TasksInOrder'
<1> USE DEF PortfolioInv, TypeOK, PoolTypeOK
<1>0. N \in Nat /\ Len(submitted) \in Nat /\ finished \subseteq Techniques
  BY PortfolioAssumption, LenProperties DEF Techniques
<1>a. started' = started => RangeOf(started)' = RangeOf(started)
  BY DEF RangeOf
<1>1. CASE PoolOnly
  BY <1>a, <1>1, PoolOnlyFrame DEF TasksInOrder, runVars, mainVars
<1>2. ASSUME NEW w \in Workers, StartTask(w)  PROVE TasksInOrder'
  BY <1>0, <1>2, StartIsFresh DEF RangeOf, StartTask, PopTask, TasksInOrder, mainVars
<1>3. ASSUME NEW w \in Workers, NEW i \in Techniques, ReturnTask(w, i)
      PROVE  TasksInOrder'
  BY <1>0, <1>a, <1>3 DEF ReturnTask, TaskReturn, TasksInOrder, mainVars, On, Goto
<1>4. ASSUME NEW w \in Workers, NEW i \in Techniques, InitThrows(w, i)
      PROVE  TasksInOrder'
  BY <1>a, <1>4 DEF InitThrows, TasksInOrder, runVars, poolVars
<1>5. ASSUME NEW w \in Workers, NEW i \in Techniques, TechStep(w, i)
      PROVE  TasksInOrder'
  BY <1>0, <1>a, <1>5, TechStepFrame, TechStepPc DEF TasksInOrder, poolVars, mainVars
<1>6. CASE SolveEnqueue
  <2>1. /\ submitted' = Append(submitted, Len(submitted) + 1) /\ finished' = finished
        /\ started' = started
    BY <1>6 DEF SolveEnqueue, EnqueuePush
  <2>2. /\ Len(submitted') = Len(submitted) + 1
        /\ \A k \in 1..Len(submitted) : submitted'[k] = submitted[k]
        /\ submitted'[Len(submitted) + 1] = Len(submitted) + 1
    BY <1>0, <1>6, <2>1, AppendProperties, PortfolioAssumption DEF SolveEnqueue
  <2>. QED
    BY <1>0, <1>a, <1>6, <2>1, <2>2 DEF SolveEnqueue, TasksInOrder, runVars, mainVars
<1>7. CASE JoinBegin \/ TimeoutWait
  BY <1>a, <1>7 DEF JoinBegin, TimeoutWait, BeginWait, TasksInOrder, runVars, history
<1>8. CASE JoinWaited \/ TimeoutStop \/ TimeoutCancel \/ TimeoutDrained \/ JoinReturn
  BY <1>a, <1>8 DEF JoinWaited, TimeoutStop, TimeoutCancel, TimeoutDrained, JoinReturn,
     TasksInOrder, runVars, mainVars, poolVars
<1>9. CASE JoinKill \/ ResetKilled \/ ResetPool
  BY <1>a, <1>9 DEF JoinKill, ResetKilled, ResetPool, KillAll, DestroyKilled, Destroy,
     TasksInOrder, runVars, history
<1>. QED
  BY <1>1, <1>2, <1>3, <1>4, <1>5, <1>6, <1>7, <1>8, <1>9, NextCases DEF MainStep

\* Until killAll, pending_ = 0 means that all is over.
LEMMA PendingZeroOver ==
  ASSUME PortfolioInv, ~killed, pending = 0, mpc \notin {"solve", "aborted"}
  PROVE  tasks = <<>> /\ InTask = {} /\ \A i \in Techniques : tpc[i] = "over"
<1>1. tasks = <<>> /\ InTask = {} /\ finished = RangeOf(submitted)
  BY PendingZero DEF PortfolioInv
<1>2. RangeOf(submitted) = Techniques
  BY DEF PortfolioInv, TasksInOrder, RangeOf, Techniques
<1>. QED
  BY <1>1, <1>2 DEF PortfolioInv, TasksInOrder

LEMMA DecidedStep ==
  ASSUME PortfolioInv, Next  PROVE DecidedWhenOver'
<1> USE DEF PortfolioInv, DecidedWhenOver, Deciding
<1>1. CASE PoolOnly
  BY <1>1, PoolOnlyFrame DEF runVars, mainVars
<1>2. ASSUME NEW w \in Workers, StartTask(w)  PROVE DecidedWhenOver'
  BY <1>2, StartIsFresh DEF StartTask, mainVars
<1>3. ASSUME NEW w \in Workers, NEW i \in Techniques, ReturnTask(w, i) \/ InitThrows(w, i)
      PROVE  DecidedWhenOver'
  BY <1>3 DEF ReturnTask, InitThrows, On, mainVars
<1>4. ASSUME NEW w \in Workers, NEW i \in Techniques, TechStep(w, i)
      PROVE  DecidedWhenOver'
  BY <1>4, TechStepFrame, TechStepPc DEF mainVars
<1>5. CASE SolveEnqueue \/ JoinBegin \/ TimeoutWait \/ TimeoutStop \/ TimeoutCancel
  BY <1>5 DEF SolveEnqueue, JoinBegin, TimeoutWait, TimeoutStop, TimeoutCancel, mainVars
<1>6. CASE JoinWaited \/ TimeoutDrained
  <2>1. mpc' = "decide" => pending = 0 /\ ~killed /\ mpc \in {"waiting", "drain"}
    BY <1>6 DEF JoinWaited, TimeoutDrained, JoinFollowsPool
  <2>2. mpc' \in {"decide", "expired"} /\ UNCHANGED <<poolVars, runVars>>
    BY <1>6 DEF JoinWaited, TimeoutDrained
  <2>3. mpc' = "decide" => tasks = <<>> /\ InTask = {} /\ \A i \in Techniques : tpc[i] = "over"
    BY <2>1, PendingZeroOver
  <2>. QED
    BY <2>2, <2>3 DEF poolVars, runVars, InTask
<1>7. CASE JoinReturn
  BY <1>7 DEF JoinReturn, poolVars, runVars, InTask
<1>8. CASE JoinKill \/ ResetKilled \/ ResetPool
  BY <1>8 DEF JoinKill, ResetKilled, ResetPool, KillAll, DestroyKilled, Destroy,
     runVars, InTask
<1>. QED
  BY <1>1, <1>2, <1>3, <1>4, <1>5, <1>6, <1>7, <1>8, NextCases DEF MainStep

LEMMA JoinFollowsStep ==
  ASSUME PortfolioInv, Next  PROVE JoinFollowsPool'
<1> USE DEF PortfolioInv, JoinFollowsPool, PoolInv, PoolTypeOK
<1>1. CASE PoolOnly
  <2>1. ASSUME mpc \in {"waiting", "drain"}, caller = "idle", waitResult
        PROVE  pending' = 0
    <3>1. InTask = {}
      BY <2>1, PendingZero
    <3>. QED
      BY <1>1, <2>1, <3>1, PoolOnlyFrame
  <2>. QED
    BY <1>1, <2>1, PoolOnlyFrame DEF mainVars
<1>2. ASSUME NEW w \in Workers, StartTask(w)  PROVE JoinFollowsPool'
  BY <1>2 DEF StartTask, PopTask, mainVars
<1>3. ASSUME NEW w \in Workers, NEW i \in Techniques, ReturnTask(w, i)
      PROVE  JoinFollowsPool'
  BY <1>3 DEF ReturnTask, TaskReturn, mainVars
<1>4. ASSUME NEW w \in Workers, NEW i \in Techniques, InitThrows(w, i)
      PROVE  JoinFollowsPool'
  <2>1. ~killed
    BY <1>4 DEF DecidedWhenOver, Deciding, InitThrows, On
  <2>. QED
    BY <1>4, <2>1 DEF InitThrows, poolVars
<1>5. ASSUME NEW w \in Workers, NEW i \in Techniques, TechStep(w, i)
      PROVE  JoinFollowsPool'
  BY <1>5, TechStepFrame DEF poolVars, mainVars
<1>6. CASE SolveEnqueue
  BY <1>6 DEF SolveEnqueue, EnqueuePush, mainVars
<1>7. CASE JoinBegin \/ TimeoutWait
  BY <1>7 DEF JoinBegin, TimeoutWait, BeginWait
<1>8. CASE TimeoutStop \/ TimeoutCancel
  BY <1>8 DEF TimeoutStop, TimeoutCancel, mainVars, poolVars
<1>11. CASE JoinWaited
  <2>1. mpc' = "decide" \/ (mpc' = "expired" /\ timed_out')
    BY <1>11 DEF JoinWaited
  <2>2. killed' = killed /\ caller' = "idle" /\ mpc = "waiting"
    BY <1>11 DEF JoinWaited, poolVars
  <2>. QED
    BY <2>1, <2>2
<1>9. CASE TimeoutDrained \/ JoinReturn
  BY <1>9 DEF TimeoutDrained, JoinReturn, mainVars, poolVars
<1>10. CASE JoinKill \/ ResetKilled \/ ResetPool
  BY <1>10 DEF JoinKill, ResetKilled, ResetPool, KillAll, DestroyKilled, Destroy
<1>. QED
  BY <1>1, <1>2, <1>3, <1>4, <1>5, <1>6, <1>7, <1>8, <1>9, <1>10, <1>11, NextCases DEF MainStep

\* A step of a technique that is not Cas or StoreFinal.
TechQuiet(w, i) ==
  \/ SkipEarly(w, i) \/ EnterInit(w, i) \/ ClearCancelled(w, i) \/ EndInit(w, i)
  \/ Recheck(w, i) \/ AnalyzeThrows(w, i) \/ StopOthers(w, i) \/ CancelOther(w, i)
  \/ CancelDone(w, i)

LEMMA WinnerStep ==
  ASSUME PortfolioInv, Next  PROVE WinnerUnique'
<1> USE DEF PortfolioInv, TypeOK
<1> DEFINE Won == {"stop", "cancel", "final"}
<1>1. CASE \* nothing the conjunct reads changes
      /\ conclusive_found' = conclusive_found /\ final_result' = final_result
      /\ answer' = answer /\ all_results' = all_results
      /\ \A i \in Techniques : tpc'[i] \in Won <=> tpc[i] \in Won
  <2>1. Winning' = Winning /\ Stored' = Stored
    BY <1>1 DEF Winning, Stored
  <2>. QED
    BY <1>1, <2>1 DEF WinnerUnique
<1>2. CASE PoolOnly
  BY <1>1, <1>2 DEF PoolOnly, runVars
<1>3. CASE MainStep
  BY <1>1, <1>3 DEF MainStep, SolveEnqueue, JoinBegin, TimeoutWait, JoinWaited,
     TimeoutStop, TimeoutCancel, TimeoutDrained, JoinReturn, JoinKill, ResetKilled,
     ResetPool, runVars
<1>4. ASSUME NEW w \in Workers, StartTask(w)  PROVE WinnerUnique'
  BY <1>1, <1>4, StartIsFresh DEF StartTask
<1>5. ASSUME NEW w \in Workers, NEW i \in Techniques, ReturnTask(w, i)
      PROVE  WinnerUnique'
  BY <1>1, <1>5 DEF ReturnTask, On, Goto
<1>6. ASSUME NEW w \in Workers, NEW i \in Techniques, InitThrows(w, i)
      PROVE  WinnerUnique'
  BY <1>1, <1>6 DEF InitThrows, runVars
<1>7. ASSUME NEW w \in Workers, NEW i \in Techniques, TechQuiet(w, i)
      PROVE  WinnerUnique'
  BY <1>1, <1>7 DEF TechQuiet, SkipEarly, EnterInit, ClearCancelled, EndInit, Recheck,
     AnalyzeThrows, StopOthers, CancelOther, CancelDone, On, Goto
<1>8. ASSUME NEW w \in Workers, NEW i \in Techniques, AnalyzeReturns(w, i)
      PROVE  WinnerUnique'
  \* the answer of final_result_ is not overwritten: its technique is past analyze()
  <2>1. i \notin Stored
    BY <1>8 DEF AnalyzeReturns, On, StoredAnswers
  <2>2. Winning' = Winning /\ Stored' = Stored
    BY <1>8 DEF AnalyzeReturns, On, Goto, Winning, Stored
  <2>3. \A j \in Techniques \ {i} : answer'[j] = answer[j]
    BY <1>8 DEF AnalyzeReturns
  <2>. QED
    BY <1>8, <2>1, <2>2, <2>3 DEF AnalyzeReturns, WinnerUnique
<1>9. ASSUME NEW w \in Workers, NEW i \in Techniques, Store(w, i)
      PROVE  WinnerUnique'
  <2>1. Stored' = Stored \cup {i}
    BY <1>9, RangeAppend DEF Store, Stored
  <2>2. Winning' = Winning
    BY <1>9 DEF Store, On, Goto, Winning
  <2>. QED
    BY <1>9, <2>1, <2>2 DEF Store, WinnerUnique
<1>10. ASSUME NEW w \in Workers, NEW i \in Techniques, Cas(w, i)
       PROVE  WinnerUnique'
  <2>1. Stored' = Stored
    BY <1>10 DEF Cas, Stored
  <2>2. CASE conclusive_found
    <3>1. Winning' = Winning
      BY <1>10, <2>2 DEF Cas, On, Goto, Winning
    <3>. QED
      BY <1>10, <2>1, <2>2, <3>1 DEF Cas, WinnerUnique
  <2>3. CASE ~conclusive_found
    <3>1. Winning = {} /\ final_result = None
      BY <2>3 DEF WinnerUnique
    <3>2. Winning' = {i}
      BY <1>10, <2>3, <3>1 DEF Cas, On, Goto, Winning
    <3>. QED
      BY <1>10, <3>1, <3>2 DEF Cas, WinnerUnique
  <2>. QED
    BY <2>2, <2>3
<1>11. ASSUME NEW w \in Workers, NEW i \in Techniques, StoreFinal(w, i)
       PROVE  WinnerUnique'
  <2>1. i \in Winning /\ \A j \in Winning : j = i
    BY <1>11 DEF StoreFinal, On, Winning, WinnerUnique
  <2>2. Winning' = {} /\ Stored' = Stored
    BY <1>11, <2>1 DEF StoreFinal, On, Goto, Winning, Stored
  <2>3. answer[i] \in Conclusive /\ i \in Stored /\ conclusive_found /\ i # None
    BY <1>11, <2>1 DEF StoreFinal, On, StoredAnswers, WinnerUnique, Techniques, None
  <2>. QED
    BY <1>11, <2>2, <2>3 DEF StoreFinal, WinnerUnique
<1>. QED
  BY <1>2, <1>3, <1>4, <1>5, <1>6, <1>7, <1>8, <1>9, <1>10, <1>11, NextCases
  DEF TechStep, TechQuiet

LEMMA StoredStep ==
  ASSUME PortfolioInv, Next  PROVE StoredAnswers'
<1> USE DEF PortfolioInv, TypeOK
<1> DEFINE PostStore == {"cas", "stop", "cancel", "final"}
<1>0. Stored \subseteq Techniques
  BY ElementOfSeq DEF Stored, RangeOf
<1>1. CASE UNCHANGED runVars
  <2>1. /\ tpc' = tpc /\ answer' = answer /\ all_results' = all_results
        /\ conclusive_found' = conclusive_found
    BY <1>1 DEF runVars
  <2>2. Stored' = Stored
    BY <2>1 DEF Stored
  <2>. QED
    BY <2>1, <2>2 DEF StoredAnswers
<1>2. CASE PoolOnly
  BY <1>1, <1>2 DEF PoolOnly
<1>3. CASE MainStep
  <2>1. CASE TimeoutStop \/ TimeoutCancel
    BY <2>1 DEF TimeoutStop, TimeoutCancel, StoredAnswers, Stored, RangeOf
  <2>. QED
    BY <1>1, <1>3, <2>1 DEF MainStep, SolveEnqueue, JoinBegin, TimeoutWait, JoinWaited,
       TimeoutDrained, JoinReturn, JoinKill, ResetKilled, ResetPool
<1>4. ASSUME NEW w \in Workers, StartTask(w)  PROVE StoredAnswers'
  <2>1. Stored' = Stored /\ UNCHANGED <<answer, conclusive_found>>
    BY <1>4 DEF StartTask, Stored
  <2>2. Head(tasks) \notin Stored
    BY <1>4, StartIsFresh DEF StoredAnswers
  <2>. QED
    BY <1>0, <1>4, <2>1, <2>2, StartIsFresh DEF StoredAnswers
<1>5. ASSUME NEW w \in Workers, NEW i \in Techniques, ReturnTask(w, i)
      PROVE  StoredAnswers'
  <2>1. Stored' = Stored
    BY <1>5 DEF ReturnTask, Stored
  <2>. QED
    BY <1>0, <1>5, <2>1 DEF ReturnTask, On, Goto, StoredAnswers
<1>6. ASSUME NEW w \in Workers, NEW i \in Techniques, InitThrows(w, i)
      PROVE  StoredAnswers'
  BY <1>1, <1>6 DEF InitThrows
<1>7. ASSUME NEW w \in Workers, NEW i \in Techniques, TechQuiet(w, i)
      PROVE  StoredAnswers'
  <2>1. Stored' = Stored /\ answer' = answer /\ conclusive_found' = conclusive_found
    BY <1>7 DEF TechQuiet, SkipEarly, EnterInit, ClearCancelled, EndInit, Recheck,
       AnalyzeThrows, StopOthers, CancelOther, CancelDone, Stored
  <2>2. CASE StopOthers(w, i) \/ CancelOther(w, i) \/ CancelDone(w, i)
    BY <1>0, <2>1, <2>2 DEF StopOthers, CancelOther, CancelDone, On, Goto, StoredAnswers
  <2>3. CASE ~(StopOthers(w, i) \/ CancelOther(w, i) \/ CancelDone(w, i))
    <3>1. /\ i \notin Stored /\ tpc'[i] \notin PostStore
          /\ \A j \in Techniques \ {i} : tpc'[j] = tpc[j]
      BY <1>7, <2>3 DEF TechQuiet, SkipEarly, EnterInit, ClearCancelled, EndInit,
         Recheck, AnalyzeThrows, On, Goto, StoredAnswers
    <3>. QED
      BY <1>0, <2>1, <3>1 DEF StoredAnswers
  <2>. QED
    BY <2>2, <2>3
<1>8. ASSUME NEW w \in Workers, NEW i \in Techniques, AnalyzeReturns(w, i)
      PROVE  StoredAnswers'
  <2>1. Stored' = Stored /\ i \notin Stored
    BY <1>8 DEF AnalyzeReturns, On, StoredAnswers, Stored
  <2>2. /\ \A j \in Techniques \ {i} : answer'[j] = answer[j] /\ tpc'[j] = tpc[j]
        /\ tpc'[i] = "store" /\ conclusive_found' = conclusive_found
    BY <1>8 DEF AnalyzeReturns, Goto
  <2>. QED
    BY <1>0, <2>1, <2>2 DEF StoredAnswers
<1>9. ASSUME NEW w \in Workers, NEW i \in Techniques, Store(w, i)
      PROVE  StoredAnswers'
  <2>1. Stored' = Stored \cup {i}
    BY <1>9, RangeAppend DEF Store, Stored
  <2>2. /\ answer' = answer /\ conclusive_found' = conclusive_found
        /\ \A j \in Techniques \ {i} : tpc'[j] = tpc[j]
        /\ tpc'[i] = IF answer[i] \in Conclusive THEN "cas" ELSE "ret"
    BY <1>9 DEF Store, Goto
  <2>3. answer[i] \in Conclusive \/ answer[i] = "UNKNOWN"
    BY DEF Conclusive, Answers
  <2>. QED
    BY <1>0, <2>1, <2>2, <2>3 DEF StoredAnswers
<1>10. ASSUME NEW w \in Workers, NEW i \in Techniques, Cas(w, i)
       PROVE  StoredAnswers'
  <2>1. Stored' = Stored /\ answer' = answer /\ conclusive_found'
    BY <1>10 DEF Cas, Stored
  <2>2. /\ tpc[i] = "cas" /\ tpc'[i] \in {"ret", "stop"}
        /\ \A j \in Techniques \ {i} : tpc'[j] = tpc[j]
    BY <1>10 DEF Cas, On, Goto
  <2>. QED
    BY <1>0, <2>1, <2>2 DEF StoredAnswers
<1>11. ASSUME NEW w \in Workers, NEW i \in Techniques, StoreFinal(w, i)
       PROVE  StoredAnswers'
  <2>1. Stored' = Stored /\ answer' = answer /\ conclusive_found' = conclusive_found
    BY <1>11 DEF StoreFinal, Stored
  <2>. QED
    BY <1>0, <1>11, <2>1 DEF StoreFinal, On, Goto, StoredAnswers
<1>. QED
  BY <1>2, <1>3, <1>4, <1>5, <1>6, <1>7, <1>8, <1>9, <1>10, <1>11, NextCases
  DEF TechStep, TechQuiet

LEMMA CancelStep ==
  ASSUME PortfolioInv, Next  PROVE CancelAfterStop'
<1> USE DEF PortfolioInv, TypeOK
<1> DEFINE Cancellers == Techniques \cup {None}
<1>0. N \in Nat /\ \A a \in Cancellers : cursor[a] \in 1..(N + 1)
  BY PortfolioAssumption
<1>1. CASE \* no flag, no loop index changes; no technique reaches analyze or cancel
      /\ conclusive_found' = conclusive_found /\ stop_early' = stop_early
      /\ interrupted' = interrupted /\ cursor' = cursor
      /\ timed_out' = timed_out /\ mpc' \in {mpc, "solve", "waiting", "decide",
           "killing", "reset", "returned", "aborted", "expired"}
      /\ \A i \in Techniques :
           /\ tpc'[i] \in {"cancel", "final"} => tpc[i] \in {"cancel", "final"}
           /\ tpc'[i] = "analyze" => tpc[i] = "analyze"
           /\ tpc[i] = "analyze" /\ i \in cancelled => i \in cancelled'
  BY <1>1 DEF CancelAfterStop
<1>2. CASE PoolOnly
  BY <1>1, <1>2 DEF PoolOnly, runVars, mainVars
<1>3. ASSUME NEW w \in Workers, StartTask(w)  PROVE CancelAfterStop'
  BY <1>1, <1>3, StartIsFresh DEF StartTask, mainVars
<1>4. ASSUME NEW w \in Workers, NEW i \in Techniques, ReturnTask(w, i)
      PROVE  CancelAfterStop'
  BY <1>1, <1>4 DEF ReturnTask, On, Goto, mainVars
<1>5. ASSUME NEW w \in Workers, NEW i \in Techniques, InitThrows(w, i)
      PROVE  CancelAfterStop'
  BY <1>1, <1>5 DEF InitThrows, runVars
<1>6. ASSUME NEW winner \in Cancellers,
             CancelNext(winner), stop_early, stop_early' = stop_early, tpc' = tpc,
             conclusive_found' = conclusive_found, timed_out' = timed_out, mpc' = mpc
      PROVE  CancelAfterStop'
  \* an iteration of cancelTechniques: the loop index moves past j, cancelled
  <2>1. /\ \A a \in Cancellers \ {winner} : cursor'[a] = cursor[a]
        /\ cursor'[winner] = cursor[winner] + 1
    BY <1>6 DEF CancelNext
  <2>2. interrupted \subseteq interrupted' /\ cancelled \subseteq cancelled'
    BY <1>6 DEF CancelNext
  <2>3. ASSUME NEW j \in Techniques, j < cursor[winner] + 1, j # winner
        PROVE  /\ j \in interrupted'
               /\ tpc[j] = "analyze" /\ j \in Ranking => j \in cancelled'
    <3>1. CASE j = cursor[winner]
      BY <1>6, <2>3, <3>1 DEF CancelNext
    <3>2. CASE j < cursor[winner]
      BY <1>6, <2>2, <2>3, <3>2 DEF CancelAfterStop
    <3>. QED
      BY <1>0, <2>3, <3>1, <3>2, PortfolioAssumption DEF Techniques
  <2>4. ASSUME NEW a \in Cancellers, NEW j \in Techniques, j < cursor'[a], j # a
        PROVE  /\ j \in interrupted'
               /\ tpc'[j] = "analyze" /\ j \in Ranking => j \in cancelled'
    BY <1>6, <2>1, <2>2, <2>3, <2>4 DEF CancelAfterStop
  <2>. QED
    BY <1>6, <2>4 DEF CancelAfterStop
<1>7. ASSUME NEW w \in Workers, NEW i \in Techniques, TechStep(w, i)
      PROVE  CancelAfterStop'
  <2>0. UNCHANGED mainVars
    BY <1>7, TechStepFrame
  <2>1. CASE SkipEarly(w, i) \/ EnterInit(w, i) \/ ClearCancelled(w, i) \/ EndInit(w, i)
             \/ AnalyzeReturns(w, i) \/ AnalyzeThrows(w, i) \/ Store(w, i)
    BY <1>1, <2>0, <2>1 DEF SkipEarly, EnterInit, ClearCancelled, EndInit,
       AnalyzeReturns, AnalyzeThrows, Store, On, Goto, mainVars
  <2>2. CASE Recheck(w, i)
    <3>1. CASE stop_early
      BY <1>1, <2>0, <2>2, <3>1 DEF Recheck, On, Goto, mainVars
    <3>2. CASE ~stop_early
      \* nobody has cancelled anything yet
      <4>1. \A a \in Cancellers : cursor[a] = 1
        BY <1>0, <3>2 DEF CancelAfterStop
      <4>2. \A j \in Techniques : ~(j < 1)
        BY DEF Techniques
      <4>3. /\ UNCHANGED <<conclusive_found, stop_early, interrupted, cursor>>
            /\ mpc' = mpc /\ timed_out' = timed_out
            /\ tpc'[i] \in {"ret", "analyze"}
            /\ \A j \in Techniques \ {i} : tpc'[j] = tpc[j]
        BY <2>0, <2>2 DEF Recheck, Goto, mainVars
      <4>. QED
        BY <3>2, <4>1, <4>2, <4>3 DEF CancelAfterStop
    <3>. QED
      BY <3>1, <3>2
  <2>3. CASE Cas(w, i)
    <3>1. /\ conclusive_found'
          /\ UNCHANGED <<stop_early, interrupted, cancelled, cursor>>
          /\ mpc' = mpc /\ timed_out' = timed_out
          /\ tpc'[i] \in {"ret", "stop"}
          /\ \A j \in Techniques \ {i} : tpc'[j] = tpc[j]
      BY <2>0, <2>3 DEF Cas, Goto, mainVars
    <3>. QED
      BY <3>1 DEF CancelAfterStop
  <2>4. CASE StopOthers(w, i)
    <3>1. i \in Winning /\ conclusive_found
      BY <2>4 DEF StopOthers, On, Winning, WinnerUnique
    <3>2. /\ stop_early' /\ conclusive_found' = conclusive_found
          /\ UNCHANGED <<interrupted, cancelled, cursor>>
          /\ mpc' = mpc /\ timed_out' = timed_out
          /\ tpc'[i] = "cancel" /\ \A j \in Techniques \ {i} : tpc'[j] = tpc[j]
      BY <2>0, <2>4 DEF StopOthers, Goto, mainVars
    <3>. QED
      BY <3>1, <3>2 DEF CancelAfterStop
  <2>5. CASE CancelOther(w, i)
    <3>1. stop_early
      BY <2>5 DEF CancelOther, On, CancelAfterStop
    <3>. QED
      BY <1>6, <2>0, <2>5, <3>1 DEF CancelOther, mainVars
  <2>6. CASE CancelDone(w, i) \/ StoreFinal(w, i)
    BY <1>1, <2>0, <2>6 DEF CancelDone, StoreFinal, On, Goto, mainVars
  <2>. QED
    BY <1>7, <2>1, <2>2, <2>3, <2>4, <2>5, <2>6 DEF TechStep
<1>8. CASE MainStep
  <2>1. CASE SolveEnqueue \/ JoinBegin \/ TimeoutDrained \/ JoinKill
             \/ ResetKilled \/ ResetPool \/ JoinReturn
    BY <1>1, <2>1 DEF SolveEnqueue, JoinBegin, TimeoutDrained, JoinKill,
       ResetKilled, ResetPool, JoinReturn, runVars, mainVars
  <2>2. CASE JoinWaited
    <3>1. UNCHANGED runVars /\ mpc' \in {"decide", "expired"}
      BY <2>2 DEF JoinWaited
    <3>2. stop_early => conclusive_found
      \* no timeout before the first wait has returned
      BY <2>2 DEF JoinWaited, JoinFollowsPool, CancelAfterStop
    <3>. QED
      BY <3>1, <3>2 DEF CancelAfterStop, runVars
  <2>3. CASE TimeoutStop
    BY <2>3 DEF TimeoutStop, CancelAfterStop, JoinFollowsPool
  <2>4. CASE TimeoutCancel
    BY <1>6, <2>4 DEF TimeoutCancel, CancelAfterStop, mainVars
  <2>5. CASE TimeoutWait
    BY <2>5 DEF TimeoutWait, CancelAfterStop, runVars
  <2>. QED
    BY <1>8, <2>1, <2>2, <2>3, <2>4, <2>5 DEF MainStep
<1>. QED
  BY <1>2, <1>3, <1>4, <1>5, <1>7, <1>8, NextCases

LEMMA ReportStep ==
  ASSUME PortfolioInv, Next  PROVE ReportBuilt'
<1> USE DEF PortfolioInv, TypeOK
<1>1. CASE PoolOnly
  BY <1>1 DEF PoolOnly, runVars, mainVars, ReportBuilt
<1>2. ASSUME NEW w \in Workers, StartTask(w)  PROVE ReportBuilt'
  BY <1>2 DEF StartTask, mainVars, ReportBuilt
<1>3. ASSUME NEW w \in Workers, NEW i \in Techniques, ReturnTask(w, i)
      PROVE  ReportBuilt'
  BY <1>3 DEF ReturnTask, mainVars, ReportBuilt
<1>4. ASSUME NEW w \in Workers, NEW i \in Techniques, InitThrows(w, i) \/ TechStep(w, i)
      PROVE  ReportBuilt'
  \* nothing runs any more once the report is built
  <2>1. tpc[i] # "over"
    BY <1>4, TechStepPc DEF InitThrows, On
  <2>2. mpc # "returned" /\ mpc' # "returned" /\ report' = report
    BY <1>4, <2>1, TechStepFrame DEF DecidedWhenOver, Deciding, InitThrows, mainVars
  <2>. QED
    BY <2>2 DEF ReportBuilt
<1>5. CASE JoinReturn
  BY <1>5 DEF JoinReturn, runVars, ReportBuilt
<1>6. CASE MainStep /\ ~JoinReturn
  BY <1>6 DEF MainStep, SolveEnqueue, JoinBegin, TimeoutWait, JoinWaited, TimeoutStop,
     TimeoutCancel, TimeoutDrained, JoinKill, ResetKilled, ResetPool, mainVars, ReportBuilt
<1>. QED
  BY <1>1, <1>2, <1>3, <1>4, <1>5, <1>6, NextCases

-----------------------------------------------------------------------------
(* The theorems *)

\* Every reachable state satisfies PortfolioInv.
THEOREM PortfolioInvariance == Spec => []PortfolioInv
<1>1. PortfolioInv /\ [Next]_vars => PortfolioInv'
  <2> SUFFICES ASSUME PortfolioInv, [Next]_vars  PROVE PortfolioInv'
    OBVIOUS
  <2>1. PoolInv'
    BY PoolPart
  <2>2. CASE Next
    BY <2>1, <2>2, TypeStep, TasksInOrderStep, JoinFollowsStep, DecidedStep,
       WinnerStep, StoredStep, CancelStep, ReportStep DEF PortfolioInv
  <2>3. CASE UNCHANGED vars
    <3>1. TypeOK' /\ TasksInOrder' /\ JoinFollowsPool'
      BY <2>1, <2>3 DEF PortfolioInv, PoolInv, TypeOK, TasksInOrder, JoinFollowsPool,
         vars, poolVars, runVars, mainVars, RangeOf
    <3>2. DecidedWhenOver' /\ WinnerUnique' /\ StoredAnswers'
      <4>1. InTask' = InTask /\ Winning' = Winning /\ Stored' = Stored
        BY <2>3 DEF vars, poolVars, runVars, InTask, Winning, Stored
      <4>. QED
        BY <2>3, <4>1 DEF PortfolioInv, DecidedWhenOver, WinnerUnique, StoredAnswers,
           vars, poolVars, runVars, mainVars
    <3>3. CancelAfterStop' /\ ReportBuilt'
      BY <2>3 DEF PortfolioInv, CancelAfterStop, ReportBuilt, vars, runVars, mainVars
    <3>. QED
      BY <2>1, <3>1, <3>2, <3>3 DEF PortfolioInv
  <2>. QED
    BY <2>2, <2>3
<1>. QED
  BY <1>1, PortfolioInit, PTL DEF Spec

\* The variables of solve() and join() have their types.
THEOREM PortfolioTypes == Spec => []TypeOK
<1>1. PortfolioInv => TypeOK
  BY DEF PortfolioInv
<1>. QED
  BY <1>1, PortfolioInvariance, PTL

\* When join() decides, conclusive_found_ and final_result_ agree.
THEOREM WinnerStored == Spec => []WinnerIsStored
<1>1. PortfolioInv => WinnerIsStored
  <2> SUFFICES ASSUME PortfolioInv, mpc \in Deciding
               PROVE  conclusive_found <=> final_result # None
    BY DEF WinnerIsStored
  <2>1. Winning = {}
    BY DEF PortfolioInv, DecidedWhenOver, Winning
  <2>. QED
    BY <2>1 DEF PortfolioInv, WinnerUnique
<1>. QED
  BY <1>1, PortfolioInvariance, PTL

\* The report is a stored conclusive answer, or UNKNOWN when there is none.
THEOREM ReportRight == Spec => []ReportIsRight
<1>1. PortfolioInv => ReportIsRight
  <2> SUFFICES ASSUME PortfolioInv, mpc = "returned"  PROVE ReportIsRight
    BY DEF ReportIsRight
  <2>1. \A i \in Techniques : tpc[i] = "over"
    BY DEF PortfolioInv, DecidedWhenOver, Deciding
  <2>2. Winning = {} /\ Stored \subseteq Techniques
    BY <2>1, ElementOfSeq DEF Winning, Stored, RangeOf, PortfolioInv, TypeOK
  <2>3. CASE final_result = None
    <3>1. ~conclusive_found
      BY <2>2, <2>3 DEF PortfolioInv, WinnerUnique
    <3>. QED
      BY <2>1, <2>2, <2>3, <3>1
      DEF PortfolioInv, ReportBuilt, StoredAnswers, ReportIsRight
  <2>4. CASE final_result # None
    BY <2>4 DEF PortfolioInv, ReportBuilt, WinnerUnique, ReportIsRight, Conclusive
  <2>. QED
    BY <2>3, <2>4
<1>. QED
  BY <1>1, PortfolioInvariance, PTL

\* No cancellation is lost to init().
THEOREM CancelNotLost == Spec => []NoLostCancel
<1>1. PortfolioInv => NoLostCancel
  <2> SUFFICES ASSUME PortfolioInv, NEW a \in Techniques \cup {None}, NEW i \in Techniques,
                      Passed(a), i # a, tpc[i] = "analyze"
               PROVE  i \in interrupted /\ (i \in Ranking => i \in cancelled)
    BY DEF NoLostCancel
  <2>1. i < cursor[a]
    <3>1. N \in Nat /\ i \in Nat /\ i <= N
      BY PortfolioAssumption DEF Techniques
    <3>2. cursor[a] \in 1..(N + 1)
      BY DEF PortfolioInv, TypeOK
    <3>3. cursor[a] > N
      BY DEF Passed
    <3>. QED
      BY <3>1, <3>2, <3>3
  <2>. QED
    BY <2>1 DEF PortfolioInv, CancelAfterStop
<1>. QED
  BY <1>1, PortfolioInvariance, PTL

\* UNKNOWN without a timeout: everything ran, nothing was cancelled.
THEOREM UnknownHonest == Spec => []UnknownIsHonest
<1>1. PortfolioInv => UnknownIsHonest
  <2> SUFFICES ASSUME PortfolioInv, mpc = "returned", report.overall = "UNKNOWN", ~timed_out
               PROVE  /\ \A i \in Techniques : tpc[i] = "over"
                      /\ ~stop_early /\ interrupted = {}
    BY DEF UnknownIsHonest
  <2>1. \A i \in Techniques : tpc[i] = "over"
    BY DEF PortfolioInv, DecidedWhenOver, Deciding
  <2>2. final_result = None
    BY DEF PortfolioInv, ReportBuilt, WinnerUnique, Conclusive
  <2>3. ~conclusive_found
    BY <2>1, <2>2 DEF PortfolioInv, WinnerUnique, Winning
  <2>. QED
    BY <2>1, <2>3 DEF PortfolioInv, CancelAfterStop
<1>. QED
  BY <1>1, PortfolioInvariance, PTL

\* The first conclusive answer wins for good.
THEOREM FirstWins == Spec => FirstAnswerWins
<1> DEFINE A == /\ conclusive_found => conclusive_found'
                /\ final_result # None => final_result' = final_result
                /\ final_result' # final_result => conclusive_found
<1>1. ASSUME PortfolioInv, Next  PROVE A
  <2>1. CASE \E w \in Workers, i \in Techniques : StoreFinal(w, i)
    <3>1. PICK w \in Workers, i \in Techniques : StoreFinal(w, i)
      BY <2>1
    <3>2. i \in Winning /\ conclusive_found' = conclusive_found
      BY <3>1 DEF StoreFinal, On, Winning
    <3>. QED
      BY <1>1, <3>1, <3>2 DEF PortfolioInv, WinnerUnique
  <2>2. CASE PoolOnly \/ MainStep \/ \E w \in Workers : StartTask(w)
    <3>1. conclusive_found' = conclusive_found /\ final_result' = final_result
      <4>1. CASE PoolOnly \/ \E w \in Workers : StartTask(w)
        BY <4>1 DEF PoolOnly, StartTask, runVars
      <4>2. CASE MainStep
        BY <4>2 DEF MainStep, SolveEnqueue, JoinBegin, TimeoutWait, JoinWaited, TimeoutStop,
           TimeoutCancel, TimeoutDrained, JoinKill, ResetKilled, ResetPool, JoinReturn,
           runVars
      <4>. QED
        BY <2>2, <4>1, <4>2
    <3>. QED
      BY <3>1, Zenon
  <2>3. ASSUME NEW w \in Workers, NEW i \in Techniques,
               ReturnTask(w, i) \/ InitThrows(w, i) \/ TechQuiet(w, i)
               \/ AnalyzeReturns(w, i) \/ Store(w, i) \/ Cas(w, i)
        PROVE  A
    <3>1. CASE TechQuiet(w, i)
      BY <3>1 DEF TechQuiet, SkipEarly, EnterInit, ClearCancelled, EndInit, Recheck,
         AnalyzeThrows, StopOthers, CancelOther, CancelDone
    <3>2. CASE ReturnTask(w, i) \/ InitThrows(w, i) \/ AnalyzeReturns(w, i)
               \/ Store(w, i) \/ Cas(w, i)
      <4>1. final_result' = final_result
        BY <3>2 DEF ReturnTask, InitThrows, AnalyzeReturns, Store, Cas, runVars
      <4>2. conclusive_found => conclusive_found'
        BY <3>2 DEF ReturnTask, InitThrows, AnalyzeReturns, Store, Cas, runVars
      <4>. QED
        BY <4>1, <4>2
    <3>. QED
      BY <2>3, <3>1, <3>2
  <2>. QED
    BY <1>1, <2>1, <2>2, <2>3, NextCases DEF TechStep, TechQuiet
<1>2. PortfolioInv /\ [Next]_vars => [A]_vars
  BY <1>1
<1>. QED
  BY <1>2, PortfolioInvariance, PTL DEF Spec, FirstAnswerWins

-----------------------------------------------------------------------------
(* The refinement of PortfolioVerdict *)

LEMMA TheOfSingleton == TheOf({}) = None /\ \A x : TheOf({x}) = x
BY DEF TheOf

LEMMA ElectedSet ==
  ASSUME PortfolioInv
  PROVE  /\ final_result = None => Elected = Winning
         /\ final_result # None => Elected = {final_result}
         /\ conclusive_found <=> Elected # {}
         /\ \A i \in Winning : Elected = {i}
<1>1. final_result \in Techniques \cup {None} /\ None \notin Techniques
  BY DEF PortfolioInv, TypeOK, Techniques, None
<1>2. final_result = None => Elected = Winning
  BY <1>1 DEF Elected, Winning
<1>3. final_result # None => Elected = {final_result}
  BY <1>1 DEF Elected, Winning, PortfolioInv, WinnerUnique
<1>4. \A i \in Winning : Winning = {i} /\ final_result = None
  BY DEF PortfolioInv, WinnerUnique
<1>5. conclusive_found <=> (final_result # None \/ Winning # {})
  BY DEF PortfolioInv, WinnerUnique
<1>. QED
  BY <1>2, <1>3, <1>4, <1>5

\* While a technique runs, no report has been built.
LEMMA NoReportYet ==
  ASSUME PortfolioInv, NEW i \in Techniques, tpc[i] # "over"
  PROVE  report.overall = "none"
BY DEF PortfolioInv, DecidedWhenOver, Deciding, ReportBuilt

LEMMA PromiseStep ==
  ASSUME PortfolioInv, Next  PROVE [Promise!ANext]_(Promise!avars)
<1> USE DEF PortfolioInv, TypeOK
<1> DEFINE Won == {"stop", "cancel", "final"}
<1>0. Stored \subseteq Techniques
  BY ElementOfSeq DEF Stored, RangeOf
<1>1. CASE UNCHANGED <<Given, TheOf(Elected), report>>
  BY <1>1 DEF Promise!avars
<1>2. CASE \* nothing the mapping reads changes
      /\ final_result' = final_result /\ report' = report
      /\ answer' = answer /\ all_results' = all_results
      /\ \A i \in Techniques : /\ tpc'[i] \in Won <=> tpc[i] \in Won
                               /\ tpc'[i] = "store" <=> tpc[i] = "store"
  <2>1. Stored' = Stored
    BY <1>2 DEF Stored
  <2>2. Elected' = Elected
    BY <1>2 DEF Elected
  <2>3. Given' = Given
    BY <1>2, <2>1 DEF Given
  <2>. QED
    BY <1>1, <1>2, <2>2, <2>3
<1>3. CASE PoolOnly
  BY <1>2, <1>3 DEF PoolOnly, runVars, mainVars
<1>4. CASE MainStep
  <2>1. CASE JoinReturn
    <3>1. /\ mpc = "reset" /\ report.overall = "none"
          /\ UNCHANGED runVars
          /\ report'.overall = IF final_result = None THEN "UNKNOWN"
                               ELSE answer[final_result]
      BY <2>1 DEF JoinReturn, ReportBuilt
    <3>2. \A i \in Techniques : tpc[i] = "over"
      BY <3>1 DEF DecidedWhenOver, Deciding
    <3>3. Winning = {}
      BY <3>2 DEF Winning
    <3>4. Given' = Given /\ Elected' = Elected
      <4>1. tpc' = tpc /\ answer' = answer /\ all_results' = all_results
            /\ final_result' = final_result
        BY <3>1 DEF runVars
      <4>2. Stored' = Stored
        BY <4>1 DEF Stored
      <4>. QED
        BY <4>1, <4>2 DEF Given, Elected
    <3>5. CASE final_result = None
      <4>1. Elected = {} /\ TheOf(Elected) = None /\ ~conclusive_found
        BY <3>3, <3>5, ElectedSet, TheOfSingleton
      <4>2. ASSUME NEW i \in Techniques  PROVE Given[i] \notin Conclusive
        <5>1. i \in Stored => answer[i] = "UNKNOWN"
          BY <3>2, <4>1 DEF StoredAnswers
        <5>2. Given[i] = IF i \in Stored THEN answer[i] ELSE "none"
          BY <3>2 DEF Given
        <5>. QED
          BY <5>1, <5>2 DEF Conclusive, Answers
      <4>. QED
        BY <3>1, <3>4, <3>5, <4>2 DEF Promise!ANext, Promise!Report
    <3>6. CASE final_result # None
      <4>1. Elected = {final_result} /\ TheOf(Elected) = final_result
        BY <3>6, ElectedSet, TheOfSingleton
      <4>2. Given[final_result] = answer[final_result]
        BY <1>0, <3>6 DEF Given, WinnerUnique
      <4>. QED
        BY <3>1, <3>4, <3>6, <4>1, <4>2 DEF Promise!ANext, Promise!Report
    <3>. QED
      BY <3>5, <3>6
  <2>. QED
    BY <1>2, <1>4, <2>1 DEF MainStep, SolveEnqueue, JoinBegin, TimeoutWait, JoinWaited,
       TimeoutStop, TimeoutCancel, TimeoutDrained, JoinKill, ResetKilled, ResetPool,
       runVars, mainVars
<1>5. ASSUME NEW w \in Workers, StartTask(w)  PROVE [Promise!ANext]_(Promise!avars)
  BY <1>2, <1>5, StartIsFresh DEF StartTask, mainVars
<1>6. ASSUME NEW w \in Workers, NEW i \in Techniques, ReturnTask(w, i) \/ InitThrows(w, i)
      PROVE  [Promise!ANext]_(Promise!avars)
  BY <1>2, <1>6 DEF ReturnTask, InitThrows, On, Goto, runVars, mainVars
<1>7. ASSUME NEW w \in Workers, NEW i \in Techniques, TechQuiet(w, i)
      PROVE  [Promise!ANext]_(Promise!avars)
  BY <1>2, <1>7 DEF TechQuiet, SkipEarly, EnterInit, ClearCancelled, EndInit, Recheck,
     AnalyzeThrows, StopOthers, CancelOther, CancelDone, On, Goto, mainVars
<1>8. ASSUME NEW w \in Workers, NEW i \in Techniques, AnalyzeReturns(w, i)
      PROVE  [Promise!ANext]_(Promise!avars)
  <2>1. PICK a \in MayAnswer(i) : answer' = [answer EXCEPT ![i] = a]
    BY <1>8 DEF AnalyzeReturns
  <2>2. a \in Conclusive \cup {"UNKNOWN"}
    BY DEF MayAnswer, Conclusive, Answers
  <2>3. tpc[i] = "analyze" /\ tpc' = [tpc EXCEPT ![i] = "store"]
    BY <1>8 DEF AnalyzeReturns, On, Goto
  <2>4. i \notin Stored /\ Stored' = Stored
    BY <1>8, <2>3 DEF AnalyzeReturns, StoredAnswers, Stored
  <2>5. Given[i] = "none" /\ Given' = [Given EXCEPT ![i] = a]
    <3>1. Given[i] = "none"
      BY <2>3, <2>4 DEF Given
    <3>2. \A j \in Techniques :
            (IF tpc'[j] = "store" \/ j \in Stored' THEN answer'[j] ELSE "none")
            = (IF j = i THEN a ELSE Given[j])
      BY <2>1, <2>3, <2>4 DEF Given
    <3>. QED
      BY <3>1, <3>2 DEF Given
  <2>6. Elected' = Elected
    BY <1>8, <2>3 DEF AnalyzeReturns, Elected
  <2>7. report.overall = "none" /\ report' = report
    BY <1>8, <2>3, NoReportYet DEF AnalyzeReturns, mainVars
  <2>. QED
    BY <2>2, <2>5, <2>6, <2>7 DEF Promise!ANext, Promise!Give
<1>9. ASSUME NEW w \in Workers, NEW i \in Techniques, Store(w, i)
      PROVE  [Promise!ANext]_(Promise!avars)
  <2>1. Stored' = Stored \cup {i}
    BY <1>9, RangeAppend DEF Store, Stored
  <2>2. /\ tpc[i] = "store" /\ tpc'[i] \in {"cas", "ret"} /\ answer' = answer
        /\ \A j \in Techniques \ {i} : tpc'[j] = tpc[j]
        /\ final_result' = final_result /\ report' = report
    BY <1>9 DEF Store, On, Goto, mainVars
  <2>3. Given' = Given
    BY <2>1, <2>2 DEF Given
  <2>4. Elected' = Elected
    BY <2>2 DEF Elected
  <2>. QED
    BY <1>1, <2>2, <2>3, <2>4
<1>10. ASSUME NEW w \in Workers, NEW i \in Techniques, Cas(w, i)
       PROVE  [Promise!ANext]_(Promise!avars)
  <2>1. CASE conclusive_found
    BY <1>2, <1>10, <2>1 DEF Cas, On, Goto, mainVars
  <2>2. CASE ~conclusive_found
    <3>1. Elected = {} /\ TheOf(Elected) = None /\ final_result = None
      BY <2>2, ElectedSet, TheOfSingleton
    <3>2. /\ tpc[i] = "cas" /\ tpc' = [tpc EXCEPT ![i] = "stop"]
          /\ UNCHANGED <<answer, all_results, final_result, report>>
      BY <1>10, <2>2 DEF Cas, On, Goto, mainVars
    <3>3. Elected' = {i}
      BY <3>1, <3>2 DEF Elected, Techniques, None
    <3>4. Given' = Given /\ Given[i] \in Conclusive
      <4>1. Stored' = Stored /\ i \in Stored /\ answer[i] \in Conclusive
        BY <3>2 DEF Stored, StoredAnswers
      <4>. QED
        BY <3>2, <4>1 DEF Given
    <3>5. report.overall = "none"
      BY <3>2, NoReportYet
    <3>6. TheOf(Elected)' = i
      BY <3>3, TheOfSingleton
    <3>. QED
      BY <3>1, <3>2, <3>4, <3>5, <3>6 DEF Promise!ANext, Promise!Elect
  <2>. QED
    BY <2>1, <2>2
<1>11. ASSUME NEW w \in Workers, NEW i \in Techniques, StoreFinal(w, i)
       PROVE  [Promise!ANext]_(Promise!avars)
  <2>1. i \in Winning /\ Winning = {i} /\ Elected = {i} /\ final_result = None
    BY <1>11, ElectedSet DEF StoreFinal, On, Winning, WinnerUnique
  <2>2. /\ tpc' = [tpc EXCEPT ![i] = "ret"] /\ tpc[i] = "final" /\ final_result' = i
        /\ UNCHANGED <<answer, all_results, report>>
    BY <1>11 DEF StoreFinal, On, Goto, mainVars
  <2>3. Elected' = Elected
    BY <2>1, <2>2 DEF Elected, Winning
  <2>4. Given' = Given
    BY <2>2 DEF Given, Stored
  <2>. QED
    BY <1>1, <2>2, <2>3, <2>4
<1>. QED
  BY <1>3, <1>4, <1>5, <1>6, <1>7, <1>8, <1>9, <1>10, <1>11, NextCases
  DEF TechStep, TechQuiet

\* solve() and join() implement the election of PortfolioVerdict
\* (portfolio_orchestrator.h:45-48).
THEOREM Refinement == Spec => ImplementsPromise
<1>1. Init => Promise!AInit
  <2> SUFFICES ASSUME Init PROVE Promise!AInit
    OBVIOUS
  <2>1. Stored = {} /\ Elected = {}
    <3>1. \A i \in Techniques : i # None
      BY DEF Techniques, None
    <3>. QED
      BY <3>1 DEF Init, Stored, RangeOf, Elected
  <2>. QED
    BY <2>1, TheOfSingleton DEF Init, Given, NoReport, Promise!AInit
<1>2. PortfolioInv /\ [Next]_vars => [Promise!ANext]_(Promise!avars)
  <2>1. ASSUME PortfolioInv, UNCHANGED vars  PROVE UNCHANGED Promise!avars
    <3>1. UNCHANGED <<tpc, answer, all_results, final_result, report>>
      BY <2>1 DEF vars, runVars, mainVars
    <3>2. Stored' = Stored
      BY <3>1 DEF Stored
    <3>. QED
      BY <3>1, <3>2 DEF Promise!avars, Given, Elected
  <2>. QED
    BY <2>1, PromiseStep
<1>. QED
  BY <1>1, <1>2, PortfolioInvariance, PTL DEF Spec, ImplementsPromise, Promise!ASpec
=============================================================================
