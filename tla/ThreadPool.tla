----------------------------- MODULE ThreadPool -----------------------------
(***************************************************************************)
(* include/thread_pool.h: a fixed set of worker threads, a FIFO of tasks,  *)
(* one mutex, a condition variable for the workers (task_cv_), one for the *)
(* thread that waits for the tasks (done_cv_), and the single calling      *)
(* thread that enqueues, waits, kills and destroys the pool.               *)
(*                                                                         *)
(* A section of the code under mutex_ is one step: nothing it reads or     *)
(* writes is touched outside the mutex.  What the code does after the      *)
(* unlock (notify_one in enqueue, notify_all, pthread_cancel, join) is a   *)
(* step of its own, so every interleaving with the workers is there.       *)
(***************************************************************************)
EXTENDS Integers, Sequences, FiniteSets

CONSTANTS Workers,   \* the pthreads the constructor starts
          Tasks,     \* the std::function objects a client may enqueue
          NoTask     \* a worker's local 'task' while it holds none

ASSUME WorkersAssumption == IsFiniteSet(Workers)
ASSUME TasksAssumption   == NoTask \notin Tasks

VARIABLES
  tasks,      \* tasks_, the FIFO
  pending,    \* pending_: enqueued and not yet completed
  stop,       \* stop_
  killed,     \* killed_
  wpc,        \* where each worker is in workerLoop
  wtask,      \* each worker's local 'task'
  caller,     \* where the calling thread is in a method of the pool
  timed,      \* the wait in progress has a deadline (waitUntil)
  waitResult, \* what the last wait returned
  submitted,  \* history: the tasks, in enqueue order
  started,    \* history: the tasks, in the order workers took them
  finished    \* history: the tasks whose call returned

poolVars == <<tasks, pending, stop, killed, wpc, wtask, caller, timed,
              waitResult, submitted, started, finished>>

history == <<submitted, started, finished>>

(***************************************************************************)
(* Control points of a worker:                                             *)
(*   loop       about to lock mutex_ and evaluate the wait predicate       *)
(*   wait       asleep on task_cv_                                         *)
(*   run, done  in task(), and back from it but not yet in the second lock *)
(*   exited     returned from workerLoop; cancelled: ended by killAll      *)
(*   fault      touched a mutex or queue of a pool already destroyed       *)
(***************************************************************************)
Busy == {"run", "done"}
Gone == {"exited", "cancelled", "fault"}
WorkerPC == {"loop", "wait"} \cup Busy \cup Gone

(***************************************************************************)
(* Control points of the calling thread: idle is outside the pool, notify  *)
(* between unlock and notify_one in enqueue, check and blocked are the two *)
(* halves of a wait on done_cv_, the rest are the tails of killAll and of  *)
(* the destructor.                                                         *)
(***************************************************************************)
CallerPC == {"idle", "notify", "check", "blocked", "killNotify", "killCancel",
             "dtorNotify", "joining", "destroyed"}

At(pc)   == {w \in Workers : wpc[w] = pc}
InTask   == {w \in Workers : wpc[w] \in Busy}
Waiters  == At("wait")
WakeAll  == [w \in Workers |-> IF wpc[w] = "wait" THEN "loop" ELSE wpc[w]]

\* pthread_cancel has reached every worker
CancelSent == killed /\ caller \notin {"killNotify", "killCancel"}

\* The constructor: every worker is started; none has locked yet.
PoolInit ==
  /\ tasks = <<>> /\ pending = 0 /\ stop = FALSE /\ killed = FALSE
  /\ wpc = [w \in Workers |-> "loop"]
  /\ wtask = [w \in Workers |-> NoTask]
  /\ caller = "idle" /\ timed = FALSE /\ waitResult = FALSE
  /\ submitted = <<>> /\ started = <<>> /\ finished = {}

-----------------------------------------------------------------------------
(* The calling thread *)

\* Seeded faults: an operator named X_Y is a plausible wrong version of the
\* action X that follows it; no specification uses it.

\* It pushes without counting.
EnqueuePush_Uncounted(t) ==
  /\ caller = "idle" /\ ~killed
  /\ tasks' = Append(tasks, t)
  /\ caller' = "notify"
  /\ submitted' = Append(submitted, t)
  /\ UNCHANGED <<pending, stop, killed, wpc, wtask, timed, waitResult, started, finished>>

\* It pushes at the wrong end.
EnqueuePush_Front(t) ==
  /\ caller = "idle" /\ ~killed
  /\ tasks' = <<t>> \o tasks
  /\ pending' = pending + 1
  /\ caller' = "notify"
  /\ submitted' = Append(submitted, t)
  /\ UNCHANGED <<stop, killed, wpc, wtask, timed, waitResult, started, finished>>

\* enqueue, under the lock
EnqueuePush(t) ==
  /\ caller = "idle" /\ ~killed
  /\ tasks' = Append(tasks, t)
  /\ pending' = pending + 1
  /\ caller' = "notify"
  /\ submitted' = Append(submitted, t)
  /\ UNCHANGED <<stop, killed, wpc, wtask, timed, waitResult, started, finished>>

\* It forgets notify_one.
EnqueueNotify_Forgotten ==
  /\ caller = "notify" /\ caller' = "idle"
  /\ UNCHANGED <<tasks, pending, stop, killed, wpc, wtask, timed, waitResult, history>>

\* enqueue, notify_one after the unlock: one sleeping worker, if any, wakes
EnqueueNotify ==
  /\ caller = "notify"
  /\ caller' = "idle"
  /\ \/ Waiters = {} /\ wpc' = wpc
     \/ \E w \in Waiters : wpc' = [wpc EXCEPT ![w] = "loop"]
  /\ UNCHANGED <<tasks, pending, stop, killed, wtask, timed, waitResult, history>>

\* waitAll (deadline FALSE) and waitUntil (deadline TRUE) are entered
BeginWait(deadline) ==
  /\ caller = "idle" /\ ~killed
  /\ caller' = "check"
  /\ timed' = deadline
  /\ UNCHANGED <<tasks, pending, stop, killed, wpc, wtask, waitResult, history>>

\* It waits for an empty queue instead of pending_ = 0.
WaitCheck_QueueOnly ==
  /\ caller = "check"
  /\ \/ tasks = <<>> /\ caller' = "idle" /\ waitResult' = TRUE
     \/ tasks # <<>> /\ caller' = "blocked" /\ UNCHANGED waitResult
  /\ UNCHANGED <<tasks, pending, stop, killed, wpc, wtask, timed, history>>

\* the predicate of done_cv_.wait, evaluated under the lock
WaitCheck ==
  /\ caller = "check"
  /\ \/ pending = 0 /\ caller' = "idle" /\ waitResult' = TRUE
     \/ pending # 0 /\ caller' = "blocked" /\ UNCHANGED waitResult
  /\ UNCHANGED <<tasks, pending, stop, killed, wpc, wtask, timed, history>>

\* wait_until gives up: it returns the predicate, read once more
DeadlineExpires ==
  /\ caller = "blocked" /\ timed
  /\ caller' = "idle"
  /\ waitResult' = (pending = 0)
  /\ UNCHANGED <<tasks, pending, stop, killed, wpc, wtask, timed, history>>

\* It clears the queue and leaves stop_ as it was.
KillAll_NoStop ==
  /\ caller = "idle" /\ ~killed
  /\ killed' = TRUE /\ tasks' = <<>>
  /\ caller' = "killNotify"
  /\ UNCHANGED <<pending, stop, wpc, wtask, timed, waitResult, history>>

\* killAll, up to the unlock: the queue is cleared
KillAll ==
  /\ caller = "idle" /\ ~killed
  /\ killed' = TRUE /\ tasks' = <<>> /\ stop' = TRUE
  /\ caller' = "killNotify"
  /\ UNCHANGED <<pending, wpc, wtask, timed, waitResult, history>>

KillNotify ==
  /\ caller = "killNotify"
  /\ wpc' = WakeAll
  /\ caller' = "killCancel"
  /\ UNCHANGED <<tasks, pending, stop, killed, wtask, timed, waitResult, history>>

\* pthread_cancel and detach for every worker; a worker acts on it later
KillCancel ==
  /\ caller = "killCancel"
  /\ caller' = "idle"
  /\ UNCHANGED <<tasks, pending, stop, killed, wpc, wtask, timed, waitResult, history>>

\* ~ThreadPool after killAll returns at once; the members are then destroyed
DestroyKilled ==
  /\ caller = "idle" /\ killed
  /\ caller' = "destroyed"
  /\ UNCHANGED <<tasks, pending, stop, killed, wpc, wtask, timed, waitResult, history>>

\* It wakes the workers without telling them to stop.
Destroy_NoStop ==
  /\ caller = "idle" /\ ~killed
  /\ caller' = "dtorNotify"
  /\ UNCHANGED <<tasks, pending, stop, killed, wpc, wtask, timed, waitResult, history>>

\* ~ThreadPool otherwise: stop_ under the lock, notify_all, join every worker
Destroy ==
  /\ caller = "idle" /\ ~killed
  /\ stop' = TRUE
  /\ caller' = "dtorNotify"
  /\ UNCHANGED <<tasks, pending, killed, wpc, wtask, timed, waitResult, history>>

DtorNotify ==
  /\ caller = "dtorNotify"
  /\ wpc' = WakeAll
  /\ caller' = "joining"
  /\ UNCHANGED <<tasks, pending, stop, killed, wtask, timed, waitResult, history>>

DtorJoined ==
  /\ caller = "joining"
  /\ \A w \in Workers : wpc[w] \in Gone
  /\ caller' = "destroyed"
  /\ UNCHANGED <<tasks, pending, stop, killed, wpc, wtask, timed, waitResult, history>>

-----------------------------------------------------------------------------
(* A worker, in a pool that still exists *)

\* the predicate holds and there is a task: it is taken even when stop_ is set
PopTask(w) ==
  /\ wpc[w] = "loop" /\ caller # "destroyed"
  /\ tasks # <<>>
  /\ wtask' = [wtask EXCEPT ![w] = Head(tasks)]
  /\ tasks' = Tail(tasks)
  /\ wpc' = [wpc EXCEPT ![w] = "run"]
  /\ started' = Append(started, Head(tasks))
  /\ UNCHANGED <<pending, stop, killed, caller, timed, waitResult, submitted, finished>>

\* the predicate is false: the worker releases the lock and sleeps
Sleep(w) ==
  /\ wpc[w] = "loop" /\ caller # "destroyed"
  /\ tasks = <<>> /\ ~stop
  /\ wpc' = [wpc EXCEPT ![w] = "wait"]
  /\ UNCHANGED <<tasks, pending, stop, killed, wtask, caller, timed, waitResult, history>>

\* stop_ and an empty queue: the worker returns for good
ExitLoop(w) ==
  /\ wpc[w] = "loop" /\ caller # "destroyed"
  /\ tasks = <<>> /\ stop
  /\ wpc' = [wpc EXCEPT ![w] = "exited"]
  /\ UNCHANGED <<tasks, pending, stop, killed, wtask, caller, timed, waitResult, history>>

\* task() returns
TaskReturn(w) ==
  /\ wpc[w] = "run"
  /\ wpc' = [wpc EXCEPT ![w] = "done"]
  /\ finished' = finished \cup {wtask[w]}
  /\ UNCHANGED <<tasks, pending, stop, killed, wtask, caller, timed, waitResult,
                 submitted, started>>

\* It stops the pool and forgets done_cv_.
Finish_NoDoneNotify(w) ==
  /\ wpc[w] = "done" /\ caller # "destroyed"
  /\ pending' = pending - 1
  /\ wtask' = [wtask EXCEPT ![w] = NoTask]
  /\ \/ pending = 1 /\ stop' = TRUE /\ wpc' = [WakeAll EXCEPT ![w] = "loop"]
     \/ pending # 1 /\ UNCHANGED stop /\ wpc' = [wpc EXCEPT ![w] = "loop"]
  /\ UNCHANGED <<tasks, killed, caller, timed, waitResult, history>>

\* the second lock: the worker that brings pending_ to 0 stops the pool and
\* wakes the other workers and the waiting thread
Finish(w) ==
  /\ wpc[w] = "done" /\ caller # "destroyed"
  /\ pending' = pending - 1
  /\ wtask' = [wtask EXCEPT ![w] = NoTask]
  /\ \/ /\ pending = 1
        /\ stop' = TRUE
        /\ wpc' = [WakeAll EXCEPT ![w] = "loop"]
        /\ caller' = IF caller = "blocked" THEN "check" ELSE caller
     \/ /\ pending # 1
        /\ wpc' = [wpc EXCEPT ![w] = "loop"]
        /\ UNCHANGED <<stop, caller>>
  /\ UNCHANGED <<tasks, killed, timed, waitResult, history>>

\* a cancelled thread ends at an allocation, an I/O call or inside cond_wait
Cancelled(w) ==
  /\ CancelSent
  /\ wpc[w] \in {"run", "loop"}
  /\ wpc' = [wpc EXCEPT ![w] = "cancelled"]
  /\ UNCHANGED <<tasks, pending, stop, killed, wtask, caller, timed, waitResult, history>>

\* a worker that is still in workerLoop locks the mutex of a destroyed pool:
\* undefined, so it may seem to work (the worker ends) or not
UseDestroyed(w) ==
  /\ caller = "destroyed"
  /\ wpc[w] \in {"loop", "wait", "done"}
  /\ \E outcome \in {"exited", "fault"} : wpc' = [wpc EXCEPT ![w] = outcome]
  /\ UNCHANGED <<tasks, pending, stop, killed, wtask, caller, timed, waitResult, history>>

\* condition variables may wake a thread without a notification
SpuriousWorkerWake(w) ==
  /\ wpc[w] = "wait"
  /\ wpc' = [wpc EXCEPT ![w] = "loop"]
  /\ UNCHANGED <<tasks, pending, stop, killed, wtask, caller, timed, waitResult, history>>

SpuriousCallerWake ==
  /\ caller = "blocked"
  /\ caller' = "check"
  /\ UNCHANGED <<tasks, pending, stop, killed, wpc, wtask, timed, waitResult, history>>

-----------------------------------------------------------------------------
(* The pool under the most general legal client: it enqueues each task at   *)
(* most once, and after killAll it only destroys the pool.                  *)

RangeOf(s) == {s[k] : k \in 1..Len(s)}
Unsubmitted == Tasks \ RangeOf(submitted)

\* what the calling thread does once it has entered a method
CallerStep ==
  \/ EnqueueNotify \/ WaitCheck \/ KillNotify \/ KillCancel
  \/ DtorNotify \/ DtorJoined

ClientCall ==
  \/ \E t \in Unsubmitted : EnqueuePush(t)
  \/ \E deadline \in BOOLEAN : BeginWait(deadline)
  \/ KillAll \/ DestroyKilled \/ Destroy

WorkerStep(w) ==
  \/ PopTask(w) \/ Sleep(w) \/ ExitLoop(w) \/ TaskReturn(w) \/ Finish(w)

Environment ==
  \/ DeadlineExpires \/ SpuriousCallerWake
  \/ \E w \in Workers : SpuriousWorkerWake(w) \/ Cancelled(w) \/ UseDestroyed(w)

PoolNext ==
  \/ ClientCall \/ CallerStep \/ Environment
  \/ \E w \in Workers : WorkerStep(w)

PoolSpec == PoolInit /\ [][PoolNext]_poolVars

(***************************************************************************)
(* Fairness: the scheduler runs every thread that is not blocked, and a    *)
(* task returns.  Nothing is assumed of the client's calls, of the         *)
(* deadline, of spurious wakeups or of pthread_cancel.                     *)
(***************************************************************************)
PoolFairness ==
  /\ WF_poolVars(CallerStep)
  /\ \A w \in Workers : WF_poolVars(WorkerStep(w))

FairPoolSpec == PoolSpec /\ PoolFairness

-----------------------------------------------------------------------------
(* Properties *)

\* The type of every variable.
PoolTypeOK ==
  /\ tasks \in Seq(Tasks)
  /\ pending \in Int
  /\ stop \in BOOLEAN /\ killed \in BOOLEAN
  /\ wpc \in [Workers -> WorkerPC]
  /\ wtask \in [Workers -> Tasks \cup {NoTask}]
  /\ caller \in CallerPC
  /\ timed \in BOOLEAN /\ waitResult \in BOOLEAN
  /\ submitted \in Seq(Tasks) /\ started \in Seq(Tasks)
  /\ finished \subseteq Tasks

\* pending_ counts exactly the tasks queued and the tasks in the hands of a
\* worker that has not yet gone through its second lock (until killAll).
PendingCounts ==
  ~killed => pending = Len(tasks) + Cardinality(InTask)

\* Tasks leave the queue in enqueue order, none lost and none taken twice
\* (thread_pool.h:13, :37), until killAll clears the queue.
FIFO ==
  ~killed => submitted = started \o tasks

\* notify_one after the unlock loses no wakeup: while a worker sleeps, every
\* queued task has a worker on its way to take it, or a notification in flight.
\* So a worker never sleeps while work is queued that nobody is coming for.
NoLostWakeup ==
  Waiters # {} =>
    Len(tasks) <= Cardinality(At("loop")) + (IF caller = "notify" THEN 1 ELSE 0)

\* A wait that returns true returns only when every task enqueued so far has
\* returned (thread_pool.h:47, :54): pending_ is never 0 too early.
WaitIsComplete ==
  [][ (caller \in {"check", "blocked"} /\ caller' = "idle" /\ waitResult')
        => finished = RangeOf(submitted) ]_poolVars

\* The workers have all returned and a task is still queued: nobody will run it.
Abandoned == stop /\ tasks # <<>> /\ \A w \in Workers : wpc[w] \in Gone

\* A wait that has begun returns: the worker that brings pending_ to 0 finds
\* the waiting thread.  The one excuse is that the workers have all left with a
\* task still in the queue.
WaitReturns ==
  caller \in {"check", "blocked"} ~> (caller = "idle" \/ Abandoned)

\* The destructor's join terminates: stop_ and notify_all reach every worker,
\* whatever it was doing.
DestructorReturns ==
  caller = "dtorNotify" ~> caller = "destroyed"

\* The pool's memory outlives its workers' use of it.
NoUseAfterDestroy == \A w \in Workers : wpc[w] # "fault"

-----------------------------------------------------------------------------
(* The inductive strengthening used by ThreadPoolProofs *)

\* a started task is running or has returned, and nothing else has
StartedAccounted ==
  /\ \A w \in Workers : wpc[w] = "run" => wtask[w] \in RangeOf(started)
  /\ finished \subseteq RangeOf(started)
  /\ ~killed =>
       \A t \in RangeOf(started) :
         t \in finished \/ \E w \in Workers : wpc[w] = "run" /\ wtask[w] = t

\* what a killed or destroyed pool can still do
EndOfLife ==
  /\ killed => tasks = <<>> /\ stop
  /\ killed => caller \in {"idle", "killNotify", "killCancel", "destroyed"}
  /\ caller \in {"killNotify", "killCancel"} => killed
  /\ caller = "destroyed" /\ ~killed => \A w \in Workers : wpc[w] \in Gone

\* PoolTypeOK and the invariants above hold in every reachable state, by
\* induction on the steps of the pool.
PoolInv ==
  /\ PoolTypeOK /\ PendingCounts /\ FIFO /\ NoLostWakeup
  /\ StartedAccounted /\ EndOfLife
=============================================================================
