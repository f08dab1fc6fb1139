------------------------------ MODULE Portfolio ------------------------------
(***************************************************************************)
(* src/portfolio_orchestrator.cpp: solve() puts one task per technique in  *)
(* a fresh thread pool, each task runs runTechnique(i), and join() waits   *)
(* for the pool, cancels what is left on timeout, picks the verdict and    *)
(* destroys the pool.  The pool is the one of ThreadPool, whose actions    *)
(* this module composes with its own; the calling thread of the pool is    *)
(* the thread that runs solve() and join().                                *)
(*                                                                         *)
(* One solve()/join() pair per process, as in src/pasttel.cpp.             *)
(***************************************************************************)
EXTENDS ThreadPool

CONSTANTS N,             \* techniques_.size()
          Ranking,       \* the techniques that are a RankingBasedTechnique
          Misconfigured, \* those whose validateConfiguration() is false
          InitMayThrow,  \* those whose init() may throw
          Interruptible, \* those whose solver honours interrupt()
          SlowInit,      \* those whose init() nobody assumes to end
          HasLimit       \* join() is given a time limit (TIMELIMIT > 0)

Techniques == 1..N
None == 0

ASSUME PortfolioAssumption ==
  /\ N \in Nat
  /\ Tasks = 1..N /\ NoTask = None
  /\ \A S \in {Ranking, Misconfigured, InitMayThrow, Interruptible, SlowInit} :
       S \subseteq 1..N
  /\ HasLimit \in BOOLEAN

VARIABLES
  conclusive_found, \* atomic flag: some technique won
  stop_early,       \* atomic flag: conclusive_found or timeout
  cancelled,        \* the ranking techniques whose cancelled_ is true
  interrupted,      \* the techniques whose solver_->interrupt() was called
  all_results,      \* the techniques that stored a proof, in order
  final_result,     \* the technique whose proof is in final_result_
  answer,           \* the status of each technique's proof
  tpc,              \* where each technique is in runTechnique
  cursor,           \* loop index of cancelTechniques, of each caller of it
  mpc,              \* where the main thread is in solve() and join()
  timed_out,        \* join()'s local
  report            \* what join() returned

runVars == <<conclusive_found, stop_early, cancelled, interrupted, all_results,
             final_result, answer, tpc, cursor>>
mainVars == <<mpc, timed_out, report>>
vars == <<poolVars, runVars, mainVars>>

Answers == {"UNKNOWN", "TERMINATING", "NON_TERMINATING"}
Conclusive == Answers \ {"UNKNOWN"}

\* What analyze() may answer: a ranking technique only proves termination, the
\* others only non-termination.
MayAnswer(i) ==
  {"UNKNOWN", IF i \in Ranking THEN "TERMINATING" ELSE "NON_TERMINATING"}

(***************************************************************************)
(* Control points of a technique: entry (the first test of stop_early_),   *)
(* begun and init (inside init(), before and after cancelled_ is cleared), *)
(* recheck, analyze (inside analyze()), store, cas, stop, cancel, final    *)
(* (the stages after it), ret (about to return), and over.                 *)
(* idle: its task has not been taken.                                      *)
(***************************************************************************)
TechniquePC == {"idle", "entry", "begun", "init", "recheck", "analyze", "store", "cas",
                "stop", "cancel", "final", "ret", "over"}

MainPC == {"solve", "waiting", "expired", "cancelling", "drain", "decide",
           "killing", "reset", "returned", "aborted"}

NoReport == [overall |-> "none", winner |-> None, results |-> <<>>]

Init ==
  /\ PoolInit
  /\ conclusive_found = FALSE /\ stop_early = FALSE
  /\ cancelled = {} /\ interrupted = {}
  /\ all_results = <<>> /\ final_result = None
  /\ answer = [i \in Techniques |-> "UNKNOWN"]
  /\ tpc = [i \in Techniques |-> "idle"]
  /\ cursor = [a \in Techniques \cup {None} |-> 1]
  /\ mpc = "solve" /\ timed_out = FALSE /\ report = NoReport

-----------------------------------------------------------------------------
(* runTechnique(i), on the worker w *)

On(w, i, pc) == wpc[w] = "run" /\ wtask[w] = i /\ tpc[i] = pc
Goto(i, pc)  == tpc' = [tpc EXCEPT ![i] = pc]

\* the worker takes the task of technique Head(tasks)
StartTask(w) ==
  /\ PopTask(w)
  /\ Goto(Head(tasks), "entry")
  /\ UNCHANGED <<conclusive_found, stop_early, cancelled, interrupted, all_results,
                 final_result, answer, cursor, mainVars>>

SkipEarly(w, i) ==
  /\ On(w, i, "entry") /\ stop_early
  /\ Goto(i, "ret")
  /\ UNCHANGED <<poolVars, conclusive_found, stop_early, cancelled, interrupted,
                 all_results, final_result, answer, cursor, mainVars>>

\* init() begins: stop_early_ was false when it was read
EnterInit(w, i) ==
  /\ On(w, i, "entry") /\ ~stop_early
  /\ Goto(i, "begun")
  /\ UNCHANGED <<poolVars, conclusive_found, stop_early, cancelled, interrupted,
                 all_results, final_result, answer, cursor, mainVars>>

\* then the init() of a ranking technique clears cancelled_
ClearCancelled(w, i) ==
  /\ On(w, i, "begun")
  /\ Goto(i, "init")
  /\ cancelled' = cancelled \ {i}
  /\ UNCHANGED <<poolVars, conclusive_found, stop_early, interrupted, all_results,
                 final_result, answer, cursor, mainVars>>

EndInit(w, i) ==
  /\ On(w, i, "init")
  /\ Goto(i, "recheck")
  /\ UNCHANGED <<poolVars, conclusive_found, stop_early, cancelled, interrupted,
                 all_results, final_result, answer, cursor, mainVars>>

\* init() is outside the try block: the exception leaves the thread function
\* and the process is terminated
InitThrows(w, i) ==
  /\ On(w, i, "init") /\ i \in InitMayThrow
  /\ mpc' = "aborted"
  /\ UNCHANGED <<poolVars, runVars, timed_out, report>>

\* Seeded faults: an operator named X_Y is a plausible wrong version of the
\* action X that follows it; no specification uses it.

\* It does not read stop_early_ again after init().
Recheck_OnlyConfiguration(w, i) ==
  /\ On(w, i, "recheck")
  /\ Goto(i, IF i \in Misconfigured THEN "ret" ELSE "analyze")
  /\ UNCHANGED <<poolVars, conclusive_found, stop_early, cancelled, interrupted,
                 all_results, final_result, answer, cursor, mainVars>>

\* second test of stop_early_, then validateConfiguration()
Recheck(w, i) ==
  /\ On(w, i, "recheck")
  /\ Goto(i, IF stop_early \/ i \in Misconfigured THEN "ret" ELSE "analyze")
  /\ UNCHANGED <<poolVars, conclusive_found, stop_early, cancelled, interrupted,
                 all_results, final_result, answer, cursor, mainVars>>

AnalyzeReturns(w, i) ==
  /\ On(w, i, "analyze")
  /\ \E a \in MayAnswer(i) : answer' = [answer EXCEPT ![i] = a]
  /\ Goto(i, "store")
  /\ UNCHANGED <<poolVars, conclusive_found, stop_early, cancelled, interrupted,
                 all_results, final_result, cursor, mainVars>>

AnalyzeThrows(w, i) ==
  /\ On(w, i, "analyze")
  /\ Goto(i, "ret")
  /\ UNCHANGED <<poolVars, conclusive_found, stop_early, cancelled, interrupted,
                 all_results, final_result, answer, cursor, mainVars>>

\* It lets any proof compete, conclusive or not.
Store_AnyCompetes(w, i) ==
  /\ On(w, i, "store")
  /\ all_results' = Append(all_results, i)
  /\ Goto(i, "cas")
  /\ UNCHANGED <<poolVars, conclusive_found, stop_early, cancelled, interrupted,
                 final_result, answer, cursor, mainVars>>

\* the proof goes to all_results_ under mutex_, conclusive or not
Store(w, i) ==
  /\ On(w, i, "store")
  /\ all_results' = Append(all_results, i)
  /\ Goto(i, IF answer[i] \in Conclusive THEN "cas" ELSE "ret")
  /\ UNCHANGED <<poolVars, conclusive_found, stop_early, cancelled, interrupted,
                 final_result, answer, cursor, mainVars>>

\* It stores the flag without comparing it.
Cas_PlainStore(w, i) ==
  /\ On(w, i, "cas")
  /\ conclusive_found' = TRUE
  /\ Goto(i, "stop")
  /\ UNCHANGED <<poolVars, stop_early, cancelled, interrupted, all_results,
                 final_result, answer, cursor, mainVars>>

\* conclusive_found_.compare_exchange_strong(false, true)
Cas(w, i) ==
  /\ On(w, i, "cas")
  /\ conclusive_found' = TRUE
  /\ Goto(i, IF conclusive_found THEN "ret" ELSE "stop")
  /\ UNCHANGED <<poolVars, stop_early, cancelled, interrupted, all_results,
                 final_result, answer, cursor, mainVars>>

\* the winner stores stop_early_ and enters cancelTechniques(i)
StopOthers(w, i) ==
  /\ On(w, i, "stop")
  /\ stop_early' = TRUE
  /\ Goto(i, "cancel")
  /\ UNCHANGED <<poolVars, conclusive_found, cancelled, interrupted, all_results,
                 final_result, answer, cursor, mainVars>>

\* It sets cancelled_ and forgets the solver.
CancelNext_FlagOnly(winner) ==
  LET j == cursor[winner] IN
  /\ j <= N
  /\ cursor' = [cursor EXCEPT ![winner] = j + 1]
  /\ cancelled' = cancelled \cup (({j} \ {winner}) \cap Ranking)
  /\ UNCHANGED interrupted

\* one iteration of cancelTechniques(winner): cancel() of technique j, which
\* sets cancelled_ (ranking techniques) and interrupts the solver
CancelNext(winner) ==
  LET j == cursor[winner] IN
  /\ j <= N
  /\ cursor' = [cursor EXCEPT ![winner] = j + 1]
  /\ interrupted' = interrupted \cup ({j} \ {winner})
  /\ cancelled' = cancelled \cup (({j} \ {winner}) \cap Ranking)

CancelOther(w, i) ==
  /\ On(w, i, "cancel")
  /\ CancelNext(i)
  /\ UNCHANGED <<poolVars, conclusive_found, stop_early, all_results, final_result,
                 answer, tpc, mainVars>>

CancelDone(w, i) ==
  /\ On(w, i, "cancel") /\ cursor[i] > N
  /\ Goto(i, "final")
  /\ UNCHANGED <<poolVars, conclusive_found, stop_early, cancelled, interrupted,
                 all_results, final_result, answer, cursor, mainVars>>

StoreFinal(w, i) ==
  /\ On(w, i, "final")
  /\ final_result' = i
  /\ Goto(i, "ret")
  /\ UNCHANGED <<poolVars, conclusive_found, stop_early, cancelled, interrupted,
                 all_results, answer, cursor, mainVars>>

ReturnTask(w, i) ==
  /\ On(w, i, "ret")
  /\ TaskReturn(w)
  /\ Goto(i, "over")
  /\ UNCHANGED <<conclusive_found, stop_early, cancelled, interrupted, all_results,
                 final_result, answer, cursor, mainVars>>

-----------------------------------------------------------------------------
(* solve() and join(), on the main thread *)

\* the enqueue loop of solve(), in index order
SolveEnqueue ==
  /\ mpc = "solve" /\ Len(submitted) < N
  /\ EnqueuePush(Len(submitted) + 1)
  /\ UNCHANGED <<runVars, mainVars>>

\* join() begins: waitUntil(deadline) or waitAll()
JoinBegin ==
  /\ mpc = "solve" /\ Len(submitted) = N
  /\ BeginWait(HasLimit)
  /\ mpc' = "waiting"
  /\ UNCHANGED <<runVars, timed_out, report>>

JoinWaited ==
  /\ mpc = "waiting" /\ caller = "idle"
  /\ timed_out' = ~waitResult
  /\ mpc' = IF waitResult THEN "decide" ELSE "expired"
  /\ UNCHANGED <<poolVars, runVars, report>>

\* It cancels without storing stop_early_.
TimeoutStop_CancelOnly ==
  /\ mpc = "expired"
  /\ mpc' = "cancelling"
  /\ UNCHANGED <<poolVars, runVars, timed_out, report>>

\* timeout: stop_early_ is stored, then every technique is cancelled
TimeoutStop ==
  /\ mpc = "expired"
  /\ stop_early' = TRUE
  /\ mpc' = "cancelling"
  /\ UNCHANGED <<poolVars, conclusive_found, cancelled, interrupted, all_results,
                 final_result, answer, tpc, cursor, timed_out, report>>

TimeoutCancel ==
  /\ mpc = "cancelling"
  /\ CancelNext(None)
  /\ UNCHANGED <<poolVars, conclusive_found, stop_early, all_results, final_result,
                 answer, tpc, mainVars>>

\* It does not wait for the cancelled techniques.
TimeoutWait_Skipped ==
  /\ mpc = "cancelling" /\ cursor[None] > N
  /\ mpc' = "decide"
  /\ UNCHANGED <<poolVars, runVars, timed_out, report>>

\* then waitAll(), without a deadline
TimeoutWait ==
  /\ mpc = "cancelling" /\ cursor[None] > N
  /\ BeginWait(FALSE)
  /\ mpc' = "drain"
  /\ UNCHANGED <<runVars, timed_out, report>>

TimeoutDrained ==
  /\ mpc = "drain" /\ caller = "idle"
  /\ mpc' = "decide"
  /\ UNCHANGED <<poolVars, runVars, timed_out, report>>

\* killAll() when there is a winner, then pool_.reset() in any case
JoinKill ==
  /\ mpc = "decide" /\ conclusive_found
  /\ KillAll
  /\ mpc' = "killing"
  /\ UNCHANGED <<runVars, timed_out, report>>

ResetKilled ==
  /\ mpc = "killing"
  /\ DestroyKilled
  /\ mpc' = "reset"
  /\ UNCHANGED <<runVars, timed_out, report>>

ResetPool ==
  /\ mpc = "decide" /\ ~conclusive_found
  /\ Destroy
  /\ mpc' = "reset"
  /\ UNCHANGED <<runVars, timed_out, report>>

\* It throws the winner away after a timeout.
JoinReturn_TimeoutIsUnknown ==
  /\ mpc = "reset" /\ caller = "destroyed"
  /\ report' = [overall |-> IF final_result = None \/ timed_out THEN "UNKNOWN"
                            ELSE answer[final_result],
                winner  |-> final_result,
                results |-> all_results]
  /\ mpc' = "returned"
  /\ UNCHANGED <<poolVars, runVars, timed_out>>

\* It reports the last stored proof instead of final_result_.
JoinReturn_LastStored ==
  /\ mpc = "reset" /\ caller = "destroyed"
  /\ LET last == IF all_results = <<>> THEN None ELSE all_results[Len(all_results)] IN
       report' = [overall |-> IF last = None THEN "UNKNOWN" ELSE answer[last],
                  winner  |-> last,
                  results |-> all_results]
  /\ mpc' = "returned"
  /\ UNCHANGED <<poolVars, runVars, timed_out>>

\* the report is built from final_result_ and all_results_
JoinReturn ==
  /\ mpc = "reset" /\ caller = "destroyed"
  /\ report' = [overall |-> IF final_result = None THEN "UNKNOWN"
                            ELSE answer[final_result],
                winner  |-> final_result,
                results |-> all_results]
  /\ mpc' = "returned"
  /\ UNCHANGED <<poolVars, runVars, timed_out>>

-----------------------------------------------------------------------------
\* the steps of runTechnique that end by themselves
RunStep(w) ==
  \/ StartTask(w)
  \/ \E i \in Techniques :
       \/ SkipEarly(w, i) \/ EnterInit(w, i) \/ ClearCancelled(w, i)
       \/ i \notin SlowInit /\ EndInit(w, i)
       \/ Recheck(w, i) \/ Store(w, i) \/ Cas(w, i) \/ StopOthers(w, i)
       \/ CancelOther(w, i) \/ CancelDone(w, i) \/ StoreFinal(w, i)
       \/ ReturnTask(w, i)

\* the calls that may take any time, or not come back
LongCall(w, i) ==
  \/ i \in SlowInit /\ EndInit(w, i)
  \/ InitThrows(w, i) \/ AnalyzeReturns(w, i) \/ AnalyzeThrows(w, i)

PoolWorkerStep(w) ==
  (Sleep(w) \/ ExitLoop(w) \/ Finish(w)) /\ UNCHANGED <<runVars, mainVars>>

PoolCallerStep == CallerStep /\ UNCHANGED <<runVars, mainVars>>

MainStep ==
  \/ SolveEnqueue \/ JoinBegin \/ JoinWaited
  \/ TimeoutStop \/ TimeoutCancel \/ TimeoutWait \/ TimeoutDrained
  \/ JoinKill \/ ResetKilled \/ ResetPool \/ JoinReturn

Deadline == DeadlineExpires /\ UNCHANGED <<runVars, mainVars>>

PoolEnvironment == Environment /\ UNCHANGED <<runVars, mainVars>>

Next ==
  /\ mpc # "aborted"
  /\ \/ MainStep \/ PoolCallerStep \/ PoolEnvironment
     \/ \E w \in Workers :
          \/ RunStep(w) \/ PoolWorkerStep(w)
          \/ \E i \in Techniques : LongCall(w, i)

Spec == Init /\ [][Next]_vars

Live(A) == mpc # "aborted" /\ A

(***************************************************************************)
(* Fairness: threads that can run do; the deadline comes (the clock        *)
(* advances even when the wait is woken spuriously again and again, hence  *)
(* SF); analyze() is only assumed to return once its solver, when it       *)
(* honours interrupt(), has been interrupted.  init() is assumed to end,   *)
(* except that of SlowInit.                                                *)
(***************************************************************************)
InterruptedReturns(w, i) ==
  i \in interrupted \cap Interruptible /\ AnalyzeReturns(w, i)

Fairness ==
  /\ WF_vars(Live(MainStep)) /\ WF_vars(Live(PoolCallerStep))
  /\ SF_vars(Live(Deadline))
  /\ \A w \in Workers :
       /\ WF_vars(Live(RunStep(w))) /\ WF_vars(Live(PoolWorkerStep(w)))
       /\ \A i \in Techniques : WF_vars(Live(InterruptedReturns(w, i)))

FairSpec == Spec /\ Fairness

-----------------------------------------------------------------------------
(* Properties *)

\* The type of every variable.
TypeOK ==
  /\ PoolTypeOK
  /\ conclusive_found \in BOOLEAN /\ stop_early \in BOOLEAN
  /\ cancelled \subseteq Ranking /\ interrupted \subseteq Techniques
  /\ all_results \in Seq(Techniques)
  /\ final_result \in Techniques \cup {None}
  /\ answer \in [Techniques -> Answers]
  /\ tpc \in [Techniques -> TechniquePC]
  /\ cursor \in [Techniques \cup {None} -> 1..(N + 1)]
  /\ mpc \in MainPC /\ timed_out \in BOOLEAN
  /\ report \in [overall : Answers \cup {"none"},
                 winner  : Techniques \cup {None},
                 results : Seq(Techniques)]

Stored == RangeOf(all_results)

Deciding == {"decide", "killing", "reset", "returned"}

\* When join() decides, the elected technique has stored its proof: the flag
\* conclusive_found_ (set first) and final_result_ (set last, after every
\* cancel()) agree, because no worker is left inside runTechnique.
WinnerIsStored ==
  mpc \in Deciding =>
    (conclusive_found <=> final_result # None)

\* The report is the answer of a technique that is in all_results_, and it is
\* UNKNOWN only when no stored answer is conclusive: neither the timeout nor
\* the cancellation of the losers loses or invents a verdict.
ReportIsRight ==
  mpc = "returned" =>
    IF report.overall = "UNKNOWN"
    THEN \A i \in Stored : answer[i] = "UNKNOWN"
    ELSE report.winner \in Stored /\ answer[report.winner] = report.overall

\* UNKNOWN without a timeout means that every technique ran to its end: none
\* was skipped by a test of stop_early_, none had its solver interrupted.
UnknownIsHonest ==
  mpc = "returned" /\ report.overall = "UNKNOWN" /\ ~timed_out =>
    /\ \A i \in Techniques : tpc[i] = "over"
    /\ ~stop_early /\ interrupted = {}

\* A cancellation is not lost to init(), which clears cancelled_: once a cancel
\* pass has ended, every other technique inside analyze() has its flag set and
\* its solver interrupted.
Passed(a) == cursor[a] > N

NoLostCancel ==
  \A a \in Techniques \cup {None}, i \in Techniques :
    Passed(a) /\ i # a /\ tpc[i] = "analyze" =>
      i \in interrupted /\ (i \in Ranking => i \in cancelled)

\* The first conclusive answer wins for good (portfolio_orchestrator.cpp:84):
\* final_result_ is written once, by the technique that set conclusive_found_.
FirstAnswerWins ==
  [][ /\ conclusive_found => conclusive_found'
      /\ final_result # None => final_result' = final_result
      /\ final_result' # final_result => conclusive_found ]_vars

\* solve() and join() implement the abstract election of PortfolioVerdict.
Elected == {i \in Techniques :
              tpc[i] \in {"stop", "cancel", "final"} \/ final_result = i}

Given == [i \in Techniques |->
            IF tpc[i] = "store" \/ i \in Stored THEN answer[i] ELSE "none"]

\* the member of a set that has one at most
TheOf(S) == IF S = {} THEN None ELSE CHOOSE i \in S : TRUE

Promise == INSTANCE PortfolioVerdict WITH
  Verdicts <- Conclusive, Unknown <- "UNKNOWN", NoAnswer <- "none",
  NoWinner <- None,
  given <- Given, elected <- TheOf(Elected), verdict <- report.overall

ImplementsPromise == Promise!ASpec

\* join() returns once a time limit is set, provided every solver can be
\* interrupted: the timeout wakes it, the cancellations end the techniques, and
\* the second waitAll() ends.  The excuses are a terminated process, and
\* workers that left with a technique still queued.
JoinReturnsUnlessAbandoned ==
  mpc = "waiting" ~> (mpc \in {"returned", "aborted"} \/ Abandoned)

\* portfolio_orchestrator.h:64, "Block until all techniques finish or the time
\* limit is reached": join() with a time limit returns.
JoinReturns == mpc = "waiting" ~> mpc \in {"returned", "aborted"}

\* portfolio_orchestrator.cpp:174, "result found: kill threads immediately (don't wait
\* for init())": once the result is in final_result_, join() comes to killAll, however
\* long an init() takes.
ResultKillsThreads ==
  final_result # None ~> (killed \/ mpc = "aborted" \/ Abandoned)

\* portfolio_orchestrator.h:47, join(t) "retourne le premier résultat conclusif trouvé,
\* ou UNKNOWN si timeout ou aucun résultat": a result that has been found is not lost
\* because the init() of another technique throws.
ResultSurvives == mpc = "aborted" => final_result = None

\* portfolio_orchestrator.cpp:139, "Build the pool lazily so its lifetime
\* matches the solve/join pair": no worker uses the pool after join().
PoolOutlivesWorkers == NoUseAfterDestroy

-----------------------------------------------------------------------------
(* The inductive strengthening used by PortfolioProofs *)

\* the stages of the technique that won the compare-exchange
Winning == {i \in Techniques : tpc[i] \in {"stop", "cancel", "final"}}

\* tasks are submitted in index order, all of them before join() begins; a task
\* that returned belongs to a technique that is over, and a technique moves only
\* once its task has been taken
TasksInOrder ==
  /\ Len(submitted) <= N
  /\ \A k \in 1..Len(submitted) : submitted[k] = k
  /\ mpc \notin {"solve", "aborted"} => Len(submitted) = N
  /\ \A i \in finished : tpc[i] = "over"
  /\ \A i \in Techniques : tpc[i] # "idle" => i \in RangeOf(started)

\* where the main thread is in join() says what the pool has been asked
JoinFollowsPool ==
  /\ killed => mpc \in {"killing", "reset", "returned"}
  /\ mpc \in {"expired", "cancelling", "decide"} => caller = "idle"
  /\ mpc \in {"waiting", "drain"} => caller \in {"check", "blocked", "idle"}
  /\ mpc \in {"waiting", "drain"} /\ caller = "idle" /\ waitResult => pending = 0
  /\ mpc = "drain" => ~timed /\ (caller = "idle" => waitResult)
  /\ mpc \in {"expired", "cancelling", "drain"} => timed_out
  /\ mpc \in {"solve", "waiting"} => ~timed_out

\* join() decides when every technique is over
DecidedWhenOver ==
  mpc \in Deciding =>
    /\ tasks = <<>> /\ InTask = {}
    /\ \A i \in Techniques : tpc[i] = "over"

\* one technique at most is between the compare-exchange and final_result_
WinnerUnique ==
  /\ \A i, j \in Winning : i = j
  /\ conclusive_found <=> (final_result # None \/ Winning # {})
  /\ final_result # None =>
       /\ Winning = {} /\ final_result \in Stored
       /\ answer[final_result] \in Conclusive

\* a proof is stored after the analysis, and a conclusive one is on its way to
\* the compare-exchange or has gone through it
StoredAnswers ==
  /\ \A i \in Techniques :
       tpc[i] \in {"cas", "stop", "cancel", "final"} =>
         answer[i] \in Conclusive /\ i \in Stored
  /\ \A i \in Stored :
       /\ tpc[i] \in {"cas", "stop", "cancel", "final", "ret", "over"}
       /\ answer[i] = "UNKNOWN" \/ tpc[i] = "cas" \/ conclusive_found

\* cancellations come after stop_early_, which has a cause
CancelAfterStop ==
  /\ stop_early => conclusive_found \/ timed_out
  /\ interrupted # {} => stop_early
  /\ \A a \in Techniques \cup {None} : cursor[a] > 1 => stop_early
  /\ \A i \in Techniques : tpc[i] \in {"cancel", "final"} => stop_early
  /\ mpc \in {"cancelling", "drain"} => stop_early
  /\ \A a \in Techniques \cup {None}, j \in Techniques :
       j < cursor[a] /\ j # a =>
         /\ j \in interrupted
         /\ tpc[j] = "analyze" /\ j \in Ranking => j \in cancelled

\* the report is built once, from the state join() decided on
ReportBuilt ==
  /\ mpc # "returned" => report.overall = "none"
  /\ mpc = "returned" =>
       /\ report.overall = IF final_result = None THEN "UNKNOWN"
                           ELSE answer[final_result]
       /\ report.winner = final_result

\* Every reachable state of solve() and join() satisfies the conjunction.
PortfolioInv ==
  /\ PoolInv /\ TypeOK /\ TasksInOrder /\ JoinFollowsPool /\ DecidedWhenOver
  /\ WinnerUnique /\ StoredAnswers /\ CancelAfterStop /\ ReportBuilt
=============================================================================
