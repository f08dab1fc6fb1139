---------------------------- MODULE SolverSession ----------------------------
(***************************************************************************)
(* One solver object of a technique: SMTSolverZ3 or SMTSolverCVC5          *)
(* (src/smtsolvers/), the wrapper's state and what it makes of its         *)
(* backend.  Two threads use it: the technique's own, which pushes, pops,  *)
(* asserts, resets and checks, and any other, which may call interrupt()   *)
(* at any time.  The backend (z3::solver, cvc5::Solver) is external: a     *)
(* stack of assertions, a search that takes any time, and exceptions.      *)
(*                                                                         *)
(* m_interrupted of SMTSolverZ3 is a plain bool written by both threads:   *)
(* the writes only ever store true and each test is a load of its own      *)
(* (opaque calls in between), so a read returns the last value stored.     *)
(***************************************************************************)
EXTENDS Integers, Sequences

CONSTANTS Backends,    \* "Z3", "CVC5": the wrappers an object may be
          Assertions,  \* the formulas a technique may assert
          MaxAsked,    \* bound of SessionNext: assertions on the stack
          MaxLevels    \* bound of SessionNext: nested pushes

ASSUME BackendsAssumption == Backends \subseteq {"Z3", "CVC5"}

VARIABLES
  Backend,           \* the wrapper that was chosen, for good
  m_interrupted,     \* the wrapper's flag
  m_assertion_count, \* the wrapper's counter
  m_assertion_stack, \* its values at each push
  content,           \* what the backend holds, in order
  levels,            \* the backend's push levels: lengths of content
  asked,             \* history: what the technique asserted since reset()
  askedLevels,       \* history: its push levels
  checking,          \* checkSat: no, entering (the flag was read), solving
  sat,               \* what the last checkSat returned
  stopping,          \* the running search was told to stop
  intr               \* interrupt(): none, flagged (half way), sent

sessionVars == <<Backend, m_interrupted, m_assertion_count, m_assertion_stack, content, levels,
                 asked, askedLevels, checking, sat, stopping, intr>>

wrapper == <<m_assertion_count, m_assertion_stack>>
backend == <<content, levels>>
history == <<asked, askedLevels>>

\* a new object, and the backend it creates
SessionInit ==
  /\ Backend \in Backends
  /\ m_interrupted = FALSE /\ m_assertion_count = 0 /\ m_assertion_stack = <<>>
  /\ content = <<>> /\ levels = <<>> /\ asked = <<>> /\ askedLevels = <<>>
  /\ checking = "no" /\ sat = FALSE /\ stopping = FALSE /\ intr = "none"

\* the early return of SMTSolverZ3's methods
Ignored == Backend = "Z3" /\ m_interrupted

LastOf(s)  == s[Len(s)]
FrontOf(s) == SubSeq(s, 1, Len(s) - 1)

-----------------------------------------------------------------------------
(* The technique's thread.  A call that throws out of the wrapper leaves it *)
(* unchanged and has no action here: its caller's error path is modelled    *)
(* where the caller is.                                                     *)

\* Seeded faults: an operator named X_Y is a plausible wrong version of the
\* action X that follows it; no specification uses it.

\* It counts the level although the backend's push failed.
Push_CountedFirst ==
  /\ checking = "no"
  /\ askedLevels' = Append(askedLevels, Len(asked))
  /\ \/ Ignored /\ UNCHANGED <<m_interrupted, m_assertion_stack, levels>>
     \/ /\ ~Ignored
        /\ m_assertion_stack' = Append(m_assertion_stack, m_assertion_count)
        /\ \/ /\ levels' = Append(levels, Len(content))
              /\ UNCHANGED m_interrupted
           \/ Backend = "Z3" /\ m_interrupted' = TRUE /\ UNCHANGED levels
  /\ UNCHANGED <<Backend, m_assertion_count, content, asked, checking, sat, stopping, intr>>

\* push(): SMTSolverZ3 turns an exception of the backend into m_interrupted
Push ==
  /\ checking = "no"
  /\ askedLevels' = Append(askedLevels, Len(asked))
  /\ \/ Ignored /\ UNCHANGED <<m_interrupted, m_assertion_stack, levels>>
     \/ /\ ~Ignored
        /\ levels' = Append(levels, Len(content))
        /\ m_assertion_stack' = Append(m_assertion_stack, m_assertion_count)
        /\ UNCHANGED m_interrupted
     \/ /\ Backend = "Z3" /\ ~Ignored
        /\ m_interrupted' = TRUE
        /\ UNCHANGED <<m_assertion_stack, levels>>
  /\ UNCHANGED <<Backend, m_assertion_count, content, asked, checking, sat, stopping, intr>>

\* pop() of a level that push() opened
Pop ==
  /\ checking = "no" /\ askedLevels # <<>>
  /\ asked' = SubSeq(asked, 1, LastOf(askedLevels)) /\ askedLevels' = FrontOf(askedLevels)
  /\ \/ Ignored /\ UNCHANGED <<m_interrupted, wrapper, backend>>
     \/ /\ ~Ignored /\ m_assertion_stack # <<>>
        /\ content' = SubSeq(content, 1, LastOf(levels)) /\ levels' = FrontOf(levels)
        /\ m_assertion_count' = LastOf(m_assertion_stack)
        /\ m_assertion_stack' = FrontOf(m_assertion_stack)
        /\ UNCHANGED m_interrupted
     \/ /\ Backend = "Z3" /\ ~Ignored /\ m_assertion_stack # <<>>
        /\ m_interrupted' = TRUE
        /\ UNCHANGED <<wrapper, backend>>
  /\ UNCHANGED <<Backend, checking, sat, stopping, intr>>

\* It drops an assertion the backend refused, and says nothing.
AddAssertion_Silent(a) ==
  /\ checking = "no"
  /\ asked' = Append(asked, a)
  /\ \/ /\ ~Ignored
        /\ content' = Append(content, a)
        /\ m_assertion_count' = m_assertion_count + 1
     \/ Backend = "Z3" /\ UNCHANGED <<content, m_assertion_count>>
  /\ UNCHANGED <<Backend, m_interrupted, m_assertion_stack, levels, askedLevels, checking, sat,
                 stopping, intr>>

\* addAssertion(a): SMTSolverZ3 turns a refused assertion (a sort that does not
\* match, a stopped backend) into m_interrupted; SMTSolverCVC5 throws
AddAssertion(a) ==
  /\ checking = "no"
  /\ asked' = Append(asked, a)
  /\ \/ Ignored /\ UNCHANGED <<m_interrupted, content, m_assertion_count>>
     \/ /\ ~Ignored
        /\ content' = Append(content, a)
        /\ m_assertion_count' = m_assertion_count + 1
        /\ UNCHANGED m_interrupted
     \/ /\ Backend = "Z3" /\ ~Ignored
        /\ m_interrupted' = TRUE
        /\ UNCHANGED <<content, m_assertion_count>>
  /\ UNCHANGED <<Backend, m_assertion_stack, levels, askedLevels, checking, sat, stopping,
                 intr>>

\* It clears the flag with the rest.
Reset_Flag ==
  /\ checking = "no"
  /\ m_interrupted' = FALSE
  /\ content' = <<>> /\ levels' = <<>> /\ asked' = <<>> /\ askedLevels' = <<>>
  /\ m_assertion_count' = 0 /\ m_assertion_stack' = <<>>
  /\ UNCHANGED <<Backend, checking, sat, stopping, intr>>

\* reset() clears everything but m_interrupted
Reset ==
  /\ checking = "no"
  /\ content' = <<>> /\ levels' = <<>> /\ asked' = <<>> /\ askedLevels' = <<>>
  /\ m_assertion_count' = 0 /\ m_assertion_stack' = <<>>
  /\ UNCHANGED <<Backend, m_interrupted, checking, sat, stopping, intr>>

\* checkSat() reads the flag
CheckIgnored ==
  /\ checking = "no" /\ m_interrupted
  /\ sat' = FALSE
  /\ UNCHANGED <<Backend, m_interrupted, wrapper, backend, history, checking, stopping, intr>>

CheckEnter ==
  /\ checking = "no" /\ ~m_interrupted
  /\ checking' = "entering"
  /\ UNCHANGED <<Backend, m_interrupted, wrapper, backend, history, sat, stopping, intr>>

\* and calls the backend
CheckStart ==
  /\ checking = "entering"
  /\ checking' = "solving"
  /\ UNCHANGED <<Backend, m_interrupted, wrapper, backend, history, sat, stopping, intr>>

\* which answers; unsat and unknown are the same to the technique
CheckAnswers ==
  /\ checking = "solving"
  /\ sat' \in BOOLEAN
  /\ checking' = "no" /\ stopping' = FALSE
  /\ UNCHANGED <<Backend, m_interrupted, wrapper, backend, history, intr>>

\* It tries again.
CheckStopped_Retries ==
  /\ checking = "solving" /\ stopping
  /\ checking' = "entering" /\ stopping' = FALSE
  /\ UNCHANGED <<Backend, m_interrupted, wrapper, backend, history, sat, intr>>

\* or is stopped: SMTSolverZ3 catches the exception, or gets unknown
CheckStopped ==
  /\ checking = "solving" /\ stopping
  /\ sat' = FALSE
  /\ checking' = "no" /\ stopping' = FALSE
  /\ UNCHANGED <<Backend, m_interrupted, wrapper, backend, history, intr>>

-----------------------------------------------------------------------------
(* interrupt(), on another thread *)

\* It leaves the flag to the searching thread.
InterruptFlag_NoStore ==
  /\ intr \in {"none", "sent"}
  /\ intr' = IF Backend = "Z3" THEN "flagged" ELSE "sent"
  /\ UNCHANGED <<Backend, m_interrupted, wrapper, backend, history, checking, sat, stopping>>

\* interrupt() stores the flag
InterruptFlag ==
  /\ intr \in {"none", "sent"}
  /\ m_interrupted' = TRUE
  /\ intr' = IF Backend = "Z3" THEN "flagged" ELSE "sent"
  /\ UNCHANGED <<Backend, wrapper, backend, history, checking, sat, stopping>>

\* m_context.interrupt(): a search that runs is told to stop; whether one that
\* has not begun will be is the library's affair
InterruptBackend ==
  /\ intr = "flagged"
  /\ intr' = "sent"
  /\ stopping' \in IF stopping \/ checking = "solving" THEN {TRUE} ELSE BOOLEAN
  /\ UNCHANGED <<Backend, m_interrupted, wrapper, backend, history, checking, sat>>

-----------------------------------------------------------------------------
(* Any legal use: pops match pushes.  MaxAsked and MaxLevels bound it.      *)

CheckStep == CheckIgnored \/ CheckEnter \/ CheckStart \/ CheckAnswers \/ CheckStopped

SessionNext ==
  \/ Len(askedLevels) < MaxLevels /\ Push
  \/ Len(asked) < MaxAsked /\ \E a \in Assertions : AddAssertion(a)
  \/ Pop \/ Reset \/ CheckStep
  \/ InterruptFlag \/ InterruptBackend

SessionSpec == SessionInit /\ [][SessionNext]_sessionVars

\* A thread inside checkSat or interrupt runs; a search need not end, except
\* that one that was told to stop does.
SessionFairness ==
  WF_sessionVars(CheckStart) /\ WF_sessionVars(CheckStopped) /\ WF_sessionVars(InterruptBackend)

FairSessionSpec == SessionSpec /\ SessionFairness

-----------------------------------------------------------------------------
(* Properties *)

\* The type of every variable.
SessionTypeOK ==
  /\ Backend \in Backends
  /\ m_interrupted \in BOOLEAN /\ sat \in BOOLEAN /\ stopping \in BOOLEAN
  /\ m_assertion_count \in Nat /\ m_assertion_stack \in Seq(Nat)
  /\ content \in Seq(Assertions) /\ levels \in Seq(Nat)
  /\ asked \in Seq(Assertions) /\ askedLevels \in Seq(Nat)
  /\ checking \in {"no", "entering", "solving"}
  /\ intr \in {"none", "flagged", "sent"}

\* A search never runs on part of what was asserted: whatever was refused or
\* ignored since reset(), a check that calls the backend sees every assertion
\* and every level the technique asked for, so "sat" is about all of them.
SearchSeesAll == checking # "no" => content = asked /\ levels = askedLevels

\* The wrapper's counters follow the backend through failed pushes and pops.
CountersMatch == m_assertion_stack = levels /\ m_assertion_count = Len(content)

\* No search begins once interrupt() has stored the flag: neither reset() nor a
\* later check brings the solver back to life.
NoSearchAfterInterrupt ==
  [][checking = "no" /\ checking' = "entering" => intr = "none"]_sessionVars

\* A search that was told to stop returns to the technique, which is not sent
\* into another one.
StoppedSearchEnds == stopping ~> checking = "no"

\* The lengths at which levels were opened grow, up to the length there is now.
Nested(opened, s) ==
  /\ \A i \in DOMAIN opened : opened[i] <= Len(s)
  /\ \A i, j \in DOMAIN opened : i <= j => opened[i] <= opened[j]

\* The inductive strengthening: what the backend holds is what was asked for
\* until the wrapper starts to ignore calls, and levels are nested.
SessionInv ==
  /\ SessionTypeOK /\ CountersMatch /\ SearchSeesAll
  /\ ~Ignored => content = asked /\ levels = askedLevels
  /\ intr # "none" => m_interrupted
  /\ Nested(levels, content) /\ Nested(askedLevels, asked)
=============================================================================
