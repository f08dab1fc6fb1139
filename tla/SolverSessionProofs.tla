------------------------- MODULE SolverSessionProofs -------------------------
(***************************************************************************)
(* Theorems about SolverSession: for any set of formulas and any number of *)
(* them, with any nesting of levels, a search is about all that was        *)
(* asserted, the wrapper's counters follow the backend, and no search      *)
(* begins after interrupt().                                               *)
(***************************************************************************)
EXTENDS SolverSession, TLAPS

-----------------------------------------------------------------------------
(* Nested levels *)

\* Opening a level keeps levels nested.
LEMMA NestedOpen ==
  ASSUME NEW S, NEW s \in Seq(S), NEW opened \in Seq(Nat), Nested(opened, s)
  PROVE  Nested(Append(opened, Len(s)), s)
<1> DEFINE more == Append(opened, Len(s))
<1>1. more \in Seq(Nat) /\ Len(more) = Len(opened) + 1
  BY SMT
<1>2. \A i \in DOMAIN more : more[i] = IF i \in DOMAIN opened THEN opened[i] ELSE Len(s)
  BY SMT
<1>3. \A i \in DOMAIN more : more[i] <= Len(s)
  BY <1>2, SMT DEF Nested
<1>4. \A i, j \in DOMAIN more : i <= j => more[i] <= more[j]
  BY <1>1, <1>2, <1>3, SMT DEF Nested
<1> QED BY <1>3, <1>4 DEF Nested

\* So does an assertion.
LEMMA NestedAssert ==
  ASSUME NEW S, NEW s \in Seq(S), NEW a \in S, NEW opened \in Seq(Nat), Nested(opened, s)
  PROVE  Nested(opened, Append(s, a))
BY SMT DEF Nested

\* Closing the last level takes the sequence back to the length it had, which
\* the levels that are left do not exceed.
LEMMA NestedClose ==
  ASSUME NEW S, NEW s \in Seq(S), NEW opened \in Seq(Nat), opened # <<>>, Nested(opened, s)
  PROVE  /\ SubSeq(s, 1, LastOf(opened)) \in Seq(S)
         /\ Len(SubSeq(s, 1, LastOf(opened))) = LastOf(opened)
         /\ FrontOf(opened) \in Seq(Nat)
         /\ Nested(FrontOf(opened), SubSeq(s, 1, LastOf(opened)))
<1> DEFINE n == Len(opened)  last == LastOf(opened)  left == FrontOf(opened)
<1>1. n \in Nat \ {0} /\ n \in DOMAIN opened
  BY SMT
<1>2. last \in Nat /\ last <= Len(s)
  BY <1>1, SMT DEF LastOf, Nested
<1>3. SubSeq(s, 1, last) \in Seq(S) /\ Len(SubSeq(s, 1, last)) = last
  BY <1>2, SMT
<1>4. /\ left \in Seq(Nat) /\ Len(left) = n - 1
      /\ \A i \in DOMAIN left : i \in DOMAIN opened /\ i <= n /\ left[i] = opened[i]
  <2>1. left = [i \in 1 .. n - 1 |-> opened[i]]
    BY <1>1, SMT DEF FrontOf
  <2>2. \A i \in 1 .. n - 1 : opened[i] \in Nat
    BY <1>1, SMT
  <2>3. left \in Seq(Nat) /\ Len(left) = n - 1
    BY <1>1, <2>1, <2>2, SMT
  <2> QED BY <1>1, <2>1, <2>3, SMT
<1>5. \A i \in DOMAIN left : left[i] <= last
  BY <1>1, <1>4, SMT DEF Nested, LastOf
<1>6. \A i, j \in DOMAIN left : i <= j => left[i] <= left[j]
  BY <1>4, SMT DEF Nested
<1> QED BY <1>3, <1>4, <1>5, <1>6 DEF Nested

\* No level and no assertion.
LEMMA NestedEmpty == ASSUME NEW s PROVE Nested(<<>>, s)
BY DEF Nested

-----------------------------------------------------------------------------
(* The inductive invariant *)

LEMMA SessionStart == SessionInit => SessionInv
<1> SUFFICES ASSUME SessionInit PROVE SessionInv
  OBVIOUS
<1>1. SessionTypeOK
  <2>1. content \in Seq(Assertions) /\ asked \in Seq(Assertions)
    BY SMT DEF SessionInit
  <2>2. m_assertion_stack \in Seq(Nat) /\ levels \in Seq(Nat) /\ askedLevels \in Seq(Nat)
    BY SMT DEF SessionInit
  <2>3. m_assertion_count \in Nat
    BY SMT DEF SessionInit
  <2> QED BY <2>1, <2>2, <2>3, Zenon DEF SessionInit, SessionTypeOK
<1>2. CountersMatch /\ SearchSeesAll
  BY DEF SessionInit, CountersMatch, SearchSeesAll
<1>3. Nested(levels, content) /\ Nested(askedLevels, asked)
  BY NestedEmpty DEF SessionInit
<1> QED BY <1>1, <1>2, <1>3 DEF SessionInit, SessionInv

LEMMA PushKeeps == SessionInv /\ Push => SessionInv'
<1> SUFFICES ASSUME SessionInv, Push PROVE SessionInv'
  OBVIOUS
<1> USE DEF SessionInv
<1>1. Nested(Append(askedLevels, Len(asked)), asked)
  BY NestedOpen DEF SessionTypeOK
<1>2. Nested(Append(levels, Len(content)), content)
  BY NestedOpen DEF SessionTypeOK
<1>3. SessionTypeOK'
  <2>1. /\ Append(askedLevels, Len(asked)) \in Seq(Nat)
        /\ Append(levels, Len(content)) \in Seq(Nat)
        /\ Append(m_assertion_stack, m_assertion_count) \in Seq(Nat)
    BY SMT DEF SessionTypeOK
  <2>2. askedLevels' \in Seq(Nat) /\ levels' \in Seq(Nat) /\ m_assertion_stack' \in Seq(Nat)
    BY <2>1, Zenon DEF SessionTypeOK, Push
  <2>3. m_interrupted' \in BOOLEAN
    BY Zenon DEF SessionTypeOK, Push
  <2> QED BY <2>2, <2>3, Zenon DEF SessionTypeOK, Push
<1>4. CountersMatch' /\ SearchSeesAll'
  BY DEF CountersMatch, SearchSeesAll, Push
<1>5. (~Ignored => content = asked /\ levels = askedLevels)'
  BY DEF Ignored, Push
<1>6. (intr # "none" => m_interrupted)'
  BY DEF Push
<1>7. Nested(levels, content)'
  BY <1>2 DEF Push
<1>8. Nested(askedLevels, asked)'
  BY <1>1 DEF Push
<1> QED BY <1>3, <1>4, <1>5, <1>6, <1>7, <1>8

LEMMA PopKeeps == SessionInv /\ Pop => SessionInv'
<1> SUFFICES ASSUME SessionInv, Pop PROVE SessionInv'
  OBVIOUS
<1> USE DEF SessionInv
<1>1. /\ asked' \in Seq(Assertions) /\ askedLevels' \in Seq(Nat)
      /\ Nested(askedLevels, asked)'
  BY NestedClose DEF SessionTypeOK, Pop
<1>2. CASE UNCHANGED <<m_interrupted, wrapper, backend>> /\ Ignored
  <2>1. m_interrupted /\ Ignored'
    BY <1>2 DEF Ignored, Pop
  <2> QED
    BY <1>1, <1>2, <2>1 DEF SessionTypeOK, CountersMatch, SearchSeesAll, wrapper, backend,
       Pop, Nested
<1>3. CASE /\ ~Ignored /\ m_assertion_stack # <<>>
           /\ content' = SubSeq(content, 1, LastOf(levels)) /\ levels' = FrontOf(levels)
           /\ m_assertion_count' = LastOf(m_assertion_stack)
           /\ m_assertion_stack' = FrontOf(m_assertion_stack)
           /\ UNCHANGED m_interrupted
  <2>1. levels # <<>> /\ m_assertion_stack = levels
    BY <1>3 DEF CountersMatch
  <2>2. /\ content' \in Seq(Assertions) /\ levels' \in Seq(Nat)
        /\ Len(content') = LastOf(levels)
        /\ Nested(levels, content)'
    BY <1>3, <2>1, NestedClose DEF SessionTypeOK
  <2>3. content' = asked' /\ levels' = askedLevels'
    BY <1>3 DEF Pop
  <2>4. CountersMatch' /\ SearchSeesAll'
    BY <1>3, <2>1, <2>2, <2>3 DEF CountersMatch, SearchSeesAll
  <2>5. m_assertion_count' \in Nat /\ m_assertion_stack' \in Seq(Nat)
    BY <2>2, <2>4 DEF CountersMatch
  <2> QED
    BY <1>1, <1>3, <2>2, <2>3, <2>4, <2>5 DEF SessionTypeOK, Pop
<1>4. CASE /\ Backend = "Z3" /\ ~Ignored /\ m_assertion_stack # <<>>
           /\ m_interrupted' = TRUE
           /\ UNCHANGED <<wrapper, backend>>
  <2>1. Ignored'
    BY <1>4 DEF Ignored, Pop
  <2> QED
    BY <1>1, <1>4, <2>1 DEF SessionTypeOK, CountersMatch, SearchSeesAll, wrapper, backend,
       Pop, Nested
<1> QED BY <1>2, <1>3, <1>4 DEF Pop

LEMMA AddAssertionKeeps ==
  ASSUME NEW a \in Assertions, SessionInv, AddAssertion(a)
  PROVE  SessionInv'
<1> USE DEF SessionInv
<1>1. asked' \in Seq(Assertions) /\ Nested(askedLevels, asked)'
  BY NestedAssert DEF SessionTypeOK, AddAssertion
<1>2. content' \in Seq(Assertions) /\ Nested(levels, content)'
  <2>1. Append(content, a) \in Seq(Assertions) /\ Nested(levels, Append(content, a))
    BY NestedAssert DEF SessionTypeOK
  <2>2. levels' = levels /\ content' \in {content, Append(content, a)}
    BY DEF AddAssertion
  <2> QED BY <2>1, <2>2 DEF SessionTypeOK
<1>3. SessionTypeOK'
  <2>1. m_assertion_count' \in Nat
    BY SMT DEF SessionTypeOK, AddAssertion
  <2>2. m_interrupted' \in BOOLEAN
    BY Zenon DEF SessionTypeOK, AddAssertion
  <2> QED BY <1>1, <1>2, <2>1, <2>2, Zenon DEF SessionTypeOK, AddAssertion
<1>4. CountersMatch' /\ SearchSeesAll'
  BY SMT DEF CountersMatch, SearchSeesAll, SessionTypeOK, AddAssertion
<1>5. (~Ignored => content = asked /\ levels = askedLevels)'
  BY DEF Ignored, AddAssertion
<1>6. (intr # "none" => m_interrupted)'
  BY DEF AddAssertion
<1> QED BY <1>1, <1>2, <1>3, <1>4, <1>5, <1>6

LEMMA ResetKeeps == SessionInv /\ Reset => SessionInv'
<1> SUFFICES ASSUME SessionInv, Reset PROVE SessionInv'
  OBVIOUS
<1>1. Nested(levels, content)' /\ Nested(askedLevels, asked)'
  BY NestedEmpty DEF Reset
<1> QED
  BY <1>1 DEF SessionInv, SessionTypeOK, CountersMatch, SearchSeesAll, Ignored, Reset

\* A check and an interrupt leave what is asserted alone.
LEMMA CheckKeeps == SessionInv /\ CheckStep => SessionInv'
<1> SUFFICES ASSUME SessionInv, CheckStep PROVE SessionInv'
  OBVIOUS
<1>1. UNCHANGED <<Backend, m_interrupted, wrapper, backend, history, intr>>
  BY DEF CheckStep, CheckIgnored, CheckEnter, CheckStart, CheckAnswers, CheckStopped
<1>2. /\ checking' \in {"no", "entering", "solving"}
      /\ checking' # "no" => checking # "no" \/ ~m_interrupted
  BY DEF CheckStep, CheckIgnored, CheckEnter, CheckStart, CheckAnswers, CheckStopped,
         SessionInv, SessionTypeOK
<1>3. sat' \in BOOLEAN /\ stopping' \in BOOLEAN
  BY DEF CheckStep, CheckIgnored, CheckEnter, CheckStart, CheckAnswers, CheckStopped,
         SessionInv, SessionTypeOK
<1>4. SearchSeesAll'
  BY <1>1, <1>2 DEF SearchSeesAll, SessionInv, Ignored, backend, history
<1> QED
  BY <1>1, <1>2, <1>3, <1>4 DEF SessionInv, SessionTypeOK, CountersMatch, Ignored, Nested,
     wrapper, backend, history

LEMMA InterruptKeeps == SessionInv /\ (InterruptFlag \/ InterruptBackend) => SessionInv'
<1> SUFFICES ASSUME SessionInv, InterruptFlag \/ InterruptBackend PROVE SessionInv'
  OBVIOUS
<1>1. UNCHANGED <<Backend, wrapper, backend, history, checking, sat>>
  BY DEF InterruptFlag, InterruptBackend
<1>2. m_interrupted' /\ intr' \in {"none", "flagged", "sent"}
  BY DEF InterruptFlag, InterruptBackend, SessionInv
<1>3. stopping' \in BOOLEAN /\ m_interrupted' \in BOOLEAN
  BY DEF InterruptFlag, InterruptBackend, SessionInv, SessionTypeOK
<1>4. (~Ignored => content = asked /\ levels = askedLevels)'
  BY <1>1, <1>2 DEF SessionInv, Ignored, backend, history
<1> QED
  BY <1>1, <1>2, <1>3, <1>4 DEF SessionInv, SessionTypeOK, CountersMatch, SearchSeesAll,
     Nested, wrapper, backend, history

LEMMA SessionStep == SessionInv /\ [SessionNext]_sessionVars => SessionInv'
<1> SUFFICES ASSUME SessionInv, [SessionNext]_sessionVars PROVE SessionInv'
  OBVIOUS
<1>1. CASE UNCHANGED sessionVars
  BY <1>1 DEF SessionInv, SessionTypeOK, CountersMatch, SearchSeesAll, Ignored, Nested,
     sessionVars
<1>2. CASE SessionNext
  BY <1>2, PushKeeps, PopKeeps, AddAssertionKeeps, ResetKeeps, CheckKeeps, InterruptKeeps
     DEF SessionNext
<1> QED BY <1>1, <1>2

-----------------------------------------------------------------------------
(* Theorems *)

\* The inductive invariant holds in every state, whatever backend calls fail and
\* whenever interrupt() comes.
THEOREM SessionInvariance == SessionSpec => []SessionInv
<1> QED BY SessionStart, SessionStep, PTL DEF SessionSpec

\* A search is about all that the technique asserted since reset(): checkSat()
\* never calls the backend after a call was refused or ignored.
THEOREM SearchesSeeAll == SessionSpec => []SearchSeesAll
<1>1. SessionInv => SearchSeesAll
  BY DEF SessionInv
<1> QED BY <1>1, SessionInvariance, PTL

\* m_assertion_stack and m_assertion_count follow the backend's levels.
THEOREM CountersFollow == SessionSpec => []CountersMatch
<1>1. SessionInv => CountersMatch
  BY DEF SessionInv
<1> QED BY <1>1, SessionInvariance, PTL

\* No checkSat() enters the backend after interrupt() has stored the flag.
THEOREM NothingAfterInterrupt == SessionSpec => NoSearchAfterInterrupt
<1>1. SessionInv /\ [SessionNext]_sessionVars
        => [checking = "no" /\ checking' = "entering" => intr = "none"]_sessionVars
  BY DEF SessionInv, SessionNext, Push, Pop, AddAssertion, Reset, CheckStep, CheckIgnored,
         CheckEnter, CheckStart, CheckAnswers, CheckStopped, InterruptFlag,
         InterruptBackend, sessionVars
<1> QED BY <1>1, SessionInvariance, PTL DEF SessionSpec, NoSearchAfterInterrupt
=============================================================================
