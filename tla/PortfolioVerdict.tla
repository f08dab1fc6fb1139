--------------------------- MODULE PortfolioVerdict ---------------------------
(***************************************************************************)
(* What solve() and join() promise together                                *)
(* (include/portfolio_orchestrator.h:45-48): techniques answer in any      *)
(* order, at most one of the conclusive answers is elected, the report is  *)
(* the elected answer, and it is UNKNOWN only when no technique has given  *)
(* a conclusive one.  Nothing changes once the report is returned.         *)
(* Unknown, NoAnswer and NoWinner are values apart from the others.        *)
(***************************************************************************)
CONSTANTS Techniques,  \* the registered techniques
          Verdicts,    \* the conclusive answers
          Unknown,     \* the answer of a technique that proves nothing
          NoAnswer,    \* a technique that has not answered; no report yet
          NoWinner     \* no answer has been elected

VARIABLES given,    \* what each technique answered
          elected,  \* the technique whose answer was elected
          verdict   \* the overall result of the report

avars == <<given, elected, verdict>>

AInit ==
  /\ given = [i \in Techniques |-> NoAnswer]
  /\ elected = NoWinner
  /\ verdict = NoAnswer

Give(i, a) ==
  /\ verdict = NoAnswer /\ given[i] = NoAnswer
  /\ given' = [given EXCEPT ![i] = a]
  /\ UNCHANGED <<elected, verdict>>

Elect(i) ==
  /\ verdict = NoAnswer /\ elected = NoWinner
  /\ given[i] \in Verdicts
  /\ elected' = i
  /\ UNCHANGED <<given, verdict>>

Report ==
  /\ verdict = NoAnswer
  /\ \/ elected # NoWinner /\ verdict' = given[elected]
     \/ /\ \A i \in Techniques : given[i] \notin Verdicts
        /\ verdict' = Unknown
  /\ UNCHANGED <<given, elected>>

ANext ==
  \/ \E i \in Techniques :
       Elect(i) \/ \E a \in Verdicts \cup {Unknown} : Give(i, a)
  \/ Report

ASpec == AInit /\ [][ANext]_avars
=============================================================================
