------------------------------ MODULE Arguments ------------------------------
(***************************************************************************)
(* A termination technique and a non-termination technique on the same     *)
(* lasso, as the portfolio runs them, and the program the lasso stands for. *)
(***************************************************************************)
EXTENDS RankingTechnique, GeometricTechnique

argumentVars == <<lasso, runVars, techVars, geoVars>>

ArgumentsInit == RankingInit /\ GeoInit

\* The techniques have a lasso and a solver each and share no variable: every
\* interleaving of theirs ends as running one after the other does.  Neither does the
\* run of the program need the second, so that a behaviour has one of the two.
Ranking == TechNext /\ UNCHANGED geoVars

Geometric == /\ rpc \in {"done", "thrown"} /\ at = "entry"
             /\ GeoNext
             /\ UNCHANGED <<runVars, techVars>>

Run == /\ gpc = "created"
       /\ RunNext
       /\ UNCHANGED geoVars

ArgumentsNext == Ranking \/ Geometric \/ Run

ArgumentsSpec == ArgumentsInit /\ [][ArgumentsNext]_argumentVars /\ WF_argumentVars(Run)

\* Both techniques may answer, and the portfolio keeps whichever comes first: they
\* never disagree about a lasso.
NoContradiction == ~(result = "TERMINATING" /\ gresult = "NON_TERMINATING")
=============================================================================
