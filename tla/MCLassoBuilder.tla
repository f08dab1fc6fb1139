---------------------------- MODULE MCLassoBuilder ----------------------------
(* LassoBuilder with the calls, for a few lines over one variable. *)
EXTENDS LassoCalls

Reading(linearize, nstem, nloop, disjuncts, shared, partial) ==
  [linearize |-> linearize, stem |-> nstem, loop |-> nloop, disjuncts |-> disjuncts,
   shared |-> shared, partial |-> partial, mayFail |-> FALSE]

\* What the polyhedra techniques are given, and what the fixpoint technique is.
mcReadings == {Reading(TRUE, 1, 3, 2, "one line", "one line"),
               Reading(FALSE, 2, 2, 1, "none", "one line")}

\* One line in each part; a loop of two or three lines.
mcOneLine == {Reading(FALSE, 1, 1, 1, "none", "none")}
mcTwoLines == {Reading(TRUE, 0, 2, 1, "none", "none")}
mcThreeLines == {Reading(TRUE, 0, 3, 1, "none", "none")}
=============================================================================
