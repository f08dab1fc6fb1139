--------------------------- MODULE MCSolverSession ---------------------------
(* SolverSession with two formulas, for each of the two backends. *)
EXTENDS SolverSession
=============================================================================
