----------------------------- MODULE MCPortfolio -----------------------------
(* Portfolio on up to three techniques; 0 is no technique. *)
EXTENDS Portfolio
=============================================================================
