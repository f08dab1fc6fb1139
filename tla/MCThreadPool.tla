---------------------------- MODULE MCThreadPool ----------------------------
(* ThreadPool on small sets of workers and tasks. *)
EXTENDS ThreadPool
=============================================================================
