---------------------------- MODULE MCThreadPool ----------------------------
(* ThreadPool on small instances: two or three workers, a few tasks.  The
   workers are model values; symmetry is not used, as the runs have fairness. *)
EXTENDS ThreadPool
=============================================================================
