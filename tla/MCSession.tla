------------------------------ MODULE MCSession ------------------------------
(* Session on small instances: two addresses, three connections. *)
EXTENDS Session

AllOutcomes == {"sent", "partial", "error"}
NoPartial == {"sent", "error"}
=============================================================================
