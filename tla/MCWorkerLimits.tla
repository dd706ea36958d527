--------------------------- MODULE MCWorkerLimits ---------------------------
(* WorkerLimits on small instances. *)
EXTENDS WorkerLimits, TLC

=============================================================================
