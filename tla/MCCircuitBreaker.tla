-------------------------- MODULE MCCircuitBreaker --------------------------
(***************************************************************************)
(* Instances of CircuitBreaker for TLC.                                    *)
(***************************************************************************)
EXTENDS CircuitBreaker, TLC

\* The callers are interchangeable: sound for the safety runs.
Symmetry == Permutations(Callers)
=============================================================================
