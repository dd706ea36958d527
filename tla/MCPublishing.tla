---------------------------- MODULE MCPublishing ----------------------------
(***************************************************************************)
(* Instances of Publishing for TLC.                                    *)
(***************************************************************************)
EXTENDS Publishing, TLC

\* All of them are interchangeable: sound for safety runs.
Symmetry == Permutations(Sources) \cup Permutations(Tasks) \cup Permutations(Jobs)
=============================================================================
