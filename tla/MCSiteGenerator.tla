-------------------------- MODULE MCSiteGenerator --------------------------
(***************************************************************************)
(* Instances of SiteGenerator for TLC.                                     *)
(***************************************************************************)
EXTENDS SiteGenerator, TLC

\* Sources and runs are interchangeable: sound for safety runs.
Symmetry == Permutations(Sources) \cup Permutations(Runs)
=============================================================================
