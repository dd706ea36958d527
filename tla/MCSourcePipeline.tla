-------------------------- MODULE MCSourcePipeline --------------------------
(***************************************************************************)
(* Instances of SourcePipeline for TLC.                                    *)
(***************************************************************************)
EXTENDS SourcePipeline, TLC

\* Jobs, workers and prompts are interchangeable: sound for safety runs.
Symmetry ==
  Permutations(Jobs) \cup Permutations(Workers) \cup Permutations(Prompts)

\* Where symmetry cannot be used: jobs are numbers, given out in order.
InOrder ==
  \A i, j \in Jobs :
    (i < j /\ phase[j] = "absent" /\ phase'[j] # "absent") => phase[i] # "absent"
=============================================================================
