---------------------------- MODULE MCPromptEngine ----------------------------
(***************************************************************************)
(* An instance of PromptEngine for TLC.                                    *)
(***************************************************************************)
EXTENDS PromptEngine, TLC

CONSTANTS p, q, o, c

\* The file of c defines one of the prompts, and no job needs the others.
MCFile == c :> {p}
OtherSymmetry == Permutations({q, o})
=============================================================================
