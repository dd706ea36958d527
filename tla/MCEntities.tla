----------------------------- MODULE MCEntities -----------------------------
(***************************************************************************)
(* An instance of Entities for TLC.                                        *)
(***************************************************************************)
EXTENDS Entities, TLC

CONSTANTS tu, TU, hu

\* Two spellings of the text that a validation gave, one of the raw text.
MCLower == tu :> "first" @@ TU :> "first" @@ hu :> "raw"

\* Requests of one kind are interchangeable, and so are entities: sound for
\* safety runs.
Symmetry == Permutations(Entities) \cup Permutations(Tasks)
=============================================================================
