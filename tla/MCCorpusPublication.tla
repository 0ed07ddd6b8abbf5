------------------------ MODULE MCCorpusPublication ------------------------
(* Small instances of CorpusPublication for TLC. *)
EXTENDS CorpusPublication, TLC

CONSTANTS v1, v2, guide, notes

\* Each document is of a principal of its own.
MCOwnScopes == [d \in Docs |-> d]

\* The guide is everybody's.
MCSharedGuide == [d \in Docs |-> IF d = guide THEN Unscoped ELSE d]

MCSymmetry == Permutations({v1, v2}) \cup Permutations({guide, notes})
=============================================================================
