---------------------------- MODULE MCSourceSync ----------------------------
(***************************************************************************)
(* Two principals with a folder each under one source set, and syncs that  *)
(* name no principal; two paths and two versions, so that keys collide and *)
(* files come and go.                                                      *)
(***************************************************************************)
EXTENDS SourceSync, Naturals, TLC

Symmetric ==
  Permutations(Principals \ {Unscoped}) \cup Permutations(Files) \cup Permutations(Contents)

\* A bound: at most three documents on the shelf.
MCDocuments == Cardinality({k \in Keys : row[k].who # Nobody}) <= 3
=============================================================================
