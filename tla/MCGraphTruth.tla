---------------------------- MODULE MCGraphTruth ----------------------------
(* Small instances of GraphTruth for TLC. *)
EXTENDS GraphTruth, TLC

CONSTANTS turn, tier2, User, Owner, red, Red, green, n1, n2

\* red and Red are one text up to case.
MCFolded == [v \in Values |-> IF v \in {red, Red} THEN "red" ELSE v]

\* The one pair of values that differ in their numbers.
MCExactUpdate == {<<n1, n2>>, <<n2, n1>>} \cap (Values \X Values)

\* Rows that a run with two writers follows: three states and a conflict, or
\* two of each.
MCRows == Len(states) + Len(conflicts) <= 4

\* The two numbers may be exchanged: no definition tells them apart.
MCSymmetry == Permutations({n1, n2})

\* So may the writers, the names and the two spellings where all the names
\* may be aliases.
MCSymmetric ==
  Permutations({turn, tier2}) \cup Permutations({User, Owner}) \cup Permutations({red, Red})
=============================================================================
