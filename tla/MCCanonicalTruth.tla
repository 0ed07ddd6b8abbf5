-------------------------- MODULE MCCanonicalTruth --------------------------
(***************************************************************************)
(* Two threads.  In truth, two values of one graph slot that conflict, one *)
(* of them expired, an identity value without a source, one flagged as an  *)
(* assignment, and an identity value in the assistant's own word; in       *)
(* truth_answers, two identity values.                                     *)
(***************************************************************************)
EXTENDS CanonicalTruth, FiniteSets, TLC

CONSTANTS c1, c2, g1, g2, own, flagged

Said(shelf, slot) ==
  [valued |-> TRUE, speaker |-> "user", authority |-> "user_explicit_assertion",
   slot |-> slot, shelf |-> shelf, assignment |-> FALSE]

MCProposalOf == [c \in Claims |->
  CASE c \in {c1, c2} -> Said("profile", "identity")
    [] c \in {g1, g2} -> Said("graph", "project")
    [] c = flagged -> [Said("profile", "identity") EXCEPT !.assignment = TRUE]
    [] OTHER -> [Said("profile", "identity") EXCEPT !.speaker = "assistant"]]
MCValueOf == [c \in Claims |-> IF c \in {c1, g1} THEN 1 ELSE 2]
\* A claim that makes no event is reconciled by itself, and next to one event
\* at most: its commits are the neighbour's, which come at any time anyway.
MCUnsourced ==
  /\ \A t, u \in Threads :
       writer[t].claim \in Claims \ Sourced /\ t # u => writer[u].at = "idle"
  /\ c1 \in conn.receipts \cup Writing => Cardinality(OnRecord) <= 1
Symmetric == Permutations(Threads)
=============================================================================
