---------------------------- MODULE TruthHistory ----------------------------
(***************************************************************************)
(* What the shelf of graph truth is to its readers: a history of           *)
(* statements that only grows.  A statement enters as live truth; it stops *)
(* being live in the step that enters its successor, and the link between  *)
(* the two stays.  A statement that is history already may be given one    *)
(* more successor.                                                         *)
(***************************************************************************)
EXTENDS Naturals, Sequences

CONSTANT Statements   \* what a state can say, and in which scope

VARIABLES
  said,        \* all statements, in the order they were made
  live,        \* the positions of those that are current truth
  successor    \* pairs of positions: a statement, and one that replaced it

vars == <<said, live, successor>>

Init == said = <<>> /\ live = {} /\ successor = {}

Position == Len(said) + 1

Say(new) ==
  /\ said' = Append(said, new)
  /\ live' = live \cup {Position}
  /\ UNCHANGED successor

Replace(i, new) ==
  /\ said' = Append(said, new)
  /\ live' = (live \ {i}) \cup {Position}
  /\ successor' = successor \cup {<<i, Position>>}

Next ==
  \E new \in Statements : Say(new) \/ \E i \in DOMAIN said : Replace(i, new)

Spec == Init /\ [][Next]_vars
=============================================================================
