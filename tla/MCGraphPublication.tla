-------------------------- MODULE MCGraphPublication --------------------------
(***************************************************************************)
(* Two threads and three entities: subject and object, alias and target,   *)
(* and two publications of one entity meet, and a third entity has a       *)
(* relation that a merge rewrites.                                         *)
(***************************************************************************)
EXTENDS GraphPublication, TLC

Symmetric == Permutations(Threads) \cup Permutations(Entities)

\* Two entities are followed in all that may happen to them, and a third one
\* through a merge that changes it while the other thread rests: up to the
\* merge nothing has gone wrong, and after it there is nothing left to change.
MCThird ==
  \/ \E e \in Entities \ missed : conn[e] = 0
  \/ /\ raced = {} /\ \E t \in Threads : thread[t].at = "idle"
     /\ \/ missed = {} /\ \A e \in Entities : conn[e] = 1
        \/ \A e \in Entities : conn[e] \in {MaxVersion, Gone}
=============================================================================
