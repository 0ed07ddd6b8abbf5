----------------------------- MODULE CurrentTruth -----------------------------
(***************************************************************************)
(* What readers of current truth are promised, whatever the process dies   *)
(* of: a memory event is answered from only if it may be, and from the     *)
(* moment it is shown; once it has been held back it is never answered     *)
(* from again, though it may be withdrawn and shown again in between.      *)
(***************************************************************************)
CONSTANTS
  Events,      \* the memory events that may be recorded
  Answerable   \* those that admission lets readers answer from

VARIABLES
  published,   \* the events readers are shown
  answers,     \* those they may answer from
  retired      \* those that readers will never be answered from again

vars == <<published, answers, retired>>

Init == published = {} /\ answers = {} /\ retired = {}

\* Some events are shown, some are withdrawn, and what is held back retires.
Next ==
  /\ published' \subseteq Events
  /\ answers' \subseteq published' \ retired'
  /\ answers' \ answers \subseteq Answerable \ published
  /\ retired' \subseteq Events
  /\ retired \cup (published' \ answers') \subseteq retired'

Spec == Init /\ [][Next]_vars
=============================================================================
