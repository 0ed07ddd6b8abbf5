-------------------------- MODULE MCProactivePulse --------------------------
(***************************************************************************)
(* Pulse processes that overlap, with the same signals or with each        *)
(* other's unfinished runs to report.                                      *)
(***************************************************************************)
EXTENDS ProactivePulse, TLC

Symmetric == Permutations(Pulses) \cup Permutations(Signals)
=============================================================================
