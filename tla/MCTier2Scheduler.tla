-------------------------- MODULE MCTier2Scheduler --------------------------
(***************************************************************************)
(* Three turns ask for a batch and a batch reads four of the transcript's  *)
(* eight, so that requests pile up behind a slow batch and turns leave the *)
(* window before a batch has read them.                                    *)
(***************************************************************************)
EXTENDS Tier2Scheduler
=============================================================================
