----------------------------- MODULE MCScheduler -----------------------------
(***************************************************************************)
(* The instance of Scheduler for TLC: two settlements, so that calls       *)
(* overlap and an old job meets a new one, and two starts, so that two     *)
(* pollers go through one list.                                            *)
(***************************************************************************)
EXTENDS Scheduler, TLC
=============================================================================
