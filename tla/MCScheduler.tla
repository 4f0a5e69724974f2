----------------------------- MODULE MCScheduler -----------------------------
(* One schedule; its counters end at the bounds of the cfg. *)
EXTENDS Scheduler
=============================================================================
