----------------------------- MODULE MCScheduler -----------------------------
(* Scheduler with one run by hand beside the schedule's, days of four ticks  *)
(* and two hours to choose from.                                             *)
EXTENDS Scheduler
=============================================================================
