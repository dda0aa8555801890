---------------------------- MODULE MCScheduler ----------------------------
(* Scheduler on a small instance: more task addresses than may be alive at *)
(* a time, so that addresses are reused.                                   *)
EXTENDS Scheduler
=============================================================================
