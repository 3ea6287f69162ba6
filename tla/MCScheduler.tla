----------------------------- MODULE MCScheduler -----------------------------
(* Instances of Scheduler for TLC: the .cfg files give the constants.  The *)
(* callers are interchangeable but liveness forbids a symmetry; the timers *)
(* are not, since the next one is chosen.                                  *)
EXTENDS Scheduler
=============================================================================
