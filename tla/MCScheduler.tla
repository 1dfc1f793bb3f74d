-------------------------- MODULE MCScheduler --------------------------
(* Scheduler on small tables for TLC. *)
EXTENDS Scheduler
========================================================================
