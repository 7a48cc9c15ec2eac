---------------------------- MODULE MCScheduler ----------------------------
(* Two administrators and two goroutines on the same few tasks. *)
EXTENDS Scheduler
=============================================================================
