---------------------------- MODULE MCScanTasks ----------------------------
(* A list so short that a task outlasts it. *)
EXTENDS ScanTasks
=============================================================================
