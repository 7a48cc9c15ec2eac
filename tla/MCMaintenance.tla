--------------------------- MODULE MCMaintenance ---------------------------
(***************************************************************************)
(* Two slots that run any kind of task, one after the other; and two       *)
(* callers in flight on the same NFO file.  The two share no state, so a   *)
(* behaviour belongs to one of them and leaves the other where it starts.  *)
(***************************************************************************)
EXTENDS Maintenance, PathLock

VARIABLE part

allVars == <<part, vars, pathVars>>

MCInit == Init /\ LockInit /\ part \in {"tasks", "files"}

MCNext ==
  /\ UNCHANGED part
  /\ \/ part = "tasks" /\ Next /\ UNCHANGED pathVars
     \/ part = "files" /\ LockNext /\ UNCHANGED vars

\* The fairness of the two specifications, each for its own behaviours.
MCFairness ==
  /\ \A j \in Jobs : /\ WF_vars(part = "tasks" /\ Begin(j))
                     /\ WF_vars(part = "tasks" /\ Finish(j))
  /\ WF_vars(part = "tasks" /\ Drain)
  /\ \A c \in Callers : /\ WF_pathVars(part = "files" /\ Proceed(c))
                        /\ SF_pathVars(part = "files" /\ LockEntry(c))

MCSpec == MCInit /\ [][MCNext]_allVars /\ MCFairness
=============================================================================
