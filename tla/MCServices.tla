----------------------------- MODULE MCServices -----------------------------
(***************************************************************************)
(* Whom the server answers and with what: accounts, playback, answers from *)
(* the cache, the list of tasks.  They share no state in these modules, so *)
(* a behaviour belongs to one of them and leaves the others where they     *)
(* start.                                                                   *)
(***************************************************************************)
EXTENDS Accounts, Playback, Views, ScanTasks, TLC

VARIABLE part

MCInit ==
  /\ AccountsInit /\ PlaybackInit /\ ViewsInit /\ TasksInit
  /\ part \in {"accounts", "playback", "views", "tasks"}
  /\ part # "views" => answer = "items"

MCNext ==
  /\ UNCHANGED part
  /\ \/ part = "accounts" /\ AccountsNext
     \/ part = "playback" /\ PlaybackNext
     \/ part = "views"    /\ ViewsNext
     \/ part = "tasks"    /\ TasksNext
  /\ part = "accounts" \/ UNCHANGED accountVars
  /\ part = "playback" \/ UNCHANGED playVars
  /\ part = "views"    \/ UNCHANGED viewVars
  /\ part = "tasks"    \/ UNCHANGED taskVars

allVars == <<part, accountVars, playVars, viewVars, taskVars>>

MCSpec == MCInit /\ [][MCNext]_allVars

\* Requests are alike, names or sessions, tokens or titles, and submissions.
Alike ==
  Permutations(Clients) \cup Permutations(Names) \cup Permutations(Tokens)

-----------------------------------------------------------------------------

\* Every variable of these services keeps its type.
ServicesTypeOK == AccountsTypeOK /\ PlaybackTypeOK /\ ViewsTypeOK /\ TasksTypeOK
=============================================================================
