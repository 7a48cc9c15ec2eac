----------------------------- MODULE Scheduler -----------------------------
(***************************************************************************)
(* Scheduled tasks (internal/scheduler/scheduler.go) and the handlers that *)
(* edit them (internal/server/scheduled.go, store/scheduled_cas.go).       *)
(*                                                                         *)
(* A handler changes one row and then has the whole schedule rebuilt: it   *)
(* reads all rows, takes the scheduler's mutex and installs what it read.  *)
(* A runner is a goroutine that cron starts for an entry that is due, with *)
(* the task as it was when the entry was installed, or that "run now"      *)
(* starts with the task as it is stored.  Both are kept from running a     *)
(* task twice at once by the set of running ids.  A row keeps the result   *)
(* of its last run.                                                        *)
(***************************************************************************)
EXTENDS Integers, FiniteSets

CONSTANTS Tasks,    \* ids; AUTOINCREMENT gives an id to one row for ever
          Configs,  \* what can be edited in a row, apart from enabled
          Valid,    \* the ones whose cron expression parses
          Admins,   \* handlers in flight
          Runners,  \* goroutines that run tasks
          None      \* no row, no entry, nothing read

Content == [config : Configs, on : BOOLEAN]

ASSUME SchedulerAssumption ==
  /\ IsFiniteSet(Runners)
  /\ Valid \subseteq Configs
  /\ None \notin Tasks \cup Configs \cup Content

VARIABLES
  row,      \* scheduled_tasks without the results
  last,     \* last_status of a row
  used,     \* ids that had a row
  sched,    \* entries and schedules: by id the configuration it runs with
  failed,   \* a change was answered without a reload (history)
  running,  \* Scheduler.running
  apc, atask, \* a handler's place and task
  seen,     \* the row as its administrator, or the handler, has read it
  loaded,   \* the rows as a reload has read them, or None
  rpc, rtask, \* a runner's place and task
  manual    \* it was started by "run now"

adminVars  == <<apc, atask, seen, loaded>>
runnerVars == <<rpc, rtask, manual>>
vars == <<row, last, used, sched, failed, running, adminVars, runnerVars>>

Results == {"success", "failed", "skipped"}

TypeOK ==
  /\ row \in [Tasks -> Content \cup {None}]
  /\ last \in [Tasks -> Results \cup {None}]
  /\ used \subseteq Tasks
  /\ sched \in [Tasks -> Valid \cup {None}]
  /\ failed \in BOOLEAN
  /\ running \subseteq Tasks
  /\ apc \in [Admins -> {"idle", "viewing", "checked", "read", "written", "loaded"}]
  /\ atask \in [Admins -> Tasks \cup {None}]
  /\ seen \in [Admins -> Content \cup {None}]
  /\ loaded \in [Admins -> [Tasks -> Content \cup {None}] \cup {None}]
  /\ rpc \in [Runners -> {"idle", "due", "running", "recorded", "skipping"}]
  /\ rtask \in [Runners -> Tasks \cup {None}]
  /\ manual \in [Runners -> BOOLEAN]

\* The entry of a row: enabled, with an expression that parses.
Entry(c) == IF c # None /\ c.on /\ c.config \in Valid THEN c.config ELSE None
Schedule(rows) == [t \in Tasks |-> Entry(rows[t])]

\* newApp has loaded what the database held, or failed to.
Init ==
  /\ row \in [Tasks -> Content \cup {None}]
  /\ last = [t \in Tasks |-> None]
  /\ used = {t \in Tasks : row[t] # None}
  /\ \/ sched = Schedule(row) /\ failed = FALSE
     \/ sched = [t \in Tasks |-> None] /\ failed = TRUE
  /\ running = {}
  /\ apc = [a \in Admins |-> "idle"] /\ atask = [a \in Admins |-> None]
  /\ seen = [a \in Admins |-> None] /\ loaded = [a \in Admins |-> None]
  /\ rpc = [r \in Runners |-> "idle"] /\ rtask = [r \in Runners |-> None]
  /\ manual = [r \in Runners |-> FALSE]

-----------------------------------------------------------------------------
(* Editing.  A written row is followed by a reload before the answer. *)

\* A handler that is done, or gives up.
Answer(a) ==
  /\ apc' = [apc EXCEPT ![a] = "idle"] /\ atask' = [atask EXCEPT ![a] = None]
  /\ seen' = [seen EXCEPT ![a] = None] /\ loaded' = [loaded EXCEPT ![a] = None]

GotoA(a, loc) == apc' = [apc EXCEPT ![a] = loc] /\ UNCHANGED loaded

Written(a, t, c) ==
  /\ row' = [row EXCEPT ![t] = c] /\ atask' = [atask EXCEPT ![a] = t]
  /\ GotoA(a, "written")

\* adminCreateScheduledTask
Create(a, t, c) ==
  /\ apc[a] = "idle" /\ t \notin used
  /\ Written(a, t, c) /\ used' = used \cup {t}
  /\ UNCHANGED <<last, sched, failed, running, seen, runnerVars>>

\* adminUpdateScheduledTask without If-Match
Put(a, t, c) ==
  /\ apc[a] = "idle" /\ row[t] # None
  /\ Written(a, t, c)
  /\ UNCHANGED <<last, used, sched, failed, running, seen, runnerVars>>

\* The administrator has a task on his screen, with its validator, ...
View(a, t) ==
  /\ apc[a] = "idle" /\ row[t] # None
  /\ seen' = [seen EXCEPT ![a] = row[t]] /\ atask' = [atask EXCEPT ![a] = t]
  /\ GotoA(a, "viewing")
  /\ UNCHANGED <<row, last, used, sched, failed, running, runnerVars>>

\* ... the handler compares the validator with the row ...
CheckETag(a) ==
  /\ apc[a] = "viewing"
  /\ IF row[atask[a]] = seen[a] THEN GotoA(a, "checked") /\ UNCHANGED <<atask, seen>>
     ELSE Answer(a)
  /\ UNCHANGED <<row, last, used, sched, failed, running, runnerVars>>

\* Seeded fault: the row is written by its id alone.
SwapBlindly(a, c) ==
  /\ apc[a] = "checked"
  /\ IF row[atask[a]] # None THEN Written(a, atask[a], c) /\ UNCHANGED seen
     ELSE Answer(a) /\ UNCHANGED row
  /\ UNCHANGED <<last, used, sched, failed, running, runnerVars>>

\* ... and CompareAndSwapScheduledTask writes over the content it has compared.
Swap(a, c) ==
  /\ apc[a] = "checked"
  /\ IF row[atask[a]] = seen[a] THEN Written(a, atask[a], c) /\ UNCHANGED seen
     ELSE Answer(a) /\ UNCHANGED row
  /\ UNCHANGED <<last, used, sched, failed, running, runnerVars>>

\* adminToggleScheduledTask reads enabled and writes its opposite.
ToggleRead(a, t) ==
  /\ apc[a] = "idle" /\ row[t] # None
  /\ seen' = [seen EXCEPT ![a] = row[t]] /\ atask' = [atask EXCEPT ![a] = t]
  /\ GotoA(a, "read")
  /\ UNCHANGED <<row, last, used, sched, failed, running, runnerVars>>
ToggleWrite(a) ==
  /\ apc[a] = "read"
  /\ IF row[atask[a]] # None
     THEN Written(a, atask[a], [row[atask[a]] EXCEPT !.on = ~seen[a].on]) /\ UNCHANGED seen
     ELSE Answer(a) /\ UNCHANGED row
  /\ UNCHANGED <<last, used, sched, failed, running, runnerVars>>

\* adminDeleteScheduledTask; the result goes with the row.
Delete(a, t) ==
  /\ apc[a] = "idle" /\ row[t] # None
  /\ Written(a, t, None) /\ last' = [last EXCEPT ![t] = None]
  /\ UNCHANGED <<used, sched, failed, running, seen, runnerVars>>

\* Every request for a task that does not exist is answered 404.
NotFound(a, t) == apc[a] = "idle" /\ row[t] = None /\ UNCHANGED vars

\* Reload reads the rows outside its mutex.  An error is logged; a handler
\* that cannot read back what it wrote answers without a reload.
ReloadRead(a) ==
  /\ apc[a] = "written"
  /\ \/ /\ loaded' = [loaded EXCEPT ![a] = row]
        /\ apc' = [apc EXCEPT ![a] = "loaded"] /\ UNCHANGED <<atask, seen, failed>>
     \/ Answer(a) /\ failed' = TRUE
  /\ UNCHANGED <<row, last, used, sched, running, runnerVars>>

\* Under the mutex: every entry is removed and the rows read are registered.
ReloadInstall(a) ==
  /\ apc[a] = "loaded"
  /\ sched' = Schedule(loaded[a])
  /\ Answer(a)
  /\ UNCHANGED <<row, last, used, failed, running, runnerVars>>

-----------------------------------------------------------------------------
(* Running *)

GotoR(r, loc) == rpc' = [rpc EXCEPT ![r] = loc] /\ UNCHANGED <<rtask, manual>>
Rest(r) == /\ rpc' = [rpc EXCEPT ![r] = "idle"] /\ rtask' = [rtask EXCEPT ![r] = None]
           /\ manual' = [manual EXCEPT ![r] = FALSE]

\* Cron starts a goroutine for an entry; it may run after the entry is gone.
Due(r, t) ==
  /\ rpc[r] = "idle" /\ sched[t] # None
  /\ rpc' = [rpc EXCEPT ![r] = "due"] /\ rtask' = [rtask EXCEPT ![r] = t]
  /\ UNCHANGED <<row, last, used, sched, failed, running, manual, adminVars>>

\* RunNow: the row exists and its expression parses, whether enabled or not.
RunNow(r, t) ==
  /\ rpc[r] = "idle" /\ row[t] # None /\ row[t].config \in Valid
  /\ rpc' = [rpc EXCEPT ![r] = "due"] /\ rtask' = [rtask EXCEPT ![r] = t]
  /\ manual' = [manual EXCEPT ![r] = TRUE]
  /\ UNCHANGED <<row, last, used, sched, failed, running, adminVars>>

\* Seeded fault: "run now" does not ask whether the task is running.
AcquireManually(r) ==
  /\ rpc[r] = "due"
  /\ IF rtask[r] \in running /\ ~manual[r] THEN GotoR(r, "skipping") /\ UNCHANGED running
     ELSE GotoR(r, "running") /\ running' = running \cup {rtask[r]}
  /\ UNCHANGED <<row, last, used, sched, failed, adminVars>>

\* acquire: refused, "run now" returns ErrBusy and records nothing.
Acquire(r) ==
  /\ rpc[r] = "due"
  /\ IF rtask[r] \in running
     THEN IF manual[r] THEN Rest(r) /\ UNCHANGED running
          ELSE GotoR(r, "skipping") /\ UNCHANGED running
     ELSE GotoR(r, "running") /\ running' = running \cup {rtask[r]}
  /\ UNCHANGED <<row, last, used, sched, failed, adminVars>>

\* RecordScheduledResult: an UPDATE of a row that may be gone, or that fails.
Record(t, result) ==
  \/ row[t] # None /\ last' = [last EXCEPT ![t] = result]
  \/ UNCHANGED last

\* A refused fire records that it was skipped.
RecordSkip(r) ==
  /\ rpc[r] = "skipping" /\ Record(rtask[r], "skipped") /\ Rest(r)
  /\ UNCHANGED <<row, used, sched, failed, running, adminVars>>

\* The runner returned nil, ErrBusy or another error, ...
RecordResult(r) ==
  /\ rpc[r] = "running" /\ \E result \in Results : Record(rtask[r], result)
  /\ GotoR(r, "recorded")
  /\ UNCHANGED <<row, used, sched, failed, running, adminVars>>

\* Seeded fault: the release is not deferred.
PanicHolding(r) ==
  /\ rpc[r] = "running" /\ ~manual[r] /\ Rest(r)
  /\ UNCHANGED <<row, last, used, sched, failed, running, adminVars>>

\* ... or panicked, which cron recovers after the deferred release.
Panic(r) ==
  /\ rpc[r] = "running" /\ ~manual[r] /\ GotoR(r, "recorded")
  /\ UNCHANGED <<row, last, used, sched, failed, running, adminVars>>

Release(r) ==
  /\ rpc[r] = "recorded"
  /\ running' = running \ {rtask[r]} /\ Rest(r)
  /\ UNCHANGED <<row, last, used, sched, failed, adminVars>>

Edit(a) ==
  \/ \E t \in Tasks : \/ View(a, t) \/ ToggleRead(a, t) \/ Delete(a, t) \/ NotFound(a, t)
                      \/ \E c \in Content : c.config \in Valid /\ (Create(a, t, c) \/ Put(a, t, c))
  \/ CheckETag(a) \/ ToggleWrite(a)
  \/ \E c \in Content : c.config \in Valid /\ Swap(a, c)
  \/ ReloadRead(a) \/ ReloadInstall(a)
Work(r) == Acquire(r) \/ RecordSkip(r) \/ RecordResult(r) \/ Panic(r) \/ Release(r)

Next ==
  \/ \E a \in Admins : Edit(a)
  \/ \E r \in Runners : Work(r) \/ \E t \in Tasks : Due(r, t) \/ RunNow(r, t)

Spec == Init /\ [][Next]_vars

\* A run ends: its runner honours its context and its deadlines.
FairSpec == Spec /\ \A r \in Runners : WF_vars(Work(r))

-----------------------------------------------------------------------------
(* Properties *)

Executing(t) == {r \in Runners : rpc[r] \in {"running", "recorded"} /\ rtask[r] = t}

\* A task runs once at a time, whether it is due, due again or started by
\* hand, and it is marked exactly while it runs.
NoReentry ==
  /\ \A t \in Tasks, q, r \in Runners : q \in Executing(t) /\ r \in Executing(t) => q = r
  /\ running = {t \in Tasks : Executing(t) # {}}

\* An edit with a validator replaces what its author had on the screen: no
\* edit or toggle in between is overwritten.
ConditionalEdit ==
  [][\A a \in Admins : apc[a] = "checked" /\ apc'[a] = "written"
       => row[atask[a]] = seen[a]]_vars

\* A run ends and unmarks its task, even when it panics.
RunsEnd == \A t \in Tasks : t \in running ~> t \notin running

\* scheduler.go:102 (Reload): a change is in effect when it is answered.  With
\* nobody editing and unless a reload failed, the schedule is that of the rows.
ScheduleFollowsStore ==
  (\A a \in Admins : apc[a] = "idle") /\ ~failed => sched = Schedule(row)

\* scheduler_test.go:209: the success of the run that made a fire skip is not
\* overwritten by the skip.
SkipKeepsResult ==
  [][\A r \in Runners :
       rpc[r] = "skipping" /\ rpc'[r] = "idle" /\ last[rtask[r]] = "success"
       /\ (\A q \in Runners : rtask[q] = rtask[r] => rpc[q] # "running")
         => last' = last]_vars
=============================================================================
