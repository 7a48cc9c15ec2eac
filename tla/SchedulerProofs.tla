-------------------------- MODULE SchedulerProofs --------------------------
(***************************************************************************)
(* For any tasks, handlers and runners: a task runs once at a time, and an *)
(* edit with a validator replaces what its author had seen.                *)
(***************************************************************************)
EXTENDS Scheduler, TLAPS

Active == {"running", "recorded"}

\* What a place says of the rest of its handler or runner.
AdminPlaces ==
  \A a \in Admins :
    /\ apc[a] # "idle" => atask[a] \in Tasks
    /\ apc[a] \in {"viewing", "checked", "read"} => seen[a] \in Content
    /\ apc[a] = "loaded" => loaded[a] \in [Tasks -> Content \cup {None}]
RunnerPlaces == \A r \in Runners : rpc[r] # "idle" => rtask[r] \in Tasks

\* Active runners hold different ids, and these are the ids that are marked.
OnePerTask ==
  \A q, r \in Runners : rpc[q] \in Active /\ rpc[r] \in Active /\ rtask[q] = rtask[r] => q = r
Marked ==
  /\ \A r \in Runners : rpc[r] \in Active => rtask[r] \in running
  /\ \A t \in running : \E r \in Runners : rpc[r] \in Active /\ rtask[r] = t

IInv == TypeOK /\ AdminPlaces /\ RunnerPlaces /\ OnePerTask /\ Marked

\* An entry has an expression that parses.
LEMMA EntryType ==
  ASSUME NEW c \in Content \cup {None} PROVE Entry(c) \in Valid \cup {None}
BY DEF Entry

LEMMA ScheduleType ==
  ASSUME NEW rows \in [Tasks -> Content \cup {None}]
  PROVE  Schedule(rows) \in [Tasks -> Valid \cup {None}]
BY EntryType DEF Schedule

LEMMA InitIInv == Init => IInv
<1> SUFFICES ASSUME Init PROVE IInv
  OBVIOUS
<1>1. Schedule(row) \in [Tasks -> Valid \cup {None}]
  BY ScheduleType DEF Init
<1>2. TypeOK
  BY <1>1 DEF Init, TypeOK
<1>3. AdminPlaces /\ RunnerPlaces /\ OnePerTask /\ Marked
  BY DEF Init, AdminPlaces, RunnerPlaces, OnePerTask, Marked, Active
<1> QED
  BY <1>2, <1>3 DEF IInv

\* A handler's step leaves the runners and the marks alone.
LEMMA RunnersUntouched ==
  ASSUME IInv, UNCHANGED <<running, runnerVars>>
  PROVE  RunnerPlaces' /\ OnePerTask' /\ Marked'
BY DEF IInv, RunnerPlaces, OnePerTask, Marked, runnerVars

\* A handler that has written a row, or has answered.
LEMMA WrittenKeeps ==
  ASSUME IInv, NEW a \in Admins, NEW t \in Tasks, NEW c \in Content \cup {None},
         Written(a, t, c), UNCHANGED seen
  PROVE  /\ row' \in [Tasks -> Content \cup {None}]
         /\ apc' \in [Admins -> {"idle", "viewing", "checked", "read", "written", "loaded"}]
         /\ atask' \in [Admins -> Tasks \cup {None}]
         /\ seen' \in [Admins -> Content \cup {None}]
         /\ loaded' \in [Admins -> [Tasks -> Content \cup {None}] \cup {None}]
         /\ AdminPlaces'
BY DEF IInv, TypeOK, AdminPlaces, Written, GotoA

LEMMA AnswerKeeps ==
  ASSUME IInv, NEW a \in Admins, Answer(a)
  PROVE  /\ apc' \in [Admins -> {"idle", "viewing", "checked", "read", "written", "loaded"}]
         /\ atask' \in [Admins -> Tasks \cup {None}]
         /\ seen' \in [Admins -> Content \cup {None}]
         /\ loaded' \in [Admins -> [Tasks -> Content \cup {None}] \cup {None}]
         /\ AdminPlaces'
BY DEF IInv, TypeOK, AdminPlaces, Answer

\* A handler that has read a row.
LEMMA ReadKeeps ==
  ASSUME IInv, NEW a \in Admins, NEW t \in Tasks, row[t] # None,
         NEW loc \in {"viewing", "read"},
         seen' = [seen EXCEPT ![a] = row[t]], atask' = [atask EXCEPT ![a] = t], GotoA(a, loc)
  PROVE  /\ apc' \in [Admins -> {"idle", "viewing", "checked", "read", "written", "loaded"}]
         /\ atask' \in [Admins -> Tasks \cup {None}]
         /\ seen' \in [Admins -> Content \cup {None}]
         /\ loaded' \in [Admins -> [Tasks -> Content \cup {None}] \cup {None}]
         /\ AdminPlaces'
BY DEF IInv, TypeOK, AdminPlaces, GotoA

LEMMA EditStep == ASSUME IInv, NEW a \in Admins, Edit(a) PROVE IInv'
<1> USE DEF adminVars, runnerVars
<1>1. ASSUME NEW t \in Tasks, NEW c \in Content, Create(a, t, c) PROVE IInv'
  BY <1>1, WrittenKeeps, RunnersUntouched DEF Create, IInv, TypeOK
<1>2. ASSUME NEW t \in Tasks, NEW c \in Content, Put(a, t, c) PROVE IInv'
  BY <1>2, WrittenKeeps, RunnersUntouched DEF Put, IInv, TypeOK
<1>3. ASSUME NEW t \in Tasks, View(a, t) PROVE IInv'
  BY <1>3, ReadKeeps, RunnersUntouched DEF View, IInv, TypeOK
<1>4. ASSUME CheckETag(a) PROVE IInv'
  <2>1. RunnerPlaces' /\ OnePerTask' /\ Marked'
    BY <1>4, RunnersUntouched DEF CheckETag
  <2>2. CASE row[atask[a]] = seen[a]
    BY <1>4, <2>1, <2>2 DEF CheckETag, GotoA, IInv, TypeOK, AdminPlaces
  <2>3. CASE row[atask[a]] # seen[a]
    BY <1>4, <2>1, <2>3, AnswerKeeps DEF CheckETag, IInv, TypeOK
  <2> QED
    BY <2>2, <2>3
<1>5. ASSUME NEW c \in Content, Swap(a, c) PROVE IInv'
  <2>1. RunnerPlaces' /\ OnePerTask' /\ Marked' /\ atask[a] \in Tasks
    BY <1>5, RunnersUntouched DEF Swap, IInv, AdminPlaces
  <2>2. CASE row[atask[a]] = seen[a]
    BY <1>5, <2>1, <2>2, WrittenKeeps DEF Swap, IInv, TypeOK
  <2>3. CASE row[atask[a]] # seen[a]
    BY <1>5, <2>1, <2>3, AnswerKeeps DEF Swap, IInv, TypeOK
  <2> QED
    BY <2>2, <2>3
<1>6. ASSUME NEW t \in Tasks, ToggleRead(a, t) PROVE IInv'
  BY <1>6, ReadKeeps, RunnersUntouched DEF ToggleRead, IInv, TypeOK
<1>7. ASSUME ToggleWrite(a) PROVE IInv'
  <2>1. /\ RunnerPlaces' /\ OnePerTask' /\ Marked'
        /\ atask[a] \in Tasks /\ seen[a] \in Content
    BY <1>7, RunnersUntouched DEF ToggleWrite, IInv, AdminPlaces
  <2>2. CASE row[atask[a]] # None
    <3>1. row[atask[a]] \in Content
      BY <2>1, <2>2 DEF IInv, TypeOK
    <3>2. [row[atask[a]] EXCEPT !.on = ~seen[a].on] \in Content
      BY <2>1, <3>1 DEF Content
    <3> QED
      BY <1>7, <2>1, <2>2, <3>2, WrittenKeeps DEF ToggleWrite, IInv, TypeOK
  <2>3. CASE row[atask[a]] = None
    BY <1>7, <2>1, <2>3, AnswerKeeps DEF ToggleWrite, IInv, TypeOK
  <2> QED
    BY <2>2, <2>3
<1>8. ASSUME NEW t \in Tasks, Delete(a, t) PROVE IInv'
  BY <1>8, WrittenKeeps, RunnersUntouched DEF Delete, IInv, TypeOK
<1>9. ASSUME NEW t \in Tasks, NotFound(a, t) PROVE IInv'
  BY <1>9 DEF NotFound, vars, IInv, TypeOK, AdminPlaces, RunnerPlaces, OnePerTask, Marked
<1>10. ASSUME ReloadRead(a) PROVE IInv'
  <2>1. RunnerPlaces' /\ OnePerTask' /\ Marked'
    BY <1>10, RunnersUntouched DEF ReloadRead
  <2>2. CASE Answer(a) /\ failed' = TRUE
    BY <1>10, <2>1, <2>2, AnswerKeeps DEF ReloadRead, IInv, TypeOK
  <2>3. CASE /\ loaded' = [loaded EXCEPT ![a] = row]
             /\ apc' = [apc EXCEPT ![a] = "loaded"] /\ UNCHANGED <<atask, seen, failed>>
    BY <1>10, <2>1, <2>3 DEF ReloadRead, IInv, TypeOK, AdminPlaces
  <2> QED
    BY <1>10, <2>2, <2>3 DEF ReloadRead
<1>11. ASSUME ReloadInstall(a) PROVE IInv'
  <2>1. loaded[a] \in [Tasks -> Content \cup {None}]
    BY <1>11 DEF ReloadInstall, IInv, TypeOK, AdminPlaces
  <2>2. Schedule(loaded[a]) \in [Tasks -> Valid \cup {None}]
    BY <2>1, ScheduleType
  <2> QED
    BY <1>11, <2>2, AnswerKeeps, RunnersUntouched DEF ReloadInstall, IInv, TypeOK
<1> QED
  BY <1>1, <1>2, <1>3, <1>4, <1>5, <1>6, <1>7, <1>8, <1>9, <1>10, <1>11 DEF Edit

-----------------------------------------------------------------------------
(* Running *)

\* A runner's step leaves the handlers alone.
LEMMA AdminsUntouched ==
  ASSUME IInv, UNCHANGED adminVars PROVE AdminPlaces'
BY DEF IInv, AdminPlaces, adminVars

\* A runner that was not active has no mark of its own to keep.
LEMMA InactiveKeeps ==
  ASSUME IInv, NEW r \in Runners, rpc[r] \notin Active, UNCHANGED running,
         NEW loc \in {"idle", "due", "skipping"}, NEW t,
         rpc' = [rpc EXCEPT ![r] = loc], rtask' = [rtask EXCEPT ![r] = t],
         loc # "idle" => t \in Tasks
  PROVE  RunnerPlaces' /\ OnePerTask' /\ Marked'
<1>1. loc \notin Active
  BY DEF Active
<1>2. \A q \in Runners : rpc'[q] \in Active <=> rpc[q] \in Active
  BY <1>1 DEF IInv, TypeOK
<1>3. \A q \in Runners : rpc[q] \in Active => rtask'[q] = rtask[q]
  BY DEF IInv, TypeOK
<1>4. RunnerPlaces'
  BY DEF IInv, TypeOK, RunnerPlaces
<1>5. OnePerTask'
  BY <1>2, <1>3 DEF IInv, OnePerTask
<1>6. Marked'
  BY <1>2, <1>3 DEF IInv, Marked
<1> QED
  BY <1>4, <1>5, <1>6

LEMMA StartStep ==
  ASSUME IInv, NEW r \in Runners, NEW t \in Tasks, Due(r, t) \/ RunNow(r, t) PROVE IInv'
<1>1. /\ rpc[r] = "idle" /\ rpc' = [rpc EXCEPT ![r] = "due"]
      /\ rtask' = [rtask EXCEPT ![r] = t] /\ UNCHANGED <<running, adminVars>>
  BY DEF Due, RunNow
<1>2. RunnerPlaces' /\ OnePerTask' /\ Marked'
  BY <1>1, InactiveKeeps DEF Active
<1>3. TypeOK'
  BY DEF Due, RunNow, IInv, TypeOK, adminVars
<1> QED
  BY <1>1, <1>2, <1>3, AdminsUntouched DEF IInv

LEMMA AcquireStep == ASSUME IInv, NEW r \in Runners, Acquire(r) PROVE IInv'
<1>1. rpc[r] = "due" /\ rtask[r] \in Tasks /\ rpc[r] \notin Active
  BY DEF Acquire, IInv, RunnerPlaces, Active
<1>2. AdminPlaces'
  BY AdminsUntouched DEF Acquire
<1>3. CASE rtask[r] \in running
  <2>1. TypeOK'
    BY <1>3 DEF Acquire, Rest, GotoR, IInv, TypeOK, adminVars
  <2>2. rtask = [rtask EXCEPT ![r] = rtask[r]]
    BY DEF IInv, TypeOK
  <2>3. RunnerPlaces' /\ OnePerTask' /\ Marked'
    <3>1. CASE manual[r]
      BY <1>1, <1>3, <3>1, InactiveKeeps DEF Acquire, Rest
    <3>2. CASE ~manual[r]
      BY <1>1, <1>3, <2>2, <3>2, InactiveKeeps DEF Acquire, GotoR
    <3> QED
      BY <3>1, <3>2
  <2> QED
    BY <1>2, <2>1, <2>3 DEF IInv
<1>4. CASE rtask[r] \notin running
  <2>1. /\ rpc' = [rpc EXCEPT ![r] = "running"] /\ running' = running \cup {rtask[r]}
        /\ UNCHANGED <<rtask, manual, row, last, used, sched, failed, adminVars>>
    BY <1>4 DEF Acquire, GotoR
  <2>2. TypeOK'
    BY <1>1, <2>1 DEF IInv, TypeOK, adminVars
  <2>3. RunnerPlaces'
    BY <1>1, <2>1 DEF IInv, TypeOK, RunnerPlaces
  <2>4. \A q \in Runners : rpc[q] \in Active => rtask[q] # rtask[r]
    BY <1>4 DEF IInv, Marked
  <2>5. OnePerTask'
    BY <2>1, <2>4 DEF IInv, TypeOK, OnePerTask
  <2>6. \A q \in Runners : rpc'[q] \in Active <=> rpc[q] \in Active \/ q = r
    BY <2>1 DEF IInv, TypeOK, Active
  <2>7. Marked'
    BY <2>1, <2>6 DEF IInv, Marked
  <2> QED
    BY <1>2, <2>2, <2>3, <2>5, <2>7 DEF IInv
<1> QED
  BY <1>3, <1>4

\* A runner that keeps its mark while its task's result is recorded.
LEMMA RecordedStep ==
  ASSUME IInv, NEW r \in Runners, RecordResult(r) \/ Panic(r) PROVE IInv'
<1>1. /\ rpc[r] = "running" /\ rpc' = [rpc EXCEPT ![r] = "recorded"]
      /\ UNCHANGED <<rtask, manual, running, adminVars>>
  BY DEF RecordResult, Panic, GotoR
<1>2. \A q \in Runners : rpc'[q] \in Active <=> rpc[q] \in Active
  BY <1>1 DEF IInv, TypeOK, Active
<1>3. RunnerPlaces' /\ OnePerTask' /\ Marked'
  BY <1>1, <1>2 DEF IInv, TypeOK, RunnerPlaces, OnePerTask, Marked
<1>4. TypeOK'
  BY <1>1 DEF RecordResult, Panic, Record, IInv, TypeOK, adminVars, Results
<1> QED
  BY <1>1, <1>3, <1>4, AdminsUntouched DEF IInv

LEMMA RecordSkipStep == ASSUME IInv, NEW r \in Runners, RecordSkip(r) PROVE IInv'
<1>1. rpc[r] \notin Active
  BY DEF RecordSkip, Active
<1>2. RunnerPlaces' /\ OnePerTask' /\ Marked'
  BY <1>1, InactiveKeeps DEF RecordSkip, Rest
<1>3. TypeOK'
  BY DEF RecordSkip, Rest, Record, IInv, TypeOK, adminVars, Results
<1> QED
  BY <1>2, <1>3, AdminsUntouched DEF RecordSkip, IInv

LEMMA ReleaseStep == ASSUME IInv, NEW r \in Runners, Release(r) PROVE IInv'
<1>1. /\ rpc[r] = "recorded" /\ rpc[r] \in Active /\ running' = running \ {rtask[r]}
      /\ rpc' = [rpc EXCEPT ![r] = "idle"] /\ rtask' = [rtask EXCEPT ![r] = None]
  BY DEF Release, Rest, Active
<1>2. TypeOK'
  BY DEF Release, Rest, IInv, TypeOK, adminVars
<1>3. RunnerPlaces'
  BY <1>1 DEF IInv, TypeOK, RunnerPlaces
<1>4. \A q \in Runners : rpc'[q] \in Active
                          <=> q # r /\ rpc[q] \in Active
  BY <1>1 DEF IInv, TypeOK, Active
<1>5. \A q \in Runners : q # r => rtask'[q] = rtask[q]
  BY <1>1 DEF IInv, TypeOK
<1>6. OnePerTask'
  BY <1>4, <1>5 DEF IInv, OnePerTask
<1>7. \A q \in Runners : q # r /\ rpc[q] \in Active => rtask[q] # rtask[r]
  BY <1>1 DEF IInv, OnePerTask
<1>8. Marked'
  BY <1>1, <1>4, <1>5, <1>7 DEF IInv, Marked
<1> QED
  BY <1>2, <1>3, <1>6, <1>8, AdminsUntouched DEF Release, IInv

-----------------------------------------------------------------------------
(* Theorems *)

\* IInv is an inductive invariant.
THEOREM Inductive == Spec => []IInv
<1>1. ASSUME IInv, [Next]_vars PROVE IInv'
  <2>1. ASSUME NEW a \in Admins, Edit(a) PROVE IInv'
    BY <1>1, <2>1, EditStep
  <2>2. ASSUME NEW r \in Runners, Work(r) PROVE IInv'
    BY <1>1, <2>2, AcquireStep, RecordSkipStep, RecordedStep, ReleaseStep DEF Work
  <2>3. ASSUME NEW r \in Runners, NEW t \in Tasks, Due(r, t) \/ RunNow(r, t) PROVE IInv'
    BY <1>1, <2>3, StartStep
  <2>4. CASE UNCHANGED vars
    BY <1>1, <2>4 DEF vars, adminVars, runnerVars, IInv, TypeOK, AdminPlaces, RunnerPlaces,
       OnePerTask, Marked
  <2> QED
    BY <1>1, <2>1, <2>2, <2>3, <2>4 DEF Next
<1> QED
  BY InitIInv, <1>1, PTL DEF Spec

\* Every variable keeps its type: in particular the schedule holds only
\* expressions that parse.
THEOREM TypeCorrect == Spec => []TypeOK
<1>1. IInv => TypeOK
  BY DEF IInv
<1> QED
  BY <1>1, Inductive, PTL

\* A task runs once at a time, whether cron fires it again or somebody starts
\* it by hand, and Scheduler.running holds exactly the tasks that run.
THEOREM OneRunOfATask == Spec => []NoReentry
<1>1. IInv => NoReentry
  <2> SUFFICES ASSUME IInv PROVE NoReentry
    OBVIOUS
  <2>1. \A t \in Tasks : Executing(t) = {r \in Runners : rpc[r] \in Active /\ rtask[r] = t}
    BY DEF Executing, Active
  <2>2. \A t \in Tasks, q, r \in Runners : q \in Executing(t) /\ r \in Executing(t) => q = r
    BY <2>1 DEF IInv, OnePerTask
  <2>3. \A t \in running : t \in Tasks /\ Executing(t) # {}
    BY <2>1 DEF IInv, Marked, TypeOK
  <2>4. \A t \in Tasks : Executing(t) # {} => t \in running
    BY <2>1 DEF IInv, Marked
  <2> QED
    BY <2>2, <2>3, <2>4 DEF NoReentry
<1> QED
  BY <1>1, Inductive, PTL

\* An edit with a validator replaces exactly the content its author had seen,
\* whoever edits, toggles or deletes in between.
THEOREM ConditionalEditsCompare == Spec => ConditionalEdit
<1> DEFINE P(a) == apc[a] = "checked" /\ apc'[a] = "written" => row[atask[a]] = seen[a]
<1>1. ASSUME IInv, [Next]_vars, NEW b \in Admins PROVE P(b)
  <2> SUFFICES ASSUME apc[b] = "checked", apc'[b] = "written" PROVE row[atask[b]] = seen[b]
    OBVIOUS
  <2>1. ASSUME NEW a \in Admins, Edit(a) PROVE row[atask[b]] = seen[b]
    <3>1. CASE a # b
      <4>1. apc'[b] = apc[b]
        BY <1>1, <2>1, <3>1 DEF IInv, TypeOK, Edit, Create, Put, View, CheckETag, Swap, ToggleRead,
           ToggleWrite, Delete, NotFound, ReloadRead, ReloadInstall, Written, Answer, GotoA,
           vars, adminVars
      <4> QED
        BY <4>1
    <3>2. CASE a = b
      <4>1. \/ CheckETag(a) \/ NotFound(a, atask[a])
            \/ \E c \in Content : Swap(a, c)
        BY <2>1, <3>2 DEF Edit, Create, Put, View, ToggleRead, ToggleWrite, Delete, NotFound,
           ReloadRead, ReloadInstall
      <4>2. ~CheckETag(a)
        BY <1>1, <3>2 DEF CheckETag, IInv, TypeOK
      <4>3. ~NotFound(a, atask[a])
        BY <3>2 DEF NotFound
      <4>4. PICK c \in Content : Swap(a, c)
        BY <4>1, <4>2, <4>3
      <4>5. CASE row[atask[a]] # seen[a]
        BY <1>1, <3>2, <4>4, <4>5 DEF Swap, Answer, IInv, TypeOK
      <4> QED
        BY <3>2, <4>5
    <3> QED
      BY <3>1, <3>2
  <2>2. ASSUME NEW r \in Runners, Work(r) \/ \E t \in Tasks : Due(r, t) \/ RunNow(r, t)
        PROVE  row[atask[b]] = seen[b]
    BY <2>2 DEF Work, Acquire, RecordSkip, RecordResult, Panic, Release, Due, RunNow, adminVars
  <2>3. CASE UNCHANGED vars
    BY <2>3 DEF vars, adminVars
  <2> QED
    BY <1>1, <2>1, <2>2, <2>3 DEF Next
<1>2. IInv /\ [Next]_vars => [\A a \in Admins : P(a)]_vars
  BY <1>1
<1>3. Spec => [][\A a \in Admins : P(a)]_vars
  BY <1>2, Inductive, PTL DEF Spec
<1> QED
  BY <1>3 DEF ConditionalEdit
=============================================================================
