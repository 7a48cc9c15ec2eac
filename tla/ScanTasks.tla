----------------------------- MODULE ScanTasks -----------------------------
(***************************************************************************)
(* Tasks as their clients see them (internal/server/scan_tasks.go, the     *)
(* task list of admin.go, store/task_records.go): asynchronous scans that  *)
(* are accepted with 202 and found again by id or by idempotency key, the  *)
(* list of recent tasks in memory, and the records in the database that    *)
(* outlive the process.                                                    *)
(*                                                                         *)
(* A slot j of Jobs is a handler and then the worker it starts: of an      *)
(* asynchronous scan, or of any other task that is put on the list when it *)
(* starts and looked up there when it ends.  The process may be cancelled, *)
(* and may die between any two steps.  Every write of a record may fail,   *)
(* as the code allows; the two statements newApp runs on the database it   *)
(* has just migrated succeed.                                              *)
(***************************************************************************)
EXTENDS Integers, FiniteSets, Sequences, SequencesExt

CONSTANTS Jobs, IdemKeys, Digests,
          NoTask,      \* no key, no task, no row
          MaxID,     \* bound on the ids an instance hands out
          ListCap,   \* 100 tasks on the list
          Capacity,  \* scanTaskCapacity
          Retention, \* taskRecordRetention
          TTL,       \* scanIdemTTL, in ticks
          MaxLost    \* bound on the ids with a failed write

Ids == 1..MaxID

\* "done" is success or failure: nothing below tells them apart.
Ended    == {"done", "skipped"}
Terminal == Ended \cup {"interrupted"}
Statuses == Terminal \cup {"queued", "running"}

\* An entry of the table of scans, and one of the table of keys.
ScanRow == [status : Statuses, key : IdemKeys \cup {NoTask}, digest : Digests]
KeyRow  == [id : Ids, age : 0..(TTL + 1)]

ASSUME ScanTasksAssumption ==
  /\ MaxID \in Nat /\ TTL \in Nat /\ MaxLost \in Nat
  /\ {ListCap, Capacity, Retention} \subseteq Nat \ {0}
  /\ NoTask \notin IdemKeys \cup Digests \cup Jobs /\ NoTask \notin Ids /\ NoTask \notin Statuses
  /\ NoTask \notin ScanRow /\ NoTask \notin KeyRow

VARIABLES
  life,     \* "up", "cancelled" (rootCtx is done) or "down"
  nextID,   \* App.nextTaskID
  listed,   \* ids on App.tasks
  rec,      \* task_records: by id the status of the row
  scans,    \* App.scanTasks: by id the status, the key and the digest
  order,    \* App.scanTaskOrder
  idem,     \* App.scanTaskIdem: by key the id and the age of the entry
  scanner,  \* who runs a scan: a job, "elsewhere" or NoTask
  place, jid, jkey, jdigest, out,
  lostAnswers      \* ids of which a write of the record has failed (history)

tables == <<listed, scans, order, idem, scanner>>
jobVars == <<place, jid, jkey, jdigest, out>>
taskVars == <<life, nextID, rec, tables, jobVars, lostAnswers>>

TaskPCs == {"idle", "missed", "started", "refused", "queued", "running",
        "scanning", "ended", "finishing", "other"}

\* A job whose scan the client was told is accepted.
Accepted(j) == place[j] \in {"queued", "running", "scanning", "ended", "finishing"} /\ jdigest[j] # NoTask

InTable  == {i \in Ids : scans[i] # NoTask}
RecordedTask == {i \in Ids : rec[i] # NoTask}
Finished(i) == scans[i].status \in Ended

TasksTypeOK ==
  /\ life \in {"up", "cancelled", "down"} /\ nextID \in 0..MaxID
  /\ listed \subseteq Ids /\ Cardinality(listed) <= ListCap
  /\ rec \in [Ids -> Statuses \cup {NoTask}] /\ Cardinality(RecordedTask) <= Retention + Cardinality(lostAnswers)
  /\ scans \in [Ids -> ScanRow \cup {NoTask}]
  /\ IsInjective(order) /\ ToSet(order) = InTable /\ Len(order) <= Capacity
  /\ idem \in [IdemKeys -> KeyRow \cup {NoTask}]
  /\ scanner \in Jobs \cup {"elsewhere", NoTask}
  /\ place \in [Jobs -> TaskPCs] /\ jid \in [Jobs -> Ids \cup {NoTask}]
  /\ jkey \in [Jobs -> IdemKeys \cup {NoTask}] /\ jdigest \in [Jobs -> Digests \cup {NoTask}]
  /\ out \in [Jobs -> Ended \cup {NoTask}]
  /\ lostAnswers \subseteq Ids

CanFail(i) == Cardinality(lostAnswers \cup {i}) <= MaxLost
NothingIn(S) == [x \in S |-> NoTask]

TasksInit ==
  /\ life = "up" /\ nextID = 0 /\ listed = {} /\ lostAnswers = {}
  /\ rec = NothingIn(Ids) /\ scans = NothingIn(Ids) /\ order = <<>> /\ idem = NothingIn(IdemKeys)
  /\ scanner = NoTask
  /\ place = [j \in Jobs |-> "idle"] /\ jid = NothingIn(Jobs) /\ jkey = NothingIn(Jobs)
  /\ jdigest = NothingIn(Jobs) /\ out = NothingIn(Jobs)

Alive == life # "down"
TaskAt(j, loc) == Alive /\ place[j] = loc
GotoTask(j, loc) == place' = [place EXCEPT ![j] = loc]
RestTask(j) == /\ GotoTask(j, "idle") /\ jid' = [jid EXCEPT ![j] = NoTask]
           /\ jkey' = [jkey EXCEPT ![j] = NoTask] /\ jdigest' = [jdigest EXCEPT ![j] = NoTask]
           /\ out' = [out EXCEPT ![j] = NoTask]

-----------------------------------------------------------------------------
(* The records *)

NewestTasks(S, n) == {i \in S : Cardinality({k \in S : k > i}) < n}

\* UpsertTaskRecord writes the row and prunes the oldest, ...
Upserted(i, status) ==
  [k \in Ids |-> IF k \notin NewestTasks(RecordedTask \cup {i}, Retention) THEN NoTask
                 ELSE IF k = i THEN status ELSE rec[k]]
Upsert(i, status) == rec' = Upserted(i, status) /\ UNCHANGED lostAnswers
\* ... or fails before the row is written, or after it.
UpsertFails(i, status) ==
  /\ CanFail(i)
  /\ rec' \in {rec, [rec EXCEPT ![i] = status]} /\ lostAnswers' = lostAnswers \cup {i}

\* An UPDATE changes a row that is there, or fails.
Update(i, status) ==
  \/ rec' = [rec EXCEPT ![i] = IF @ = NoTask THEN NoTask ELSE status] /\ UNCHANGED lostAnswers
  \/ CanFail(i) /\ UNCHANGED rec /\ lostAnswers' = lostAnswers \cup {i}

\* finishTask and finishTaskBusy: only a task that is still on the list.
FinishListed(i, status) ==
  IF i \in listed THEN Update(i, status) ELSE UNCHANGED <<rec, lostAnswers>>

\* startTask: the next id, the list, and a record if it can be written.
StartTask(j, loc) ==
  /\ nextID < MaxID /\ nextID' = nextID + 1
  /\ listed' = NewestTasks(listed \cup {nextID'}, ListCap)
  /\ Upsert(nextID', "running") \/ UpsertFails(nextID', "running")
  /\ jid' = [jid EXCEPT ![j] = nextID']
  /\ GotoTask(j, loc)
  /\ UNCHANGED <<life, scans, order, idem, scanner, jkey, jdigest, out>>

-----------------------------------------------------------------------------
(* A submission *)

\* pruneScanIdemLocked, then the entry of a key whose task has left the table.
FreshKey(k) == idem[k] # NoTask /\ idem[k].age <= TTL
Live(k)  == FreshKey(k) /\ scans[idem[k].id] # NoTask
Pruned(key) == [k \in IdemKeys |-> IF ~FreshKey(k) \/ (k = key /\ ~Live(k)) THEN NoTask ELSE idem[k]]

\* adminSubmitScan: a replay, or a conflict of its parameters, is answered
\* with the task there is; otherwise the worker gate must be open.
Submit(j, key, digest) ==
  /\ TaskAt(j, "idle")
  /\ IF key # NoTask /\ Live(key)
     THEN idem' = Pruned(key) /\ UNCHANGED jobVars
     ELSE /\ life = "up"
          /\ idem' = IF key = NoTask THEN idem ELSE Pruned(key)
          /\ jkey' = [jkey EXCEPT ![j] = key] /\ jdigest' = [jdigest EXCEPT ![j] = digest]
          /\ GotoTask(j, "missed") /\ UNCHANGED <<jid, out>>
  /\ UNCHANGED <<life, nextID, rec, listed, scans, order, scanner, lostAnswers>>

StartScan(j) == TaskAt(j, "missed") /\ StartTask(j, "started")

\* Seeded fault: the oldest task makes room, finished or not.
FirstOfAll == Min({1, Len(order)})

\* The finished task that was registered first makes room; if none has
\* finished there is no room.
FirstFinished == SelectInSeq(order, Finished)

Room == Len(order) < Capacity \/ FirstFinished > 0
Victims == IF Len(order) < Capacity THEN {} ELSE {order[FirstFinished]}
Remaining == IF Len(order) < Capacity THEN order ELSE RemoveAt(order, FirstFinished)

\* The registration, once room is made for it.
Insert(j, victims) ==
  LET i    == jid[j]
      kept == [k \in IdemKeys |-> IF Pruned(jkey[j])[k] # NoTask /\ Pruned(jkey[j])[k].id \in victims
                              THEN NoTask ELSE Pruned(jkey[j])[k]]
      left == [k \in Ids |-> IF k \in victims THEN NoTask ELSE scans[k]]
  IN  \/ /\ Upsert(i, "queued")
         /\ scans' = [left EXCEPT ![i] = [status |-> "queued", key |-> jkey[j], digest |-> jdigest[j]]]
         /\ order' = Append(Remaining, i)
         /\ idem' = IF jkey[j] = NoTask THEN kept ELSE [kept EXCEPT ![jkey[j]] = [id |-> i, age |-> 0]]
         /\ GotoTask(j, "queued")
      \/ /\ UpsertFails(i, "queued")
         /\ scans' = left /\ order' = Remaining /\ idem' = kept
         /\ GotoTask(j, "refused")

\* registerScanTask, in one critical section: the shutdown, the key again, a
\* scan that runs, the capacity, the record, and then the table.
Register(j) ==
  /\ TaskAt(j, "started")
  /\ IF life = "cancelled"
     THEN GotoTask(j, "refused") /\ UNCHANGED <<rec, scans, order, idem, lostAnswers>>
     ELSE IF (jkey[j] # NoTask /\ Live(jkey[j])) \/ scanner # NoTask \/ ~Room
     THEN idem' = Pruned(jkey[j]) /\ GotoTask(j, "refused") /\ UNCHANGED <<rec, scans, order, lostAnswers>>
     ELSE Insert(j, Victims)
  /\ UNCHANGED <<life, nextID, listed, scanner, jid, jkey, jdigest, out>>

\* A refused or replayed submission leaves its own task as skipped.
Refuse(j) ==
  /\ TaskAt(j, "refused") /\ FinishListed(jid[j], "skipped") /\ RestTask(j)
  /\ UNCHANGED <<life, nextID, tables>>

-----------------------------------------------------------------------------
(* The worker *)

SetStatus(i, status) ==
  scans' = IF scans[i] = NoTask THEN scans ELSE [scans EXCEPT ![i].status = status]

\* setScanTaskRunning
SetRunning(j) ==
  /\ TaskAt(j, "queued") /\ SetStatus(jid[j], "running") /\ Update(jid[j], "running")
  /\ GotoTask(j, "running")
  /\ UNCHANGED <<life, nextID, listed, order, idem, scanner, jid, jkey, jdigest, out>>

\* Seeded fault: the worker waits for the scan that runs.
BeginScanWaiting(j) ==
  /\ TaskAt(j, "running") /\ scanner = NoTask
  /\ scanner' = j /\ GotoTask(j, "scanning")
  /\ UNCHANGED <<life, nextID, rec, listed, scans, order, idem, jid, jkey, jdigest, out, lostAnswers>>

\* scanLibraries: another scan or the owner of the NFO lane may be in the way,
\* or there is no library to scan.
BeginScan(j) ==
  /\ TaskAt(j, "running")
  /\ \/ scanner = NoTask /\ scanner' = j /\ GotoTask(j, "scanning") /\ UNCHANGED out
     \/ /\ GotoTask(j, "ended") /\ UNCHANGED scanner
        /\ \E result \in Ended : out' = [out EXCEPT ![j] = result]
  /\ UNCHANGED <<life, nextID, rec, listed, scans, order, idem, jid, jkey, jdigest, lostAnswers>>

EndScan(j) ==
  /\ TaskAt(j, "scanning") /\ scanner' = NoTask
  /\ out' = [out EXCEPT ![j] = "done"]
  /\ GotoTask(j, "ended")
  /\ UNCHANGED <<life, nextID, rec, listed, scans, order, idem, jid, jkey, jdigest, lostAnswers>>

\* finishTask or finishTaskBusy on the list, ...
FinishTask(j) ==
  /\ TaskAt(j, "ended") /\ FinishListed(jid[j], out[j]) /\ GotoTask(j, "finishing")
  /\ UNCHANGED <<life, nextID, tables, jid, jkey, jdigest, out>>

\* ... then finishScanTask on the table and on the record.
FinishScan(j) ==
  /\ TaskAt(j, "finishing") /\ SetStatus(jid[j], out[j]) /\ Update(jid[j], out[j]) /\ RestTask(j)
  /\ UNCHANGED <<life, nextID, listed, order, idem, scanner>>

\* Any other task: a probe, a scrape, a backup, an edit, ...
StartOther(j) == TaskAt(j, "idle") /\ StartTask(j, "other")
FinishOther(j) ==
  /\ TaskAt(j, "other") /\ \E result \in Ended : FinishListed(jid[j], result)
  /\ RestTask(j)
  /\ UNCHANGED <<life, nextID, tables>>

\* A scan of the old endpoint, of cron or of a scrape run.
ScanElsewhere ==
  /\ Alive
  /\ \/ scanner = NoTask /\ scanner' = "elsewhere"
     \/ scanner = "elsewhere" /\ scanner' = NoTask
  /\ UNCHANGED <<life, nextID, rec, listed, scans, order, idem, jobVars, lostAnswers>>

-----------------------------------------------------------------------------
(* The process *)

AgeKeys ==
  /\ Alive
  /\ idem' = [k \in IdemKeys |-> IF idem[k] # NoTask /\ idem[k].age <= TTL
                             THEN [idem[k] EXCEPT !.age = @ + 1] ELSE idem[k]]
  /\ UNCHANGED <<life, nextID, rec, listed, scans, order, scanner, jobVars, lostAnswers>>

Cancel ==
  /\ life = "up" /\ life' = "cancelled"
  /\ UNCHANGED <<nextID, rec, tables, jobVars, lostAnswers>>

\* The process exits, or is killed: what is in memory is gone.
ExitProcess ==
  /\ Alive /\ life' = "down" /\ nextID' = 0 /\ listed' = {}
  /\ scans' = NothingIn(Ids) /\ order' = <<>> /\ idem' = NothingIn(IdemKeys) /\ scanner' = NoTask
  /\ place' = [j \in Jobs |-> "idle"] /\ jid' = NothingIn(Jobs) /\ jkey' = NothingIn(Jobs)
  /\ jdigest' = NothingIn(Jobs) /\ out' = NothingIn(Jobs)
  /\ UNCHANGED <<rec, lostAnswers>>

Interrupted == [i \in Ids |-> IF rec[i] \in {"queued", "running"} THEN "interrupted" ELSE rec[i]]

\* newApp: MarkInterruptedTaskRecords and MaxTaskRecordID.
StartProcess ==
  /\ life = "down" /\ life' = "up" /\ rec' = Interrupted
  /\ nextID' = Max({0} \cup RecordedTask)
  /\ UNCHANGED <<tables, jobVars, lostAnswers>>

WorkTask(j) == StartScan(j) \/ Register(j) \/ Refuse(j) \/ SetRunning(j) \/ BeginScan(j)
           \/ EndScan(j) \/ FinishTask(j) \/ FinishScan(j)

TasksNext ==
  \/ \E j \in Jobs : \/ \E key \in IdemKeys \cup {NoTask}, digest \in Digests : Submit(j, key, digest)
                     \/ WorkTask(j) \/ StartOther(j) \/ FinishOther(j)
  \/ ScanElsewhere \/ AgeKeys \/ Cancel \/ ExitProcess \/ StartProcess

TasksSpec == TasksInit /\ [][TasksNext]_taskVars

\* Workers are scheduled and a scan ends; another one's scan may go on.
TasksFairSpec == TasksSpec /\ \A j \in Jobs : WF_taskVars(WorkTask(j))

-----------------------------------------------------------------------------
(* Properties *)

\* A client who was told 202 finds his task until it has ended: full tables
\* turn new tasks away instead of forgetting one that runs.
AcceptedStaysVisible ==
  \A j \in Jobs : Accepted(j) => scans[jid[j]] # NoTask /\ ~Finished(jid[j])

\* Within its hour a key stands for one task: no second one is made for it,
\* whichever requests race, as long as the first is in the table.
OneTaskPerKey ==
  [][\A k \in IdemKeys : Live(k) /\ life' # "down" /\ idem'[k] # NoTask /\ idem'[k].id # idem[k].id
       => scans'[idem[k].id] = NoTask]_taskVars

\* A record that has ended never runs again: an id is not given to a second
\* task, not even after a restart.
TerminalStays ==
  [][\A i \in Ids : rec[i] \in Terminal => rec'[i] \in Terminal \cup {NoTask}]_taskVars

\* The record of a scan that has ended says so, even when newer tasks have
\* pushed it off the list, unless the database refused a write.
FinishedIsRecorded ==
  \A i \in InTable : Finished(i) => rec[i] \in Terminal \cup {NoTask} \/ i \in lostAnswers

\* What was promised of a task: it is there until it ends, its end is recorded
\* and stays so, and its key stands for it.
TasksAreKept ==
  [](AcceptedStaysVisible /\ FinishedIsRecorded) /\ OneTaskPerKey /\ TerminalStays

\* An accepted scan ends: it is never left waiting for another scan.
AcceptedEnds == \A j \in Jobs : place[j] = "queued" ~> place[j] = "idle"

\* API-CONTRACT.md:251: a restart marks unfinished tasks as interrupted, so a
\* record that is not terminal is one of a task in flight.
UnfinishedIsInFlight ==
  \A i \in Ids : Alive /\ rec[i] \in {"queued", "running"} /\ i \notin lostAnswers
    => \E j \in Jobs : jid[j] = i
=============================================================================
