---------------------------- MODULE Maintenance ----------------------------
(***************************************************************************)
(* The tasks of the server that read, change and rewrite the same NFO      *)
(* files, the lane that keeps them apart, and the bounded shutdown that    *)
(* waits for them before it closes the database                            *)
(* (internal/server: scrape.go, admin.go, probe.go, translation.go,        *)
(* artwork.go, sprites.go, subtitle_marks.go, scheduled*.go, server.go;    *)
(* cmd/metatube/main.go).                                                  *)
(*                                                                         *)
(* A slot j of Jobs is a goroutine that runs one task of some kind, leaves *)
(* and may be reused.  host[j] says who waits for it at shutdown:          *)
(*   "worker"  registered in workerWG through beginWorker,                 *)
(*   "cron"    a job of the scheduler, waited for by cron.Stop,            *)
(*   "http"    the handler itself, drained by http.Server.Shutdown.        *)
(***************************************************************************)
EXTENDS Integers, FiniteSets

CONSTANTS Jobs,    \* slots: the tasks that can be in flight together
          Kinds    \* the kinds of task an instance exercises

AllKinds == {"scan", "probe", "probe_item", "scrape", "scrape_one",
             "scrape_avatars", "translate", "artwork", "sprites", "edit",
             "subtitle_marks"}

ASSUME JobsAssumption == IsFiniteSet(Jobs) /\ Kinds \subseteq AllKinds

\* Who may host a task: the callers of beginWorker, the scheduler's runner
\* and the handlers that work before they answer.
Hosts == {"worker", "cron", "http"}
HostsOf(kind) ==
  CASE kind = "scan" -> Hosts
    [] kind \in {"probe", "scrape", "scrape_avatars", "translate", "sprites"} -> {"worker", "cron"}
    [] kind \in {"artwork", "subtitle_marks"} -> {"worker"}
    [] kind \in {"probe_item", "scrape_one", "edit"} -> {"http"}

\* The name a task claims the lane under.
LaneOf(kind) ==
  CASE kind = "probe_item" -> "probe"
    [] kind = "scrape_one" -> "scrape"
    [] OTHER -> kind

Lanes     == {LaneOf(kind) : kind \in AllKinds}
Exclusive == {"scrape", "edit", "artwork", "sprites", "subtitle_marks"}
Free      == "free"      \* nfoOwner = ""

\* The progress snapshots whose Running flag admits one run at a time.
Statuses    == {"scan", "probe", "scrape", "translate", "artwork", "sprites"}
ScrapeKinds == {"scrape", "scrape_avatars"}
ItemKinds   == {"probe_item", "scrape_one", "edit", "subtitle_marks"}
\* Kinds that set Running and take the lane in one critical section, and of
\* these the ones that also give both back in one.
FlagKinds   == {"probe", "translate", "artwork", "sprites"}
FusedKinds  == {"translate", "artwork", "sprites"}

\* None written; written, and no movie counted as a success; counted, and not
\* in the index; in the index.
SaveStates == {"none", "committed", "unindexed", "indexed"}

PCs == {"idle", "admitted", "checked", "claiming", "writing", "unflagged",
        "rescan", "rescanning", "rescan_unflagged", "closing", "leaving"}
Phases == {"serving", "gate_closed", "sched_stopped", "cancelled", "closed", "killed"}

VARIABLES
  nfoOwner,      \* App.nfoOwner
  nfoRefs,       \* App.nfoRefs
  running,       \* xxxStatus.Running, by status
  refreshFailed, \* scrapeStatus.IndexRefreshFailed
  scrapeCancelled, \* the administrator cancelled the scrape run in progress
  pc, kind, host,
  saved,         \* what became of the NFOs a scrape run wrote: see SaveStates
  gateClosed,    \* workerGate.shuttingDown
  workers,       \* the counter of workerWG
  phase,         \* how far main has come
  httpOpen,      \* the listener accepts requests
  join           \* joinBackground: "idle", "workers", "sched" or "done"

laneVars == <<nfoOwner, nfoRefs>>
scrapeVars == <<refreshFailed, scrapeCancelled>>
taskVars == <<running, scrapeVars>>
jobVars  == <<pc, kind, host, saved>>
mainVars == <<gateClosed, phase, httpOpen, join>>
vars     == <<laneVars, taskVars, jobVars, workers, mainVars>>

-----------------------------------------------------------------------------
(* State predicates *)

RootCancelled == phase \in {"cancelled", "closed", "killed"}
CronStopped   == phase \notin {"serving", "gate_closed"}
Alive         == phase # "killed"

\* The context of the scrape run in progress: a child of rootCtx with a cancel
\* function of its own.
RunCancelled == scrapeCancelled \/ RootCancelled

\* The pcs at which a task holds the lane, and the ones at which it reads and
\* rewrites the files under it (a scan reads them and deletes index rows).
Holding == {"writing", "unflagged", "rescanning", "rescan_unflagged"}
Writing == {"writing", "rescanning"}

Holders == {j \in Jobs : pc[j] \in Holding}
LaneAt(j) == IF pc[j] \in {"rescanning", "rescan_unflagged"} THEN "scan" ELSE LaneOf(kind[j])

Active      == {j \in Jobs : pc[j] # "idle"}
Hosted(h)   == {j \in Active : host[j] = h}

\* The Running flags a task has raised and not yet lowered.
Raised(j) ==
  {s \in Statuses :
     \/ s = "scrape" /\ kind[j] \in ScrapeKinds
                     /\ pc[j] \in {"claiming", "writing", "rescan", "rescanning",
                                   "rescan_unflagged", "closing"}
     \/ s = "scan" /\ pc[j] = "rescanning"
     \/ s = kind[j] /\ pc[j] = "writing"}

Typed ==
  /\ nfoOwner \in Lanes \cup {Free}
  /\ nfoRefs \in Nat
  /\ running \in [Statuses -> BOOLEAN]
  /\ refreshFailed \in BOOLEAN /\ scrapeCancelled \in BOOLEAN
  /\ pc \in [Jobs -> PCs]
  /\ kind \in [Jobs -> AllKinds \cup {"none"}]
  /\ host \in [Jobs -> Hosts \cup {"none"}]
  /\ saved \in [Jobs -> SaveStates]
  /\ gateClosed \in BOOLEAN
  /\ workers \in Int
  /\ phase \in Phases
  /\ httpOpen \in BOOLEAN
  /\ join \in {"idle", "workers", "sched", "done"}

\* Types, with the counter of the WaitGroup never below zero (Done panics).
TypeOK == Typed /\ workers \in Nat

Init ==
  /\ nfoOwner = Free /\ nfoRefs = 0
  /\ running = [s \in Statuses |-> FALSE] /\ refreshFailed = FALSE
  /\ scrapeCancelled = FALSE
  /\ pc = [j \in Jobs |-> "idle"]
  /\ kind = [j \in Jobs |-> "none"] /\ host = [j \in Jobs |-> "none"]
  /\ saved = [j \in Jobs |-> "none"]
  /\ gateClosed = FALSE /\ workers = 0
  /\ phase = "serving" /\ httpOpen = TRUE /\ join = "idle"

-----------------------------------------------------------------------------
(* The lane: claimNFO and releaseNFO, each under nfoGate *)

\* Seeded fault: same-name sharing for every kind, the exclusive ones too.
ClaimableShared(lane) == nfoOwner \in {Free, lane}

Claimable(lane) == nfoOwner = Free \/ (nfoOwner = lane /\ lane \notin Exclusive)

ClaimNFO(lane) ==
  /\ Claimable(lane)
  /\ nfoOwner' = lane
  /\ nfoRefs' = nfoRefs + 1

\* Seeded fault: the first to finish clears the owner, whoever else holds on.
ReleaseNFOAtOnce(lane) ==
  IF nfoOwner # lane THEN UNCHANGED laneVars
  ELSE nfoOwner' = Free /\ nfoRefs' = 0

ReleaseNFO(lane) ==
  IF nfoOwner # lane THEN UNCHANGED laneVars
  ELSE /\ nfoRefs' = IF nfoRefs > 0 THEN nfoRefs - 1 ELSE 0
       /\ nfoOwner' = IF nfoRefs' = 0 THEN Free ELSE nfoOwner

-----------------------------------------------------------------------------
(* A task's steps *)

At(j, loc)   == Alive /\ pc[j] = loc
Goto(j, loc) == pc' = [pc EXCEPT ![j] = loc] /\ UNCHANGED <<kind, host>>

\* A request, a registered worker or a due cron job enters.
Enter(j, k, h) ==
  /\ At(j, "idle")
  /\ \/ h = "worker" /\ ~gateClosed /\ workers' = workers + 1
     \/ h = "cron" /\ ~CronStopped /\ UNCHANGED workers
     \/ h = "http" /\ httpOpen /\ UNCHANGED workers
  /\ pc' = [pc EXCEPT ![j] = "admitted"]
  /\ kind' = [kind EXCEPT ![j] = k]
  /\ host' = [host EXCEPT ![j] = h]
  /\ UNCHANGED <<laneVars, taskVars, saved, mainVars>>

\* beginScan: Running and the lane under scanMu.  It does not look at rootCtx:
\* a scan that starts late ends at once because its context is cancelled.
BeginScan(j) ==
  /\ At(j, "admitted") /\ kind[j] = "scan"
  /\ ~running["scan"] /\ ClaimNFO("scan")
  /\ running' = [running EXCEPT !["scan"] = TRUE]
  /\ Goto(j, "writing")
  /\ UNCHANGED <<scrapeVars, saved, workers, mainVars>>

\* beginProbe, beginTranslation and the artwork and sprites handlers.
BeginFlagged(j) ==
  /\ At(j, "admitted") /\ kind[j] \in FlagKinds
  /\ ~RootCancelled /\ ~running[kind[j]] /\ ClaimNFO(kind[j])
  /\ running' = [running EXCEPT ![kind[j]] = TRUE]
  /\ Goto(j, "writing")
  /\ UNCHANGED <<scrapeVars, saved, workers, mainVars>>

\* The handlers that hold the lane for the length of one request.
BeginItem(j) ==
  /\ At(j, "admitted") /\ kind[j] \in ItemKinds
  /\ ClaimNFO(LaneOf(kind[j]))
  /\ Goto(j, "writing")
  /\ UNCHANGED <<taskVars, saved, workers, mainVars>>

\* The entry points of a scrape and of an avatar run look at the owner first ...
CheckLane(j) ==
  /\ At(j, "admitted") /\ kind[j] \in ScrapeKinds
  /\ nfoOwner = Free
  /\ Goto(j, "checked")
  /\ UNCHANGED <<laneVars, taskVars, saved, workers, mainVars>>

\* ... then take the Running flag, after which the caller is told 202 ...
BeginScrape(j) ==
  /\ At(j, "checked")
  /\ ~RootCancelled /\ ~running["scrape"]
  /\ running' = [running EXCEPT !["scrape"] = TRUE]
  /\ refreshFailed' = FALSE /\ scrapeCancelled' = FALSE
  /\ Goto(j, "claiming")
  /\ UNCHANGED <<laneVars, saved, workers, mainVars>>

\* ... and claim the lane in the goroutine, where it may be gone by now.
ClaimForScrape(j) ==
  /\ At(j, "claiming")
  /\ \/ ClaimNFO(kind[j]) /\ Goto(j, "writing")
     \/ ~Claimable(kind[j]) /\ Goto(j, "closing") /\ UNCHANGED laneVars
  /\ UNCHANGED <<taskVars, saved, workers, mainVars>>

\* Every other refusal: 409 or 503, errScanBusy or ErrBusy.
Refused(j) ==
  /\ \/ /\ At(j, "admitted")
        /\ CASE kind[j] = "scan" -> running["scan"] \/ ~Claimable("scan")
             [] kind[j] \in FlagKinds -> RootCancelled \/ running[kind[j]] \/ ~Claimable(kind[j])
             [] kind[j] \in ItemKinds -> ~Claimable(LaneOf(kind[j]))
             [] kind[j] \in ScrapeKinds -> nfoOwner # Free
     \/ At(j, "checked") /\ (RootCancelled \/ running["scrape"])
  /\ Goto(j, "leaving")
  /\ UNCHANGED <<laneVars, taskVars, saved, workers, mainVars>>

\* Returns before the begin step: an empty selection, a failed lookup, a bad
\* configuration.
NothingToDo(j) ==
  /\ At(j, "admitted") \/ At(j, "checked")
  /\ Goto(j, "leaving")
  /\ UNCHANGED <<laneVars, taskVars, saved, workers, mainVars>>

\* Apply commits an NFO that the index does not know yet; the write in flight
\* at a cancellation still commits.
SaveNFO(j) ==
  /\ At(j, "writing") /\ kind[j] = "scrape" /\ saved[j] = "none"
  /\ saved' = [saved EXCEPT ![j] = "committed"]
  /\ UNCHANGED <<laneVars, taskVars, pc, kind, host, workers, mainVars>>

\* The movie counts as a success, unless Apply finds the run cancelled after
\* the commit and returns an error, for which it counts as a failure.
CountSaved(j) ==
  /\ At(j, "writing") /\ saved[j] = "committed"
  /\ ~RunCancelled
  /\ saved' = [saved EXCEPT ![j] = "unindexed"]
  /\ UNCHANGED <<laneVars, taskVars, pc, kind, host, workers, mainVars>>

\* adminScrapeCancel, while a run is in progress.
CancelScrape ==
  /\ Alive /\ httpOpen
  /\ running["scrape"] /\ ~scrapeCancelled
  /\ scrapeCancelled' = TRUE
  /\ UNCHANGED <<laneVars, running, refreshFailed, jobVars, workers, mainVars>>

\* endScan and the tail of runProbe lower the flag first, on its own mutex ...
LowerFlag(j) ==
  /\ At(j, "writing") /\ kind[j] \in {"scan", "probe"}
  /\ running' = [running EXCEPT ![kind[j]] = FALSE]
  /\ Goto(j, "unflagged")
  /\ UNCHANGED <<laneVars, scrapeVars, saved, workers, mainVars>>

\* ... and give the lane back after it.
ReleaseAfterFlag(j) ==
  /\ At(j, "unflagged")
  /\ ReleaseNFO(kind[j])
  /\ Goto(j, "leaving")
  /\ UNCHANGED <<taskVars, saved, workers, mainVars>>

\* Translation, artwork and sprites do both under the mutex of their status.
EndFused(j) ==
  /\ At(j, "writing") /\ kind[j] \in FusedKinds
  /\ running' = [running EXCEPT ![kind[j]] = FALSE]
  /\ ReleaseNFO(kind[j])
  /\ Goto(j, "leaving")
  /\ UNCHANGED <<scrapeVars, saved, workers, mainVars>>

EndItem(j) ==
  /\ At(j, "writing") /\ kind[j] \in ItemKinds
  /\ ReleaseNFO(LaneOf(kind[j]))
  /\ Goto(j, "leaving")
  /\ UNCHANGED <<taskVars, saved, workers, mainVars>>

\* A scrape or avatar run leaves the lane when every movie in flight is counted;
\* a success calls for a full scan, a saved movie that counts as a failure does
\* not.
EndWriting(j) ==
  /\ At(j, "writing") /\ kind[j] \in ScrapeKinds
  /\ saved[j] = "committed" => RunCancelled
  /\ ReleaseNFO(kind[j])
  /\ Goto(j, IF saved[j] = "unindexed" THEN "rescan" ELSE "closing")
  /\ UNCHANGED <<taskVars, saved, workers, mainVars>>

\* Seeded fault: the refused scan is not recorded.
RescanSkipped(j) ==
  /\ At(j, "rescan")
  /\ Goto(j, "closing")
  /\ UNCHANGED <<laneVars, taskVars, saved, workers, mainVars>>

\* executeScrape calls scanLibraries: it starts, or somebody else has the scan
\* status or the lane, or the list of libraries cannot be read.
BeginRescan(j) ==
  /\ At(j, "rescan")
  /\ ~running["scan"] /\ ClaimNFO("scan")
  /\ running' = [running EXCEPT !["scan"] = TRUE]
  /\ Goto(j, "rescanning")
  /\ UNCHANGED <<scrapeVars, saved, workers, mainVars>>

RescanRefused(j) ==
  /\ At(j, "rescan")
  /\ refreshFailed' = TRUE
  /\ Goto(j, "closing")
  /\ UNCHANGED <<laneVars, running, scrapeCancelled, saved, workers, mainVars>>

\* The scan runs on rootCtx, so it can only complete before the cancellation.
EndRescan(j) ==
  /\ At(j, "rescanning")
  /\ \/ ~RootCancelled /\ saved' = [saved EXCEPT ![j] = "indexed"]
     \/ UNCHANGED saved
  /\ running' = [running EXCEPT !["scan"] = FALSE]
  /\ Goto(j, "rescan_unflagged")
  /\ UNCHANGED <<laneVars, scrapeVars, workers, mainVars>>

ReleaseRescan(j) ==
  /\ At(j, "rescan_unflagged")
  /\ ReleaseNFO("scan")
  /\ refreshFailed' = (refreshFailed \/ saved[j] # "indexed")
  /\ Goto(j, "closing")
  /\ UNCHANGED <<running, scrapeCancelled, saved, workers, mainVars>>

\* endScrape: the run is over, and its context with it.
EndScrape(j) ==
  /\ At(j, "closing")
  /\ running' = [running EXCEPT !["scrape"] = FALSE]
  /\ scrapeCancelled' = FALSE
  /\ Goto(j, "leaving")
  /\ UNCHANGED <<laneVars, refreshFailed, saved, workers, mainVars>>

\* Seeded faults: the registration is never given back; it is given back by
\* tasks that never had one.
LeaveRegistered(j) ==
  /\ At(j, "leaving")
  /\ pc' = [pc EXCEPT ![j] = "idle"]
  /\ kind' = [kind EXCEPT ![j] = "none"] /\ host' = [host EXCEPT ![j] = "none"]
  /\ saved' = [saved EXCEPT ![j] = "none"]
  /\ UNCHANGED <<laneVars, taskVars, workers, mainVars>>
LeaveTwice(j) ==
  /\ At(j, "leaving")
  /\ pc' = [pc EXCEPT ![j] = "idle"]
  /\ kind' = [kind EXCEPT ![j] = "none"] /\ host' = [host EXCEPT ![j] = "none"]
  /\ saved' = [saved EXCEPT ![j] = "none"]
  /\ workers' = workers - 1
  /\ UNCHANGED <<laneVars, taskVars, mainVars>>

\* The deferred release of the registration, the end of the cron job or of the
\* handler.  Until here the task may write its record to the database.
Leave(j) ==
  /\ At(j, "leaving")
  /\ pc' = [pc EXCEPT ![j] = "idle"]
  /\ kind' = [kind EXCEPT ![j] = "none"] /\ host' = [host EXCEPT ![j] = "none"]
  /\ saved' = [saved EXCEPT ![j] = "none"]
  /\ workers' = IF host[j] = "worker" THEN workers - 1 ELSE workers
  /\ UNCHANGED <<laneVars, taskVars, mainVars>>

Begin(j) == BeginScan(j) \/ BeginFlagged(j) \/ BeginItem(j) \/ CheckLane(j)
            \/ BeginScrape(j) \/ ClaimForScrape(j) \/ Refused(j) \/ NothingToDo(j)
Finish(j) == LowerFlag(j) \/ ReleaseAfterFlag(j) \/ EndFused(j) \/ EndItem(j)
             \/ CountSaved(j) \/ EndWriting(j) \/ BeginRescan(j) \/ RescanRefused(j)
             \/ EndRescan(j) \/ ReleaseRescan(j) \/ EndScrape(j) \/ Leave(j)

-----------------------------------------------------------------------------
(* main: BeginShutdown, then the two drains, then Close or a forced exit *)

mainOnly == <<laneVars, taskVars, jobVars, workers>>

\* stopWorkerAdmission, before anything else
CloseGate ==
  /\ phase = "serving"
  /\ gateClosed' = TRUE /\ phase' = "gate_closed"
  /\ UNCHANGED <<mainOnly, httpOpen, join>>

StopScheduler ==
  /\ phase = "gate_closed" /\ phase' = "sched_stopped"
  /\ UNCHANGED <<mainOnly, gateClosed, httpOpen, join>>

\* probeCancel, scrapeCancel and rootCancel; main goes on to the drains.
CancelRoot ==
  /\ phase = "sched_stopped" /\ phase' = "cancelled"
  /\ join' = "workers"
  /\ UNCHANGED <<mainOnly, gateClosed, httpOpen>>

\* srv.Shutdown closes the listener while the other drain is already waiting.
StopListening ==
  /\ phase = "cancelled" /\ httpOpen
  /\ httpOpen' = FALSE
  /\ UNCHANGED <<mainOnly, gateClosed, phase, join>>

\* Seeded fault: Close waits for the start-up goroutines and not for workers.
WorkersIgnored ==
  /\ phase = "cancelled" /\ join = "workers"
  /\ join' = "sched"
  /\ UNCHANGED <<mainOnly, gateClosed, phase, httpOpen>>

\* workerWG.Wait returns, then the context of cron.Stop is done.
WorkersJoined ==
  /\ phase = "cancelled" /\ join = "workers" /\ workers = 0
  /\ join' = "sched"
  /\ UNCHANGED <<mainOnly, gateClosed, phase, httpOpen>>

SchedulerJoined ==
  /\ phase = "cancelled" /\ join = "sched" /\ Hosted("cron") = {}
  /\ join' = "done"
  /\ UNCHANGED <<mainOnly, gateClosed, phase, httpOpen>>

\* Both drains returned without error: Close, which ends with db.Close.
CloseDB ==
  /\ phase = "cancelled" /\ join = "done"
  /\ ~httpOpen /\ Hosted("http") = {}
  /\ phase' = "closed"
  /\ UNCHANGED <<mainOnly, gateClosed, httpOpen, join>>

\* shutdownBudget runs out first: os.Exit(1) with the database left open.
BudgetExpires ==
  /\ phase = "cancelled" /\ phase' = "killed"
  /\ UNCHANGED <<mainOnly, gateClosed, httpOpen, join>>

Drain == StopScheduler \/ CancelRoot \/ StopListening \/ WorkersJoined
         \/ SchedulerJoined \/ CloseDB

\* The process is gone.
Exited == phase \in {"closed", "killed"} /\ UNCHANGED vars

Next ==
  \/ \E j \in Jobs : \/ \E k \in Kinds : \E h \in HostsOf(k) : Enter(j, k, h)
                     \/ Begin(j) \/ SaveNFO(j) \/ Finish(j)
  \/ CancelScrape \/ CloseGate \/ Drain \/ BudgetExpires \/ Exited

Spec == Init /\ [][Next]_vars

\* Goroutines are scheduled, a task ends (its calls carry deadlines and
\* cancellable contexts), and main goes on once the shutdown began.  Nothing
\* has to arrive, and nothing has to go wrong.
FairSpec ==
  /\ Spec
  /\ \A j \in Jobs : WF_vars(Begin(j)) /\ WF_vars(Finish(j))
  /\ WF_vars(Drain)

-----------------------------------------------------------------------------
(* Properties *)

\* Two tasks rewrite NFO files together only if both are probes, which share
\* the lane on purpose: the lane, its shared names and the Running flags
\* together keep every other pair apart, across the gap in which a scan or a
\* probe has lowered its flag and still holds the lane.
WritersApart ==
  \A j, k \in Jobs :
    j # k /\ pc[j] \in Writing /\ pc[k] \in Writing
      => LaneAt(j) = "probe" /\ LaneAt(k) = "probe"

\* A progress snapshot belongs to one run: its flag is up exactly while one
\* task has it raised, so no run overwrites the counters of another.
OneRunPerStatus ==
  \A s \in Statuses :
    /\ running[s] <=> \E j \in Jobs : s \in Raised(j)
    /\ \A j, k \in Jobs : s \in Raised(j) \cap Raised(k) => j = k

\* The reference count is the number of holders and the owner is their name:
\* a release is never lost, nor taken from a task that still writes.
LaneCounted ==
  /\ nfoRefs = Cardinality(Holders)
  /\ nfoOwner = Free <=> Holders = {}
  /\ \A j \in Holders : LaneAt(j) = nfoOwner

\* db.Close never runs under a task, whoever hosts it.
DatabaseOutlivesTasks == phase = "closed" => Active = {}

\* Once workerWG.Wait may be running nothing is added to the group (sync's
\* "Add called concurrently with Wait"), and after it returned it stays empty.
NoAddDuringWait == [][join # "idle" => workers' <= workers]_vars

\* A scrape run that ends with files it saved missing from the index says so:
\* IndexRefreshFailed is set, whether the scan was refused, failed or was cut by
\* the shutdown.  The one exception is a run none of whose saved movies counts
\* as a success: it scans nothing and sets nothing, and it ends as cancelled.
UnindexedIsReported ==
  [][\A j \in Jobs : pc[j] = "closing" /\ pc'[j] = "leaving" =>
       /\ saved[j] = "unindexed" => refreshFailed'
       /\ saved[j] = "committed" => RunCancelled]_vars

\* The counted lane implements the lane with a set of holders.
Lane == INSTANCE NfoLane WITH owner <- nfoOwner, holders <- Holders
LaneImplemented == Lane!LaneSpec

\* A shutdown that began comes to an end without the help of the budget.
ShutdownEnds == phase # "serving" ~> phase \in {"closed", "killed"}

\* A task that was let in leaves, and gives the lane back on the way.
TasksLeave == \A j \in Jobs : pc[j] # "idle" ~> pc[j] = "idle" \/ ~Alive

\* Both: nobody waits for ever, neither a task for a lane nor the process for
\* its tasks.
TasksAndShutdownEnd == TasksLeave /\ ShutdownEnds
=============================================================================
