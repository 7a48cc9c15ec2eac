------------------------------- MODULE Backup -------------------------------
(***************************************************************************)
(* Backups (backup/backup.go, extra_backdrops.go, server/backup.go and      *)
(* cmd/embybackup).  The server and the command line write to one           *)
(* directory; a lock file keeps them apart and is taken over when its       *)
(* owner is dead.  A backup grows in a directory of its own and is renamed  *)
(* to the second in which it was started.  Processes stop anywhere, and a   *)
(* pid is used again, as that of a container's first process always is.     *)
(***************************************************************************)
EXTENDS Naturals, FiniteSets

CONSTANTS
  Writers,      \* pids of processes that run backup.Run, one run each at a time
  Retain,       \* backups kept
  NoLock,       \* there is no lock file
  Unwritten,    \* what a lock file says before its owner has written to it
  MaxSecond     \* bound: seconds that pass

ASSUME BackupAssumption ==
  /\ Retain \in Nat \ {0} /\ MaxSecond \in Nat \ {0}
  /\ Unwritten \notin Writers

VARIABLES
  second,       \* the clock that names backups
  backups,      \* per name: none, a part of a backup, or all of it
  lockFile,     \* who created the lock file, the pid it says, 30 minutes old or not
  run,          \* per writer: where backup.Run is, its name, its stage, what to prune
  up,           \* pids of processes that are alive
  twice         \* history: a backup has been replaced by one of the same second

backupVars == <<second, backups, lockFile, run, up, twice>>

Stamps == 1..MaxSecond
Free == [at |-> "out", name |-> 0, stage |-> "none", old |-> {}]
Holding == {"created", "locked", "staged", "snapshot", "checked", "copied", "replaced",
            "published", "pruning"}

BackupInit ==
  /\ second = 1 /\ backups = [n \in Stamps |-> "none"] /\ lockFile = NoLock
  /\ run = [w \in Writers |-> Free] /\ up = Writers /\ twice = FALSE

PutRun(w, r) == run' = [run EXCEPT ![w] = r]
Move(w, from, to) ==
  w \in up /\ run[w].at = from /\ PutRun(w, [run[w] EXCEPT !.at = to])
StageIs(w, from, to, what) ==
  w \in up /\ run[w].at = from /\ PutRun(w, [run[w] EXCEPT !.at = to, !.stage = what])

-----------------------------------------------------------------------------
(* acquireOutputLock *)

\* The name is the time before the lock is asked for.
StartBackup(w) ==
  /\ w \in up /\ run[w].at = "out"
  /\ PutRun(w, [Free EXCEPT !.at = "asking", !.name = second])
  /\ UNCHANGED <<second, backups, lockFile, up, twice>>

\* O_CREATE|O_EXCL, at first and again after a stale file has been dropped.
CreateLock(w) ==
  /\ Move(w, "asking", "created") \/ Move(w, "dropped", "created")
  /\ lockFile = NoLock /\ lockFile' = [of |-> w, pid |-> Unwritten, old |-> FALSE]
  /\ UNCHANGED <<second, backups, up, twice>>

\* The pid is written into the file that was created, which another process
\* may have removed from the directory meanwhile.
WritePid(w) ==
  /\ Move(w, "created", "locked")
  /\ lockFile' = IF lockFile # NoLock /\ lockFile.of = w
                 THEN [lockFile EXCEPT !.pid = w] ELSE lockFile
  /\ UNCHANGED <<second, backups, up, twice>>

\* dropStaleLock: dead owners are known at once, unknown ones after a while.
Stale(file) ==
  \/ file.pid # Unwritten /\ file.pid \notin up
  \/ file.pid = Unwritten /\ file.old

\* The first O_EXCL has failed; the file may be gone when it is looked at.
FindLock(w) ==
  /\ lockFile # NoLock /\ Move(w, "asking", "found")
  /\ UNCHANGED <<second, backups, lockFile, up, twice>>
LockGone(w) ==
  /\ lockFile = NoLock /\ Move(w, "found", "dropped")
  /\ UNCHANGED <<second, backups, lockFile, up, twice>>

\* A lock that is not stale, or the second O_EXCL: busy.
RefuseBackup(w) ==
  /\ lockFile # NoLock
  /\ Move(w, "dropped", "out") \/ (Move(w, "found", "out") /\ ~Stale(lockFile))
  /\ UNCHANGED <<second, backups, lockFile, up, twice>>

\* The verdict is about the file that was read ...
JudgeLock(w) ==
  /\ lockFile # NoLock /\ Stale(lockFile) /\ Move(w, "found", "judged")
  /\ UNCHANGED <<second, backups, lockFile, up, twice>>

\* ... the removal takes whatever file has the path.
DropLock(w) ==
  /\ Move(w, "judged", "dropped") /\ lockFile' = NoLock
  /\ UNCHANGED <<second, backups, up, twice>>

-----------------------------------------------------------------------------
(* Run, with the lock *)

\* Mkdir of a directory with a random suffix, which nobody else uses.
MakeStage(w) ==
  /\ StageIs(w, "locked", "staged", "part")
  /\ UNCHANGED <<second, backups, lockFile, up, twice>>

\* VACUUM INTO.
Snapshot(w) ==
  /\ Move(w, "staged", "snapshot")
  /\ UNCHANGED <<second, backups, lockFile, up, twice>>

\* The integrity check of the copy: a damaged one ends the run.
SnapshotIsWhole(w) ==
  /\ Move(w, "snapshot", "checked")
  /\ UNCHANGED <<second, backups, lockFile, up, twice>>

\* The NFO files and backdrops; any error ends the run.
CopyMedia(w) ==
  /\ StageIs(w, "checked", "copied", "all")
  /\ UNCHANGED <<second, backups, lockFile, up, twice>>

\* RemoveAll of an earlier backup of the same second.
Replace(w) ==
  /\ Move(w, "copied", "replaced")
  /\ backups' = [backups EXCEPT ![run[w].name] = "none"]
  /\ twice' = (twice \/ backups[run[w].name] # "none")
  /\ UNCHANGED <<second, lockFile, up>>

\* Rename; it fails if there is such a directory again.
PublishBackup(w) ==
  /\ StageIs(w, "replaced", "published", "none")
  /\ backups[run[w].name] = "none"
  /\ backups' = [backups EXCEPT ![run[w].name] = run[w].stage]
  /\ UNCHANGED <<second, lockFile, up, twice>>

Taken == {n \in Stamps : backups[n] # "none"}

\* Seeded fault: a backup is counted among those that are younger than it.
TooOldByOne == {n \in Taken : Cardinality({m \in Taken : m >= n}) >= Retain}

TooOld == {n \in Taken : Cardinality({m \in Taken : m > n}) >= Retain}

\* prune: the names are listed once ...
ListBackups(w) ==
  /\ w \in up /\ run[w].at = "published"
  /\ PutRun(w, [run[w] EXCEPT !.at = "pruning", !.old = TooOld])
  /\ UNCHANGED <<second, backups, lockFile, up, twice>>

\* ... and removed oldest first, file by file: an error leaves a part.
Prune(w) ==
  /\ w \in up /\ run[w].at = "pruning"
  /\ \E n \in run[w].old, left \in {"none", "part"} :
       /\ \A m \in run[w].old : n <= m
       /\ backups' = [backups EXCEPT ![n] = left]
       /\ PutRun(w, [run[w] EXCEPT !.old = IF left = "none" THEN @ \ {n} ELSE {}])
  /\ UNCHANGED <<second, lockFile, up, twice>>

\* A removal of the earlier backup of the same second that ends half way.
HalfReplace(w) ==
  /\ run[w].at = "copied" /\ backups[run[w].name] # "none"
  /\ backups' = [backups EXCEPT ![run[w].name] = "part"] /\ twice' = TRUE

\* The deferred functions: the stage of a run that failed is removed, and the
\* lock file by its path.
LeaveBackup(w) == run' = [run EXCEPT ![w] = Free] /\ lockFile' = NoLock

FinishBackup(w) ==
  /\ w \in up /\ run[w].at = "pruning" /\ run[w].old = {} /\ LeaveBackup(w)
  /\ UNCHANGED <<second, backups, up, twice>>
FailBackup(w) ==
  /\ w \in up /\ run[w].at \in Holding /\ LeaveBackup(w)
  /\ UNCHANGED <<backups, twice>> \/ HalfReplace(w)
  /\ UNCHANGED <<second, up>>

-----------------------------------------------------------------------------

TickBackup ==
  /\ second < MaxSecond /\ second' = second + 1
  /\ UNCHANGED <<backups, lockFile, run, up, twice>>

\* A process dies with its files left as they are.
Die(w) ==
  /\ w \in up /\ up' = up \ {w} /\ run' = [run EXCEPT ![w] = Free]
  /\ UNCHANGED <<backups, twice>> \/ HalfReplace(w)
  /\ UNCHANGED <<second, lockFile>>
Reboot(w) ==
  /\ w \notin up /\ up' = up \cup {w}
  /\ UNCHANGED <<second, backups, lockFile, run, twice>>
\* Half an hour passes; nobody takes that long to write a pid.
GrowOld ==
  /\ lockFile # NoLock /\ ~lockFile.old /\ \A w \in Writers : run[w].at # "created"
  /\ lockFile' = [lockFile EXCEPT !.old = TRUE]
  /\ UNCHANGED <<second, backups, run, up, twice>>

BackupNext ==
  \/ \E w \in Writers :
       \/ StartBackup(w) \/ CreateLock(w) \/ WritePid(w) \/ FindLock(w)
       \/ LockGone(w) \/ RefuseBackup(w) \/ JudgeLock(w) \/ DropLock(w)
       \/ MakeStage(w) \/ Snapshot(w) \/ SnapshotIsWhole(w)
       \/ CopyMedia(w) \/ Replace(w) \/ PublishBackup(w)
       \/ ListBackups(w) \/ Prune(w)
       \/ FinishBackup(w) \/ FailBackup(w) \/ Die(w) \/ Reboot(w)
  \/ TickBackup \/ GrowOld

BackupSpec == BackupInit /\ [][BackupNext]_backupVars
-----------------------------------------------------------------------------
(* Properties *)

BackupTypeOK ==
  /\ second \in Stamps /\ backups \in [Stamps -> {"none", "part", "all"}]
  /\ lockFile \in [of : Writers, pid : Writers \cup {Unwritten}, old : BOOLEAN]
                  \cup {NoLock}
  /\ \A w \in Writers : run[w].name \in Stamps \cup {0} /\ run[w].old \subseteq Stamps
  /\ up \subseteq Writers /\ twice \in BOOLEAN

Whole == {n \in Stamps : backups[n] = "all"}

\* As long as no second has two backups the last whole one never goes: not by
\* pruning, by failures or by processes that die, nor by two runs at a time.
LastBackupSurvives ==
  [][ Whole # {} /\ ~twice' => Whole' # {} ]_backupVars

\* What acquireOutputLock says of itself: one run at a time in a directory.
OneBackupAtATime ==
  Cardinality({w \in Writers : run[w].at \in Holding}) <= 1

\* What it says of stale locks: one older than 30 minutes whose owner has gone
\* is taken over, even if its pid is in use again.
OldLocksGiveWay ==
  [][ \A w \in Writers : run[w].at = "found" /\ run'[w].at = "out" /\ w \in up' =>
        ~(lockFile # NoLock /\ lockFile.old /\ run[lockFile.of].at \notin Holding)
    ]_backupVars
=============================================================================
