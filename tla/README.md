# Emby-go: a TLA+ model of its concurrent core

Emby-go is a media library server that speaks the Emby protocol over folders of
`.nfo` and `.strm` files: a Go program with a gin server, a SQLite store, an
optional Redis cache, background tasks that read and rewrite the files, a cron
scheduler and a web administration. This project models the parts of it whose
correctness depends on order: which steps of which goroutines, requests,
restarts and failures may follow one another. Source paths below are relative
to `src/`; `server/`, `store/`, ... stand for `internal/server/`, ...

## Inventory

| Component | State | Operations | What is hard | What makes it correct |
|---|---|---|---|---|
| NFO lane, task flags, workers, shutdown (`server/scrape.go`, `admin.go`, `probe.go`, `translation.go`, `artwork.go`, `sprites.go`, `subtitle_marks.go`, `server.go`, `cmd/metatube/main.go`) | `nfoOwner`, `nfoRefs`; a `Running` flag per status, each under its own mutex; `workerGate`, `workerWG`; the stages of the shutdown | claim, join and release the lane; begin and end of eleven kinds of task; gate, drain, join, close | flags and lane are taken and given back in different orders and critical sections; a scrape gives the lane up and rescans; three kinds of host are drained separately | writers of NFO files stay apart; a flag belongs to one run; the database outlives tasks; shutdown ends; an unindexed save is reported |
| Login guard (`server/auth_guard.go` and its handlers) | histories of failures per source, account and combination; blocks; reservations in flight | admit, attach, check password, commit, finish, unlock, initialise, collect | many requests check one budget before any has failed; twelve paths must return a reservation | budget never passed; reservations exact; a success does not wash a source; refusal ends |
| NFO file writers (`nfo/nfo.go`, `update.go`, `translation.go`; same lock in `scraper/apply.go`) | a table of reference-counted path locks; the file | mark, edit, snapshot, commit | the lock is reclaimed while others look it up; a translation reads and writes in two critical sections | one mutex per path; no lost update; no stale translation |
| Scheduler (`scheduler/scheduler.go`, `server/scheduled.go`, `scheduled_etag.go`, `store/scheduled_cas.go`) | rows, entries of cron, set of running ids, last result | create, put, conditional put, toggle, delete, reload, due, run now, record | reloads, fires and edits overlap; a fire runs what was installed | one run per task; conditional edits compare; a run ends; the schedule follows the rows |
| Tasks and asynchronous scans (`server/scan_tasks.go`, `admin.go`, `store/task_records.go`) | list of 100, table of 200 with an order, idempotency keys, records in the database | submit, replay, register, evict, run, finish, prune, restart | check and registration are apart; two tables and a database disagree; tables at their limit; restarts | accepted tasks stay visible; one task per key; records end once |
| Incremental scan (`scanner/incremental.go`, `store/scan_state.go`) | groups with fingerprints, baselines, evidence | enumerate, read, compare, commit a group, clean up | files change while they are read; a stop between groups; groups too large; cleanup only after a complete pass | a baseline matches what is indexed; nothing unseen is removed |
| Accounts (`store/users.go`, `admin_users.go`, `admin_credentials.go`, `api_key_rotation.go`, `server/auth.go`, `users_admin.go`) | rows of users with a generation, tokens, keys with a version | initialise, log in, present a credential, renew, change a password, administer, revoke, rotate | bcrypt runs between reading and saving; names move between accounts meanwhile; two administrators remove each other | every commit rests on what its credential stands for then; an administrator remains; nothing revoked is used |
| Playback (`store/playback_sessions.go`, `server/media.go`) | session rows, events, play counts | start, progress, stopped; deletion of movies | late and repeated reports, ids used again | every play counts once |
| Cached answers (`store/versions.go`, `write_tx.go`, `cache/`, `server/library.go`, `media.go`) | the version in the database, its mirror in the process, entries per version | commit, publish, look up, read, fill, evict, restart | a fill after a publication | an answer shows what was published before it was asked for |
| Scraping (`server/scrape.go`, `scraper/run.go`, `apply.go`) | cursor, batch, workers, breaker, results | fetch, hand out, search, write, deliver, scan | workers that end early while the dispatcher hands out; a cancellation between two steps of one movie | complete, broken off justly, ends |
| Probing (`server/probe.go`, `mediainfo.go`, `probe/probe.go`) | targets, workers, counters, marks and kept output per file | judge, backfill, run, save, count, announce | links change meanwhile; the breaker trips while others work | what is kept is of the link that was read |
| Edits and marks (`server/edit_recovery.go`, `subtitle_marks.go`, `nfo/organize_marks.go`, `store/edit_failures.go`, `auto_marks.go`) | a file, its row, a list of failures, a column of owned tags | edit, index, recover; confirm, commit, record | file and database are no transaction | the edit is indexed or listed; the program takes out its own tags only |
| Images (`server/media.go`, `imagecache/`, `artwork/`, `store/sprite.go`) | flights, caches; poster files; generations of previews and their pointer | share, make, trim; look, make, install; render, publish, prune, read | panics and clients that leave; files that appear while an image is made; pruning under readers; crashes | answered, made once; nothing replaced unasked; the pointer names a whole generation |
| Webhooks (`server/webhook*.go`, `webhook/dispatcher.go`) | two forms of the settings, a running snapshot, the old dispatcher | load, save, publish, close, send | a save in three steps while events are sent | what runs is stored; consent is kept |
| Upgrade (`upgrade/upgrade.go`, `server/admin_update.go`) | phase, target, the file on the disk | check, apply, download, verify, install, restart | the release page changes meanwhile | what is installed runs and is the target |
| Backup (`backup/backup.go`, `cmd/embybackup`) | directories, a lock file | lock, stage, publish, prune | processes die anywhere, two share a directory | the last whole backup stays |
| Log page (`logging/`, `server/logs_disk.go`) | daily files, the client's cursors | write, purge, tail, earlier, poll | half lines, midnight, limits of a page | a poll is exact |
| Store and migrations (`store/`) | SQLite | statements, transactions with retry | busy database | modelled where a component uses it |
| External services (`metatube/`, `translate/`, `outbound/`) | none | calls with deadlines | late answers | their callers are modelled |
| Monitor, blocklist, other settings; queries, streams; web pages | small published snapshots; none | set, read | mostly I/O | not modelled |

How they interact: handlers, workers and cron jobs are goroutines that share
the mutexes of `App` and one SQLite store. The scheduler calls a runner of the
server, which starts the same tasks as the handlers do; all tasks take a lane
before they touch NFO files, and every single rewrite of a file takes its path
lock under that. Tasks are put on the task list when they start and their
records survive the process; the shutdown closes the worker gate, stops cron,
cancels the root context and waits for everybody before the database closes.

## Modules

| Module | Models | State and actions |
|---|---|---|
| `NfoLane` | what the lane promises | an owner and a set of holders; `Claim`, `Release` |
| `Maintenance` | tasks, lane, flags and shutdown | a slot is a goroutine with a `kind` and a `host` (worker, cron job or handler); its `pc` walks through the critical sections of the handler: `Enter`, `BeginScan`, `BeginFlagged`, `BeginItem`, `CheckLane`/`BeginScrape`/`ClaimForScrape`, `SaveNFO`, the endings of each kind, the rescan after a scrape, `Leave`; `main` is `CloseGate`, `StopScheduler`, `CancelRoot`, the joins, `CloseDB` or `BudgetExpires` |
| `AuthGuard` | the budget of wrong passwords and a credential request | one action per critical section of `authGuard.mu`, and per step of a handler between them |
| `PathLock` | path locks and the writers that use them | `Lookup`, `LockEntry`, `ReadFile`, `Save...`, `UnlockEntry`, `ReturnEntry`; a translation is a snapshot and a commit |
| `Scheduler` | rows, schedule, edits and runs | a handler writes (`Create`, `Put`, `CheckETag` then `Swap`, `ToggleRead` then `ToggleWrite`, `Delete`) and then reloads in two steps (`ReloadRead` outside the mutex, `ReloadInstall` under it); a runner is `Due` or `RunNow`, `Acquire`, `RecordResult` or `Panic`, `Release`, or `RecordSkip` |
| `ScanTasks` | submissions, tables, workers, records, restarts | `Submit`, `StartScan`, `Register`, `Refuse`, `SetRunning`, `BeginScan`, `EndScan`, `FinishTask`, `FinishScan`; any other task is `StartOther`, `FinishOther`; `Cancel`, `Exit`, `Start` |
| `IncrementalScan` | one library's files, index and baselines, a pass over it and the other writers | the pass is `Begin`, `Enumerate`, then per group `ReadGroup`, `LeaveGroup` or `BuildGroup`, `Recheck`, `CommitGroup` (or `SkipGroup`, `FailGroup`), then `TakeStock` and `Reconcile`; `Abandon` is every other end, a crash included. Beside it: `Change` of the disk, `DeleteMovie`, `DeleteLibrary`, `AddLibrary`, `MarkIndexedManual`, `RescanOne` |
| `Accounts` | users, tokens, keys and the requests that use them | a request is a row of `req` with what it has read: `LogIn` then `SaveAccessToken`; `PresentCredential`, `Slide`, `RequestCredential`; then one administrative write, or `ReadName`/`StartRotation`, `Verify`, `SetPassword`/`Rotate`. `dead` and `lost` are history |
| `Playback` | playback reports | `Resolve`, then `Record` (one transaction, with pruning) or `Ignore`; `DeleteTitle`, `AddTitle` |
| `Views` | versions and cached answers | a writer is `WriteVersioned`/`WriteUserData`/`DeleteIndexedMovie` then `PublishVersion`; a reader is one of seven `Ask...`, `ReadIndex`, `PutAnswer`; `Evict`, `RestartServer` |
| `ScrapeRun` | one batch of scraping | `StartBatch`, `FetchBatch`, `Offer`, `JudgeBatch`, `IndexSaved` are the dispatcher; `Receive`, `Search`, `WriteMovie`, `FinishMovie`, `Deliver` a worker |
| `ProbeRun` | one run of the probe | `BeginProbe`, `OfferFile`, `TakeFile`, `JudgeFile`, `Backfill`, `RunFFProbe`, `SaveDetails`, `SettleFile`, `CompleteFile`, `FinishProbe`; `Relink` by others |
| `Edits` | an edit, its indexing in steps, the recovery | `BeginEdit`, `SaveEdited`, or `BeginRecovery`; `TakeDigest`, `MarkManual`, `ReadToIndex`, `WriteIndex`, `CheckIndexed`, then `NoteFailure` or `ClearFailure`; scans, other programs, crashes |
| `Marks` | tags the program owns | `ConfirmMarks`, `CommitMarks` or `StartTagging`, `WriteScraped`; `RecordMarks`; people, subtitles, crashes |
| `Thumbs` | image requests and their caches | `AskImage`, `Join`, `Follow`, `AcquireSem`, `Recheck`, `MakeThumb`, `StoreThumb`, `FinishFlight`; trimming is `WalkDir`, `EvictDisk` |
| `Posters` | finding and making a poster | `ReadRow`, `LookAtFiles`, `MakeImage`, `PreparePoster`, `InstallPoster`, `IndexPoster` |
| `Sprites` | generations of previews | a maker: `EnterGate`, `OpenRun`, `PruneBefore`, `MakeDir`, `Render`, `PreparePublish`, `PublishSprite`, `PruneAfter`; a viewer: `ViewSprite`, `CloseSprite`; edits, ageing, crashes |
| `Webhooks` | targets, their two forms, events | `LoadTargets`, `SaveTargets`/`SaveSettings`, `PublishConfig`, `CloseOld`; `TakeSender`, `BeginSend`, `TryTarget`, `FinishSend`; `RestartHooks`, which reads settings and configuration file |
| `Upgrade` | self-upgrade | `Check`, `Apply`, `BeginUpgrade`, `Download`, `VerifyBuild`, `Install`, `RestartProgram`; `Republish` is the page |
| `Backup` | processes that back up | the lock in its steps, `MakeStage` to `PublishBackup`, `ListBackups`, `Prune`; `Die`, `Reboot`, `GrowOld` |
| `DiskLogs` | log files and the page | `WriteLine`, `WriteHalf`, `NextDay`, `PurgeLog`, `RestartLogs`; `OpenPage`; `LoadEarlier`, `GatherFile`, `EndEarlier`; a poll: `BeginPoll`, `OpenFile`, `ReadChunk`, `TakeLine`, `LeaveChunk`, `EndPoll`; `AbortRequest` |
| `MaintenanceProofs`, `AuthGuardProofs`, `PathLockProofs`, `SchedulerProofs`, `ScanProofs` | theorems about the module of that name (`ScanProofs`: `IncrementalScan`) | |
| `ServicesProofs` | theorems about `Accounts`, `Views`, `ScanTasks`, `Playback`, and their composition `MCServices` | |
| `WorksProofs` | theorems about `Upgrade`, `Sprites`, `Edits`, `Marks`, `Webhooks`, `Backup`, `Posters`, `DiskLogs`, and their composition `MCWorks` | |
| `ProgressProofs` | theorems about `ProbeRun`, `Thumbs`, `ScrapeRun`, and the composition `MCProgress` of the last two | |
| `MC...` | instances for TLC | |

The counted lane of `Maintenance` is shown to implement `NfoLane` (property
`LaneImplemented`, theorem `ImplementsLane`) with the slots that are at a place
where they hold the lane as `holders`.

Definitions marked *Seeded fault* are wrong variants of a definition. No
specification uses them; put in the place of the definition that follows them
they break the property named for them, which shows that the property depends
on what the code does there.

### Composition

`Maintenance`, with the lane every other task asks for, is the hub: the task
modules (`ScrapeRun`, `ProbeRun`, `Sprites`, `Edits`, `Marks`) refine what is one
place of it, and each of them has the lane as a variable of its own, or a single run,
where its properties need that. Modules that share no state in the code are checked together
in one instance (`MCMaintenance`, `MCBudgets`, `MCProgress`, `MCServices`,
`MCWorks`): the variable `part` is chosen at the start, a behaviour belongs to
one part and leaves the variables of the others as they are. The states
of such an instance are the sum, not the product, of those of its parts, and the
fairness of each part is required of its own behaviours only.

## What is abstracted

* A path, a text, a configuration, a key or a digest is a model value; NFO
  files are a source text, its translation and a set of saved parts. Messages,
  progress counters and log lines are left out.
* Times are ages in ticks: windows and cooldowns of the guard, the hour of an
  idempotency key.
* Every SQL statement is atomic and, in `ScanTasks` and `Scheduler`, every write
  of a result or record may fail. In `UpsertTaskRecord` the write and the
  pruning are two statements, and the second may fail alone. The two
  statements that start-up runs on the database it has just migrated succeed.
* `ScanTasks` does not tell success from failure: both are `"done"`.
* What a task does to files between taking and releasing the lane is one place
  of `Maintenance`; `PathLock` has the steps of a rewrite. The body of a
  scheduled run is one place of `Scheduler`; its tasks are those of `Maintenance`.
* The token buckets of the login guard may turn away any request at any time.
* A panic in a goroutine of "run now" ends the process, and is not a step of
  `Scheduler`; a panic in a cron job is, because cron recovers it.
* In `IncrementalScan` the fingerprint of a group is the inputs it digests;
  reading all files of a group is one step (the code reads a file twice if it
  changes meanwhile, and compares the whole group again afterwards); what a
  `.strm` says stands for its text, size and time. `"large"` is any file of the
  group that is too large or not regular. Each record has one NFO, which
  stands for its own and the one shared by a movie in parts. A row is known by
  its path: ids are never used twice, and every deletion drops the baselines of
  the path. Images are left out, and so are sources that another library has,
  counters and versions. The confirmation that a library may be emptied is
  chosen where it is looked at. Groups are numbers, visited in order.
* The lane keeps rescans and marks apart from a pass (`Maintenance` shows that);
  in `IncrementalScan` they happen between passes only.
* The validator of a conditional edit is the row it was made from: rows with
  equal content are equal, as the code intends (`scheduled_etag.go`).
* `Accounts`: a password is a value, and matches or does not; a token is given out once; the
  generation and the version of a key are numbers, up to a bound.
* `Playback`: one user; positions and times are left out. The history `opened` counts,
  per movie, how often its sessions were opened.
* `Views`: an answer is the number of committed writes it was computed from;
  one kind of answer about one movie per behaviour, because kinds do not share keys.
* `ScrapeRun`: the provider's answer is one of four results; notes are four texts. A
  batch is the set of its movies, handed out in the order of their ids.
* `ProbeRun`: a link is a value; kept output says of which link, whether it can
  be read and whether this version wrote it; counters are kept exactly.
* `Edits`, `Posters`: contents are numbers, each new one different.
* `Marks`: one file; tags are values, the evidence is at most one of them.
* `Sprites`: a directory is unfinished, has its manifest, or is whole; ages are
  young or not; frames are rendered in one step, which verifies the source.
* `Thumbs`: an image of any key has one size; trimming chooses what stays within
  the target.
* `Maintenance`: what a scrape has saved is nothing, files of which none counts as a
  success (`committed`), files to be indexed (`unindexed`), or files that have been.
* `Webhooks`: the answer of a target is nothing; slots and retries are left out. The
  configuration file may have its one target on or off, with any address, and may be
  edited between two starts; of its events only deletions, the default, are modelled.
* `Upgrade`: a file is the version it reports, or damaged; a checksum is the file
  it is of. The page is arbitrary. Versions written vX.Y.Z (`Triples`) are compared;
  between others any release is taken for newer (`upgrade.go:465`).
* `Backup`: a directory is absent, a part, or whole. The removal of an earlier backup of
  the same second may fail, or be cut, half way.
* `DiskLogs`: a byte says whether it ends a line, and the payload of a line is its
  length; chunk, scan and page limits are small numbers in the proportions of the
  code. A request opens its files one after another, with the writer and the clean-up
  in between; a file that is open is read as it was when its size was taken, because
  it only grows. The tail of the newest file is read in one step.

## Runs

| Run | Instance | Shows |
|---|---|---|
| `maintenance` | two slots, all eleven kinds; two callers, one path, two lock entries | `WritersApart`, `DatabaseOutlivesTasks`, `UnindexedIsReported`, the refinement `LaneImplemented`, `TasksAndShutdownEnd`; `UpdatesKept`, `TranslationOfSource`, `CallersReturn` |
| `budgets` | two requests, two sources, one account, limits of 1 and 2; three files of two libraries, two workers, a breaker of 2, one file relinked | `BudgetHolds`, `ProbesAreKept`, `GivingUpEnds` |
| `scheduler` | two administrators, two runners, one task, one expression that parses and one that does not | `NoReentry`, `ConditionalEdit`, `RunsEnd` |
| `incremental_scan` | a movie in two parts, a movie in one file; three events beside the passes | `BaselineHonest`, `CleanPassIsCurrent`, `RemovalsAreSeen`, `ManualSurvives` |
| `progress` | five candidates, batches of three, a limit of four, two workers, a breaker of two; two image requests, two keys, one slot, two limits; two submissions, two ids, a table of one | `BatchIsHonest`, `MadeOnce`, `WorkEnds`, `ImagesAreAnswered` |
| `services` | two requests, two accounts, two names, two tokens, one key; two reports, two sessions, two movies, five events; two readers, two writers, two writes; two submissions, three ids | `AccessIsControlled`, `CredentialsDecide`, `PlaysCounted`, `ServedIsCurrent`, `TasksAreKept` |
| `works` | two makers and a viewer, five generations; two administrators, three versions; two processes, three seconds, one backup kept; two editors of three contents; two taggers, two tags; two days of five bytes; one painter; two editors of webhooks, one event, two saves | `SpritesAreKept`, `ReadsAreStable`, `InstalledIsSound`, `LastBackupSurvives`, `EditsAreAccounted`, `MarksAreKept`, `PollIsExact`, `NothingIsLost`, `EventsGoWhereAgreed` |
| `scheduler_reload`, `scheduler_skip`, `scan_tasks_list`, `incremental_note`, `probe_breaker` | as the runs above, or smaller | a violation each, see Findings |

The properties say:

* `WritersApart`: two tasks at places where they write NFO files are two probes.
  `DatabaseOutlivesTasks`: when the database is closed nobody is at work.
  `UnindexedIsReported`: a scrape that has counted a success and could not import what
  it saved says so. A run whose saved movies were all cancelled before they
  were counted (`apply.go:178`) starts no scan and sets nothing (`scrape.go:332`); that one
  ends as cancelled.
* `UpdatesKept`, `TranslationOfSource`, `CallersReturn`: no lost update, no translation
  of a source that has changed, nobody waits for ever.
* `BudgetHolds`: failures and reservations of a key never exceed its limit.
  `GivingUpEnds`: a refused account is accepted again, a probe run ends.
* `ProbesAreKept`: what a completed file has is of the link that was read for
  it; a library written to has a new version when the run ends, or the run
  says how many have not.
* `NoReentry`, `ConditionalEdit`, `RunsEnd`: one run per task; a conditional edit
  replaces what its author saw; a run ends and gives its mark back.
* `BaselineHonest`, `CleanPassIsCurrent`, `RemovalsAreSeen`, `ManualSurvives`:
  see `IncrementalScan`; the index after a pass is one that the disk explains.
* `BatchIsHonest`: a batch that ends well has delivered every candidate once,
  up to its limit, and one that is broken off had a row of unreachable answers.
  `MadeOnce`: an image is made again only if it had been lost.
* `AccessIsControlled`: an administrator remains, and no revoked token lives.
  `CredentialsDecide`: nothing is committed on a proof that had been outdated, and a
  password change is that of one's own account.
* `PlaysCounted`: a movie's count is the number of times its sessions were
  opened less those still open. `ServedIsCurrent`: an answer shows every write
  published before it was asked for. `TasksAreKept`: an accepted task is
  found, a key makes one task, and an ended record stays ended,
  whether the process restarts or tasks are pushed off the list.
* `SpritesAreKept`: the pointer names a whole generation of the source it names,
  and crashes do not fill the disk. `ReadsAreStable`: no file goes under a reader.
* `InstalledIsSound`: the program on the disk is a build, and another than the
  process only when that is to restart into it and takes it for newer: never an
  older triple.
* `LastBackupSurvives`: whole backups never run out as long as no second has two.
* `EditsAreAccounted`: an edit in the file is in the index or on the list, and a
  request that says it indexed has. `MarksAreKept`: only tags the program has at
  some time put in are taken out by it, and those it has put in are on record.
* `PollIsExact`: a poll returns whole lines in their order, behind its cursor and
  before the next one, and of the file where it ends all of them, while lines are
  written and files removed; and it gives up its place only when its file is gone or
  the page was loaded within a line longer than a scan. `NothingIsLost`: a run not told to overwrite replaces no file, and
  no row that somebody changed. `EventsGoWhereAgreed`: what runs is what a
  restart would load; nobody gets deletions unconfirmed but the one target that the
  configuration file had on (see Observed); no address goes to another target; an
  event has one configuration.
* `ProbeTypeOK`, `ProgressTypeOK`, `ServicesTypeOK`, `WorksTypeOK`: the type
  invariants, with the bounds of tallies, limits and retained rows in them. Those of
  `Maintenance`, `AuthGuard`, `PathLock` and `Scheduler` are theorems only.

### Bounds

* *Maintenance*: an exclusion is broken by two tasks, and the kinds have every
  way of claiming, sharing and giving back. What a third task could add, between
  the flag and the lane of a first one while a second joins, is covered by the
  proof, which is for any number of tasks.
* *AuthGuard*: a budget is passed by two requests that check before either
  fails; a limit of two separates a source's history of one failure from its
  budget; windows of one and two ticks let one key lapse while another stays.
* *PathLock*: a lock is lost between one caller that leaves and one that comes,
  and a third entry is never needed because two callers reach two at most.
* *Scheduler*: every property is about one task and two actors. Tasks share
  nothing but the tables that are indexed by them.
* *ScanTasks*: three ids make the list, the table and the records overflow
  each; two jobs race for one key; `MaxLost` lets one task's writes fail in `progress`, at
  any and at all of them, and none in `services`; `TTL = 0` with a tick lets a key lapse at any moment.
  A restart may happen at any point, any number of times.
* *IncrementalScan*: one group that can regroup (its first part comes and goes)
  and one that cannot, so that a pass has a group behind it and one before it
  whenever anything changes. Passes are not bounded, so any event can fall
  between any two steps of any pass, after any number of full and incremental
  ones. A stale index takes two events (a change and its reverse, or a change
  and a deletion), a third one leaves room for what they interfere with.

* *Accounts*: a stale commit takes one request that has read and one that
  writes; two accounts let a name move, and each be the other's administrator; two generations and
  versions tell old from new.
* *Playback*: two sessions of two movies, and five reports: a stop twice, a late
  progress, a start again, and a pruning in between.
* *Views*: two writers publish in either order; a reader is overtaken by one
  and by both.
* *ScrapeRun*: five candidates make a second batch cut by the limit, and a row of
  failures over the border of two batches.
* *ProbeRun*: three files and two workers leave one file to hand out while the
  breaker trips; two libraries are announced apart; one link changes once.
* *Thumbs*: a leader and a follower, a second key for the only slot, one loss.
* *Sprites*: five generations: an active one, an older one that is kept, one to
  prune, one a crash leaves, one in the making.
* *Upgrade*: three versions, so that the page can pass by the target; the first of
  them has no order. The process may start with any.
* *Backup*: two processes and three seconds: one run ends after a later one began.
* *Edits*, *Marks*, *Posters*: one file, two actors and three to five contents; a
  lost write takes one that reads, one that writes in between.
* *DiskLogs*: a chunk is shorter than two lines and a scan shorter than two
  chunks, so that a window begins within a line, a poll ends within a chunk, and a
  line written in pieces is longer than a scan; two days make one midnight.
* *Webhooks*: two targets of which one is that of the first form, two editors,
  two publications around one event. A start with a file that has the target on or off,
  and one with a file that has been edited since.

Deadlock is checked in `maintenance`, `scheduler` and `incremental_scan` and in
the violation runs but the last. The other instances have bounded histories
(tokens, events, generations, stamps are given out once), so that a behaviour
may use them up and stop: their cfgs say `CHECK_DEADLOCK FALSE`. That nobody waits for
ever in them is what `WorkEnds`, `ImagesAreAnswered` and `GivingUpEnds` check.

## Fairness

* `Maintenance`: weak fairness of a task's own steps and of `main` once the
  shutdown began: goroutines are scheduled, calls inside a task carry deadlines
  and cancellable contexts. Nothing has to arrive and nothing has to go wrong.
* `AuthGuard`: weak fairness of every handler (bodies, bcrypt slots and queries
  are bounded) and of time.
* `PathLock`: weak fairness of a caller, and strong fairness of taking the
  mutex: `sync.Mutex` hands itself to a waiter that has waited for a millisecond.
* `Scheduler`: weak fairness of a runner's steps: a runner honours its context.
* `ScanTasks`: weak fairness of the steps of a job; time, other scans and other
  tasks are free to do nothing. That is what makes `AcceptedEnds` worth
  checking (a conjunct of `WorkEnds`): a scan that waited for another one might wait
  for ever.
* `ScrapeRun`: weak fairness of the dispatcher once it began and of each worker:
  requests to the service have timeouts and callbacks return.
* `ProbeRun`: the same; ffprobe is killed at its deadline.
* `Thumbs`: weak fairness of a request's steps, and strong fairness of taking a
  slot of the semaphore: a Go channel serves those who wait in their order.

The safety-only parts (`services`, `works`) assume no fairness.

## What is proved

TLAPS checks the following for every value of the constants that satisfies the
named assumptions of the modules: limits and windows are numbers, and positive
where the code divides by them or takes at least one; the values that stand for
"nothing" are none of the rows, links or texts they are told apart from; what
the code counts or takes the least of (movies, goroutines, sessions) is finite.
Each of them says of a constant what the code says of a Go value: a nil
pointer is not a row, a constant like `scanTaskCapacity` is positive, a table is
finite. The bounds of histories (`MaxGen`, `MaxStamp`, ...) are any numbers.

In each part the property follows from an inductive invariant. Those of
`Accounts`, `IncrementalScan`, `Sprites`, `Edits`, `Webhooks`, `Thumbs` and `DiskLogs` were first
checked by TLC on the instances of the runs (4.0 million states for
`IncrementalScan`, 2.5 million for `Thumbs`). The proof has one lemma per action or
group of actions, and one step per conjunct the action can disturb.

* `MaintenanceProofs`: `IInv` ties, per slot, the place to the
  kind and the host (`TypeShape`), the counter and the owner to the places that
  hold the lane, and exclusive names to one holder (`LaneInv`), the flags to the
  places that raise them, the stages of the shutdown to who may still be
  running (`MainInv`), and the end of a scrape to what it has been told of its rescan,
  or to a cancellation before anything counted (`Told`). From it: `TypeCorrect`, `LaneCountedAlways`,
  `OneRunAlways`, `WritersStayApart`, `DatabaseClosedLast`, `NoAddWhileWaiting`,
  `UnindexedReported`, and `ImplementsLane`: every step of the counted lane is one of
  `NfoLane` or leaves that as it is. `WritersApart` alone is not inductive: that a
  scan which has lowered its flag still excludes others follows from the count of
  the lane only.
* `AuthGuardProofs`: `IInv` adds to type, budget and reservations that a block is
  set only on a full account (`Blocks`) and that a request between its attachment
  and its end holds a ticket (`Tickets`); without `Blocks` the cooldown branch,
  which does not look at reservations, would pass the budget. From it:
  `BudgetAlways`, `ReservationsAlways`, `SourceHistoryKept`, `TypeCorrect`.
* `PathLockProofs`: a caller in flight is linked to the table's entry, entries of
  different paths differ, references are counted, a mutex is held by the caller
  inside, and a text that was read under the lock is still the file's. From it:
  `OneMutexAlways`, `ReclaimedAlways`, `UpdatesAreKept`, `TranslationsAreCurrent`,
  `TypeCorrect`.
* `SchedulerProofs`: active runners hold different ids, and these are the marked
  ones; the places of a handler say what it has read. From it: `OneRunOfATask`,
  `ConditionalEditsCompare`, `TypeCorrect`.
* `ScanProofs` (`ScanInv`): a baseline on record fits the rows of its group, and so does
  the copy of it a pass has taken, as far as those rows are still there
  (`BaselinesHold`); each row a pass has committed is explained by a disk that was
  there since it began, and a pass that cleans up has seen all of its stock at one
  time (`PassHolds`). From it: `BaselinesAreHonest`, `CleanPassesAreCurrent`,
  `PassRemovalsAreSeen`, `ManualRowsSurvive`. `BaselineHonest` alone says nothing of
  a baseline in the hands of a pass, which becomes the one on record; the copy may be
  older than a deletion, which is why it need fit only what is left.
* `ServicesProofs`
  * *Accounts* (`AccountsInv`): of every token and key, how far its account's
    generation and its version have come; what was issued for an older generation is
    deleted; a request that holds such a row read it earlier and will find it gone;
    a row that died stays what it was. From it: `AccessControlled` and, with the lemma
    that generations and versions only grow, `CredentialsAlwaysDecide`.
    `NoRevokedToken` alone does not survive a login that has read an old generation.
  * *Views* (`ViewsInv`): the mirror lies between what was published and what is
    written; what is kept under a version was read when that version had been committed; a
    reader's version is not behind what was published when it asked. From it:
    `ServedAlwaysCurrent`. `ServedIsCurrent` alone says nothing of the entries, from
    which the next answer is served.
  * *ScanTasks* (`TasksInv`): ids are given out once and lie below the counter
    (`IdsAreFresh`), each job's place says what its record and its entries are
    (`JobHolds`), an accepted scan is in the table until it ends (`VisibleTo`), and a
    scan that has ended there has a record that says so, unless that was pruned or the
    database refused the write (`RecordedEnd`). From it: `TasksKept`, in which an
    ended record stays ended (`TerminalStays`) because what a job writes is a row
    of its own. The bounds of list,
    table and records (`TasksTypeCorrect`) come from a second invariant beside it: the
    order is the table without repetitions, and a record beyond the retention is
    one whose pruning the database had refused.
  * *Playback* (`PlaybackInv`): a report that is counted changes one session of its
    own movie, so the number of open ones changes with the two counters. From it:
    `PlaysAreCounted`; and `PlaybackTypeCorrect`, in which the bound of the events table between two
    prunings (`EventsRetain + PruneEvery - 1`) is the content: the newest events are
    counted by their ids.
  * Together: a behaviour of `MCServices` is one of each part (`EachIsPlayed`), so that
    `ServicesTypeCorrect` is of the instance that `services` checks.
* `WorksProofs`
  * *Upgrade* (`UpgradeInv`): a worker at work has the phase and a target that is
    `Newer` than the process, and what it has verified is the build of that target; the page
    is arbitrary. From it: `InstalledAlways` and `OneUpgradeAtATime`.
  * *Sprites* (`SpritesInv`): a run's new directory is not the one a row names, under the
    locks the run holds; a pointer names a whole directory; the generations there are
    leave room for those still to be made. From it: `PreviewsAreKept`,
    `ReadersAreUndisturbed`.
  * *Edits* (`EditsInv`): one clerk has the lane, and each clerk's place says what it
    knows of the file and of the row. From it: `EditsAreNotLost`. The property alone speaks of
    the time when nobody is at work.
  * *Marks* (`MarksInv`): whoever has the lane has read the record the file was left with;
    between the file and the record, what the program has put in is in the hands of the
    lane's owner (`MarksAccounted`), and what it takes for its own it has put in
    (`MarksJustified`). From it: `MarksKept`.
  * *Webhooks* (`HooksInv`): the request that has stored settings and not closed the old
    dispatcher has the mutex, and what is stored is what is published next; the
    configuration file gives one address, and is out of use once a setting is stored. From it:
    `EventsFollowConsent`.
  * *Backup* (`BackupInv`): for every part, and every backup some run is about to prune,
    there is a younger whole one that nobody is about to prune. From it:
    `LastBackupKept`.
  * *Posters*: no invariant is needed, a step of one run does not touch what the
    others hold. `PostersAreNotLost` is about the steps.
  * *DiskLogs* (`LogInv`): what the writer and the clean-up do to the files is one
    relation between before and after (`FilesGrow`): a file that is still there has
    what it had, and perhaps more. So a place that was at a line stays at one, a
    line stays a line, and the copy a poll reads is the beginning of its file
    (`CopyHolds`). Of a poll in progress the invariant says that the lines it has are in
    order and behind the old cursor (`ItemsHold`), that there is none between that
    cursor and its place in the file that it has not taken (`AllUpTo`), and that its
    place is at a line (`AtLine`). From it: `PollsAreExact`. The property speaks of the end of
    a poll alone, when the file it has read may have grown or gone.
  * Together: a behaviour of `MCWorks` is one of each part (`EachIsWork`), so that
    `WorksTypeCorrect` is of the instance that `works` checks.
* `ProgressProofs`
  * *ProbeRun* (`ProbeInv`): a file is in the hands of one worker from when it is handed
    out until it is counted, so what was found or written for it stays what it was; a
    library written to is touched, and announced at the end unless that failed.
    From it: `ProbesAlwaysKept`; `ProbeTypeCorrect` with the bound of the tallies, which
    holds because what has been counted is not counted again.
  * *Thumbs* (`ThumbsInv`): a flight that is open has one leader; who makes an image has
    found none and nobody else can have made it since; and an image was made at
    most once more than it was lost, if it is there, and as often if not. From it:
    `ImagesAreMadeOnce`. `MadeOnce` alone allows a second leader.
  * *ScrapeRun* (`ScrapeInv`): a movie behind the cursor is still to be handed out, with
    one worker, or delivered (`OnePlace`); none is dropped before the batch is ending
    (`NothingDropped`); what is in the batch fits what is left of the limit
    (`WithinLimit`); the streak is the longest row of unreachable answers at the end of
    the deliveries (`StreakIsRow`). From it: `BatchesAreHonest`, and `ScrapeTypeCorrect`,
    which says that a run keeps its limit also when it is cancelled between two batches.
  * Together: `ProgressTypeCorrect`, for `MCProgress`, by the same argument as above.

Only model-checked: the liveness properties (`TasksAndShutdownEnd`, `CallersReturn`,
`GivingUpEnds`, `RunsEnd`, `WorkEnds`, `ImagesAreAnswered`), because liveness under
fairness is out of the prover's reach. All other properties of the passing
runs are theorems. The five violations are TLC's.

## Findings

1. **Concurrent reloads** (`scheduler_reload`). `Reload` reads the rows before it
   takes the scheduler's mutex. Of two edits in flight the one that read first may
   install last, and the schedule then misses the later edit until the next edit
   or restart, although `scheduler.go:102` says a reload takes effect at once.
2. **A skip over a success** (`scheduler_skip`). The result is recorded before the
   mark is released; a fire that is refused in between records `skipped` over
   it. `scheduler_test.go:209` says the skipped fire must not overwrite the
   success; the test makes the skip come first.
3. **Tasks pushed off the list** (`scan_tasks_list`). `finishTask` updates the
   record only if the task is still on the list of 100. A long task outlived by
   100 newer ones leaves a record that says `running`, and the next start marks it
   as interrupted, although `API-CONTRACT.md:251` reserves that for unfinished
   tasks. Asynchronous scans are not affected: `finishScanTask` writes the record
   in any case (`FinishedIsRecorded`).
4. **A note that stays** (`incremental_note`). A rescan that meets an NFO it
   cannot parse keeps the row, notes that in `last_scrape_error` and leaves the
   baseline. With the NFO restored to its old content an incremental scan finds
   the group unchanged, and the note stays, although `scan_state.go:46` says that
   a scan clears it once the NFO can be parsed. A full scan does.
5. **A broken-off run that says cancelled** (`probe_breaker`). Whether the breaker
   has ended a run is computed at the end (`probe.go:493`) from the counter of
   consecutive failures, which another worker's success or skip, in flight when the
   breaker trips, sets back to 0. The run then ends as `cancelled` and without an error, which the
   comment at `probe.go:494` sets out to prevent.

### Observed while modelling

What follows is stated in a module, or was seen while reading, and is not a run of
its own. To see one of the first four, name its property in the cfg of its part.

* `DetailIsCurrent` (`Views`) fails: the handler of an item's details reads the
  movie (`library.go:1845`) before it captures the version of the key, so an old
  row may be cached under a new version until the next write. The comments at
  `library.go:679` and `media.go:197` ask for the other order.
* `OneBackupAtATime` (`Backup`) fails: of two processes that judge the same stale
  lock the second removes, by its path, the lock the first has created. Also,
  `OldLocksGiveWay` fails when a dead owner's pid is in use again.
  `LastBackupSurvives` holds all the same.
* `EarlierSkipsNothing` (`DiskLogs`) fails: when a window of `ScanBytes` holds less
  than a page, loading what is earlier goes on to the day before and skips the
  rest of the file, although `README.md:146` says nothing is skipped silently; and
  the first entry of a window may be the end of a longer line.
* A poll goes on to the next day's file (`disklogs.go:342`) whatever made it leave the one
  before: the end of a chunk that ends a line, a line longer than a chunk, or the
  limit of the payload. Its cursor is then in the later file, and the rest of the earlier
  one is not polled. `PollIsExact` therefore claims that nothing is left out of the
  file where a poll ends, and does not claim it of the days before.
* In the newest file a poll does not get past a line longer than `diskLogChunk`; and a page loaded
  within a line longer than a scan has a cursor that the next poll refuses, with a gap each
  time (`InLongLine` in `PollIsExact`).
* `SavedIsNotFailed` (`ScrapeRun`) fails: a cancellation found after the NFO was
  written is returned as an error (`scraper/apply.go:178`) and noted as a failure, and
  the scan at the end does not run if no other movie was saved (`scrape.go:332`).
  `IndexRefreshFailed` then stays false, although the comments at `scrape.go:170` and
  `scrape.go:330` say that a cancellation does not hide or undo what is saved. `UnindexedIsReported`
  states the exception, and `committed` in `Maintenance` is that state.
* An unreadable kept output is removed, but a file whose link it is of is then
  skipped as `CACHE_CURRENT`, not probed, until the next run (`probe.go:775` speaks
  of falling back to a real probe).
* A crash while backing up between the removal of the earlier backup of the same second
  and the rename loses both; a partial directory counts for retention.
* A webhook that is on in the configuration file gets deletions that nobody has
  confirmed: events default to `item.deleted` (`webhook_settings.go:29`), and the settings
  of many targets ask only about targets that were not on before
  (`webhook_targets.go:226`), so it stays on, and may be given another address, without a
  confirmation until the settings of the one target are saved or it is switched off. `ConsentIsKept` excepts it by name.
* A webhook event between taking its sender and sending is dropped when a save
  closes the old dispatcher.
* The image cache's limit saved while a trim runs is applied only by a later trim.

## Not modelled

* XML rewriting, image decoding and scaling, ffmpeg and ffprobe, HTTP clients of
  external services: data, or answers; what is done with them is modelled.
* Migrations: they run alone, before anything else, in one transaction each.
* The retry of busy SQLite transactions: it repeats a transaction that had no effect.
* The queries and filters of the browser, streaming, redirects, metrics,
  diagnostics, request logs: they change no state.
* Monitor, IP blocklist, scrape and log settings: one snapshot under one mutex, written after
  it is stored; the settings that have more to them (webhooks, image cache) are.
* Slots, retries, budgets and delivery records of the webhook dispatcher.
* The web pages and scripts.

## Plan

Done: every component of the inventory that keeps state across steps has a
module; every safety property of a passing run is proved. Next, in this order:

1. `IncrementalScan`: an abstract specification ("the index of a group is what
   one reading of its files gives") implemented by the detailed one; images and
   the second NFO of a movie in parts.
2. The same for `Views` (an answer is that of one commit between asking and
   answering) and `Backup` (a set of whole backups).
3. The dispatcher of webhooks: slots, retries and budgets against `Close`.
4. Settings that are stored and published: one module for their common shape.
