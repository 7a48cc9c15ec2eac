------------------------------ MODULE Upgrade ------------------------------
(***************************************************************************)
(* Self-upgrade from the web (upgrade/upgrade.go, server/admin_update.go).  *)
(* A request asks the release page for the newest version, reserves the     *)
(* installation, and a worker downloads, verifies and renames; other        *)
(* requests ask the page meanwhile, the page and its files change, and the  *)
(* process may stop anywhere.                                               *)
(***************************************************************************)
EXTENDS Naturals, FiniteSets

CONSTANTS
  UpgradeAdmins, \* requests to check or to apply
  LastVersion,   \* bound: versions are 1..LastVersion
  Triples,       \* the versions that are written vX.Y.Z, in their order
  NoRelease      \* nothing has been looked up yet

ASSUME UpgradeAssumption ==
  LastVersion \in Nat \ {0} /\ Triples \subseteq 1..LastVersion /\ NoRelease \notin Nat

Versions == 1..LastVersion
\* A file is the build of a version, which is what it reports when it is run,
\* or it is damaged: cut short, or something else altogether.
Damaged == 0
Builds == Versions \cup {Damaged}

VARIABLES
  page,      \* external: the newest release and its two files
  exe,       \* the program on the disk
  current,   \* the version of the process that runs
  latest,    \* Manager.latest
  phase,     \* Manager.state: phase and target
  admin,     \* what each request has looked up
  worker     \* the goroutine in Run, with the digest of its temporary file

upgradeVars == <<page, exe, current, latest, phase, admin, worker>>

Phases == {"idle", "downloading", "verifying", "installing", "restarting", "failed"}
Page == [version : Versions, file : Builds, sum : Builds]
NoWork == [at |-> "none", target |-> 0, temp |-> Damaged]

UpgradeInit ==
  /\ page = [version |-> 1, file |-> 1, sum |-> 1]
  /\ exe \in Versions /\ current = exe /\ latest = NoRelease
  /\ phase = [name |-> "idle", target |-> 0]
  /\ admin = [a \in UpgradeAdmins |-> 0] /\ worker = NoWork

SetPhase(name) == phase' = [name |-> name, target |-> worker.target]

\* Check: ask the page and remember its answer.
Check(a) ==
  /\ latest' = page.version /\ admin' = [admin EXCEPT ![a] = 0]
  /\ UNCHANGED <<page, exe, current, phase, worker>>

\* newerVersion.  Only triples have an order; of other versions the tag is
\* compared with what the process calls itself, dev or the tag with the commit
\* behind it, which is never the tag: any release will do, the same again too.
Newer(candidate, installed) ==
  {candidate, installed} \subseteq Triples => candidate > installed

\* adminUpdateApply: ask again, and refuse what is not newer.
Apply(a) ==
  /\ admin[a] = 0 /\ latest' = page.version /\ Newer(page.version, current)
  /\ admin' = [admin EXCEPT ![a] = page.version]
  /\ UNCHANGED <<page, exe, current, phase, worker>>

Busy == phase.name \in {"downloading", "verifying", "installing", "restarting"}

\* Begin reserves the installation of the version that is the latest still.
BeginUpgrade(a) ==
  /\ admin[a] # 0 /\ admin' = [admin EXCEPT ![a] = 0]
  /\ IF ~Busy /\ latest = admin[a]
     THEN /\ phase' = [name |-> "downloading", target |-> admin[a]]
          /\ worker' = [NoWork EXCEPT !.at = "begun", !.target = admin[a]]
     ELSE UNCHANGED <<phase, worker>>
  /\ UNCHANGED <<page, exe, current, latest>>

\* fail, and the deferred removal of the temporary file.
GiveUpUpgrade == SetPhase("failed") /\ worker' = NoWork

RunFails ==
  /\ worker.at \in {"begun", "downloaded", "verified"} /\ GiveUpUpgrade
  /\ UNCHANGED <<page, exe, current, latest, admin>>

\* The file the page has now, or a transfer cut short without an error.
Transfer == {page.file, Damaged}

\* releaseFor, then the download into a temporary file.
Download ==
  /\ worker.at = "begun" /\ latest = worker.target
  /\ \E got \in Transfer :
       worker' = [worker EXCEPT !.at = "downloaded", !.temp = got]
  /\ SetPhase("verifying")
  /\ UNCHANGED <<page, exe, current, latest, admin>>

\* Seeded fault: the file is not run before it is installed.
VerifySumOnly ==
  /\ worker.at = "downloaded" /\ worker.temp = page.sum
  /\ SetPhase("installing") /\ worker' = [worker EXCEPT !.at = "verified"]
  /\ UNCHANGED <<page, exe, current, latest, admin>>

\* The checksum the page has now, and what the file says of itself.
VerifyBuild ==
  /\ worker.at = "downloaded"
  /\ worker.temp = page.sum /\ worker.temp = worker.target
  /\ SetPhase("installing") /\ worker' = [worker EXCEPT !.at = "verified"]
  /\ UNCHANGED <<page, exe, current, latest, admin>>

\* Rename; from here on only the restart is left.
Install ==
  /\ worker.at = "verified" /\ exe' = worker.temp
  /\ SetPhase("restarting") /\ worker' = NoWork
  /\ UNCHANGED <<page, current, latest, admin>>

\* The process ends, because it was told to or by accident, and comes back as
\* the program that is on the disk.
RestartProgram ==
  /\ exe # Damaged /\ current' = exe
  /\ latest' = NoRelease /\ phase' = [name |-> "idle", target |-> 0]
  /\ admin' = [a \in UpgradeAdmins |-> 0] /\ worker' = NoWork
  /\ UNCHANGED <<page, exe>>

\* Releases come and are withdrawn, files are replaced; a page that is wrong
\* in itself is as possible as a right one.
Republish ==
  /\ page' \in Page
  /\ UNCHANGED <<exe, current, latest, phase, admin, worker>>

UpgradeNext ==
  \/ \E a \in UpgradeAdmins : Check(a) \/ Apply(a) \/ BeginUpgrade(a)
  \/ RunFails \/ Download \/ VerifyBuild \/ Install \/ RestartProgram \/ Republish

UpgradeSpec == UpgradeInit /\ [][UpgradeNext]_upgradeVars

-----------------------------------------------------------------------------
(* Properties *)

UpgradeTypeOK ==
  /\ page \in Page /\ exe \in Builds /\ current \in Versions
  /\ latest \in Versions \cup {NoRelease}
  /\ phase \in [name : Phases, target : Versions \cup {0}]
  /\ admin \in [UpgradeAdmins -> Versions \cup {0}]
  /\ worker \in [at : {"none", "begun", "downloaded", "verified"},
                 target : Versions \cup {0}, temp : Builds]

\* The program on the disk runs.  It is another than the process only if that
\* process has been told to restart, and then one it takes for newer: whatever
\* the page said when, a failed upgrade leaves the program alone, and no release
\* is followed by an older one.
InstalledIsSound ==
  /\ exe \in Versions
  /\ exe # current =>
       Newer(exe, current) /\ phase = [name |-> "restarting", target |-> exe]

\* At most one run: the phase is busy for as long as a worker is at work.
WorkerIsAlone == worker.at # "none" => Busy /\ phase.target = worker.target
=============================================================================
