------------------------------ MODULE MCWorks -------------------------------
(***************************************************************************)
(* Work that leaves files or settings: sprites, the program itself,        *)
(* backups, NFO files, marks, logs, posters and webhooks.  They share no   *)
(* state in these modules, so a behaviour belongs to one of them and       *)
(* leaves the others where they start.                                     *)
(***************************************************************************)
EXTENDS Sprites, Upgrade, Backup, Edits, Marks, DiskLogs, Posters, Webhooks, TLC

VARIABLE part

MCInit ==
  /\ SpritesInit /\ UpgradeInit /\ BackupInit /\ EditsInit /\ MarksInit
  /\ LogInit /\ PosterInit /\ WebhooksInit
  /\ part \in {"sprites", "upgrade", "backup", "edits", "marks", "logs", "posters",
                "webhooks"}
  /\ part # "posters" => namedPoster = NoFile
  /\ part # "upgrade" => exe = 1
  /\ part # "webhooks" => fileTarget = [url |-> NoUrl, on |-> FALSE]

MCNext ==
  /\ UNCHANGED part
  /\ \/ part = "sprites"  /\ SpritesNext
     \/ part = "upgrade"  /\ UpgradeNext
     \/ part = "backup"   /\ BackupNext
     \/ part = "edits"    /\ EditsNext
     \/ part = "marks"    /\ MarksNext
     \/ part = "logs"     /\ LogNext
     \/ part = "posters"  /\ PosterNext
     \/ part = "webhooks" /\ WebhooksNext
  /\ part = "sprites"  \/ UNCHANGED spriteVars
  /\ part = "upgrade"  \/ UNCHANGED upgradeVars
  /\ part = "backup"   \/ UNCHANGED backupVars
  /\ part = "edits"    \/ UNCHANGED editVars
  /\ part = "marks"    \/ UNCHANGED markVars
  /\ part = "logs"     \/ UNCHANGED logVars
  /\ part = "posters"  \/ UNCHANGED posterVars
  /\ part = "webhooks" \/ UNCHANGED hookVars

allVars == <<part, spriteVars, upgradeVars, backupVars, editVars, markVars, logVars,
             posterVars, hookVars>>

MCSpec == MCInit /\ [][MCNext]_allVars

\* Whoever does the work, they are alike.
Alike == Permutations(Makers)

-----------------------------------------------------------------------------

\* Every variable of these services keeps its type.
WorksTypeOK ==
  /\ SpritesTypeOK /\ UpgradeTypeOK /\ BackupTypeOK /\ EditsTypeOK
  /\ MarksTypeOK /\ LogTypeOK /\ PosterTypeOK /\ WebhooksTypeOK
=============================================================================
