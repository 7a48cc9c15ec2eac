-------------------------------- MODULE Edits --------------------------------
(***************************************************************************)
(* Edits of a movie's metadata and their recovery (server/edit_recovery.go, *)
(* adminEditMode, store/edit_failures.go, manual_index.go).  An edit        *)
(* replaces the NFO, which nothing takes back, and then brings the index    *)
(* up to date; if that fails the movie is put on a list, from which an      *)
(* administrator takes it up again with the digest he has been told.  Scans *)
(* exclude edits through the NFO lane; other programs write the file at     *)
(* any time.                                                                *)
(***************************************************************************)
EXTENDS Naturals

CONSTANTS
  Clerks,     \* requests that edit or recover, and scans
  NoClerk,    \* the lane is free
  MaxStamp    \* bound: contents of the NFO, each one new

ASSUME EditsAssumption == NoClerk \notin Clerks /\ MaxStamp \in Nat

VARIABLES
  nfoStamp,   \* what the NFO contains
  lastEdit,   \* history: what the last edit wrote
  row,        \* the movie's row: the contents it was made of; it is manual
  recoverable,     \* edit_failures has the movie
  laneOwner,  \* App.nfoOwner
  clerk,      \* per request: where it is, its digest, what it has read
  excused     \* history: since the last edit its record could not be written

editVars == <<nfoStamp, lastEdit, row, recoverable, laneOwner, clerk, excused>>

Contents == 0..MaxStamp
Away == [at |-> "out", digest |-> 0, read |-> 0]

EditsInit ==
  /\ nfoStamp = 0 /\ lastEdit = 0 /\ row = [of |-> 0, manual |-> FALSE]
  /\ recoverable = FALSE /\ excused = FALSE
  /\ laneOwner = NoClerk /\ clerk = [c \in Clerks |-> Away]

Step(c, from, r) == clerk[c].at = from /\ clerk' = [clerk EXCEPT ![c] = r]
To(c, from, to) == Step(c, from, [clerk[c] EXCEPT !.at = to])
GoHome(c, from) == Step(c, from, Away) /\ laneOwner' = NoClerk
Unrecorded == UNCHANGED <<lastEdit, recoverable, excused>>

\* Seeded fault: an edit does not ask for the lane.
BeginEditUnclaimed(c) ==
  /\ To(c, "out", "editing") /\ UNCHANGED laneOwner
  /\ UNCHANGED <<nfoStamp, row>> /\ Unrecorded

\* adminEditMode: the lane, then the movie and its file.
BeginEdit(c) ==
  /\ laneOwner = NoClerk /\ laneOwner' = c /\ To(c, "out", "editing")
  /\ UNCHANGED <<nfoStamp, row>> /\ Unrecorded

\* UpdateScraped: the new file, or an error and the old one.
SaveEdited(c) ==
  /\ \/ /\ nfoStamp < MaxStamp /\ nfoStamp' = nfoStamp + 1 /\ lastEdit' = nfoStamp'
        /\ excused' = FALSE /\ To(c, "editing", "saved") /\ UNCHANGED laneOwner
     \/ GoHome(c, "editing") /\ UNCHANGED <<nfoStamp, lastEdit, excused>>
  /\ UNCHANGED <<row, recoverable>>

\* adminRecoverEdit: the lane, and the file is the one the client was told of.
BeginRecovery(c) ==
  /\ laneOwner = NoClerk
  /\ \E digest \in 1..MaxStamp :
       /\ nfoStamp = digest /\ laneOwner' = c
       /\ Step(c, "out", [Away EXCEPT !.at = "saved", !.digest = digest])
  /\ UNCHANGED <<nfoStamp, row>> /\ Unrecorded

-----------------------------------------------------------------------------
(* finishEditedNFO and indexEditedNFO *)

\* The digest of what is there now; a recovery is about the one it names.
TakeDigest(c) ==
  /\ \/ /\ clerk[c].digest \in {0, nfoStamp}
        /\ Step(c, "saved", [clerk[c] EXCEPT !.at = "digested", !.digest = nfoStamp])
        /\ UNCHANGED laneOwner
     \/ clerk[c].digest \notin {0, nfoStamp} /\ GoHome(c, "saved")
     \/ To(c, "saved", "failed") /\ UNCHANGED laneOwner
  /\ UNCHANGED <<nfoStamp, row>> /\ Unrecorded

MarkManual(c) ==
  /\ \/ To(c, "digested", "marked") /\ row' = [row EXCEPT !.manual = TRUE]
     \/ To(c, "digested", "failed") /\ UNCHANGED row
  /\ UNCHANGED <<nfoStamp, laneOwner>> /\ Unrecorded

\* ReindexOne reads source, file and images ...
ReadToIndex(c) ==
  /\ \/ Step(c, "marked", [clerk[c] EXCEPT !.at = "read", !.read = nfoStamp])
     \/ To(c, "marked", "failed")
  /\ UNCHANGED <<nfoStamp, row, laneOwner>> /\ Unrecorded

\* ... and writes the row.
WriteIndex(c) ==
  /\ \/ To(c, "read", "checking") /\ row' = [row EXCEPT !.of = clerk[c].read]
     \/ To(c, "read", "failed") /\ UNCHANGED row
  /\ UNCHANGED <<nfoStamp, laneOwner>> /\ Unrecorded

\* The row is manual and the file is still the one of the digest.
CheckIndexed(c) ==
  /\ \/ To(c, "checking", "indexed") /\ row.manual /\ nfoStamp = clerk[c].digest
     \/ To(c, "checking", "failed")
  /\ UNCHANGED <<nfoStamp, row, laneOwner>> /\ Unrecorded

\* MarkEditFailure, which may fail itself.
NoteFailure(c) ==
  /\ GoHome(c, "failed")
  /\ \/ recoverable' = TRUE /\ UNCHANGED excused
     \/ excused' = TRUE /\ UNCHANGED recoverable
  /\ UNCHANGED <<nfoStamp, lastEdit, row>>

\* ClearEditFailure, which may fail as well; the answer is success.
ClearFailure(c) ==
  /\ GoHome(c, "indexed") /\ recoverable' \in {FALSE, recoverable}
  /\ UNCHANGED <<nfoStamp, lastEdit, row, excused>>

-----------------------------------------------------------------------------
(* Everybody else *)

\* A scan, under the lane: it reads the file, and writes the row later.
ScanReads(c) ==
  /\ laneOwner = NoClerk /\ laneOwner' = c
  /\ Step(c, "out", [Away EXCEPT !.at = "scanning", !.read = nfoStamp])
  /\ UNCHANGED <<nfoStamp, row>> /\ Unrecorded
ScanWrites(c) ==
  /\ GoHome(c, "scanning") /\ row' \in {row, [row EXCEPT !.of = clerk[c].read]}
  /\ UNCHANGED nfoStamp /\ Unrecorded

OtherProgramWrites ==
  /\ nfoStamp < MaxStamp /\ nfoStamp' = nfoStamp + 1
  /\ UNCHANGED <<row, laneOwner, clerk>> /\ Unrecorded

\* The list is for what failed, not for what was cut short.
StopServer ==
  /\ clerk' = [c \in Clerks |-> Away] /\ laneOwner' = NoClerk
  /\ excused' = (excused \/ \E c \in Clerks : clerk[c].at \notin {"out", "scanning"})
  /\ UNCHANGED <<nfoStamp, lastEdit, row, recoverable>>

EditsNext ==
  \/ \E c \in Clerks :
       \/ BeginEdit(c) \/ SaveEdited(c) \/ BeginRecovery(c)
       \/ TakeDigest(c) \/ MarkManual(c) \/ ReadToIndex(c) \/ WriteIndex(c)
       \/ CheckIndexed(c) \/ NoteFailure(c) \/ ClearFailure(c)
       \/ ScanReads(c) \/ ScanWrites(c)
  \/ OtherProgramWrites \/ StopServer

EditsSpec == EditsInit /\ [][EditsNext]_editVars

-----------------------------------------------------------------------------
(* Properties *)

EditsTypeOK ==
  /\ nfoStamp \in Contents /\ lastEdit \in Contents
  /\ row \in [of : Contents, manual : BOOLEAN] /\ recoverable \in BOOLEAN
  /\ laneOwner \in Clerks \cup {NoClerk} /\ excused \in BOOLEAN
  /\ clerk \in [Clerks -> [at : {"out", "editing", "saved", "digested", "marked", "read",
                                 "checking", "indexed", "failed", "scanning"},
                           digest : Contents, read : Contents]]

\* An edit that is in the file is in the index or on the list once its request
\* has been answered: no scan, failure or recovery drops it from both.
UnindexedEditIsListed ==
  laneOwner = NoClerk /\ nfoStamp = lastEdit /\ row.of # lastEdit => recoverable \/ excused

\* A request that says indexed has indexed what it has saved or was asked for,
\* although other programs write the file meanwhile.
SuccessIsIndexed ==
  \A c \in Clerks : clerk[c].at = "indexed" => row = [of |-> clerk[c].digest, manual |-> TRUE]

\* What the answer to an edit says of the index is so, and what it cannot say
\* of it is on the list.
EditsAreAccounted == UnindexedEditIsListed /\ SuccessIsIndexed
==============================================================================
