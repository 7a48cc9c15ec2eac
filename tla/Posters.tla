------------------------------- MODULE Posters -------------------------------
(***************************************************************************)
(* The private poster of a movie, <source>.poster.jpg (artwork/artwork.go,  *)
(* store/artwork.go).  A run looks at the row and the files, makes an image *)
(* for up to 90 seconds without any lock, looks again, and installs the     *)
(* image inside the transaction that changes the row.  Other programs write *)
(* to the library meanwhile; the file and the row are no transaction.       *)
(***************************************************************************)
EXTENDS Naturals

CONSTANTS
  Painters,   \* runs of the operation
  MaxPrints   \* bound: files that are written, and changes of the row

ASSUME PosterAssumption == MaxPrints \in Nat \ {0}

VARIABLES
  privatePoster,     \* the private poster: its identity, and whether it is an image
  namedPoster,    \* the poster that the row named when it was another file, and its identity
  strmFile,     \* the identity of the STRM
  dbRow,        \* the movie: its version, and whether poster_path is the private one
  painter,    \* each run: where it is, its mode, and what it has looked at
  prints      \* identities in use

posterVars == <<privatePoster, namedPoster, strmFile, dbRow, painter, prints>>

NoFile == [id |-> 0, image |-> FALSE]
NotPainting == [at |-> "out"]

PosterInit ==
  /\ privatePoster = NoFile /\ namedPoster \in {NoFile, [id |-> 1, image |-> TRUE]} /\ strmFile = 1
  /\ dbRow = [version |-> 1, private |-> FALSE] /\ painter = [p \in Painters |-> NotPainting] /\ prints = 1

Paint(p, state) == painter' = [painter EXCEPT ![p] = state]
LeavePainter(p) == Paint(p, NotPainting)
Fingerprints == <<strmFile, privatePoster, namedPoster>>
PosterFilesStay == UNCHANGED <<privatePoster, namedPoster, strmFile, prints>>

-----------------------------------------------------------------------------
(* Run                                                                     *)

\* The row that is read first is the one the transaction expects.
ReadRow(p) ==
  /\ painter[p].at = "out"
  /\ \E overwrite \in BOOLEAN :
       Paint(p, [at |-> "read", overwrite |-> overwrite, row |-> dbRow])
  /\ PosterFilesStay /\ UNCHANGED dbRow

\* What the files allow: nothing, for there is a poster; the repair of the row,
\* for there is a private poster that it does not name; or a new image, unless
\* that would replace a damaged file without being asked to.
PosterNamed(p) == IF painter[p].row.private THEN privatePoster ELSE namedPoster

LookAtFiles(p) ==
  /\ painter[p].at = "read"
  /\ LET look == [at |-> "making", overwrite |-> painter[p].overwrite,
                  row |-> painter[p].row, seen |-> Fingerprints]
     IN \/ painter[p].overwrite /\ Paint(p, look)
        \/ ~painter[p].overwrite /\ PosterNamed(p).image /\ LeavePainter(p)
        \/ /\ ~painter[p].overwrite /\ ~PosterNamed(p).image
           /\ \/ privatePoster.image /\ Paint(p, [look EXCEPT !.at = "repairing"])
              \/ privatePoster = NoFile /\ Paint(p, look)
              \/ privatePoster # NoFile /\ ~privatePoster.image /\ LeavePainter(p)
  /\ PosterFilesStay /\ UNCHANGED dbRow

\* The download or the screenshot fails, or is too late.
MakeImage(p) ==
  /\ painter[p].at = "making"
  /\ LeavePainter(p) \/ Paint(p, [painter[p] EXCEPT !.at = "made"])
  /\ PosterFilesStay /\ UNCHANGED dbRow

\* PreparePoster: nothing that was looked at has changed.
PreparePoster(p) ==
  /\ painter[p].at \in {"made", "repairing"}
  /\ IF painter[p].seen = Fingerprints
     THEN Paint(p, [painter[p] EXCEPT !.at = IF @ = "made" THEN "install" ELSE "index"])
     ELSE LeavePainter(p)
  /\ PosterFilesStay /\ UNCHANGED dbRow

RowAsRead(p) == dbRow = painter[p].row

\* Seeded fault: the privatePoster is looked at, and then replaced.
InstallByRename(p) == painter[p].overwrite \/ painter[p].seen[2] = NoFile

\* installPoster: Rename replaces, Link does not.
MayInstall(p) == painter[p].overwrite \/ privatePoster = NoFile

\* Commit, in the transaction: the row is compared, and the image gets its name.
\* The transaction may fail afterwards, or the process stop, and the image stays.
InstallPoster(p) ==
  /\ painter[p].at = "install" /\ prints < MaxPrints
  /\ \/ /\ RowAsRead(p) /\ MayInstall(p)
        /\ privatePoster' = [id |-> prints + 1, image |-> TRUE] /\ prints' = prints + 1
        /\ dbRow' \in {dbRow, [version |-> dbRow.version, private |-> TRUE]}
     \/ /\ ~(RowAsRead(p) /\ MayInstall(p)) /\ UNCHANGED <<privatePoster, prints, dbRow>>
  /\ LeavePainter(p) /\ UNCHANGED <<namedPoster, strmFile>>

\* The repair changes the row alone.
IndexPoster(p) ==
  /\ painter[p].at = "index"
  /\ dbRow' = dbRow \/ (RowAsRead(p) /\ dbRow' = [dbRow EXCEPT !.private = TRUE])
  /\ LeavePainter(p) /\ PosterFilesStay

-----------------------------------------------------------------------------
(* Everybody else                                                          *)

NextPrint == prints < MaxPrints /\ prints' = prints + 1
OthersWrite ==
  /\ NextPrint
  /\ \/ \E b \in BOOLEAN : privatePoster' = [id |-> prints', image |-> b] /\ UNCHANGED <<namedPoster, strmFile, dbRow>>
     \/ \E b \in BOOLEAN : namedPoster' = [id |-> prints', image |-> b] /\ UNCHANGED <<privatePoster, strmFile, dbRow>>
     \/ strmFile' = prints' /\ UNCHANGED <<privatePoster, namedPoster, dbRow>>
     \/ dbRow' = [dbRow EXCEPT !.version = prints'] /\ UNCHANGED <<privatePoster, namedPoster, strmFile>>
  /\ UNCHANGED painter
OthersRemove ==
  /\ \/ privatePoster # NoFile /\ privatePoster' = NoFile /\ UNCHANGED namedPoster
     \/ namedPoster # NoFile /\ namedPoster' = NoFile /\ UNCHANGED privatePoster
  /\ UNCHANGED <<strmFile, dbRow, painter, prints>>

PosterNext ==
  \/ \E p \in Painters :
       ReadRow(p) \/ LookAtFiles(p) \/ MakeImage(p) \/ PreparePoster(p) \/ InstallPoster(p) \/ IndexPoster(p)
  \/ OthersWrite \/ OthersRemove

PosterSpec == PosterInit /\ [][PosterNext]_posterVars

-----------------------------------------------------------------------------
(* Properties                                                              *)

PosterFiles == [id : 0 .. MaxPrints, image : BOOLEAN]
PosterTypeOK ==
  /\ privatePoster \in PosterFiles /\ namedPoster \in PosterFiles /\ strmFile \in 1 .. MaxPrints
  /\ dbRow \in [version : 1 .. MaxPrints, private : BOOLEAN] /\ prints \in 1 .. MaxPrints
  /\ \A p \in Painters : painter[p].at \in {"out", "read", "making", "made", "repairing", "install", "index"}

\* A run that was not told to overwrite replaces no file, whoever has put it there
\* while the image was made; and it changes no row that somebody else has changed.
NothingIsLost ==
  [][\A p \in Painters : painter[p] # painter'[p] =>
       /\ privatePoster' # privatePoster => painter[p].overwrite \/ privatePoster = NoFile
       /\ dbRow' # dbRow => painter[p].row = dbRow]_posterVars
==============================================================================
