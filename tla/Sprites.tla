------------------------------ MODULE Sprites ------------------------------
(***************************************************************************)
(* Video previews of one movie (artwork/sprite.go, sprite_read.go,         *)
(* store/sprite.go).  A generation is a directory of immutable files; the  *)
(* pointer in the database names the one that is shown.  A maker writes a  *)
(* generation for minutes without the movie's lock, publishes it with a    *)
(* compare-and-swap under the lock, and prunes what is too old.  Viewers   *)
(* read under the lock.  The source and the index row change at any time,  *)
(* steps fail, and the process may stop between any two of them.           *)
(***************************************************************************)
EXTENDS Naturals, FiniteSets

CONSTANTS
  Makers,       \* goroutines in GenerateSprite
  Viewers,      \* requests for a manifest, a sheet, a frame or the BIF
  Sources,     \* what the STRM file may contain
  Keep,         \* older generations kept beside the active one
  Nobody,       \* the gate or the lock is free
  NoPreview,    \* there is no pointer yet
  NoDir,        \* there is no such directory
  MaxMade,      \* bound: directories ever made
  MaxTouched    \* bound: changes of the file, and of the row

VARIABLES
  strm,         \* the source file: its content and its fingerprint
  movieRow,     \* the version of the movie's row and of its library's
  pointer,      \* kv "sprite:<movie>"
  dirs,         \* the generation directories of the movie
  made,         \* generations named so far; names are never used again
  gate,         \* spriteRunGate
  lock,         \* spriteLocks[movie]
  maker, viewer \* locals of the goroutines

spriteVars == <<strm, movieRow, pointer, dirs, made, gate, lock, maker, viewer>>

Generations == 1..MaxMade

\* A directory without its manifest is unfinished, or half removed; one with
\* its manifest may miss other files if its removal was cut short.
SpriteDir == [has : {"some", "manifest", "all"}, rev : 0..MaxMade,
        of : Sources, young : BOOLEAN]
SpritePointer == [rev : 1..MaxMade, gen : Generations, of : Sources]

ASSUME SpritesAssumption ==
  /\ Nobody \notin Makers \cup Viewers /\ Makers \cap Viewers = {}
  /\ Keep \in Nat /\ MaxMade \in Nat /\ MaxTouched \in Nat
  /\ Sources # {}
  /\ NoPreview \notin SpritePointer /\ NoDir \notin SpriteDir

Resting == [at |-> "out", overwrite |-> FALSE, old |-> NoPreview, gen |-> 0,
            of |-> CHOOSE c \in Sources : TRUE, stamp |-> 0, row |-> 0]
NotReading == [at |-> "out", gen |-> 0]

SpritesInit ==
  /\ strm = [content |-> CHOOSE c \in Sources : TRUE, stamp |-> 0]
  /\ movieRow = 0 /\ pointer = NoPreview /\ made = 0
  /\ dirs = [g \in Generations |-> NoDir]
  /\ gate = Nobody /\ lock = Nobody
  /\ maker = [m \in Makers |-> Resting] /\ viewer = [v \in Viewers |-> NotReading]

Present == {g \in Generations : dirs[g] # NoDir}
RevOf(p) == IF p = NoPreview THEN 0 ELSE p.rev
GenOf(p) == IF p = NoPreview THEN 0 ELSE p.gen

SetMaker(m, r) == maker' = [maker EXCEPT ![m] = r]
MakerAt(m, place) == SetMaker(m, [maker[m] EXCEPT !.at = place])

-----------------------------------------------------------------------------
(* Pruning, under the lock *)

\* What no run has published: written by one that died, or writes still.
\* Its manifest is missing or of a revision the pointer has not reached.
Unpublished(active, rev) ==
  {g \in Present \ {active} : dirs[g].has = "some" \/ dirs[g].rev >= rev}

\* Published once; only the youngest of them are kept.
Excess(active, rev) ==
  LET retained == (Present \ {active}) \ Unpublished(active, rev)
  IN  {g \in retained : Cardinality({h \in retained : h > g}) >= Keep}

\* A young unpublished directory may belong to a run in progress.
Blockers(active, rev) == {g \in Unpublished(active, rev) : dirs[g].young}

\* Removal takes the files in any order; it may stop half way.
RemoveDir(g) ==
  \/ dirs' = [dirs EXCEPT ![g] = NoDir]
  \/ /\ dirs[g].has = "all"
     /\ \E left \in {"some", "manifest"} : dirs' = [dirs EXCEPT ![g].has = left]

\* One pass over the movie's directory: it stops at a blocker, at a removal
\* that fails, or after the last removal.
PruneOne(active, rev) ==
  \E g \in Unpublished(active, rev) \cup Excess(active, rev) :
    /\ ~dirs[g].young \/ g \notin Unpublished(active, rev)
    /\ g \in Excess(active, rev) => Unpublished(active, rev) = {}
    /\ RemoveDir(g)
NothingToPrune(active, rev) == Unpublished(active, rev) \cup Excess(active, rev) = {}

-----------------------------------------------------------------------------
(* GenerateSprite *)

EnterGate(m) ==
  /\ maker[m].at = "out" /\ gate = Nobody /\ gate' = m
  /\ \E o \in BOOLEAN : SetMaker(m, [Resting EXCEPT !.at = "gated", !.overwrite = o])
  /\ UNCHANGED <<strm, movieRow, pointer, dirs, made, lock, viewer>>

\* Whoever returns gives back the lock if he has it, and the gate.
LeaveGate(m) ==
  /\ gate' = Nobody /\ SetMaker(m, Resting)
  /\ lock' = IF lock = m THEN Nobody ELSE lock

\* A preview of the same source is kept: the run skips the movie, or refuses
\* to replace damaged files, unless it was told to overwrite.
PreviewKept(m) ==
  /\ ~maker[m].overwrite /\ pointer # NoPreview /\ pointer.of = strm.content

\* Under the lock the run reads the row, the file and the pointer.
OpenRun(m) ==
  /\ maker[m].at = "gated" /\ lock = Nobody
  /\ IF PreviewKept(m) THEN LeaveGate(m)
     ELSE /\ lock' = m /\ gate' = gate
          /\ SetMaker(m, [maker[m] EXCEPT !.at = "opened", !.old = pointer,
                       !.of = strm.content, !.stamp = strm.stamp, !.row = movieRow])
  /\ UNCHANGED <<strm, movieRow, pointer, dirs, made, viewer>>

PruneBefore(m) ==
  /\ maker[m].at = "opened"
  /\ LET p == maker[m].old IN
     \/ PruneOne(GenOf(p), RevOf(p)) /\ UNCHANGED <<lock, maker>>
     \/ NothingToPrune(GenOf(p), RevOf(p)) /\ dirs' = dirs /\ lock' = Nobody
        /\ MakerAt(m, "ready")
  /\ UNCHANGED <<strm, movieRow, pointer, made, gate, viewer>>

\* Seeded fault: the pointer is moved before the files are written.
MakeDirPublished(m) ==
  /\ maker[m].at = "ready" /\ made < MaxMade /\ made' = made + 1
  /\ dirs' = [dirs EXCEPT ![made'] =
                [has |-> "some", rev |-> 0, of |-> maker[m].of, young |-> TRUE]]
  /\ pointer' = [rev |-> RevOf(pointer) + 1, gen |-> made', of |-> maker[m].of]
  /\ SetMaker(m, [maker[m] EXCEPT !.at = "rendering", !.gen = made'])
  /\ UNCHANGED <<strm, movieRow, gate, lock, viewer>>

\* Mkdir of a random name, after the lock has been given back.
MakeDir(m) ==
  /\ maker[m].at = "ready" /\ made < MaxMade /\ made' = made + 1
  /\ dirs' = [dirs EXCEPT ![made'] =
                [has |-> "some", rev |-> 0, of |-> maker[m].of, young |-> TRUE]]
  /\ SetMaker(m, [maker[m] EXCEPT !.at = "rendering", !.gen = made'])
  /\ UNCHANGED <<strm, movieRow, pointer, gate, lock, viewer>>

\* verify: the .strm file is the one that was opened.
SourceStays(m) == strm.stamp = maker[m].stamp

\* Every frame verifies the source first; the manifest is written last, and
\* everything is synced.
Render(m) ==
  /\ maker[m].at = "rendering" /\ SourceStays(m)
  /\ dirs' = [dirs EXCEPT ![maker[m].gen].has = "all",
                          ![maker[m].gen].rev = RevOf(maker[m].old) + 1]
  /\ MakerAt(m, "rendered")
  /\ UNCHANGED <<strm, movieRow, pointer, made, gate, lock, viewer>>

\* verify (the PreparePublish phase) looks at the source and at the files again.
PreparePublish(m) ==
  /\ maker[m].at = "rendered" /\ lock = Nobody /\ lock' = m
  /\ SourceStays(m) /\ dirs[maker[m].gen].has = "all"
  /\ MakerAt(m, "prepared")
  /\ UNCHANGED <<strm, movieRow, pointer, dirs, made, gate, viewer>>

\* The write transaction: the pointer and the row are those the run has read.
PublishSprite(m) ==
  /\ maker[m].at = "prepared" /\ pointer = maker[m].old /\ movieRow = maker[m].row
  /\ pointer' = [rev |-> RevOf(maker[m].old) + 1, gen |-> maker[m].gen,
                 of |-> maker[m].of]
  /\ MakerAt(m, "published")
  /\ UNCHANGED <<strm, movieRow, dirs, made, gate, lock, viewer>>

PruneAfter(m) ==
  /\ maker[m].at = "published"
  /\ LET g == maker[m].gen  rev == RevOf(maker[m].old) + 1 IN
     \/ PruneOne(g, rev) /\ UNCHANGED <<lock, gate, maker>>
     \/ LeaveGate(m) /\ dirs' = dirs   \* done, blocked or failed: all the same
  /\ UNCHANGED <<strm, movieRow, pointer, made, viewer>>

\* Any step may fail or run out of time; a run that owns a directory it has
\* not published removes it, as far as that succeeds.
FailRun(m) ==
  /\ maker[m].at \in {"gated", "opened", "ready", "rendering", "rendered", "prepared"}
  /\ IF maker[m].gen = 0 THEN dirs' = dirs
     ELSE dirs' = dirs \/ RemoveDir(maker[m].gen)
  /\ LeaveGate(m)
  /\ UNCHANGED <<strm, movieRow, pointer, made, viewer>>

-----------------------------------------------------------------------------
(* openSpriteRead and the four readers above it *)

SetViewer(v, r) == viewer' = [viewer EXCEPT ![v] = r]

\* A manifest is asked for the pointer's generation, files by the generation
\* an earlier manifest has named.
Readable(g) ==
  /\ g \in Present /\ dirs[g].has # "some"
  /\ dirs[g].of = pointer.of /\ dirs[g].rev <= pointer.rev

\* Seeded fault: viewers do not take the movie's lock.
ViewSpriteUnlocked(v) ==
  /\ viewer[v].at = "out" /\ pointer # NoPreview /\ pointer.of = strm.content
  /\ \E g \in {h \in Generations : Readable(h)} :
       SetViewer(v, [at |-> "reading", gen |-> g])
  /\ UNCHANGED <<strm, movieRow, pointer, dirs, made, gate, lock, maker>>

ViewSprite(v) ==
  /\ viewer[v].at = "out" /\ lock = Nobody /\ lock' = v
  /\ pointer # NoPreview /\ pointer.of = strm.content
  /\ \E g \in {h \in Generations : Readable(h)} :
       SetViewer(v, [at |-> "reading", gen |-> g])
  /\ UNCHANGED <<strm, movieRow, pointer, dirs, made, gate, maker>>

\* The answer: the bytes, or an error if something has changed meanwhile.
CloseSprite(v) ==
  /\ viewer[v].at = "reading" /\ SetViewer(v, NotReading)
  /\ lock' = IF lock = v THEN Nobody ELSE lock
  /\ UNCHANGED <<strm, movieRow, pointer, dirs, made, gate, maker>>

-----------------------------------------------------------------------------
(* The world *)

EditSource ==
  /\ strm.stamp < MaxTouched
  /\ \E c \in Sources : strm' = [content |-> c, stamp |-> strm.stamp + 1]
  /\ UNCHANGED <<movieRow, pointer, dirs, made, gate, lock, maker, viewer>>

EditRow ==
  /\ movieRow < MaxTouched /\ movieRow' = movieRow + 1
  /\ UNCHANGED <<strm, pointer, dirs, made, gate, lock, maker, viewer>>

\* A run ends after 15 minutes, so what is 17 minutes old has no live owner.
AgeDir(g) ==
  /\ g \in Present /\ dirs[g].young
  /\ \A m \in Makers : maker[m].gen # g
  /\ dirs' = [dirs EXCEPT ![g].young = FALSE]
  /\ UNCHANGED <<strm, movieRow, pointer, made, gate, lock, maker, viewer>>

StopProcess ==
  /\ gate' = Nobody /\ lock' = Nobody
  /\ maker' = [m \in Makers |-> Resting] /\ viewer' = [v \in Viewers |-> NotReading]
  /\ UNCHANGED <<strm, movieRow, pointer, dirs, made>>

SpritesNext ==
  \/ \E m \in Makers : \/ EnterGate(m) \/ OpenRun(m) \/ PruneBefore(m) \/ MakeDir(m)
                       \/ Render(m) \/ PreparePublish(m) \/ PublishSprite(m) \/ PruneAfter(m)
                       \/ FailRun(m)
  \/ \E v \in Viewers : ViewSprite(v) \/ CloseSprite(v)
  \/ EditSource \/ EditRow \/ (\E g \in Generations : AgeDir(g)) \/ StopProcess

SpritesSpec == SpritesInit /\ [][SpritesNext]_spriteVars

-----------------------------------------------------------------------------
(* Properties *)

SpritesTypeOK ==
  /\ strm \in [content : Sources, stamp : 0..MaxTouched] /\ movieRow \in 0..MaxTouched
  /\ pointer \in SpritePointer \cup {NoPreview} /\ made \in 0..MaxMade
  /\ dirs \in [Generations -> SpriteDir \cup {NoDir}]
  /\ gate \in Makers \cup {Nobody} /\ lock \in Makers \cup Viewers \cup {Nobody}
  /\ \A m \in Makers : /\ maker[m].old \in SpritePointer \cup {NoPreview}
                       /\ maker[m].gen \in 0..made
  /\ \A v \in Viewers : viewer[v].gen \in 0..made

\* The pointer names a generation that is all there and was made of the
\* source the pointer names, whatever ran, failed or was pruned meanwhile.
ActiveIsWhole ==
  pointer # NoPreview =>
    /\ pointer.gen \in Present /\ dirs[pointer.gen].has = "all"
    /\ dirs[pointer.gen].rev = pointer.rev /\ dirs[pointer.gen].of = pointer.of

\* No file is removed under a viewer who reads it: his directory only ages.
ReadStays(v) ==
  viewer[v].at = "reading" /\ viewer'[v].at = "reading"
    => dirs'[viewer[v].gen] \in
         {dirs[viewer[v].gen], [dirs[viewer[v].gen] EXCEPT !.young = FALSE]}
ReadsAreStable == [][\A v \in Viewers : ReadStays(v)]_spriteVars

\* Failures and crashes do not fill the disk: beside the active generation
\* and the older ones that are kept there is at most one directory, be it in
\* the making, left by a run that died or by a pruning that failed.
GenerationsBounded == Cardinality(Present) <= Keep + 2

\* What a run publishes is whole and stays, and what it supersedes goes.
SpritesAreKept == ActiveIsWhole /\ GenerationsBounded
=============================================================================
