-------------------------------- MODULE Marks --------------------------------
(***************************************************************************)
(* Tags that the program puts into an NFO, and who they belong to           *)
(* (server/subtitle_marks.go, nfo/organize_marks.go, nfo/update.go,         *)
(* scraper/apply.go, store/auto_marks.go).  The program adds a tag for a    *)
(* subtitle it finds and takes it away when the subtitle has gone; tags of  *)
(* people and of the provider stay.  What is the program's is a column of   *)
(* the movie's row, written after the file: the two are no transaction.     *)
(***************************************************************************)
EXTENDS Naturals, FiniteSets

CONSTANTS
  Taggers,    \* requests to organise, and scrapes
  Tags,
  NoTagger,   \* the lane is free
  MaxRetags   \* bound: tag lists written by people

ASSUME MarksAssumption == NoTagger \notin Taggers /\ MaxRetags \in Nat

VARIABLES
  tagsIn,     \* the tags in the file
  autoMarks,  \* movies.auto_marks
  evidence,   \* the tag that the subtitle beside the movie asks for, if any
  tagLane,    \* App.nfoOwner
  tagger,     \* what each request has read, and what it is going to record
  retags,     \* tag lists written by people so far
  ever,       \* history: tags the program has ever put into the file
  placed,     \* history: tags in the file that the program has put there
  missed      \* history: tags whose record could not be written

markVars == <<tagsIn, autoMarks, evidence, tagLane, tagger, retags, ever, placed, missed>>

NoJob == [at |-> "out"]

MarksInit ==
  /\ tagsIn = {} /\ autoMarks = {} /\ evidence = {} /\ tagLane = NoTagger /\ retags = 0
  /\ tagger = [r \in Taggers |-> NoJob] /\ ever = {} /\ placed = {} /\ missed = {}

Job(r, j) == tagger' = [tagger EXCEPT ![r] = j]
FileStays == UNCHANGED <<tagsIn, evidence, retags, ever, placed>>

-----------------------------------------------------------------------------
(* mergeAutoMarkTags *)

Protected(overwrite, locked) == locked \/ (~overwrite /\ tagsIn # {})

\* Others' tags stay, and those of the provider come: upstream.
Foreign(previous, upstream) == (tagsIn \ previous) \cup upstream

After(previous, upstream, now, protected) ==
  IF protected THEN tagsIn ELSE Foreign(previous, upstream) \cup now

Owned(previous, upstream, now, protected) ==
  IF protected THEN previous \cap tagsIn ELSE now \ Foreign(previous, upstream)

\* The file is replaced, and its owner goes on with what he has to record.
WriteTags(r, previous, upstream, now, protected) ==
  LET after == After(previous, upstream, now, protected)
      new   == after \ (tagsIn \cup upstream)
  IN /\ tagsIn' = after
     /\ Job(r, [at |-> "recording", previous |-> previous,
                owned |-> Owned(previous, upstream, now, protected)])
     /\ ever' = ever \cup new
     /\ placed' = IF protected THEN placed ELSE ((placed \ upstream) \cap after) \cup new
     /\ UNCHANGED <<autoMarks, evidence, tagLane, retags, missed>>

-----------------------------------------------------------------------------
(* Organising *)

\* adminSubtitleMarksConfirm: the lane, then readSubtitleMarks.  The version that
\* the client has been shown in a preview stands for the file, the record and
\* the evidence: it is refused unless they are what they are now.
ConfirmMarks(r) ==
  /\ tagger[r].at = "out" /\ tagLane = NoTagger /\ tagLane' = r
  /\ \E overwrite \in BOOLEAN :
       Job(r, [at |-> "confirmed", tags |-> tagsIn, marks |-> autoMarks,
               evidence |-> evidence, overwrite |-> overwrite])
  /\ FileStays /\ UNCHANGED <<autoMarks, missed>>

\* CommitAutoMarks, under the path lock: still the same file.
CommitMarks(r) ==
  /\ tagger[r].at = "confirmed" /\ tagger[r].tags = tagsIn
  /\ \E locked \in BOOLEAN :
       WriteTags(r, tagger[r].marks, {}, tagger[r].evidence,
                 Protected(tagger[r].overwrite, locked))

\* A conflict or an error; nothing has been written.
DropMarks(r) ==
  /\ tagger[r].at \in {"confirmed", "scraping"} /\ Job(r, NoJob) /\ tagLane' = NoTagger
  /\ FileStays /\ UNCHANGED <<autoMarks, missed>>

-----------------------------------------------------------------------------
(* A scrape *)

\* The lane first, then the row: the record of whoever had the lane before.
\* Apply looks for the subtitle after the provider has answered: what changes
\* until then is a change before this step, for nobody else has the lane.
StartTagging(r) ==
  /\ tagger[r].at = "out" /\ tagLane = NoTagger /\ tagLane' = r
  /\ Job(r, [at |-> "scraping", marks |-> autoMarks, evidence |-> evidence])
  /\ FileStays /\ UNCHANGED <<autoMarks, missed>>

\* Apply and writeNFO: whatever the file has become meanwhile.
WriteScraped(r) ==
  /\ tagger[r].at = "scraping"
  /\ \E upstream \in SUBSET Tags, overwrite, locked \in BOOLEAN :
       WriteTags(r, tagger[r].marks, upstream, tagger[r].evidence,
                 Protected(overwrite, locked))

-----------------------------------------------------------------------------
(* The record *)

\* Seeded fault: a request that has been cancelled meanwhile stops here.
RecordUnlessCancelled(r) ==
  /\ tagger[r].at = "recording" /\ Job(r, NoJob) /\ tagLane' = NoTagger
  /\ autoMarks' \in {autoMarks, tagger[r].owned} /\ missed' = missed
  /\ FileStays

\* SetAutoMarks, before anybody looks whether the request has been cancelled;
\* it may fail, which the answer says.
RecordMarks(r) ==
  /\ tagger[r].at = "recording" /\ Job(r, NoJob) /\ tagLane' = NoTagger
  /\ \/ /\ missed' = missed
        /\ autoMarks' = IF tagger[r].owned = tagger[r].previous THEN autoMarks
                        ELSE tagger[r].owned
     \/ /\ tagger[r].owned # tagger[r].previous
        /\ missed' = missed \cup tagger[r].owned /\ autoMarks' = autoMarks
  /\ FileStays

-----------------------------------------------------------------------------
(* Everybody else *)

\* Somebody writes a list of tags, in the program or beside it.
PeopleTag ==
  /\ retags < MaxRetags /\ retags' = retags + 1
  /\ \E tags \in SUBSET Tags : tagsIn' = tags /\ placed' = placed \cap tags
  /\ UNCHANGED <<autoMarks, evidence, tagLane, tagger, ever, missed>>

SubtitlesChange ==
  /\ \E e \in {{}} \cup {{t} : t \in Tags} : evidence' = e
  /\ UNCHANGED <<tagsIn, autoMarks, tagLane, tagger, retags, ever, placed, missed>>

StopTagging ==
  /\ tagger' = [r \in Taggers |-> NoJob] /\ tagLane' = NoTagger
  /\ missed' = missed \cup UNION {tagger[r].owned :
                                    r \in {q \in Taggers : tagger[q].at = "recording"}}
  /\ FileStays /\ UNCHANGED autoMarks

MarksNext ==
  \/ \E r \in Taggers :
       \/ ConfirmMarks(r) \/ CommitMarks(r) \/ DropMarks(r)
       \/ StartTagging(r) \/ WriteScraped(r) \/ RecordMarks(r)
  \/ PeopleTag \/ SubtitlesChange \/ StopTagging

MarksSpec == MarksInit /\ [][MarksNext]_markVars

-----------------------------------------------------------------------------
(* Properties *)

MarksTypeOK ==
  /\ {tagsIn, autoMarks, evidence, ever, placed, missed} \subseteq SUBSET Tags
  /\ Cardinality(evidence) <= 1 /\ tagLane \in Taggers \cup {NoTagger}
  /\ \A r \in Taggers :
       tagger[r].at \in {"out", "confirmed", "scraping", "recording"}
  /\ retags \in 0..MaxRetags

\* What the program takes out of a file is a tag that it has itself put there at
\* some time: no tag that only people or the provider have given a movie is
\* lost to it.
OnlyOwnTagsTaken == tagger' # tagger => tagsIn \ tagsIn' \subseteq ever

\* What the program has put into the file is on record as its own, so that it
\* can be taken out again, unless the record itself could not be written.
MarksAreOwned ==
  tagLane = NoTagger => placed \subseteq autoMarks \cup missed

\* Every step keeps both: nothing is taken out that the program has never put
\* in, and what it has put in can be.
MarksAreKept == [][OnlyOwnTagsTaken /\ MarksAreOwned']_markVars
==============================================================================
