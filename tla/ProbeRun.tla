------------------------------- MODULE ProbeRun -------------------------------
(***************************************************************************)
(* One run of the probe of media files (server/probe.go runProbe and what   *)
(* its workers call).  Files are handed to workers over an unbuffered       *)
(* channel; each is skipped, filled from the raw output kept beside it      *)
(* (server/mediainfo.go), or probed over the network.  Many failures in a   *)
(* row break the run off by cancelling its context; so does the operator.   *)
(***************************************************************************)
EXTENDS Naturals, FiniteSets

CONSTANTS
  LastFile,      \* the files of the plan are 1 .. LastFile, in its order
  PrimaryFiles,  \* those whose details also go into the NFO of their movie
  LibraryOf,     \* the library of each file
  Probers,       \* Config.ProbeWorkers
  MaxStreak,     \* maxProbeConsecutiveFailures
  ProbeLinks,    \* what a .strm file may point to
  Relinked       \* bound on the .strm files that may be rewritten, once each

Planned == 1 .. LastFile
Unnamed == "unnamed"    \* marked by an old version, which noted no link
Nothing == "nothing"

ASSUME ProbeAssumption ==
  /\ LastFile \in Nat /\ PrimaryFiles \cup Relinked \subseteq Planned /\ DOMAIN LibraryOf = Planned
  /\ MaxStreak \in Nat \ {0} /\ {Unnamed, Nothing} \cap ProbeLinks = {}

VARIABLES
  probing,     \* where runProbe is
  onlyMissing, \* probeRequest.OnlyMissing
  nextFile,    \* the next file to hand out
  prober,      \* each worker: where it is, its file, the link it read
  tally,       \* the counters of probeStatus
  brokenBy,    \* who cancelled the context first
  touched,     \* libraries of the files that were written
  bumped,      \* libraries whose version was raised at the end
  ending,     \* what the run records
  outcomeOf,   \* the code each file completed with, and the link that was read
  strm,        \* the link in each .strm file
  relinked,    \* the files that were given another link
  mark,        \* the link the NFO says it was probed for, in the present version
  raw          \* mediainfo.json beside the file: link, version, readable

probeVars == <<probing, onlyMissing, nextFile, prober, tally, brokenBy, touched, bumped,
               ending, outcomeOf, strm, relinked, mark, raw>>

files == <<strm, relinked>>
kept == <<mark, raw>>
NoRaw == [link |-> Nothing, current |-> FALSE, readable |-> FALSE]
RawFiles == {NoRaw} \cup [link : ProbeLinks, current : BOOLEAN, readable : BOOLEAN]
NewRaw(link) == [link |-> link, current |-> TRUE, readable |-> TRUE]
NoTally == [done |-> 0, success |-> 0, skipped |-> 0, failed |-> 0, streak |-> 0]
Uncounted == [code |-> "none", link |-> Nothing]
NoFile == [at |-> "waiting"]

ProbeInit ==
  /\ probing = "idle" /\ onlyMissing \in BOOLEAN /\ nextFile = 1
  /\ prober = [w \in Probers |-> NoFile] /\ tally = NoTally /\ brokenBy = "none"
  /\ touched = {} /\ bumped = {} /\ ending = [verdict |-> "none", refreshFailed |-> 0]
  /\ outcomeOf = [f \in Planned |-> Uncounted]
  /\ strm \in [Planned -> ProbeLinks] /\ relinked = {}
  /\ mark \in {m \in [Planned -> ProbeLinks \cup {Unnamed, Nothing}] :
                 \A f \in Planned \ PrimaryFiles : m[f] = Nothing}
  /\ raw \in [Planned -> RawFiles]

Cancelled == brokenBy # "none"
ProbeAborted == tally.streak >= MaxStreak

-----------------------------------------------------------------------------
(* The dispatcher *)

WorkersOnly == UNCHANGED <<onlyMissing, tally, touched, outcomeOf, files, kept>>

\* beginProbe, when the lane and the flag are free.
BeginProbe ==
  /\ probing = "idle" /\ probing' = "dispatch"
  /\ UNCHANGED <<nextFile, prober, brokenBy, bumped, ending>> /\ WorkersOnly

\* The head of the dispatching loop: the channel is closed when the run is over.
OfferFile ==
  /\ probing = "dispatch"
  /\ probing' = IF nextFile > LastFile \/ Cancelled \/ ProbeAborted THEN "closed" ELSE "send"
  /\ UNCHANGED <<nextFile, prober, brokenBy, bumped, ending>> /\ WorkersOnly

\* After wg.Wait: the versions are raised, and the run judged by its counters.
FinishProbe ==
  /\ probing = "closed" /\ \A w \in Probers : prober[w].at = "gone"
  /\ probing' = "ended"
  /\ \E raised \in SUBSET touched :
       /\ bumped' = raised
       /\ ending' = [verdict |-> IF ProbeAborted THEN "aborted" ELSE IF Cancelled THEN "cancelled" ELSE "complete",
                      refreshFailed |-> Cardinality(touched \ raised)]
  /\ UNCHANGED <<nextFile, prober, brokenBy>> /\ WorkersOnly

\* adminProbeMediaCancel, or rootCtx at shutdown.
CancelProbe ==
  /\ probing \notin {"idle", "ended"} /\ ~Cancelled /\ brokenBy' = "operator"
  /\ UNCHANGED <<probing, nextFile, prober, bumped, ending>> /\ WorkersOnly

\* A scrape by hand, or the user, points a file elsewhere.
Relink(f) ==
  /\ f \in Relinked \ relinked /\ relinked' = relinked \cup {f}
  /\ \E u \in ProbeLinks \ {strm[f]} : strm' = [strm EXCEPT ![f] = u]
  /\ UNCHANGED <<probing, onlyMissing, nextFile, prober, tally, brokenBy, touched, bumped,
                 ending, outcomeOf, kept>>

-----------------------------------------------------------------------------
(* The workers *)

AtHome == UNCHANGED <<probing, onlyMissing, nextFile, bumped, ending, files>>
ProberAt(w, r) == prober' = [prober EXCEPT ![w] = r]
Goes(w, place) == ProberAt(w, [prober[w] EXCEPT !.at = place])
Ends(w, code) == ProberAt(w, [prober[w] EXCEPT !.at = "settle", !.code = code])
Succeeded(code) == code \in {"PROBED", "BACKFILLED_LOCAL"}
Skipped(code) == code \in {"CACHE_CURRENT", "NFO_CURRENT"}
Failed(code) == ~Succeeded(code) /\ ~Skipped(code)

\* A worker goes on receiving after the run has been broken off, and drops what
\* it gets: the dispatcher may be waiting to hand out one more.
TakeFile(w) ==
  /\ probing = "send" /\ prober[w].at = "waiting"
  /\ probing' = "dispatch" /\ nextFile' = nextFile + 1
  /\ ProberAt(w, IF Cancelled \/ ProbeAborted THEN NoFile
                 ELSE [at |-> "judge", file |-> nextFile, link |-> Nothing, code |-> "none"])
  /\ UNCHANGED <<onlyMissing, tally, brokenBy, touched, bumped, ending, outcomeOf, files, kept>>

SeesEnd(w) ==
  /\ probing = "closed" /\ prober[w].at = "waiting" /\ ProberAt(w, [at |-> "gone"])
  /\ AtHome /\ UNCHANGED <<tally, brokenBy, touched, outcomeOf, kept>>

\* Seeded fault: an NFO that has been probed is taken for current, whatever the link.
MarkCurrentForAny(f, u) == f \in PrimaryFiles /\ mark[f] # Nothing

\* loadMediaInfo and probeState.isCurrent, for the link of the moment.
HasRaw(f, u) == raw[f].link = u
RawCurrent(f, u) == HasRaw(f, u) /\ raw[f].current
MarkCurrent(f, u) == f \in PrimaryFiles /\ mark[f] \in {u, Unnamed}

\* probeOne up to the first expensive step.  A link that cannot be read has failed.
JudgeFile(w) ==
  /\ prober[w].at = "judge"
  /\ LET f == prober[w].file
         u == strm[f]
         here(place, code) == ProberAt(w, [at |-> place, file |-> f, link |-> u, code |-> code])
     IN \/ here("settle", "READ_SOURCE_FAILED")
        \/ /\ onlyMissing /\ RawCurrent(f, u) /\ ~MarkCurrent(f, u)
           /\ here(IF f \in PrimaryFiles THEN "backfill" ELSE "settle", "CACHE_CURRENT")
        \/ /\ onlyMissing /\ MarkCurrent(f, u)
           /\ here("settle", IF RawCurrent(f, u) THEN "CACHE_CURRENT" ELSE "NFO_CURRENT")
        \/ /\ onlyMissing /\ HasRaw(f, u) /\ ~RawCurrent(f, u) /\ ~MarkCurrent(f, u)
           /\ here("backfill", "none")
        \/ (onlyMissing => ~HasRaw(f, u) /\ ~MarkCurrent(f, u)) /\ here("run", "none")
  /\ AtHome /\ UNCHANGED <<tally, brokenBy, touched, outcomeOf, kept>>

\* Where probeOne goes on when there was nothing to fill in: a file with a
\* current output is skipped, any other is probed.
InsteadOfBackfill(w) == Goes(w, IF prober[w].code = "none" THEN "run" ELSE "settle")

\* backfillFromMediaInfo: raw output that cannot be parsed is removed.
Backfill(w) ==
  /\ prober[w].at = "backfill"
  /\ LET f == prober[w].file
     IN \/ /\ ~raw[f].readable /\ raw' = [raw EXCEPT ![f] = NoRaw]
           /\ InsteadOfBackfill(w) /\ UNCHANGED <<mark, touched>>
        \/ /\ f \in PrimaryFiles /\ raw[f].readable
           /\ InsteadOfBackfill(w) /\ UNCHANGED <<mark, raw, touched>>
        \/ /\ raw[f].readable /\ Ends(w, "BACKFILLED_LOCAL")
           /\ mark' = IF f \in PrimaryFiles THEN [mark EXCEPT ![f] = raw[f].link] ELSE mark
           /\ touched' = touched \cup {LibraryOf[f]}
           /\ raw' \in {raw, [raw EXCEPT ![f].current = TRUE]}
  /\ AtHome /\ UNCHANGED <<tally, brokenBy, outcomeOf>>

\* probe.Run: the process fails, or is killed with the context.
RunFFProbe(w) ==
  /\ prober[w].at = "run"
  /\ \/ Ends(w, "FFPROBE_FAILED")
     \/ ~Cancelled /\ Goes(w, "save")
  /\ AtHome /\ UNCHANGED <<tally, brokenBy, touched, outcomeOf, kept>>

\* writeProbeNFO and saveMediaInfo; the second may fail without a failure of the file.
SaveDetails(w) ==
  /\ prober[w].at = "save"
  /\ LET f == prober[w].file
         u == prober[w].link
     IN \/ /\ f \in PrimaryFiles /\ Ends(w, "NFO_WRITE_FAILED")
           /\ UNCHANGED <<kept, touched>>
        \/ /\ mark' = IF f \in PrimaryFiles THEN [mark EXCEPT ![f] = u] ELSE mark
           /\ raw' \in {raw, [raw EXCEPT ![f] = NewRaw(u)]}
           /\ touched' = touched \cup {LibraryOf[f]} /\ Ends(w, "PROBED")
  /\ AtHome /\ UNCHANGED <<tally, brokenBy, outcomeOf>>

\* The deferred end of probeOne: a failure after a cancellation is not counted.
SettleFile(w) ==
  /\ prober[w].at = "settle"
  /\ IF Cancelled /\ Failed(prober[w].code) THEN ProberAt(w, NoFile) ELSE Goes(w, "count")
  /\ AtHome /\ UNCHANGED <<tally, brokenBy, touched, outcomeOf, kept>>

\* Seeded fault: a failure only counts for the streak.
CountedAsStreak(code) ==
  LET t == [tally EXCEPT !.done = @ + 1]
  IN IF Succeeded(code) THEN [t EXCEPT !.success = @ + 1, !.streak = 0]
     ELSE IF Skipped(code) THEN [t EXCEPT !.skipped = @ + 1, !.streak = 0]
     ELSE [t EXCEPT !.streak = @ + 1]

Counted(code) ==
  LET t == [tally EXCEPT !.done = @ + 1]
  IN IF Succeeded(code) THEN [t EXCEPT !.success = @ + 1, !.streak = 0]
     ELSE IF Skipped(code) THEN [t EXCEPT !.skipped = @ + 1, !.streak = 0]
     ELSE [t EXCEPT !.failed = @ + 1, !.streak = @ + 1]

\* completeProbe.  probeProgressEmit is held until the context is cancelled.
CountFile(w) ==
  /\ prober[w].at = "count"
  /\ LET code == prober[w].code
     IN /\ tally' = Counted(code)
        /\ outcomeOf' = [outcomeOf EXCEPT ![prober[w].file] = [code |-> code, link |-> prober[w].link]]
        /\ brokenBy' = IF Failed(code) /\ tally'.streak = MaxStreak /\ ~Cancelled
                       THEN "breaker" ELSE brokenBy
  /\ AtHome /\ UNCHANGED <<touched, kept>>

\* Seeded fault: a worker leaves when the run has been broken off.
CompleteAndLeave(w) ==
  CountFile(w) /\ ProberAt(w, IF brokenBy' # "none" THEN [at |-> "gone"] ELSE NoFile)

CompleteFile(w) == CountFile(w) /\ ProberAt(w, NoFile)

Prober(w) ==
  \/ TakeFile(w) \/ SeesEnd(w) \/ JudgeFile(w) \/ Backfill(w) \/ RunFFProbe(w)
  \/ SaveDetails(w) \/ SettleFile(w) \/ CompleteFile(w)
ProbeDispatcher == OfferFile \/ FinishProbe

ProbeNext ==
  \/ BeginProbe \/ ProbeDispatcher \/ CancelProbe \/ (\E f \in Planned : Relink(f))
  \/ \E w \in Probers : Prober(w)
ProbeSpec == ProbeInit /\ [][ProbeNext]_probeVars

\* ffprobe runs under a timeout; nothing else waits for the outside.
ProbeFairness ==
  /\ WF_probeVars(ProbeDispatcher)
  /\ \A w \in Probers : WF_probeVars(Prober(w))
ProbeFairSpec == ProbeSpec /\ ProbeFairness

-----------------------------------------------------------------------------
(* Properties *)

\* Types; every file handed out is counted once at most, under one heading.
ProbeTypeOK ==
  /\ probing \in {"idle", "dispatch", "send", "closed", "ended"} /\ onlyMissing \in BOOLEAN
  /\ nextFile \in 1 .. LastFile + 1
  /\ \A w \in Probers : prober[w].at \in {"waiting", "judge", "backfill", "run", "save", "settle", "count", "gone"}
  /\ tally \in [done : 0 .. LastFile, success : 0 .. LastFile, skipped : 0 .. LastFile,
                failed : 0 .. LastFile, streak : 0 .. LastFile]
  /\ tally.done = tally.success + tally.skipped + tally.failed
  /\ tally.done = Cardinality({f \in Planned : outcomeOf[f] # Uncounted})
  /\ brokenBy \in {"none", "operator", "breaker"} /\ bumped \subseteq touched
  /\ strm \in [Planned -> ProbeLinks] /\ relinked \subseteq Relinked
  /\ mark \in [Planned -> ProbeLinks \cup {Unnamed, Nothing}] /\ raw \in [Planned -> RawFiles]

\* A run that has begun ends, also when it is broken off while the dispatcher
\* waits to hand out a file.
ProbeEnds == (probing # "idle") ~> (probing = "ended")

\* What a completed file has is of the link that was read for it: a success leaves
\* the mark in the NFO, and a skip what it was skipped for.  Raw output that turned
\* out unreadable is gone by then, which the code accepts.
DetailsAreOfTheLink ==
  \A f \in Planned :
    LET code == outcomeOf[f].code
        u == outcomeOf[f].link
    IN /\ Succeeded(code) /\ f \in PrimaryFiles => mark[f] = u
       /\ code = "BACKFILLED_LOCAL" => HasRaw(f, u)
       /\ code = "NFO_CURRENT" => mark[f] \in {u, Unnamed}
       /\ code = "CACHE_CURRENT" => RawCurrent(f, u) \/ raw[f] = NoRaw

\* A library in which the run has written is announced with a new version, or the
\* run says how many could not be.
WritesAreAnnounced ==
  probing = "ended" /\ ending.refreshFailed = 0 =>
    \A f \in Planned : Succeeded(outcomeOf[f].code) => LibraryOf[f] \in bumped

ProbesAreKept == DetailsAreOfTheLink /\ WritesAreAnnounced

\* A run that was broken off for its failures says so: probe.go wants it told
\* apart from one the operator has cancelled.
BrokenOffIsAborted == probing = "ended" /\ brokenBy = "breaker" => ending.verdict = "aborted"
==============================================================================
