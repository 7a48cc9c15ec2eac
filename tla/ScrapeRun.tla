------------------------------ MODULE ScrapeRun ------------------------------
(***************************************************************************)
(* One batch of scraping (server/scrape.go executeScrape, scraper/run.go,   *)
(* scraper/apply.go): candidates are read in batches behind a cursor and    *)
(* handed to workers over an unbuffered channel.  Every result is delivered *)
(* under one mutex, and a row of failures of the service, or a              *)
(* cancellation, ends the batch early.  What has been written into NFOs by  *)
(* then is imported by a scan at the end.                                    *)
(***************************************************************************)
EXTENDS Naturals, Sequences, FiniteSets

CONSTANTS
  Candidates,   \* ids of the movies that lack metadata, a set of numbers
  Scrapers,     \* Config.Workers
  BatchSize,    \* scrapeBatchSize
  RunLimit,     \* RunOptions.Limit, 0 for none
  MaxFailures   \* MaxConsecutiveFailures

ASSUME ScrapeAssumption ==
  /\ Candidates \subseteq Nat \ {0} /\ IsFiniteSet(Candidates)
  /\ BatchSize \in Nat \ {0} /\ RunLimit \in Nat /\ MaxFailures \in Nat \ {0}

VARIABLES
  phase,       \* where executeScrape and its dispatcher are
  afterID,     \* the cursor
  batch,       \* the movies of the batch that are still to be handed out
  scraper,     \* each worker: where it is, its movie, the result it will deliver
  streak,      \* progress.Consecutive
  aborted,     \* runState.aborted
  stopped,     \* the context is cancelled
  delivered,   \* the results so far, in the order of OnItem
  saved,       \* movies whose NFO this run has written
  imported,     \* movies whose NFO has been read by the scan at the end
  note,        \* last_scrape_error, as this run leaves it
  verdict      \* what the task records

scrapeVars == <<phase, afterID, batch, scraper, streak, aborted, stopped,
                delivered, saved, imported, note, verdict>>

ScrapeResults == {"success", "skipped", "unreachable", "failed"}
NoMovie == [at |-> "waiting"]

ScrapeInit ==
  /\ phase = "idle" /\ afterID = 0 /\ batch = {} /\ scraper = [w \in Scrapers |-> NoMovie]
  /\ streak = 0 /\ aborted = FALSE /\ stopped = FALSE /\ delivered = <<>>
  /\ saved = {} /\ imported = {} /\ note = [m \in Candidates |-> "old"] /\ verdict = "none"

Ending == aborted \/ stopped
Done == Len(delivered)
FirstOf(S, n) == {m \in S : Cardinality({k \in S : k < m}) < n}

DispatcherOnly == UNCHANGED <<scraper, streak, aborted, delivered, saved, note>>

-----------------------------------------------------------------------------
(* executeScrape and the dispatcher *)

\* claimNFO, or another writer has the lane.
StartBatch ==
  /\ phase = "idle"
  /\ \/ phase' = "fetch" /\ verdict' = verdict
     \/ phase' = "ended" /\ verdict' = "failed"
  /\ UNCHANGED <<afterID, batch, stopped, imported>> /\ DispatcherOnly

\* Seeded fault: the limit of a batch forgets what has been done.
WantedOfLimit == IF RunLimit = 0 \/ BatchSize < RunLimit THEN BatchSize ELSE RunLimit

Wanted == IF RunLimit = 0 \/ BatchSize < RunLimit - Done THEN BatchSize ELSE RunLimit - Done

\* The next batch behind the cursor.  It is read with or without success.
FetchBatch ==
  /\ phase = "fetch"
  /\ LET next == FirstOf({m \in Candidates : m > afterID}, Wanted)
     IN \/ /\ phase' = "hand" /\ batch' = next
           /\ \E last \in next : (\A m \in next : m <= last) /\ afterID' = last
           /\ verdict' = verdict
        \/ /\ next = {} /\ phase' = "index"
           /\ verdict' = IF stopped THEN "cancelled" ELSE "ok"
           /\ UNCHANGED <<batch, afterID>>
        \/ phase' = "index" /\ verdict' = "failed" /\ UNCHANGED <<batch, afterID>>
  /\ UNCHANGED <<stopped, imported>> /\ DispatcherOnly

\* The head of the loop: a movie is offered unless the batch is ending.
Offer ==
  /\ phase = "hand"
  /\ phase' = IF Ending \/ batch = {} THEN "closed" ELSE "send"
  /\ UNCHANGED <<afterID, batch, stopped, imported, verdict>> /\ DispatcherOnly

\* Wait, and what Run makes of it.
JudgeBatch ==
  /\ phase = "closed" /\ \A w \in Scrapers : scraper[w].at = "gone"
  /\ phase' = IF Ending THEN "index" ELSE "fetch"
  /\ verdict' = IF aborted THEN "aborted" ELSE IF stopped THEN "cancelled" ELSE verdict
  /\ scraper' = [w \in Scrapers |-> NoMovie] /\ batch' = {}
  /\ UNCHANGED <<afterID, streak, aborted, stopped, delivered, saved, imported, note>>

\* scanLibraries, if anything succeeded: it finds every NFO there is, or fails.
IndexSaved ==
  /\ phase = "index" /\ phase' = "ended"
  /\ \/ /\ \E i \in 1 .. Done : delivered[i].result = "success"
        /\ \/ imported' = saved /\ verdict' = verdict
           \/ imported' = imported /\ verdict' = "index failed"
     \/ /\ \A i \in 1 .. Done : delivered[i].result # "success"
        /\ UNCHANGED <<imported, verdict>>
  /\ UNCHANGED <<afterID, batch, stopped>> /\ DispatcherOnly

\* adminScrapeCancel, or the server stops.
CancelScrape ==
  /\ phase \notin {"idle", "ended"} /\ ~stopped /\ stopped' = TRUE
  /\ UNCHANGED <<phase, afterID, batch, imported, verdict>> /\ DispatcherOnly

-----------------------------------------------------------------------------
(* The workers *)

Stays == UNCHANGED <<phase, afterID, batch, stopped, imported, verdict>>
WorkerAt(w, r) == scraper' = [scraper EXCEPT ![w] = r]
Answers(w, m, result) == WorkerAt(w, [at |-> "deliver", movie |-> m, result |-> result])

\* The worker takes the movie offered; it drops it when the batch is ending, and
\* goes on receiving, for the dispatcher may be waiting to hand out another.
Receive(w) ==
  /\ phase = "send" /\ scraper[w].at = "waiting"
  /\ phase' = "hand"
  /\ \E m \in batch :
       /\ \A k \in batch : m <= k
       /\ batch' = batch \ {m}
       /\ WorkerAt(w, IF Ending THEN NoMovie ELSE [at |-> "search", movie |-> m])
  /\ UNCHANGED <<afterID, streak, aborted, stopped, delivered, saved, imported, note, verdict>>

SeesClosed(w) ==
  /\ phase = "closed" /\ scraper[w].at = "waiting" /\ WorkerAt(w, [at |-> "gone"])
  /\ Stays /\ UNCHANGED <<streak, aborted, delivered, saved, note>>

\* recordSkip, recordFailure, and Apply after a success: what the row says now.
\* (A write that fails is only logged, and what the row said before stays.)
NoteResult(m, text) == note' = [note EXCEPT ![m] = text]

\* scrapeOne up to the choice.  A cancelled request has failed, and is not fatal.
Search(w) ==
  /\ scraper[w].at = "search"
  /\ LET m == scraper[w].movie
     IN \/ ~stopped /\ Answers(w, m, "skipped") /\ NoteResult(m, "to confirm")
        \/ ~stopped /\ Answers(w, m, "unreachable") /\ NoteResult(m, "error")
        \/ Answers(w, m, "failed") /\ NoteResult(m, "error")
        \/ ~stopped /\ WorkerAt(w, [at |-> "apply", movie |-> m]) /\ UNCHANGED note
  /\ Stays /\ UNCHANGED <<streak, aborted, delivered, saved>>

\* Apply up to the NFO: the cancellation is looked for before it is written.
WriteMovie(w) ==
  /\ scraper[w].at = "apply"
  /\ LET m == scraper[w].movie
     IN \/ Answers(w, m, "failed") /\ NoteResult(m, "error") /\ UNCHANGED saved
        \/ /\ ~stopped /\ saved' = saved \cup {m}
           /\ WorkerAt(w, [at |-> "written", movie |-> m]) /\ UNCHANGED note
  /\ Stays /\ UNCHANGED <<streak, aborted, delivered>>

\* The rest of Apply: a cancellation found now is returned as an error, and
\* applyScrapeChoice records it as a failure to write.
FinishMovie(w) ==
  /\ scraper[w].at = "written"
  /\ LET m == scraper[w].movie
     IN \/ stopped /\ Answers(w, m, "failed") /\ NoteResult(m, "error")
        \/ ~stopped /\ Answers(w, m, "success") /\ NoteResult(m, "")
  /\ Stays /\ UNCHANGED <<streak, aborted, delivered, saved>>

\* Seeded fault: what is wrong with one movie counts as well.
StreakOfAll(r) == IF r \in {"success", "skipped"} THEN 0 ELSE streak + 1

Streak(r) == IF r = "unreachable" THEN streak + 1 ELSE 0

\* emit, under runState.mu.
Emit(w) ==
  /\ scraper[w].at = "deliver"
  /\ LET r == scraper[w].result
     IN /\ streak' = Streak(r) /\ aborted' = (aborted \/ streak' >= MaxFailures)
        /\ delivered' = Append(delivered, [movie |-> scraper[w].movie, result |-> r])
  /\ Stays /\ UNCHANGED <<saved, note>>

Deliver(w) == Emit(w) /\ WorkerAt(w, NoMovie)

ScrapeWorker(w) ==
  Receive(w) \/ SeesClosed(w) \/ Search(w) \/ WriteMovie(w) \/ FinishMovie(w) \/ Deliver(w)
Dispatcher == StartBatch \/ FetchBatch \/ Offer \/ JudgeBatch \/ IndexSaved

ScrapeNext == Dispatcher \/ CancelScrape \/ \E w \in Scrapers : ScrapeWorker(w)
ScrapeSpec == ScrapeInit /\ [][ScrapeNext]_scrapeVars

\* Requests have timeouts and callbacks return: no process stops by itself.
ScrapeFairness ==
  /\ WF_scrapeVars(phase # "idle" /\ Dispatcher)
  /\ \A w \in Scrapers : WF_scrapeVars(ScrapeWorker(w))
ScrapeFairSpec == ScrapeSpec /\ ScrapeFairness

-----------------------------------------------------------------------------
(* Properties *)

\* Types; and no run delivers more than its limit.
ScrapeTypeOK ==
  /\ phase \in {"idle", "fetch", "hand", "send", "closed", "index", "ended"}
  /\ afterID \in Candidates \cup {0} /\ batch \subseteq Candidates
  /\ \A w \in Scrapers : scraper[w].at \in {"waiting", "search", "apply", "written", "deliver", "gone"}
  /\ streak \in Nat /\ aborted \in BOOLEAN /\ stopped \in BOOLEAN
  /\ delivered \in Seq([movie : Candidates, result : ScrapeResults])
  /\ RunLimit > 0 => Done <= RunLimit
  /\ saved \subseteq Candidates /\ imported \subseteq saved
  /\ note \in [Candidates -> {"old", "", "to confirm", "error"}]

\* A batch that has started ends, although it is cancelled or broken off while
\* the dispatcher waits to hand out a movie.
BatchEnds == (phase # "idle") ~> (phase = "ended")

\* A run that reports no error has delivered each of its candidates, up to the
\* limit, and never one of them twice: no batch repeats or skips a movie.
CleanRunIsComplete ==
  /\ \A i, j \in 1 .. Done : delivered[i].movie = delivered[j].movie => i = j
  /\ phase = "ended" /\ verdict = "ok" =>
       {delivered[i].movie : i \in 1 .. Done} =
         FirstOf(Candidates, IF RunLimit = 0 THEN Cardinality(Candidates) ELSE RunLimit)

\* A batch is broken off for MaxFailures results in a row that say the service
\* cannot be reached, over the borders of batches, and for nothing else.
BreakerIsJust ==
  aborted <=> \E i \in MaxFailures .. Done :
                \A j \in i - MaxFailures + 1 .. i : delivered[j].result = "unreachable"

\* What a batch says of itself is so: a clean end of a complete run, and a break
\* of a service that could not be reached.
BatchIsHonest == CleanRunIsComplete /\ BreakerIsJust

\* A movie whose NFO has been saved is not left as one whose scrape has failed:
\* apply.go says that after a cancellation the state is not touched any more.
SavedIsNotFailed == \A m \in saved : note[m] # "error"
==============================================================================
