----------------------------- MODULE MCProgress -----------------------------
(***************************************************************************)
(* What must come to an end: scans that were accepted, a batch of          *)
(* scraping, and requests for images.  The three share no state in these   *)
(* modules, so a behaviour belongs to one of them and leaves the others    *)
(* where they start.                                                        *)
(***************************************************************************)
EXTENDS ScanTasks, ScrapeRun, Thumbs

VARIABLE part

allVars == <<part, taskVars, scrapeVars, thumbVars>>

MCInit == /\ TasksInit /\ ScrapeInit /\ ThumbsInit
          /\ part \in {"tasks", "scrape", "thumbs"}

MCNext ==
  /\ UNCHANGED part
  /\ \/ part = "tasks" /\ TasksNext /\ UNCHANGED <<scrapeVars, thumbVars>>
     \/ part = "scrape" /\ ScrapeNext /\ UNCHANGED <<taskVars, thumbVars>>
     \/ part = "thumbs" /\ ThumbsNext /\ UNCHANGED <<taskVars, scrapeVars>>

\* The fairness of the three specifications, each for its own behaviours.
MCFairness ==
  /\ \A j \in Jobs : WF_taskVars(part = "tasks" /\ WorkTask(j))
  /\ WF_scrapeVars(part = "scrape" /\ phase # "idle" /\ Dispatcher)
  /\ \A w \in Scrapers : WF_scrapeVars(part = "scrape" /\ ScrapeWorker(w))
  /\ \A r \in Viewings : /\ WF_thumbVars(part = "thumbs" /\ ThumbStep(r))
                         /\ SF_thumbVars(part = "thumbs" /\ AcquireSem(r))

MCSpec == MCInit /\ [][MCNext]_allVars /\ MCFairness

-----------------------------------------------------------------------------

\* Every variable of the batch and of the image requests keeps its type.
ProgressTypeOK == ScrapeTypeOK /\ ThumbsTypeOK

\* Work that has been accepted comes to an end: a submitted scan, and a batch of
\* scraping, although it is cancelled or broken off.
WorkEnds == AcceptedEnds /\ BatchEnds
=============================================================================
