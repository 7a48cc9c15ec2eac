------------------------------- MODULE Views -------------------------------
(***************************************************************************)
(* Cached answers and the version in their keys (store/versions.go,        *)
(* write_tx.go, cache/, server/library.go, media.go).  Every write to the  *)
(* index advances "g:version" in its transaction; after the commit the     *)
(* writer publishes it to the process.  An answer is kept under the        *)
(* version its reader found before it read anything.  One behaviour asks   *)
(* for one kind of answer about one movie: kinds do not share keys.        *)
(***************************************************************************)
EXTENDS Naturals

CONSTANTS
  IndexWriters,  \* goroutines in a write transaction of the store
  Readers,       \* requests for an answer
  NoEntry,       \* the key is not in the cache
  MaxWrites      \* bound: committed writes

ASSUME ViewsAssumption == MaxWrites \in Nat

VARIABLES
  answer,     \* the kind of answer this behaviour is about
  written,    \* committed writes, which is what kv "g:version" says
  visible,    \* the movie is in the index
  gversion,   \* Store.gversion, the mirror in the process
  announced,  \* history: the newest version that has been published
  cached,     \* per version: what the answer was computed from
  writer,     \* per writer: the version it has still to publish, or 0
  reader      \* locals of the requests

viewVars ==
  <<answer, written, visible, gversion, announced, cached, writer, reader>>

Commits == 0..MaxWrites
Bound == {"items", "entities", "similar", "cover", "counts", "movie"}
NoRequest == [at |-> "out", version |-> 0, seen |-> 0, since |-> 0]

ViewsInit ==
  /\ answer \in Bound \cup {"detail"}
  /\ written = 0 /\ visible = TRUE /\ gversion = 0 /\ announced = 0
  /\ cached = [v \in Commits |-> NoEntry]
  /\ writer = [w \in IndexWriters |-> 0] /\ reader = [r \in Readers |-> NoRequest]

-----------------------------------------------------------------------------
(* Writers *)

\* The gate and SQLite let one transaction commit at a time.
CommitIndex(w) ==
  /\ writer[w] = 0 /\ written < MaxWrites
  /\ written' = written + 1 /\ writer' = [writer EXCEPT ![w] = written']
  /\ UNCHANGED <<answer, gversion, announced, cached, reader>>

\* BumpVersion, and the scans and edits that write through writeVersioned.
WriteVersioned(w) == CommitIndex(w) /\ UNCHANGED visible

\* Favourites, likes, hiding and played marks: no visible movie, no write.
WriteUserData(w) == visible /\ CommitIndex(w) /\ UNCHANGED visible

DeleteIndexedMovie(w) == visible /\ CommitIndex(w) /\ visible' = FALSE

\* The compare-and-swap loop never goes back.
Published(version) == IF version > gversion THEN version ELSE gversion

PublishVersion(w) ==
  /\ writer[w] # 0 /\ gversion' = Published(writer[w])
  /\ announced' = IF gversion' > announced THEN gversion' ELSE announced
  /\ writer' = [writer EXCEPT ![w] = 0]
  /\ UNCHANGED <<answer, written, visible, cached, reader>>

-----------------------------------------------------------------------------
(* Readers *)

PutReader(r, new) == reader' = [reader EXCEPT ![r] = new]

\* Capture the version and look up its key: a hit is the whole answer.
LookupAnswer(r, request) ==
  LET found == cached[gversion] IN
  PutReader(r, IF found # NoEntry
         THEN [request EXCEPT !.at = "served", !.seen = found]
         ELSE [request EXCEPT !.version = gversion])

Ask(r, kind) ==
  /\ answer = kind /\ reader[r].at = "out"
  /\ LookupAnswer(r, [NoRequest EXCEPT !.at = "asked", !.since = announced])
  /\ UNCHANGED <<answer, written, visible, gversion, announced, cached, writer>>

\* Seeded fault: the rows are read before the version is captured.
AskItemsLate(r) ==
  /\ answer = "items" /\ reader[r].at = "out"
  /\ PutReader(r, [NoRequest EXCEPT !.at = "reading", !.seen = written, !.since = announced])
  /\ UNCHANGED <<answer, written, visible, gversion, announced, cached, writer>>

\* The handlers that capture the version first.
AskItems(r) == Ask(r, "items")         \* itemsQuery
AskEntities(r) == Ask(r, "entities")   \* entityBrowse
AskSimilar(r) == Ask(r, "similar")     \* similar
AskCover(r) == Ask(r, "cover")         \* libraryCoverPath
AskCounts(r) == Ask(r, "counts")       \* cachedUnplayed, cachedCollections
AskMovie(r) == Ask(r, "movie")         \* cachedMovie

\* The first read decides how old the answer is; later ones see newer rows.
ReadIndex(r) ==
  /\ reader[r].at = "asked"
  /\ PutReader(r, [reader[r] EXCEPT !.at = "read", !.seen = written])
  /\ UNCHANGED <<answer, written, visible, gversion, announced, cached, writer>>

\* item: visibility is checked with the movie the answer is made of ...
ReadDetail(r) ==
  /\ answer = "detail" /\ reader[r].at = "out" /\ visible
  /\ PutReader(r, [NoRequest EXCEPT !.at = "reading", !.seen = written, !.since = announced])
  /\ UNCHANGED <<answer, written, visible, gversion, announced, cached, writer>>

\* ... and then the version is captured.
AskDetail(r) ==
  /\ reader[r].at = "reading"
  /\ LookupAnswer(r, [reader[r] EXCEPT !.at = "read"])
  /\ UNCHANGED <<answer, written, visible, gversion, announced, cached, writer>>

\* cachePut, and the answer.
PutAnswer(r) ==
  /\ reader[r].at = "read"
  /\ cached' = [cached EXCEPT ![reader[r].version] = reader[r].seen]
  /\ PutReader(r, [reader[r] EXCEPT !.at = "served"])
  /\ UNCHANGED <<answer, written, visible, gversion, announced, writer>>

LeaveAnswer(r) ==
  /\ reader[r].at = "served" /\ PutReader(r, NoRequest)
  /\ UNCHANGED <<answer, written, visible, gversion, announced, cached, writer>>

\* Time, the capacity of a shard, Delete and Clear take entries away.
Evict(v) ==
  /\ cached[v] # NoEntry /\ cached' = [cached EXCEPT ![v] = NoEntry]
  /\ UNCHANGED <<answer, written, visible, gversion, announced, writer, reader>>

\* A new process reads the version from the database; the cache is lost, or
\* all of it is still there if it is in Redis.
RestartServer ==
  /\ gversion' = written /\ announced' = written
  /\ \/ cached' = cached
     \/ cached' = [v \in Commits |-> NoEntry]
  /\ writer' = [w \in IndexWriters |-> 0]
  /\ reader' = [r \in Readers |-> NoRequest]
  /\ UNCHANGED <<answer, written, visible>>

ViewsNext ==
  \/ \E w \in IndexWriters :
       \/ WriteVersioned(w) \/ WriteUserData(w) \/ DeleteIndexedMovie(w)
       \/ PublishVersion(w)
  \/ \E r \in Readers :
       \/ AskItems(r) \/ AskEntities(r) \/ AskSimilar(r) \/ AskCover(r)
       \/ AskCounts(r) \/ AskMovie(r) \/ ReadIndex(r)
       \/ ReadDetail(r) \/ AskDetail(r) \/ PutAnswer(r) \/ LeaveAnswer(r)
  \/ (\E v \in Commits : Evict(v)) \/ RestartServer

ViewsSpec == ViewsInit /\ [][ViewsNext]_viewVars

-----------------------------------------------------------------------------
(* Properties *)

ViewsTypeOK ==
  /\ answer \in Bound \cup {"detail"} /\ visible \in BOOLEAN
  /\ {written, gversion, announced} \subseteq Commits
  /\ cached \in [Commits -> Commits \cup {NoEntry}]
  /\ writer \in [IndexWriters -> Commits]
  /\ reader \in [Readers -> [at : {"out", "asked", "reading", "read", "served"},
                             version : Commits, seen : Commits, since : Commits]]

Fresh(r) == reader[r].at = "served" => reader[r].seen >= reader[r].since

\* An answer shows every write that had been published when it was asked for,
\* be it computed or found, whatever readers were overtaken by whatever writers.
ServedIsCurrent == answer \in Bound => \A r \in Readers : Fresh(r)

\* The same of the details of a movie, as the comments in similar and in
\* cachedMovie ask for.
DetailIsCurrent == answer = "detail" => \A r \in Readers : Fresh(r)
=============================================================================
