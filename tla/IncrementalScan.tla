-------------------------- MODULE IncrementalScan --------------------------
(***************************************************************************)
(* A pass over one library: internal/scanner/incremental.go, with the      *)
(* transactions of internal/store/scan_state.go, and the other writers of  *)
(* the index: the rescan of one file (scanner.go, store/movie_index.go),   *)
(* deletion and manual marks (store/index_delete.go, manual_index.go).     *)
(*                                                                         *)
(* A group is what is read and committed together: the parts of one movie, *)
(* CD1, CD2, ..., or a single file.  The pass takes stock of the disk,     *)
(* reads a group, compares it with the disk again, and either leaves it    *)
(* alone, because a baseline says that the index was made from the same    *)
(* input, or compares once more and commits rows and baseline in one       *)
(* transaction.  Only a pass that has seen everything removes the rest.    *)
(* Files change at any time; an administrator deletes rows and libraries   *)
(* at any time.  Edits and rescans hold the lane of NFO writers, as the    *)
(* pass does, and so never overlap with it.                                *)
(***************************************************************************)
EXTENDS Integers, FiniteSets

CONSTANTS Paths,     \* .strm files the library may have
          GroupOf,   \* the group of a path; groups are visited in order
          Firsts,    \* the paths that are part 1 of their group
          Urls,      \* what a playable .strm says, size and time included
          Metas,     \* what a readable NFO says
          MaxEvents, \* bound: what happens beside the passes
          None

Groups == {GroupOf[p] : p \in Paths}

\* "large" stands for any file of the group that is above its size limit or
\* is not a regular file; "other" for a source that is not HTTP.
Disk == [mounted : BOOLEAN,
         strm : [Paths -> Urls \cup {"absent", "other", "large"}],
         nfo  : [Paths -> Metas \cup {"missing", "bad"}]]

Row == [status : {"pending", "success", "manual"}, meta : Metas \cup {None},
        src : Urls \cup {None}, parts : SUBSET Paths, note : BOOLEAN]

ASSUME ScanAssumption ==
  /\ GroupOf \in [Paths -> Nat] /\ Urls # {} /\ Metas # {}
  /\ \A p, q \in Firsts : GroupOf[p] = GroupOf[q] => p = q
  /\ {"missing", "bad"} \cap Metas = {} /\ {"absent", "other", "large"} \cap Urls = {}
  /\ None \notin Urls \cup Metas \cup Row
  /\ \A ps \in SUBSET Paths : ps # None

VARIABLES
  disk,
  events,    \* what has happened beside the passes, so far
  library,   \* the library is configured
  rows,      \* movies, by source_path
  baselines, \* scan_groups and scan_group_sources, by group
  pc,        \* where the pass is
  pass,      \* what it holds in memory
  seen       \* the disks there were since the pass began (history)

vars == <<disk, events, library, rows, baselines, pc, pass, seen>>
indexVars == <<library, rows, baselines>>
diskVars == <<disk, seen>>

Present(d) == {p \in Paths : d.mounted /\ d.strm[p] # "absent"}
Members(d, g) == {p \in Present(d) : GroupOf[p] = g}

\* Several files of which one is part 1 are one movie; without it each is its own.
Stacked(ms) == Cardinality(ms) > 1 /\ ms \cap Firsts # {}
Records(ms) == IF Stacked(ms) THEN ms \cap Firsts ELSE ms

\* What is read of a group, and its fingerprint: a digest of exactly this.
Inputs(d, ms) ==
  [src |-> [p \in ms |-> d.strm[p]],
   nfo |-> [p \in Records(ms) |-> d.nfo[p]]]

Sources(in) == DOMAIN in.src
Playable(in) == {p \in DOMAIN in.nfo : in.src[p] \in Urls}

IsManual(p) == rows[p] # None /\ rows[p].status = "manual"
Noted(p) == rows[p] # None /\ rows[p].note

\* Seeded fault: only an NFO that cannot be parsed keeps the row.
KeptIfBad(in, p) == rows[p] # None /\ in.nfo[p] = "bad"

\* An NFO that is there and cannot be parsed keeps what is indexed; no NFO
\* keeps what an operator has written.
Kept(in, p) ==
  /\ rows[p] # None
  /\ in.nfo[p] = "bad" \/ (in.nfo[p] = "missing" /\ rows[p].status = "manual")

\* The other files of a stack.
PartsOf(in, p) == IF Stacked(Sources(in)) THEN Sources(in) \ {p} ELSE {}

\* A row that is kept follows the file only.
Followed(in, p) ==
  [rows[p] EXCEPT !.src = in.src[p], !.parts = PartsOf(in, p),
                  !.note = @ \/ in.nfo[p] = "bad"]

\* A row that is written anew; a manual one stays manual.
Fresh(in, p, manual) ==
  [status |-> IF in.nfo[p] \notin Metas THEN "pending"
              ELSE IF manual THEN "manual" ELSE "success",
   meta   |-> IF in.nfo[p] \in Metas THEN in.nfo[p] ELSE None,
   src    |-> in.src[p],
   parts  |-> PartsOf(in, p),
   note   |-> in.nfo[p] = "bad" \/ (in.nfo[p] = "missing" /\ Noted(p))]

Indexed(in, p, manual) ==
  IF Kept(in, p) THEN Followed(in, p) ELSE Fresh(in, p, manual \/ IsManual(p))

\* A write drops every baseline that depends on one of these paths.
Invalidated(ps) ==
  [g \in Groups |-> IF baselines[g] # None /\ Sources(baselines[g].in) \cap ps # {}
                    THEN None ELSE baselines[g]]

-----------------------------------------------------------------------------
(* The disk, and the writers that need no lane. *)

Event == events < MaxEvents /\ events' = events + 1

ChangeTo(d) ==
  /\ Event
  /\ disk' = d
  /\ seen' = IF pc = "idle" THEN seen ELSE seen \cup {d}
  /\ UNCHANGED <<indexVars, pc, pass>>

\* A file is written or removed, the volume comes or goes.
Change ==
  \/ \E p \in Paths, s \in Urls \cup {"absent", "other", "large"} :
       s # disk.strm[p] /\ ChangeTo([disk EXCEPT !.strm[p] = s])
  \/ \E p \in Paths, n \in Metas \cup {"missing", "bad"} :
       n # disk.nfo[p] /\ ChangeTo([disk EXCEPT !.nfo[p] = n])
  \/ ChangeTo([disk EXCEPT !.mounted = ~@])

\* Seeded fault: the baseline outlives the row.
DeleteMovieOnly(p) ==
  /\ Event
  /\ rows[p] # None
  /\ rows' = [rows EXCEPT ![p] = None]
  /\ UNCHANGED <<diskVars, library, baselines, pc, pass>>

DeleteMovie(p) ==
  /\ Event
  /\ rows[p] # None
  /\ rows' = [rows EXCEPT ![p] = None]
  /\ baselines' = Invalidated({p})
  /\ UNCHANGED <<diskVars, library, pc, pass>>

DeleteLibrary ==
  /\ Event
  /\ library
  /\ library' = FALSE
  /\ rows' = [p \in Paths |-> None]
  /\ baselines' = [g \in Groups |-> None]
  /\ UNCHANGED <<diskVars, pc, pass>>

\* A library that is added again has another id: a pass never sees it return.
AddLibrary ==
  /\ ~library
  /\ pc = "idle"
  /\ library' = TRUE
  /\ UNCHANGED <<diskVars, events, rows, baselines, pc, pass>>

-----------------------------------------------------------------------------
(* The writers that hold the lane: never during a pass. *)

MarkIndexedManual(p) ==
  /\ Event
  /\ pc = "idle"
  /\ rows[p] # None
  /\ rows' = [rows EXCEPT ![p].status = "manual"]
  /\ baselines' = Invalidated({p})
  /\ UNCHANGED <<diskVars, library, pc, pass>>

\* The paths whose baselines a rescan of these records drops: a row that is
\* kept because of its NFO drops none (IndexMovieUnreadableNFO).
Touched(in, ps) ==
  UNION {IF p \notin Playable(in) THEN {q \in {p} : rows[q] # None}
         ELSE IF in.nfo[p] = "bad" /\ rows[p] # None THEN {}
         ELSE {p} \cup PartsOf(in, p) : p \in ps}

\* One file is read again, with its group.  Some of its records may be left
\* out by errors.  A source that is not HTTP loses its row, unless the rescan
\* follows an edit.
RescanOne(g, destructive) ==
  LET in == Inputs(disk, Members(disk, g)) IN
  /\ Event
  /\ pc = "idle"
  /\ library
  /\ \E ps \in (SUBSET {p \in DOMAIN in.nfo : in.src[p] # "large"}) \ {{}} :
       LET done == IF destructive THEN ps ELSE ps \cap Playable(in) IN
       /\ Stacked(Sources(in)) => \A p \in Sources(in) : in.src[p] # "large"
       /\ rows' = [p \in Paths |-> IF p \notin done THEN rows[p]
                                   ELSE IF p \in Playable(in) THEN Indexed(in, p, FALSE)
                                   ELSE None]
       /\ baselines' = Invalidated(Touched(in, done))
  /\ UNCHANGED <<diskVars, library, pc, pass>>

-----------------------------------------------------------------------------
(* The pass. *)

\* health: the library is configured and its root is what it was.
Healthy == library /\ disk.mounted = pass.mounted

Begin(full) ==
  /\ pc = "idle"
  /\ library
  /\ pass' = [full |-> full, allowEmpty |-> FALSE, mounted |-> disk.mounted,
              manual |-> {p \in Paths : IsManual(p)},
              previous |-> \E p \in Paths : rows[p] # None,
              base |-> IF full THEN [g \in Groups |-> None] ELSE baselines,
              evidence |-> [p \in Paths |-> None],
              stock |-> [g \in Groups |-> {}], todo |-> {}, in |-> None,
              expected |-> {}, committed |-> {}, failed |-> FALSE, incomplete |-> FALSE]
  /\ pc' = "enumerate"
  /\ seen' = {disk}
  /\ UNCHANGED <<disk, events, indexVars>>

\* The evidence of the index, and the stock of the disk.
Enumerate ==
  /\ pc = "enumerate"
  /\ pass' = [pass EXCEPT
       !.evidence = [p \in Paths |-> IF pass.full \/ rows[p] = None THEN None
                                    ELSE rows[p].parts],
       !.stock = [g \in Groups |-> Members(disk, g)],
       !.todo = {g \in Groups : Members(disk, g) # {}}]
  /\ pc' = "next"
  /\ UNCHANGED <<diskVars, events, indexVars>>

Current(g) == g \in pass.todo /\ \A h \in pass.todo : g <= h

Later(g) == pass.todo \ {g}

\* A file of the group is too large: the group is left as it is.
SkipGroup(g) ==
  /\ \E p \in pass.stock[g] : p \in Present(disk) /\ disk.strm[p] = "large"
  /\ pass' = [pass EXCEPT !.todo = Later(g), !.in = None, !.incomplete = TRUE]
  /\ pc' = "next"
  /\ UNCHANGED <<diskVars, events, indexVars>>

\* A file of the group cannot be read or is not what it was.
FailGroup(g) ==
  /\ pass' = [pass EXCEPT !.todo = Later(g), !.in = None, !.failed = TRUE]
  /\ pc' = "next"
  /\ UNCHANGED <<diskVars, events, indexVars>>

ReadGroup(g) ==
  /\ pass.stock[g] \subseteq Present(disk)
  /\ \A p \in pass.stock[g] : disk.strm[p] # "large"
  /\ pass' = [pass EXCEPT !.in = Inputs(disk, pass.stock[g])]
  /\ pc' = "compare"
  /\ UNCHANGED <<diskVars, events, indexVars>>

StillMatches(g) == Inputs(disk, Members(disk, g)) = pass.in

\* The index still has the rows that the baseline expects, with their parts.
EvidenceMatches(b) ==
  /\ \A p \in Sources(b.in) : p \in b.expected <=> pass.evidence[p] # None
  /\ \A p \in DOMAIN b.in.nfo : p \in b.expected => pass.evidence[p] = PartsOf(b.in, p)

Reusable(g) ==
  LET b == pass.base[g] IN
  ~pass.full /\ b # None /\ b.in = pass.in /\ EvidenceMatches(b)

LeaveGroup(g) ==
  /\ StillMatches(g) /\ Healthy
  /\ Reusable(g)
  /\ pass' = [pass EXCEPT !.todo = Later(g), !.in = None,
                !.expected = @ \cup pass.base[g].expected, !.committed = @ \cup {g}]
  /\ pc' = "next"
  /\ UNCHANGED <<diskVars, events, indexVars>>

BuildGroup(g) ==
  /\ StillMatches(g) /\ Healthy
  /\ ~Reusable(g)
  /\ pc' = "recheck"
  /\ UNCHANGED <<diskVars, events, indexVars, pass>>

Recheck(g) ==
  /\ StillMatches(g) /\ Healthy
  /\ pc' = "commit"
  /\ UNCHANGED <<diskVars, events, indexVars, pass>>

\* One transaction.  A part or a source that is not playable keeps its row
\* only if that is manual.
WriteGroup(g) ==
  LET in == pass.in
      new == [p \in Paths |->
                IF p \in Playable(in) THEN Indexed(in, p, p \in pass.manual)
                ELSE IF p \in Sources(in) /\ ~IsManual(p) THEN None
                ELSE rows[p]]
      mine == {p \in Sources(in) : new[p] # None} IN
  /\ rows' = new
  /\ baselines' = [Invalidated(Sources(in)) EXCEPT ![g] = [in |-> in, expected |-> mine]]
  /\ pass' = [pass EXCEPT !.todo = Later(g), !.in = None,
                !.expected = @ \cup mine, !.committed = @ \cup {g}]
  /\ pc' = "next"
  /\ UNCHANGED <<diskVars, events, library>>

\* The library is looked up in the same transaction.
CommitGroup(g) == library /\ WriteGroup(g)

\* The stock is still what it was.  A library that had rows is not emptied
\* unless the administrator says so.
StockUnchanged(allowEmpty) ==
  /\ Healthy
  /\ \A g \in Groups : Members(disk, g) = pass.stock[g]
  /\ pass.previous /\ (\A g \in Groups : pass.stock[g] = {}) => allowEmpty
  /\ pass' = [pass EXCEPT !.allowEmpty = allowEmpty]
  /\ pc' = "cleanup"
  /\ UNCHANGED <<diskVars, events, indexVars>>

\* Seeded fault: skipped groups do not keep a pass from cleaning up.
TakeStockOfRead(allowEmpty) ==
  pc = "next" /\ pass.todo = {} /\ ~pass.failed /\ StockUnchanged(allowEmpty)

\* Cleaning up needs a pass that has read and committed every group.
TakeStock(allowEmpty) ==
  pc = "next" /\ pass.todo = {} /\ ~pass.failed /\ ~pass.incomplete /\ StockUnchanged(allowEmpty)

Over == pc' = "idle" /\ pass' = None /\ seen' = {}

\* What was not expected goes, in one transaction.
CleanUp ==
  /\ library
  /\ rows' = [p \in Paths |-> IF p \in pass.expected THEN rows[p] ELSE None]
  /\ LET kept == Invalidated({p \in Paths : rows[p] # None} \ pass.expected) IN
     baselines' = [g \in Groups |-> IF g \in pass.committed THEN kept[g] ELSE None]
  /\ Over
  /\ UNCHANGED <<disk, events, library>>

\* Seeded fault: rows that are expected are not looked for.
ReconcileBlindly == pc = "cleanup" /\ CleanUp

\* The transaction is given up if a row that is expected has gone.
Reconcile == pc = "cleanup" /\ (\A p \in pass.expected : rows[p] # None) /\ CleanUp

\* The pass is over without cleaning up: a group was skipped or failed, the
\* root or the stock has changed, an error, a cancellation or a crash.
Abandon ==
  /\ pc # "idle"
  /\ Over
  /\ UNCHANGED <<disk, events, indexVars>>

Step(g) ==
  \/ pc = "next" /\ (SkipGroup(g) \/ FailGroup(g) \/ ReadGroup(g))
  \/ pc = "compare" /\ (SkipGroup(g) \/ FailGroup(g) \/ LeaveGroup(g) \/ BuildGroup(g))
  \/ pc = "recheck" /\ (SkipGroup(g) \/ FailGroup(g) \/ Recheck(g))
  \/ pc = "commit" /\ CommitGroup(g)

Pass ==
  \/ \E full \in BOOLEAN : Begin(full)
  \/ Enumerate
  \/ \E g \in Groups : pc # "enumerate" /\ pc # "idle" /\ Current(g) /\ Step(g)
  \/ \E allowEmpty \in BOOLEAN : TakeStock(allowEmpty)
  \/ Reconcile
  \/ Abandon

Init ==
  /\ disk = [mounted |-> TRUE, strm |-> [p \in Paths |-> CHOOSE u \in Urls : TRUE],
             nfo |-> [p \in Paths |-> CHOOSE m \in Metas : TRUE]]
  /\ events = 0
  /\ library = TRUE
  /\ rows = [p \in Paths |-> None]
  /\ baselines = [g \in Groups |-> None]
  /\ pc = "idle"
  /\ pass = None
  /\ seen = {}

Next ==
  \/ Change
  \/ \E p \in Paths : DeleteMovie(p) \/ MarkIndexedManual(p)
  \/ DeleteLibrary \/ AddLibrary
  \/ \E g \in Groups, destructive \in BOOLEAN : RescanOne(g, destructive)
  \/ Pass

Spec == Init /\ [][Next]_vars

-----------------------------------------------------------------------------
(* Properties *)

Inputed(in) ==
  /\ Sources(in) \subseteq Paths
  /\ in.src \in [Sources(in) -> Urls \cup {"other"}]
  /\ in.nfo \in [Records(Sources(in)) -> Metas \cup {"missing", "bad"}]

TypeOK ==
  /\ disk \in Disk
  /\ library \in BOOLEAN
  /\ rows \in [Paths -> Row \cup {None}]
  /\ \A g \in Groups : baselines[g] # None =>
       Inputed(baselines[g].in) /\ baselines[g].expected \subseteq Sources(baselines[g].in)
  /\ ~library => \A p \in Paths : rows[p] = None
  /\ pc \in {"idle", "enumerate", "next", "compare", "recheck", "commit", "cleanup"}
  /\ pc \in {"compare", "recheck", "commit"} => Inputed(pass.in)
  /\ pc # "idle" => disk \in seen

\* A baseline never claims more than is indexed, whoever has written since:
\* the rows it expects are there, no others of its sources are, and a row that
\* was not kept from before says what the fingerprinted NFO said.
BaselineHonest ==
  \A g \in Groups : baselines[g] # None =>
    LET b == baselines[g] IN
    \A p \in Sources(b.in) :
      /\ p \in b.expected <=> rows[p] # None
      /\ p \in Playable(b.in) =>
           /\ p \in b.expected
           /\ b.in.nfo[p] \in Metas => rows[p].meta = b.in.nfo[p]
           /\ b.in.nfo[p] = "missing" => rows[p].meta = None \/ IsManual(p)

\* The disk d would have given p this row.
Explains(d, p, row) ==
  LET in == Inputs(d, Members(d, GroupOf[p])) IN
  IF row = None THEN p \notin Playable(in)
  ELSE \/ row.status = "manual" /\ p \in Sources(in) /\ p \notin Playable(in)
       \/ /\ p \in Playable(in)
          /\ row.parts = PartsOf(in, p)
          /\ in.nfo[p] \in Metas => row.meta = in.nfo[p]
          /\ in.nfo[p] = "missing" => row.meta = None \/ row.status = "manual"

\* A pass that cleaned up, full or incremental, leaves an index that the disk
\* explains: each row comes from what its files were at some time in the pass.
LeavesCurrent == Reconcile => \A p \in Paths : \E d \in seen : Explains(d, p, rows'[p])

CleanPassIsCurrent == [][LeavesCurrent]_vars

PassWrites == rows' # rows /\ pc # "idle" /\ events' = events

\* A pass removes a row only if its file was seen, on a volume that was there,
\* to be gone, not playable or a part; or all of them by confirmation.
SeenToGo(p) ==
  \/ \E d \in seen : d.mounted /\ d.strm[p] # "large"
                     /\ p \notin Playable(Inputs(d, Members(d, GroupOf[p])))
  \/ pass.allowEmpty

RemovalsAreSeen ==
  [][PassWrites => \A p \in Paths : rows[p] # None /\ rows'[p] = None => SeenToGo(p)]_vars

\* What an operator has entered survives a pass: a manual row stays manual, its
\* metadata changes to those of an NFO that was there, and it goes only after its
\* file was seen to be gone.
StaysManual(p) ==
  IF rows'[p] = None THEN pass.allowEmpty \/ \E d \in seen : p \notin Present(d)
  ELSE /\ rows'[p].status = "manual"
       /\ rows'[p].meta = rows[p].meta \/ \E d \in seen : d.nfo[p] = rows'[p].meta

ManualSurvives ==
  [][PassWrites => \A p \in Paths : IsManual(p) /\ rows'[p] # rows[p] => StaysManual(p)]_vars

\* scan_state.go:44: the note that an NFO was not readable is cleared by a scan
\* once it is.  A row whose NFO was readable all through a pass has none after it.
NoteCleared ==
  [][Reconcile =>
       \A p \in {q \in Paths : \A d \in seen :
                   q \in Playable(Inputs(d, Members(d, GroupOf[q]))) /\ d.nfo[q] \in Metas} :
         ~rows'[p].note]_vars
=============================================================================
