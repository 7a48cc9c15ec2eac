----------------------------- MODULE ScanProofs -----------------------------
(****************************************************************************)
(* An incremental scan is honest about its baseline, for any number of      *)
(* files, libraries and disks.  The invariant says that a baseline on       *)
(* record fits its rows, and the copy a pass has taken fits what is left of *)
(* them; that a disk seen since the pass began explains each row it has     *)
(* committed; and that a pass which cleans up has seen all of its stock at  *)
(* once.                                                                    *)
(****************************************************************************)
EXTENDS IncrementalScan, TLAPS

\* What can have been read of a group, and what is remembered of it.
AnInput ==
  UNION {[src : [ms -> Urls \cup {"other"}], nfo : [Records(ms) -> Metas \cup {"missing", "bad"}]] :
           ms \in SUBSET Paths}

Baseline == [in : AnInput, expected : SUBSET Paths]

PassType ==
  [full : BOOLEAN, allowEmpty : BOOLEAN, mounted : BOOLEAN, manual : SUBSET Paths,
   previous : BOOLEAN, base : [Groups -> Baseline \cup {None}],
   evidence : [Paths -> (SUBSET Paths) \cup {None}], stock : [Groups -> SUBSET Paths],
   todo : SUBSET Groups, in : AnInput \cup {None}, expected : SUBSET Paths,
   committed : SUBSET Groups, failed : BOOLEAN, incomplete : BOOLEAN]

Typed ==
  /\ disk \in Disk /\ seen \subseteq Disk /\ events \in Nat
  /\ rows \in [Paths -> Row \cup {None}]
  /\ baselines \in [Groups -> Baseline \cup {None}]
  /\ pc \in {"idle", "enumerate", "next", "compare", "recheck", "commit", "cleanup"}
  /\ pc # "idle" => pass \in PassType /\ disk \in seen

\* What input gives for the row of p: a source that is not playable keeps a
\* manual row only.
Fits(in, p) ==
  IF p \in Playable(in)
  THEN /\ in.nfo[p] \in Metas => rows[p].meta = in.nfo[p]
       /\ in.nfo[p] = "missing" => rows[p].meta = None \/ IsManual(p)
  ELSE IsManual(p)

Claims(b, g) ==
  /\ Playable(b.in) \subseteq b.expected /\ b.expected \subseteq Sources(b.in)
  /\ \A p \in Sources(b.in) : GroupOf[p] = g

\* A baseline says which of its sources have rows, and these fit.
Honest(b, g) ==
  /\ Claims(b, g)
  /\ \A p \in Sources(b.in) :
       /\ p \in b.expected <=> rows[p] # None
       /\ rows[p] # None => Fits(b.in, p)

BaselinesHold == \A g \in Groups : baselines[g] # None => Honest(baselines[g], g)

-----------------------------------------------------------------------------

Taken == pc \in {"next", "compare", "recheck", "commit", "cleanup"}
Committed(p) == GroupOf[p] \in pass.committed

\* The groups are those of the stock, and each is still to do, committed, or skipped.
GroupsHold ==
  /\ \A g \in Groups : \A p \in pass.stock[g] : GroupOf[p] = g
  /\ pass.todo \cap pass.committed = {}
  /\ ~pass.failed /\ ~pass.incomplete =>
       \A g \in Groups : pass.stock[g] # {} => g \in pass.todo \cup pass.committed
  /\ \A p \in pass.expected : Committed(p) /\ p \in pass.stock[GroupOf[p]]

\* The copy of the baselines fits the rows that are left of those it was made of.
CopiesHold ==
  \A g \in Groups \ pass.committed : pass.base[g] # None =>
    /\ Claims(pass.base[g], g)
    /\ \A p \in Sources(pass.base[g].in) : rows[p] # None => Fits(pass.base[g].in, p)

\* So does the copy of the evidence.
EvidenceHolds ==
  ~pass.full => \A p \in Paths : ~Committed(p) /\ rows[p] # None => pass.evidence[p] = rows[p].parts

\* A row that the pass did not find was written by it.
NewRowsExpected == ~pass.previous => \A p \in Paths : rows[p] # None => p \in pass.expected

\* The input in hand is of the group that is its turn.
InputHolds ==
  /\ pc \in {"compare", "recheck", "commit"} =>
       pass.in \in AnInput /\ \A g \in Groups : Current(g) => Sources(pass.in) = pass.stock[g]
  /\ pc \in {"recheck", "commit"} => \A g \in Groups : Current(g) =>
       \E d \in seen : Inputs(d, Members(d, g)) = pass.in

\* Disk d explains the committed rows of group g.
Tells(d, g) ==
  /\ Members(d, g) = pass.stock[g]
  /\ \A p \in pass.stock[g] :
       /\ p \in pass.expected /\ rows[p] # None => Explains(d, p, rows[p])
       /\ p \notin pass.expected => rows[p] = None /\ Explains(d, p, None)

CommittedHold == \A g \in pass.committed : \E d \in seen : Tells(d, g)

\* Before it cleans up the pass has seen all of its stock at once.
StockHolds ==
  pc = "cleanup" =>
    /\ pass.todo = {} /\ ~pass.failed /\ ~pass.incomplete
    /\ \E d \in seen : \A g \in Groups : Members(d, g) = pass.stock[g]
    /\ pass.previous /\ (\A g \in Groups : pass.stock[g] = {}) => pass.allowEmpty

Starting ==
  pc = "enumerate" => pass.committed = {} /\ pass.expected = {} /\ ~pass.failed /\ ~pass.incomplete

PassHolds ==
  /\ Starting
  /\ pc # "idle" => CopiesHold /\ NewRowsExpected
  /\ Taken => GroupsHold /\ EvidenceHolds /\ InputHolds /\ CommittedHold /\ StockHolds

ScanInv == Typed /\ BaselinesHold /\ PassHolds
-----------------------------------------------------------------------------
(* What is read of a group. *)

\* The records of a group are among its files.
LEMMA RecordsAreFiles == ASSUME NEW ms PROVE Records(ms) \subseteq ms
  BY DEF Records

\* An input can be taken apart.
LEMMA InputParts ==
  ASSUME NEW d, NEW ms, NEW in, in = Inputs(d, ms)
  PROVE  /\ Sources(in) = ms
         /\ DOMAIN in.nfo = Records(ms)
         /\ \A p \in ms : in.src[p] = d.strm[p]
         /\ \A p \in Records(ms) : in.nfo[p] = d.nfo[p]
  BY DEF Inputs, Sources

\* Inputs that were remembered have these parts.
LEMMA KnownInput ==
  ASSUME NEW in \in AnInput
  PROVE  /\ Sources(in) \subseteq Paths
         /\ DOMAIN in.nfo = Records(Sources(in))
         /\ Playable(in) \subseteq Sources(in)
         /\ \A p \in Sources(in) : in.src[p] \in Urls \cup {"other"}
         /\ \A p \in DOMAIN in.nfo : in.nfo[p] \in Metas \cup {"missing", "bad"}
  <1>1. PICK ms \in SUBSET Paths :
          in \in [src : [ms -> Urls \cup {"other"}],
                  nfo : [Records(ms) -> Metas \cup {"missing", "bad"}]]
    BY DEF AnInput
  <1>2. Sources(in) = ms /\ DOMAIN in.nfo = Records(ms)
    BY <1>1 DEF Sources
  <1> QED BY <1>1, <1>2, RecordsAreFiles DEF Playable

\* What is read of files that are there and not too large is such an input.
LEMMA ReadIsInput ==
  ASSUME NEW d \in Disk, NEW ms \in SUBSET Paths, ms \subseteq Present(d),
         \A p \in ms : d.strm[p] # "large"
  PROVE  Inputs(d, ms) \in AnInput
  <1>1. [p \in ms |-> d.strm[p]] \in [ms -> Urls \cup {"other"}]
    BY DEF Disk, Present
  <1>2. [p \in Records(ms) |-> d.nfo[p]] \in [Records(ms) -> Metas \cup {"missing", "bad"}]
    BY RecordsAreFiles DEF Disk
  <1> QED BY <1>1, <1>2 DEF Inputs, AnInput

LEMMA MembersArePaths ==
  ASSUME NEW d, NEW g
  PROVE  /\ Members(d, g) \in SUBSET Paths
         /\ Members(d, g) \subseteq Present(d)
         /\ \A p \in Members(d, g) : GroupOf[p] = g
  BY DEF Members, Present

\* What is written for a record of a group that was read.
LEMMA IndexedRow ==
  ASSUME ScanAssumption, rows \in [Paths -> Row \cup {None}],
         NEW in, NEW p \in Paths, NEW manual, Sources(in) \subseteq Paths,
         in.src[p] \in Urls, in.nfo[p] \in Metas \cup {"missing", "bad"}
  PROVE  /\ Indexed(in, p, manual) \in Row
         /\ Indexed(in, p, manual) # None
         /\ Indexed(in, p, manual).parts = PartsOf(in, p)
         /\ in.nfo[p] \in Metas => Indexed(in, p, manual).meta = in.nfo[p]
         /\ in.nfo[p] = "missing" =>
              Indexed(in, p, manual).meta = None \/ Indexed(in, p, manual).status = "manual"
         /\ rows[p] # None /\ (in.nfo[p] = "bad" \/ (in.nfo[p] = "missing" /\ IsManual(p))) =>
              /\ Indexed(in, p, manual).meta = rows[p].meta
              /\ Indexed(in, p, manual).status = rows[p].status
         /\ IsManual(p) => Indexed(in, p, manual).status = "manual"
  <1> DEFINE row == Indexed(in, p, manual)
  <1>1. PartsOf(in, p) \in SUBSET Paths
    BY DEF PartsOf
  <1>2. CASE Kept(in, p)
    <2>1. PICK old \in Row : old = rows[p]
      BY <1>2 DEF Kept
    <2>2. row = [old EXCEPT !.src = in.src[p], !.parts = PartsOf(in, p),
                            !.note = old.note \/ in.nfo[p] = "bad"]
      BY <1>2, <2>1 DEF Indexed, Followed
    <2>3. /\ row \in Row /\ row.parts = PartsOf(in, p) /\ row.meta = old.meta
          /\ row.status = old.status
      BY <1>1, <2>2 DEF Row
    <2>4. row # None /\ in.nfo[p] \notin Metas
      BY <1>2, <2>3 DEF Kept, ScanAssumption
    <2>5. in.nfo[p] = "missing" => old.status = "manual"
      BY <1>2, <2>1 DEF Kept
    <2>6. IsManual(p) => old.status = "manual"
      BY <2>1 DEF IsManual
    <2> QED BY <2>1, <2>3, <2>4, <2>5, <2>6
  <1>3. CASE ~Kept(in, p)
    <2> DEFINE m == manual \/ IsManual(p)
    <2>1. row = Fresh(in, p, m)
      BY <1>3 DEF Indexed
    <2>2. PICK st \in {"pending", "success", "manual"} :
            st = IF in.nfo[p] \notin Metas THEN "pending"
                 ELSE IF m THEN "manual" ELSE "success"
      OBVIOUS
    <2>3. PICK me \in Metas \cup {None} : me = IF in.nfo[p] \in Metas THEN in.nfo[p] ELSE None
      OBVIOUS
    <2>4. PICK note \in BOOLEAN : note = (in.nfo[p] = "bad" \/ (in.nfo[p] = "missing" /\ Noted(p)))
      BY Zenon
    <2>5. row = [status |-> st, meta |-> me, src |-> in.src[p], parts |-> PartsOf(in, p),
                 note |-> note]
      BY <2>1, <2>2, <2>3, <2>4, Zenon DEF Fresh
    <2>6. /\ row \in Row /\ row.parts = PartsOf(in, p) /\ row.meta = me /\ row.status = st
      BY <1>1, <2>5 DEF Row
    <2>7. row # None
      BY <2>6 DEF ScanAssumption
    <2>8. IsManual(p) => in.nfo[p] \in Metas
      BY <1>3 DEF Kept, IsManual
    <2>9. rows[p] # None => in.nfo[p] # "bad"
      BY <1>3 DEF Kept
    <2>10. "missing" \notin Metas
      BY DEF ScanAssumption
    <2> HIDE DEF row
    <2>11. in.nfo[p] \in Metas => row.meta = in.nfo[p]
      BY <2>3, <2>6
    <2>12. in.nfo[p] = "missing" => row.meta = None
      BY <2>3, <2>6, <2>10
    <2>13. IsManual(p) => row.status = "manual"
      BY <2>2, <2>6, <2>8
    <2>14. rows[p] # None => ~(in.nfo[p] = "bad" \/ (in.nfo[p] = "missing" /\ IsManual(p)))
      BY <2>8, <2>9, <2>10
    <2> QED BY <2>6, <2>7, <2>11, <2>12, <2>13, <2>14 DEF row
  <1> QED BY <1>2, <1>3

-----------------------------------------------------------------------------
(* Types. *)

LEMMA GroupsAreNumbers ==
  ASSUME ScanAssumption
  PROVE  Groups \subseteq Nat /\ \A p \in Paths : GroupOf[p] \in Groups
  BY DEF ScanAssumption, Groups

LEMMA InvalidatedTyped ==
  ASSUME baselines \in [Groups -> Baseline \cup {None}], NEW ps
  PROVE  /\ Invalidated(ps) \in [Groups -> Baseline \cup {None}]
         /\ \A g \in Groups : Invalidated(ps)[g] # None =>
              Invalidated(ps)[g] = baselines[g] /\ Sources(baselines[g].in) \cap ps = {}
  BY DEF Invalidated

LEMMA TypesStart == ScanAssumption /\ Init => Typed
  <1> SUFFICES ASSUME ScanAssumption, Init PROVE Typed
    OBVIOUS
  <1>1. PICK u \in Urls : u = CHOOSE x \in Urls : TRUE
    BY DEF ScanAssumption
  <1>2. PICK m \in Metas : m = CHOOSE x \in Metas : TRUE
    BY DEF ScanAssumption
  <1>3. disk = [mounted |-> TRUE, strm |-> [p \in Paths |-> u], nfo |-> [p \in Paths |-> m]]
    BY <1>1, <1>2 DEF Init
  <1>4. disk \in Disk
    BY <1>3 DEF Disk
  <1> QED BY <1>4 DEF Init, Typed

\* What happens beside the passes.
LEMMA TypesStayOutside ==
  ASSUME ScanAssumption, Typed,
         \/ Change
         \/ \E p \in Paths : DeleteMovie(p) \/ MarkIndexedManual(p)
         \/ DeleteLibrary \/ AddLibrary
         \/ \E g \in Groups, destructive \in BOOLEAN : RescanOne(g, destructive)
  PROVE  Typed'
  <1>1. ASSUME NEW d \in Disk, ChangeTo(d) PROVE Typed'
    BY <1>1 DEF ChangeTo, Event, Typed, indexVars
  <1>2. CASE Change
    <2>1. PICK old \in Disk : old = disk
      BY DEF Typed
    <2>2. ASSUME NEW p \in Paths, NEW s \in Urls \cup {"absent", "other", "large"},
                 ChangeTo([disk EXCEPT !.strm[p] = s])
          PROVE  Typed'
      <3>1. [old EXCEPT !.strm[p] = s] \in Disk
        BY DEF Disk
      <3> QED BY <1>1, <2>1, <2>2, <3>1
    <2>3. ASSUME NEW p \in Paths, NEW n \in Metas \cup {"missing", "bad"},
                 ChangeTo([disk EXCEPT !.nfo[p] = n])
          PROVE  Typed'
      <3>1. [old EXCEPT !.nfo[p] = n] \in Disk
        BY DEF Disk
      <3> QED BY <1>1, <2>1, <2>3, <3>1
    <2>4. ASSUME ChangeTo([disk EXCEPT !.mounted = ~@]) PROVE Typed'
      <3>1. PICK b \in BOOLEAN : b = ~old.mounted
        BY Zenon
      <3>2. [old EXCEPT !.mounted = b] \in Disk
        BY DEF Disk
      <3>3. ChangeTo([old EXCEPT !.mounted = b])
        BY <2>1, <2>4, <3>1, Zenon
      <3> QED BY <1>1, <3>2, <3>3
    <2> QED BY <1>2, <2>2, <2>3, <2>4 DEF Change
  <1>3. ASSUME NEW p \in Paths, DeleteMovie(p) PROVE Typed'
    <2>1. baselines' \in [Groups -> Baseline \cup {None}]
      BY <1>3, InvalidatedTyped DEF DeleteMovie, Typed
    <2> QED BY <1>3, <2>1 DEF DeleteMovie, Event, diskVars, Typed
  <1>4. ASSUME NEW p \in Paths, MarkIndexedManual(p) PROVE Typed'
    <2>1. baselines' \in [Groups -> Baseline \cup {None}]
      BY <1>4, InvalidatedTyped DEF MarkIndexedManual, Typed
    <2>2. PICK old \in Row : old = rows[p]
      BY <1>4 DEF MarkIndexedManual, Typed
    <2>3. PICK new \in Row : new = [old EXCEPT !.status = "manual"]
      BY DEF Row
    <2>4. rows' = [rows EXCEPT ![p] = new]
      BY <1>4, <2>2, <2>3 DEF MarkIndexedManual
    <2>5. rows' \in [Paths -> Row \cup {None}]
      <3>1. rows \in [Paths -> Row \cup {None}]
        BY DEF Typed
      <3> QED BY <2>4, <3>1
    <2>6. events' = events + 1 /\ UNCHANGED <<disk, seen, pc, pass>>
      BY <1>4 DEF MarkIndexedManual, Event, diskVars
    <2> QED BY <2>1, <2>5, <2>6 DEF Typed
  <1>5. CASE DeleteLibrary
    BY <1>5 DEF DeleteLibrary, Event, diskVars, Typed
  <1>6. CASE AddLibrary
    BY <1>6 DEF AddLibrary, diskVars, Typed
  <1>7. ASSUME NEW g \in Groups, NEW destructive \in BOOLEAN, RescanOne(g, destructive)
        PROVE  Typed'
    <2> DEFINE in == Inputs(disk, Members(disk, g))
    <2>1. PICK done :
            /\ rows' = [p \in Paths |-> IF p \notin done THEN rows[p]
                                        ELSE IF p \in Playable(in) THEN Indexed(in, p, FALSE)
                                        ELSE None]
            /\ baselines' = Invalidated(Touched(in, done))
      BY <1>7 DEF RescanOne
    <2>2. ASSUME NEW p \in Paths, p \in Playable(in) PROVE Indexed(in, p, FALSE) \in Row
      <3>1. Sources(in) \subseteq Paths /\ p \in Records(Members(disk, g))
        BY <2>2, InputParts, MembersArePaths DEF Playable
      <3>2. in.nfo[p] \in Metas \cup {"missing", "bad"}
        BY <3>1, InputParts DEF Typed, Disk
      <3>3. in.src[p] \in Urls
        BY <2>2 DEF Playable
      <3> QED BY <3>1, <3>2, <3>3, IndexedRow DEF Typed
    <2> HIDE DEF in
    <2>3. rows' \in [Paths -> Row \cup {None}]
      BY <2>1, <2>2 DEF Typed
    <2>4. baselines' \in [Groups -> Baseline \cup {None}]
      BY <2>1, InvalidatedTyped DEF Typed
    <2>5. events' = events + 1 /\ pc = "idle" /\ UNCHANGED <<disk, seen, library, pc, pass>>
      BY <1>7 DEF RescanOne, Event, diskVars
    <2> QED BY <2>3, <2>4, <2>5 DEF Typed
  <1> QED BY <1>2, <1>3, <1>4, <1>5, <1>6, <1>7

\* A pass begins and takes stock.
LEMMA TypesStayAtStart ==
  ASSUME ScanAssumption, Typed, (\E full \in BOOLEAN : Begin(full)) \/ Enumerate
  PROVE  Typed'
  <1>1. ASSUME NEW full \in BOOLEAN, Begin(full) PROVE Typed'
    <2>1. PICK m \in SUBSET Paths : m = {p \in Paths : IsManual(p)}
      OBVIOUS
    <2> DEFINE any == \E p \in Paths : rows[p] # None
    <2>2. PICK v \in BOOLEAN : v = any
      <3>1. CASE any
        BY <3>1, Zenon
      <3>2. CASE ~any
        BY <3>2, Zenon
      <3> QED BY <3>1, <3>2
    <2>3. PICK base \in [Groups -> Baseline \cup {None}] :
            base = IF full THEN [g \in Groups |-> None] ELSE baselines
      BY DEF Typed
    <2>4. PICK ev \in [Paths -> (SUBSET Paths) \cup {None}] : ev = [p \in Paths |-> None]
      OBVIOUS
    <2>5. PICK st \in [Groups -> SUBSET Paths] : st = [g \in Groups |-> {}]
      OBVIOUS
    <2>6. PICK at \in BOOLEAN : at = disk.mounted
      BY DEF Typed, Disk
    <2>7. pass' = [full |-> full, allowEmpty |-> FALSE, mounted |-> at, manual |-> m,
                   previous |-> v, base |-> base, evidence |-> ev, stock |-> st, todo |-> {},
                   in |-> None, expected |-> {}, committed |-> {}, failed |-> FALSE,
                   incomplete |-> FALSE]
      BY <1>1, <2>1, <2>2, <2>3, <2>4, <2>5, <2>6, Zenon DEF Begin
    <2>8. pass' \in PassType
      BY <2>7 DEF PassType
    <2> QED BY <1>1, <2>8 DEF Begin, Typed, indexVars
  <1>2. CASE Enumerate
    <2>1. PICK old \in PassType : old = pass
      BY <1>2 DEF Enumerate, Typed
    <2>2. PICK ev \in [Paths -> (SUBSET Paths) \cup {None}] :
            ev = [p \in Paths |-> IF pass.full \/ rows[p] = None THEN None ELSE rows[p].parts]
      <3>1. \A p \in Paths : rows[p] # None => rows[p].parts \in SUBSET Paths
        BY DEF Typed, Row
      <3> QED BY <3>1
    <2>3. PICK st \in [Groups -> SUBSET Paths] : st = [g \in Groups |-> Members(disk, g)]
      BY MembersArePaths
    <2>4. PICK td \in SUBSET Groups : td = {g \in Groups : Members(disk, g) # {}}
      OBVIOUS
    <2>5. pass' = [old EXCEPT !.evidence = ev, !.stock = st, !.todo = td]
      BY <1>2, <2>1, <2>2, <2>3, <2>4 DEF Enumerate
    <2>6. pass' \in PassType
      BY <2>5 DEF PassType
    <2> QED BY <1>2, <2>6 DEF Enumerate, Typed, indexVars, diskVars
  <1> QED BY <1>1, <1>2

\* It is given up, or carried out to its end.
LEMMA TypesStayAtEnd ==
  ASSUME ScanAssumption, Typed,
         (\E allowEmpty \in BOOLEAN : TakeStock(allowEmpty)) \/ Reconcile \/ Abandon
  PROVE  Typed'
  <1>1. ASSUME NEW allowEmpty \in BOOLEAN, TakeStock(allowEmpty) PROVE Typed'
    <2>1. PICK old \in PassType : old = pass
      BY <1>1 DEF TakeStock, Typed
    <2>2. pass' = [old EXCEPT !.allowEmpty = allowEmpty]
      BY <1>1, <2>1 DEF TakeStock, StockUnchanged
    <2>3. pass' \in PassType
      BY <2>2 DEF PassType
    <2> QED BY <1>1, <2>3 DEF TakeStock, StockUnchanged, Typed, indexVars, diskVars
  <1>2. CASE Reconcile
    <2> DEFINE kept == Invalidated({p \in Paths : rows[p] # None} \ pass.expected)
    <2>1. kept \in [Groups -> Baseline \cup {None}]
      BY InvalidatedTyped DEF Typed
    <2>2. /\ rows' = [p \in Paths |-> IF p \in pass.expected THEN rows[p] ELSE None]
          /\ baselines' = [g \in Groups |-> IF g \in pass.committed THEN kept[g] ELSE None]
          /\ pc' = "idle" /\ seen' = {} /\ UNCHANGED <<disk, events, library>>
      BY <1>2 DEF Reconcile, CleanUp, Over
    <2> HIDE DEF kept
    <2> QED BY <2>1, <2>2 DEF Typed
  <1>3. CASE Abandon
    BY <1>3 DEF Abandon, Over, Typed, indexVars
  <1> QED BY <1>1, <1>2, <1>3

\* What a step of a pass over group g changes of what the pass holds.
Leaves(g, in) ==
  /\ pass'.full = pass.full /\ pass'.allowEmpty = pass.allowEmpty
  /\ pass'.mounted = pass.mounted /\ pass'.manual = pass.manual
  /\ pass'.previous = pass.previous /\ pass'.base = pass.base
  /\ pass'.evidence = pass.evidence /\ pass'.stock = pass.stock
  /\ pass'.todo = pass.todo \ {g} /\ pass'.in = in

\* A group that is skipped or failed, or read: nothing is committed.
LEMMA SkippingTyped ==
  ASSUME Typed, pc # "idle", NEW g \in Groups, SkipGroup(g)
  PROVE  /\ Typed' /\ Leaves(g, None)
         /\ pass'.expected = pass.expected /\ pass'.committed = pass.committed
         /\ pass'.failed = pass.failed /\ pass'.incomplete
  <1>1. PICK old \in PassType : old = pass
    BY DEF Typed
  <1>2. pass' = [old EXCEPT !.todo = old.todo \ {g}, !.in = None, !.incomplete = TRUE]
    BY <1>1 DEF SkipGroup, Later
  <1>3. /\ pass' \in PassType /\ Leaves(g, None)
        /\ pass'.expected = pass.expected /\ pass'.committed = pass.committed
        /\ pass'.failed = pass.failed /\ pass'.incomplete = TRUE
    BY <1>1, <1>2 DEF PassType, Leaves
  <1> QED BY <1>3 DEF SkipGroup, Typed, indexVars, diskVars

LEMMA FailingTyped ==
  ASSUME Typed, pc # "idle", NEW g \in Groups, FailGroup(g)
  PROVE  /\ Typed' /\ Leaves(g, None)
         /\ pass'.expected = pass.expected /\ pass'.committed = pass.committed
         /\ pass'.failed /\ pass'.incomplete = pass.incomplete
  <1>1. PICK old \in PassType : old = pass
    BY DEF Typed
  <1>2. pass' = [old EXCEPT !.todo = old.todo \ {g}, !.in = None, !.failed = TRUE]
    BY <1>1 DEF FailGroup, Later
  <1>3. /\ pass' \in PassType /\ Leaves(g, None)
        /\ pass'.expected = pass.expected /\ pass'.committed = pass.committed
        /\ pass'.failed = TRUE /\ pass'.incomplete = pass.incomplete
    BY <1>1, <1>2 DEF PassType, Leaves
  <1> QED BY <1>3 DEF FailGroup, Typed, indexVars, diskVars

LEMMA ReadingTyped ==
  ASSUME Typed, pc # "idle", NEW g \in Groups, ReadGroup(g)
  PROVE  /\ Typed' /\ pass'.in = Inputs(disk, pass.stock[g]) /\ pass'.in \in AnInput
         /\ pass' = [pass EXCEPT !.in = pass'.in]
         /\ \A f \in {"full", "allowEmpty", "mounted", "manual", "previous", "base", "evidence",
                      "stock", "todo", "expected", "committed", "failed", "incomplete"} :
              pass'[f] = pass[f]
  <1>1. PICK old \in PassType : old = pass
    BY DEF Typed
  <1>2. PICK in \in AnInput : in = Inputs(disk, pass.stock[g])
    <2>1. pass.stock[g] \in SUBSET Paths
      BY <1>1 DEF PassType
    <2> QED BY <2>1, ReadIsInput DEF ReadGroup, Typed
  <1>3. pass' = [old EXCEPT !.in = in]
    BY <1>1, <1>2 DEF ReadGroup
  <1>4. /\ pass' \in PassType /\ pass'.in = in
        /\ \A f \in {"full", "allowEmpty", "mounted", "manual", "previous", "base", "evidence",
                     "stock", "todo", "expected", "committed", "failed", "incomplete"} :
             pass'[f] = pass[f]
    BY <1>1, <1>3 DEF PassType
  <1> QED BY <1>1, <1>2, <1>3, <1>4 DEF ReadGroup, Typed, indexVars, diskVars

LEMMA LeavingTyped ==
  ASSUME ScanAssumption, Typed, pc # "idle", NEW g \in Groups, LeaveGroup(g)
  PROVE  /\ Typed' /\ Leaves(g, None)
         /\ pass.base[g] \in Baseline
         /\ pass'.expected = pass.expected \cup pass.base[g].expected
         /\ pass'.committed = pass.committed \cup {g}
         /\ pass'.failed = pass.failed /\ pass'.incomplete = pass.incomplete
  <1>1. PICK old \in PassType : old = pass
    BY DEF Typed
  <1>2. PICK b \in Baseline : b = pass.base[g]
    BY <1>1 DEF LeaveGroup, Reusable, PassType
  <1>3. PICK e \in SUBSET Paths : e = b.expected
    BY DEF Baseline
  <1>4. pass' = [old EXCEPT !.todo = old.todo \ {g}, !.in = None,
                   !.expected = old.expected \cup e, !.committed = old.committed \cup {g}]
    BY <1>1, <1>2, <1>3 DEF LeaveGroup, Later
  <1>5. /\ pass' \in PassType /\ Leaves(g, None)
        /\ pass'.expected = pass.expected \cup e
        /\ pass'.committed = pass.committed \cup {g}
        /\ pass'.failed = pass.failed /\ pass'.incomplete = pass.incomplete
    BY <1>1, <1>4 DEF PassType, Leaves
  <1> QED BY <1>2, <1>3, <1>5 DEF LeaveGroup, Typed, indexVars, diskVars

\* A group that is committed: its rows, its baseline, and what the pass notes.
Written(in, p) ==
  IF p \in Playable(in) THEN Indexed(in, p, p \in pass.manual)
  ELSE IF p \in Sources(in) /\ ~IsManual(p) THEN None
  ELSE rows[p]

LEMMA WritingTyped ==
  ASSUME ScanAssumption, Typed, pc # "idle", NEW g \in Groups, WriteGroup(g), pass.in \in AnInput,
         NEW mine, mine = {p \in Sources(pass.in) : rows'[p] # None}
  PROVE  /\ Typed' /\ Leaves(g, None) /\ pass.in \in AnInput
         /\ \A p \in Paths : rows'[p] = Written(pass.in, p)
         /\ baselines'[g] = [in |-> pass.in, expected |-> mine]
         /\ \A h \in Groups \ {g} : baselines'[h] # None =>
              baselines'[h] = baselines[h] /\ Sources(baselines[h].in) \cap Sources(pass.in) = {}
         /\ pass'.expected = pass.expected \cup mine
         /\ pass'.committed = pass.committed \cup {g}
         /\ pass'.failed = pass.failed /\ pass'.incomplete = pass.incomplete
         /\ UNCHANGED <<disk, seen, library, events>> /\ pc' = "next"
  <1>1. PICK old \in PassType : old = pass
    BY DEF Typed
  <1>2. PICK in \in AnInput : in = pass.in
    BY <1>1 DEF PassType
  <1>3. /\ rows' = [p \in Paths |-> Written(in, p)]
        /\ baselines' = [Invalidated(Sources(in)) EXCEPT ![g] = [in |-> in, expected |-> mine]]
        /\ pass' = [pass EXCEPT !.todo = Later(g), !.in = None,
                      !.expected = @ \cup mine, !.committed = @ \cup {g}]
        /\ pc' = "next" /\ UNCHANGED <<disk, seen, library, events>>
    <2> DEFINE new == [p \in Paths |->
                         IF p \in Playable(in) THEN Indexed(in, p, p \in pass.manual)
                         ELSE IF p \in Sources(in) /\ ~IsManual(p) THEN None
                         ELSE rows[p]]
               my == {p \in Sources(in) : new[p] # None}
    <2>1. /\ rows' = new
          /\ baselines' = [Invalidated(Sources(in)) EXCEPT ![g] = [in |-> in, expected |-> my]]
          /\ pass' = [pass EXCEPT !.todo = Later(g), !.in = None,
                        !.expected = @ \cup my, !.committed = @ \cup {g}]
          /\ pc' = "next" /\ UNCHANGED <<disk, seen, library, events>>
      BY <1>2, ZenonT(60) DEF WriteGroup, diskVars
    <2>2. my = mine
      BY <1>2, <2>1, Zenon
    <2>3. new = [p \in Paths |-> Written(in, p)]
      BY Zenon DEF Written
    <2> HIDE DEF new, my
    <2> QED BY <2>1, <2>2, <2>3
  <1>4. Sources(in) \subseteq Paths
    BY KnownInput
  <1>5. PICK m \in SUBSET Paths : m = mine
    BY <1>2, <1>4
  <1>6. pass' = [old EXCEPT !.todo = old.todo \ {g}, !.in = None,
                   !.expected = old.expected \cup m, !.committed = old.committed \cup {g}]
    BY <1>1, <1>3, <1>5 DEF Later
  <1>7. /\ pass' \in PassType /\ Leaves(g, None)
        /\ pass'.expected = pass.expected \cup mine
        /\ pass'.committed = pass.committed \cup {g}
        /\ pass'.failed = pass.failed /\ pass'.incomplete = pass.incomplete
    BY <1>1, <1>5, <1>6 DEF PassType, Leaves
  <1>8. ASSUME NEW p \in Paths PROVE Written(in, p) \in Row \cup {None}
    <2>1. CASE p \in Playable(in)
      <3>1. in.nfo[p] \in Metas \cup {"missing", "bad"} /\ in.src[p] \in Urls
        BY <2>1, KnownInput DEF Playable
      <3>2. (p \in pass.manual) \in BOOLEAN
        OBVIOUS
      <3> QED BY <1>4, <2>1, <3>1, <3>2, IndexedRow DEF Written, Typed
    <2>2. CASE p \notin Playable(in)
      BY <2>2 DEF Written, Typed
    <2> QED BY <2>1, <2>2
  <1>9. rows' \in [Paths -> Row \cup {None}]
    BY <1>3, <1>8
  <1>10. PICK b \in Baseline : b = [in |-> in, expected |-> mine]
    BY <1>5 DEF Baseline
  <1>11. /\ baselines' \in [Groups -> Baseline \cup {None}] /\ baselines'[g] = b
         /\ \A h \in Groups \ {g} : baselines'[h] # None =>
              baselines'[h] = baselines[h] /\ Sources(baselines[h].in) \cap Sources(in) = {}
    <2>1. PICK inv \in [Groups -> Baseline \cup {None}] : inv = Invalidated(Sources(in))
      BY InvalidatedTyped DEF Typed
    <2>2. \A h \in Groups : inv[h] # None =>
            inv[h] = baselines[h] /\ Sources(baselines[h].in) \cap Sources(in) = {}
      BY <2>1, InvalidatedTyped DEF Typed
    <2>3. baselines' = [inv EXCEPT ![g] = b]
      BY <1>3, <1>10, <2>1
    <2> QED BY <2>2, <2>3
  <1>12. Typed'
    BY <1>3, <1>7, <1>9, <1>11 DEF Typed
  <1> QED BY <1>2, <1>3, <1>7, <1>10, <1>11, <1>12, Zenon

-----------------------------------------------------------------------------
(* The invariant: what happens beside the passes. *)

\* Row p says what it said before.
Says(p) ==
  /\ rows'[p] = None <=> rows[p] = None
  /\ rows[p] # None => rows'[p].meta = rows[p].meta /\ rows'[p].status = rows[p].status

LEMMA SayingFits ==
  ASSUME NEW in, NEW p, Says(p), rows[p] # None, Fits(in, p)
  PROVE  Fits(in, p)'
  BY DEF Says, Fits, IsManual

LEMMA HonestyStays ==
  ASSUME NEW b, NEW g, Honest(b, g), \A p \in Sources(b.in) : Says(p)
  PROVE  Honest(b, g)'
  <1>1. ASSUME NEW p \in Sources(b.in), rows'[p] # None PROVE Fits(b.in, p)'
    <2>1. rows[p] # None /\ Fits(b.in, p)
      BY <1>1 DEF Says, Honest
    <2> QED BY <2>1, SayingFits
  <1> QED BY <1>1 DEF Says, Honest

\* The baselines that are left are of rows that say what they said.
LEMMA BaselinesStay ==
  ASSUME BaselinesHold,
         \A g \in Groups : baselines'[g] # None =>
           baselines'[g] = baselines[g] /\ \A p \in Sources(baselines[g].in) : Says(p)
  PROVE  BaselinesHold'
  <1> SUFFICES ASSUME NEW g \in Groups, baselines'[g] # None
               PROVE  Honest(baselines[g], g)'
    BY DEF BaselinesHold
  <1>1. PICK b : b = baselines[g] /\ b = baselines'[g]
    OBVIOUS
  <1>2. Honest(b, g)
    BY <1>1 DEF BaselinesHold
  <1>3. Honest(b, g)'
    BY <1>1, <1>2, HonestyStays
  <1> QED BY <1>1, <1>3 DEF Honest, Claims, Fits, IsManual

\* The files change.
LEMMA ChangingKeeps ==
  ASSUME BaselinesHold, PassHolds, UNCHANGED <<rows, baselines, pc, pass>>,
         pc # "idle" => seen \subseteq seen'
  PROVE  BaselinesHold' /\ PassHolds'
  <1>1. BaselinesHold'
    BY DEF BaselinesHold, Honest, Claims, Fits, IsManual
  <1>2. \A d, g : Tells(d, g) => Tells(d, g)'
    BY DEF Tells
  <1>3. Taken => seen \subseteq seen'
    BY DEF Taken
  <1>4. Starting'
    BY DEF PassHolds, Starting
  <1>5. pc' # "idle" => CopiesHold' /\ NewRowsExpected'
    BY DEF PassHolds, CopiesHold, NewRowsExpected, Claims, Fits, IsManual
  <1>6. Taken' => GroupsHold' /\ EvidenceHolds'
    BY DEF PassHolds, Taken, GroupsHold, EvidenceHolds, Committed
  <1>7. Taken' => InputHolds'
    BY <1>3 DEF PassHolds, Taken, InputHolds, Current
  <1>8. Taken' => CommittedHold'
    BY <1>2, <1>3 DEF PassHolds, Taken, CommittedHold
  <1>9. Taken' => StockHolds'
    BY <1>3 DEF PassHolds, Taken, StockHolds
  <1> QED BY <1>1, <1>4, <1>5, <1>6, <1>7, <1>8, <1>9 DEF PassHolds

\* Rows go while a pass is running.
LEMMA DeletingKeeps ==
  ASSUME PassHolds, UNCHANGED <<pc, pass, seen>>, Typed,
         \A p \in Paths : rows'[p] = rows[p] \/ rows'[p] = None
  PROVE  PassHolds'
  <1>1. ASSUME NEW d, NEW g \in Groups, Tells(d, g), pass \in PassType PROVE Tells(d, g)'
    <2>1. pass.stock[g] \subseteq Paths
      BY <1>1 DEF PassType
    <2> QED BY <1>1, <2>1 DEF Tells
  <1>2. Starting'
    BY DEF PassHolds, Starting
  <1>3. pc' # "idle" => CopiesHold'
    <2> SUFFICES ASSUME pc # "idle", NEW g \in Groups \ pass.committed, pass.base[g] # None
                 PROVE  /\ Claims(pass.base[g], g)
                        /\ \A p \in Sources(pass.base[g].in) :
                             rows'[p] # None => Fits(pass.base[g].in, p)'
      BY Zenon DEF CopiesHold
    <2>1. PICK b \in Baseline : b = pass.base[g]
      BY DEF Typed, PassType
    <2>2. Claims(b, g) /\ \A p \in Sources(b.in) : rows[p] # None => Fits(b.in, p)
      BY <2>1 DEF PassHolds, CopiesHold
    <2>3. Sources(b.in) \subseteq Paths
      BY KnownInput DEF Baseline
    <2>4. ASSUME NEW p \in Sources(b.in), rows'[p] # None PROVE Fits(b.in, p)'
      <3>1. rows'[p] = rows[p]
        BY <2>3, <2>4
      <3> QED BY <2>2, <2>4, <3>1 DEF Fits, IsManual
    <2> QED BY <2>1, <2>2, <2>4
  <1>4. pc' # "idle" => NewRowsExpected'
    BY DEF PassHolds, NewRowsExpected
  <1>5. Taken' => GroupsHold'
    BY DEF PassHolds, Taken, GroupsHold, Committed
  <1>6. Taken' => EvidenceHolds'
    BY DEF PassHolds, Taken, EvidenceHolds, Committed
  <1>7. Taken' => InputHolds'
    BY DEF PassHolds, Taken, InputHolds, Current
  <1>8. Taken' => CommittedHold'
    <2>1. Taken => pass \in PassType
      BY DEF Taken, Typed
    <2>2. Taken => pass.committed \subseteq Groups
      BY <2>1 DEF PassType
    <2> QED BY <1>1, <2>1, <2>2 DEF PassHolds, Taken, CommittedHold
  <1>9. Taken' => StockHolds'
    BY DEF PassHolds, Taken, StockHolds
  <1> QED BY <1>2, <1>3, <1>4, <1>5, <1>6, <1>7, <1>8, <1>9 DEF PassHolds

LEMMA IdleHolds == ASSUME pc' = "idle" PROVE PassHolds'
  BY DEF PassHolds, Starting, Taken

LEMMA OutsideKeeps ==
  ASSUME ScanAssumption, ScanInv,
         \/ Change
         \/ \E p \in Paths : DeleteMovie(p) \/ MarkIndexedManual(p)
         \/ DeleteLibrary \/ AddLibrary
         \/ \E g \in Groups, destructive \in BOOLEAN : RescanOne(g, destructive)
  PROVE  BaselinesHold' /\ PassHolds'
  <1> USE DEF ScanInv
  <1>0. \A g \in Groups : baselines[g] # None => Sources(baselines[g].in) \subseteq Paths
    BY KnownInput DEF Typed, Baseline
  <1>1. CASE Change
    <2>1. UNCHANGED <<rows, baselines, pc, pass>> /\ (pc # "idle" => seen \subseteq seen')
      BY <1>1 DEF Change, ChangeTo, indexVars
    <2> QED BY <2>1, ChangingKeeps
  <1>2. ASSUME NEW p \in Paths, DeleteMovie(p) PROVE BaselinesHold' /\ PassHolds'
    <2>1. \A q \in Paths : rows'[q] = (IF q = p THEN None ELSE rows[q])
      BY <1>2 DEF DeleteMovie, Typed
    <2>2. \A g \in Groups : baselines'[g] # None =>
            baselines'[g] = baselines[g] /\ p \notin Sources(baselines[g].in)
      BY <1>2, InvalidatedTyped DEF DeleteMovie, Typed
    <2>3. BaselinesHold'
      BY <1>0, <2>1, <2>2, BaselinesStay DEF Says
    <2> QED BY <1>2, <2>1, <2>3, DeletingKeeps DEF DeleteMovie, diskVars
  <1>3. ASSUME NEW p \in Paths, MarkIndexedManual(p) PROVE BaselinesHold' /\ PassHolds'
    <2>1. \A q \in Paths : q # p => rows'[q] = rows[q]
      BY <1>3 DEF MarkIndexedManual, Typed
    <2>2. \A g \in Groups : baselines'[g] # None =>
            baselines'[g] = baselines[g] /\ p \notin Sources(baselines[g].in)
      <3>1. baselines' = Invalidated({p})
        BY <1>3 DEF MarkIndexedManual
      <3> QED BY <3>1, InvalidatedTyped DEF Typed
    <2>3. BaselinesHold'
      BY <1>0, <2>1, <2>2, BaselinesStay DEF Says
    <2> QED BY <1>3, <2>3, IdleHolds DEF MarkIndexedManual
  <1>4. CASE DeleteLibrary
    <2>1. /\ \A q \in Paths : rows'[q] = None
          /\ \A g \in Groups : baselines'[g] = None
      BY <1>4 DEF DeleteLibrary
    <2> QED BY <1>4, <2>1, DeletingKeeps DEF DeleteLibrary, diskVars, BaselinesHold
  <1>5. CASE AddLibrary
    BY <1>5, ChangingKeeps DEF AddLibrary, diskVars
  <1>6. ASSUME NEW g \in Groups, NEW destructive \in BOOLEAN, RescanOne(g, destructive)
        PROVE  BaselinesHold' /\ PassHolds'
    <2> DEFINE in == Inputs(disk, Members(disk, g))
    <2>1. PICK done : 
            /\ done \subseteq DOMAIN in.nfo
            /\ rows' = [p \in Paths |-> IF p \notin done THEN rows[p]
                                        ELSE IF p \in Playable(in) THEN Indexed(in, p, FALSE)
                                        ELSE None]
            /\ baselines' = Invalidated(Touched(in, done))
      BY <1>6 DEF RescanOne
    <2>2. Sources(in) \subseteq Paths /\ \A p \in DOMAIN in.nfo : in.nfo[p] \in Metas \cup {"missing", "bad"}
      <3>1. Sources(in) = Members(disk, g) /\ DOMAIN in.nfo = Records(Members(disk, g))
        BY InputParts
      <3>2. \A p \in DOMAIN in.nfo : in.nfo[p] = disk.nfo[p] /\ p \in Paths
        BY <3>1, InputParts, RecordsAreFiles, MembersArePaths
      <3> QED BY <3>1, <3>2, MembersArePaths DEF Typed, Disk
    <2>3. ASSUME NEW p \in Paths, p \notin Touched(in, done) PROVE Says(p)
      <3>1. CASE p \notin done
        BY <2>1, <3>1 DEF Says
      <3>2. CASE p \in done /\ p \notin Playable(in)
        <4>1. rows[p] = None
          BY <2>3, <3>2 DEF Touched
        <4> QED BY <2>1, <3>2, <4>1 DEF Says
      <3>3. CASE p \in done /\ p \in Playable(in)
        <4>1. in.nfo[p] = "bad" /\ rows[p] # None
          BY <2>3, <3>3 DEF Touched
        <4>2. in.src[p] \in Urls
          BY <3>3 DEF Playable
        <4>3. PICK no \in BOOLEAN : rows'[p] = Indexed(in, p, no)
          BY <2>1, <3>3
        <4>4. rows'[p] # None /\ rows'[p].meta = rows[p].meta /\ rows'[p].status = rows[p].status
          BY <2>2, <4>1, <4>2, <4>3, IndexedRow DEF Typed
        <4> QED BY <4>1, <4>4 DEF Says
      <3> QED BY <3>1, <3>2, <3>3
    <2>4. \A h \in Groups : baselines'[h] # None =>
            baselines'[h] = baselines[h] /\ Sources(baselines[h].in) \cap Touched(in, done) = {}
      BY <2>1, InvalidatedTyped DEF Typed
    <2> HIDE DEF in
    <2>5. BaselinesHold'
      BY <1>0, <2>3, <2>4, BaselinesStay
    <2>6. pc' = "idle"
      BY <1>6 DEF RescanOne
    <2> QED BY <2>5, <2>6, IdleHolds
  <1> QED BY <1>1, <1>2, <1>3, <1>4, <1>5, <1>6

-----------------------------------------------------------------------------
(* The invariant: the pass. *)

LEMMA BeginningKeeps ==
  ASSUME ScanInv, NEW full \in BOOLEAN, Begin(full)
  PROVE  BaselinesHold' /\ PassHolds'
  <1> USE DEF ScanInv
  <1>1. UNCHANGED <<rows, baselines>> /\ pc' = "enumerate"
    BY DEF Begin, indexVars
  <1>2. /\ pass'.base = IF full THEN [g \in Groups |-> None] ELSE baselines
        /\ pass'.committed = {} /\ pass'.expected = {}
        /\ pass'.failed = FALSE /\ pass'.incomplete = FALSE
        /\ pass'.previous = \E p \in Paths : rows[p] # None
    BY Zenon DEF Begin
  <1>3. BaselinesHold'
    BY <1>1 DEF BaselinesHold, Honest, Claims, Fits, IsManual
  <1>4. CopiesHold'
    <2> SUFFICES ASSUME NEW g \in Groups, pass'.base[g] # None
                 PROVE  /\ Claims(pass'.base[g], g)
                        /\ \A p \in Sources(pass'.base[g].in) :
                             rows'[p] # None => Fits(pass.base[g].in, p)'
      BY Zenon DEF CopiesHold
    <2>1. PICK b : b = pass'.base[g] /\ b = baselines[g] /\ baselines[g] # None
      BY <1>2
    <2>2. Honest(b, g)
      BY <2>1 DEF BaselinesHold
    <2>3. \A p \in Sources(b.in) : rows'[p] # None => Fits(b.in, p)'
      BY <1>1, <2>2 DEF Honest, Fits, IsManual
    <2> QED BY <2>1, <2>2, <2>3 DEF Honest
  <1>5. NewRowsExpected'
    BY <1>1, <1>2 DEF NewRowsExpected
  <1>6. Starting' /\ ~Taken'
    BY <1>1, <1>2 DEF Starting, Taken
  <1> QED BY <1>3, <1>4, <1>5, <1>6 DEF PassHolds

LEMMA EnumeratingKeeps ==
  ASSUME ScanAssumption, ScanInv, Enumerate
  PROVE  BaselinesHold' /\ PassHolds'
  <1> USE DEF ScanInv
  <1>1. UNCHANGED <<rows, baselines, seen, disk>> /\ pc = "enumerate" /\ pc' = "next"
    BY DEF Enumerate, indexVars, diskVars
  <1>2. PICK old \in PassType : old = pass
    BY <1>1 DEF Typed
  <1>3. /\ pass'.evidence = [p \in Paths |-> IF pass.full \/ rows[p] = None THEN None
                                             ELSE rows[p].parts]
        /\ pass'.stock = [g \in Groups |-> Members(disk, g)]
        /\ pass'.todo = {g \in Groups : Members(disk, g) # {}}
        /\ pass'.full = pass.full /\ pass'.previous = pass.previous /\ pass'.base = pass.base
        /\ pass'.expected = pass.expected /\ pass'.committed = pass.committed
        /\ pass'.failed = pass.failed /\ pass'.incomplete = pass.incomplete
    <2> DEFINE ev == [p \in Paths |-> IF pass.full \/ rows[p] = None THEN None ELSE rows[p].parts]
               st == [g \in Groups |-> Members(disk, g)]
               td == {g \in Groups : Members(disk, g) # {}}
    <2>1. pass' = [old EXCEPT !.evidence = ev, !.stock = st, !.todo = td]
      BY <1>2, Zenon DEF Enumerate
    <2> HIDE DEF ev, st, td
    <2>2. /\ pass'.evidence = ev /\ pass'.stock = st /\ pass'.todo = td
          /\ pass'.full = old.full /\ pass'.previous = old.previous /\ pass'.base = old.base
          /\ pass'.expected = old.expected /\ pass'.committed = old.committed
          /\ pass'.failed = old.failed /\ pass'.incomplete = old.incomplete
      BY <2>1 DEF PassType
    <2> QED BY <1>2, <2>2 DEF ev, st, td
  <1>4. BaselinesHold'
    BY <1>1 DEF BaselinesHold, Honest, Claims, Fits, IsManual
  <1>5. pass.committed = {} /\ pass.expected = {} /\ ~pass.failed /\ ~pass.incomplete
    BY <1>1 DEF PassHolds, Starting
  <1>6. CopiesHold'
    BY <1>1, <1>3 DEF PassHolds, CopiesHold, Claims, Fits, IsManual
  <1>7. NewRowsExpected'
    BY <1>1, <1>3 DEF PassHolds, NewRowsExpected
  <1>8. GroupsHold'
    <2>1. \A g \in Groups : \A p \in Members(disk, g) : GroupOf[p] = g
      BY MembersArePaths
    <2>2. /\ \A g \in Groups : \A p \in pass'.stock[g] : GroupOf[p] = g
          /\ \A g \in Groups : pass'.stock[g] # {} => g \in pass'.todo
      BY <1>3, <2>1
    <2> QED BY <1>3, <1>5, <2>2 DEF GroupsHold
  <1>9. EvidenceHolds'
    BY <1>1, <1>3 DEF EvidenceHolds, Committed
  <1> QED BY <1>1, <1>3, <1>4, <1>5, <1>6, <1>7, <1>8, <1>9
          DEF PassHolds, Starting, InputHolds, CommittedHold, StockHolds

\* One group at a time has its turn.
LEMMA OneTurn ==
  ASSUME ScanAssumption, Typed, pc # "idle", NEW g \in Groups, NEW h \in Groups,
         Current(g), Current(h)
  PROVE  g = h
  BY GroupsAreNumbers DEF Current

\* Nothing is committed.
LEMMA PassingOverKeeps ==
  ASSUME ScanInv, Taken, NEW g \in Groups, Leaves(g, None), pc' = "next",
         UNCHANGED <<rows, baselines, seen>>,
         pass'.expected = pass.expected, pass'.committed = pass.committed,
         pass'.failed \/ pass'.incomplete
  PROVE  BaselinesHold' /\ PassHolds'
  <1> USE DEF ScanInv
  <1>1. BaselinesHold'
    BY DEF BaselinesHold, Honest, Claims, Fits, IsManual
  <1>2. CopiesHold' /\ NewRowsExpected'
    <2>1. CopiesHold /\ NewRowsExpected
      BY DEF PassHolds, Taken
    <2>2. CopiesHold'
      BY <2>1 DEF CopiesHold, Leaves, Claims, Fits, IsManual
    <2>3. NewRowsExpected'
      BY <2>1 DEF NewRowsExpected, Leaves
    <2> QED BY <2>2, <2>3
  <1>3. GroupsHold'
    BY DEF PassHolds, GroupsHold, Leaves, Committed
  <1>4. EvidenceHolds'
    BY DEF PassHolds, EvidenceHolds, Leaves, Committed
  <1>5. CommittedHold'
    <2>1. \A d, h : Tells(d, h) => Tells(d, h)'
      BY DEF Tells, Leaves
    <2> QED BY <2>1 DEF PassHolds, CommittedHold
  <1> QED BY <1>1, <1>2, <1>3, <1>4, <1>5 DEF PassHolds, Starting, InputHolds, StockHolds

\* A group is read, or found again as it was read.
LEMMA LookingKeeps ==
  ASSUME ScanAssumption, ScanInv, Taken, NEW g \in Groups, Current(g),
         \/ ReadGroup(g)
         \/ pc = "compare" /\ BuildGroup(g)
         \/ pc = "recheck" /\ Recheck(g)
  PROVE  Typed' /\ BaselinesHold' /\ PassHolds'
  <1> USE DEF ScanInv
  <1>0. pc # "idle"
    BY DEF Taken
  <1>1. UNCHANGED <<rows, baselines, seen, disk>> /\ pc' \in {"compare", "recheck", "commit"}
    BY DEF ReadGroup, BuildGroup, Recheck, indexVars, diskVars
  <1>2. /\ Typed'
        /\ \A f \in {"full", "allowEmpty", "mounted", "manual", "previous", "base", "evidence",
                     "stock", "todo", "expected", "committed", "failed", "incomplete"} :
             pass'[f] = pass[f]
    <2>1. CASE ReadGroup(g)
      BY <1>0, <2>1, ReadingTyped
    <2>2. CASE ~ReadGroup(g)
      BY <2>2 DEF BuildGroup, Recheck, Typed, indexVars, diskVars
    <2> QED BY <2>1, <2>2
  <1>3. /\ pass'.full = pass.full /\ pass'.previous = pass.previous /\ pass'.base = pass.base
        /\ pass'.evidence = pass.evidence /\ pass'.stock = pass.stock /\ pass'.todo = pass.todo
        /\ pass'.expected = pass.expected /\ pass'.committed = pass.committed
        /\ pass'.failed = pass.failed /\ pass'.incomplete = pass.incomplete
    BY <1>2
  <1>4. BaselinesHold'
    BY <1>1 DEF BaselinesHold, Honest, Claims, Fits, IsManual
  <1>5. CopiesHold /\ NewRowsExpected /\ GroupsHold /\ EvidenceHolds /\ InputHolds /\ CommittedHold
    BY <1>0 DEF PassHolds
  <1>6. CopiesHold'
    BY <1>1, <1>3, <1>5 DEF CopiesHold, Claims, Fits, IsManual
  <1>7. NewRowsExpected'
    BY <1>1, <1>3, <1>5 DEF NewRowsExpected
  <1>8. GroupsHold'
    BY <1>3, <1>5 DEF GroupsHold, Committed
  <1>9. EvidenceHolds'
    BY <1>1, <1>3, <1>5 DEF EvidenceHolds, Committed
  <1>10. CommittedHold'
    <2>1. \A d, h : Tells(d, h) => Tells(d, h)'
      BY <1>1, <1>3 DEF Tells
    <2> QED BY <1>1, <1>3, <1>5, <2>1 DEF CommittedHold
  <1>11. \A h \in Groups : Current(h)' => h = g
    <2>1. \A h : Current(h)' => Current(h)
      BY <1>3 DEF Current
    <2> QED BY <1>0, <2>1, OneTurn
  <1>12. InputHolds'
    <2>1. CASE ReadGroup(g)
      <3>1. pass'.in = Inputs(disk, pass.stock[g]) /\ pass'.in \in AnInput
        BY <1>0, <2>1, ReadingTyped
      <3>2. Sources(pass'.in) = pass.stock[g]
        BY <3>1, InputParts
      <3>3. pc' = "compare"
        BY <2>1 DEF ReadGroup
      <3> QED BY <1>3, <1>11, <3>1, <3>2, <3>3 DEF InputHolds
    <2>2. CASE ~ReadGroup(g)
      <3>1. StillMatches(g) /\ pass' = pass /\ pc \in {"compare", "recheck"}
        BY <2>2 DEF BuildGroup, Recheck
      <3>2. /\ pass'.in \in AnInput
            /\ Sources(pass'.in) = pass'.stock[g]
        BY <1>5, <3>1 DEF InputHolds
      <3>3. \E d \in seen' : Inputs(d, Members(d, g)) = pass'.in
        BY <1>0, <1>1, <3>1 DEF StillMatches, Typed
      <3> QED BY <1>11, <3>2, <3>3 DEF InputHolds
    <2> QED BY <2>1, <2>2
  <1> QED BY <1>1, <1>2, <1>4, <1>6, <1>7, <1>8, <1>9, <1>10, <1>12
          DEF PassHolds, Starting, StockHolds

\* An index row that is there has parts, so it is not taken for one that is not.
LEMMA PartsAreSomething ==
  ASSUME ScanAssumption, Typed
  PROVE  \A p \in Paths : rows[p] # None => rows[p].parts # None
  BY DEF Typed, Row, ScanAssumption

\* A group that is left alone: the baseline tells what its rows are.
LEMMA LeavingTells ==
  ASSUME ScanAssumption, ScanInv, pc = "compare", NEW g \in Groups, Current(g), LeaveGroup(g)
  PROVE  /\ Inputs(disk, Members(disk, g)) = pass.in
         /\ Members(disk, g) = pass.stock[g] /\ disk \in seen
         /\ pass.base[g].expected \subseteq pass.stock[g]
         /\ \A p \in pass.stock[g] :
              IF p \in pass.base[g].expected
              THEN rows[p] # None => Explains(disk, p, rows[p])
              ELSE rows[p] = None /\ Explains(disk, p, None)
  <1> USE DEF ScanInv
  <1>1. PICK old \in PassType : old = pass
    BY DEF Typed
  <1>2. PICK b \in Baseline : b = pass.base[g] /\ b.in = pass.in
    BY <1>1 DEF LeaveGroup, Reusable, PassType
  <1>3. GroupsHold /\ CopiesHold /\ EvidenceHolds /\ InputHolds
    BY DEF PassHolds, Taken
  <1>4. Inputs(disk, Members(disk, g)) = b.in /\ disk \in seen
    BY <1>2 DEF LeaveGroup, StillMatches, Typed
  <1>5. Sources(b.in) = pass.stock[g] /\ Members(disk, g) = Sources(b.in)
    BY <1>2, <1>3, <1>4, InputParts DEF InputHolds
  <1>6. g \in pass.todo /\ g \notin pass.committed /\ g \in Groups
    BY <1>3 DEF Current, GroupsHold
  <1>7. Claims(b, g) /\ \A p \in Sources(b.in) : rows[p] # None => Fits(b.in, p)
    BY <1>2, <1>3, <1>6 DEF CopiesHold, LeaveGroup, Reusable
  <1>8. ASSUME NEW p \in Sources(b.in)
        PROVE  p \in Paths /\ GroupOf[p] = g
               /\ (rows[p] # None => pass.evidence[p] = rows[p].parts /\ pass.evidence[p] # None)
    <2>1. p \in Paths /\ GroupOf[p] = g
      BY <1>7, <1>8, KnownInput DEF Baseline, Claims
    <2>2. ~Committed(p) /\ ~pass.full
      BY <1>6, <2>1 DEF Committed, LeaveGroup, Reusable
    <2> QED BY <1>3, <2>1, <2>2, PartsAreSomething DEF EvidenceHolds
  <1>9. ASSUME NEW p \in Sources(b.in), p \in b.expected, rows[p] # None
        PROVE  Explains(disk, p, rows[p])
    <2>1. Fits(b.in, p)
      BY <1>7, <1>9
    <2>2. p \in Playable(b.in) => rows[p].parts = PartsOf(b.in, p)
      BY <1>2, <1>8, <1>9 DEF LeaveGroup, Reusable, EvidenceMatches, Playable
    <2>3. GroupOf[p] = g
      BY <1>8, <1>9
    <2>4. p \notin Playable(b.in) => rows[p].status = "manual"
      BY <2>1 DEF Fits, IsManual
    <2>5. p \in Playable(b.in) =>
            /\ b.in.nfo[p] \in Metas => rows[p].meta = b.in.nfo[p]
            /\ b.in.nfo[p] = "missing" => rows[p].meta = None \/ rows[p].status = "manual"
      BY <2>1 DEF Fits, IsManual
    <2> QED BY <1>4, <1>9, <2>2, <2>3, <2>4, <2>5 DEF Explains
  <1>10. ASSUME NEW p \in Sources(b.in), p \notin b.expected
         PROVE  rows[p] = None /\ Explains(disk, p, None)
    <2>1. pass.evidence[p] = None
      BY <1>2, <1>10 DEF LeaveGroup, Reusable, EvidenceMatches
    <2>2. rows[p] = None
      BY <1>8, <2>1
    <2>3. p \notin Playable(b.in) /\ GroupOf[p] = g
      BY <1>7, <1>8, <1>10 DEF Claims
    <2> QED BY <1>4, <2>2, <2>3 DEF Explains
  <1> QED BY <1>2, <1>4, <1>5, <1>7, <1>9, <1>10 DEF Claims

LEMMA LeavingKeeps ==
  ASSUME ScanAssumption, ScanInv, pc = "compare", NEW g \in Groups, Current(g), LeaveGroup(g)
  PROVE  Typed' /\ BaselinesHold' /\ PassHolds'
  <1> USE DEF ScanInv
  <1>1. UNCHANGED <<rows, baselines, seen, disk>> /\ pc' = "next"
    BY DEF LeaveGroup, indexVars, diskVars
  <1>2. /\ Typed' /\ Leaves(g, None)
        /\ pass'.expected = pass.expected \cup pass.base[g].expected
        /\ pass'.committed = pass.committed \cup {g}
        /\ pass'.failed = pass.failed /\ pass'.incomplete = pass.incomplete
    BY LeavingTyped
  <1>3. /\ pass'.full = pass.full /\ pass'.previous = pass.previous /\ pass'.base = pass.base
        /\ pass'.evidence = pass.evidence /\ pass'.stock = pass.stock
        /\ pass'.todo = pass.todo \ {g}
    BY <1>2 DEF Leaves
  <1>4. CopiesHold /\ NewRowsExpected /\ GroupsHold /\ EvidenceHolds /\ CommittedHold
    BY DEF PassHolds, Taken
  <1>5. BaselinesHold'
    BY <1>1 DEF BaselinesHold, Honest, Claims, Fits, IsManual
  <1>6. CopiesHold'
    BY <1>1, <1>2, <1>3, <1>4 DEF CopiesHold, Claims, Fits, IsManual
  <1>7. NewRowsExpected'
    BY <1>1, <1>2, <1>3, <1>4 DEF NewRowsExpected
  <1>8. /\ pass.base[g].expected \subseteq pass.stock[g]
        /\ \A p \in pass.stock[g] : GroupOf[p] = g
    BY <1>4, LeavingTells DEF GroupsHold
  <1>9. GroupsHold'
    BY <1>2, <1>3, <1>4, <1>8 DEF GroupsHold, Committed
  <1>10. EvidenceHolds'
    BY <1>1, <1>2, <1>3, <1>4 DEF EvidenceHolds, Committed
  <1>11. g \notin pass.committed
    BY <1>4 DEF GroupsHold, Current
  <1>12. Tells(disk, g)'
    <2>1. \A p \in pass.stock[g] : p \in pass'.expected <=> p \in pass.base[g].expected
      BY <1>2, <1>4, <1>8, <1>11 DEF GroupsHold, Committed
    <2> QED BY <1>1, <1>3, <2>1, LeavingTells DEF Tells
  <1>13. CommittedHold'
    <2>1. ASSUME NEW d \in seen, NEW h \in pass.committed, Tells(d, h) PROVE Tells(d, h)'
      <3>1. h \in Groups /\ h # g
        BY <1>11 DEF Typed, PassType
      <3>2. \A p \in pass.stock[h] : p \notin pass.base[g].expected
        BY <1>4, <1>8, <3>1 DEF GroupsHold
      <3> QED BY <1>1, <1>2, <1>3, <2>1, <3>2 DEF Tells
    <2>2. disk \in seen
      BY DEF Typed
    <2>3. \E d \in seen : Tells(d, g)'
      BY <1>1, <1>12, <2>2 DEF Tells
    <2>4. \A h \in pass.committed : \E d \in seen : Tells(d, h)'
      BY <1>4, <2>1 DEF CommittedHold
    <2> QED BY <1>1, <1>2, <2>3, <2>4 DEF CommittedHold
  <1> QED BY <1>1, <1>2, <1>5, <1>6, <1>7, <1>9, <1>10, <1>13
          DEF PassHolds, Starting, StockHolds, InputHolds

\* What is written of p fits the input, and the disk it was read from explains it.
LEMMA WrittenFits ==
  ASSUME ScanAssumption, Typed, NEW in \in AnInput, NEW p \in Sources(in),
         rows'[p] = Written(in, p)
  PROVE  /\ p \in Playable(in) => rows'[p] # None
         /\ rows'[p] # None => Fits(in, p)'
         /\ rows'[p] # None /\ p \in Playable(in) => rows'[p].parts = PartsOf(in, p)
         /\ rows'[p] # None /\ p \notin Playable(in) => rows'[p].status = "manual"
  <1>1. CASE p \in Playable(in)
    <2>1. in.nfo[p] \in Metas \cup {"missing", "bad"} /\ in.src[p] \in Urls
      BY <1>1, KnownInput DEF Playable
    <2>2. p \in Paths /\ Sources(in) \subseteq Paths
      BY KnownInput
    <2> DEFINE row == Indexed(in, p, p \in pass.manual)
    <2>4. /\ row # None /\ row.parts = PartsOf(in, p)
          /\ in.nfo[p] \in Metas => row.meta = in.nfo[p]
          /\ in.nfo[p] = "missing" => row.meta = None \/ row.status = "manual"
      BY <2>1, <2>2, IndexedRow DEF Typed
    <2>5. rows'[p] = row
      BY <1>1, Zenon DEF Written
    <2> HIDE DEF row
    <2> QED BY <1>1, <2>4, <2>5 DEF Fits, IsManual
  <1>2. CASE p \notin Playable(in)
    <2>1. rows'[p] # None => rows'[p] = rows[p] /\ IsManual(p)
      BY <1>2 DEF Written
    <2> QED BY <1>2, <2>1 DEF Fits, IsManual
  <1> QED BY <1>1, <1>2

LEMMA WritingKeeps ==
  ASSUME ScanAssumption, ScanInv, pc = "commit", NEW g \in Groups, Current(g), WriteGroup(g)
  PROVE  Typed' /\ BaselinesHold' /\ PassHolds'
  <1> USE DEF ScanInv
  <1>1. PICK in \in AnInput : in = pass.in
    BY DEF PassHolds, Taken, InputHolds
  <1>2. PICK mine : mine = {p \in Sources(in) : rows'[p] # None}
    OBVIOUS
  <1>3. /\ Typed' /\ Leaves(g, None)
        /\ \A p \in Paths : rows'[p] = Written(in, p)
        /\ baselines'[g] = [in |-> in, expected |-> mine]
        /\ \A h \in Groups \ {g} : baselines'[h] # None =>
             baselines'[h] = baselines[h] /\ Sources(baselines[h].in) \cap Sources(in) = {}
        /\ pass'.expected = pass.expected \cup mine
        /\ pass'.committed = pass.committed \cup {g}
        /\ pass'.failed = pass.failed /\ pass'.incomplete = pass.incomplete
        /\ UNCHANGED <<disk, seen, library, events>> /\ pc' = "next"
    BY <1>1, <1>2, WritingTyped
  <1>4. /\ pass'.full = pass.full /\ pass'.previous = pass.previous /\ pass'.base = pass.base
        /\ pass'.evidence = pass.evidence /\ pass'.stock = pass.stock
        /\ pass'.todo = pass.todo \ {g}
    BY <1>3 DEF Leaves
  <1>5. CopiesHold /\ NewRowsExpected /\ GroupsHold /\ EvidenceHolds /\ CommittedHold
    BY DEF PassHolds, Taken
  <1>6. /\ Sources(in) = pass.stock[g] /\ Sources(in) \subseteq Paths
        /\ \A p \in Sources(in) : GroupOf[p] = g
        /\ g \notin pass.committed /\ g \in pass.todo
    BY <1>1, <1>5, KnownInput DEF PassHolds, Taken, InputHolds, GroupsHold, Current
  <1>7. \A p \in Paths : p \notin Sources(in) => rows'[p] = rows[p]
    BY <1>3, KnownInput DEF Written
  <1>8. \A p \in Sources(in) :
          /\ p \in Playable(in) => rows'[p] # None
          /\ rows'[p] # None => Fits(in, p)'
          /\ rows'[p] # None /\ p \in Playable(in) => rows'[p].parts = PartsOf(in, p)
          /\ rows'[p] # None /\ p \notin Playable(in) => rows'[p].status = "manual"
    BY <1>3, <1>6, WrittenFits
  <1>9. BaselinesHold'
    <2> SUFFICES ASSUME NEW h \in Groups, baselines'[h] # None
                 PROVE  Honest(baselines[h], h)'
      BY Zenon DEF BaselinesHold
    <2>1. CASE h = g
      <3>1. PICK b : b = [in |-> in, expected |-> mine]
        OBVIOUS
      <3>2. b.in = in /\ b.expected = mine
        BY <3>1
      <3>3. Claims(b, g)
        BY <1>2, <1>6, <1>8, <3>2, KnownInput DEF Claims
      <3>4. \A p \in Sources(b.in) :
              /\ p \in b.expected <=> rows'[p] # None
              /\ rows'[p] # None => Fits(b.in, p)'
        BY <1>2, <1>8, <3>2
      <3>5. Honest(b, g)'
        BY <3>3, <3>4 DEF Honest
      <3>6. baselines'[h] = b
        BY <1>3, <2>1, <3>1
      <3> QED BY <2>1, <3>5, <3>6 DEF Honest, Claims, Fits, IsManual
    <2>2. CASE h # g
      <3>1. PICK b \in Baseline : b = baselines[h] /\ b = baselines'[h]
        BY <1>3, <2>2 DEF Typed
      <3>2. Honest(b, h) /\ Sources(b.in) \subseteq Paths
        BY <1>3, <2>2, <3>1, KnownInput DEF BaselinesHold, Baseline
      <3>3. \A p \in Sources(b.in) : Says(p)
        BY <1>3, <1>7, <2>2, <3>1, <3>2 DEF Says
      <3>4. Honest(b, h)'
        BY <3>2, <3>3, HonestyStays
      <3> QED BY <3>1, <3>4 DEF Honest, Claims, Fits, IsManual
    <2> QED BY <2>1, <2>2
  <1>10. CopiesHold'
    <2> SUFFICES ASSUME NEW h \in Groups \ pass'.committed, pass'.base[h] # None
                 PROVE  /\ Claims(pass'.base[h], h)
                        /\ \A p \in Sources(pass'.base[h].in) :
                             rows'[p] # None => Fits(pass.base[h].in, p)'
      BY Zenon DEF CopiesHold
    <2>1. PICK b \in Baseline : b = pass.base[h] /\ b = pass'.base[h]
      BY <1>4 DEF Typed, PassType
    <2>2. Claims(b, h) /\ \A p \in Sources(b.in) : rows[p] # None => Fits(b.in, p)
      BY <1>3, <1>4, <1>5, <2>1 DEF CopiesHold
    <2>3. \A p \in Sources(b.in) : p \in Paths /\ GroupOf[p] = h /\ h # g
      BY <1>3, <2>2, KnownInput DEF Baseline, Claims
    <2>4. \A p \in Sources(b.in) : rows'[p] # None => Fits(b.in, p)'
      BY <1>6, <1>7, <2>2, <2>3 DEF Fits, IsManual
    <2> QED BY <2>1, <2>2, <2>4 DEF Fits, IsManual
  <1>11. NewRowsExpected'
    BY <1>2, <1>3, <1>4, <1>5, <1>7 DEF NewRowsExpected
  <1>12. mine \subseteq pass.stock[g]
    BY <1>2, <1>6
  <1>13. GroupsHold'
    BY <1>3, <1>4, <1>5, <1>6, <1>12 DEF GroupsHold, Committed
  <1>14. EvidenceHolds'
    BY <1>3, <1>4, <1>5, <1>6, <1>7 DEF EvidenceHolds, Committed
  <1>15. \A p \in Sources(in) : p \in pass'.expected <=> rows'[p] # None
    BY <1>2, <1>3, <1>5, <1>6 DEF GroupsHold, Committed
  <1>16. PICK d \in seen : Inputs(d, Members(d, g)) = in
    BY <1>1 DEF PassHolds, Taken, InputHolds
  <1>17. \A p \in Sources(in) : Explains(d, p, rows'[p])
    BY <1>6, <1>8, <1>16 DEF Explains, Fits, IsManual
  <1>18. Tells(d, g)'
    <2>1. Members(d, g) = pass.stock[g]
      BY <1>6, <1>16, InputParts
    <2> QED BY <1>4, <1>6, <1>15, <1>17, <2>1 DEF Tells
  <1>19. CommittedHold'
    <2>1. ASSUME NEW e \in seen, NEW h \in pass.committed, Tells(e, h) PROVE Tells(e, h)'
      <3>1. h \in Groups /\ h # g /\ pass.stock[h] \subseteq Paths
        BY <1>6 DEF Typed, PassType
      <3>2. \A p \in pass.stock[h] : p \notin mine /\ rows'[p] = rows[p]
        BY <1>5, <1>6, <1>7, <1>12, <3>1 DEF GroupsHold
      <3> QED BY <1>3, <1>4, <2>1, <3>2 DEF Tells
    <2>2. \A h \in pass.committed : \E e \in seen : Tells(e, h)'
      BY <1>5, <2>1 DEF CommittedHold
    <2> QED BY <1>3, <1>18, <2>2 DEF CommittedHold
  <1> QED BY <1>3, <1>9, <1>10, <1>11, <1>13, <1>14, <1>19
          DEF PassHolds, Starting, StockHolds, InputHolds

LEMMA TakingStockKeeps ==
  ASSUME ScanInv, NEW allowEmpty \in BOOLEAN, TakeStock(allowEmpty)
  PROVE  BaselinesHold' /\ PassHolds'
  <1> USE DEF ScanInv
  <1>1. UNCHANGED <<rows, baselines, seen, disk>> /\ pc = "next" /\ pc' = "cleanup"
    BY DEF TakeStock, StockUnchanged, indexVars, diskVars
  <1>2. PICK old \in PassType : old = pass
    BY <1>1 DEF Typed
  <1>3. /\ pass'.full = pass.full /\ pass'.previous = pass.previous /\ pass'.base = pass.base
        /\ pass'.evidence = pass.evidence /\ pass'.stock = pass.stock /\ pass'.todo = pass.todo
        /\ pass'.expected = pass.expected /\ pass'.committed = pass.committed
        /\ pass'.failed = pass.failed /\ pass'.incomplete = pass.incomplete
        /\ pass'.allowEmpty = allowEmpty
    <2>1. pass' = [old EXCEPT !.allowEmpty = allowEmpty]
      BY <1>2 DEF TakeStock, StockUnchanged
    <2> QED BY <1>2, <2>1 DEF PassType
  <1>4. BaselinesHold'
    BY <1>1 DEF BaselinesHold, Honest, Claims, Fits, IsManual
  <1>5. CopiesHold /\ NewRowsExpected /\ GroupsHold /\ EvidenceHolds /\ CommittedHold
    BY <1>1 DEF PassHolds, Taken
  <1>6. CopiesHold'
    BY <1>1, <1>3, <1>5 DEF CopiesHold, Claims, Fits, IsManual
  <1>7. NewRowsExpected'
    BY <1>1, <1>3, <1>5 DEF NewRowsExpected
  <1>8. GroupsHold'
    BY <1>3, <1>5 DEF GroupsHold, Committed
  <1>9. EvidenceHolds'
    BY <1>1, <1>3, <1>5 DEF EvidenceHolds, Committed
  <1>10. CommittedHold'
    <2>1. \A d, h : Tells(d, h) => Tells(d, h)'
      BY <1>1, <1>3 DEF Tells
    <2> QED BY <1>1, <1>3, <1>5, <2>1 DEF CommittedHold
  <1>11. StockHolds'
    <2>1. disk \in seen /\ \A g \in Groups : Members(disk, g) = pass.stock[g]
      BY <1>1 DEF Typed, TakeStock, StockUnchanged
    <2>2. \E d \in seen : \A g \in Groups : Members(d, g) = pass.stock[g]
      BY <2>1
    <2>3. pass.todo = {} /\ ~pass.failed /\ ~pass.incomplete
      BY DEF TakeStock
    <2>4. pass.previous /\ (\A g \in Groups : pass.stock[g] = {}) => allowEmpty
      BY DEF TakeStock, StockUnchanged
    <2> QED BY <1>1, <1>3, <2>2, <2>3, <2>4 DEF StockHolds
  <1> QED BY <1>1, <1>4, <1>6, <1>7, <1>8, <1>9, <1>10, <1>11
          DEF PassHolds, Starting, InputHolds

\* Cleaning up leaves every baseline with its rows.
LEMMA CleaningKeeps ==
  ASSUME ScanInv, Reconcile
  PROVE  BaselinesHold' /\ PassHolds'
  <1> USE DEF ScanInv
  <1> DEFINE gone == {p \in Paths : rows[p] # None} \ pass.expected
  <1>1. /\ \A p \in Paths : rows'[p] = (IF p \in pass.expected THEN rows[p] ELSE None)
        /\ \A g \in Groups : baselines'[g] # None => baselines'[g] = Invalidated(gone)[g]
        /\ pc' = "idle"
    BY DEF Reconcile, CleanUp, Over
  <1>2. \A g \in Groups : baselines'[g] # None =>
          baselines'[g] = baselines[g] /\ Sources(baselines[g].in) \cap gone = {}
    <2>1. \A g \in Groups : Invalidated(gone)[g] # None =>
            Invalidated(gone)[g] = baselines[g] /\ Sources(baselines[g].in) \cap gone = {}
      BY InvalidatedTyped DEF Typed
    <2> HIDE DEF gone
    <2> QED BY <1>1, <2>1
  <1>3. \A p \in Paths : p \notin gone => Says(p)
    BY <1>1 DEF Says
  <1>4. \A g \in Groups : baselines[g] # None => Sources(baselines[g].in) \subseteq Paths
    BY KnownInput DEF Typed, Baseline
  <1> HIDE DEF gone
  <1>5. BaselinesHold'
    BY <1>2, <1>3, <1>4, BaselinesStay
  <1> QED BY <1>1, <1>5, IdleHolds

LEMMA InvStart == ScanAssumption /\ Init => ScanInv
  <1> SUFFICES ASSUME ScanAssumption, Init PROVE ScanInv
    OBVIOUS
  <1>1. Typed
    BY TypesStart
  <1>2. BaselinesHold
    BY DEF Init, BaselinesHold
  <1>3. PassHolds
    BY DEF Init, PassHolds, Starting, Taken
  <1> QED BY <1>1, <1>2, <1>3 DEF ScanInv

LEMMA InvStays == ScanAssumption /\ ScanInv /\ [Next]_vars => ScanInv'
  <1> SUFFICES ASSUME ScanAssumption, ScanInv, [Next]_vars PROVE Typed' /\ BaselinesHold' /\ PassHolds'
    BY DEF ScanInv
  <1>1. CASE UNCHANGED vars
    <2>1. UNCHANGED <<disk, events, library, rows, baselines, pc, pass, seen>>
      BY <1>1 DEF vars
    <2> QED BY <2>1, ChangingKeeps DEF ScanInv, Typed
  <1>2. CASE \/ Change
             \/ \E p \in Paths : DeleteMovie(p) \/ MarkIndexedManual(p)
             \/ DeleteLibrary \/ AddLibrary
             \/ \E g \in Groups, destructive \in BOOLEAN : RescanOne(g, destructive)
    BY <1>2, TypesStayOutside, OutsideKeeps DEF ScanInv
  <1>3. ASSUME NEW full \in BOOLEAN, Begin(full) PROVE Typed' /\ BaselinesHold' /\ PassHolds'
    BY <1>3, TypesStayAtStart, BeginningKeeps DEF ScanInv
  <1>4. CASE Enumerate
    BY <1>4, TypesStayAtStart, EnumeratingKeeps DEF ScanInv
  <1>5. ASSUME NEW g \in Groups, pc # "enumerate", pc # "idle", Current(g), Step(g)
        PROVE  Typed' /\ BaselinesHold' /\ PassHolds'
    <2>1. CASE pc \in {"next", "compare", "recheck"} /\ SkipGroup(g)
      <3>1. UNCHANGED <<rows, baselines, seen>> /\ pc' = "next" /\ Taken
        BY <2>1 DEF SkipGroup, indexVars, diskVars, Taken
      <3> QED BY <1>5, <2>1, <3>1, SkippingTyped, PassingOverKeeps DEF ScanInv
    <2>2. CASE pc \in {"next", "compare", "recheck"} /\ FailGroup(g)
      <3>1. UNCHANGED <<rows, baselines, seen>> /\ pc' = "next" /\ Taken
        BY <2>2 DEF FailGroup, indexVars, diskVars, Taken
      <3> QED BY <1>5, <2>2, <3>1, FailingTyped, PassingOverKeeps DEF ScanInv
    <2>3. CASE \/ pc = "next" /\ ReadGroup(g)
               \/ pc = "compare" /\ BuildGroup(g)
               \/ pc = "recheck" /\ Recheck(g)
      BY <1>5, <2>3, LookingKeeps DEF Taken
    <2>4. CASE pc = "compare" /\ LeaveGroup(g)
      BY <1>5, <2>4, LeavingKeeps
    <2>5. CASE pc = "commit" /\ CommitGroup(g)
      BY <1>5, <2>5, WritingKeeps DEF CommitGroup
    <2> QED BY <1>5, <2>1, <2>2, <2>3, <2>4, <2>5 DEF Step
  <1>6. ASSUME NEW allowEmpty \in BOOLEAN, TakeStock(allowEmpty)
        PROVE  Typed' /\ BaselinesHold' /\ PassHolds'
    BY <1>6, TypesStayAtEnd, TakingStockKeeps DEF ScanInv
  <1>7. CASE Reconcile
    BY <1>7, TypesStayAtEnd, CleaningKeeps DEF ScanInv
  <1>8. CASE Abandon
    <2>1. UNCHANGED <<rows, baselines>> /\ pc' = "idle"
      BY <1>8 DEF Abandon, Over, indexVars
    <2>2. BaselinesHold'
      BY <2>1 DEF ScanInv, BaselinesHold, Honest, Claims, Fits, IsManual
    <2> QED BY <1>8, <2>1, <2>2, TypesStayAtEnd, IdleHolds DEF ScanInv
  <1> QED BY <1>1, <1>2, <1>3, <1>4, <1>5, <1>6, <1>7, <1>8 DEF Next, Pass

\* Whatever happens beside a pass and between its steps, in one library of any
\* size: the baselines hold, and a pass knows what it has committed, what its
\* copies of the index are worth, and which disks explain what it has left.
THEOREM ScanInductive == Spec => []ScanInv
  <1> USE ScanAssumption
  <1>1. Init => ScanInv
    BY InvStart
  <1>2. ScanInv /\ [Next]_vars => ScanInv'
    BY InvStays
  <1> QED BY <1>1, <1>2, PTL DEF Spec

\* A baseline never claims more than is indexed, whoever has written since.
THEOREM BaselinesAreHonest == Spec => []BaselineHonest
  <1>1. ScanInv => BaselineHonest
    BY DEF ScanInv, BaselinesHold, Honest, Claims, Fits, BaselineHonest
  <1> QED BY <1>1, ScanInductive, PTL

-----------------------------------------------------------------------------
(* What the pass does to the index. *)

\* The steps of a pass that change the index.
LEMMA PassWritesTwice ==
  ASSUME ScanInv, Next, PassWrites
  PROVE  \/ \E g \in Groups : pc = "commit" /\ Current(g) /\ WriteGroup(g)
         \/ Reconcile
  <1>1. events' # events + 1
    BY DEF PassWrites, ScanInv, Typed
  <1>2. rows' # rows /\ pc # "idle"
    BY DEF PassWrites
  <1>3. ~Change /\ \A p \in Paths : ~DeleteMovie(p) /\ ~MarkIndexedManual(p)
    BY <1>1 DEF Change, ChangeTo, DeleteMovie, MarkIndexedManual, Event
  <1>4. ~DeleteLibrary /\ ~AddLibrary
    BY <1>1, <1>2 DEF DeleteLibrary, AddLibrary, Event
  <1>5. \A g \in Groups, destructive \in BOOLEAN : ~RescanOne(g, destructive)
    BY <1>2 DEF RescanOne
  <1>6. /\ \A full \in BOOLEAN : ~Begin(full)
        /\ \A allowEmpty \in BOOLEAN : ~TakeStock(allowEmpty)
        /\ ~Enumerate /\ ~Abandon
    BY <1>2 DEF Begin, Enumerate, TakeStock, StockUnchanged, Abandon, indexVars
  <1>7. ASSUME NEW g \in Groups, Step(g) PROVE pc = "commit" /\ WriteGroup(g)
    <2>1. ~SkipGroup(g) /\ ~FailGroup(g) /\ ~ReadGroup(g) /\ ~LeaveGroup(g)
      BY <1>2 DEF SkipGroup, FailGroup, ReadGroup, LeaveGroup, indexVars
    <2>2. ~BuildGroup(g) /\ ~Recheck(g)
      BY <1>2 DEF BuildGroup, Recheck, indexVars
    <2> QED BY <1>7, <2>1, <2>2 DEF Step, CommitGroup
  <1> QED BY <1>3, <1>4, <1>5, <1>6, <1>7 DEF Next, Pass

\* What a commit writes comes from a disk there was.
LEMMA WritesAreRead ==
  ASSUME ScanAssumption, ScanInv, pc = "commit", NEW g \in Groups, Current(g), WriteGroup(g)
  PROVE  /\ pass.in \in AnInput
         /\ \A p \in Paths : rows'[p] = Written(pass.in, p)
         /\ \A p \in Sources(pass.in) : GroupOf[p] = g
         /\ \E d \in seen : Inputs(d, Members(d, g)) = pass.in
                            /\ Members(d, g) = Sources(pass.in)
  <1>1. pass.in \in AnInput /\ Sources(pass.in) = pass.stock[g]
    BY DEF ScanInv, PassHolds, Taken, InputHolds
  <1>2. \A p \in Paths : rows'[p] = Written(pass.in, p)
    BY <1>1, WritingTyped DEF ScanInv
  <1>3. \A p \in Sources(pass.in) : GroupOf[p] = g
    BY <1>1 DEF ScanInv, PassHolds, Taken, GroupsHold
  <1>4. PICK d \in seen : Inputs(d, Members(d, g)) = pass.in
    BY DEF ScanInv, PassHolds, Taken, InputHolds
  <1> QED BY <1>1, <1>2, <1>3, <1>4, InputParts

\* What is cleaned up was not there when the pass took stock.
LEMMA CleaningIsSeen ==
  ASSUME ScanAssumption, ScanInv, Reconcile, NEW p \in Paths, p \notin pass.expected
  PROVE  \E d \in seen :
           /\ Explains(d, p, None)
           /\ rows[p] # None =>
                pass.allowEmpty \/ (d.mounted /\ d.strm[p] = "absent" /\ p \notin Present(d))
  <1>1. /\ GroupsHold /\ CommittedHold /\ StockHolds /\ NewRowsExpected
        /\ pc = "cleanup" /\ pass \in PassType /\ seen \subseteq Disk
    BY DEF ScanInv, PassHolds, Taken, Reconcile, Typed
  <1>2. GroupOf[p] \in Groups
    BY GroupsAreNumbers
  <1>3. CASE p \in pass.stock[GroupOf[p]]
    <2>1. GroupOf[p] \in pass.committed
      BY <1>1, <1>2, <1>3 DEF GroupsHold, StockHolds
    <2>2. PICK d \in seen : Tells(d, GroupOf[p])
      BY <1>1, <2>1 DEF CommittedHold
    <2>3. rows[p] = None /\ Explains(d, p, None)
      BY <1>3, <2>2 DEF Tells
    <2> QED BY <2>3
  <1>4. CASE p \notin pass.stock[GroupOf[p]]
    <2>1. PICK d \in seen : \A g \in Groups : Members(d, g) = pass.stock[g]
      BY <1>1 DEF StockHolds
    <2>2. p \notin Members(d, GroupOf[p])
      BY <1>2, <1>4, <2>1
    <2>3. p \notin Present(d)
      BY <2>2 DEF Members
    <2>4. Explains(d, p, None)
      <3>1. DOMAIN Inputs(d, Members(d, GroupOf[p])).nfo \subseteq Members(d, GroupOf[p])
        BY InputParts, RecordsAreFiles
      <3> QED BY <2>2, <3>1 DEF Explains, Playable
    <2>5. ASSUME rows[p] # None, ~pass.allowEmpty PROVE d.mounted /\ d.strm[p] = "absent"
      <3>1. pass.previous
        BY <1>1, <2>5 DEF NewRowsExpected
      <3>2. PICK g \in Groups : Members(d, g) # {}
        BY <1>1, <2>1, <2>5, <3>1 DEF StockHolds
      <3>3. d.mounted
        BY <3>2 DEF Members, Present
      <3> QED BY <2>3, <3>3 DEF Present
    <2> QED BY <2>3, <2>4, <2>5
  <1> QED BY <1>3, <1>4

LEMMA CleaningRows ==
  ASSUME Reconcile
  PROVE  \A p \in Paths : rows'[p] = IF p \in pass.expected THEN rows[p] ELSE None
  BY DEF Reconcile, CleanUp

\* A pass that cleaned up, whoever wrote meanwhile and whatever it reused, leaves
\* an index that the disk explains.
THEOREM CleanPassesAreCurrent == Spec => CleanPassIsCurrent
  <1> USE ScanAssumption
  <1>1. ASSUME ScanInv, [Next]_vars PROVE [LeavesCurrent]_vars
    <2> SUFFICES ASSUME Reconcile, NEW p \in Paths
                 PROVE  \E d \in seen : Explains(d, p, rows'[p])
      BY DEF LeavesCurrent
    <2>1. CASE p \in pass.expected
      <3>1. rows'[p] = rows[p] /\ rows[p] # None
        BY <2>1, CleaningRows DEF Reconcile
      <3>2. GroupOf[p] \in pass.committed /\ p \in pass.stock[GroupOf[p]] /\ CommittedHold
        BY <1>1, <2>1 DEF ScanInv, PassHolds, Taken, GroupsHold, Committed, Reconcile
      <3>3. PICK d \in seen : Tells(d, GroupOf[p])
        BY <3>2 DEF CommittedHold
      <3> QED BY <2>1, <3>1, <3>2, <3>3 DEF Tells
    <2>2. CASE p \notin pass.expected
      BY <1>1, <2>2, CleaningRows, CleaningIsSeen
    <2> QED BY <2>1, <2>2
  <1> QED BY <1>1, ScanInductive, PTL DEF Spec, CleanPassIsCurrent

\* No row goes in a pass unless its file was seen to be gone, not playable or a
\* part, on a volume that was there, or the administrator had agreed.
THEOREM PassRemovalsAreSeen == Spec => RemovalsAreSeen
  <1> USE ScanAssumption
  <1>1. ASSUME ScanInv, Next, PassWrites, NEW p \in Paths, rows[p] # None, rows'[p] = None
        PROVE  SeenToGo(p)
    <2>1. ASSUME NEW g \in Groups, pc = "commit", Current(g), WriteGroup(g) PROVE SeenToGo(p)
      <3>1. PICK d \in seen : Inputs(d, Members(d, g)) = pass.in /\ Members(d, g) = Sources(pass.in)
        BY <1>1, <2>1, WritesAreRead
      <3>2. /\ rows'[p] = Written(pass.in, p) /\ pass.in \in AnInput
            /\ \A q \in Sources(pass.in) : GroupOf[q] = g
        BY <1>1, <2>1, WritesAreRead
      <3>3. p \in Sources(pass.in) /\ p \notin Playable(pass.in)
        <4>1. p \in Playable(pass.in) => p \in Sources(pass.in)
          BY <3>2, KnownInput
        <4>2. p \in Playable(pass.in) => rows'[p] # None
          BY <1>1, <3>2, <4>1, WrittenFits DEF ScanInv
        <4> QED BY <1>1, <3>2, <4>2 DEF Written
      <3>4. d.mounted /\ d.strm[p] # "large"
        <4>1. p \in Members(d, g) /\ pass.in.src[p] = d.strm[p]
          BY <3>1, <3>3, InputParts
        <4>2. pass.in.src[p] \in Urls \cup {"other"}
          BY <3>2, <3>3, KnownInput
        <4> QED BY <4>1, <4>2 DEF Members, Present, ScanAssumption
      <3>5. GroupOf[p] = g
        BY <3>2, <3>3
      <3> QED BY <3>1, <3>3, <3>4, <3>5 DEF SeenToGo
    <2>2. CASE Reconcile
      <3>1. p \notin pass.expected
        BY <1>1, <2>2, CleaningRows
      <3>2. PICK d \in seen :
              /\ Explains(d, p, None)
              /\ pass.allowEmpty \/ (d.mounted /\ d.strm[p] = "absent")
        BY <1>1, <2>2, <3>1, CleaningIsSeen
      <3> QED BY <3>2 DEF SeenToGo, Explains
    <2> QED BY <1>1, <2>1, <2>2, PassWritesTwice
  <1>2. ScanInv /\ [Next]_vars =>
          [PassWrites => \A p \in Paths : rows[p] # None /\ rows'[p] = None => SeenToGo(p)]_vars
    BY <1>1
  <1> QED BY <1>2, ScanInductive, PTL DEF Spec, RemovalsAreSeen

\* What an operator has entered survives every pass.
THEOREM ManualRowsSurvive == Spec => ManualSurvives
  <1> USE ScanAssumption
  <1>1. ASSUME ScanInv, Next, PassWrites, NEW p \in Paths, IsManual(p), rows'[p] # rows[p]
        PROVE  StaysManual(p)
    <2>1. ASSUME NEW g \in Groups, pc = "commit", Current(g), WriteGroup(g) PROVE StaysManual(p)
      <3>1. PICK d \in seen : Inputs(d, Members(d, g)) = pass.in /\ Members(d, g) = Sources(pass.in)
        BY <1>1, <2>1, WritesAreRead
      <3>2. rows'[p] = Written(pass.in, p) /\ pass.in \in AnInput
        BY <1>1, <2>1, WritesAreRead
      <3>3. p \in Playable(pass.in)
        BY <1>1, <3>2 DEF Written
      <3>4. /\ pass.in.nfo[p] \in Metas \cup {"missing", "bad"} /\ pass.in.src[p] \in Urls
            /\ p \in DOMAIN pass.in.nfo /\ Sources(pass.in) \subseteq Paths
        BY <3>2, <3>3, KnownInput DEF Playable
      <3>5. rows'[p] = Indexed(pass.in, p, p \in pass.manual) /\ rows[p] # None
        BY <1>1, <3>2, <3>3, Zenon DEF Written, IsManual
      <3>6. /\ Indexed(pass.in, p, p \in pass.manual) # None
            /\ Indexed(pass.in, p, p \in pass.manual).status = "manual"
            /\ pass.in.nfo[p] \in Metas =>
                 Indexed(pass.in, p, p \in pass.manual).meta = pass.in.nfo[p]
            /\ pass.in.nfo[p] \notin Metas =>
                 Indexed(pass.in, p, p \in pass.manual).meta = rows[p].meta
        BY <1>1, <3>4, <3>5, IndexedRow DEF ScanInv, Typed
      <3>7. pass.in.nfo[p] = d.nfo[p]
        BY <3>1, <3>4, InputParts
      <3> QED BY <3>5, <3>6, <3>7 DEF StaysManual
    <2>2. CASE Reconcile
      <3>1. p \notin pass.expected /\ rows'[p] = None /\ rows[p] # None
        BY <1>1, <2>2, CleaningRows DEF IsManual
      <3>2. PICK d \in seen : pass.allowEmpty \/ p \notin Present(d)
        BY <1>1, <2>2, <3>1, CleaningIsSeen
      <3> QED BY <3>1, <3>2 DEF StaysManual
    <2> QED BY <1>1, <2>1, <2>2, PassWritesTwice
  <1>2. ScanInv /\ [Next]_vars =>
          [PassWrites => \A p \in Paths : IsManual(p) /\ rows'[p] # rows[p] => StaysManual(p)]_vars
    BY <1>1
  <1> QED BY <1>2, ScanInductive, PTL DEF Spec, ManualSurvives

=============================================================================
