--------------------------- MODULE ProgressProofs ---------------------------
(***************************************************************************)
(* The runs and the requests that others wait for, for any number of them. *)
(* Each part has the invariant that carries its property, a lemma for each *)
(* of its steps, and the property at its end.                              *)
(***************************************************************************)
EXTENDS ProbeRun, Thumbs, ScrapeRun, MCProgress, FiniteSetTheorems, SequenceTheorems, WellFoundedInduction, TLAPS
-----------------------------------------------------------------------------
(***************************************************************************)
(* What a run of the probe leaves behind is right for any number of files, *)
(* workers and links, wherever the run is broken off.  The argument: a     *)
(* file is in the hands of one worker from when it is handed out until it  *)
(* is counted, so what the worker has found or written for it stays.       *)
(***************************************************************************)

Places == {"judge", "backfill", "run", "save", "settle", "count"}
Codes  == {"none", "READ_SOURCE_FAILED", "CACHE_CURRENT", "NFO_CURRENT", "BACKFILLED_LOCAL",
           "FFPROBE_FAILED", "NFO_WRITE_FAILED", "PROBED"}
Links  == ProbeLinks \cup {Nothing}
Gone   == [at |-> "gone"]
InWork == [at : Places, file : Planned, link : Links, code : Codes]

ProbeTyped ==
  /\ nextFile \in Nat \ {0} /\ strm \in [Planned -> ProbeLinks]
  /\ mark \in [Planned -> ProbeLinks \cup {Unnamed, Nothing}] /\ raw \in [Planned -> RawFiles]
  /\ prober \in [Probers -> InWork \cup {NoFile, Gone}]
  /\ outcomeOf \in [Planned -> [code : Codes, link : Links]]
  /\ IsFiniteSet(touched)

\* What there is of a file that has, or is about to have, the outcome.
HasProbed(code, f, u) ==
  /\ Succeeded(code) => LibraryOf[f] \in touched /\ (f \in PrimaryFiles => mark[f] = u)
  /\ code = "BACKFILLED_LOCAL" => HasRaw(f, u)
  /\ code = "NFO_CURRENT" => mark[f] \in {u, Unnamed}
  /\ code = "CACHE_CURRENT" => RawCurrent(f, u) \/ raw[f] = NoRaw

ReadyAt(at, code, f, u) ==
  /\ at \in {"judge", "run", "save"} => code = "none"
  /\ at \in {"backfill", "run", "save"} => u \in ProbeLinks
  /\ at = "backfill" => /\ HasRaw(f, u) /\ code \in {"none", "CACHE_CURRENT"}
                        /\ code = "CACHE_CURRENT" => RawCurrent(f, u)
  /\ at \in {"settle", "count"} => code # "none" /\ HasProbed(code, f, u)

Working(w) == prober[w] \in InWork

InHand ==
  \A w \in Probers : Working(w) =>
    /\ prober[w].file < nextFile /\ outcomeOf[prober[w].file] = Uncounted
    /\ ReadyAt(prober[w].at, prober[w].code, prober[w].file, prober[w].link)

Alone ==
  \A v, w \in Probers : Working(v) /\ Working(w) /\ v # w => prober[v].file # prober[w].file

CountedHas ==
  \A f \in Planned :
    /\ outcomeOf[f] # Uncounted => f < nextFile
    /\ HasProbed(outcomeOf[f].code, f, outcomeOf[f].link)

AtEnd ==
  probing = "ended" =>
    /\ \A w \in Probers : prober[w].at = "gone"
    /\ ending.refreshFailed = 0 => touched \subseteq bumped

Sending == probing = "send" => nextFile \in Planned

\* The counters are those of the files that have an outcome.
TallyRows == [done : Nat, success : Nat, skipped : Nat, failed : Nat, streak : Nat]
WithOutcome == {f \in Planned : outcomeOf[f] # Uncounted}

AddsUp(t) == t.done = t.success + t.skipped + t.failed /\ t.streak <= t.done

Tallied == tally \in TallyRows /\ AddsUp(tally) /\ tally.done = Cardinality(WithOutcome)

\* What else has a type, and what is raised at the end only.
RestTyped ==
  /\ probing \in {"idle", "dispatch", "send", "closed", "ended"} /\ onlyMissing \in BOOLEAN
  /\ nextFile <= LastFile + 1 /\ brokenBy \in {"none", "operator", "breaker"}
  /\ relinked \subseteq Relinked
  /\ bumped \subseteq touched /\ (probing # "ended" => bumped = {})

ProbeInv == ProbeTyped /\ InHand /\ Alone /\ CountedHas /\ AtEnd /\ Sending

-----------------------------------------------------------------------------

\* A worker that is somewhere has a file.
LEMMA AtWork ==
  ASSUME ProbeTyped, NEW w \in Probers, prober[w].at \in Places
  PROVE  prober[w] \in InWork /\ Working(w)
  BY DEF ProbeTyped, Places, NoFile, Gone, Working

LEMMA NoWork == NoFile \notin InWork /\ Gone \notin InWork /\ NoFile.at = "waiting" /\ Gone.at = "gone"
  BY DEF NoFile, Gone, InWork, Places

\* What one worker has of its file is not touched by what is done for another.
LEMMA ReadyStays ==
  ASSUME NEW f \in Planned, NEW at, NEW code, NEW u,
         mark'[f] = mark[f], raw'[f] = raw[f], touched \subseteq touched'
  PROVE  /\ HasProbed(code, f, u) => HasProbed(code, f, u)'
         /\ ReadyAt(at, code, f, u) => ReadyAt(at, code, f, u)'
  BY DEF HasProbed, ReadyAt, HasRaw, RawCurrent

LEMMA ProbeStart == ProbeInit => ProbeInv
<1> SUFFICES ASSUME ProbeInit PROVE ProbeInv
  OBVIOUS
<1>1. ProbeTyped
  <2>1. prober \in [Probers -> InWork \cup {NoFile, Gone}]
    BY DEF ProbeInit
  <2>2. outcomeOf \in [Planned -> [code : Codes, link : Links]]
    <3>1. Uncounted \in [code : Codes, link : Links]
      BY DEF Uncounted, Links, Codes
    <3> QED BY <3>1 DEF ProbeInit
  <2>3. /\ nextFile \in Nat \ {0} /\ strm \in [Planned -> ProbeLinks]
        /\ mark \in [Planned -> ProbeLinks \cup {Unnamed, Nothing}] /\ raw \in [Planned -> RawFiles]
    BY DEF ProbeInit
  <2> QED BY <2>1, <2>2, <2>3, FS_EmptySet DEF ProbeInit, ProbeTyped
<1>2. \A w \in Probers : ~Working(w)
  BY NoWork DEF ProbeInit, Working
<1>3. CountedHas
  BY DEF ProbeInit, CountedHas, HasProbed, Uncounted, Succeeded
<1> QED
  BY <1>1, <1>2, <1>3 DEF ProbeInv, InHand, Alone, AtEnd, Sending, ProbeInit

\* A worker goes on with its file: its own part has to be shown, the rest follows.
LEMMA GoingOn ==
  ASSUME ProbeInv, ProbeTyped', NEW w \in Probers, Working(w), NEW new \in InWork,
         new.file = prober[w].file, prober' = [prober EXCEPT ![w] = new],
         \A f \in Planned \ {prober[w].file} : mark'[f] = mark[f] /\ raw'[f] = raw[f],
         touched \subseteq touched', UNCHANGED <<probing, nextFile, outcomeOf>>,
         ReadyAt(new.at, new.code, new.file, new.link)'
  PROVE  ProbeInv'
<1> DEFINE f == prober[w].file
<1>1. prober'[w] = new /\ \A v \in Probers \ {w} : prober'[v] = prober[v]
  BY DEF ProbeInv, ProbeTyped
<1>2. f \in Planned /\ f < nextFile /\ outcomeOf[f] = Uncounted
  BY DEF ProbeInv, InHand, Working, InWork
<1>3. InHand'
  <2> SUFFICES ASSUME NEW v \in Probers, Working(v)'
               PROVE  /\ prober'[v].file < nextFile' /\ outcomeOf'[prober'[v].file] = Uncounted
                      /\ ReadyAt(prober[v].at, prober[v].code, prober[v].file, prober[v].link)'
    BY DEF InHand, Uncounted
  <2>1. CASE v = w
    BY <2>1, <1>1, <1>2
  <2>2. CASE v # w
    <3>1. Working(v) /\ prober'[v] = prober[v]
      BY <1>1, <2>2 DEF Working, InWork
    <3>2. prober[v].file \in Planned \ {f}
      BY <3>1, <2>2 DEF ProbeInv, Alone, Working, InWork
    <3>3. ReadyAt(prober[v].at, prober[v].code, prober[v].file, prober[v].link)
      BY <3>1 DEF ProbeInv, InHand
    <3>4. ReadyAt(prober[v].at, prober[v].code, prober[v].file, prober[v].link)'
      BY <3>1, <3>2, <3>3, ReadyStays
    <3> QED BY <3>1, <3>4 DEF ProbeInv, InHand
  <2> QED BY <2>1, <2>2
<1>4. Alone'
  BY <1>1 DEF ProbeInv, Alone, Working, InWork
<1>5. CountedHas'
  <2> SUFFICES ASSUME NEW g \in Planned
               PROVE  /\ outcomeOf[g] # Uncounted => g < nextFile
                      /\ HasProbed(outcomeOf[g].code, g, outcomeOf[g].link)'
    BY DEF CountedHas, Uncounted
  <2>1. CASE g = f
    BY <2>1, <1>2 DEF HasProbed, Uncounted, Succeeded
  <2>2. CASE g # f
    BY <2>2, ReadyStays DEF ProbeInv, CountedHas
  <2> QED BY <2>1, <2>2 DEF ProbeInv, CountedHas
<1>6. AtEnd'
  BY NoWork DEF ProbeInv, AtEnd, Working, InWork, Places
<1> QED
  BY <1>3, <1>4, <1>5, <1>6 DEF ProbeInv, Sending

\* What each worker's step does to the types is seen without the rest.
LEMMA FileAtHand ==
  ASSUME ProbeInv, NEW w \in Probers, prober[w].at \in Places
  PROVE  /\ Working(w) /\ prober[w] \in InWork
         /\ prober[w].file \in Planned /\ prober[w].link \in Links
         /\ ReadyAt(prober[w].at, prober[w].code, prober[w].file, prober[w].link)
  BY AtWork DEF ProbeInv, InHand, Working, InWork

\* A worker that changes its place has the same file.
LEMMA SamePlace ==
  ASSUME NEW r \in InWork, NEW spot \in Places
  PROVE  LET new == [r EXCEPT !.at = spot]
         IN /\ new \in InWork /\ new.at = spot /\ new.code = r.code
            /\ new.file = r.file /\ new.link = r.link
  BY DEF InWork

LEMMA JudgeKeeps == ASSUME ProbeInv, NEW w \in Probers, JudgeFile(w) PROVE ProbeInv'
<1>1. PICK f \in Planned : f = prober[w].file
  BY FileAtHand DEF JudgeFile, Places
<1>2. PICK u \in ProbeLinks : u = strm[f]
  BY DEF ProbeInv, ProbeTyped
<1> DEFINE here(spot, code) == [at |-> spot, file |-> f, link |-> u, code |-> code]
<1>3. PICK spot \in Places, code \in Codes :
         prober' = [prober EXCEPT ![w] = here(spot, code)] /\ ReadyAt(spot, code, f, u)
  <2> USE <1>1, <1>2 DEF JudgeFile, ProberAt, Places, Codes
  <2>1. CASE prober' = [prober EXCEPT ![w] = here("settle", "READ_SOURCE_FAILED")]
    BY <2>1 DEF ReadyAt, HasProbed, Succeeded
  <2>2. CASE /\ RawCurrent(f, u)
             /\ prober' = [prober EXCEPT ![w] = here(IF f \in PrimaryFiles THEN "backfill" ELSE "settle", "CACHE_CURRENT")]
    <3>1. ReadyAt("backfill", "CACHE_CURRENT", f, u) /\ ReadyAt("settle", "CACHE_CURRENT", f, u)
      BY <2>2 DEF ReadyAt, HasProbed, Succeeded, RawCurrent
    <3> QED BY <2>2, <3>1
  <2>3. CASE /\ MarkCurrent(f, u)
             /\ prober' = [prober EXCEPT ![w] = here("settle", IF RawCurrent(f, u) THEN "CACHE_CURRENT" ELSE "NFO_CURRENT")]
    <3>1. /\ RawCurrent(f, u) => ReadyAt("settle", "CACHE_CURRENT", f, u)
          /\ ReadyAt("settle", "NFO_CURRENT", f, u)
      BY <2>3 DEF ReadyAt, HasProbed, Succeeded, MarkCurrent
    <3> QED BY <2>3, <3>1
  <2>4. CASE HasRaw(f, u) /\ prober' = [prober EXCEPT ![w] = here("backfill", "none")]
    BY <2>4 DEF ReadyAt
  <2>5. CASE prober' = [prober EXCEPT ![w] = here("run", "none")]
    BY <2>5 DEF ReadyAt
  <2> QED BY <2>1, <2>2, <2>3, <2>4, <2>5
<1>4. here(spot, code) \in InWork
  BY DEF InWork, Links
<1>5. UNCHANGED <<nextFile, strm, mark, raw, outcomeOf, touched, probing>>
  BY DEF JudgeFile, AtHome, files, kept
<1>6. ProbeTyped'
  BY <1>3, <1>4, <1>5 DEF ProbeInv, ProbeTyped
<1>7. ReadyAt(spot, code, f, u)'
  BY <1>3, <1>5, ReadyStays
<1>8. PICK new \in InWork : /\ new = here(spot, code)
                            /\ new.file = f /\ new.at = spot /\ new.code = code /\ new.link = u
  BY <1>4
<1>9. ReadyAt(new.at, new.code, new.file, new.link)'
  BY <1>7, <1>8
<1>10. Working(w) /\ prober' = [prober EXCEPT ![w] = new] /\ new.file = prober[w].file
  BY <1>1, <1>3, <1>8, FileAtHand DEF JudgeFile, Places
<1>11. /\ \A g \in Planned \ {prober[w].file} : mark'[g] = mark[g] /\ raw'[g] = raw[g]
       /\ touched \subseteq touched' /\ UNCHANGED <<probing, nextFile, outcomeOf>>
  BY <1>5
<1> QED
  BY <1>6, <1>9, <1>10, <1>11, GoingOn
\* The same for a worker that keeps its file and link and goes to another place.
LEMMA GoingTo ==
  ASSUME ProbeInv, NEW w \in Probers, prober[w].at \in Places, NEW spot \in Places, NEW code \in Codes,
         \/ Goes(w, spot) /\ code = prober[w].code
         \/ Ends(w, code) /\ spot = "settle",
         mark' \in [Planned -> ProbeLinks \cup {Unnamed, Nothing}], raw' \in [Planned -> RawFiles],
         \A g \in Planned \ {prober[w].file} : mark'[g] = mark[g] /\ raw'[g] = raw[g],
         touched \subseteq touched', IsFiniteSet(touched'),
         UNCHANGED <<probing, nextFile, outcomeOf, strm>>,
         NEW f, f = prober[w].file, NEW u, u = prober[w].link, ReadyAt(spot, code, f, u)'
  PROVE  ProbeInv'
<1>1. prober[w] \in InWork /\ Working(w)
  BY FileAtHand
<1>2. PICK new \in InWork : /\ prober' = [prober EXCEPT ![w] = new] /\ new.at = spot
                            /\ new.code = code /\ new.file = f /\ new.link = u
  <2>1. CASE Goes(w, spot) /\ code = prober[w].code
    <3>1. PICK r \in InWork : r = prober[w]
      BY <1>1
    <3>2. PICK new : new = [r EXCEPT !.at = spot]
      OBVIOUS
    <3>3. new \in InWork /\ new.at = spot /\ new.code = r.code /\ new.file = r.file /\ new.link = r.link
      BY <3>2, SamePlace
    <3>4. prober' = [prober EXCEPT ![w] = new]
      BY <2>1, <3>1, <3>2 DEF Goes, ProberAt
    <3> QED BY <2>1, <3>1, <3>3, <3>4
  <2>2. CASE Ends(w, code) /\ spot = "settle"
    <3>1. PICK r \in InWork : r = prober[w]
      BY <1>1
    <3>2. PICK new : new = [r EXCEPT !.at = "settle", !.code = code]
      OBVIOUS
    <3>3. new \in InWork /\ new.at = "settle" /\ new.code = code /\ new.file = r.file /\ new.link = r.link
      BY <3>2 DEF InWork, Places
    <3>4. prober' = [prober EXCEPT ![w] = new]
      BY <2>2, <3>1, <3>2 DEF Ends, ProberAt
    <3> QED BY <2>2, <3>1, <3>3, <3>4
  <2> QED BY <2>1, <2>2
<1>3. ProbeTyped'
  BY <1>2 DEF ProbeInv, ProbeTyped
<1>4. ReadyAt(new.at, new.code, new.file, new.link)'
  BY <1>2
<1>5. new.file = prober[w].file
  BY <1>2
<1> QED
  BY <1>1, <1>2, <1>3, <1>4, <1>5, GoingOn

LEMMA BackfillKeeps == ASSUME ProbeInv, NEW w \in Probers, Backfill(w) PROVE ProbeInv'
<1>1. prober[w].at = "backfill" /\ prober[w].at \in Places
  BY DEF Backfill, Places
<1>2. PICK f \in Planned, u \in Links, code \in Codes :
         f = prober[w].file /\ u = prober[w].link /\ code = prober[w].code
  BY <1>1, FileAtHand DEF InWork
<1>3. /\ HasRaw(f, u) /\ code \in {"none", "CACHE_CURRENT"}
      /\ code = "CACHE_CURRENT" => RawCurrent(f, u)
      /\ u \in ProbeLinks
  BY <1>1, <1>2, FileAtHand DEF ReadyAt
<1>4. UNCHANGED <<probing, nextFile, outcomeOf, strm>>
  BY DEF Backfill, AtHome, files
<1>5. /\ mark \in [Planned -> ProbeLinks \cup {Unnamed, Nothing}] /\ raw \in [Planned -> RawFiles]
      /\ IsFiniteSet(touched)
  BY DEF ProbeInv, ProbeTyped
<1>6. ASSUME InsteadOfBackfill(w), UNCHANGED <<mark, touched>>, raw' \in {raw, [raw EXCEPT ![f] = NoRaw]}
      PROVE  ProbeInv'
  <2>1. raw' \in [Planned -> RawFiles] /\ \A g \in Planned \ {f} : mark'[g] = mark[g] /\ raw'[g] = raw[g]
    BY <1>5, <1>6 DEF RawFiles
  <2>2. raw'[f] = raw[f] \/ raw'[f] = NoRaw
    BY <1>5, <1>6
  <2>3. CASE code = "none"
    <3>1. Goes(w, "run") /\ ReadyAt("run", code, f, u)'
      BY <1>2, <1>3, <1>6, <2>3 DEF InsteadOfBackfill, ReadyAt
    <3> QED BY <1>1, <1>2, <1>4, <1>5, <1>6, <2>1, <3>1, GoingTo DEF Places
  <2>4. CASE code = "CACHE_CURRENT"
    <3>1. RawCurrent(f, u)' \/ raw'[f] = NoRaw
      BY <1>3, <2>2, <2>4 DEF RawCurrent, HasRaw
    <3>2. Goes(w, "settle") /\ ReadyAt("settle", code, f, u)'
      BY <1>2, <1>6, <2>4, <3>1 DEF InsteadOfBackfill, ReadyAt, HasProbed, Succeeded
    <3> QED BY <1>1, <1>2, <1>4, <1>5, <1>6, <2>1, <3>2, GoingTo DEF Places
  <2> QED BY <1>3, <2>3, <2>4
<1>7. ASSUME Ends(w, "BACKFILLED_LOCAL"), touched' = touched \cup {LibraryOf[f]},
             mark' = IF f \in PrimaryFiles THEN [mark EXCEPT ![f] = raw[f].link] ELSE mark,
             raw' \in {raw, [raw EXCEPT ![f].current = TRUE]}, raw[f].readable
      PROVE  ProbeInv'
  <2>1. raw[f].link = u /\ raw[f] \in [link : ProbeLinks, current : BOOLEAN, readable : BOOLEAN]
    BY <1>2, <1>3, <1>5, <1>7 DEF HasRaw, RawFiles, NoRaw
  <2>2. PICK n \in RawFiles : n.link = u /\ n = [raw[f] EXCEPT !.current = TRUE]
    BY <2>1 DEF RawFiles
  <2>3. raw' \in {raw, [raw EXCEPT ![f] = n]}
    BY <1>5, <1>7, <2>2
  <2>4. raw' \in [Planned -> RawFiles] /\ raw'[f].link = u
    BY <1>5, <2>1, <2>2, <2>3
  <2>5. mark' \in [Planned -> ProbeLinks \cup {Unnamed, Nothing}] /\ (f \in PrimaryFiles => mark'[f] = u)
    BY <1>5, <1>7, <2>1
  <2>6. \A g \in Planned \ {f} : mark'[g] = mark[g] /\ raw'[g] = raw[g]
    BY <1>5, <1>7, <2>3
  <2>7. touched \subseteq touched' /\ IsFiniteSet(touched') /\ LibraryOf[f] \in touched'
    BY <1>5, <1>7, FS_AddElement
  <2>8. ReadyAt("settle", "BACKFILLED_LOCAL", f, u)'
    BY <2>4, <2>5, <2>7 DEF ReadyAt, HasProbed, HasRaw
  <2> QED
    BY <1>1, <1>2, <1>4, <1>7, <2>4, <2>5, <2>6, <2>7, <2>8, GoingTo DEF Places, Codes
<1> QED
  BY <1>2, <1>6, <1>7 DEF Backfill

LEMMA RunKeeps == ASSUME ProbeInv, NEW w \in Probers, RunFFProbe(w) PROVE ProbeInv'
<1>1. prober[w].at = "run" /\ prober[w].at \in Places
  BY DEF RunFFProbe, Places
<1>2. PICK f \in Planned, u \in Links :
         f = prober[w].file /\ u = prober[w].link /\ prober[w].code = "none" /\ u \in ProbeLinks
  BY <1>1, FileAtHand DEF ReadyAt
<1>3. UNCHANGED <<probing, nextFile, outcomeOf, strm, touched, mark, raw>>
  BY DEF RunFFProbe, AtHome, files, kept
<1>4. /\ mark' \in [Planned -> ProbeLinks \cup {Unnamed, Nothing}] /\ raw' \in [Planned -> RawFiles]
      /\ touched \subseteq touched' /\ IsFiniteSet(touched')
      /\ \A g \in Planned \ {f} : mark'[g] = mark[g] /\ raw'[g] = raw[g]
  BY <1>3 DEF ProbeInv, ProbeTyped
<1>5. CASE Ends(w, "FFPROBE_FAILED")
  <2>1. ReadyAt("settle", "FFPROBE_FAILED", f, u)'
    BY DEF ReadyAt, HasProbed, Succeeded
  <2> QED BY <1>1, <1>2, <1>3, <1>4, <1>5, <2>1, GoingTo DEF Places, Codes
<1>6. CASE Goes(w, "save")
  <2>1. ReadyAt("save", "none", f, u)'
    BY <1>2 DEF ReadyAt
  <2> QED BY <1>1, <1>2, <1>3, <1>4, <1>6, <2>1, GoingTo DEF Places, Codes
<1> QED
  BY <1>5, <1>6 DEF RunFFProbe

LEMMA SaveKeeps == ASSUME ProbeInv, NEW w \in Probers, SaveDetails(w) PROVE ProbeInv'
<1>1. prober[w].at = "save" /\ prober[w].at \in Places
  BY DEF SaveDetails, Places
<1>2. PICK f \in Planned, u \in ProbeLinks : f = prober[w].file /\ u = prober[w].link
  BY <1>1, FileAtHand DEF ReadyAt
<1>3. UNCHANGED <<probing, nextFile, outcomeOf, strm>>
  BY DEF SaveDetails, AtHome, files
<1>4. /\ mark \in [Planned -> ProbeLinks \cup {Unnamed, Nothing}] /\ raw \in [Planned -> RawFiles]
      /\ IsFiniteSet(touched)
  BY DEF ProbeInv, ProbeTyped
<1>5. CASE Ends(w, "NFO_WRITE_FAILED") /\ UNCHANGED <<mark, raw, touched>>
  <2>1. ReadyAt("settle", "NFO_WRITE_FAILED", f, u)'
    BY DEF ReadyAt, HasProbed, Succeeded
  <2> QED BY <1>1, <1>2, <1>3, <1>4, <1>5, <2>1, GoingTo DEF Places, Codes
<1>6. CASE /\ mark' = IF f \in PrimaryFiles THEN [mark EXCEPT ![f] = u] ELSE mark
           /\ raw' \in {raw, [raw EXCEPT ![f] = NewRaw(u)]}
           /\ touched' = touched \cup {LibraryOf[f]} /\ Ends(w, "PROBED")
  <2>1. /\ mark' \in [Planned -> ProbeLinks \cup {Unnamed, Nothing}]
        /\ \A g \in Planned \ {f} : mark'[g] = mark[g] /\ raw'[g] = raw[g]
        /\ f \in PrimaryFiles => mark'[f] = u
    BY <1>4, <1>6 DEF Links
  <2>2. raw' \in [Planned -> RawFiles]
    <3>1. NewRaw(u) \in RawFiles
      BY DEF RawFiles, NewRaw
    <3> QED BY <1>4, <1>6, <3>1
  <2>3. touched \subseteq touched' /\ IsFiniteSet(touched') /\ LibraryOf[f] \in touched'
    BY <1>4, <1>6, FS_AddElement
  <2>4. ReadyAt("settle", "PROBED", f, u)'
    BY <2>1, <2>3 DEF ReadyAt, HasProbed
  <2> QED BY <1>1, <1>2, <1>3, <1>6, <2>1, <2>2, <2>3, <2>4, GoingTo, ZenonT(60) DEF Places, Codes
<1> QED
  BY <1>2, <1>5, <1>6 DEF SaveDetails, kept

\* A worker that has no file any more: counted, dropped, or there is none left.
LEMMA LettingGo ==
  ASSUME ProbeInv, NEW w \in Probers, NEW r \in {NoFile, Gone}, prober' = [prober EXCEPT ![w] = r],
         UNCHANGED <<mark, raw, touched, strm>>, probing' # "ended", nextFile' \in {nextFile, nextFile + 1},
         probing' # "send" \/ UNCHANGED <<probing, nextFile>>,
         \/ UNCHANGED outcomeOf
         \/ /\ prober[w].at = "count"
            /\ outcomeOf' = [outcomeOf EXCEPT ![prober[w].file] = [code |-> prober[w].code, link |-> prober[w].link]]
  PROVE  ProbeInv'
<1>1. prober'[w] = r /\ ~Working(w)' /\ \A v \in Probers \ {w} : prober'[v] = prober[v]
  BY NoWork DEF ProbeInv, ProbeTyped, Working, InWork, Places
<1>2. nextFile' \in Nat \ {0} /\ \A f \in Planned : f < nextFile => f < nextFile'
  BY ProbeAssumption DEF ProbeInv, ProbeTyped, Planned
<1>3. /\ outcomeOf' \in [Planned -> [code : Codes, link : Links]]
      /\ \A f \in Planned :
           \/ outcomeOf'[f] = outcomeOf[f]
           \/ /\ prober[w].at = "count" /\ f = prober[w].file
              /\ outcomeOf'[f] = [code |-> prober[w].code, link |-> prober[w].link]
  <2>1. CASE UNCHANGED outcomeOf
    BY <2>1 DEF ProbeInv, ProbeTyped
  <2>2. CASE /\ prober[w].at = "count"
             /\ outcomeOf' = [outcomeOf EXCEPT ![prober[w].file] = [code |-> prober[w].code, link |-> prober[w].link]]
    <3>1. prober[w] \in InWork
      BY <2>2, FileAtHand DEF Places
    <3>2. [code |-> prober[w].code, link |-> prober[w].link] \in [code : Codes, link : Links]
      BY <3>1 DEF InWork
    <3> QED BY <2>2, <3>2 DEF ProbeInv, ProbeTyped
  <2> QED BY <2>1, <2>2
<1>4. ProbeTyped'
  BY <1>2, <1>3 DEF ProbeInv, ProbeTyped
<1>5. ASSUME NEW v \in Probers, Working(v)'
      PROVE  /\ v # w /\ prober'[v] = prober[v] /\ Working(v) /\ prober[v].file \in Planned
             /\ outcomeOf'[prober[v].file] = outcomeOf[prober[v].file]
  <2>1. v # w /\ prober'[v] = prober[v] /\ Working(v) /\ prober[v].file \in Planned
    BY <1>1, <1>5 DEF Working, InWork
  <2>2. CASE prober[w].at = "count"
    <3>1. Working(w)
      BY <2>2, FileAtHand DEF Places
    <3>2. prober[v].file # prober[w].file
      BY <2>1, <3>1 DEF ProbeInv, Alone
    <3> QED BY <1>3, <2>1, <3>2
  <2>3. CASE prober[w].at # "count"
    BY <1>3, <2>1, <2>3
  <2> QED BY <2>2, <2>3
<1>6. InHand'
  <2> SUFFICES ASSUME NEW v \in Probers, Working(v)'
               PROVE  /\ prober'[v].file < nextFile' /\ outcomeOf'[prober'[v].file] = Uncounted
                      /\ ReadyAt(prober[v].at, prober[v].code, prober[v].file, prober[v].link)'
    BY DEF InHand, Uncounted
  <2>1. /\ prober[v].file < nextFile /\ outcomeOf[prober[v].file] = Uncounted
        /\ ReadyAt(prober[v].at, prober[v].code, prober[v].file, prober[v].link)
    BY <1>5 DEF ProbeInv, InHand
  <2>2. ReadyAt(prober[v].at, prober[v].code, prober[v].file, prober[v].link)'
    BY <1>5, <2>1, ReadyStays
  <2> QED BY <1>2, <1>5, <2>1, <2>2
<1>7. Alone'
  BY <1>5 DEF ProbeInv, Alone
<1>8. CountedHas'
  <2> SUFFICES ASSUME NEW f \in Planned
               PROVE  /\ outcomeOf'[f] # Uncounted => f < nextFile'
                      /\ HasProbed(outcomeOf[f].code, f, outcomeOf[f].link)'
    BY DEF CountedHas, Uncounted
  <2>1. CASE outcomeOf'[f] = outcomeOf[f]
    BY <1>2, <2>1, ReadyStays DEF ProbeInv, CountedHas
  <2>2. CASE /\ prober[w].at = "count" /\ f = prober[w].file
             /\ outcomeOf'[f] = [code |-> prober[w].code, link |-> prober[w].link]
    <3>1. Working(w) /\ HasProbed(prober[w].code, f, prober[w].link)
      BY <2>2, FileAtHand DEF ReadyAt, Places
    <3>2. f < nextFile
      BY <2>2, <3>1 DEF ProbeInv, InHand
    <3>3. HasProbed(outcomeOf'[f].code, f, outcomeOf'[f].link)
      BY <2>2, <3>1
    <3> QED BY <1>2, <3>2, <3>3 DEF HasProbed, HasRaw, RawCurrent
  <2> QED BY <1>3, <2>1, <2>2
<1>9. AtEnd'
  BY DEF AtEnd
<1> QED
  BY <1>4, <1>6, <1>7, <1>8, <1>9 DEF ProbeInv, Sending

LEMMA NotEnded ==
  ASSUME ProbeInv, NEW w \in Probers, prober[w].at # "gone"
  PROVE  probing # "ended"
  BY DEF ProbeInv, AtEnd

LEMMA SettleKeeps == ASSUME ProbeInv, NEW w \in Probers, SettleFile(w) PROVE ProbeInv'
<1>1. prober[w].at = "settle" /\ prober[w].at \in Places /\ probing # "ended"
  BY NotEnded DEF SettleFile, Places
<1>2. UNCHANGED <<probing, nextFile, outcomeOf, strm, touched, mark, raw>>
  BY DEF SettleFile, AtHome, files, kept
<1>3. CASE ProberAt(w, NoFile)
  BY <1>1, <1>2, <1>3, LettingGo DEF ProberAt
<1>4. CASE Goes(w, "count")
  <2>1. PICK f \in Planned, u \in Links, code \in Codes :
         f = prober[w].file /\ u = prober[w].link /\ code = prober[w].code
    BY <1>1, FileAtHand DEF InWork
  <2>2. ReadyAt("settle", code, f, u)
    BY <1>1, <2>1, FileAtHand
  <2>3. ReadyAt("count", code, f, u)'
    BY <1>2, <2>2 DEF ReadyAt, HasProbed, HasRaw, RawCurrent
  <2>4. /\ mark' \in [Planned -> ProbeLinks \cup {Unnamed, Nothing}] /\ raw' \in [Planned -> RawFiles]
        /\ touched \subseteq touched' /\ IsFiniteSet(touched')
        /\ \A g \in Planned \ {f} : mark'[g] = mark[g] /\ raw'[g] = raw[g]
    BY <1>2 DEF ProbeInv, ProbeTyped
  <2> QED BY <1>1, <1>2, <1>4, <2>1, <2>3, <2>4, GoingTo DEF Places
<1> QED
  BY <1>3, <1>4 DEF SettleFile

LEMMA SeesKeeps == ASSUME ProbeInv, NEW w \in Probers, SeesEnd(w) PROVE ProbeInv'
<1>1. /\ prober' = [prober EXCEPT ![w] = Gone] /\ probing' # "ended" /\ probing' # "send"
      /\ UNCHANGED <<nextFile, outcomeOf, strm, touched, mark, raw>>
  BY DEF SeesEnd, AtHome, files, kept, ProberAt, Gone
<1> QED
  BY <1>1, LettingGo

LEMMA CompleteKeeps == ASSUME ProbeInv, NEW w \in Probers, CompleteFile(w) PROVE ProbeInv'
<1>1. prober[w].at = "count" /\ probing # "ended"
  BY NotEnded DEF CompleteFile, CountFile
<1>2. /\ prober' = [prober EXCEPT ![w] = NoFile]
      /\ UNCHANGED <<probing, nextFile, strm, touched, mark, raw>>
      /\ outcomeOf' = [outcomeOf EXCEPT ![prober[w].file] = [code |-> prober[w].code, link |-> prober[w].link]]
  BY DEF CompleteFile, CountFile, AtHome, files, kept, ProberAt
<1> QED
  BY <1>1, <1>2, LettingGo

LEMMA TakeKeeps == ASSUME ProbeInv, NEW w \in Probers, TakeFile(w) PROVE ProbeInv'
<1>1. /\ probing' = "dispatch" /\ nextFile' = nextFile + 1 /\ nextFile \in Planned
      /\ UNCHANGED <<strm, touched, mark, raw, outcomeOf>>
  BY DEF TakeFile, files, kept, ProbeInv, Sending
<1>2. CASE ProberAt(w, NoFile)
  BY <1>1, <1>2, LettingGo DEF ProberAt
<1>3. CASE ProberAt(w, [at |-> "judge", file |-> nextFile, link |-> Nothing, code |-> "none"])
  <2>1. PICK r \in InWork : /\ prober' = [prober EXCEPT ![w] = r] /\ r.file = nextFile
                            /\ r.at = "judge" /\ r.code = "none"
    <3>1. PICK r : r = [at |-> "judge", file |-> nextFile, link |-> Nothing, code |-> "none"]
      OBVIOUS
    <3>2. r \in InWork /\ r.file = nextFile /\ r.at = "judge" /\ r.code = "none"
      BY <1>1, <3>1 DEF InWork, Places, Links, Codes
    <3> QED BY <1>3, <3>1, <3>2 DEF ProberAt
  <2>2. prober'[w] = r /\ \A v \in Probers \ {w} : prober'[v] = prober[v]
    BY <2>1 DEF ProbeInv, ProbeTyped
  <2>3. /\ nextFile' \in Nat \ {0} /\ nextFile < nextFile'
        /\ \A f \in Planned : f < nextFile => f < nextFile' /\ f # nextFile
    BY <1>1, ProbeAssumption DEF ProbeInv, ProbeTyped, Planned
  <2>4. ProbeTyped'
    BY <1>1, <2>1, <2>3 DEF ProbeInv, ProbeTyped
  <2>5. outcomeOf[nextFile] = Uncounted
    BY <1>1, <2>3 DEF ProbeInv, CountedHas
  <2>6. ASSUME NEW v \in Probers \ {w}, Working(v)'
        PROVE  /\ Working(v) /\ prober'[v] = prober[v] /\ prober[v].file \in Planned
               /\ prober[v].file < nextFile
    BY <2>2, <2>6 DEF Working, InWork, ProbeInv, InHand
  <2>7. InHand'
    <3> SUFFICES ASSUME NEW v \in Probers, Working(v)'
                 PROVE  /\ prober'[v].file < nextFile' /\ outcomeOf'[prober'[v].file] = Uncounted
                        /\ ReadyAt(prober[v].at, prober[v].code, prober[v].file, prober[v].link)'
      BY DEF InHand, Uncounted
    <3>1. CASE v = w
      BY <1>1, <2>1, <2>2, <2>3, <2>5, <3>1 DEF ReadyAt
    <3>2. CASE v # w
      <4>1. /\ outcomeOf[prober[v].file] = Uncounted
            /\ ReadyAt(prober[v].at, prober[v].code, prober[v].file, prober[v].link)
        BY <2>6, <3>2 DEF ProbeInv, InHand
      <4>2. ReadyAt(prober[v].at, prober[v].code, prober[v].file, prober[v].link)'
        BY <1>1, <2>6, <3>2, <4>1, ReadyStays
      <4> QED BY <1>1, <2>3, <2>6, <3>2, <4>1, <4>2
    <3> QED BY <3>1, <3>2
  <2>8. Alone'
    BY <2>1, <2>2, <2>3, <2>6 DEF ProbeInv, Alone
  <2>9. CountedHas'
    <3> SUFFICES ASSUME NEW f \in Planned
                 PROVE  /\ outcomeOf'[f] # Uncounted => f < nextFile'
                        /\ HasProbed(outcomeOf[f].code, f, outcomeOf[f].link)'
      BY DEF CountedHas, Uncounted
    <3> QED BY <1>1, <2>3, ReadyStays DEF ProbeInv, CountedHas
  <2> QED
    BY <1>1, <2>4, <2>7, <2>8, <2>9 DEF ProbeInv, AtEnd, Sending
<1> QED
  BY <1>2, <1>3 DEF TakeFile

\* Where neither the workers nor what they have written are touched.
LEMMA Elsewhere ==
  ASSUME ProbeInv, UNCHANGED <<nextFile, prober, mark, raw, touched, outcomeOf>>,
         strm' \in [Planned -> ProbeLinks], AtEnd', Sending'
  PROVE  ProbeInv'
<1>1. ProbeTyped'
  BY DEF ProbeInv, ProbeTyped
<1>2. InHand' /\ Alone' /\ CountedHas'
  BY DEF ProbeInv, InHand, Alone, CountedHas, Working, ReadyAt, HasProbed, HasRaw, RawCurrent
<1> QED
  BY <1>1, <1>2 DEF ProbeInv

LEMMA FinishKeeps == ASSUME ProbeInv, FinishProbe PROVE ProbeInv'
<1>1. PICK raised \in SUBSET touched :
        bumped' = raised /\ ending'.refreshFailed = Cardinality(touched \ raised)
  <2>1. PICK raised \in SUBSET touched :
          /\ bumped' = raised
          /\ ending' = [verdict |-> IF ProbeAborted THEN "aborted" ELSE IF Cancelled THEN "cancelled" ELSE "complete",
                        refreshFailed |-> Cardinality(touched \ raised)]
    BY DEF FinishProbe
  <2> QED BY <2>1
<1>2. IsFiniteSet(touched \ raised)
  BY FS_Difference DEF ProbeInv, ProbeTyped
<1>3. ending'.refreshFailed = 0 => touched \subseteq bumped'
  BY <1>1, <1>2, FS_EmptySet
<1>4. UNCHANGED <<nextFile, prober, mark, raw, touched, outcomeOf, strm>> /\ probing' = "ended"
  BY DEF FinishProbe, WorkersOnly, files, kept
<1>5. AtEnd' /\ Sending'
  BY <1>3, <1>4 DEF FinishProbe, AtEnd, Sending
<1> QED
  BY <1>4, <1>5, Elsewhere DEF ProbeInv, ProbeTyped

LEMMA DispatcherKeeps == ASSUME ProbeInv, BeginProbe \/ OfferFile \/ CancelProbe PROVE ProbeInv'
<1>1. UNCHANGED <<nextFile, prober, mark, raw, touched, outcomeOf, strm, ending, bumped>>
  BY DEF BeginProbe, OfferFile, CancelProbe, WorkersOnly, files, kept
<1>2. probing' # "ended"
  BY DEF BeginProbe, OfferFile, CancelProbe
<1>3. Sending'
  BY <1>1, ProbeAssumption DEF ProbeInv, ProbeTyped, Sending, BeginProbe, OfferFile, CancelProbe, Planned
<1> QED
  BY <1>1, <1>2, <1>3, Elsewhere DEF ProbeInv, ProbeTyped, AtEnd

LEMMA RelinkKeeps == ASSUME ProbeInv, NEW f \in Planned, Relink(f) PROVE ProbeInv'
<1>1. UNCHANGED <<nextFile, prober, mark, raw, touched, outcomeOf, probing, ending, bumped>>
  BY DEF Relink, kept
<1>2. strm' \in [Planned -> ProbeLinks]
  BY DEF Relink, ProbeInv, ProbeTyped
<1>3. AtEnd' /\ Sending'
  BY <1>1 DEF ProbeInv, AtEnd, Sending
<1> QED
  BY <1>1, <1>2, <1>3, Elsewhere

-----------------------------------------------------------------------------
(* The counters *)

\* A file is counted under one heading.
LEMMA CountingAddsUp ==
  ASSUME NEW t \in TallyRows, tally = t, AddsUp(t), NEW code
  PROVE  Counted(code) \in TallyRows /\ AddsUp(Counted(code)) /\ Counted(code).done = t.done + 1
<1>1. /\ t.done \in Nat /\ t.success \in Nat /\ t.skipped \in Nat /\ t.failed \in Nat
      /\ t.streak \in Nat
  BY DEF TallyRows
<1>2. PICK n : n = [t EXCEPT !.done = t.done + 1]
  OBVIOUS
<1>3. /\ n \in TallyRows /\ n.done = t.done + 1 /\ n.success = t.success /\ n.skipped = t.skipped
      /\ n.failed = t.failed /\ n.streak = t.streak
  BY <1>1, <1>2 DEF TallyRows
<1>4. CASE Succeeded(code)
  <2>1. PICK m : m = [n EXCEPT !.success = n.success + 1]
    OBVIOUS
  <2>2. /\ m \in TallyRows /\ m.done = n.done /\ m.success = n.success + 1
        /\ m.skipped = n.skipped /\ m.failed = n.failed /\ m.streak = n.streak
    BY <1>1, <1>3, <2>1 DEF TallyRows
  <2>3. PICK new : new = [m EXCEPT !.streak = 0]
    OBVIOUS
  <2>4. /\ new \in TallyRows /\ new.done = m.done /\ new.success = m.success
        /\ new.skipped = m.skipped /\ new.failed = m.failed /\ new.streak = 0
    BY <1>1, <1>3, <2>2, <2>3 DEF TallyRows
  <2>5. Counted(code) = new
    BY <1>2, <1>4, <2>1, <2>3 DEF Counted
  <2>6. AddsUp(new) /\ new.done = t.done + 1
    BY <1>1, <1>3, <2>2, <2>4 DEF AddsUp
  <2> QED BY <2>4, <2>5, <2>6
<1>5. CASE ~Succeeded(code) /\ Skipped(code)
  <2>1. PICK m : m = [n EXCEPT !.skipped = n.skipped + 1]
    OBVIOUS
  <2>2. /\ m \in TallyRows /\ m.done = n.done /\ m.skipped = n.skipped + 1
        /\ m.success = n.success /\ m.failed = n.failed /\ m.streak = n.streak
    BY <1>1, <1>3, <2>1 DEF TallyRows
  <2>3. PICK new : new = [m EXCEPT !.streak = 0]
    OBVIOUS
  <2>4. /\ new \in TallyRows /\ new.done = m.done /\ new.success = m.success
        /\ new.skipped = m.skipped /\ new.failed = m.failed /\ new.streak = 0
    BY <1>1, <1>3, <2>2, <2>3 DEF TallyRows
  <2>5. Counted(code) = new
    BY <1>2, <1>5, <2>1, <2>3 DEF Counted
  <2>6. AddsUp(new) /\ new.done = t.done + 1
    BY <1>1, <1>3, <2>2, <2>4 DEF AddsUp
  <2> QED BY <2>4, <2>5, <2>6
<1>6. CASE ~Succeeded(code) /\ ~Skipped(code)
  <2>1. PICK m : m = [n EXCEPT !.failed = n.failed + 1]
    OBVIOUS
  <2>2. /\ m \in TallyRows /\ m.done = n.done /\ m.failed = n.failed + 1
        /\ m.success = n.success /\ m.skipped = n.skipped /\ m.streak = n.streak
    BY <1>1, <1>3, <2>1 DEF TallyRows
  <2>3. PICK new : new = [m EXCEPT !.streak = m.streak + 1]
    OBVIOUS
  <2>4. /\ new \in TallyRows /\ new.done = m.done /\ new.success = m.success
        /\ new.skipped = m.skipped /\ new.failed = m.failed /\ new.streak = m.streak + 1
    BY <1>1, <1>3, <2>2, <2>3 DEF TallyRows
  <2>5. Counted(code) = new
    BY <1>2, <1>6, <2>1, <2>3 DEF Counted
  <2>6. AddsUp(new) /\ new.done = t.done + 1
    BY <1>1, <1>3, <2>2, <2>4 DEF AddsUp
  <2> QED BY <2>4, <2>5, <2>6
<1> QED BY <1>4, <1>5, <1>6

LEMMA OutcomesAreFew ==
  IsFiniteSet(WithOutcome) /\ Cardinality(WithOutcome) \in Nat /\ Cardinality(WithOutcome) <= LastFile
<1>1. IsFiniteSet(Planned) /\ Cardinality(Planned) = LastFile
  BY ProbeAssumption, FS_Interval DEF Planned
<1>2. WithOutcome \in SUBSET Planned
  BY DEF WithOutcome
<1> QED BY <1>1, <1>2, FS_Subset, FS_CardinalityType

LEMMA TallyStart == ProbeInit => Tallied /\ RestTyped
<1> SUFFICES ASSUME ProbeInit PROVE Tallied /\ RestTyped
  OBVIOUS
<1>1. WithOutcome = {}
  BY DEF ProbeInit, WithOutcome
<1>2. tally \in TallyRows /\ AddsUp(tally) /\ tally.done = 0
  BY DEF ProbeInit, NoTally, TallyRows, AddsUp
<1>3. RestTyped
  BY ProbeAssumption DEF ProbeInit, RestTyped
<1> QED BY <1>1, <1>2, <1>3, FS_EmptySet DEF Tallied

\* completeProbe: the file that is counted had no outcome, and has one now.
LEMMA CompleteCounts ==
  ASSUME ProbeInv, Tallied, NEW w \in Probers, CompleteFile(w)
  PROVE  Tallied'
<1>1. prober[w].at = "count" /\ prober[w].at \in Places
  BY DEF CompleteFile, CountFile, Places
<1>2. PICK f \in Planned, code \in Codes, u \in Links :
        f = prober[w].file /\ code = prober[w].code /\ u = prober[w].link
  BY <1>1, FileAtHand DEF InWork
<1>3. code # "none" /\ outcomeOf[f] = Uncounted
  BY <1>1, <1>2, FileAtHand DEF ProbeInv, InHand, ReadyAt
<1>4. tally' = Counted(code) /\ outcomeOf' = [outcomeOf EXCEPT ![f] = [code |-> code, link |-> u]]
  BY <1>2 DEF CompleteFile, CountFile
<1>5. WithOutcome' = WithOutcome \cup {f} /\ f \notin WithOutcome
  BY <1>3, <1>4 DEF WithOutcome, ProbeInv, ProbeTyped, Uncounted
<1>6. Cardinality(WithOutcome') = Cardinality(WithOutcome) + 1
  BY <1>5, OutcomesAreFew, FS_AddElement
<1>7. Counted(code) \in TallyRows /\ AddsUp(Counted(code)) /\ Counted(code).done = tally.done + 1
  BY CountingAddsUp DEF Tallied
<1> QED BY <1>4, <1>6, <1>7 DEF Tallied

LEMMA TallyKeeps ==
  ASSUME ProbeInv, Tallied, RestTyped, [ProbeNext]_probeVars
  PROVE  Tallied' /\ RestTyped'
<1> USE DEF files, kept, AtHome, WorkersOnly
<1>1. ASSUME UNCHANGED <<tally, outcomeOf>> PROVE Tallied'
  BY <1>1 DEF Tallied, WithOutcome
<1>2. CASE ProbeDispatcher \/ BeginProbe \/ CancelProbe
  <2>1. UNCHANGED <<tally, outcomeOf, onlyMissing, nextFile, relinked, touched>>
    BY <1>2 DEF ProbeDispatcher, OfferFile, FinishProbe, BeginProbe, CancelProbe
  <2>2. /\ probing' \in {"dispatch", "send", "closed", "ended", probing}
        /\ brokenBy' \in {"none", "operator", "breaker"}
    BY <1>2 DEF ProbeDispatcher, OfferFile, FinishProbe, BeginProbe, CancelProbe, RestTyped
  <2>3. bumped' \subseteq touched' /\ (probing' # "ended" => bumped' = {})
    <3>1. CASE FinishProbe
      BY <3>1 DEF FinishProbe
    <3>2. CASE OfferFile \/ BeginProbe \/ CancelProbe
      BY <3>2 DEF OfferFile, BeginProbe, CancelProbe, RestTyped
    <3> QED BY <1>2, <3>1, <3>2 DEF ProbeDispatcher
  <2> QED BY <2>1, <2>2, <2>3, <1>1 DEF RestTyped
<1>3. ASSUME NEW f \in Planned, Relink(f) PROVE Tallied' /\ RestTyped'
  BY <1>3, <1>1 DEF Relink, RestTyped
<1>4. ASSUME NEW w \in Probers, Prober(w) PROVE Tallied' /\ RestTyped'
  <2>1. probing # "ended" /\ bumped = {} /\ bumped' = {} /\ UNCHANGED <<onlyMissing, relinked>>
    <3>1. probing # "ended"
      BY <1>4 DEF Prober, TakeFile, SeesEnd, JudgeFile, Backfill, RunFFProbe, SaveDetails,
                  SettleFile, CompleteFile, CountFile, ProbeInv, AtEnd
    <3>2. bumped' = bumped /\ UNCHANGED <<onlyMissing, relinked>>
      BY <1>4 DEF Prober, TakeFile, SeesEnd, JudgeFile, Backfill, RunFFProbe, SaveDetails,
                  SettleFile, CompleteFile, CountFile
    <3> QED BY <3>1, <3>2 DEF RestTyped
  <2>2. CASE TakeFile(w)
    <3>1. nextFile' <= LastFile + 1
      BY <2>2, ProbeAssumption DEF TakeFile, ProbeInv, Sending, Planned
    <3> QED BY <2>1, <2>2, <3>1, <1>1 DEF TakeFile, RestTyped
  <2>3. CASE ~TakeFile(w)
    <3>1. UNCHANGED <<probing, nextFile>>
      BY <1>4, <2>3 DEF Prober, SeesEnd, JudgeFile, Backfill, RunFFProbe, SaveDetails,
                        SettleFile, CompleteFile, CountFile
    <3>2. brokenBy' \in {brokenBy, "breaker"}
      BY <1>4, <2>3 DEF Prober, SeesEnd, JudgeFile, Backfill, RunFFProbe, SaveDetails,
                        SettleFile, CompleteFile, CountFile
    <3>3. CompleteFile(w) \/ UNCHANGED <<tally, outcomeOf>>
      BY <1>4, <2>3 DEF Prober, SeesEnd, JudgeFile, Backfill, RunFFProbe, SaveDetails, SettleFile
    <3>4. Tallied'
      BY <3>3, <1>1, CompleteCounts
    <3> QED BY <2>1, <3>1, <3>2, <3>4 DEF RestTyped
  <2> QED BY <2>2, <2>3
<1>5. CASE UNCHANGED probeVars
  BY <1>5, <1>1 DEF probeVars, RestTyped
<1> QED BY <1>2, <1>3, <1>4, <1>5 DEF ProbeNext

-----------------------------------------------------------------------------

\* No step of the dispatcher, of a worker or of anyone who rewrites a .strm file
\* undoes the invariant (runProbe, probeOne, completeProbe).
THEOREM ProbeInductive == ProbeInv /\ [ProbeNext]_probeVars => ProbeInv'
<1> SUFFICES ASSUME ProbeInv, [ProbeNext]_probeVars PROVE ProbeInv'
  OBVIOUS
<1>1. CASE ProbeDispatcher \/ BeginProbe \/ CancelProbe
  BY <1>1, FinishKeeps, DispatcherKeeps DEF ProbeDispatcher
<1>2. ASSUME NEW f \in Planned, Relink(f) PROVE ProbeInv'
  BY <1>2, RelinkKeeps
<1>3. ASSUME NEW w \in Probers, Prober(w) PROVE ProbeInv'
  BY <1>3, TakeKeeps, SeesKeeps, JudgeKeeps, BackfillKeeps, RunKeeps, SaveKeeps, SettleKeeps,
     CompleteKeeps DEF Prober
<1>4. CASE UNCHANGED probeVars
  <2>1. UNCHANGED <<nextFile, prober, mark, raw, touched, outcomeOf, probing, ending, bumped, strm>>
    BY <1>4 DEF probeVars, files, kept
  <2>2. AtEnd' /\ Sending'
    BY <2>1 DEF ProbeInv, AtEnd, Sending
  <2> QED BY <2>1, <2>2, Elsewhere DEF ProbeInv, ProbeTyped
<1> QED
  BY <1>1, <1>2, <1>3, <1>4 DEF ProbeNext

\* What a file was counted for is there, and every library written in is announced
\* or counted as failed, for any plan and any number of workers (probe.go).
THEOREM ProbesAlwaysKept == ProbeSpec => []ProbesAreKept
<1>1. ProbeInv => ProbesAreKept
  <2> SUFFICES ASSUME ProbeInv PROVE ProbesAreKept
    OBVIOUS
  <2>1. DetailsAreOfTheLink
    BY DEF ProbeInv, CountedHas, HasProbed, DetailsAreOfTheLink
  <2>2. WritesAreAnnounced
    BY DEF ProbeInv, CountedHas, HasProbed, AtEnd, WritesAreAnnounced
  <2> QED BY <2>1, <2>2 DEF ProbesAreKept
<1> QED
  BY ProbeStart, ProbeInductive, <1>1, PTL DEF ProbeSpec

\* Every file handed out is counted once, under one heading, whatever breaks the
\* run off; and the other types of a run (probeOne, completeProbe, runProbe).
THEOREM ProbeTypeCorrect == ProbeSpec => []ProbeTypeOK
<1>1. ProbeInv /\ Tallied /\ RestTyped => ProbeTypeOK
  <2> SUFFICES ASSUME ProbeInv, Tallied, RestTyped PROVE ProbeTypeOK
    OBVIOUS
  <2>1. nextFile \in 1 .. LastFile + 1
    BY ProbeAssumption DEF ProbeInv, ProbeTyped, RestTyped
  <2>2. ASSUME NEW w \in Probers
        PROVE  prober[w].at \in {"waiting", "judge", "backfill", "run", "save", "settle", "count", "gone"}
    BY DEF ProbeInv, ProbeTyped, InWork, Places, NoFile, Gone
  <2>3. /\ tally \in TallyRows /\ tally.done \in 0 .. LastFile /\ tally.success \in 0 .. LastFile
        /\ tally.skipped \in 0 .. LastFile /\ tally.failed \in 0 .. LastFile
        /\ tally.streak \in 0 .. LastFile
    <3>1. PICK t \in TallyRows : t = tally
      BY DEF Tallied
    <3>2. /\ t.done \in Nat /\ t.success \in Nat /\ t.skipped \in Nat /\ t.failed \in Nat
          /\ t.streak \in Nat
      BY DEF TallyRows
    <3> QED BY <3>1, <3>2, OutcomesAreFew, ProbeAssumption DEF Tallied, AddsUp
  <2>4. tally \in [done : 0 .. LastFile, success : 0 .. LastFile, skipped : 0 .. LastFile,
                   failed : 0 .. LastFile, streak : 0 .. LastFile]
    BY <2>3 DEF TallyRows
  <2> QED BY <2>1, <2>2, <2>4 DEF ProbeTypeOK, ProbeInv, ProbeTyped, RestTyped, Tallied, AddsUp, WithOutcome
<1> QED BY ProbeStart, ProbeInductive, TallyStart, TallyKeeps, <1>1, PTL DEF ProbeSpec

-----------------------------------------------------------------------------
(****************************************************************************)
(* One request makes an image while the others wait, for any number of      *)
(* requests and images.  The invariant gives each flight one leader; who    *)
(* makes an image has found that there is none, and so each is made once    *)
(* for every time its file has been lost.                                   *)
(****************************************************************************)

\* Where the one request is that makes an image, and what a request has in hand.
LeaderPlaces == {"leads", "holds", "makes", "stores", "done", "failed", "panics"}
Flying == [at : LeaderPlaces \cup {"follows"}, key : ThumbKeys, flight : Nat]
ViewingState == [at : {"out"}] \cup [at : {"missed"}, key : ThumbKeys] \cup Flying
Flights == Seq({"open", "made", "failed"})

ThumbsTyped ==
  /\ viewing \in [Viewings -> ViewingState] /\ flights \in Flights
  /\ flightOf \in [ThumbKeys -> Nat]
  /\ made \in [ThumbKeys -> Nat] /\ lostFiles \in [ThumbKeys -> Nat]

Leading(r) == viewing[r].at \in LeaderPlaces

\* Who leads has the flight of his key, alone.
OneLeader ==
  /\ \A r \in Viewings : Leading(r) =>
       flightOf[KeyOf(r)] # 0 /\ viewing[r].flight \in 1 .. Len(flights)
  /\ \A r, s \in Viewings : Leading(r) /\ Leading(s) /\ KeyOf(r) = KeyOf(s) => r = s

\* Nobody makes what is there, and what is there has not been lost.
MadeForNeed ==
  /\ \A r \in Viewings : viewing[r].at = "makes" => ~Found(KeyOf(r))
  /\ \A k \in ThumbKeys : made[k] <= lostFiles[k] + (IF Found(k) THEN 1 ELSE 0)

ThumbsInv == ThumbsTyped /\ OneLeader /\ MadeForNeed
-----------------------------------------------------------------------------
\* How often an image was made is accounted for.
Accounted(k) == made[k] <= lostFiles[k] + (IF Found(k) THEN 1 ELSE 0)

\* An image is there after the step, in memory or on disk.
FoundNext(k) == k \in memory' \cup onDisk'

\* One request moves; it does not come to lead a flight by that.
LEMMA RequestMoves ==
  ASSUME ThumbsInv, NEW r \in Viewings, NEW v \in ViewingState,
         viewing' = [viewing EXCEPT ![r] = v], FlightsStay,
         v.at \in LeaderPlaces => Leading(r) /\ v.key = KeyOf(r) /\ v.flight = viewing[r].flight,
         made' \in [ThumbKeys -> Nat], lostFiles' \in [ThumbKeys -> Nat],
         \A k \in ThumbKeys : Accounted(k)',
         v.at = "makes" => ~FoundNext(v.key),
         \A s \in Viewings \ {r} : viewing[s].at = "makes" => ~FoundNext(KeyOf(s))
  PROVE  ThumbsInv'
  <1>1. /\ viewing' \in [Viewings -> ViewingState] /\ viewing'[r] = v
        /\ \A s \in Viewings \ {r} : viewing'[s] = viewing[s]
    BY DEF ThumbsInv, ThumbsTyped
  <1>2. ThumbsTyped'
    BY <1>1 DEF ThumbsInv, ThumbsTyped, FlightsStay
  <1>3. \A s \in Viewings : Leading(s)' => /\ Leading(s) /\ KeyOf(s)' = KeyOf(s)
                                         /\ viewing'[s].flight = viewing[s].flight
    BY <1>1 DEF Leading, KeyOf
  <1>4. OneLeader'
    BY <1>3 DEF ThumbsInv, OneLeader, FlightsStay
  <1>5. \A s \in Viewings : viewing'[s].at = "makes" => ~FoundNext(viewing'[s].key)
    BY <1>1 DEF KeyOf
  <1>6. MadeForNeed'
    BY <1>5 DEF MadeForNeed, Accounted, KeyOf, Found, FoundNext
  <1> QED BY <1>2, <1>4, <1>6 DEF ThumbsInv

\* The caches stay, or what is on disk comes into memory.
LEMMA CachesHold ==
  ASSUME ThumbsInv, CachesStay \/ \E k \in ThumbKeys : Found(k) /\ Warm(k)
  PROVE  /\ made' \in [ThumbKeys -> Nat] /\ lostFiles' \in [ThumbKeys -> Nat]
         /\ \A k : FoundNext(k) <=> Found(k)
         /\ \A k \in ThumbKeys : Accounted(k)'
  <1>1. made' = made /\ lostFiles' = lostFiles
    BY DEF CachesStay, Warm
  <1>2. memory' \cup onDisk' = memory \cup onDisk
    BY DEF CachesStay, Warm, Found
  <1>3. \A k : FoundNext(k) <=> Found(k)
    BY <1>2 DEF Found, FoundNext
  <1> QED BY <1>1, <1>3 DEF ThumbsInv, ThumbsTyped, MadeForNeed, Accounted, Found, FoundNext

\* A move that leaves the caches as they are.
LEMMA OnlyRequestMoves ==
  ASSUME ThumbsInv, NEW r \in Viewings, NEW v \in ViewingState,
         viewing' = [viewing EXCEPT ![r] = v], FlightsStay,
         CachesStay \/ \E k \in ThumbKeys : Found(k) /\ Warm(k),
         v.at \in LeaderPlaces => Leading(r) /\ v.key = KeyOf(r) /\ v.flight = viewing[r].flight,
         v.at = "makes" => ~Found(v.key)
  PROVE  ThumbsInv'
  <1>1. /\ made' \in [ThumbKeys -> Nat] /\ lostFiles' \in [ThumbKeys -> Nat]
        /\ \A k : FoundNext(k) <=> Found(k)
        /\ \A k \in ThumbKeys : Accounted(k)'
    BY CachesHold
  <1>2. \A s \in Viewings : viewing[s].at = "makes" => ~FoundNext(KeyOf(s))
    BY <1>1 DEF ThumbsInv, MadeForNeed
  <1> QED BY <1>1, <1>2, RequestMoves

\* A place of its own: GoesTo.
LEMMA Going ==
  ASSUME ThumbsInv, NEW r \in Viewings, NEW spot \in LeaderPlaces, Leading(r), GoesTo(r, spot)
  PROVE  \E v \in ViewingState :
           /\ viewing' = [viewing EXCEPT ![r] = v] /\ v.at = spot
           /\ v.key = KeyOf(r) /\ v.flight = viewing[r].flight
           /\ v.key \in ThumbKeys
  <1>1. PICK old \in Flying : old = viewing[r]
    BY DEF ThumbsInv, ThumbsTyped, ViewingState, Leading, LeaderPlaces
  <1> DEFINE v == [old EXCEPT !.at = spot]
  <1>2. v \in Flying
    BY DEF Flying
  <1>3. v.at = spot /\ v.key = old.key /\ v.flight = old.flight /\ old.key \in ThumbKeys
    BY DEF Flying
  <1>4. viewing' = [viewing EXCEPT ![r] = v]
    BY <1>1 DEF GoesTo, MoveTo
  <1> HIDE DEF v
  <1>5. v \in ViewingState
    BY <1>2 DEF ViewingState
  <1> QED BY <1>1, <1>3, <1>4, <1>5 DEF KeyOf

LEMMA OutTyped == Out \in ViewingState /\ Out.at = "out"
  BY DEF Out, ViewingState

LEMMA Asking ==
  ASSUME ThumbsInv, NEW r \in Viewings, AskImage(r)
  PROVE  ThumbsInv'
  <1>1. PICK k \in ThumbKeys : IF Found(k) THEN Warm(k) /\ UNCHANGED viewing
                               ELSE MoveTo(r, [at |-> "missed", key |-> k]) /\ CachesStay
    BY DEF AskImage
  <1>2. FlightsStay /\ viewing[r] = Out
    BY DEF AskImage
  <1>3. CASE Found(k)
    <2>1. viewing' = [viewing EXCEPT ![r] = Out]
      BY <1>1, <1>2, <1>3 DEF ThumbsInv, ThumbsTyped
    <2>2. CachesStay \/ \E x \in ThumbKeys : Found(x) /\ Warm(x)
      BY <1>1, <1>3
    <2>3. Out.at \notin LeaderPlaces /\ Out.at # "makes"
      BY OutTyped DEF LeaderPlaces
    <2> QED BY <1>2, <2>1, <2>2, <2>3, OutTyped, OnlyRequestMoves
  <1>4. CASE ~Found(k)
    <2> DEFINE v == [at |-> "missed", key |-> k]
    <2>1. v \in ViewingState /\ v.at \notin LeaderPlaces /\ v.at # "makes"
      BY DEF ViewingState, LeaderPlaces
    <2>2. viewing' = [viewing EXCEPT ![r] = v] /\ CachesStay
      BY <1>1, <1>4 DEF MoveTo
    <2> HIDE DEF v
    <2> QED BY <1>2, <2>1, <2>2, OnlyRequestMoves
  <1> QED BY <1>3, <1>4

LEMMA Joining ==
  ASSUME ThumbsInv, NEW r \in Viewings, Join(r)
  PROVE  ThumbsInv'
  <1>1. viewing[r].at = "missed" /\ CachesStay
    BY DEF Join
  <1>2. PICK k \in ThumbKeys : k = KeyOf(r)
    BY <1>1 DEF KeyOf, ThumbsInv, ThumbsTyped, ViewingState, Flying, LeaderPlaces
  <1>3. CASE flightOf[k] # 0
    <2>1. PICK f \in Nat : f = flightOf[k]
      BY DEF ThumbsInv, ThumbsTyped
    <2> DEFINE v == [at |-> "follows", key |-> k, flight |-> f]
    <2>2. v \in ViewingState /\ v.at \notin LeaderPlaces /\ v.at # "makes"
      BY DEF ViewingState, LeaderPlaces, Flying
    <2>3. viewing' = [viewing EXCEPT ![r] = v] /\ FlightsStay
      BY <1>2, <1>3, <2>1 DEF Join, MoveTo
    <2> HIDE DEF v
    <2> QED BY <1>1, <2>2, <2>3, OnlyRequestMoves
  <1>4. CASE flightOf[k] = 0
    <2>1. /\ flights' = Append(flights, "open") /\ flightOf' = [flightOf EXCEPT ![k] = Len(flights')]
          /\ MoveTo(r, [at |-> "leads", key |-> k, flight |-> Len(flights')])
      BY <1>2, <1>4 DEF Join
    <2>2. flights' \in Flights /\ Len(flights') = Len(flights) + 1 /\ Len(flights) \in Nat
      BY <2>1, AppendProperties, LenProperties DEF ThumbsInv, ThumbsTyped, Flights
    <2>3. PICK f \in Nat : f = Len(flights') /\ f # 0 /\ f \in 1 .. Len(flights')
      BY <2>2
    <2> DEFINE v == [at |-> "leads", key |-> k, flight |-> f]
    <2>4. v \in ViewingState /\ v.at = "leads" /\ v.key = k /\ v.flight = f
      BY DEF ViewingState, LeaderPlaces, Flying
    <2>5. viewing' = [viewing EXCEPT ![r] = v]
      BY <2>1, <2>3 DEF MoveTo
    <2> HIDE DEF v
    <2>6. /\ viewing' \in [Viewings -> ViewingState] /\ viewing'[r] = v
          /\ \A s \in Viewings \ {r} : viewing'[s] = viewing[s]
      BY <2>4, <2>5 DEF ThumbsInv, ThumbsTyped
    <2>7. /\ flightOf' \in [ThumbKeys -> Nat] /\ flightOf'[k] = f
          /\ \A x \in ThumbKeys \ {k} : flightOf'[x] = flightOf[x]
      BY <2>1, <2>3 DEF ThumbsInv, ThumbsTyped
    <2>8. /\ made' \in [ThumbKeys -> Nat] /\ lostFiles' \in [ThumbKeys -> Nat]
          /\ \A x : FoundNext(x) <=> Found(x)
          /\ \A x \in ThumbKeys : Accounted(x)'
      BY <1>1, CachesHold
    <2>9. ThumbsTyped'
      BY <2>2, <2>6, <2>7, <2>8 DEF ThumbsTyped
    <2>10. ASSUME NEW s \in Viewings, Leading(s)', s # r
           PROVE  Leading(s) /\ KeyOf(s)' = KeyOf(s) /\ viewing'[s].flight = viewing[s].flight
                  /\ KeyOf(s) \in ThumbKeys /\ KeyOf(s) # k
      <3>1. Leading(s) /\ KeyOf(s)' = KeyOf(s) /\ viewing'[s].flight = viewing[s].flight
        BY <2>6, <2>10 DEF Leading, KeyOf
      <3>2. KeyOf(s) \in ThumbKeys
        BY <3>1 DEF Leading, KeyOf, ThumbsInv, ThumbsTyped, ViewingState, Flying, LeaderPlaces
      <3>3. KeyOf(s) # k
        BY <1>4, <3>1 DEF ThumbsInv, OneLeader
      <3> QED BY <3>1, <3>2, <3>3
    <2>11. KeyOf(r)' = k /\ viewing'[r].flight = f
      BY <2>4, <2>6 DEF KeyOf
    <2>12. ASSUME NEW s \in Viewings, Leading(s)'
           PROVE  flightOf'[KeyOf(s)'] # 0 /\ viewing'[s].flight \in 1 .. Len(flights')
      <3>1. CASE s = r
        BY <2>3, <2>7, <2>11, <3>1
      <3>2. CASE s # r
        <4>1. flightOf[KeyOf(s)] # 0 /\ viewing[s].flight \in 1 .. Len(flights)
          BY <2>10, <2>12, <3>2 DEF ThumbsInv, OneLeader
        <4>2. viewing[s].flight \in 1 .. Len(flights')
          BY <2>2, <4>1
        <4> QED BY <2>7, <2>10, <2>12, <3>2, <4>1, <4>2
      <3> QED BY <3>1, <3>2
    <2>13. ASSUME NEW s \in Viewings, NEW t \in Viewings, Leading(s)', Leading(t)', KeyOf(s)' = KeyOf(t)'
           PROVE  s = t
      <3>1. CASE s # r /\ t # r
        BY <2>10, <2>13, <3>1 DEF ThumbsInv, OneLeader
      <3>2. CASE s = r \/ t = r
        BY <2>10, <2>11, <2>13, <3>2
      <3> QED BY <3>1, <3>2
    <2>14. OneLeader'
      BY <2>12, <2>13 DEF OneLeader
    <2>15. MadeForNeed'
      <3>1. \A s \in Viewings : viewing'[s].at = "makes" => s # r
        BY <2>4, <2>6
      <3>2. \A s \in Viewings : viewing'[s].at = "makes" => ~FoundNext(viewing'[s].key)
        BY <2>6, <2>8, <3>1 DEF ThumbsInv, MadeForNeed, KeyOf
      <3> QED BY <2>8, <3>2 DEF MadeForNeed, Accounted, KeyOf, Found, FoundNext
    <2> QED BY <2>9, <2>14, <2>15 DEF ThumbsInv
  <1> QED BY <1>3, <1>4

LEMMA Leaving ==
  ASSUME ThumbsInv, NEW r \in Viewings, Follow(r) \/ StopFollowing(r)
  PROVE  ThumbsInv'
  <1>1. viewing' = [viewing EXCEPT ![r] = Out] /\ FlightsStay /\ CachesStay
    BY DEF Follow, StopFollowing, MoveTo
  <1>2. Out.at \notin LeaderPlaces /\ Out.at # "makes"
    BY OutTyped DEF LeaderPlaces
  <1> QED BY <1>1, <1>2, OutTyped, OnlyRequestMoves

LEMMA LeadingOn ==
  ASSUME ThumbsInv, NEW r \in Viewings, AcquireSem(r) \/ StopLeading(r) \/ Recheck(r)
  PROVE  ThumbsInv'
  <1>1. Leading(r) /\ FlightsStay
    BY DEF AcquireSem, StopLeading, Recheck, Leading, LeaderPlaces
  <1>2. ASSUME NEW spot \in LeaderPlaces, GoesTo(r, spot),
               CachesStay \/ \E k \in ThumbKeys : Found(k) /\ Warm(k),
               spot = "makes" => ~Found(KeyOf(r))
        PROVE  ThumbsInv'
    <2>1. PICK v \in ViewingState :
            /\ viewing' = [viewing EXCEPT ![r] = v] /\ v.at = spot
            /\ v.key = KeyOf(r) /\ v.flight = viewing[r].flight
            /\ v.key \in ThumbKeys
      BY <1>1, <1>2, Going
    <2> QED BY <1>1, <1>2, <2>1, OnlyRequestMoves
  <1>3. KeyOf(r) \in ThumbKeys
    BY <1>1 DEF Leading, KeyOf, ThumbsInv, ThumbsTyped, ViewingState, Flying, LeaderPlaces
  <1>4. CASE AcquireSem(r)
    BY <1>2, <1>4 DEF AcquireSem, LeaderPlaces
  <1>5. CASE StopLeading(r)
    BY <1>2, <1>5 DEF StopLeading, LeaderPlaces
  <1>6. CASE Recheck(r)
    <2>1. CASE Found(KeyOf(r))
      BY <1>2, <1>3, <1>6, <2>1 DEF Recheck, FoundMeanwhile, LeaderPlaces
    <2>2. CASE ~Found(KeyOf(r))
      BY <1>2, <1>6, <2>2 DEF Recheck, FoundMeanwhile, LeaderPlaces
    <2> QED BY <2>1, <2>2
  <1> QED BY <1>4, <1>5, <1>6

LEMMA Making ==
  ASSUME ThumbsInv, NEW r \in Viewings, MakeThumb(r)
  PROVE  ThumbsInv'
  <1>1. viewing[r].at = "makes" /\ Leading(r) /\ FlightsStay
    BY DEF MakeThumb, Leading, LeaderPlaces
  <1>2. ASSUME NEW spot \in {"failed", "panics"}, GoesTo(r, spot), CachesStay PROVE ThumbsInv'
    <2>1. PICK v \in ViewingState :
            /\ viewing' = [viewing EXCEPT ![r] = v] /\ v.at = spot
            /\ v.key = KeyOf(r) /\ v.flight = viewing[r].flight
            /\ v.key \in ThumbKeys
      BY <1>1, <1>2, Going DEF LeaderPlaces
    <2> QED BY <1>1, <1>2, <2>1, OnlyRequestMoves
  <1>3. CASE /\ GoesTo(r, "stores") /\ made' = [made EXCEPT ![KeyOf(r)] = @ + 1]
             /\ memory' = memory \cup {KeyOf(r)}
             /\ UNCHANGED <<onDisk, maxBytes, trim, lostFiles, losses>>
    <2>1. PICK v \in ViewingState :
            /\ viewing' = [viewing EXCEPT ![r] = v] /\ v.at = "stores"
            /\ v.key = KeyOf(r) /\ v.flight = viewing[r].flight
            /\ v.key \in ThumbKeys
      BY <1>1, <1>3, Going DEF LeaderPlaces
    <2>2. PICK k \in ThumbKeys : k = KeyOf(r) /\ ~Found(k)
      BY <1>1, <2>1 DEF ThumbsInv, MadeForNeed
    <2>3. PICK n \in Nat : n = made[k] + 1
      BY DEF ThumbsInv, ThumbsTyped
    <2>4. made' = [made EXCEPT ![k] = n]
      BY <1>3, <2>2, <2>3
    <2>5. /\ made' \in [ThumbKeys -> Nat] /\ made'[k] = n /\ \A x \in ThumbKeys \ {k} : made'[x] = made[x]
      BY <2>4 DEF ThumbsInv, ThumbsTyped
    <2>6. \A x : FoundNext(x) <=> Found(x) \/ x = k
      BY <1>3, <2>2 DEF Found, FoundNext
    <2>7. lostFiles' = lostFiles /\ lostFiles \in [ThumbKeys -> Nat] /\ made \in [ThumbKeys -> Nat]
      BY <1>3 DEF ThumbsInv, ThumbsTyped
    <2>8. ASSUME NEW x \in ThumbKeys PROVE Accounted(x)'
      <3>1. made[x] <= lostFiles[x] + (IF Found(x) THEN 1 ELSE 0)
        BY DEF ThumbsInv, MadeForNeed
      <3>2. CASE x = k
        <4>1. made'[x] <= lostFiles'[x] + 1 /\ FoundNext(x)
          BY <2>2, <2>3, <2>5, <2>6, <2>7, <3>1, <3>2
        <4> QED BY <4>1 DEF Accounted, Found, FoundNext
      <3>3. CASE x # k
        <4>1. made'[x] = made[x] /\ lostFiles'[x] = lostFiles[x] /\ (FoundNext(x) <=> Found(x))
          BY <2>5, <2>6, <2>7, <3>3
        <4> QED BY <3>1, <4>1 DEF Accounted, Found, FoundNext
      <3> QED BY <3>2, <3>3
    <2>9. ASSUME NEW s \in Viewings \ {r}, viewing[s].at = "makes" PROVE ~FoundNext(KeyOf(s))
      <3>1. Leading(s) /\ ~Found(KeyOf(s))
        BY <2>9 DEF Leading, LeaderPlaces, ThumbsInv, MadeForNeed
      <3>2. KeyOf(s) # k
        BY <1>1, <2>2, <3>1 DEF ThumbsInv, OneLeader
      <3> QED BY <2>6, <3>1, <3>2
    <2> QED BY <1>1, <2>1, <2>5, <2>7, <2>8, <2>9, RequestMoves
  <1> QED BY <1>2, <1>3 DEF MakeThumb

LEMMA StoringThumb ==
  ASSUME ThumbsInv, NEW r \in Viewings, StoreThumb(r)
  PROVE  ThumbsInv'
  <1>1. viewing[r].at = "stores" /\ Leading(r) /\ FlightsStay /\ UNCHANGED <<memory, made, lostFiles>>
        /\ onDisk' \in {onDisk, onDisk \cup {KeyOf(r)}} /\ GoesTo(r, "done")
    BY DEF StoreThumb, Leading, LeaderPlaces
  <1>2. PICK v \in ViewingState :
          /\ viewing' = [viewing EXCEPT ![r] = v] /\ v.at = "done"
          /\ v.key = KeyOf(r) /\ v.flight = viewing[r].flight
          /\ v.key \in ThumbKeys
    BY <1>1, Going DEF LeaderPlaces
  <1>3. \A x : /\ Found(x) => FoundNext(x)
               /\ x # KeyOf(r) => (FoundNext(x) <=> Found(x))
    BY <1>1 DEF Found, FoundNext
  <1>4. made \in [ThumbKeys -> Nat] /\ lostFiles \in [ThumbKeys -> Nat]
    BY DEF ThumbsInv, ThumbsTyped
  <1>5. ASSUME NEW x \in ThumbKeys PROVE Accounted(x)'
    <2>1. made[x] <= lostFiles[x] + (IF Found(x) THEN 1 ELSE 0)
      BY DEF ThumbsInv, MadeForNeed
    <2>2. made'[x] <= lostFiles'[x] + (IF FoundNext(x) THEN 1 ELSE 0)
      BY <1>1, <1>3, <1>4, <2>1
    <2> QED BY <2>2 DEF Accounted, Found, FoundNext
  <1>6. ASSUME NEW s \in Viewings \ {r}, viewing[s].at = "makes" PROVE ~FoundNext(KeyOf(s))
    <2>1. Leading(s) /\ ~Found(KeyOf(s))
      BY <1>6 DEF Leading, LeaderPlaces, ThumbsInv, MadeForNeed
    <2>2. KeyOf(s) # KeyOf(r)
      BY <1>1, <2>1 DEF ThumbsInv, OneLeader
    <2> QED BY <1>3, <2>1, <2>2
  <1> QED BY <1>1, <1>2, <1>4, <1>5, <1>6, RequestMoves

LEMMA Finishing ==
  ASSUME ThumbsInv, NEW r \in Viewings, FinishFlight(r)
  PROVE  ThumbsInv'
  <1>1. viewing[r].at \in {"done", "failed", "panics"} /\ Leading(r) /\ CachesStay
        /\ viewing' = [viewing EXCEPT ![r] = Out]
    BY DEF FinishFlight, MoveTo, Leading, LeaderPlaces
  <1>2. PICK f, result, k :
          /\ f = viewing[r].flight /\ k = KeyOf(r) /\ result \in {"made", "failed"}
          /\ flights' = [flights EXCEPT ![f] = result] /\ flightOf' = [flightOf EXCEPT ![k] = 0]
    BY <1>1 DEF FinishFlight, MustFinish
  <1>3. f \in 1 .. Len(flights) /\ flights \in Flights
    BY <1>1, <1>2 DEF ThumbsInv, ThumbsTyped, OneLeader
  <1>4. flights' \in Flights /\ Len(flights') = Len(flights)
    BY <1>2, <1>3, ExceptSeq DEF Flights
  <1>5. k \in ThumbKeys
    BY <1>1, <1>2 DEF Leading, KeyOf, ThumbsInv, ThumbsTyped, ViewingState, Flying, LeaderPlaces
  <1>6. /\ flightOf' \in [ThumbKeys -> Nat] /\ \A x \in ThumbKeys \ {k} : flightOf'[x] = flightOf[x]
    BY <1>2, <1>5 DEF ThumbsInv, ThumbsTyped
  <1>7. /\ viewing' \in [Viewings -> ViewingState] /\ viewing'[r] = Out
        /\ \A s \in Viewings \ {r} : viewing'[s] = viewing[s]
    BY <1>1, OutTyped DEF ThumbsInv, ThumbsTyped
  <1>8. /\ made' \in [ThumbKeys -> Nat] /\ lostFiles' \in [ThumbKeys -> Nat]
        /\ \A x : FoundNext(x) <=> Found(x)
        /\ \A x \in ThumbKeys : Accounted(x)'
    BY <1>1, CachesHold
  <1>9. ThumbsTyped'
    BY <1>4, <1>6, <1>7, <1>8 DEF ThumbsTyped
  <1>10. ASSUME NEW s \in Viewings, Leading(s)'
         PROVE  /\ s # r /\ Leading(s) /\ KeyOf(s)' = KeyOf(s) /\ viewing'[s].flight = viewing[s].flight
                /\ KeyOf(s) \in ThumbKeys /\ KeyOf(s) # k
    <2>1. s # r
      BY <1>7, <1>10, OutTyped DEF Leading, LeaderPlaces
    <2>2. Leading(s) /\ KeyOf(s)' = KeyOf(s) /\ viewing'[s].flight = viewing[s].flight
      BY <1>7, <1>10, <2>1 DEF Leading, KeyOf
    <2>3. KeyOf(s) \in ThumbKeys
      BY <2>2 DEF Leading, KeyOf, ThumbsInv, ThumbsTyped, ViewingState, Flying, LeaderPlaces
    <2>4. KeyOf(s) # k
      BY <1>1, <1>2, <2>1, <2>2 DEF ThumbsInv, OneLeader
    <2> QED BY <2>1, <2>2, <2>3, <2>4
  <1>11. OneLeader'
    <2>1. ASSUME NEW s \in Viewings, Leading(s)'
          PROVE  flightOf'[KeyOf(s)'] # 0 /\ viewing'[s].flight \in 1 .. Len(flights')
      BY <1>4, <1>6, <1>10, <2>1 DEF ThumbsInv, OneLeader
    <2>2. ASSUME NEW s \in Viewings, NEW t \in Viewings, Leading(s)', Leading(t)', KeyOf(s)' = KeyOf(t)'
          PROVE  s = t
      BY <1>10, <2>2 DEF ThumbsInv, OneLeader
    <2> QED BY <2>1, <2>2 DEF OneLeader
  <1>12. MadeForNeed'
    <2>1. \A s \in Viewings : viewing'[s].at = "makes" => s # r
      BY <1>7, OutTyped
    <2>2. \A s \in Viewings : viewing'[s].at = "makes" => ~FoundNext(viewing'[s].key)
      BY <1>7, <1>8, <2>1 DEF ThumbsInv, MadeForNeed, KeyOf
    <2> QED BY <1>8, <2>2 DEF MadeForNeed, Accounted, KeyOf, Found, FoundNext
  <1> QED BY <1>9, <1>11, <1>12 DEF ThumbsInv

\* Files go: what has been lost is counted.
LEMMA Losing ==
  ASSUME ThumbsInv, NEW mem, NEW dsk, mem \cup dsk \subseteq memory \cup onDisk, Loses(mem, dsk)
  PROVE  ThumbsInv'
  <1>1. /\ memory' = mem /\ onDisk' = dsk /\ UNCHANGED <<viewing, made, flightOf, flights>>
        /\ lostFiles' = [k \in ThumbKeys |->
                lostFiles[k] + IF Found(k) /\ k \notin mem \cup dsk THEN 1 ELSE 0]
    BY DEF Loses, FlightsStay
  <1>2. made \in [ThumbKeys -> Nat] /\ lostFiles \in [ThumbKeys -> Nat]
    BY DEF ThumbsInv, ThumbsTyped
  <1>3. lostFiles' \in [ThumbKeys -> Nat]
    BY <1>1, <1>2
  <1>4. \A x : FoundNext(x) => Found(x)
    BY <1>1 DEF Found, FoundNext
  <1>5. ThumbsTyped' /\ OneLeader'
    BY <1>1, <1>3 DEF ThumbsInv, ThumbsTyped, OneLeader, Leading, KeyOf
  <1>6. ASSUME NEW k \in ThumbKeys PROVE made'[k] <= lostFiles'[k] + (IF FoundNext(k) THEN 1 ELSE 0)
    <2>1. made[k] <= lostFiles[k] + (IF Found(k) THEN 1 ELSE 0) /\ made[k] \in Nat /\ lostFiles[k] \in Nat
      BY <1>2 DEF ThumbsInv, MadeForNeed
    <2>2. lostFiles'[k] = lostFiles[k] + IF Found(k) /\ ~FoundNext(k) THEN 1 ELSE 0
      BY <1>1 DEF Found, FoundNext
    <2> QED BY <1>1, <1>4, <2>1, <2>2
  <1>7. MadeForNeed'
    BY <1>1, <1>4, <1>6 DEF ThumbsInv, MadeForNeed, KeyOf, Found, FoundNext, Accounted
  <1> QED BY <1>5, <1>7 DEF ThumbsInv

LEMMA TrimmingThumbs ==
  ASSUME ThumbsInv, EvictMemory \/ SaveLimit \/ WalkDir \/ EvictDisk
  PROVE  ThumbsInv'
  <1>1. CASE EvictMemory
    <2>1. PICK k \in memory : Loses(memory \ {k}, onDisk)
      BY <1>1 DEF EvictMemory
    <2> QED BY <2>1, Losing
  <1>2. CASE SaveLimit \/ WalkDir
    <2>1. UNCHANGED <<viewing, flightOf, flights, memory, onDisk, made, lostFiles>>
      BY <1>2 DEF SaveLimit, WalkDir, FlightsStay
    <2> QED BY <2>1 DEF ThumbsInv, ThumbsTyped, OneLeader, MadeForNeed, Leading, KeyOf, Found
  <1>3. CASE EvictDisk
    <2>1. PICK keep : Loses(memory, onDisk \ (trim.items \ keep))
      BY <1>3 DEF EvictDisk
    <2> QED BY <2>1, Losing
  <1> QED BY <1>1, <1>2, <1>3

LEMMA ThumbsStart == ThumbsInit => ThumbsInv
  <1> SUFFICES ASSUME ThumbsInit PROVE ThumbsInv
    OBVIOUS
  <1>1. /\ viewing \in [Viewings -> ViewingState] /\ \A r \in Viewings : viewing[r] = Out
        /\ made = [k \in ThumbKeys |-> 0] /\ lostFiles = made /\ flights = <<>>
        /\ flightOf = [k \in ThumbKeys |-> 0]
    BY OutTyped DEF ThumbsInit
  <1>2. <<>> \in Flights
    BY DEF Flights
  <1>3. ThumbsTyped
    BY <1>1, <1>2 DEF ThumbsTyped
  <1>4. OneLeader /\ MadeForNeed
    BY <1>1, OutTyped DEF OneLeader, MadeForNeed, Leading, LeaderPlaces
  <1> QED BY <1>3, <1>4 DEF ThumbsInv

LEMMA ThumbsStep == ThumbsInv /\ [ThumbsNext]_thumbVars => ThumbsInv'
  <1> SUFFICES ASSUME ThumbsInv, [ThumbsNext]_thumbVars PROVE ThumbsInv'
    OBVIOUS
  <1>1. ASSUME NEW r \in Viewings,
               AskImage(r) \/ ThumbStep(r) \/ AcquireSem(r) \/ StopFollowing(r) \/ StopLeading(r)
        PROVE  ThumbsInv'
    BY <1>1, Asking, Joining, Leaving, LeadingOn, Making, StoringThumb, Finishing DEF ThumbStep
  <1>2. CASE EvictMemory \/ SaveLimit \/ WalkDir \/ EvictDisk
    BY <1>2, TrimmingThumbs
  <1>3. CASE UNCHANGED thumbVars
    BY <1>3 DEF thumbVars, ThumbsInv, ThumbsTyped, OneLeader, MadeForNeed, Leading, KeyOf, Found
  <1> QED BY <1>1, <1>2, <1>3 DEF ThumbsNext

\* In every reachable state each key has one leader at most, who makes what
\* nobody has made (thumbnail, beginThumbFlight).
THEOREM ThumbsInductive == ThumbsSpec => []ThumbsInv
  BY ThumbsStart, ThumbsStep, PTL DEF ThumbsSpec

\* An image is made once, and once more for each time it has been lost, however
\* many requests have missed it (thumbnail, finishThumbFlight).
THEOREM ImagesAreMadeOnce == ThumbsSpec => []MadeOnce
  <1>1. ThumbsInv => MadeOnce
    <2> SUFFICES ASSUME ThumbsInv, NEW k \in ThumbKeys PROVE made[k] <= 1 + lostFiles[k]
      BY DEF MadeOnce
    <2>1. made[k] <= lostFiles[k] + (IF Found(k) THEN 1 ELSE 0) /\ made[k] \in Nat /\ lostFiles[k] \in Nat
      BY DEF ThumbsInv, ThumbsTyped, MadeForNeed
    <2> QED BY <2>1
  <1> QED BY <1>1, ThumbsInductive, PTL

-----------------------------------------------------------------------------
(* The flights and the caches within their bounds *)

TrimState == {NoTrim} \cup [at : {"walk"}] \cup [at : {"evict"}, items : SUBSET ThumbKeys]

CachesTyped ==
  /\ memory \subseteq ThumbKeys /\ onDisk \subseteq ThumbKeys /\ maxBytes \in Limits
  /\ trim \in TrimState /\ losses \in 0 .. MaxLosses
FlightsBounded == Len(flights) <= MaxFlights /\ flightOf \in [ThumbKeys -> 0 .. MaxFlights]

LEMMA CachesTypedStep == ThumbsInv /\ CachesTyped /\ [ThumbsNext]_thumbVars => CachesTyped'
  <1> SUFFICES ASSUME ThumbsInv, CachesTyped, [ThumbsNext]_thumbVars PROVE CachesTyped'
    OBVIOUS
  <1>1. CASE CachesStay
    BY <1>1 DEF CachesStay, CachesTyped
  <1>2. ASSUME NEW k \in ThumbKeys, Warm(k) PROVE CachesTyped'
    BY <1>2 DEF Warm, CachesTyped
  <1>3. ASSUME NEW r \in Viewings,
               AskImage(r) \/ ThumbStep(r) \/ AcquireSem(r) \/ StopFollowing(r) \/ StopLeading(r)
        PROVE  CachesTyped'
    <2>1. CASE viewing[r].at \in LeaderPlaces
      <3>1. KeyOf(r) \in ThumbKeys
        BY <2>1 DEF KeyOf, ThumbsInv, ThumbsTyped, ViewingState, Flying, LeaderPlaces
      <3>2. CASE MakeThumb(r)
        BY <1>1, <3>1, <3>2 DEF MakeThumb, CachesTyped
      <3>3. CASE StoreThumb(r)
        <4>1. onDisk' \subseteq ThumbKeys /\ UNCHANGED <<memory, maxBytes, losses>>
          BY <3>1, <3>3 DEF StoreThumb, CachesTyped
        <4>2. trim' \in TrimState
          <5>1. [at |-> "walk"] \in TrimState
            BY DEF TrimState
          <5> QED BY <3>3, <5>1 DEF StoreThumb, CachesTyped
        <4> QED BY <4>1, <4>2 DEF CachesTyped
      <3> QED BY <1>1, <1>2, <1>3, <3>1, <3>2, <3>3
           DEF AskImage, ThumbStep, Join, Follow, Recheck, FinishFlight, AcquireSem, StopFollowing, StopLeading
    <2>2. CASE viewing[r].at \notin LeaderPlaces
      BY <1>1, <1>2, <1>3, <2>2
         DEF AskImage, ThumbStep, Join, Follow, Recheck, MakeThumb, StoreThumb, FinishFlight, AcquireSem,
             StopFollowing, StopLeading, LeaderPlaces
    <2> QED BY <2>1, <2>2
  <1>4. ASSUME NEW mem \in SUBSET ThumbKeys, NEW dsk \in SUBSET ThumbKeys, Loses(mem, dsk), trim' \in {trim, NoTrim}
        PROVE  CachesTyped'
    BY <1>4, ThumbAssumption DEF Loses, CachesTyped, TrimState
  <1>5. CASE EvictMemory
    BY <1>4, <1>5 DEF EvictMemory, CachesTyped
  <1>6. CASE SaveLimit
    <2>1. [at |-> "walk"] \in TrimState
      BY DEF TrimState
    <2> QED BY <1>6, <2>1 DEF SaveLimit, CachesTyped
  <1>7. CASE WalkDir
    <2>1. [at |-> "evict", items |-> onDisk] \in TrimState
      BY DEF TrimState, CachesTyped
    <2> QED BY <1>7, <2>1 DEF WalkDir, CachesTyped
  <1>8. CASE EvictDisk
    <2>1. PICK dsk \in SUBSET ThumbKeys : Loses(memory, dsk)
      BY <1>8 DEF EvictDisk, CachesTyped
    <2> QED BY <1>4, <1>8, <2>1 DEF EvictDisk, CachesTyped
  <1>9. CASE UNCHANGED thumbVars
    BY <1>9 DEF thumbVars, CachesTyped
  <1> QED BY <1>3, <1>5, <1>6, <1>7, <1>8, <1>9 DEF ThumbsNext

LEMMA FlightsBoundedStep == ThumbsInv /\ FlightsBounded /\ [ThumbsNext]_thumbVars => FlightsBounded'
  <1> SUFFICES ASSUME ThumbsInv, FlightsBounded, [ThumbsNext]_thumbVars PROVE FlightsBounded'
    OBVIOUS
  <1>1. CASE FlightsStay
    BY <1>1 DEF FlightsStay, FlightsBounded
  <1>2. flights \in Flights /\ Len(flights) \in Nat
    BY DEF ThumbsInv, ThumbsTyped, Flights
  <1>3. ASSUME NEW r \in Viewings, Join(r) PROVE FlightsBounded'
    <2>1. CASE ~FlightsStay
      <3>1. /\ Len(flights) < MaxFlights /\ flights' = Append(flights, "open")
            /\ flightOf' = [flightOf EXCEPT ![KeyOf(r)] = Len(flights')]
        BY <1>3, <2>1 DEF Join
      <3>2. Len(flights') = Len(flights) + 1
        BY <1>2, <3>1 DEF Flights
      <3>3. Len(flights') \in 0 .. MaxFlights
        BY <1>2, <3>1, <3>2, ThumbAssumption
      <3>4. flightOf' \in [ThumbKeys -> 0 .. MaxFlights]
        <4>1. PICK n : n = Len(flights')
          OBVIOUS
        <4>2. flightOf' = [flightOf EXCEPT ![KeyOf(r)] = n] /\ n \in 0 .. MaxFlights
          BY <3>1, <3>3, <4>1
        <4> QED BY <4>2 DEF FlightsBounded
      <3>5. Len(flights') <= MaxFlights
        BY <3>3
      <3> QED BY <3>4, <3>5 DEF FlightsBounded
    <2> QED BY <1>1, <2>1
  <1>4. ASSUME NEW r \in Viewings, FinishFlight(r) PROVE FlightsBounded'
    <2>1. CASE ~FlightsStay
      <3>1. PICK i, how : flights' = [flights EXCEPT ![i] = how]
        BY <1>4, <2>1 DEF FinishFlight
      <3>2. Len(flights') = Len(flights)
        BY <1>2, <3>1 DEF Flights
      <3>3. flightOf' = [flightOf EXCEPT ![KeyOf(r)] = 0]
        BY <1>4, <2>1 DEF FinishFlight
      <3>4. 0 \in 0 .. MaxFlights
        BY ThumbAssumption
      <3>5. flightOf' \in [ThumbKeys -> 0 .. MaxFlights]
        BY <3>3, <3>4 DEF FlightsBounded
      <3>6. Len(flights') <= MaxFlights
        BY <3>2 DEF FlightsBounded
      <3> QED BY <3>5, <3>6 DEF FlightsBounded
    <2> QED BY <1>1, <2>1
  <1>5. CASE UNCHANGED thumbVars
    BY <1>1, <1>5 DEF thumbVars, FlightsStay
  <1> QED BY <1>1, <1>3, <1>4, <1>5
       DEF ThumbsNext, ThumbStep, AskImage, Follow, Recheck, MakeThumb, StoreThumb, AcquireSem, StopFollowing,
           StopLeading, EvictMemory, SaveLimit, WalkDir, EvictDisk, Loses

\* Requests, flights, caches and the trim keep their types.
THEOREM ThumbsTypeCorrect == ThumbsSpec => []ThumbsTypeOK
  <1>1. ThumbsInit => CachesTyped /\ FlightsBounded
    <2> SUFFICES ASSUME ThumbsInit PROVE CachesTyped /\ FlightsBounded
      OBVIOUS
    <2>1. CachesTyped
      BY ThumbAssumption DEF ThumbsInit, CachesTyped, TrimState
    <2>2. FlightsBounded
      BY ThumbAssumption DEF ThumbsInit, FlightsBounded
    <2> QED BY <2>1, <2>2
  <1>2. ThumbsInv /\ CachesTyped /\ FlightsBounded => ThumbsTypeOK
    <2> SUFFICES ASSUME ThumbsInv, CachesTyped, FlightsBounded PROVE ThumbsTypeOK
      OBVIOUS
    <2>1. trim.at \in {"no", "walk", "evict"}
      BY DEF CachesTyped, TrimState, NoTrim
    <2>2. ASSUME NEW r \in Viewings
          PROVE  viewing[r].at \in {"out", "missed", "leads", "follows", "holds", "makes", "stores",
                                    "done", "failed", "panics"}
      BY DEF ThumbsInv, ThumbsTyped, ViewingState, Flying, LeaderPlaces
    <2> QED BY <2>1, <2>2 DEF ThumbsTypeOK, ThumbsInv, ThumbsTyped, Flights, CachesTyped, FlightsBounded
  <1> QED BY <1>1, <1>2, CachesTypedStep, FlightsBoundedStep, ThumbsInductive, PTL DEF ThumbsSpec

-----------------------------------------------------------------------------
(****************************************************************************)
(* A batch of scraping says what is so of itself, for any number of         *)
(* candidates and workers, any limit and any size of the batches.  A movie  *)
(* behind the cursor is in one place: still to be handed out, with one      *)
(* worker, or delivered.  Nothing is dropped before the batch is ending, so *)
(* that a run which has not been broken off has delivered all of them when  *)
(* it looks for more.  The breaker is as just as its streak, which is the   *)
(* longest row of unreachable results at the end of the deliveries.         *)
(****************************************************************************)

ResultRow == [movie : Candidates, result : ScrapeResults]
MovieWork ==
  [at : {"search", "apply", "written"}, movie : Candidates]
    \cup [at : {"deliver"}, movie : Candidates, result : ScrapeResults]
GoneScraper == [at |-> "gone"]

ScrapeTyped ==
  /\ phase \in {"idle", "fetch", "hand", "send", "closed", "index", "ended"}
  /\ afterID \in Nat /\ batch \subseteq Candidates
  /\ scraper \in [Scrapers -> MovieWork \cup {NoMovie, GoneScraper}]
  /\ streak \in Nat /\ aborted \in BOOLEAN /\ stopped \in BOOLEAN
  /\ delivered \in Seq(ResultRow)

Given == {delivered[i].movie : i \in 1 .. Done}
Passed == {m \in Candidates : m <= afterID}
Carries(w, m) == scraper[w] \in MovieWork /\ scraper[w].movie = m

\* A movie behind the cursor is in one place only ...
OnePlace ==
  /\ Given \subseteq Passed /\ batch \subseteq Passed /\ Given \cap batch = {}
  /\ \A w \in Scrapers, m \in Candidates : Carries(w, m) =>
       /\ m \in Passed /\ m \notin Given /\ m \notin batch
       /\ \A v \in Scrapers \ {w} : ~Carries(v, m)
  /\ \A i, j \in 1 .. Done : delivered[i].movie = delivered[j].movie => i = j
  /\ IsFiniteSet(Given) /\ Cardinality(Given) = Done

\* ... and nowhere else, as long as the batch is not ending.
NothingDropped ==
  ~Ending => \A m \in Passed : m \in Given \/ m \in batch \/ \E w \in Scrapers : Carries(w, m)

\* Where the run is, and what is left in its hands there.
Quiet == phase \in {"idle", "fetch", "index", "ended"}
RunPhases ==
  /\ Quiet => batch = {} /\ \A w \in Scrapers : scraper[w] = NoMovie
  /\ phase = "closed" /\ ~Ending => batch = {}
  /\ phase \in {"idle", "fetch"} => ~aborted

ToDo == FirstOf(Candidates, IF RunLimit = 0 THEN Cardinality(Candidates) ELSE RunLimit)
WithinLimit == RunLimit > 0 /\ ~Ending => Cardinality(Passed) <= RunLimit
CleanEnd == verdict = "ok" => phase \in {"index", "ended"} /\ Given = ToDo

Unreachable(i) == delivered[i].result = "unreachable"
UnreachableNext(i) == delivered'[i].result = "unreachable"

\* The streak is the longest row of unreachable results at the end.
StreakIsRow ==
  /\ streak <= Done /\ \A i \in 1 .. Done : i > Done - streak => Unreachable(i)
  /\ streak < Done => ~Unreachable(Done - streak)

ScrapeInv ==
  /\ ScrapeTyped /\ OnePlace /\ NothingDropped /\ RunPhases /\ WithinLimit /\ CleanEnd
  /\ StreakIsRow /\ BreakerIsJust
-----------------------------------------------------------------------------
(* FirstOf *)

LEMMA LeastOf ==
  ASSUME NEW S \in SUBSET Nat, S # {}
  PROVE  \E x \in S : \A y \in S : x <= y
  <1>1. PICK x \in S : \A y \in S : <<y, x>> \notin OpToRel(<, Nat)
    BY NatLessThanWellFounded, WFMin, Zenon
  <1>2. \A y \in S : ~(y < x)
    BY <1>1, Zenon DEF OpToRel
  <1>3. ASSUME NEW y \in S PROVE x <= y
    <2>1. x \in Nat /\ y \in Nat
      OBVIOUS
    <2> QED BY <1>2, <2>1
  <1> QED BY <1>3

\* What lies below a number of the set, and how much of it there is.
LEMMA LowerPart ==
  ASSUME NEW S \in SUBSET Candidates, NEW m
  PROVE  LET low == {k \in S : k < m}
         IN  low \in SUBSET S /\ IsFiniteSet(low) /\ Cardinality(low) \in Nat
  <1> DEFINE low == {k \in S : k < m}
  <1>1. IsFiniteSet(S) /\ low \in SUBSET S
    BY ScrapeAssumption, FS_Subset
  <1> HIDE DEF low
  <1>2. IsFiniteSet(low) /\ Cardinality(low) \in Nat
    BY <1>1, FS_Subset, FS_CardinalityType
  <1> QED BY <1>1, <1>2 DEF low

\* The first n of a set are none only of an empty set.
LEMMA FirstOfNone ==
  ASSUME NEW S \in SUBSET Candidates, NEW n \in Nat \ {0}, FirstOf(S, n) = {}
  PROVE  S = {}
  <1> SUFFICES ASSUME S # {} PROVE FALSE
    OBVIOUS
  <1>1. PICK x \in S : \A y \in S : x <= y
    BY ScrapeAssumption, LeastOf
  <1>2. {k \in S : k < x} = {}
    <2>1. ASSUME NEW k \in S PROVE ~(k < x)
      <3>1. x \in Nat /\ k \in Nat /\ x <= k
        BY <1>1, ScrapeAssumption
      <3> QED BY <3>1
    <2> QED BY <2>1
  <1>3. x \in FirstOf(S, n)
    BY <1>2, FS_EmptySet DEF FirstOf
  <1> QED BY <1>3

\* The first n of a set, up to the last of them, are no more than n, and they
\* are all there is up to there.
LEMMA FirstOfUpTo ==
  ASSUME NEW S \in SUBSET Candidates, NEW n \in Int, NEW last \in FirstOf(S, n),
         \A m \in FirstOf(S, n) : m <= last
  PROVE  /\ FirstOf(S, n) = {m \in S : m <= last}
         /\ IsFiniteSet(FirstOf(S, n)) /\ Cardinality(FirstOf(S, n)) \in Nat
         /\ Cardinality(FirstOf(S, n)) <= n
  <1> DEFINE low == {k \in S : k < last}
             all == {m \in S : m <= last}
  <1>1. last \in S /\ last \in Nat /\ S \subseteq Nat /\ Cardinality(low) < n
    BY ScrapeAssumption DEF FirstOf
  <1>2. low \in SUBSET S /\ IsFiniteSet(low) /\ Cardinality(low) \in Nat
    BY LowerPart
  <1>3. ASSUME NEW m \in S, m <= last PROVE m \in FirstOf(S, n)
    <2> DEFINE lower == {k \in S : k < m}
    <2>1. lower \in SUBSET low
      <3>1. ASSUME NEW k \in S, k < m PROVE k < last
        <4>1. k \in Nat /\ m \in Nat /\ last \in Nat
          BY <1>1
        <4> QED BY <3>1, <1>3, <4>1
      <3> QED BY <3>1
    <2>2. Cardinality(lower) \in Nat
      BY LowerPart
    <2> HIDE DEF low, lower
    <2>3. Cardinality(lower) <= Cardinality(low)
      BY <1>2, <2>1, FS_Subset
    <2>4. Cardinality(lower) < n
      BY <1>1, <1>2, <2>2, <2>3
    <2> QED BY <2>4 DEF FirstOf, lower
  <1>4. FirstOf(S, n) = all
    BY <1>3 DEF FirstOf
  <1>5. all = low \cup {last} /\ last \notin low
    <2>1. ASSUME NEW m \in S PROVE m <= last <=> m < last \/ m = last
      <3>1. m \in Nat /\ last \in Nat
        BY <1>1
      <3> QED BY <3>1
    <2>2. last <= last /\ ~(last < last)
      BY <1>1
    <2>3. last \in all /\ last \notin low
      BY <1>1, <2>2
    <2>4. ASSUME NEW m \in all PROVE m \in low \/ m = last
      BY <2>1
    <2>5. ASSUME NEW m \in low PROVE m \in all
      BY <2>1
    <2> HIDE DEF low, all
    <2> QED BY <2>3, <2>4, <2>5
  <1> HIDE DEF low, all
  <1>6. IsFiniteSet(all) /\ Cardinality(all) = Cardinality(low) + 1
    BY <1>2, <1>5, FS_AddElement
  <1> QED BY <1>1, <1>2, <1>4, <1>6 DEF all

\* What is passed is the first n of the candidates when there are n of it, or
\* when there is nothing else.
LEMMA PassedIsFirst ==
  ASSUME NEW n \in Nat, afterID \in Nat, Cardinality(Passed) <= n,
         Cardinality(Passed) = n \/ Passed = Candidates
  PROVE  FirstOf(Candidates, n) = Passed
  <1>1. Passed \in SUBSET Candidates /\ IsFiniteSet(Passed) /\ Cardinality(Passed) \in Nat
    <2>1. Passed \in SUBSET Candidates
      BY DEF Passed
    <2> QED BY <2>1, ScrapeAssumption, FS_Subset, FS_CardinalityType
  <1>2. ASSUME NEW m \in Passed PROVE m \in FirstOf(Candidates, n)
    <2>1. m \in Candidates /\ m \in Nat /\ m <= afterID
      BY ScrapeAssumption DEF Passed
    <2> DEFINE low == {k \in Candidates : k < m}
    <2>2. low \in SUBSET (Passed \ {m})
      <3>1. ASSUME NEW k \in Candidates, k < m PROVE k <= afterID /\ k # m
        <4>1. k \in Nat
          BY ScrapeAssumption
        <4> QED BY <2>1, <3>1, <4>1
      <3> QED BY <3>1 DEF Passed
    <2>3. Cardinality(low) \in Nat
      BY LowerPart
    <2> HIDE DEF low
    <2>4. IsFiniteSet(Passed \ {m}) /\ Cardinality(Passed \ {m}) = Cardinality(Passed) - 1
      BY <1>1, <1>2, FS_RemoveElement
    <2>5. Cardinality(low) <= Cardinality(Passed \ {m})
      BY <2>2, <2>4, FS_Subset
    <2>6. Cardinality(low) < n
      BY <1>1, <2>3, <2>4, <2>5
    <2> QED BY <2>1, <2>6 DEF FirstOf, low
  <1>3. ASSUME NEW m \in FirstOf(Candidates, n), m \notin Passed PROVE FALSE
    <2>1. m \in Candidates /\ m \in Nat /\ m > afterID
      BY <1>3, ScrapeAssumption DEF Passed, FirstOf
    <2> DEFINE low == {k \in Candidates : k < m}
    <2>2. Passed \in SUBSET low
      <3>1. ASSUME NEW k \in Candidates, k <= afterID PROVE k < m
        <4>1. k \in Nat
          BY ScrapeAssumption
        <4> QED BY <2>1, <3>1, <4>1
      <3> QED BY <3>1 DEF Passed
    <2>3. IsFiniteSet(low) /\ Cardinality(low) \in Nat /\ Cardinality(low) < n
      <3>1. IsFiniteSet(low) /\ Cardinality(low) \in Nat
        BY LowerPart
      <3> QED BY <3>1 DEF FirstOf
    <2> HIDE DEF low
    <2>4. Cardinality(Passed) <= Cardinality(low)
      BY <2>2, <2>3, FS_Subset
    <2>5. Passed # Candidates
      BY <1>3, <2>1
    <2> QED BY <1>1, <2>3, <2>4, <2>5
  <1> QED BY <1>2, <1>3
-----------------------------------------------------------------------------
(* Where the movies are *)

PlacesInv ==
  ScrapeTyped /\ OnePlace /\ NothingDropped /\ RunPhases /\ WithinLimit /\ CleanEnd

LEMMA NoWorkAtRest ==
  /\ NoMovie \notin MovieWork /\ GoneScraper \notin MovieWork
  /\ NoMovie.at = "waiting" /\ GoneScraper.at = "gone"
  /\ \A r \in MovieWork : r.at \in {"search", "apply", "written", "deliver"} /\ r.movie \in Candidates
  /\ \A r \in MovieWork : r.at = "deliver" => r.result \in ScrapeResults
  BY DEF NoMovie, GoneScraper, MovieWork

LEMMA WorkerIs ==
  ASSUME ScrapeTyped, NEW w \in Scrapers
  PROVE  /\ scraper[w].at \in {"search", "apply", "written", "deliver"} => scraper[w] \in MovieWork
         /\ scraper[w].at = "waiting" => scraper[w] = NoMovie
         /\ scraper[w].at = "gone" => scraper[w] = GoneScraper
  <1>1. scraper[w] \in MovieWork \/ scraper[w] = NoMovie \/ scraper[w] = GoneScraper
    BY DEF ScrapeTyped
  <1>2. CASE scraper[w] \in MovieWork
    <2>1. scraper[w].at \in {"search", "apply", "written", "deliver"}
      BY <1>2, NoWorkAtRest
    <2> QED BY <1>2, <2>1
  <1>3. CASE scraper[w] = NoMovie
    BY <1>3, NoWorkAtRest
  <1>4. CASE scraper[w] = GoneScraper
    BY <1>4, NoWorkAtRest
  <1> QED BY <1>1, <1>2, <1>3, <1>4

\* A worker at rest carries nothing, and one that works carries its movie.
LEMMA WhoCarries ==
  ASSUME ScrapeTyped, NEW w \in Scrapers, NEW new, scraper' = [scraper EXCEPT ![w] = new]
  PROVE  /\ \A v \in Scrapers \ {w} : \A m : Carries(v, m)' <=> Carries(v, m)
         /\ \A m : Carries(w, m)' <=> new \in MovieWork /\ new.movie = m
  BY DEF ScrapeTyped, Carries

LEMMA BusyIsNotQuiet ==
  ASSUME RunPhases, NEW w \in Scrapers, scraper[w] # NoMovie
  PROVE  ~Quiet
  BY DEF RunPhases

\* A worker goes on with its movie.
LEMMA WorkGoesOn ==
  ASSUME PlacesInv, NEW w \in Scrapers, scraper[w] \in MovieWork,
         NEW new \in MovieWork, new.movie = scraper[w].movie, scraper' = [scraper EXCEPT ![w] = new],
         UNCHANGED <<phase, afterID, batch, stopped, aborted, streak, delivered, verdict>>
  PROVE  PlacesInv'
  <1>1. \A v \in Scrapers : \A m : Carries(v, m)' <=> Carries(v, m)
    BY WhoCarries DEF PlacesInv, Carries
  <1>2. ~Quiet
    BY BusyIsNotQuiet, NoWorkAtRest DEF PlacesInv
  <1>3. ScrapeTyped'
    BY DEF PlacesInv, ScrapeTyped
  <1>4. Given' = Given /\ Passed' = Passed /\ Done' = Done
    BY DEF Given, Passed, Done
  <1>5. OnePlace'
    BY <1>1, <1>4 DEF PlacesInv, OnePlace
  <1>6. NothingDropped'
    BY <1>1, <1>4 DEF PlacesInv, NothingDropped, Ending
  <1>7. RunPhases'
    BY <1>2 DEF PlacesInv, RunPhases, Quiet, Ending
  <1>8. WithinLimit' /\ CleanEnd'
    BY <1>4 DEF PlacesInv, WithinLimit, CleanEnd, Ending
  <1> QED BY <1>3, <1>5, <1>6, <1>7, <1>8 DEF PlacesInv

LEMMA WorkKeepsPlaces ==
  ASSUME PlacesInv, NEW w \in Scrapers, Search(w) \/ WriteMovie(w) \/ FinishMovie(w)
  PROVE  PlacesInv'
  <1>1. scraper[w] \in MovieWork
    <2>1. scraper[w].at \in {"search", "apply", "written"}
      BY DEF Search, WriteMovie, FinishMovie
    <2> QED BY <2>1, WorkerIs DEF PlacesInv
  <1>2. PICK m \in Candidates : m = scraper[w].movie
    BY <1>1, NoWorkAtRest
  <1>3. UNCHANGED <<phase, afterID, batch, stopped, aborted, streak, delivered, verdict>>
    BY DEF Search, WriteMovie, FinishMovie, Stays
  <1> DEFINE answer(r) == [at |-> "deliver", movie |-> m, result |-> r]
             next(p) == [at |-> p, movie |-> m]
  <1>4. \/ \E r \in ScrapeResults : scraper' = [scraper EXCEPT ![w] = answer(r)]
        \/ \E p \in {"apply", "written"} : scraper' = [scraper EXCEPT ![w] = next(p)]
    BY <1>2 DEF Search, WriteMovie, FinishMovie, Answers, WorkerAt, ScrapeResults
  <1>5. /\ \A r \in ScrapeResults : answer(r) \in MovieWork /\ answer(r).movie = m
        /\ \A p \in {"apply", "written"} : next(p) \in MovieWork /\ next(p).movie = m
    BY DEF MovieWork
  <1> HIDE DEF answer, next
  <1>6. PICK new \in MovieWork : new.movie = m /\ scraper' = [scraper EXCEPT ![w] = new]
    BY <1>4, <1>5
  <1> QED BY <1>1, <1>2, <1>3, <1>6, WorkGoesOn

\* A worker sees that the channel is closed.
LEMMA SeesKeepsPlaces ==
  ASSUME PlacesInv, NEW w \in Scrapers, SeesClosed(w)
  PROVE  PlacesInv'
  <1>1. /\ scraper[w] = NoMovie /\ phase = "closed" /\ scraper' = [scraper EXCEPT ![w] = GoneScraper]
        /\ UNCHANGED <<phase, afterID, batch, stopped, aborted, streak, delivered, verdict>>
    BY WorkerIs DEF PlacesInv, SeesClosed, WorkerAt, Stays, GoneScraper
  <1>2. \A v \in Scrapers : \A m : Carries(v, m)' <=> Carries(v, m)
    BY <1>1, WhoCarries, NoWorkAtRest DEF PlacesInv, Carries
  <1>3. ScrapeTyped'
    BY <1>1 DEF PlacesInv, ScrapeTyped
  <1>4. Given' = Given /\ Passed' = Passed /\ Done' = Done
    BY <1>1 DEF Given, Passed, Done
  <1>5. OnePlace'
    BY <1>1, <1>2, <1>4 DEF PlacesInv, OnePlace
  <1>6. NothingDropped'
    BY <1>1, <1>2, <1>4 DEF PlacesInv, NothingDropped, Ending
  <1>7. RunPhases' /\ WithinLimit' /\ CleanEnd'
    BY <1>1, <1>4 DEF PlacesInv, RunPhases, Quiet, Ending, WithinLimit, CleanEnd
  <1> QED BY <1>3, <1>5, <1>6, <1>7 DEF PlacesInv

\* A worker takes a movie, and drops it when the batch is ending.
LEMMA ReceiveKeepsPlaces ==
  ASSUME PlacesInv, NEW w \in Scrapers, Receive(w)
  PROVE  PlacesInv'
  <1>1. PICK m \in batch :
          /\ batch' = batch \ {m}
          /\ scraper' = [scraper EXCEPT ![w] = IF Ending THEN NoMovie ELSE [at |-> "search", movie |-> m]]
    BY DEF Receive, WorkerAt
  <1>2. /\ scraper[w] = NoMovie /\ phase = "send" /\ phase' = "hand" /\ m \in Candidates
        /\ UNCHANGED <<afterID, stopped, aborted, streak, delivered, verdict>>
    BY WorkerIs DEF PlacesInv, ScrapeTyped, Receive
  <1>3. PICK new \in MovieWork \cup {NoMovie} :
          /\ scraper' = [scraper EXCEPT ![w] = new]
          /\ IF Ending THEN new = NoMovie ELSE new \in MovieWork /\ new.movie = m
    <2>1. [at |-> "search", movie |-> m] \in MovieWork /\ [at |-> "search", movie |-> m].movie = m
      BY <1>2 DEF MovieWork
    <2> QED BY <1>1, <2>1
  <1>4. /\ \A v \in Scrapers \ {w} : \A k : Carries(v, k)' <=> Carries(v, k)
        /\ \A k : Carries(w, k)' <=> ~Ending /\ k = m
        /\ \A k : ~Carries(w, k)
    <2>1. /\ \A v \in Scrapers \ {w} : \A k : Carries(v, k)' <=> Carries(v, k)
          /\ \A k : Carries(w, k)' <=> new \in MovieWork /\ new.movie = k
      BY <1>3, WhoCarries DEF PlacesInv
    <2>2. \A k : ~Carries(w, k)
      BY <1>2, NoWorkAtRest DEF Carries
    <2>3. CASE Ending
      BY <1>3, <2>1, <2>2, <2>3, NoWorkAtRest
    <2>4. CASE ~Ending
      BY <1>3, <2>1, <2>2, <2>4
    <2> QED BY <2>3, <2>4
  <1>5. ScrapeTyped'
    BY <1>1, <1>2, <1>3 DEF PlacesInv, ScrapeTyped
  <1>6. Given' = Given /\ Passed' = Passed /\ Done' = Done /\ Ending' = Ending
    BY <1>2 DEF Given, Passed, Done, Ending
  <1>7. m \in Passed /\ m \notin Given /\ \A v \in Scrapers : ~Carries(v, m)
    BY <1>2 DEF PlacesInv, OnePlace
  <1>8. OnePlace'
    <2>1. ASSUME NEW v \in Scrapers, NEW k \in Candidates, Carries(v, k)'
          PROVE  /\ k \in Passed /\ k \notin Given /\ k \notin batch'
                 /\ \A u \in Scrapers \ {v} : ~Carries(u, k)'
      <3>1. CASE v = w
        BY <1>1, <1>4, <1>7, <2>1, <3>1
      <3>2. CASE v # w
        <4>1. Carries(v, k) /\ k # m
          BY <1>4, <1>7, <2>1, <3>2
        <4> QED BY <1>1, <1>4, <3>2, <4>1 DEF PlacesInv, OnePlace
      <3> QED BY <3>1, <3>2
    <2>2. batch' \subseteq Passed /\ Given \cap batch' = {}
      BY <1>1 DEF PlacesInv, OnePlace
    <2>3. /\ Given \subseteq Passed /\ IsFiniteSet(Given) /\ Cardinality(Given) = Done
          /\ \A i, j \in 1 .. Done : delivered[i].movie = delivered[j].movie => i = j
      BY DEF PlacesInv, OnePlace
    <2> QED BY <1>2, <1>6, <2>1, <2>2, <2>3 DEF OnePlace
  <1>9. NothingDropped'
    <2>1. ASSUME ~Ending, NEW k \in Passed
          PROVE  k \in Given \/ k \in batch' \/ \E v \in Scrapers : Carries(v, k)'
      <3>1. k \in Given \/ k \in batch \/ \E v \in Scrapers : Carries(v, k)
        BY <2>1 DEF PlacesInv, NothingDropped
      <3> QED BY <1>1, <1>4, <2>1, <3>1
    <2> QED BY <1>6, <2>1 DEF NothingDropped
  <1>10. RunPhases' /\ WithinLimit' /\ CleanEnd'
    BY <1>2, <1>6 DEF PlacesInv, RunPhases, Quiet, WithinLimit, CleanEnd
  <1> QED BY <1>5, <1>8, <1>9, <1>10 DEF PlacesInv

LEMMA OneMoreResult ==
  ASSUME delivered \in Seq(ResultRow), NEW row \in ResultRow, delivered' = Append(delivered, row)
  PROVE  /\ delivered' \in Seq(ResultRow) /\ Done \in Nat /\ Done' = Done + 1
         /\ \A i \in 1 .. Done : delivered'[i] = delivered[i]
         /\ delivered'[Done + 1] = row /\ Given' = Given \cup {row.movie}
  <1>1. /\ delivered' \in Seq(ResultRow) /\ Done \in Nat /\ Done' = Done + 1
        /\ \A i \in 1 .. Done : delivered'[i] = delivered[i]
        /\ delivered'[Done + 1] = row
    BY DEF Done
  <1>2. 1 .. Done' = (1 .. Done) \cup {Done + 1}
    BY <1>1
  <1>3. Given' = {delivered'[i].movie : i \in 1 .. Done'}
    BY DEF Given
  <1>4. ASSUME NEW m PROVE m \in Given' <=> m \in Given \/ m = row.movie
    BY <1>1, <1>2, <1>3 DEF Given
  <1>5. Given' = Given \cup {row.movie}
    BY <1>4
  <1> QED BY <1>1, <1>5

\* The result of a movie is delivered.
LEMMA DeliverKeepsPlaces ==
  ASSUME PlacesInv, NEW w \in Scrapers, Deliver(w)
  PROVE  PlacesInv'
  <1>1. scraper[w] \in MovieWork /\ scraper[w].at = "deliver"
    <2>1. scraper[w].at = "deliver"
      BY DEF Deliver, Emit
    <2> QED BY <2>1, WorkerIs DEF PlacesInv
  <1>2. PICK m \in Candidates, r \in ScrapeResults : m = scraper[w].movie /\ r = scraper[w].result
    BY <1>1, NoWorkAtRest
  <1>3. /\ streak' = Streak(r) /\ aborted' = (aborted \/ streak' >= MaxFailures)
        /\ delivered' = Append(delivered, [movie |-> m, result |-> r])
        /\ scraper' = [scraper EXCEPT ![w] = NoMovie]
        /\ UNCHANGED <<phase, afterID, batch, stopped, verdict>>
    BY <1>2 DEF Deliver, Emit, WorkerAt, Stays
  <1>4. [movie |-> m, result |-> r] \in ResultRow /\ [movie |-> m, result |-> r].movie = m
    BY DEF ResultRow
  <1>5. /\ delivered' \in Seq(ResultRow) /\ Done \in Nat /\ Done' = Done + 1
        /\ \A i \in 1 .. Done : delivered'[i] = delivered[i]
        /\ delivered'[Done + 1].movie = m /\ Given' = Given \cup {m}
    BY <1>3, <1>4, OneMoreResult DEF PlacesInv, ScrapeTyped
  <1>6. Carries(w, m) /\ m \in Passed /\ m \notin Given /\ m \notin batch
        /\ \A v \in Scrapers \ {w} : ~Carries(v, m)
    BY <1>1, <1>2 DEF Carries, PlacesInv, OnePlace
  <1>7. /\ \A v \in Scrapers \ {w} : \A k : Carries(v, k)' <=> Carries(v, k)
        /\ \A k : ~Carries(w, k)' /\ (Carries(w, k) => k = m)
    BY <1>2, <1>3, WhoCarries, NoWorkAtRest DEF PlacesInv, Carries
  <1>8. ScrapeTyped'
    <2>1. streak' \in Nat /\ aborted' \in BOOLEAN
      BY <1>3 DEF PlacesInv, ScrapeTyped, Streak
    <2> QED BY <1>3, <1>5, <2>1 DEF PlacesInv, ScrapeTyped
  <1>9. Passed' = Passed /\ (Ending => Ending')
    BY <1>3 DEF Passed, Ending
  <1>10. OnePlace'
    <2>1. ASSUME NEW v \in Scrapers, NEW k \in Candidates, Carries(v, k)'
          PROVE  /\ k \in Passed /\ k \notin Given' /\ k \notin batch'
                 /\ \A u \in Scrapers \ {v} : ~Carries(u, k)'
      <3>1. v # w /\ Carries(v, k) /\ k # m
        BY <1>6, <1>7, <2>1
      <3> QED BY <1>3, <1>5, <1>7, <3>1 DEF PlacesInv, OnePlace
    <2>2. Given' \subseteq Passed /\ batch' \subseteq Passed /\ Given' \cap batch' = {}
      BY <1>3, <1>5, <1>6 DEF PlacesInv, OnePlace
    <2>3. IsFiniteSet(Given') /\ Cardinality(Given') = Done'
      BY <1>5, <1>6, FS_AddElement DEF PlacesInv, OnePlace
    <2>4. ASSUME NEW i \in 1 .. Done', NEW j \in 1 .. Done', delivered'[i].movie = delivered'[j].movie
          PROVE  i = j
      <3>1. \A k \in 1 .. Done' : k \in 1 .. Done \/ k = Done + 1
        BY <1>5
      <3>2. \A k \in 1 .. Done : delivered'[k].movie = delivered[k].movie /\ delivered[k].movie # m
        BY <1>5, <1>6 DEF Given
      <3>3. i \in 1 .. Done <=> j \in 1 .. Done
        BY <1>5, <2>4, <3>1, <3>2
      <3> QED BY <2>4, <3>1, <3>2, <3>3 DEF PlacesInv, OnePlace
    <2> QED BY <1>9, <2>1, <2>2, <2>3, <2>4 DEF OnePlace
  <1>11. NothingDropped'
    <2>1. ASSUME ~Ending, NEW k \in Passed
          PROVE  k \in Given' \/ k \in batch' \/ \E v \in Scrapers : Carries(v, k)'
      <3>1. k \in Given \/ k \in batch \/ \E v \in Scrapers : Carries(v, k)
        BY <2>1 DEF PlacesInv, NothingDropped
      <3> QED BY <1>3, <1>5, <1>7, <3>1
    <2> QED BY <1>9, <2>1 DEF NothingDropped
  <1>12. ~Quiet /\ phase \notin {"index", "ended"}
    <2>1. ~Quiet
      BY <1>1, NoWorkAtRest, BusyIsNotQuiet DEF PlacesInv
    <2> QED BY <2>1 DEF Quiet
  <1>13. RunPhases' /\ WithinLimit' /\ CleanEnd'
    BY <1>3, <1>9, <1>12 DEF PlacesInv, RunPhases, Quiet, WithinLimit, CleanEnd, Ending
  <1> QED BY <1>8, <1>10, <1>11, <1>13 DEF PlacesInv

\* The steps of the dispatcher that only move it, a cancellation, and the scan
\* at the end.
LEMMA MovingKeepsPlaces ==
  ASSUME PlacesInv, StartBatch \/ Offer \/ CancelScrape \/ IndexSaved
  PROVE  PlacesInv'
  <1>1. UNCHANGED <<afterID, batch, scraper, streak, aborted, delivered>>
    BY DEF StartBatch, Offer, CancelScrape, IndexSaved, DispatcherOnly
  <1>2. (stopped => stopped') /\ stopped' \in BOOLEAN /\ (Ending => Ending')
    BY <1>1 DEF StartBatch, Offer, CancelScrape, IndexSaved, PlacesInv, ScrapeTyped, Ending
  <1>3. Given' = Given /\ Passed' = Passed /\ Done' = Done /\ \A w, m : Carries(w, m)' <=> Carries(w, m)
    BY <1>1 DEF Given, Passed, Done, Carries
  <1>4. ScrapeTyped'
    <2>1. phase' \in {"idle", "fetch", "hand", "send", "closed", "index", "ended"}
      BY DEF StartBatch, Offer, CancelScrape, IndexSaved, PlacesInv, ScrapeTyped
    <2> QED BY <1>1, <1>2, <2>1 DEF PlacesInv, ScrapeTyped
  <1>5. OnePlace'
    BY <1>1, <1>3 DEF PlacesInv, OnePlace
  <1>6. NothingDropped' /\ WithinLimit'
    BY <1>1, <1>2, <1>3 DEF PlacesInv, NothingDropped, WithinLimit
  <1>7. RunPhases' /\ CleanEnd'
    <2>1. CASE StartBatch
      BY <2>1, <1>1, <1>3 DEF StartBatch, PlacesInv, RunPhases, CleanEnd, Quiet
    <2>2. CASE Offer
      BY <2>2, <1>1, <1>2, <1>3 DEF Offer, PlacesInv, RunPhases, CleanEnd, Quiet
    <2>3. CASE CancelScrape
      BY <2>3, <1>1, <1>2, <1>3 DEF CancelScrape, PlacesInv, RunPhases, CleanEnd, Quiet
    <2>4. CASE IndexSaved
      BY <2>4, <1>1, <1>3 DEF IndexSaved, PlacesInv, RunPhases, CleanEnd, Quiet
    <2> QED BY <2>1, <2>2, <2>3, <2>4
  <1> QED BY <1>4, <1>5, <1>6, <1>7 DEF PlacesInv

\* Run judges a batch when all of its workers have left.
LEMMA JudgeKeepsPlaces ==
  ASSUME PlacesInv, JudgeBatch
  PROVE  PlacesInv'
  <1>1. /\ phase = "closed" /\ phase' = IF Ending THEN "index" ELSE "fetch"
        /\ scraper' = [w \in Scrapers |-> NoMovie] /\ batch' = {}
        /\ UNCHANGED <<afterID, streak, aborted, stopped, delivered>>
        /\ verdict' \in {"aborted", "cancelled", verdict}
    BY DEF JudgeBatch
  <1>2. \A w \in Scrapers : \A m : ~Carries(w, m) /\ ~Carries(w, m)'
    <2>1. \A w \in Scrapers : scraper[w] = GoneScraper
      BY WorkerIs DEF PlacesInv, JudgeBatch
    <2> QED BY <1>1, <2>1, NoWorkAtRest DEF Carries
  <1>3. Given' = Given /\ Passed' = Passed /\ Done' = Done /\ (Ending <=> Ending')
    BY <1>1 DEF Given, Passed, Done, Ending
  <1>4. ScrapeTyped'
    BY <1>1 DEF PlacesInv, ScrapeTyped
  <1>5. OnePlace'
    BY <1>1, <1>2, <1>3 DEF PlacesInv, OnePlace
  <1>6. NothingDropped'
    BY <1>1, <1>2, <1>3 DEF PlacesInv, NothingDropped, RunPhases
  <1>7. WithinLimit'
    BY <1>3 DEF PlacesInv, WithinLimit
  <1>8. RunPhases'
    BY <1>1 DEF RunPhases, Quiet, Ending
  <1>9. CleanEnd'
    BY <1>1 DEF PlacesInv, CleanEnd
  <1> QED BY <1>4, <1>5, <1>6, <1>7, <1>8, <1>9 DEF PlacesInv

\* Behind the cursor, between two batches.
LEMMA AllGiven ==
  ASSUME PlacesInv, phase = "fetch", ~Ending
  PROVE  Given = Passed /\ Cardinality(Passed) = Done
  <1>1. batch = {} /\ \A w \in Scrapers : \A m : ~Carries(w, m)
    BY NoWorkAtRest DEF PlacesInv, RunPhases, Quiet, Carries
  <1>2. Given = Passed
    BY <1>1 DEF PlacesInv, NothingDropped, OnePlace
  <1> QED BY <1>2 DEF PlacesInv, OnePlace

\* No more movies are found: what is behind the cursor is all that was asked for.
LEMMA NothingLeftIsAll ==
  ASSUME PlacesInv, phase = "fetch", ~Ending,
         FirstOf({m \in Candidates : m > afterID}, Wanted) = {}
  PROVE  Given = ToDo
  <1> DEFINE S == {m \in Candidates : m > afterID}
  <1>1. Given = Passed /\ Cardinality(Passed) = Done
    BY AllGiven
  <1>2. /\ afterID \in Nat /\ Done \in Nat /\ BatchSize \in Nat \ {0} /\ RunLimit \in Nat
        /\ IsFiniteSet(Candidates) /\ Cardinality(Candidates) \in Nat
        /\ RunLimit > 0 => Done <= RunLimit
    BY <1>1, ScrapeAssumption, FS_CardinalityType DEF PlacesInv, ScrapeTyped, Done, WithinLimit
  <1>3. Passed \in SUBSET Candidates /\ (S = {} => Passed = Candidates)
    <2>1. ASSUME S = {}, NEW m \in Candidates PROVE m <= afterID
      <3>1. m \in Nat
        BY ScrapeAssumption
      <3> QED BY <1>2, <2>1, <3>1
    <2> QED BY <2>1 DEF Passed
  <1>4. Wanted \in Nat \ {0} => S = {}
    BY FirstOfNone
  <1> HIDE DEF S
  <1>5. Cardinality(Passed) <= Cardinality(Candidates)
    BY <1>2, <1>3, FS_Subset
  <1>6. CASE RunLimit = 0
    <2>1. Passed = Candidates
      BY <1>2, <1>3, <1>4, <1>6 DEF Wanted
    <2>2. FirstOf(Candidates, Cardinality(Candidates)) = Passed
      BY <1>2, <2>1, PassedIsFirst
    <2> QED BY <1>1, <1>6, <2>2 DEF ToDo
  <1>7. CASE RunLimit > 0
    <2>1. Cardinality(Passed) = RunLimit \/ Passed = Candidates
      <3>1. CASE Done = RunLimit
        BY <3>1, <1>1
      <3>2. CASE Done < RunLimit
        <4>1. Wanted \in Nat \ {0}
          BY <1>2, <1>7, <3>2 DEF Wanted
        <4> QED BY <1>3, <1>4, <4>1
      <3> QED BY <1>2, <1>7, <3>1, <3>2
    <2>2. Cardinality(Passed) <= RunLimit
      BY <1>1, <1>2, <1>7
    <2>3. FirstOf(Candidates, RunLimit) = Passed
      BY <1>2, <2>1, <2>2, PassedIsFirst
    <2> QED BY <1>1, <1>2, <1>7, <2>3 DEF ToDo
  <1> QED BY <1>2, <1>6, <1>7

\* The next batch is what lies between the old cursor and the new one.
LEMMA NextBatch ==
  ASSUME ScrapeTyped, NEW S, S = {m \in Candidates : m > afterID},
         NEW last \in FirstOf(S, Wanted), \A m \in FirstOf(S, Wanted) : m <= last, afterID' = last
  PROVE  /\ IsFiniteSet(FirstOf(S, Wanted)) /\ Cardinality(FirstOf(S, Wanted)) \in Nat
         /\ Cardinality(FirstOf(S, Wanted)) <= Wanted /\ FirstOf(S, Wanted) \subseteq Candidates
         /\ Passed' = Passed \cup FirstOf(S, Wanted) /\ Passed \cap FirstOf(S, Wanted) = {}
  <1>1. S \in SUBSET Candidates /\ last \in Nat /\ afterID \in Nat /\ last > afterID /\ Wanted \in Int
    BY ScrapeAssumption DEF FirstOf, ScrapeTyped, Done, Wanted
  <1>2. PICK next : next = FirstOf(S, Wanted)
    OBVIOUS
  <1>3. /\ next = {m \in S : m <= last}
        /\ IsFiniteSet(next) /\ Cardinality(next) \in Nat /\ Cardinality(next) <= Wanted
    BY <1>1, <1>2, FirstOfUpTo
  <1>4. Passed' = Passed \cup next /\ Passed \cap next = {}
    <2>1. ASSUME NEW m \in Candidates
          PROVE  (m <= last <=> m <= afterID \/ (m > afterID /\ m <= last)) /\ ~(m <= afterID /\ m > afterID)
      <3>1. m \in Nat
        BY ScrapeAssumption
      <3> QED BY <1>1, <3>1
    <2>2. Passed' = {m \in Candidates : m <= last}
      BY DEF Passed
    <2> QED BY <1>3, <2>1, <2>2 DEF Passed
  <1> QED BY <1>1, <1>2, <1>3, <1>4

\* The next batch is fetched, or there is none.
LEMMA FetchKeepsPlaces ==
  ASSUME PlacesInv, FetchBatch
  PROVE  PlacesInv'
  <1> DEFINE S == {m \in Candidates : m > afterID}
             next == FirstOf(S, Wanted)
  <1>1. /\ phase = "fetch" /\ batch = {} /\ \A w \in Scrapers : scraper[w] = NoMovie
        /\ UNCHANGED <<scraper, streak, aborted, stopped, delivered>>
    BY DEF FetchBatch, DispatcherOnly, PlacesInv, RunPhases, Quiet
  <1>2. \A w \in Scrapers : \A m : ~Carries(w, m) /\ ~Carries(w, m)'
    BY <1>1, NoWorkAtRest DEF Carries
  <1>3. Given' = Given /\ Done' = Done /\ (Ending <=> Ending') /\ verdict # "ok" /\ ~aborted
    BY <1>1 DEF Given, Done, Ending, PlacesInv, CleanEnd, RunPhases
  <1>4. CASE phase' = "index" /\ UNCHANGED <<batch, afterID>> /\ (verdict' = "ok" => ~stopped /\ next = {})
    <2>1. Passed' = Passed
      BY <1>4 DEF Passed
    <2>2. ScrapeTyped'
      BY <1>1, <1>4 DEF PlacesInv, ScrapeTyped
    <2>3. OnePlace' /\ NothingDropped'
      BY <1>1, <1>2, <1>3, <1>4, <2>1 DEF PlacesInv, OnePlace, NothingDropped
    <2>4. RunPhases' /\ WithinLimit'
      BY <1>1, <1>3, <1>4, <2>1 DEF PlacesInv, RunPhases, WithinLimit, Quiet
    <2>5. CleanEnd'
      <3>1. verdict' = "ok" => Given = ToDo
        BY <1>1, <1>3, <1>4, NothingLeftIsAll DEF Ending
      <3> QED BY <1>3, <1>4, <3>1 DEF CleanEnd, ToDo
    <2> QED BY <2>2, <2>3, <2>4, <2>5 DEF PlacesInv
  <1>5. ASSUME NEW last \in next, \A m \in next : m <= last, afterID' = last,
               phase' = "hand", batch' = next, verdict' = verdict
        PROVE  PlacesInv'
    <2>1. last \in Nat /\ Done \in Nat /\ RunLimit \in Nat /\ Wanted \in Int
      BY ScrapeAssumption DEF FirstOf, PlacesInv, ScrapeTyped, Done, Wanted
    <2>2. IsFiniteSet(next) /\ Cardinality(next) \in Nat /\ Cardinality(next) <= Wanted /\ next \subseteq Candidates
      BY <1>5, NextBatch DEF PlacesInv
    <2>3. Passed' = Passed \cup next /\ Passed \cap next = {}
      BY <1>5, NextBatch DEF PlacesInv
    <2> HIDE DEF S, next
    <2>5. ScrapeTyped'
      BY <1>1, <1>5, <2>1, <2>2 DEF PlacesInv, ScrapeTyped
    <2>6. OnePlace'
      BY <1>1, <1>2, <1>3, <1>5, <2>3 DEF PlacesInv, OnePlace
    <2>7. NothingDropped'
      BY <1>1, <1>2, <1>3, <1>5, <2>3 DEF PlacesInv, NothingDropped
    <2>8. RunPhases' /\ CleanEnd'
      BY <1>3, <1>5 DEF RunPhases, CleanEnd, Quiet
    <2>9. ASSUME RunLimit > 0, ~Ending PROVE Cardinality(Passed') <= RunLimit
      <3>1. Given = Passed /\ Cardinality(Passed) = Done /\ IsFiniteSet(Passed)
        BY <1>1, <2>9, AllGiven DEF PlacesInv, OnePlace
      <3>2. Wanted <= RunLimit - Done
        BY <2>1, <2>9, ScrapeAssumption DEF Wanted
      <3>3. Cardinality(Passed \cup next) = Cardinality(Passed) + Cardinality(next) - 0
        BY <2>2, <2>3, <3>1, FS_Union, FS_EmptySet
      <3> QED BY <2>1, <2>2, <2>3, <3>1, <3>2, <3>3
    <2>10. WithinLimit'
      BY <1>3, <2>9 DEF WithinLimit
    <2> QED BY <2>5, <2>6, <2>7, <2>8, <2>10 DEF PlacesInv
  <1> QED BY <1>4, <1>5 DEF FetchBatch

LEMMA ScrapeInitOK == ScrapeInit => PlacesInv /\ StreakIsRow /\ BreakerIsJust
  <1> SUFFICES ASSUME ScrapeInit PROVE PlacesInv /\ StreakIsRow /\ BreakerIsJust
    OBVIOUS
  <1>1. Done = 0 /\ Given = {}
    BY DEF ScrapeInit, Done, Given
  <1>2. Passed = {}
    <2>1. ASSUME NEW m \in Candidates PROVE ~(m <= 0)
      BY ScrapeAssumption
    <2> QED BY <2>1 DEF ScrapeInit, Passed
  <1>3. ScrapeTyped
    <2>1. scraper \in [Scrapers -> MovieWork \cup {NoMovie, GoneScraper}]
      BY DEF ScrapeInit
    <2>2. delivered \in Seq(ResultRow)
      BY DEF ScrapeInit
    <2> QED BY <2>1, <2>2 DEF ScrapeInit, ScrapeTyped
  <1>4. \A w \in Scrapers : \A m : ~Carries(w, m)
    BY NoWorkAtRest DEF ScrapeInit, Carries
  <1>5. OnePlace /\ NothingDropped
    BY <1>1, <1>2, <1>4, FS_EmptySet DEF ScrapeInit, OnePlace, NothingDropped
  <1>6. RunPhases /\ WithinLimit /\ CleanEnd
    <2>1. RunPhases /\ CleanEnd
      BY DEF ScrapeInit, RunPhases, CleanEnd, Quiet
    <2>2. WithinLimit
      BY <1>2, FS_EmptySet, ScrapeAssumption DEF WithinLimit
    <2> QED BY <2>1, <2>2
  <1>7. StreakIsRow /\ BreakerIsJust
    BY <1>1, ScrapeAssumption DEF ScrapeInit, StreakIsRow, BreakerIsJust
  <1> QED BY <1>3, <1>5, <1>6, <1>7 DEF PlacesInv
-----------------------------------------------------------------------------
(* The breaker *)

\* The last n results are a row of unreachable ones: n is within the streak.
LEMMA DeliverKeepsStreak ==
  ASSUME ScrapeTyped, StreakIsRow, BreakerIsJust, NEW w \in Scrapers, Deliver(w)
  PROVE  StreakIsRow' /\ BreakerIsJust'
  <1>1. scraper[w] \in MovieWork /\ scraper[w].at = "deliver"
    <2>1. scraper[w].at = "deliver"
      BY DEF Deliver, Emit
    <2> QED BY <2>1, WorkerIs
  <1>2. PICK m \in Candidates, r \in ScrapeResults : m = scraper[w].movie /\ r = scraper[w].result
    BY <1>1, NoWorkAtRest
  <1>3. /\ streak' = Streak(r) /\ aborted' = (aborted \/ streak' >= MaxFailures)
        /\ delivered' = Append(delivered, [movie |-> m, result |-> r])
    BY <1>2 DEF Deliver, Emit
  <1>4. [movie |-> m, result |-> r] \in ResultRow /\ [movie |-> m, result |-> r].result = r
    BY DEF ResultRow
  <1>5. /\ Done \in Nat /\ Done' = Done + 1
        /\ \A i \in 1 .. Done : UnreachableNext(i) <=> Unreachable(i)
        /\ UnreachableNext(Done + 1) <=> r = "unreachable"
    BY <1>3, <1>4, OneMoreResult DEF ScrapeTyped, Unreachable, UnreachableNext
  <1>6. streak \in Nat /\ MaxFailures \in Nat \ {0} /\ streak <= Done
    BY ScrapeAssumption DEF ScrapeTyped, StreakIsRow
  <1>a. StreakIsRow' <=>
            /\ streak' <= Done' /\ \A i \in 1 .. Done' : i > Done' - streak' => UnreachableNext(i)
            /\ streak' < Done' => ~UnreachableNext(Done' - streak')
    BY DEF StreakIsRow, Unreachable, UnreachableNext
  <1>b. streak' \in Nat
    BY <1>3, <1>6 DEF Streak
  <1>7. StreakIsRow'
    <2>1. CASE r = "unreachable"
      <3>1. streak' = streak + 1
        BY <1>3, <2>1 DEF Streak
      <3>2. ASSUME NEW i \in 1 .. Done + 1, i > Done + 1 - (streak + 1) PROVE UnreachableNext(i)
        <4>1. CASE i = Done + 1
          BY <4>1, <1>5, <2>1
        <4>2. CASE i # Done + 1
          <5>1. i \in 1 .. Done /\ i > Done - streak
            BY <4>2, <3>2, <1>5, <1>6
          <5> QED BY <5>1, <1>5 DEF StreakIsRow
        <4> QED BY <4>1, <4>2
      <3>3. ASSUME streak + 1 < Done + 1 PROVE ~UnreachableNext(Done + 1 - (streak + 1))
        <4>1. Done - streak \in 1 .. Done /\ Done + 1 - (streak + 1) = Done - streak /\ streak < Done
          BY <3>3, <1>5, <1>6
        <4> QED BY <4>1, <1>5 DEF StreakIsRow
      <3> QED BY <3>1, <3>2, <3>3, <1>a, <1>5, <1>6
    <2>2. CASE r # "unreachable"
      <3>1. streak' = 0
        BY <1>3, <2>2 DEF Streak
      <3>2. /\ \A i \in 1 .. Done' : ~(i > Done' - 0)
            /\ 0 <= Done' /\ Done' - 0 = Done + 1
        BY <1>5
      <3> QED BY <3>1, <3>2, <1>a, <2>2, <1>5
    <2> QED BY <2>1, <2>2
  <1>8. BreakerIsJust <=>
          (aborted <=> \E i \in MaxFailures .. Done : \A j \in i - MaxFailures + 1 .. i : Unreachable(j))
    BY DEF BreakerIsJust, Unreachable
  <1>9. BreakerIsJust' <=>
          (aborted' <=> \E i \in MaxFailures .. Done' : \A j \in i - MaxFailures + 1 .. i : UnreachableNext(j))
    BY DEF BreakerIsJust, UnreachableNext
  <1>10. ASSUME aborted
         PROVE  \E i \in MaxFailures .. Done' : \A j \in i - MaxFailures + 1 .. i : UnreachableNext(j)
    <2>1. PICK i \in MaxFailures .. Done : \A j \in i - MaxFailures + 1 .. i : Unreachable(j)
      BY <1>8, <1>10
    <2>2. i \in MaxFailures .. Done' /\ \A j \in i - MaxFailures + 1 .. i : j \in 1 .. Done
      BY <1>5, <1>6
    <2> QED BY <1>5, <2>1, <2>2
  <1>11. ASSUME streak' >= MaxFailures
         PROVE  \A j \in Done' - MaxFailures + 1 .. Done' : UnreachableNext(j)
    <2>1. /\ streak' <= Done'
          /\ \A j \in 1 .. Done' : j > Done' - streak' => UnreachableNext(j)
      BY <1>a, <1>7
    <2>2. ASSUME NEW s \in Nat, NEW d \in Nat, s <= d, s >= MaxFailures,
                 NEW j \in d - MaxFailures + 1 .. d
          PROVE  j \in 1 .. d /\ j > d - s
      BY <1>6, <2>2
    <2>3. Done' \in Nat
      BY <1>5
    <2>4. \A j \in Done' - MaxFailures + 1 .. Done' : j \in 1 .. Done' /\ j > Done' - streak'
      BY <1>b, <1>11, <2>1, <2>2, <2>3
    <2> QED BY <2>1, <2>4
  <1>12. ASSUME NEW i \in MaxFailures .. Done', \A j \in i - MaxFailures + 1 .. i : UnreachableNext(j)
         PROVE  aborted \/ streak' >= MaxFailures
    <2>1. CASE i \in MaxFailures .. Done
      <3>1. \A j \in i - MaxFailures + 1 .. i : j \in 1 .. Done
        BY <1>5, <1>6, <2>1
      <3>2. \A j \in i - MaxFailures + 1 .. i : Unreachable(j)
        BY <1>5, <1>12, <3>1
      <3> QED BY <1>8, <2>1, <3>2
    <2>2. CASE i = Done'
      <3> SUFFICES ASSUME ~(streak' >= MaxFailures) PROVE FALSE
        OBVIOUS
      <3>1. ASSUME NEW s \in Nat, NEW d \in Nat, d >= MaxFailures, ~(s >= MaxFailures)
            PROVE  s < d /\ d - s \in d - MaxFailures + 1 .. d
        BY <1>6, <3>1
      <3>0. Done' \in Nat /\ Done' >= MaxFailures
        BY <1>5, <1>6, <1>12, <2>2
      <3>2. streak' < Done' /\ Done' - streak' \in Done' - MaxFailures + 1 .. Done'
        BY <1>b, <3>0, <3>1
      <3>3. ~UnreachableNext(Done' - streak')
        BY <1>a, <1>7, <3>2
      <3> QED BY <1>12, <2>2, <3>2, <3>3
    <2> QED BY <1>5, <1>6, <1>12, <2>1, <2>2
  <1>13. Done' \in MaxFailures .. Done' \/ ~(streak' >= MaxFailures)
    <2>1. streak' <= Done'
      BY <1>a, <1>7
    <2> QED BY <1>5, <1>6, <1>b, <2>1
  <1>14. aborted' <=> \E i \in MaxFailures .. Done' : \A j \in i - MaxFailures + 1 .. i : UnreachableNext(j)
    BY <1>3, <1>10, <1>11, <1>12, <1>13
  <1> QED BY <1>7, <1>9, <1>14
-----------------------------------------------------------------------------
LEMMA ScrapeStepKeeps == ScrapeInv /\ [ScrapeNext]_scrapeVars => ScrapeInv'
  <1> SUFFICES ASSUME ScrapeInv, [ScrapeNext]_scrapeVars PROVE ScrapeInv'
    OBVIOUS
  <1>1. PlacesInv /\ StreakIsRow /\ BreakerIsJust
    BY DEF ScrapeInv, PlacesInv
  <1>2. ASSUME PlacesInv', UNCHANGED <<streak, aborted, delivered>> PROVE ScrapeInv'
    BY <1>1, <1>2 DEF ScrapeInv, PlacesInv, StreakIsRow, BreakerIsJust, Unreachable, Done
  <1>3. CASE Dispatcher \/ CancelScrape
    <2>1. PlacesInv'
      BY <1>1, <1>3, MovingKeepsPlaces, FetchKeepsPlaces, JudgeKeepsPlaces DEF Dispatcher
    <2>2. UNCHANGED <<streak, aborted, delivered>>
      BY <1>3 DEF Dispatcher, StartBatch, FetchBatch, Offer, JudgeBatch, IndexSaved, CancelScrape, DispatcherOnly
    <2> QED BY <1>2, <2>1, <2>2
  <1>4. ASSUME NEW w \in Scrapers, ScrapeWorker(w), ~Deliver(w) PROVE ScrapeInv'
    <2>1. PlacesInv'
      BY <1>1, <1>4, ReceiveKeepsPlaces, SeesKeepsPlaces, WorkKeepsPlaces DEF ScrapeWorker
    <2>2. UNCHANGED <<streak, aborted, delivered>>
      BY <1>4 DEF ScrapeWorker, Receive, SeesClosed, Search, WriteMovie, FinishMovie
    <2> QED BY <1>2, <2>1, <2>2
  <1>5. ASSUME NEW w \in Scrapers, Deliver(w) PROVE ScrapeInv'
    <2>1. PlacesInv' /\ StreakIsRow' /\ BreakerIsJust'
      BY <1>1, <1>5, DeliverKeepsPlaces, DeliverKeepsStreak DEF PlacesInv
    <2> QED BY <2>1 DEF ScrapeInv, PlacesInv
  <1>6. CASE UNCHANGED scrapeVars
    <2>1. /\ Given' = Given /\ Passed' = Passed /\ Done' = Done /\ (Ending <=> Ending')
          /\ \A w, m : Carries(w, m)' <=> Carries(w, m)
      BY <1>6 DEF scrapeVars, Given, Passed, Done, Carries, Ending
    <2>2. ScrapeTyped'
      BY <1>1, <1>6 DEF scrapeVars, PlacesInv, ScrapeTyped
    <2>3. OnePlace'
      BY <1>1, <1>6, <2>1 DEF scrapeVars, PlacesInv, OnePlace
    <2>4. NothingDropped'
      BY <1>1, <1>6, <2>1 DEF scrapeVars, PlacesInv, NothingDropped
    <2>5. RunPhases' /\ WithinLimit' /\ CleanEnd'
      BY <1>1, <1>6, <2>1 DEF scrapeVars, PlacesInv, RunPhases, WithinLimit, CleanEnd, Quiet
    <2> QED BY <1>2, <1>6, <2>2, <2>3, <2>4, <2>5 DEF scrapeVars, PlacesInv
  <1> QED BY <1>3, <1>4, <1>5, <1>6 DEF ScrapeNext

\* A movie behind the cursor is in one place, and nothing is dropped before the
\* batch is ending: executeScrape, the dispatcher and the workers of run.go.
THEOREM ScrapeInductive == ScrapeSpec => []ScrapeInv
  <1>1. ScrapeInit => ScrapeInv
    BY ScrapeInitOK DEF ScrapeInv, PlacesInv
  <1> QED BY <1>1, ScrapeStepKeeps, PTL DEF ScrapeSpec

\* A run that ends without an error has delivered each of its candidates once,
\* up to the limit, and the breaker trips for a row of unreachable results and
\* for nothing else.
THEOREM BatchesAreHonest == ScrapeSpec => []BatchIsHonest
  <1>1. ScrapeInv => BatchIsHonest
    <2> SUFFICES ASSUME ScrapeInv PROVE BatchIsHonest
      OBVIOUS
    <2>1. CleanRunIsComplete
      BY DEF ScrapeInv, OnePlace, CleanEnd, CleanRunIsComplete, Given, ToDo
    <2> QED BY <2>1 DEF ScrapeInv, BatchIsHonest
  <1> QED BY <1>1, ScrapeInductive, PTL

-----------------------------------------------------------------------------
(* The limit of a run *)

\* Also when a cancellation comes while the next batch is read: there is nothing
\* in hand then, and what has been passed is within the limit.
LimitKept ==
  /\ phase \in {"idle", "fetch"} => Passed \subseteq Given
  /\ RunLimit > 0 => Cardinality(Passed) <= RunLimit

\* The cursor, and what the movies and their rows are left with.
RowsTyped ==
  /\ afterID \in Candidates \cup {0} /\ saved \subseteq Candidates /\ imported \subseteq saved
  /\ note \in [Candidates -> {"old", "", "to confirm", "error"}]

LEMMA LimitStep == ScrapeInv /\ LimitKept /\ [ScrapeNext]_scrapeVars => LimitKept'
  <1> SUFFICES ASSUME ScrapeInv, LimitKept, [ScrapeNext]_scrapeVars PROVE LimitKept'
    OBVIOUS
  <1>1. CASE FetchBatch
    <2> DEFINE S == {m \in Candidates : m > afterID}
    <2>1. phase = "fetch" /\ phase' \in {"hand", "index"} /\ Given' = Given
      BY <1>1 DEF FetchBatch, DispatcherOnly, Given, Done
    <2>2. CASE UNCHANGED afterID
      BY <2>1, <2>2 DEF LimitKept, Passed
    <2>3. ASSUME NEW last \in FirstOf(S, Wanted), \A m \in FirstOf(S, Wanted) : m <= last, afterID' = last
          PROVE  LimitKept'
      <3>1. PICK next : next = FirstOf(S, Wanted)
        OBVIOUS
      <3>2. /\ IsFiniteSet(next) /\ Cardinality(next) \in Nat /\ Cardinality(next) <= Wanted
            /\ Passed' = Passed \cup next /\ Passed \cap next = {}
        BY <2>3, <3>1, NextBatch DEF ScrapeInv
      <3>3. IsFiniteSet(Passed) /\ Cardinality(Passed) = Done /\ Done \in Nat
        <4>1. Passed = Given
          BY <2>1 DEF LimitKept, ScrapeInv, OnePlace
        <4>2. Done \in Nat
          BY DEF ScrapeInv, ScrapeTyped, Done
        <4> QED BY <4>1, <4>2 DEF ScrapeInv, OnePlace
      <3>4. Cardinality(Passed') = Done + Cardinality(next)
        <4>1. Cardinality(Passed \cup next) = Cardinality(Passed) + Cardinality(next) - Cardinality(Passed \cap next)
          BY <3>2, <3>3, FS_Union, Zenon
        <4>2. Cardinality(Passed \cap next) = 0
          BY <3>2, FS_EmptySet
        <4>3. Cardinality(Passed \cup next) = Cardinality(Passed')
          BY <3>2
        <4> QED BY <3>2, <3>3, <4>1, <4>2, <4>3
      <3>5. RunLimit > 0 => Wanted <= RunLimit - Done
        BY <3>3, ScrapeAssumption DEF Wanted
      <3>6. RunLimit > 0 => Cardinality(Passed') <= RunLimit
        <4>1. Wanted \in Int /\ RunLimit \in Nat
          BY <3>3, ScrapeAssumption DEF Wanted
        <4> QED BY <3>2, <3>3, <3>4, <3>5, <4>1
      <3> QED BY <2>1, <3>6 DEF LimitKept
    <2> HIDE DEF S
    <2> QED BY <1>1, <2>2, <2>3 DEF FetchBatch, S
  <1>2. CASE JudgeBatch
    <2>1. /\ phase = "closed" /\ UNCHANGED <<afterID, delivered>>
          /\ phase' = IF Ending THEN "index" ELSE "fetch"
      BY <1>2 DEF JudgeBatch
    <2>2. Passed' = Passed /\ Given' = Given
      BY <2>1 DEF Passed, Given, Done
    <2>3. \A w \in Scrapers : \A m : ~Carries(w, m)
      <3>1. \A w \in Scrapers : scraper[w] = GoneScraper
        BY <1>2, WorkerIs DEF ScrapeInv, JudgeBatch
      <3> QED BY <3>1, NoWorkAtRest DEF Carries
    <2>4. ~Ending => Passed \subseteq Given
      BY <2>1, <2>3 DEF ScrapeInv, NothingDropped, RunPhases, Passed
    <2> QED BY <2>1, <2>2, <2>4 DEF LimitKept
  <1>3. CASE UNCHANGED <<afterID, delivered>> /\ (phase' \in {"idle", "fetch"} => phase \in {"idle", "fetch"})
    <2>1. Passed' = Passed /\ Given' = Given
      BY <1>3 DEF Passed, Given, Done
    <2> QED BY <1>3, <2>1 DEF LimitKept
  <1>4. CASE StartBatch \/ Offer \/ IndexSaved \/ CancelScrape
    BY <1>3, <1>4 DEF StartBatch, Offer, IndexSaved, CancelScrape, DispatcherOnly
  <1>5. ASSUME NEW w \in Scrapers, ScrapeWorker(w), ~Deliver(w) PROVE LimitKept'
    BY <1>3, <1>5 DEF ScrapeWorker, Receive, SeesClosed, Search, WriteMovie, FinishMovie, Stays
  <1>6. ASSUME NEW w \in Scrapers, Deliver(w) PROVE LimitKept'
    <2>1. scraper[w].at = "deliver" /\ UNCHANGED <<phase, afterID>>
      BY <1>6 DEF Deliver, Emit, Stays
    <2>2. phase \notin {"idle", "fetch"}
      BY <2>1, BusyIsNotQuiet, NoWorkAtRest DEF ScrapeInv, Quiet
    <2> QED BY <2>1, <2>2 DEF LimitKept, Passed
  <1>7. CASE UNCHANGED scrapeVars
    BY <1>3, <1>7 DEF scrapeVars
  <1> QED BY <1>1, <1>2, <1>4, <1>5, <1>6, <1>7 DEF ScrapeNext, Dispatcher

LEMMA RowsStep == ScrapeInv /\ RowsTyped /\ [ScrapeNext]_scrapeVars => RowsTyped'
  <1> SUFFICES ASSUME ScrapeInv, RowsTyped, [ScrapeNext]_scrapeVars PROVE RowsTyped'
    OBVIOUS
  <1>1. CASE Dispatcher \/ CancelScrape \/ UNCHANGED scrapeVars
    <2>1. afterID' \in Candidates \cup {0}
      BY <1>1 DEF RowsTyped, Dispatcher, StartBatch, FetchBatch, Offer, JudgeBatch, IndexSaved, CancelScrape,
                  FirstOf, scrapeVars
    <2>2. saved' = saved /\ note' = note /\ imported' \in {imported, saved}
      BY <1>1 DEF Dispatcher, StartBatch, FetchBatch, Offer, JudgeBatch, IndexSaved, CancelScrape,
                  DispatcherOnly, scrapeVars
    <2> QED BY <2>1, <2>2 DEF RowsTyped
  <1>2. ASSUME NEW w \in Scrapers, ScrapeWorker(w) PROVE RowsTyped'
    <2>1. UNCHANGED <<afterID, imported>>
      BY <1>2 DEF ScrapeWorker, Receive, SeesClosed, Search, WriteMovie, FinishMovie, Deliver, Emit, Stays
    <2>2. CASE UNCHANGED <<saved, note>>
      BY <2>1, <2>2 DEF RowsTyped
    <2>3. CASE Search(w) \/ WriteMovie(w) \/ FinishMovie(w)
      <3>1. scraper[w].movie \in Candidates
        BY <2>3, WorkerIs, NoWorkAtRest DEF Search, WriteMovie, FinishMovie, ScrapeInv
      <3>2. saved' \in {saved, saved \cup {scraper[w].movie}}
        BY <2>3 DEF Search, WriteMovie, FinishMovie
      <3>3. note' \in [Candidates -> {"old", "", "to confirm", "error"}]
        BY <2>3, <3>1 DEF Search, WriteMovie, FinishMovie, NoteResult, RowsTyped
      <3> QED BY <2>1, <3>1, <3>2, <3>3 DEF RowsTyped
    <2> QED BY <1>2, <2>2, <2>3 DEF ScrapeWorker, Receive, SeesClosed, Deliver, Emit
  <1> QED BY <1>1, <1>2 DEF ScrapeNext

\* The variables keep their types, and no run delivers more than its limit, also
\* when it is cancelled between two batches.
THEOREM ScrapeTypeCorrect == ScrapeSpec => []ScrapeTypeOK
  <1>1. ScrapeInit => LimitKept /\ RowsTyped
    <2> SUFFICES ASSUME ScrapeInit PROVE LimitKept /\ RowsTyped
      OBVIOUS
    <2>1. Passed = {}
      <3>1. ASSUME NEW m \in Candidates PROVE ~(m <= 0)
        BY ScrapeAssumption
      <3> QED BY <3>1 DEF ScrapeInit, Passed
    <2> QED BY <2>1, FS_EmptySet, ScrapeAssumption DEF ScrapeInit, LimitKept, RowsTyped
  <1>2. ScrapeInv /\ LimitKept /\ RowsTyped => ScrapeTypeOK
    <2> SUFFICES ASSUME ScrapeInv, LimitKept, RowsTyped PROVE ScrapeTypeOK
      OBVIOUS
    <2>1. ASSUME RunLimit > 0 PROVE Done <= RunLimit
      <3>1. Given \subseteq Passed /\ Cardinality(Given) = Done /\ IsFiniteSet(Passed)
        <4>1. Passed \in SUBSET Candidates
          BY DEF Passed
        <4> QED BY <4>1, FS_Subset, ScrapeAssumption DEF ScrapeInv, OnePlace
      <3>2. Cardinality(Given) <= Cardinality(Passed) /\ Cardinality(Passed) \in Nat /\ Done \in Nat
        BY <3>1, FS_Subset, FS_CardinalityType
      <3> QED BY <2>1, <3>1, <3>2, ScrapeAssumption DEF LimitKept
    <2>2. \A w \in Scrapers : scraper[w].at \in {"waiting", "search", "apply", "written", "deliver", "gone"}
      BY NoWorkAtRest DEF ScrapeInv, ScrapeTyped
    <2> QED BY <2>1, <2>2 DEF ScrapeTypeOK, ScrapeInv, ScrapeTyped, RowsTyped, ResultRow
  <1> QED BY <1>1, <1>2, LimitStep, RowsStep, ScrapeInductive, PTL DEF ScrapeSpec

-----------------------------------------------------------------------------
(****************************************************************************)
(* The runs and the requests together: what is proved of one of them holds  *)
(* beside the others.                                                       *)
(****************************************************************************)

\* A behaviour of the runs and the requests is one of each of them.
LEMMA EachIsRun == MCSpec => ScrapeSpec /\ ThumbsSpec
  <1>1. MCInit => ScrapeInit /\ ThumbsInit
    BY DEF MCInit
  <1>2. [MCNext]_allVars => [ScrapeNext]_scrapeVars /\ [ThumbsNext]_thumbVars
    <2> SUFFICES ASSUME [MCNext]_allVars
                 PROVE  [ScrapeNext]_scrapeVars /\ [ThumbsNext]_thumbVars
      OBVIOUS
    <2>1. CASE UNCHANGED allVars
      BY <2>1 DEF allVars
    <2>2. CASE MCNext
      BY <2>2 DEF MCNext
    <2> QED BY <2>1, <2>2
  <1> QED BY <1>1, <1>2, PTL DEF MCSpec, ScrapeSpec, ThumbsSpec

\* Every variable of a batch, of the requests for images and of the caches keeps
\* its type, whichever of them is busy.
THEOREM ProgressTypeCorrect == MCSpec => []ProgressTypeOK
  BY EachIsRun, ScrapeTypeCorrect, ThumbsTypeCorrect, PTL DEF ProgressTypeOK
=============================================================================
