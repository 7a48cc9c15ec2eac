---------------------------- MODULE WorksProofs ----------------------------
(***************************************************************************)
(* The works that write files beside the library, for any number of runs,  *)
(* people and processes.  Each part has the invariant that carries its     *)
(* property, a lemma for each of its steps, and the property at its end.   *)
(***************************************************************************)
EXTENDS Upgrade, Sprites, Edits, Marks, Webhooks, Backup, Posters, DiskLogs,
        MCWorks, FiniteSetTheorems, WellFoundedInduction, SequenceTheorems,
        TLAPS
-----------------------------------------------------------------------------
(***************************************************************************)
(* The program on the disk is sound for any number of requests and of      *)
(* versions, whatever the release page says and whenever the process       *)
(* stops.  The page is not trusted: what carries the proof is that a       *)
(* worker's target is newer than the process, that it alone has the phase, *)
(* and that a verified file is the build of that target.                   *)
(***************************************************************************)

\* While a worker is at work the phase is its own, and not that of a restart.
WorkerHasPhase ==
  worker.at # "none" =>
    /\ phase.name \in {"downloading", "verifying", "installing"}
    /\ phase.target = worker.target /\ worker.target # 0
    /\ Newer(worker.target, current)

VerifiedIsTarget == worker.at = "verified" => worker.temp = worker.target

\* What a request has looked up was newer than the process that still runs.
LookedUpIsNewer == \A a \in UpgradeAdmins : admin[a] # 0 => Newer(admin[a], current)

UpgradeSound == InstalledIsSound /\ WorkerHasPhase /\ VerifiedIsTarget /\ LookedUpIsNewer

UpgradeInv == UpgradeTypeOK /\ UpgradeSound

LEMMA BuildFacts == Versions \subseteq Nat /\ 0 \notin Versions /\ 1 \in Versions
  BY UpgradeAssumption DEF Versions

\* What Begin does, with the record of the worker spelt out.
LEMMA Begun ==
  ASSUME NEW a \in UpgradeAdmins, BeginUpgrade(a)
  PROVE  /\ admin[a] # 0 /\ admin' = [admin EXCEPT ![a] = 0]
         /\ UNCHANGED <<page, exe, current, latest>>
         /\ \/ /\ ~Busy /\ phase' = [name |-> "downloading", target |-> admin[a]]
               /\ worker' = [at |-> "begun", target |-> admin[a], temp |-> 0]
            \/ UNCHANGED <<phase, worker>>
  BY DEF BeginUpgrade, NoWork, Damaged

\* The first process is what is installed, whatever its version.
LEMMA UpgradeStart == UpgradeInit => UpgradeInv
  BY BuildFacts
  DEF UpgradeInit, UpgradeInv, UpgradeSound, UpgradeTypeOK, InstalledIsSound, WorkerHasPhase, VerifiedIsTarget,
      LookedUpIsNewer, Newer, Page, Builds, Phases, NoWork, Damaged

\* Types hold after every step.
LEMMA UpgradeTypesStay == ASSUME UpgradeInv, [UpgradeNext]_upgradeVars PROVE UpgradeTypeOK'
<1>1. ASSUME NEW a \in UpgradeAdmins, Check(a) PROVE UpgradeTypeOK'
  BY <1>1, BuildFacts DEF UpgradeInv, UpgradeTypeOK, Builds, Phases, Check, Page
<1>2. ASSUME NEW a \in UpgradeAdmins, Apply(a) PROVE UpgradeTypeOK'
  BY <1>2, BuildFacts DEF UpgradeInv, UpgradeTypeOK, Builds, Phases, Apply, Page
<1>3. ASSUME NEW a \in UpgradeAdmins, BeginUpgrade(a) PROVE UpgradeTypeOK'
  BY <1>3, Begun, BuildFacts DEF UpgradeInv, UpgradeTypeOK, Builds, Phases, Damaged
<1>4. CASE RunFails
  BY <1>4, BuildFacts DEF UpgradeInv, UpgradeTypeOK, Builds, Phases, RunFails, GiveUpUpgrade, SetPhase, NoWork, Damaged
<1>5. CASE Download
  BY <1>5, BuildFacts DEF UpgradeInv, UpgradeTypeOK, Builds, Phases, Download, SetPhase, Transfer, Page
<1>6. CASE VerifyBuild
  BY <1>6, BuildFacts DEF UpgradeInv, UpgradeTypeOK, Builds, Phases, VerifyBuild, SetPhase
<1>7. CASE Install
  BY <1>7, BuildFacts DEF UpgradeInv, UpgradeTypeOK, Builds, Phases, Install, SetPhase, NoWork, Damaged
<1>8. CASE RestartProgram
  BY <1>8, BuildFacts DEF UpgradeInv, UpgradeTypeOK, Builds, Phases, RestartProgram, NoWork, Damaged
<1>9. CASE Republish
  BY <1>9, BuildFacts DEF UpgradeInv, UpgradeTypeOK, Builds, Phases, Republish
<1>10. CASE UNCHANGED upgradeVars
  BY <1>10, BuildFacts DEF UpgradeInv, UpgradeTypeOK, Builds, Phases, upgradeVars
<1> QED
  BY <1>1, <1>2, <1>3, <1>4, <1>5, <1>6, <1>7, <1>8, <1>9, <1>10 DEF UpgradeNext

\* Only Install changes the file and only a restart the process: between them
\* the phase says what is about to happen.
LEMMA UpgradeSoundStays ==
  ASSUME UpgradeInv, [UpgradeNext]_upgradeVars
  PROVE  UpgradeSound'
<1>1. ASSUME NEW a \in UpgradeAdmins, Check(a) PROVE UpgradeSound'
  BY <1>1, BuildFacts DEF UpgradeInv, UpgradeSound, InstalledIsSound, WorkerHasPhase,
         VerifiedIsTarget, LookedUpIsNewer, Newer, UpgradeTypeOK, Builds, Page, Check
<1>2. ASSUME NEW a \in UpgradeAdmins, Apply(a) PROVE UpgradeSound'
  BY <1>2, BuildFacts DEF UpgradeInv, UpgradeSound, InstalledIsSound, WorkerHasPhase,
         VerifiedIsTarget, LookedUpIsNewer, Newer, UpgradeTypeOK, Builds, Page, Apply
<1>3. ASSUME NEW a \in UpgradeAdmins, BeginUpgrade(a) PROVE UpgradeSound'
  BY <1>3, Begun, BuildFacts DEF UpgradeInv, UpgradeSound, InstalledIsSound, WorkerHasPhase,
         VerifiedIsTarget, LookedUpIsNewer, Newer, UpgradeTypeOK, Builds, Busy
<1>4. CASE RunFails
  BY <1>4, BuildFacts DEF UpgradeInv, UpgradeSound, InstalledIsSound, WorkerHasPhase,
         VerifiedIsTarget, LookedUpIsNewer, Newer, UpgradeTypeOK, Builds, Page, RunFails, GiveUpUpgrade, SetPhase, NoWork
<1>5. CASE Download
  BY <1>5, BuildFacts DEF UpgradeInv, UpgradeSound, InstalledIsSound, WorkerHasPhase,
         VerifiedIsTarget, LookedUpIsNewer, Newer, UpgradeTypeOK, Builds, Page, Download, SetPhase
<1>6. CASE VerifyBuild
  BY <1>6, BuildFacts DEF UpgradeInv, UpgradeSound, InstalledIsSound, WorkerHasPhase,
         VerifiedIsTarget, LookedUpIsNewer, Newer, UpgradeTypeOK, Builds, Page, VerifyBuild, SetPhase
<1>7. CASE Install
  <2>1. /\ worker.at = "verified" /\ worker.temp = worker.target
        /\ worker.target \in Versions \cup {0} /\ Newer(worker.target, current)
    BY <1>7 DEF Install, UpgradeInv, UpgradeSound, WorkerHasPhase, VerifiedIsTarget, UpgradeTypeOK
  <2>2. worker.target # 0
    BY <1>7 DEF Install, UpgradeInv, UpgradeSound, WorkerHasPhase
  <2>3. InstalledIsSound'
    BY <1>7, <2>1, <2>2 DEF Install, SetPhase, InstalledIsSound, Newer
  <2>4. (WorkerHasPhase /\ VerifiedIsTarget)'
    BY <1>7 DEF Install, NoWork, WorkerHasPhase, VerifiedIsTarget
  <2>5. LookedUpIsNewer'
    BY <1>7 DEF UpgradeInv, UpgradeSound, Install, LookedUpIsNewer, Newer
  <2> QED BY <2>3, <2>4, <2>5 DEF UpgradeSound
<1>8. CASE RestartProgram
  BY <1>8, BuildFacts DEF UpgradeInv, UpgradeSound, InstalledIsSound, WorkerHasPhase,
         VerifiedIsTarget, LookedUpIsNewer, Newer, UpgradeTypeOK, Builds, Page, RestartProgram, NoWork
<1>9. CASE Republish
  BY <1>9, BuildFacts DEF UpgradeInv, UpgradeSound, InstalledIsSound, WorkerHasPhase,
         VerifiedIsTarget, LookedUpIsNewer, Newer, UpgradeTypeOK, Builds, Page, Republish
<1>10. CASE UNCHANGED upgradeVars
  BY <1>10, BuildFacts DEF UpgradeInv, UpgradeSound, InstalledIsSound, WorkerHasPhase,
         VerifiedIsTarget, LookedUpIsNewer, Newer, UpgradeTypeOK, Builds, Page, upgradeVars
<1> QED
  BY <1>1, <1>2, <1>3, <1>4, <1>5, <1>6, <1>7, <1>8, <1>9, <1>10 DEF UpgradeNext

\* The invariant that the theorems follow from.
THEOREM UpgradeInductive == UpgradeSpec => []UpgradeInv
<1>1. UpgradeInv /\ [UpgradeNext]_upgradeVars => UpgradeInv'
  BY UpgradeTypesStay, UpgradeSoundStays DEF UpgradeInv
<1> QED
  BY UpgradeStart, <1>1, PTL DEF UpgradeSpec

\* The program on the disk runs, and is another than the process only if the process
\* has been told to restart and takes it for newer (upgrade.go Run, newerVersion).
THEOREM InstalledAlways == UpgradeSpec => []InstalledIsSound
  BY UpgradeInductive, PTL DEF UpgradeInv, UpgradeSound

\* At most one run is at work, and the phase is busy for as long (Manager.Begin).
THEOREM OneUpgradeAtATime == UpgradeSpec => []WorkerIsAlone
<1>1. UpgradeInv => WorkerIsAlone
  BY DEF UpgradeInv, UpgradeSound, WorkerHasPhase, WorkerIsAlone, Busy
<1> QED
  BY UpgradeInductive, <1>1, PTL

\* Every variable of the upgrades keeps its type.
THEOREM UpgradeTypeCorrect == UpgradeSpec => []UpgradeTypeOK
<1>1. UpgradeInv => UpgradeTypeOK
  BY DEF UpgradeInv
<1> QED BY UpgradeInductive, <1>1, PTL

-----------------------------------------------------------------------------
(****************************************************************************)
(* Previews outlive runs, viewers and crashes, for any number of each.  The *)
(* invariant keeps a run's new directory apart from the one the row names,  *)
(* and bounds the generations that are there; the least one is well defined *)
(* because there are finitely many.                                         *)
(****************************************************************************)

\* What a run and a viewer have in their hands.
SpriteRun ==
  [at : {"out", "gated", "opened", "ready", "rendering", "rendered", "prepared", "published"},
   overwrite : BOOLEAN, old : SpritePointer \cup {NoPreview}, gen : 0..MaxMade,
   of : Sources, stamp : 0..MaxTouched, row : 0..MaxTouched]
SpriteView == [at : {"out", "reading"}, gen : 0..MaxMade]

SpritesTyped ==
  /\ strm \in [content : Sources, stamp : 0..MaxTouched] /\ movieRow \in 0..MaxTouched
  /\ pointer \in SpritePointer \cup {NoPreview} /\ made \in 0..MaxMade
  /\ dirs \in [Generations -> SpriteDir \cup {NoDir}]
  /\ gate \in Makers \cup {Nobody} /\ lock \in Makers \cup Viewers \cup {Nobody}
  /\ maker \in [Makers -> SpriteRun] /\ viewer \in [Viewers -> SpriteView]

\* One run at a time, and the lock is with the run or the viewer that works under it.
SpriteLocks ==
  /\ \A m \in Makers : (maker[m].at # "out") <=> gate = m
  /\ \A m \in Makers : maker[m].at \in {"opened", "prepared", "published"} <=> lock = m
  /\ \A v \in Viewers : viewer[v].at = "reading" <=> lock = v

\* What a run has read still holds, and what it has made is its own.
RunHolds(m) ==
  /\ maker[m].gen <= made
  /\ maker[m].at \in {"opened", "ready", "rendering", "rendered", "prepared"} => pointer = maker[m].old
  /\ maker[m].at \in {"out", "gated", "opened", "ready"} => maker[m].gen = 0
  /\ maker[m].at \in {"rendering", "rendered", "prepared"} =>
       /\ maker[m].gen \in Present /\ maker[m].gen > GenOf(pointer)
       /\ dirs[maker[m].gen].of = maker[m].of
  /\ maker[m].at = "rendering" => dirs[maker[m].gen].has = "some"
  /\ maker[m].at \in {"rendered", "prepared"} =>
       /\ dirs[maker[m].gen].has = "all"
       /\ dirs[maker[m].gen].rev = RevOf(maker[m].old) + 1
  /\ maker[m].at = "published" =>
       /\ pointer # NoPreview /\ pointer.gen = maker[m].gen
       /\ pointer.rev = RevOf(maker[m].old) + 1

PointerHolds ==
  /\ ActiveIsWhole
  /\ RevOf(pointer) <= GenOf(pointer) /\ GenOf(pointer) <= made
  /\ \A g \in Present : g <= made

\* A viewer reads what has been published.
ViewHolds(v) ==
  /\ viewer[v].gen <= made
  /\ viewer[v].at = "reading" =>
       /\ viewer[v].gen \in Present /\ dirs[viewer[v].gen].has # "some"
       /\ dirs[viewer[v].gen].rev <= RevOf(pointer)

\* There is room for one more when a directory is made.
RoomLeft ==
  /\ GenerationsBounded
  /\ \A m \in Makers : maker[m].at = "ready" => Cardinality(Present) <= Keep + 1

SpritesInv ==
  /\ SpritesTyped /\ SpriteLocks /\ PointerHolds /\ RoomLeft
  /\ \A m \in Makers : RunHolds(m)
  /\ \A v \in Viewers : ViewHolds(v)
-----------------------------------------------------------------------------
(* Numbers and cardinalities *)

\* A finite set of numbers has a least one.
LEMMA Least ==
  ASSUME NEW R \in SUBSET Nat, R # {}
  PROVE  \E x \in R : \A y \in R : x <= y
  <1>1. PICK x \in R : \A y \in R : <<y, x>> \notin OpToRel(<, Nat)
    BY NatLessThanWellFounded, WFMin, Zenon
  <1>2. \A y \in R : ~(y < x)
    BY <1>1, Zenon DEF OpToRel
  <1>3. ASSUME NEW y \in R PROVE x <= y
    <2>1. x \in Nat /\ y \in Nat
      OBVIOUS
    <2> QED BY <1>2, <2>1
  <1> QED BY <1>3

\* If fewer than k of a set are above each of its numbers, it has k at most.
LEMMA FewAbove ==
  ASSUME NEW R \in SUBSET Nat, IsFiniteSet(R), NEW k \in Nat,
         \A g \in R : ~(Cardinality({h \in R : h > g}) >= k)
  PROVE  Cardinality(R) <= k
  <1>1. CASE R = {}
    BY <1>1, FS_EmptySet
  <1>2. CASE R # {}
    <2>1. PICK x \in R : \A y \in R : x <= y
      BY <1>2, Least
    <2>2. PICK A : A = {h \in R : h > x}
      OBVIOUS
    <2>3. A = R \ {x}
      <3>1. ASSUME NEW z \in R PROVE z > x <=> z # x
        <4>1. x \in Nat /\ z \in Nat /\ x <= z
          BY <2>1
        <4> QED BY <4>1
      <3> QED BY <2>2, <3>1
    <2>4. Cardinality(R) \in Nat /\ Cardinality(A) = Cardinality(R) - 1
      BY <2>3, FS_RemoveElement, FS_CardinalityType
    <2>5. ~(Cardinality(A) >= k)
      BY <2>1, <2>2, Zenon
    <2> QED BY <2>4, <2>5
  <1> QED BY <1>1, <1>2

-----------------------------------------------------------------------------
(* Directories *)

LEMMA PresentFinite ==
  /\ Present \in SUBSET Nat /\ IsFiniteSet(Present) /\ Cardinality(Present) \in Nat
  /\ \A S \in SUBSET Present : IsFiniteSet(S) /\ Cardinality(S) <= Cardinality(Present)
                               /\ Cardinality(S) \in Nat
  <1>1. IsFiniteSet(Generations) /\ Generations \in SUBSET Nat
    BY FS_Interval, SpritesAssumption DEF Generations
  <1>2. IsFiniteSet(Present) /\ Present \in SUBSET Nat
    BY <1>1, FS_Subset DEF Present
  <1> QED BY <1>2, FS_Subset, FS_CardinalityType

\* What is removed, in part or whole, is one directory.
LEMMA RemovingDir ==
  ASSUME SpritesTyped, NEW g \in Present, RemoveDir(g)
  PROVE  /\ dirs' \in [Generations -> SpriteDir \cup {NoDir}]
         /\ \A h \in Generations \ {g} : dirs'[h] = dirs[h]
         /\ Present' \subseteq Present
  <1>1. g \in Generations
    BY DEF Present
  <1>2. PICK d \in SpriteDir : d = dirs[g]
    BY DEF Present, SpritesTyped
  <1>3. CASE dirs' = [dirs EXCEPT ![g] = NoDir]
    BY <1>1, <1>3 DEF SpritesTyped, Present
  <1>4. ASSUME NEW left \in {"some", "manifest"}, dirs' = [dirs EXCEPT ![g].has = left]
        PROVE  /\ dirs' \in [Generations -> SpriteDir \cup {NoDir}]
               /\ \A h \in Generations \ {g} : dirs'[h] = dirs[h]
               /\ Present' \subseteq Present
    <2>1. PICK e \in SpriteDir : e = [d EXCEPT !.has = left]
      BY DEF SpriteDir
    <2>2. dirs' = [dirs EXCEPT ![g] = e]
      BY <1>2, <1>4, <2>1
    <2> QED BY <1>1, <2>2 DEF SpritesTyped, Present
  <1> QED BY <1>3, <1>4 DEF RemoveDir

\* Pruning is the removal of one that is not active.
LEMMA PruningDir ==
  ASSUME SpritesTyped, NEW active, NEW rev, PruneOne(active, rev)
  PROVE  \E g \in Present \ {active} : RemoveDir(g)
  BY DEF PruneOne, Unpublished, Excess

\* With nothing to prune there are the active directory and those that are kept.
LEMMA NothingMoreKept ==
  ASSUME NEW active, NEW rev, NothingToPrune(active, rev)
  PROVE  Cardinality(Present) <= Keep + 1
  <1> DEFINE kept == Present \ {active}
  <1>1. Unpublished(active, rev) = {} /\ Excess(active, rev) = {}
    BY DEF NothingToPrune
  <1>2. \A g \in kept : ~(Cardinality({h \in kept : h > g}) >= Keep)
    <2>1. kept = (Present \ {active}) \ Unpublished(active, rev)
      BY <1>1
    <2> HIDE DEF kept
    <2>2. Excess(active, rev) = {g \in kept : Cardinality({h \in kept : h > g}) >= Keep}
      BY <2>1, Zenon DEF Excess
    <2> QED BY <1>1, <2>2
  <1>3. kept \in SUBSET Nat /\ IsFiniteSet(kept)
    BY PresentFinite
  <1>4. Cardinality(kept) <= Keep /\ Cardinality(kept) \in Nat
    <2> HIDE DEF kept
    <2> QED BY <1>2, <1>3, FewAbove, FS_CardinalityType, SpritesAssumption
  <1>5. Cardinality(kept) = IF active \in Present THEN Cardinality(Present) - 1
                            ELSE Cardinality(Present)
    BY PresentFinite, FS_RemoveElement
  <1> QED BY <1>4, <1>5, PresentFinite, SpritesAssumption

\* There are never more directories for the removal of some.
LEMMA FewerDirs ==
  ASSUME Present' \subseteq Present
  PROVE  Cardinality(Present)' \in Nat /\ Cardinality(Present)' <= Cardinality(Present)
  BY PresentFinite

-----------------------------------------------------------------------------
(* Runs and viewers that a step leaves alone *)

LEMMA OthersRest ==
  ASSUME SpritesTyped, SpriteLocks, NEW m \in Makers, maker[m].at # "out"
  PROVE  \A n \in Makers \ {m} : maker[n].at = "out"
  BY DEF SpriteLocks

LEMMA RestingHolds ==
  ASSUME NEW m \in Makers, RunHolds(m), maker'[m] = maker[m], maker[m].at = "out",
         made \in Nat, made' \in Nat
  PROVE  RunHolds(m)'
  BY DEF RunHolds

\* What is read stays, and the pointer does not go back.
LEMMA ViewStays ==
  ASSUME SpritesTyped, NEW v \in Viewers, ViewHolds(v), viewer'[v] = viewer[v],
         made' \in Nat, made <= made',
         RevOf(pointer)' \in Nat, RevOf(pointer) <= RevOf(pointer)',
         viewer[v].at = "reading" => dirs'[viewer[v].gen] = dirs[viewer[v].gen]
  PROVE  ViewHolds(v)'
  <1>1. PICK view \in SpriteView : view = viewer[v] /\ view = viewer'[v]
    BY DEF SpritesTyped
  <1>2. view.gen \in Nat /\ made \in Nat
    BY DEF SpriteView, SpritesTyped
  <1>3. view.gen <= made'
    BY <1>1, <1>2 DEF ViewHolds
  <1>4. ASSUME view.at = "reading"
        PROVE  view.gen \in Present' /\ dirs'[view.gen].has # "some"
               /\ dirs'[view.gen].rev <= RevOf(pointer)'
    <2>1. dirs'[view.gen] = dirs[view.gen] /\ view.gen \in Present /\ dirs[view.gen].has # "some"
          /\ dirs[view.gen].rev <= RevOf(pointer)
      BY <1>1, <1>4 DEF ViewHolds
    <2>2. dirs[view.gen].rev \in Nat /\ RevOf(pointer) \in Nat
      BY <2>1 DEF SpritesTyped, Present, SpriteDir, RevOf, SpritePointer
    <2> QED BY <2>1, <2>2 DEF Present
  <1> QED BY <1>1, <1>3, <1>4 DEF ViewHolds

LEMMA PointerNumbers ==
  ASSUME SpritesTyped
  PROVE  RevOf(pointer) \in Nat /\ GenOf(pointer) \in Nat /\ made \in Nat
  BY DEF SpritesTyped, RevOf, GenOf, SpritePointer, Generations

\* One run moves on, and what it changes beside itself holds.
LEMMA RunMoves ==
  ASSUME SpritesInv, NEW m \in Makers, NEW mk \in SpriteRun, maker[m].at # "out",
         maker' = [maker EXCEPT ![m] = mk], RunHolds(m)',
         UNCHANGED <<strm, movieRow, viewer>>,
         dirs' \in [Generations -> SpriteDir \cup {NoDir}],
         pointer' \in SpritePointer \cup {NoPreview}, made' \in 0..MaxMade,
         PointerHolds', \A v \in Viewers : ViewHolds(v)', GenerationsBounded',
         gate' \in {gate, Nobody}, gate' = gate <=> mk.at # "out",
         lock' = IF mk.at \in {"opened", "prepared", "published"} THEN m
                 ELSE IF lock = m THEN Nobody ELSE lock,
         lock \in {m, Nobody} \/ mk.at \notin {"opened", "prepared", "published"},
         mk.at = "ready" => Cardinality(Present)' <= Keep + 1
  PROVE  SpritesInv'
  <1> USE DEF SpritesInv
  <1>1. /\ maker' \in [Makers -> SpriteRun] /\ maker'[m] = mk
        /\ \A n \in Makers \ {m} : maker'[n] = maker[n] /\ maker[n].at = "out"
    BY OthersRest DEF SpritesTyped
  <1>2. gate = m
    BY DEF SpriteLocks
  <1>3. lock' \in Makers \cup Viewers \cup {Nobody} /\ gate' \in Makers \cup {Nobody}
    BY DEF SpritesTyped
  <1>4. SpritesTyped'
    BY <1>1, <1>3 DEF SpritesTyped
  <1>5. \A n \in Makers : (maker'[n].at # "out") <=> gate' = n
    BY <1>1, <1>2, SpritesAssumption
  <1>6. \A n \in Makers : maker'[n].at \in {"opened", "prepared", "published"} <=> lock' = n
    <2>1. \A n \in Makers \ {m} : lock # n
      BY <1>1 DEF SpriteLocks
    <2> QED BY <1>1, <2>1, SpritesAssumption
  <1>7. \A v \in Viewers : viewer'[v].at = "reading" <=> lock' = v
    BY SpritesAssumption DEF SpriteLocks
  <1>8. RoomLeft'
    BY <1>1 DEF RoomLeft
  <1>9. made \in Nat /\ made' \in Nat
    BY SpritesAssumption DEF SpritesTyped
  <1>10. \A n \in Makers : RunHolds(n)'
    BY <1>1, <1>9, RestingHolds
  <1> QED BY <1>4, <1>5, <1>6, <1>7, <1>8, <1>10 DEF SpriteLocks

\* Nothing but one run has changed, and it holds.
LEMMA OneRunStep ==
  ASSUME SpritesInv, NEW m \in Makers, NEW mk \in SpriteRun, maker[m].at # "out",
         maker' = [maker EXCEPT ![m] = mk], RunHolds(m)',
         UNCHANGED <<strm, movieRow, pointer, dirs, made, viewer>>,
         gate' \in {gate, Nobody}, gate' = gate <=> mk.at # "out",
         lock' = IF mk.at \in {"opened", "prepared", "published"} THEN m
                 ELSE IF lock = m THEN Nobody ELSE lock,
         lock \in {m, Nobody} \/ mk.at \notin {"opened", "prepared", "published"},
         mk.at = "ready" => Cardinality(Present) <= Keep + 1
  PROVE  SpritesInv'
  <1> USE DEF SpritesInv
  <1>1. PointerHolds'
    BY DEF PointerHolds, ActiveIsWhole, Present, GenOf, RevOf
  <1>2. \A v \in Viewers : ViewHolds(v)'
    BY DEF ViewHolds, Present, RevOf
  <1>3. /\ dirs' \in [Generations -> SpriteDir \cup {NoDir}]
        /\ pointer' \in SpritePointer \cup {NoPreview} /\ made' \in 0..MaxMade
    BY DEF SpritesTyped
  <1>4. GenerationsBounded' /\ Present' = Present
    BY DEF RoomLeft, GenerationsBounded, Present
  <1> QED BY <1>1, <1>2, <1>3, <1>4, RunMoves

\* A directory goes that is not shown and that nobody reads.
LEMMA RemovalKeeps ==
  ASSUME SpritesInv, NEW g \in Present, g # GenOf(pointer), RemoveDir(g),
         UNCHANGED <<pointer, made, viewer>>,
         \A v \in Viewers : viewer[v].at = "reading" => viewer[v].gen # g
  PROVE  /\ dirs' \in [Generations -> SpriteDir \cup {NoDir}]
         /\ PointerHolds' /\ (\A v \in Viewers : ViewHolds(v)')
         /\ Cardinality(Present)' \in Nat /\ Cardinality(Present)' <= Cardinality(Present)
         /\ GenerationsBounded'
  <1> USE DEF SpritesInv
  <1>1. /\ dirs' \in [Generations -> SpriteDir \cup {NoDir}]
        /\ \A h \in Generations \ {g} : dirs'[h] = dirs[h]
        /\ Present' \subseteq Present
    BY RemovingDir
  <1>2. PointerHolds'
    <2>1. \A h \in Present' : h <= made'
      BY <1>1 DEF PointerHolds
    <2> QED BY <1>1, <2>1 DEF PointerHolds, ActiveIsWhole, Present, GenOf, RevOf
  <1>3. ASSUME NEW v \in Viewers PROVE ViewHolds(v)'
    <2>1. viewer[v].at = "reading" => dirs'[viewer[v].gen] = dirs[viewer[v].gen]
      BY <1>1 DEF ViewHolds, Present
    <2> QED BY <2>1, ViewStays, PointerNumbers
  <1>4. Cardinality(Present)' \in Nat /\ Cardinality(Present)' <= Cardinality(Present)
    BY <1>1, FewerDirs
  <1>5. GenerationsBounded'
    BY <1>4, PresentFinite, SpritesAssumption DEF RoomLeft, GenerationsBounded
  <1> QED BY <1>1, <1>2, <1>3, <1>4, <1>5

LEMMA RestingTyped == Resting \in SpriteRun /\ Resting.at = "out" /\ Resting.gen = 0
  <1>1. PICK c \in Sources : c = CHOOSE x \in Sources : TRUE
    BY SpritesAssumption
  <1>2. Resting = [at |-> "out", overwrite |-> FALSE, old |-> NoPreview, gen |-> 0,
                   of |-> c, stamp |-> 0, row |-> 0]
    BY <1>1 DEF Resting
  <1>3. 0 \in 0..MaxMade /\ 0 \in 0..MaxTouched
    BY SpritesAssumption
  <1> QED BY <1>2, <1>3 DEF SpriteRun

LEMMA EnteringKeeps ==
  ASSUME SpritesInv, NEW m \in Makers, EnterGate(m)
  PROVE  SpritesInv'
  <1> USE DEF SpritesInv
  <1>1. PICK o \in BOOLEAN : maker' = [maker EXCEPT ![m] = [Resting EXCEPT !.at = "gated", !.overwrite = o]]
    BY DEF EnterGate, SetMaker
  <1>2. PICK mk \in SpriteRun : mk = [Resting EXCEPT !.at = "gated", !.overwrite = o]
                                 /\ mk.at = "gated" /\ mk.gen = 0
    <2>1. PICK rest \in SpriteRun : rest = Resting /\ rest.gen = 0
      BY RestingTyped
    <2>2. [rest EXCEPT !.at = "gated", !.overwrite = o] \in SpriteRun
      BY DEF SpriteRun
    <2>3. /\ [rest EXCEPT !.at = "gated", !.overwrite = o].at = "gated"
          /\ [rest EXCEPT !.at = "gated", !.overwrite = o].gen = 0
      BY <2>1 DEF SpriteRun
    <2> QED BY <2>1, <2>2, <2>3
  <1>3. /\ maker[m].at = "out" /\ gate = Nobody /\ gate' = m
        /\ UNCHANGED <<strm, movieRow, pointer, dirs, made, lock, viewer>>
    BY DEF EnterGate
  <1>4. /\ maker' \in [Makers -> SpriteRun] /\ maker'[m] = mk
        /\ \A n \in Makers \ {m} : maker'[n] = maker[n] /\ maker[n].at = "out"
    <2>1. \A n \in Makers : maker[n].at = "out"
      BY <1>3, SpritesAssumption DEF SpriteLocks
    <2>2. maker' = [maker EXCEPT ![m] = mk]
      BY <1>1, <1>2
    <2> QED BY <2>1, <2>2 DEF SpritesTyped
  <1>5. SpritesTyped'
    BY <1>3, <1>4 DEF SpritesTyped
  <1>6. SpriteLocks'
    <2>1. ASSUME NEW n \in Makers PROVE (maker'[n].at # "out") <=> gate' = n
      <3>1. CASE n = m
        BY <3>1, <1>2, <1>3, <1>4
      <3>2. CASE n # m
        <4>1. maker'[n] = maker[n] /\ maker[n].at = "out"
          BY <3>2, <1>4
        <4> QED BY <3>2, <4>1, <1>3
      <3> QED BY <3>1, <3>2
    <2>2. \A n \in Makers : maker'[n].at \notin {"opened", "prepared", "published"} /\ lock' # n
      BY <1>2, <1>3, <1>4 DEF SpriteLocks
    <2>3. \A v \in Viewers : viewer'[v].at = "reading" <=> lock' = v
      BY <1>3 DEF SpriteLocks
    <2> QED BY <2>1, <2>2, <2>3 DEF SpriteLocks
  <1>7. PointerHolds'
    BY <1>3 DEF PointerHolds, ActiveIsWhole, Present
  <1>8. RoomLeft'
    BY <1>2, <1>3, <1>4 DEF RoomLeft, GenerationsBounded, Present
  <1>9. RunHolds(m)'
    BY <1>2, <1>3, <1>4, PointerNumbers DEF RunHolds
  <1>10. \A n \in Makers : RunHolds(n)'
    BY <1>3, <1>4, <1>9, RestingHolds, PointerNumbers
  <1>11. \A v \in Viewers : ViewHolds(v)'
    BY <1>3, PointerNumbers DEF ViewHolds, Present
  <1> QED BY <1>5, <1>6, <1>7, <1>8, <1>10, <1>11

\* A run ends without touching the directories.
LEMMA RunEnds ==
  ASSUME SpritesInv, NEW m \in Makers, maker[m].at # "out", LeaveGate(m),
         UNCHANGED <<strm, movieRow, pointer, dirs, made, viewer>>
  PROVE  SpritesInv'
  <1> USE DEF SpritesInv
  <1>1. PICK mk \in SpriteRun : mk = Resting /\ mk.at = "out" /\ mk.gen = 0
    BY RestingTyped
  <1>2. maker' = [maker EXCEPT ![m] = mk] /\ maker'[m] = mk
    BY <1>1 DEF LeaveGate, SetMaker, SpritesTyped
  <1>3. RunHolds(m)'
    BY <1>1, <1>2, PointerNumbers DEF RunHolds
  <1>4. gate' = Nobody /\ gate # Nobody /\ lock' = IF lock = m THEN Nobody ELSE lock
    BY SpritesAssumption DEF LeaveGate, SpriteLocks
  <1> QED BY <1>1, <1>2, <1>3, <1>4, OneRunStep

LEMMA OpeningKeeps ==
  ASSUME SpritesInv, NEW m \in Makers, OpenRun(m)
  PROVE  SpritesInv'
  <1> USE DEF SpritesInv
  <1>1. /\ maker[m].at = "gated" /\ lock = Nobody
        /\ UNCHANGED <<strm, movieRow, pointer, dirs, made, viewer>>
    BY DEF OpenRun
  <1>2. CASE PreviewKept(m)
    BY <1>1, <1>2, RunEnds DEF OpenRun
  <1>3. CASE ~PreviewKept(m)
    <2>1. PICK old \in SpriteRun : old = maker[m]
      BY DEF SpritesTyped
    <2>2. PICK mk \in SpriteRun :
            /\ mk = [old EXCEPT !.at = "opened", !.old = pointer,
                        !.of = strm.content, !.stamp = strm.stamp, !.row = movieRow]
            /\ mk.at = "opened" /\ mk.old = pointer /\ mk.gen = old.gen
      <3>1. PICK p \in SpritePointer \cup {NoPreview}, c \in Sources, s \in 0..MaxTouched,
                 r \in 0..MaxTouched :
              p = pointer /\ c = strm.content /\ s = strm.stamp /\ r = movieRow
        BY DEF SpritesTyped
      <3> DEFINE made1 == [old EXCEPT !.at = "opened", !.old = p, !.of = c, !.stamp = s, !.row = r]
      <3>2. made1 \in SpriteRun /\ made1.at = "opened" /\ made1.old = p /\ made1.gen = old.gen
        BY DEF SpriteRun
      <3> QED BY <3>1, <3>2
    <2>3. maker' = [maker EXCEPT ![m] = mk] /\ maker'[m] = mk /\ lock' = m /\ gate' = gate
      BY <1>3, <2>1, <2>2 DEF OpenRun, SetMaker, SpritesTyped
    <2>4. old.gen = 0
      BY <1>1, <2>1 DEF RunHolds
    <2>5. RunHolds(m)'
      BY <1>1, <2>2, <2>3, <2>4, PointerNumbers DEF RunHolds
    <2> QED BY <1>1, <2>2, <2>3, <2>5, OneRunStep
  <1> QED BY <1>2, <1>3

\* Pruning, by the run that has the lock.
LEMMA PruningKeeps ==
  ASSUME SpritesInv, NEW m \in Makers, maker[m].at \in {"opened", "published"},
         NEW rev, PruneOne(GenOf(pointer), rev),
         UNCHANGED <<strm, movieRow, pointer, made, gate, lock, maker, viewer>>
  PROVE  SpritesInv'
  <1> USE DEF SpritesInv
  <1>1. PICK g \in Present \ {GenOf(pointer)} : RemoveDir(g)
    BY PruningDir
  <1>2. \A v \in Viewers : viewer[v].at # "reading"
    BY SpritesAssumption DEF SpriteLocks
  <1>3. /\ dirs' \in [Generations -> SpriteDir \cup {NoDir}]
        /\ PointerHolds' /\ (\A v \in Viewers : ViewHolds(v)')
        /\ GenerationsBounded'
    BY <1>1, <1>2, RemovalKeeps
  <1>4. SpritesTyped'
    BY <1>3 DEF SpritesTyped
  <1>5. \A n \in Makers \ {m} : maker[n].at = "out"
    BY OthersRest
  <1>6. RunHolds(m)'
    BY DEF RunHolds
  <1>7. \A n \in Makers : RunHolds(n)'
    BY <1>5, <1>6, RestingHolds, PointerNumbers
  <1>8. RoomLeft'
    BY <1>3, <1>5 DEF RoomLeft
  <1> QED BY <1>3, <1>4, <1>7, <1>8 DEF SpriteLocks

LEMMA PruningBeforeKeeps ==
  ASSUME SpritesInv, NEW m \in Makers, PruneBefore(m)
  PROVE  SpritesInv'
  <1> USE DEF SpritesInv
  <1>1. /\ maker[m].at = "opened" /\ maker[m].old = pointer /\ maker[m].gen = 0 /\ lock = m /\ gate = m
        /\ UNCHANGED <<strm, movieRow, pointer, made, gate, viewer>>
    BY DEF PruneBefore, RunHolds, SpriteLocks
  <1>2. CASE PruneOne(GenOf(pointer), RevOf(pointer)) /\ UNCHANGED <<lock, maker>>
    BY <1>1, <1>2, PruningKeeps
  <1>3. CASE /\ NothingToPrune(GenOf(pointer), RevOf(pointer)) /\ dirs' = dirs /\ lock' = Nobody
             /\ MakerAt(m, "ready")
    <2>1. PICK old \in SpriteRun : old = maker[m]
      BY DEF SpritesTyped
    <2>2. PICK mk \in SpriteRun : mk = [old EXCEPT !.at = "ready"] /\ mk.at = "ready"
                                   /\ mk.old = old.old /\ mk.gen = old.gen
      <3>1. [old EXCEPT !.at = "ready"] \in SpriteRun
        BY DEF SpriteRun
      <3> QED BY <3>1 DEF SpriteRun
    <2>3. maker' = [maker EXCEPT ![m] = mk] /\ maker'[m] = mk
      BY <1>3, <2>1, <2>2 DEF MakerAt, SetMaker, SpritesTyped
    <2>4. RunHolds(m)'
      BY <1>1, <2>1, <2>2, <2>3, PointerNumbers DEF RunHolds
    <2>5. Cardinality(Present) <= Keep + 1
      BY <1>3, NothingMoreKept
    <2> QED BY <1>1, <1>3, <2>2, <2>3, <2>4, <2>5, OneRunStep
  <1> QED BY <1>1, <1>2, <1>3 DEF PruneBefore

\* The directory is the youngest, and there was room for it.
LEMMA MakingKeeps ==
  ASSUME SpritesInv, NEW m \in Makers, MakeDir(m)
  PROVE  SpritesInv'
  <1> USE DEF SpritesInv
  <1>1. /\ maker[m].at = "ready" /\ made < MaxMade /\ made' = made + 1
        /\ maker[m].old = pointer /\ maker[m].gen = 0 /\ gate = m
        /\ UNCHANGED <<strm, movieRow, pointer, gate, lock, viewer>>
    BY DEF MakeDir, RunHolds, SpriteLocks
  <1>2. /\ made \in Nat /\ made' \in Generations /\ made' \in 0..MaxMade /\ made < made'
        /\ made \notin Generations \/ made # made'
    BY <1>1, SpritesAssumption DEF SpritesTyped, Generations
  <1>3. PICK old \in SpriteRun : old = maker[m]
    BY DEF SpritesTyped
  <1>4. PICK new : new = made'
    OBVIOUS
  <1>5. PICK mk \in SpriteRun : mk = [old EXCEPT !.at = "rendering", !.gen = new] /\ mk.at = "rendering"
                                 /\ mk.old = old.old /\ mk.gen = new /\ mk.of = old.of
    <2>1. new \in 0..MaxMade
      BY <1>2, <1>4
    <2>2. [old EXCEPT !.at = "rendering", !.gen = new] \in SpriteRun
      BY <2>1 DEF SpriteRun
    <2> QED BY <2>2 DEF SpriteRun
  <1>6. maker' = [maker EXCEPT ![m] = mk] /\ maker'[m] = mk
    BY <1>3, <1>4, <1>5 DEF MakeDir, SetMaker, SpritesTyped
  <1>7. PICK dir \in SpriteDir : /\ dir = [has |-> "some", rev |-> 0, of |-> old.of, young |-> TRUE]
                                 /\ dir.has = "some" /\ dir.of = old.of
    <2> DEFINE empty == [has |-> "some", rev |-> 0, of |-> old.of, young |-> TRUE]
    <2>1. 0 \in 0..MaxMade /\ old.of \in Sources
      BY SpritesAssumption DEF SpriteRun
    <2>2. empty \in SpriteDir
      BY <2>1 DEF SpriteDir
    <2>3. empty.has = "some" /\ empty.of = old.of
      OBVIOUS
    <2> HIDE DEF empty
    <2>4. \E dir \in SpriteDir : dir = empty /\ dir.has = "some" /\ dir.of = old.of
      BY <2>2, <2>3
    <2> QED BY <2>4 DEF empty
  <1>8. dirs' = [dirs EXCEPT ![new] = dir]
    BY <1>3, <1>4, <1>7 DEF MakeDir
  <1>9. /\ dirs' \in [Generations -> SpriteDir \cup {NoDir}] /\ dirs'[new] = dir
        /\ \A h \in Generations \ {new} : dirs'[h] = dirs[h]
    BY <1>2, <1>4, <1>8 DEF SpritesTyped
  <1>10. Present' \subseteq Present \cup {new} /\ new \in Present'
    BY <1>2, <1>4, <1>9, SpritesAssumption DEF Present
  <1>11. Cardinality(Present') <= Keep + 2
    <2>1. Cardinality(Present) <= Keep + 1
      BY <1>1 DEF RoomLeft
    <2>2. IsFiniteSet(Present \cup {new}) /\ Cardinality(Present \cup {new}) <= Cardinality(Present) + 1
      BY PresentFinite, FS_AddElement
    <2>3. Cardinality(Present') <= Cardinality(Present \cup {new})
      BY <1>10, <2>2, FS_Subset
    <2>4. Cardinality(Present \cup {new}) \in Nat /\ Cardinality(Present') \in Nat
      BY <1>10, <2>2, FS_Subset, FS_CardinalityType
    <2> QED BY <2>1, <2>2, <2>3, <2>4, PresentFinite, SpritesAssumption
  <1>12. GenerationsBounded'
    BY <1>11 DEF GenerationsBounded
  <1>13. GenOf(pointer) \in Nat /\ RevOf(pointer) \in Nat /\ GenOf(pointer) <= made
    BY PointerNumbers DEF PointerHolds
  <1>14. PointerHolds'
    <2>1. pointer # NoPreview => pointer.gen # new
      BY <1>2, <1>4, <1>13 DEF GenOf
    <2>2. ActiveIsWhole'
      BY <1>1, <1>9, <2>1 DEF PointerHolds, ActiveIsWhole, Present
    <2>3. RevOf(pointer)' = RevOf(pointer) /\ GenOf(pointer)' = GenOf(pointer)
      BY <1>1 DEF RevOf, GenOf
    <2>4. GenOf(pointer) <= made'
      BY <1>2, <1>13
    <2>5. ASSUME NEW h \in Present' PROVE h <= made'
      <3>1. CASE h = new
        BY <1>2, <1>4, <3>1 DEF Generations
      <3>2. CASE h # new
        <4>1. h \in Present /\ h <= made /\ h \in Nat
          BY <3>2, <1>10, PresentFinite DEF PointerHolds
        <4> QED BY <4>1, <1>2 DEF Generations
      <3> QED BY <3>1, <3>2
    <2> QED BY <2>2, <2>3, <2>4, <2>5 DEF PointerHolds
  <1>15. ASSUME NEW v \in Viewers PROVE ViewHolds(v)'
    <2>1. viewer[v].at = "reading" => viewer[v].gen \in Generations /\ viewer[v].gen # new
      <3>1. viewer[v].at = "reading" => viewer[v].gen \in Generations /\ viewer[v].gen <= made
        BY DEF ViewHolds, Present
      <3> QED BY <3>1, <1>2, <1>4 DEF Generations
    <2>2. RevOf(pointer)' = RevOf(pointer)
      BY <1>1 DEF RevOf
    <2>3. made' \in Nat /\ made <= made'
      BY <1>2 DEF Generations
    <2> QED BY <1>1, <1>9, <1>13, <2>1, <2>2, <2>3, ViewStays
  <1>16. RunHolds(m)'
    <2>1. new <= made' /\ new > GenOf(pointer)
      BY <1>2, <1>4, <1>13
    <2>2. GenOf(pointer)' = GenOf(pointer) /\ dirs'[new].of = old.of /\ dirs'[new].has = "some"
      BY <1>1, <1>7, <1>9 DEF GenOf
    <2>3. maker'[m].at = "rendering" /\ maker'[m].gen = new /\ maker'[m].of = old.of
          /\ maker'[m].old = pointer /\ pointer' = pointer
      BY <1>1, <1>3, <1>5, <1>6
    <2> QED BY <1>10, <2>1, <2>2, <2>3 DEF RunHolds
  <1>17. pointer' \in SpritePointer \cup {NoPreview}
    BY <1>1 DEF SpritesTyped
  <1> QED BY <1>1, <1>2, <1>5, <1>6, <1>9, <1>12, <1>14, <1>15, <1>16, <1>17, RunMoves, SpritesAssumption
          DEF SpriteLocks

\* The directory of a run is neither shown nor read by anybody.
LEMMA OwnIsHidden ==
  ASSUME SpritesInv, NEW m \in Makers, maker[m].at \in {"rendering", "rendered", "prepared"}
  PROVE  /\ maker[m].gen \in Present /\ maker[m].gen # GenOf(pointer)
         /\ \A v \in Viewers : viewer[v].at = "reading" => viewer[v].gen # maker[m].gen
         /\ RevOf(maker[m].old) = RevOf(pointer) /\ RevOf(pointer) + 1 \in 0..MaxMade
         /\ RevOf(pointer) + 1 <= maker[m].gen
  <1> USE DEF SpritesInv
  <1>1. /\ maker[m].gen \in Present /\ maker[m].gen > GenOf(pointer) /\ maker[m].old = pointer
        /\ maker[m].gen <= made
    BY DEF RunHolds
  <1>2. RevOf(pointer) \in Nat /\ GenOf(pointer) \in Nat /\ RevOf(pointer) <= GenOf(pointer)
    BY PointerNumbers DEF PointerHolds
  <1>3. maker[m].gen \in Nat /\ maker[m].gen <= MaxMade
    BY <1>1, SpritesAssumption DEF Present, Generations
  <1>4. maker[m].gen # GenOf(pointer) /\ RevOf(pointer) + 1 \in 0..MaxMade
        /\ RevOf(pointer) + 1 <= maker[m].gen
    BY <1>1, <1>2, <1>3, SpritesAssumption
  <1>5. ASSUME NEW v \in Viewers, viewer[v].at = "reading" PROVE viewer[v].gen # maker[m].gen
    <2>1. dirs[viewer[v].gen].has # "some" /\ dirs[viewer[v].gen].rev <= RevOf(pointer)
      BY <1>5 DEF ViewHolds
    <2>2. dirs[maker[m].gen].has = "some" \/ dirs[maker[m].gen].rev = RevOf(pointer) + 1
      BY <1>1 DEF RunHolds
    <2>3. ~(RevOf(pointer) + 1 <= RevOf(pointer))
      BY <1>2
    <2> QED BY <2>1, <2>2, <2>3
  <1> QED BY <1>1, <1>4, <1>5

LEMMA RenderingKeeps ==
  ASSUME SpritesInv, NEW m \in Makers, Render(m)
  PROVE  SpritesInv'
  <1> USE DEF SpritesInv
  <1>1. /\ maker[m].at = "rendering" /\ gate = m /\ lock # m
        /\ UNCHANGED <<strm, movieRow, pointer, made, gate, lock, viewer>>
    BY DEF Render, SpriteLocks
  <1>2. /\ maker[m].gen \in Present /\ maker[m].gen # GenOf(pointer)
        /\ \A v \in Viewers : viewer[v].at = "reading" => viewer[v].gen # maker[m].gen
        /\ RevOf(maker[m].old) = RevOf(pointer) /\ RevOf(pointer) + 1 \in 0..MaxMade
    BY <1>1, OwnIsHidden
  <1>3. PICK old \in SpriteRun, d \in SpriteDir, g \in Generations, rev \in 0..MaxMade :
          /\ old = maker[m] /\ g = maker[m].gen /\ d = dirs[g] /\ rev = RevOf(maker[m].old) + 1
    BY <1>2 DEF SpritesTyped, Present
  <1>4. PICK mk \in SpriteRun : mk = [old EXCEPT !.at = "rendered"] /\ mk.at = "rendered"
                                 /\ mk.old = old.old /\ mk.gen = old.gen /\ mk.of = old.of
    <2>1. [old EXCEPT !.at = "rendered"] \in SpriteRun
      BY DEF SpriteRun
    <2> QED BY <2>1 DEF SpriteRun
  <1>5. maker' = [maker EXCEPT ![m] = mk] /\ maker'[m] = mk
    BY <1>3, <1>4 DEF Render, MakerAt, SetMaker, SpritesTyped
  <1>6. PICK dir \in SpriteDir : /\ dir = [d EXCEPT !.has = "all", !.rev = rev]
                                 /\ dir.has = "all" /\ dir.rev = rev /\ dir.of = d.of
    <2>1. [d EXCEPT !.has = "all", !.rev = rev] \in SpriteDir
      BY DEF SpriteDir
    <2> QED BY <2>1 DEF SpriteDir
  <1>7. dirs' = [dirs EXCEPT ![g] = dir]
    <2>1. dirs' = [dirs EXCEPT ![g].has = "all", ![g].rev = rev]
      BY <1>3 DEF Render
    <2>2. dirs \in [Generations -> SpriteDir \cup {NoDir}]
      BY DEF SpritesTyped
    <2> QED BY <1>3, <1>6, <2>1, <2>2 DEF SpriteDir
  <1>8. /\ dirs' \in [Generations -> SpriteDir \cup {NoDir}] /\ dirs'[g] = dir
        /\ \A h \in Generations \ {g} : dirs'[h] = dirs[h]
    BY <1>7 DEF SpritesTyped
  <1>9. Present' = Present
    BY <1>2, <1>3, <1>8, SpritesAssumption DEF Present
  <1>10. GenerationsBounded'
    BY <1>9 DEF RoomLeft, GenerationsBounded
  <1>11. PointerHolds'
    <2>1. pointer # NoPreview => pointer.gen # g
      BY <1>2, <1>3 DEF GenOf
    <2>2. ActiveIsWhole'
      BY <1>1, <1>8, <2>1 DEF PointerHolds, ActiveIsWhole, Present
    <2> QED BY <1>1, <1>9, <2>2 DEF PointerHolds, RevOf, GenOf
  <1>12. ASSUME NEW v \in Viewers PROVE ViewHolds(v)'
    <2>1. viewer[v].at = "reading" => viewer[v].gen \in Generations /\ viewer[v].gen # g
      BY <1>2, <1>3 DEF ViewHolds, Present
    <2>2. RevOf(pointer)' = RevOf(pointer)
      BY <1>1 DEF RevOf
    <2> QED BY <1>1, <1>8, <2>1, <2>2, ViewStays, PointerNumbers
  <1>13. RunHolds(m)'
    <2>1. /\ maker'[m].at = "rendered" /\ maker'[m].gen = g /\ maker'[m].of = old.of
          /\ maker'[m].old = pointer /\ pointer' = pointer /\ made' = made
      BY <1>1, <1>3, <1>4, <1>5 DEF RunHolds
    <2>2. g <= made /\ g > GenOf(pointer) /\ d.of = old.of /\ g \in Present'
      BY <1>1, <1>2, <1>3, <1>9 DEF RunHolds
    <2>3. GenOf(pointer)' = GenOf(pointer) /\ RevOf(pointer) = RevOf(maker[m].old)
      BY <1>1, <1>2 DEF GenOf
    <2>4. dirs'[g].of = old.of /\ dirs'[g].has = "all" /\ dirs'[g].rev = RevOf(pointer) + 1
      BY <1>3, <1>6, <1>8, <2>2, <2>3
    <2> QED BY <2>1, <2>2, <2>3, <2>4 DEF RunHolds
  <1>14. pointer' \in SpritePointer \cup {NoPreview} /\ made' \in 0..MaxMade
    BY <1>1 DEF SpritesTyped
  <1> QED BY <1>1, <1>4, <1>5, <1>8, <1>10, <1>11, <1>12, <1>13, <1>14, RunMoves, SpritesAssumption

LEMMA PreparingKeeps ==
  ASSUME SpritesInv, NEW m \in Makers, PreparePublish(m)
  PROVE  SpritesInv'
  <1> USE DEF SpritesInv
  <1>1. /\ maker[m].at = "rendered" /\ lock = Nobody /\ lock' = m /\ gate = m
        /\ UNCHANGED <<strm, movieRow, pointer, dirs, made, gate, viewer>>
    BY DEF PreparePublish, SpriteLocks
  <1>2. PICK old \in SpriteRun : old = maker[m]
    BY DEF SpritesTyped
  <1>3. PICK mk \in SpriteRun : mk = [old EXCEPT !.at = "prepared"] /\ mk.at = "prepared"
                                 /\ mk.old = old.old /\ mk.gen = old.gen /\ mk.of = old.of
    <2>1. [old EXCEPT !.at = "prepared"] \in SpriteRun
      BY DEF SpriteRun
    <2> QED BY <2>1 DEF SpriteRun
  <1>4. maker' = [maker EXCEPT ![m] = mk] /\ maker'[m] = mk
    BY <1>2, <1>3 DEF PreparePublish, MakerAt, SetMaker, SpritesTyped
  <1>5. RunHolds(m)'
    BY <1>1, <1>2, <1>3, <1>4 DEF RunHolds, Present, GenOf
  <1> QED BY <1>1, <1>3, <1>4, <1>5, OneRunStep, SpritesAssumption

LEMMA PublishingKeeps ==
  ASSUME SpritesInv, NEW m \in Makers, PublishSprite(m)
  PROVE  SpritesInv'
  <1> USE DEF SpritesInv
  <1>1. /\ maker[m].at = "prepared" /\ lock = m /\ gate = m /\ maker[m].old = pointer
        /\ maker[m].gen <= made /\ dirs[maker[m].gen].of = maker[m].of
        /\ dirs[maker[m].gen].has = "all" /\ dirs[maker[m].gen].rev = RevOf(maker[m].old) + 1
        /\ UNCHANGED <<strm, movieRow, dirs, made, gate, lock, viewer>>
    BY DEF PublishSprite, RunHolds, SpriteLocks
  <1>2. /\ maker[m].gen \in Present
        /\ RevOf(maker[m].old) = RevOf(pointer) /\ RevOf(pointer) + 1 \in 0..MaxMade
        /\ RevOf(pointer) + 1 <= maker[m].gen
    BY <1>1, OwnIsHidden
  <1>3. PICK old \in SpriteRun, g \in Generations, rev \in 1..MaxMade :
          /\ old = maker[m] /\ g = maker[m].gen /\ rev = RevOf(maker[m].old) + 1
    BY <1>2, PointerNumbers, SpritesAssumption DEF SpritesTyped, Present
  <1>4. PICK mk \in SpriteRun : mk = [old EXCEPT !.at = "published"] /\ mk.at = "published"
                                 /\ mk.old = old.old /\ mk.gen = old.gen
    <2>1. [old EXCEPT !.at = "published"] \in SpriteRun
      BY DEF SpriteRun
    <2> QED BY <2>1 DEF SpriteRun
  <1>5. maker' = [maker EXCEPT ![m] = mk] /\ maker'[m] = mk
    BY <1>3, <1>4 DEF PublishSprite, MakerAt, SetMaker, SpritesTyped
  <1>6. PICK new \in SpritePointer : /\ new = [rev |-> rev, gen |-> g, of |-> old.of]
                                     /\ new.rev = rev /\ new.gen = g /\ new.of = old.of
    <2>1. old.of \in Sources
      BY DEF SpriteRun
    <2>2. [rev |-> rev, gen |-> g, of |-> old.of] \in SpritePointer
      BY <2>1 DEF SpritePointer
    <2> QED BY <2>2
  <1>7. pointer' = new /\ new # NoPreview
    BY <1>3, <1>6, SpritesAssumption DEF PublishSprite
  <1>8. RevOf(pointer)' = rev /\ GenOf(pointer)' = g
    BY <1>6, <1>7 DEF RevOf, GenOf
  <1>9. PointerHolds'
    <2>1. ActiveIsWhole'
      BY <1>1, <1>2, <1>3, <1>6, <1>7 DEF ActiveIsWhole, Present
    <2>2. rev <= g /\ g <= made'
      BY <1>1, <1>2, <1>3
    <2>3. \A h \in Present' : h <= made'
      BY <1>1 DEF PointerHolds, Present
    <2> QED BY <1>8, <2>1, <2>2, <2>3 DEF PointerHolds
  <1>10. RevOf(pointer) <= RevOf(pointer)' /\ RevOf(pointer)' \in Nat
    BY <1>2, <1>3, <1>8, PointerNumbers
  <1>11. ASSUME NEW v \in Viewers PROVE ViewHolds(v)'
    BY <1>1, <1>10, ViewStays, PointerNumbers
  <1>12. RunHolds(m)'
    <2>1. maker'[m].at = "published" /\ maker'[m].gen = g /\ maker'[m].old = maker[m].old /\ g <= made'
      BY <1>1, <1>3, <1>4, <1>5
    <2> QED BY <1>3, <1>6, <1>7, <2>1 DEF RunHolds
  <1>13. GenerationsBounded'
    BY <1>1 DEF RoomLeft, GenerationsBounded, Present
  <1>14. dirs' \in [Generations -> SpriteDir \cup {NoDir}] /\ made' \in 0..MaxMade
    BY <1>1 DEF SpritesTyped
  <1> QED BY <1>1, <1>4, <1>5, <1>7, <1>9, <1>11, <1>12, <1>13, <1>14, RunMoves, SpritesAssumption

LEMMA PruningAfterKeeps ==
  ASSUME SpritesInv, NEW m \in Makers, PruneAfter(m)
  PROVE  SpritesInv'
  <1> USE DEF SpritesInv
  <1>1. /\ maker[m].at = "published" /\ GenOf(pointer) = maker[m].gen
        /\ UNCHANGED <<strm, movieRow, pointer, made, viewer>>
    BY DEF PruneAfter, RunHolds, GenOf
  <1>2. CASE PruneOne(maker[m].gen, RevOf(maker[m].old) + 1) /\ UNCHANGED <<lock, gate, maker>>
    BY <1>1, <1>2, PruningKeeps
  <1>3. CASE LeaveGate(m) /\ dirs' = dirs
    BY <1>1, <1>3, RunEnds
  <1> QED BY <1>2, <1>3 DEF PruneAfter

\* A run that fails has not published: what it removes is hidden.
LEMMA FailingKeeps ==
  ASSUME SpritesInv, NEW m \in Makers, FailRun(m)
  PROVE  SpritesInv'
  <1> USE DEF SpritesInv
  <1>1. /\ maker[m].at \in {"gated", "opened", "ready", "rendering", "rendered", "prepared"}
        /\ LeaveGate(m) /\ UNCHANGED <<strm, movieRow, pointer, made, viewer>>
    BY DEF FailRun
  <1>2. CASE dirs' = dirs
    BY <1>1, <1>2, RunEnds
  <1>3. CASE maker[m].gen # 0 /\ RemoveDir(maker[m].gen)
    <2>1. maker[m].at \in {"rendering", "rendered", "prepared"}
      BY <1>1, <1>3 DEF RunHolds
    <2>2. /\ maker[m].gen \in Present /\ maker[m].gen # GenOf(pointer)
          /\ \A v \in Viewers : viewer[v].at = "reading" => viewer[v].gen # maker[m].gen
      BY <2>1, OwnIsHidden
    <2>3. /\ dirs' \in [Generations -> SpriteDir \cup {NoDir}]
          /\ PointerHolds' /\ (\A v \in Viewers : ViewHolds(v)')
          /\ GenerationsBounded'
      BY <1>1, <1>3, <2>2, RemovalKeeps
    <2>4. PICK mk \in SpriteRun : mk = Resting /\ mk.at = "out" /\ mk.gen = 0
      BY RestingTyped
    <2>5. maker' = [maker EXCEPT ![m] = mk] /\ maker'[m] = mk
      BY <1>1, <2>4 DEF LeaveGate, SetMaker, SpritesTyped
    <2>6. made' = made /\ made \in Nat
      BY <1>1, PointerNumbers
    <2>7. RunHolds(m)'
      BY <2>4, <2>5, <2>6 DEF RunHolds
    <2>8. gate' = Nobody /\ gate # Nobody /\ lock' = IF lock = m THEN Nobody ELSE lock
      BY <1>1, SpritesAssumption DEF LeaveGate, SpriteLocks
    <2>9. pointer' \in SpritePointer \cup {NoPreview} /\ made' \in 0..MaxMade
      BY <1>1 DEF SpritesTyped
    <2> QED BY <1>1, <2>3, <2>4, <2>5, <2>7, <2>8, <2>9, RunMoves
  <1> QED BY <1>2, <1>3 DEF FailRun

-----------------------------------------------------------------------------
(* Viewers and the world *)

\* The runs, and what they have made, are left alone.
LEMMA RunsStay ==
  ASSUME SpritesInv, UNCHANGED <<pointer, made, gate, maker, dirs>>
  PROVE  /\ PointerHolds' /\ RoomLeft' /\ (\A m \in Makers : RunHolds(m)')
         /\ (\A m \in Makers : (maker'[m].at # "out") <=> gate' = m)
  <1> USE DEF SpritesInv
  <1>1. PointerHolds'
    BY DEF PointerHolds, ActiveIsWhole, Present, GenOf, RevOf
  <1>2. RoomLeft'
    BY DEF RoomLeft, GenerationsBounded, Present
  <1>3. \A m \in Makers : RunHolds(m)'
    BY DEF RunHolds, Present, GenOf, RevOf
  <1> QED BY <1>1, <1>2, <1>3 DEF SpriteLocks

\* Whoever holds the lock has it to himself.
LEMMA ReaderIsAlone ==
  ASSUME SpritesInv, NEW v \in Viewers, lock \in {v, Nobody}
  PROVE  /\ \A w \in Viewers \ {v} : viewer[w].at # "reading"
         /\ \A m \in Makers : maker[m].at \notin {"opened", "prepared", "published"}
  BY SpritesAssumption DEF SpritesInv, SpriteLocks

LEMMA OneViewerMoves ==
  ASSUME SpritesInv, NEW v \in Viewers, NEW view \in SpriteView,
         viewer' = [viewer EXCEPT ![v] = view],
         UNCHANGED <<strm, movieRow, pointer, dirs, made, gate, maker>>,
         lock \in {v, Nobody}, lock' = IF view.at = "reading" THEN v ELSE Nobody,
         ViewHolds(v)'
  PROVE  SpritesInv'
  <1> USE DEF SpritesInv
  <1>1. /\ viewer' \in [Viewers -> SpriteView] /\ viewer'[v] = view
        /\ \A w \in Viewers \ {v} : viewer'[w] = viewer[w] /\ viewer[w].at # "reading"
    BY ReaderIsAlone DEF SpritesTyped
  <1>2. SpritesTyped'
    BY <1>1 DEF SpritesTyped
  <1>3. \A w \in Viewers : viewer'[w].at = "reading" <=> lock' = w
    BY <1>1, SpritesAssumption
  <1>4. \A m \in Makers : maker'[m].at \in {"opened", "prepared", "published"} <=> lock' = m
    BY ReaderIsAlone, SpritesAssumption
  <1>5. ASSUME NEW w \in Viewers PROVE ViewHolds(w)'
    BY <1>1 DEF ViewHolds, Present, RevOf
  <1> QED BY <1>2, <1>3, <1>4, <1>5, RunsStay DEF SpriteLocks

LEMMA ViewingKeeps ==
  ASSUME SpritesInv, NEW v \in Viewers, ViewSprite(v)
  PROVE  SpritesInv'
  <1> USE DEF SpritesInv
  <1>1. /\ lock = Nobody /\ lock' = v /\ pointer # NoPreview
        /\ UNCHANGED <<strm, movieRow, pointer, dirs, made, gate, maker>>
    BY DEF ViewSprite
  <1>2. PICK g \in Generations : Readable(g) /\ viewer' = [viewer EXCEPT ![v] = [at |-> "reading", gen |-> g]]
    BY DEF ViewSprite, SetViewer
  <1>3. PICK view \in SpriteView : /\ view = [at |-> "reading", gen |-> g]
                                   /\ view.at = "reading" /\ view.gen = g
    <2> DEFINE reads == [at |-> "reading", gen |-> g]
    <2>1. g \in 0..MaxMade
      BY DEF Generations
    <2>2. reads \in SpriteView
      BY <2>1 DEF SpriteView
    <2>3. reads.at = "reading" /\ reads.gen = g
      OBVIOUS
    <2> HIDE DEF reads
    <2>4. \E view \in SpriteView : view = reads /\ view.at = "reading" /\ view.gen = g
      BY <2>2, <2>3
    <2> QED BY <2>4 DEF reads
  <1>4. viewer' = [viewer EXCEPT ![v] = view] /\ viewer'[v] = view
    BY <1>2, <1>3 DEF SpritesTyped
  <1>5. g <= made
    BY <1>2 DEF Readable, PointerHolds
  <1>6. g \in Present /\ dirs[g].has # "some" /\ dirs[g].rev <= RevOf(pointer)
    BY <1>1, <1>2 DEF Readable, RevOf
  <1>7. viewer'[v].gen = g /\ dirs' = dirs /\ pointer' = pointer /\ made' = made
    BY <1>1, <1>3, <1>4
  <1>8. ViewHolds(v)'
    BY <1>5, <1>6, <1>7 DEF ViewHolds, RevOf, Present
  <1> QED BY <1>1, <1>3, <1>4, <1>8, OneViewerMoves

LEMMA NotReadingTyped == NotReading \in SpriteView /\ NotReading.at = "out" /\ NotReading.gen = 0
  <1>1. 0 \in 0..MaxMade
    BY SpritesAssumption
  <1>2. NotReading \in SpriteView
    BY <1>1 DEF SpriteView, NotReading
  <1> QED BY <1>2 DEF NotReading

LEMMA ClosingKeeps ==
  ASSUME SpritesInv, NEW v \in Viewers, CloseSprite(v)
  PROVE  SpritesInv'
  <1> USE DEF SpritesInv
  <1>1. /\ lock = v /\ lock' = Nobody
        /\ UNCHANGED <<strm, movieRow, pointer, dirs, made, gate, maker>>
    BY DEF CloseSprite, SpriteLocks
  <1>2. PICK view \in SpriteView : view = NotReading /\ view.at = "out" /\ view.gen = 0
    BY NotReadingTyped
  <1>3. viewer' = [viewer EXCEPT ![v] = view] /\ viewer'[v] = view
    BY <1>2 DEF CloseSprite, SetViewer, SpritesTyped
  <1>4. ViewHolds(v)'
    BY <1>1, <1>2, <1>3, PointerNumbers DEF ViewHolds
  <1> QED BY <1>1, <1>2, <1>3, <1>4, OneViewerMoves

LEMMA EditingKeeps ==
  ASSUME SpritesInv, EditSource \/ EditRow
  PROVE  SpritesInv'
  <1> USE DEF SpritesInv
  <1>1. UNCHANGED <<pointer, dirs, made, gate, lock, maker, viewer>>
    BY DEF EditSource, EditRow
  <1>2. strm' \in [content : Sources, stamp : 0..MaxTouched] /\ movieRow' \in 0..MaxTouched
    <2>1. CASE EditSource
      <3>1. PICK c \in Sources : strm' = [content |-> c, stamp |-> strm.stamp + 1]
        BY <2>1 DEF EditSource
      <3>2. PICK s : s = strm.stamp + 1
        OBVIOUS
      <3>3. s \in 0..MaxTouched
        BY <2>1, <3>2, SpritesAssumption DEF EditSource, SpritesTyped
      <3>4. movieRow' = movieRow
        BY <2>1 DEF EditSource
      <3> QED BY <3>1, <3>2, <3>3, <3>4 DEF SpritesTyped
    <2>2. CASE EditRow
      BY <2>2, SpritesAssumption DEF EditRow, SpritesTyped
    <2> QED BY <2>1, <2>2
  <1>3. SpritesTyped'
    BY <1>1, <1>2 DEF SpritesTyped
  <1>4. SpriteLocks'
    BY <1>1 DEF SpriteLocks
  <1>5. \A v \in Viewers : ViewHolds(v)'
    BY <1>1 DEF ViewHolds, Present, RevOf
  <1> QED BY <1>1, <1>3, <1>4, <1>5, RunsStay

LEMMA AgeingKeeps ==
  ASSUME SpritesInv, NEW g \in Generations, AgeDir(g)
  PROVE  SpritesInv'
  <1> USE DEF SpritesInv
  <1>1. g \in Present /\ UNCHANGED <<strm, movieRow, pointer, made, gate, lock, maker, viewer>>
    BY DEF AgeDir
  <1>2. PICK d \in SpriteDir : d = dirs[g]
    BY <1>1 DEF Present, SpritesTyped
  <1>3. PICK dir \in SpriteDir : /\ dir = [d EXCEPT !.young = FALSE]
                                 /\ dir.has = d.has /\ dir.rev = d.rev /\ dir.of = d.of
    <2>1. [d EXCEPT !.young = FALSE] \in SpriteDir
      BY DEF SpriteDir
    <2> QED BY <2>1 DEF SpriteDir
  <1>4. dirs' = [dirs EXCEPT ![g] = dir]
    BY <1>2, <1>3 DEF AgeDir
  <1>5. /\ dirs' \in [Generations -> SpriteDir \cup {NoDir}] /\ Present' = Present
        /\ \A h \in Generations : dirs'[h].has = dirs[h].has /\ dirs'[h].rev = dirs[h].rev
                                  /\ dirs'[h].of = dirs[h].of
    <2>1. dirs' \in [Generations -> SpriteDir \cup {NoDir}] /\ dirs'[g] = dir
          /\ \A h \in Generations \ {g} : dirs'[h] = dirs[h]
      BY <1>4 DEF SpritesTyped
    <2>2. Present' = Present
      BY <1>1, <2>1, SpritesAssumption DEF Present
    <2> QED BY <1>2, <1>3, <2>1, <2>2
  <1>6. SpritesTyped'
    BY <1>1, <1>5 DEF SpritesTyped
  <1>7. SpriteLocks'
    BY <1>1 DEF SpriteLocks
  <1>8. PointerHolds'
    BY <1>1, <1>5 DEF PointerHolds, ActiveIsWhole, GenOf, RevOf, Present
  <1>9. RoomLeft'
    BY <1>1, <1>5 DEF RoomLeft, GenerationsBounded
  <1>10. ASSUME NEW m \in Makers PROVE RunHolds(m)'
    <2>1. RunHolds(m) /\ (maker[m].gen \in Present => maker[m].gen \in Generations)
      BY DEF Present
    <2> QED BY <1>1, <1>5, <2>1 DEF RunHolds, GenOf
  <1>11. ASSUME NEW v \in Viewers PROVE ViewHolds(v)'
    <2>1. ViewHolds(v) /\ (viewer[v].gen \in Present => viewer[v].gen \in Generations)
      BY DEF Present
    <2> QED BY <1>1, <1>5, <2>1 DEF ViewHolds, RevOf
  <1> QED BY <1>6, <1>7, <1>8, <1>9, <1>10, <1>11

LEMMA StoppingKeeps ==
  ASSUME SpritesInv, StopProcess
  PROVE  SpritesInv'
  <1> USE DEF SpritesInv
  <1>1. /\ gate' = Nobody /\ lock' = Nobody
        /\ maker' = [m \in Makers |-> Resting] /\ viewer' = [v \in Viewers |-> NotReading]
        /\ UNCHANGED <<strm, movieRow, pointer, dirs, made>>
    BY DEF StopProcess
  <1>2. PICK mk \in SpriteRun : mk = Resting /\ mk.at = "out" /\ mk.gen = 0
    BY RestingTyped
  <1>3. PICK view \in SpriteView : view = NotReading /\ view.at = "out" /\ view.gen = 0
    BY NotReadingTyped
  <1>4. /\ maker' \in [Makers -> SpriteRun] /\ viewer' \in [Viewers -> SpriteView]
        /\ \A m \in Makers : maker'[m] = mk
        /\ \A v \in Viewers : viewer'[v] = view
    BY <1>1, <1>2, <1>3
  <1>5. SpritesTyped'
    BY <1>1, <1>4 DEF SpritesTyped
  <1>6. SpriteLocks'
    BY <1>1, <1>2, <1>3, <1>4, SpritesAssumption DEF SpriteLocks
  <1>7. PointerHolds'
    BY <1>1 DEF PointerHolds, ActiveIsWhole, Present, GenOf, RevOf
  <1>8. RoomLeft'
    BY <1>1, <1>2, <1>4 DEF RoomLeft, GenerationsBounded, Present
  <1>9. \A m \in Makers : RunHolds(m)'
    BY <1>1, <1>2, <1>4, PointerNumbers DEF RunHolds
  <1>10. \A v \in Viewers : ViewHolds(v)'
    BY <1>1, <1>3, <1>4, PointerNumbers DEF ViewHolds
  <1> QED BY <1>5, <1>6, <1>7, <1>8, <1>9, <1>10

LEMMA SpritesStart == SpritesInit => SpritesInv
  <1> SUFFICES ASSUME SpritesInit PROVE SpritesInv
    OBVIOUS
  <1>1. PICK mk \in SpriteRun : mk = Resting /\ mk.at = "out" /\ mk.gen = 0
    BY RestingTyped
  <1>2. PICK view \in SpriteView : view = NotReading /\ view.at = "out" /\ view.gen = 0
    BY NotReadingTyped
  <1>3. PICK c \in Sources : c = CHOOSE x \in Sources : TRUE
    BY SpritesAssumption
  <1>4. /\ strm = [content |-> c, stamp |-> 0] /\ movieRow = 0 /\ pointer = NoPreview /\ made = 0
        /\ dirs = [g \in Generations |-> NoDir] /\ gate = Nobody /\ lock = Nobody
        /\ maker = [m \in Makers |-> mk] /\ viewer = [v \in Viewers |-> view]
    BY <1>1, <1>2, <1>3 DEF SpritesInit
  <1>5. Present = {}
    BY <1>4 DEF Present
  <1>6. SpritesTyped
    <2>1. 0 \in 0..MaxMade /\ 0 \in 0..MaxTouched
      BY SpritesAssumption
    <2> QED BY <1>4, <2>1 DEF SpritesTyped
  <1>7. SpriteLocks
    BY <1>1, <1>2, <1>4, SpritesAssumption DEF SpriteLocks
  <1>8. PointerHolds
    BY <1>4, <1>5 DEF PointerHolds, ActiveIsWhole, RevOf, GenOf
  <1>9. RoomLeft
    BY <1>1, <1>4, <1>5, FS_EmptySet, SpritesAssumption DEF RoomLeft, GenerationsBounded
  <1>10. \A m \in Makers : RunHolds(m)
    BY <1>1, <1>4 DEF RunHolds
  <1>11. \A v \in Viewers : ViewHolds(v)
    BY <1>2, <1>4 DEF ViewHolds
  <1> QED BY <1>6, <1>7, <1>8, <1>9, <1>10, <1>11 DEF SpritesInv

LEMMA SpritesIdle ==
  ASSUME SpritesInv, UNCHANGED spriteVars
  PROVE  SpritesInv'
  <1> USE DEF SpritesInv, spriteVars
  <1>1. SpritesTyped' /\ SpriteLocks'
    BY DEF SpritesTyped, SpriteLocks
  <1>2. \A v \in Viewers : ViewHolds(v)'
    BY DEF ViewHolds, Present, RevOf
  <1> QED BY <1>1, <1>2, RunsStay

LEMMA SpritesStep == SpritesInv /\ [SpritesNext]_spriteVars => SpritesInv'
  <1> SUFFICES ASSUME SpritesInv, [SpritesNext]_spriteVars PROVE SpritesInv'
    OBVIOUS
  <1>1. ASSUME NEW m \in Makers,
               EnterGate(m) \/ OpenRun(m) \/ PruneBefore(m) \/ MakeDir(m) \/ Render(m)
        PROVE  SpritesInv'
    BY <1>1, EnteringKeeps, OpeningKeeps, PruningBeforeKeeps, MakingKeeps, RenderingKeeps
  <1>2. ASSUME NEW m \in Makers,
               PreparePublish(m) \/ PublishSprite(m) \/ PruneAfter(m) \/ FailRun(m)
        PROVE  SpritesInv'
    BY <1>2, PreparingKeeps, PublishingKeeps, PruningAfterKeeps, FailingKeeps
  <1>3. ASSUME NEW v \in Viewers, ViewSprite(v) \/ CloseSprite(v) PROVE SpritesInv'
    BY <1>3, ViewingKeeps, ClosingKeeps
  <1>4. CASE EditSource \/ EditRow \/ StopProcess
    BY <1>4, EditingKeeps, StoppingKeeps
  <1>5. ASSUME NEW g \in Generations, AgeDir(g) PROVE SpritesInv'
    BY <1>5, AgeingKeeps
  <1>6. CASE UNCHANGED spriteVars
    BY <1>6, SpritesIdle
  <1> QED BY <1>1, <1>2, <1>3, <1>4, <1>5, <1>6 DEF SpritesNext

\* In every reachable state the locks, the pointer, the runs and the viewers
\* are as they have to be (GenerateSprite, openSpriteRead).
THEOREM SpritesInductive == SpritesSpec => []SpritesInv
  BY SpritesStart, SpritesStep, PTL DEF SpritesSpec

\* The preview that is shown is whole and of the source it names, and beside
\* it and the generations that are kept there is at most one directory,
\* whatever failed or stopped (GenerateSprite, pruneSpriteGenerations).
THEOREM PreviewsAreKept == SpritesSpec => []SpritesAreKept
  <1>1. SpritesInv => SpritesAreKept
    BY DEF SpritesInv, PointerHolds, RoomLeft, SpritesAreKept
  <1> QED BY <1>1, SpritesInductive, PTL

\* While a viewer reads, no step of a run touches his directory.
LEMMA ReadingIsLeftAlone ==
  ASSUME SpritesInv, NEW v \in Viewers, viewer[v].at = "reading",
         \/ \E m \in Makers : MakeDir(m)
         \/ \E m \in Makers : PruneBefore(m) \/ Render(m) \/ PruneAfter(m) \/ FailRun(m)
  PROVE  dirs'[viewer[v].gen] = dirs[viewer[v].gen]
  <1> USE DEF SpritesInv
  <1>1. viewer[v].gen \in Present /\ viewer[v].gen \in Generations /\ viewer[v].gen <= made
    BY DEF ViewHolds, Present
  <1>2. \A m \in Makers : maker[m].at \notin {"opened", "published"}
    BY SpritesAssumption DEF SpriteLocks
  <1>3. ASSUME NEW m \in Makers, MakeDir(m) PROVE dirs'[viewer[v].gen] = dirs[viewer[v].gen]
    <2>1. PICK new, d : new = made + 1 /\ dirs' = [dirs EXCEPT ![new] = d]
      BY <1>3 DEF MakeDir
    <2>2. viewer[v].gen # new
      BY <1>1, <2>1, PointerNumbers DEF Generations
    <2> QED BY <1>1, <2>1, <2>2 DEF SpritesTyped
  <1>4. ASSUME NEW m \in Makers, Render(m) PROVE dirs'[viewer[v].gen] = dirs[viewer[v].gen]
    <2>1. PICK g, rev : /\ g = maker[m].gen
                        /\ dirs' = [dirs EXCEPT ![g].has = "all", ![g].rev = rev]
      BY <1>4 DEF Render
    <2>2. viewer[v].gen # g
      BY <1>4, <2>1, OwnIsHidden DEF Render
    <2> QED BY <1>1, <2>1, <2>2 DEF SpritesTyped
  <1>5. ASSUME NEW m \in Makers, FailRun(m) PROVE dirs'[viewer[v].gen] = dirs[viewer[v].gen]
    <2>1. CASE dirs' = dirs
      BY <2>1
    <2>2. CASE maker[m].gen # 0 /\ RemoveDir(maker[m].gen)
      <3>1. maker[m].at \in {"rendering", "rendered", "prepared"}
        BY <1>5, <2>2 DEF FailRun, RunHolds
      <3>2. maker[m].gen \in Present /\ viewer[v].gen # maker[m].gen
        BY <3>1, OwnIsHidden
      <3> QED BY <1>1, <2>2, <3>2, RemovingDir
    <2> QED BY <1>5, <2>1, <2>2 DEF FailRun
  <1>6. \A m \in Makers : ~PruneBefore(m) /\ ~PruneAfter(m)
    BY <1>2 DEF PruneBefore, PruneAfter
  <1> QED BY <1>3, <1>4, <1>5, <1>6

\* No file goes under a viewer who reads it (openSpriteRead holds the lock,
\* and a run that fails removes what nobody has been shown).
THEOREM ReadersAreUndisturbed == SpritesSpec => ReadsAreStable
  <1>1. SpritesInv /\ [SpritesNext]_spriteVars => [\A v \in Viewers : ReadStays(v)]_spriteVars
    <2> SUFFICES ASSUME SpritesInv, SpritesNext, NEW v \in Viewers,
                        viewer[v].at = "reading", viewer'[v].at = "reading"
                 PROVE  ReadStays(v)
      BY DEF ReadStays
    <2>1. CASE \/ \E m \in Makers : MakeDir(m)
               \/ \E m \in Makers : PruneBefore(m) \/ Render(m) \/ PruneAfter(m) \/ FailRun(m)
      BY <2>1, ReadingIsLeftAlone DEF ReadStays
    <2>2. CASE \/ \E m \in Makers : EnterGate(m) \/ OpenRun(m) \/ PreparePublish(m) \/ PublishSprite(m)
               \/ \E w \in Viewers : ViewSprite(w) \/ CloseSprite(w)
               \/ EditSource \/ EditRow \/ StopProcess
      <3>1. dirs' = dirs
        BY <2>2 DEF EnterGate, OpenRun, PreparePublish, PublishSprite, ViewSprite, CloseSprite,
                    EditSource, EditRow, StopProcess
      <3> QED BY <3>1 DEF ReadStays
    <2>3. ASSUME NEW g \in Generations, AgeDir(g) PROVE ReadStays(v)
      <3>1. viewer[v].gen \in Generations /\ dirs \in [Generations -> SpriteDir \cup {NoDir}]
        BY DEF SpritesInv, ViewHolds, Present, SpritesTyped
      <3>2. dirs' = [dirs EXCEPT ![g].young = FALSE]
        BY <2>3 DEF AgeDir
      <3>3. CASE viewer[v].gen = g
        BY <3>1, <3>2, <3>3 DEF ReadStays
      <3>4. CASE viewer[v].gen # g
        BY <3>1, <3>2, <3>4 DEF ReadStays
      <3> QED BY <3>3, <3>4
    <2> QED BY <2>1, <2>2, <2>3 DEF SpritesNext
  <1> QED BY <1>1, SpritesInductive, PTL DEF SpritesSpec, ReadsAreStable

\* Every variable of the previews keeps its type.
THEOREM SpritesTypeCorrect == SpritesSpec => []SpritesTypeOK
  <1>1. SpritesInv => SpritesTypeOK
    <2> SUFFICES ASSUME SpritesInv PROVE SpritesTypeOK
      OBVIOUS
    <2>1. SpritesTyped /\ MaxMade \in Nat
      BY SpritesAssumption DEF SpritesInv
    <2>2. ASSUME NEW m \in Makers
          PROVE  maker[m].old \in SpritePointer \cup {NoPreview} /\ maker[m].gen \in 0..made
      <3>1. maker[m] \in SpriteRun /\ maker[m].gen <= made /\ made \in 0..MaxMade
        BY <2>1 DEF SpritesTyped, SpritesInv, RunHolds
      <3>2. maker[m].gen \in 0..MaxMade
        BY <3>1 DEF SpriteRun
      <3> QED BY <3>1, <3>2, <2>1 DEF SpriteRun
    <2>3. ASSUME NEW v \in Viewers
          PROVE  viewer[v].gen \in 0..made
      <3>1. viewer[v] \in SpriteView /\ viewer[v].gen <= made /\ made \in 0..MaxMade
        BY <2>1 DEF SpritesTyped, SpritesInv, ViewHolds
      <3>2. viewer[v].gen \in 0..MaxMade
        BY <3>1 DEF SpriteView
      <3> QED BY <3>1, <3>2, <2>1
    <2> QED BY <2>1, <2>2, <2>3 DEF SpritesTyped, SpritesTypeOK
  <1> QED BY <1>1, SpritesInductive, PTL

-----------------------------------------------------------------------------
(****************************************************************************)
(* No edit is lost between the file and the record of what could not be     *)
(* written, for any number of clerks.  The invariant says that one clerk at *)
(* a time is at work on the file, and what each of them knows of it.        *)
(****************************************************************************)

ClerkState == [at : {"out", "editing", "saved", "digested", "marked", "read",
                     "checking", "indexed", "failed", "scanning"},
               digest : Contents, read : Contents]

\* The lane is with the one who is at work.
LaneHeld == \A c \in Clerks : clerk[c].at # "out" <=> laneOwner = c

\* What a request knows of the file and the row.  The file only gets contents
\* that are new, so what was read and is still there has not been replaced.
ClerkKnows(k) ==
  /\ k.at \in {"out", "editing"} => k.digest = 0
  /\ k.at = "saved" /\ k.digest # 0 /\ nfoStamp = lastEdit => k.digest = nfoStamp
  /\ k.at \in {"digested", "marked", "read", "checking"} => k.digest <= nfoStamp
  /\ k.at \in {"read", "checking"} => k.digest <= k.read /\ k.read <= nfoStamp
  /\ k.at = "checking" => row.of = k.read
  /\ k.at = "scanning" /\ nfoStamp = lastEdit => k.read = nfoStamp
  /\ k.at = "indexed" => /\ row = [of |-> k.digest, manual |-> TRUE]
                         /\ nfoStamp = lastEdit => k.digest = nfoStamp

\* A request that will index what was saved, or put it on the list.
Unfinished(k) == k.at \in {"saved", "digested", "marked", "read", "checking", "failed"}

EditIsKnown ==
  nfoStamp = lastEdit /\ row.of # lastEdit =>
    recoverable \/ excused \/ \E c \in Clerks : Unfinished(clerk[c])

EditsInv ==
  /\ EditsTypeOK /\ lastEdit <= nfoStamp /\ LaneHeld /\ EditIsKnown
  /\ \A c \in Clerks : ClerkKnows(clerk[c])
-----------------------------------------------------------------------------
LEMMA StampsAreNat == EditsTypeOK => nfoStamp \in Nat /\ lastEdit \in Nat /\ row.of \in Nat
  BY EditsAssumption DEF EditsTypeOK, Contents

\* The one who is at work is alone.
LEMMA OneAtWork ==
  ASSUME LaneHeld, NEW c \in Clerks, laneOwner \in {c, NoClerk}
  PROVE  \A d \in Clerks \ {c} : clerk[d].at = "out"
  BY EditsAssumption DEF LaneHeld

\* One request moves on, with the lane.
LEMMA ClerkMoves ==
  ASSUME EditsInv, NEW c \in Clerks, NEW k \in ClerkState,
         clerk' = [clerk EXCEPT ![c] = k], laneOwner \in {c, NoClerk},
         laneOwner' = IF k.at = "out" THEN NoClerk ELSE c,
         nfoStamp' \in Contents, lastEdit' \in Contents, lastEdit' <= nfoStamp',
         row' \in [of : Contents, manual : BOOLEAN],
         recoverable' \in BOOLEAN, excused' \in BOOLEAN,
         ClerkKnows(k)', EditIsKnown'
  PROVE  EditsInv'
  <1>1. /\ clerk' \in [Clerks -> ClerkState] /\ clerk'[c] = k
        /\ \A d \in Clerks \ {c} : clerk'[d] = clerk[d] /\ clerk[d].at = "out"
    BY OneAtWork DEF EditsInv, EditsTypeOK, ClerkState
  <1>2. laneOwner' \in Clerks \cup {NoClerk}
    OBVIOUS
  <1>3. EditsTypeOK'
    BY <1>1, <1>2 DEF EditsTypeOK, ClerkState
  <1>4. LaneHeld'
    BY <1>1, EditsAssumption DEF LaneHeld
  <1>5. ASSUME NEW d \in Clerks PROVE ClerkKnows(clerk[d])'
    <2>1. CASE d = c
      BY <1>1, <2>1 DEF ClerkKnows
    <2>2. CASE d # c
      BY <1>1, <2>2 DEF ClerkKnows, EditsInv
    <2> QED BY <2>1, <2>2
  <1> QED BY <1>3, <1>4, <1>5 DEF EditsInv

\* A request moves on and nothing else changes; it is unfinished, or was not.
LEMMA OnlyClerkMoves ==
  ASSUME EditsInv, NEW c \in Clerks, NEW k \in ClerkState,
         clerk' = [clerk EXCEPT ![c] = k], laneOwner \in {c, NoClerk},
         laneOwner' = IF k.at = "out" THEN NoClerk ELSE c,
         UNCHANGED <<nfoStamp, lastEdit, row, recoverable, excused>>,
         ClerkKnows(k),
         Unfinished(k) \/ ~Unfinished(clerk[c]) \/ ~(nfoStamp = lastEdit /\ row.of # lastEdit)
  PROVE  EditsInv'
  <1>1. ClerkKnows(k)'
    BY DEF ClerkKnows
  <1>2. clerk'[c] = k /\ \A d \in Clerks \ {c} : clerk'[d] = clerk[d] /\ ~Unfinished(clerk[d])
    BY OneAtWork DEF EditsInv, EditsTypeOK, Unfinished
  <1>3. EditIsKnown'
    BY <1>2 DEF EditsInv, EditIsKnown
  <1>4. /\ nfoStamp' \in Contents /\ lastEdit' \in Contents /\ lastEdit' <= nfoStamp'
        /\ row' \in [of : Contents, manual : BOOLEAN]
    BY DEF EditsInv, EditsTypeOK
  <1>5. recoverable' \in BOOLEAN /\ excused' \in BOOLEAN
    BY Zenon DEF EditsInv, EditsTypeOK
  <1> QED BY <1>1, <1>3, <1>4, <1>5, ClerkMoves

LEMMA AwayTyped == Away \in ClerkState /\ Away.at = "out" /\ Away.digest = 0 /\ ClerkKnows(Away) /\ ~Unfinished(Away)
  <1>1. 0 \in Contents
    BY EditsAssumption DEF Contents
  <1>2. Away \in ClerkState
    BY <1>1 DEF Away, ClerkState
  <1> QED BY <1>2 DEF Away, ClerkKnows, Unfinished

LEMMA BeginningEdit ==
  ASSUME EditsInv, NEW c \in Clerks, BeginEdit(c)
  PROVE  EditsInv'
  <1>1. PICK old \in ClerkState : old = clerk[c]
    BY DEF EditsInv, EditsTypeOK, ClerkState
  <1>2. PICK k \in ClerkState : k = [old EXCEPT !.at = "editing"] /\ k.at = "editing"
                                /\ k.digest = old.digest
    <2>1. [old EXCEPT !.at = "editing"] \in ClerkState
      BY DEF ClerkState
    <2> QED BY <2>1 DEF ClerkState
  <1>3. /\ clerk' = [clerk EXCEPT ![c] = k] /\ clerk[c].at = "out"
        /\ laneOwner = NoClerk /\ laneOwner' = c
        /\ UNCHANGED <<nfoStamp, lastEdit, row, recoverable, excused>>
    BY <1>1, <1>2 DEF BeginEdit, To, Step, Unrecorded
  <1>4. ClerkKnows(k) /\ ~Unfinished(clerk[c])
    BY <1>1, <1>2, <1>3 DEF ClerkKnows, Unfinished, EditsInv
  <1> QED BY <1>2, <1>3, <1>4, OnlyClerkMoves

LEMMA SavingEdited ==
  ASSUME EditsInv, NEW c \in Clerks, SaveEdited(c)
  PROVE  EditsInv'
  <1>1. PICK old \in ClerkState : old = clerk[c] /\ old.at = "editing" /\ ClerkKnows(old)
    BY DEF EditsInv, EditsTypeOK, ClerkState, SaveEdited, To, GoHome, Step
  <1>2. laneOwner = c
    BY <1>1 DEF EditsInv, LaneHeld
  <1>3. CASE /\ nfoStamp < MaxStamp /\ nfoStamp' = nfoStamp + 1 /\ lastEdit' = nfoStamp'
             /\ excused' = FALSE /\ To(c, "editing", "saved") /\ UNCHANGED laneOwner
             /\ UNCHANGED <<row, recoverable>>
    <2>1. PICK k \in ClerkState : k = [old EXCEPT !.at = "saved"] /\ k.at = "saved"
                                  /\ k.digest = old.digest
      <3>1. [old EXCEPT !.at = "saved"] \in ClerkState
        BY DEF ClerkState
      <3> QED BY <3>1 DEF ClerkState
    <2>2. clerk' = [clerk EXCEPT ![c] = k] /\ clerk'[c] = k
      BY <1>1, <1>3, <2>1 DEF To, Step, EditsInv, EditsTypeOK
    <2>3. nfoStamp' \in Contents /\ lastEdit' \in Contents /\ lastEdit' <= nfoStamp'
      BY <1>3, EditsAssumption DEF EditsInv, EditsTypeOK, Contents
    <2>4. ClerkKnows(k)'
      BY <1>1, <2>1 DEF ClerkKnows
    <2>5. EditIsKnown'
      BY <2>1, <2>2 DEF EditIsKnown, Unfinished
    <2>6. row' \in [of : Contents, manual : BOOLEAN]
      BY <1>3 DEF EditsInv, EditsTypeOK
    <2>7. recoverable' \in BOOLEAN /\ excused' \in BOOLEAN
      <3>1. recoverable' = recoverable
        BY <1>3
      <3>2. recoverable \in BOOLEAN
        BY DEF EditsInv, EditsTypeOK
      <3>3. recoverable' \in BOOLEAN
        BY <3>1, <3>2, Zenon
      <3>4. excused' \in BOOLEAN
        BY <1>3
      <3> QED BY <3>3, <3>4
    <2> QED BY <1>2, <1>3, <2>1, <2>2, <2>3, <2>4, <2>5, <2>6, <2>7, ClerkMoves
  <1>4. CASE GoHome(c, "editing") /\ UNCHANGED <<nfoStamp, lastEdit, excused, row, recoverable>>
    <2>1. PICK k \in ClerkState : k = Away /\ k.at = "out" /\ k.digest = 0 /\ ClerkKnows(k)
      BY AwayTyped
    <2>2. clerk' = [clerk EXCEPT ![c] = k] /\ laneOwner' = NoClerk /\ ~Unfinished(clerk[c])
      BY <1>1, <1>4, <2>1 DEF GoHome, Step, Unfinished
    <2> QED BY <1>2, <1>4, <2>1, <2>2, OnlyClerkMoves
  <1> QED BY <1>3, <1>4 DEF SaveEdited

LEMMA BeginningRecovery ==
  ASSUME EditsInv, NEW c \in Clerks, BeginRecovery(c)
  PROVE  EditsInv'
  <1>1. PICK digest \in 1..MaxStamp :
          /\ nfoStamp = digest /\ laneOwner' = c
          /\ Step(c, "out", [Away EXCEPT !.at = "saved", !.digest = digest])
    BY DEF BeginRecovery
  <1>2. PICK away \in ClerkState : away = Away
    BY AwayTyped
  <1>3. PICK k \in ClerkState : k = [away EXCEPT !.at = "saved", !.digest = digest]
                                /\ k.at = "saved" /\ k.digest = digest
    <2>1. digest \in Contents
      BY EditsAssumption DEF Contents
    <2>2. [away EXCEPT !.at = "saved", !.digest = digest] \in ClerkState
      BY <2>1 DEF ClerkState
    <2> QED BY <2>2 DEF ClerkState
  <1>4. /\ clerk' = [clerk EXCEPT ![c] = k] /\ laneOwner = NoClerk /\ laneOwner' = c
        /\ UNCHANGED <<nfoStamp, lastEdit, row, recoverable, excused>>
    BY <1>1, <1>2, <1>3 DEF BeginRecovery, Step, Unrecorded
  <1>5. ClerkKnows(k) /\ Unfinished(k)
    BY <1>1, <1>3 DEF ClerkKnows, Unfinished
  <1> QED BY <1>3, <1>4, <1>5, OnlyClerkMoves

\* A step that does nothing but fail.
LEMMA FailingStep ==
  ASSUME EditsInv, NEW c \in Clerks, NEW from \in {"saved", "digested", "marked", "read", "checking"},
         To(c, from, "failed"), UNCHANGED <<nfoStamp, row, laneOwner>>, Unrecorded
  PROVE  EditsInv'
  <1>1. PICK old \in ClerkState : old = clerk[c] /\ old.at = from
    BY DEF EditsInv, EditsTypeOK, ClerkState, To, Step
  <1>2. PICK k \in ClerkState : k = [old EXCEPT !.at = "failed"] /\ k.at = "failed"
    <2>1. [old EXCEPT !.at = "failed"] \in ClerkState
      BY DEF ClerkState
    <2> QED BY <2>1 DEF ClerkState
  <1>3. /\ clerk' = [clerk EXCEPT ![c] = k] /\ laneOwner = c /\ laneOwner' = c
        /\ UNCHANGED <<nfoStamp, lastEdit, row, recoverable, excused>>
    BY <1>1, <1>2 DEF To, Step, Unrecorded, EditsInv, LaneHeld
  <1>4. ClerkKnows(k) /\ Unfinished(k)
    BY <1>2 DEF ClerkKnows, Unfinished
  <1> QED BY <1>2, <1>3, <1>4, OnlyClerkMoves

LEMMA TakingDigest ==
  ASSUME EditsInv, NEW c \in Clerks, TakeDigest(c)
  PROVE  EditsInv'
  <1>1. PICK old \in ClerkState : old = clerk[c] /\ old.at = "saved" /\ ClerkKnows(old)
    BY DEF EditsInv, EditsTypeOK, ClerkState, TakeDigest, To, GoHome, Step
  <1>2. laneOwner = c /\ UNCHANGED <<nfoStamp, row>> /\ Unrecorded
    BY <1>1 DEF EditsInv, LaneHeld, TakeDigest
  <1>3. CASE /\ clerk[c].digest \in {0, nfoStamp}
             /\ Step(c, "saved", [clerk[c] EXCEPT !.at = "digested", !.digest = nfoStamp])
             /\ UNCHANGED laneOwner
    <2>1. PICK now \in Contents : now = nfoStamp
      BY DEF EditsInv, EditsTypeOK
    <2>2. PICK k \in ClerkState : k = [old EXCEPT !.at = "digested", !.digest = now]
                                  /\ k.at = "digested" /\ k.digest = now
      <3>1. [old EXCEPT !.at = "digested", !.digest = now] \in ClerkState
        BY DEF ClerkState
      <3> QED BY <3>1 DEF ClerkState
    <2>3. /\ clerk' = [clerk EXCEPT ![c] = k] /\ laneOwner' = c
          /\ UNCHANGED <<nfoStamp, lastEdit, row, recoverable, excused>>
      BY <1>1, <1>2, <1>3, <2>1, <2>2 DEF Step, Unrecorded
    <2>4. ClerkKnows(k) /\ Unfinished(k)
      BY <2>1, <2>2, StampsAreNat DEF ClerkKnows, Unfinished, EditsInv
    <2> QED BY <1>2, <2>2, <2>3, <2>4, OnlyClerkMoves
  <1>4. CASE clerk[c].digest \notin {0, nfoStamp} /\ GoHome(c, "saved")
    <2>1. PICK k \in ClerkState : k = Away /\ k.at = "out" /\ k.digest = 0 /\ ClerkKnows(k)
      BY AwayTyped
    <2>2. clerk' = [clerk EXCEPT ![c] = k] /\ laneOwner' = NoClerk
      BY <1>4, <2>1 DEF GoHome, Step
    <2>3. nfoStamp # lastEdit
      BY <1>1, <1>4 DEF ClerkKnows
    <2> QED BY <1>2, <2>1, <2>2, <2>3, OnlyClerkMoves DEF Unrecorded
  <1>5. CASE To(c, "saved", "failed") /\ UNCHANGED laneOwner
    BY <1>2, <1>5, FailingStep
  <1> QED BY <1>3, <1>4, <1>5 DEF TakeDigest

LEMMA MarkingManual ==
  ASSUME EditsInv, NEW c \in Clerks, MarkManual(c)
  PROVE  EditsInv'
  <1>1. CASE To(c, "digested", "failed") /\ UNCHANGED row
    BY <1>1, FailingStep DEF MarkManual
  <1>2. CASE To(c, "digested", "marked") /\ row' = [row EXCEPT !.manual = TRUE]
    <2>1. PICK old \in ClerkState : old = clerk[c] /\ old.at = "digested" /\ ClerkKnows(old)
      BY <1>2 DEF EditsInv, EditsTypeOK, ClerkState, To, Step
    <2>2. PICK k \in ClerkState : k = [old EXCEPT !.at = "marked"] /\ k.at = "marked" /\ k.digest = old.digest
      <3>1. [old EXCEPT !.at = "marked"] \in ClerkState
        BY DEF ClerkState
      <3> QED BY <3>1 DEF ClerkState
    <2>3. /\ clerk' = [clerk EXCEPT ![c] = k] /\ laneOwner = c /\ laneOwner' = c
          /\ UNCHANGED <<nfoStamp, lastEdit, recoverable, excused>>
      BY <1>2, <2>1, <2>2 DEF To, Step, Unrecorded, EditsInv, LaneHeld, MarkManual
    <2>4. clerk'[c] = k
      BY <2>3 DEF EditsInv, EditsTypeOK
    <2>5. PICK was \in [of : Contents, manual : BOOLEAN] : was = row
      BY DEF EditsInv, EditsTypeOK
    <2>6. row' = [was EXCEPT !.manual = TRUE]
      BY <1>2, <2>5
    <2>7. row' \in [of : Contents, manual : BOOLEAN]
      BY <2>6
    <2>8. ClerkKnows(k)'
      BY <2>1, <2>2, <2>3 DEF ClerkKnows
    <2>9. EditIsKnown'
      BY <2>2, <2>4 DEF EditIsKnown, Unfinished
    <2>10. nfoStamp' \in Contents /\ lastEdit' \in Contents /\ lastEdit' <= nfoStamp'
      BY <2>3 DEF EditsInv, EditsTypeOK
    <2>11. recoverable \in BOOLEAN /\ excused \in BOOLEAN
      BY DEF EditsInv, EditsTypeOK
    <2>12. recoverable' \in BOOLEAN /\ excused' \in BOOLEAN
      BY <2>3, <2>11, Zenon
    <2> QED BY <2>2, <2>3, <2>7, <2>8, <2>9, <2>10, <2>12, ClerkMoves
  <1> QED BY <1>1, <1>2 DEF MarkManual

LEMMA ReadingToIndex ==
  ASSUME EditsInv, NEW c \in Clerks, ReadToIndex(c)
  PROVE  EditsInv'
  <1>1. CASE To(c, "marked", "failed")
    BY <1>1, FailingStep DEF ReadToIndex
  <1>2. CASE Step(c, "marked", [clerk[c] EXCEPT !.at = "read", !.read = nfoStamp])
    <2>1. PICK old \in ClerkState : old = clerk[c] /\ old.at = "marked" /\ ClerkKnows(old)
      BY <1>2 DEF EditsInv, EditsTypeOK, ClerkState, To, Step
    <2>2. PICK now \in Contents : now = nfoStamp
      BY DEF EditsInv, EditsTypeOK
    <2>3. PICK k \in ClerkState : k = [old EXCEPT !.at = "read", !.read = now]
                                  /\ k.at = "read" /\ k.digest = old.digest /\ k.read = now
      <3>1. [old EXCEPT !.at = "read", !.read = now] \in ClerkState
        BY DEF ClerkState
      <3> QED BY <3>1 DEF ClerkState
    <2>4. /\ clerk' = [clerk EXCEPT ![c] = k] /\ laneOwner = c /\ laneOwner' = c
          /\ UNCHANGED <<nfoStamp, lastEdit, row, recoverable, excused>>
      BY <1>2, <2>1, <2>2, <2>3 DEF Step, Unrecorded, EditsInv, LaneHeld, ReadToIndex
    <2>5. k.digest <= nfoStamp /\ k.read <= nfoStamp /\ k.digest <= k.read
      BY <2>1, <2>2, <2>3, StampsAreNat DEF ClerkKnows, EditsInv
    <2>6. ClerkKnows(k) /\ Unfinished(k)
      BY <2>3, <2>5 DEF ClerkKnows, Unfinished
    <2> QED BY <2>3, <2>4, <2>6, OnlyClerkMoves
  <1> QED BY <1>1, <1>2 DEF ReadToIndex

LEMMA WritingIndex ==
  ASSUME EditsInv, NEW c \in Clerks, WriteIndex(c)
  PROVE  EditsInv'
  <1>1. CASE To(c, "read", "failed") /\ UNCHANGED row
    BY <1>1, FailingStep DEF WriteIndex
  <1>2. CASE To(c, "read", "checking") /\ row' = [row EXCEPT !.of = clerk[c].read]
    <2>1. PICK old \in ClerkState : old = clerk[c] /\ old.at = "read" /\ ClerkKnows(old)
      BY <1>2 DEF EditsInv, EditsTypeOK, ClerkState, To, Step
    <2>2. PICK k \in ClerkState : k = [old EXCEPT !.at = "checking"] /\ k.at = "checking"
                                  /\ k.digest = old.digest /\ k.read = old.read
      <3>1. [old EXCEPT !.at = "checking"] \in ClerkState
        BY DEF ClerkState
      <3> QED BY <3>1 DEF ClerkState
    <2>3. /\ clerk' = [clerk EXCEPT ![c] = k] /\ laneOwner = c /\ laneOwner' = c
          /\ UNCHANGED <<nfoStamp, lastEdit, recoverable, excused>>
      BY <1>2, <2>1, <2>2 DEF To, Step, Unrecorded, EditsInv, LaneHeld, WriteIndex
    <2>4. clerk'[c] = k
      BY <2>3 DEF EditsInv, EditsTypeOK
    <2>5. PICK was \in [of : Contents, manual : BOOLEAN], r \in Contents : was = row /\ r = old.read
      BY DEF EditsInv, EditsTypeOK, ClerkState
    <2>6. row' = [was EXCEPT !.of = r]
      BY <1>2, <2>1, <2>5
    <2>7. row' \in [of : Contents, manual : BOOLEAN] /\ row'.of = k.read
      BY <2>2, <2>5, <2>6
    <2>8. ClerkKnows(k)'
      BY <2>1, <2>2, <2>3, <2>7 DEF ClerkKnows
    <2>9. EditIsKnown'
      BY <2>2, <2>4 DEF EditIsKnown, Unfinished
    <2>10. nfoStamp' \in Contents /\ lastEdit' \in Contents /\ lastEdit' <= nfoStamp'
      BY <2>3 DEF EditsInv, EditsTypeOK
    <2>11. recoverable \in BOOLEAN /\ excused \in BOOLEAN
      BY DEF EditsInv, EditsTypeOK
    <2>12. recoverable' \in BOOLEAN /\ excused' \in BOOLEAN
      BY <2>3, <2>11, Zenon
    <2> QED BY <2>2, <2>3, <2>7, <2>8, <2>9, <2>10, <2>12, ClerkMoves
  <1> QED BY <1>1, <1>2 DEF WriteIndex

LEMMA CheckingIndexed ==
  ASSUME EditsInv, NEW c \in Clerks, CheckIndexed(c)
  PROVE  EditsInv'
  <1>1. CASE To(c, "checking", "failed")
    BY <1>1, FailingStep DEF CheckIndexed
  <1>2. CASE To(c, "checking", "indexed") /\ row.manual /\ nfoStamp = clerk[c].digest
    <2>1. PICK old \in ClerkState : old = clerk[c] /\ old.at = "checking" /\ ClerkKnows(old)
      BY <1>2 DEF EditsInv, EditsTypeOK, ClerkState, To, Step
    <2>2. PICK k \in ClerkState : k = [old EXCEPT !.at = "indexed"] /\ k.at = "indexed"
                                  /\ k.digest = old.digest
      <3>1. [old EXCEPT !.at = "indexed"] \in ClerkState
        BY DEF ClerkState
      <3> QED BY <3>1 DEF ClerkState
    <2>3. /\ clerk' = [clerk EXCEPT ![c] = k] /\ laneOwner = c /\ laneOwner' = c
          /\ UNCHANGED <<nfoStamp, lastEdit, row, recoverable, excused>>
      BY <1>2, <2>1, <2>2 DEF To, Step, Unrecorded, EditsInv, LaneHeld, CheckIndexed
    <2>4. row.of = k.digest
      <3>1. row.of = old.read /\ old.digest <= old.read /\ old.read <= nfoStamp /\ nfoStamp = old.digest
        BY <1>2, <2>1 DEF ClerkKnows
      <3>2. old.read \in Nat /\ old.digest \in Nat
        BY EditsAssumption DEF ClerkState, Contents
      <3> QED BY <2>2, <3>1, <3>2
    <2>5. row = [of |-> k.digest, manual |-> TRUE]
      <3>1. PICK was \in [of : Contents, manual : BOOLEAN] : was = row
        BY DEF EditsInv, EditsTypeOK
      <3>2. was.manual = TRUE /\ was.of = k.digest
        BY <1>2, <2>4, <3>1
      <3>3. was = [of |-> k.digest, manual |-> TRUE]
        BY <3>2
      <3> QED BY <3>1, <3>3
    <2>6. ClerkKnows(k)
      BY <1>2, <2>1, <2>2, <2>5 DEF ClerkKnows
    <2>7. ~(nfoStamp = lastEdit /\ row.of # lastEdit)
      BY <1>2, <2>1, <2>2, <2>4
    <2> QED BY <2>2, <2>3, <2>6, <2>7, OnlyClerkMoves
  <1> QED BY <1>1, <1>2 DEF CheckIndexed

\* The request is over, and what it leaves is known.
LEMMA GoingHome ==
  ASSUME EditsInv, NEW c \in Clerks, NEW from \in {"failed", "indexed", "scanning"}, GoHome(c, from),
         UNCHANGED <<nfoStamp, lastEdit>>, row' \in [of : Contents, manual : BOOLEAN],
         recoverable' \in BOOLEAN, excused' \in BOOLEAN,
         nfoStamp = lastEdit /\ row'.of # lastEdit =>
            \/ recoverable' \/ excused'
            \/ from = "scanning" /\ row.of # lastEdit /\ UNCHANGED <<recoverable, excused>>
  PROVE  EditsInv'
  <1>1. PICK k \in ClerkState : k = Away /\ k.at = "out" /\ k.digest = 0
    BY AwayTyped
  <1>2. clerk[c].at = from /\ laneOwner = c /\ laneOwner' = NoClerk /\ clerk' = [clerk EXCEPT ![c] = k]
    BY <1>1 DEF GoHome, Step, EditsInv, LaneHeld
  <1>3. ClerkKnows(k)'
    BY <1>1 DEF ClerkKnows
  <1>4. \A d \in Clerks \ {c} : clerk[d].at = "out"
    BY <1>2, OneAtWork DEF EditsInv
  <1>5. from = "scanning" => \A d \in Clerks : ~Unfinished(clerk[d])
    BY <1>2, <1>4 DEF Unfinished
  <1>6. EditIsKnown'
    <2> SUFFICES ASSUME nfoStamp' = lastEdit', row'.of # lastEdit' PROVE recoverable' \/ excused'
      BY DEF EditIsKnown
    <2>1. CASE from = "scanning" /\ row.of # lastEdit /\ UNCHANGED <<recoverable, excused>>
      BY <1>5, <2>1 DEF EditsInv, EditIsKnown
    <2> QED BY <2>1
  <1>7. nfoStamp' \in Contents /\ lastEdit' \in Contents /\ lastEdit' <= nfoStamp'
    BY DEF EditsInv, EditsTypeOK
  <1> QED BY <1>1, <1>2, <1>3, <1>6, <1>7, ClerkMoves

LEMMA NotingFailure ==
  ASSUME EditsInv, NEW c \in Clerks, NoteFailure(c)
  PROVE  EditsInv'
  <1>1. recoverable \in BOOLEAN /\ excused \in BOOLEAN
    BY DEF EditsInv, EditsTypeOK
  <1>2. GoHome(c, "failed") /\ UNCHANGED <<nfoStamp, lastEdit, row>>
    BY DEF NoteFailure
  <1>3. row' \in [of : Contents, manual : BOOLEAN]
    BY <1>2 DEF EditsInv, EditsTypeOK
  <1>4. CASE recoverable' = TRUE /\ excused' = excused
    <2>1. recoverable' \in BOOLEAN /\ excused' \in BOOLEAN
      BY <1>1, <1>4, Zenon
    <2> QED BY <1>2, <1>3, <1>4, <2>1, GoingHome
  <1>5. CASE excused' = TRUE /\ recoverable' = recoverable
    <2>1. recoverable' \in BOOLEAN /\ excused' \in BOOLEAN
      BY <1>1, <1>5, Zenon
    <2> QED BY <1>2, <1>3, <1>5, <2>1, GoingHome
  <1> QED BY <1>4, <1>5 DEF NoteFailure

LEMMA ClearingFailure ==
  ASSUME EditsInv, NEW c \in Clerks, ClearFailure(c)
  PROVE  EditsInv'
  <1>1. recoverable \in BOOLEAN /\ excused \in BOOLEAN
    BY DEF EditsInv, EditsTypeOK
  <1>2. GoHome(c, "indexed") /\ UNCHANGED <<nfoStamp, lastEdit, row, excused>>
    BY DEF ClearFailure
  <1>3. recoverable' \in BOOLEAN
    BY <1>1, Zenon DEF ClearFailure
  <1>4. excused' \in BOOLEAN
    BY <1>1, <1>2, Zenon
  <1>5. row' \in [of : Contents, manual : BOOLEAN]
    BY <1>2 DEF EditsInv, EditsTypeOK
  <1>6. ~(nfoStamp = lastEdit /\ row'.of # lastEdit)
    <2>1. clerk[c].at = "indexed" /\ ClerkKnows(clerk[c])
      BY <1>2 DEF GoHome, Step, EditsInv
    <2>2. PICK d : d = clerk[c].digest
      OBVIOUS
    <2>3. row = [of |-> d, manual |-> TRUE] /\ (nfoStamp = lastEdit => d = nfoStamp)
      BY <2>1, <2>2 DEF ClerkKnows
    <2>4. row.of = d
      BY <2>3
    <2> QED BY <1>2, <2>3, <2>4
  <1> QED BY <1>2, <1>3, <1>4, <1>5, <1>6, GoingHome

LEMMA Scanning ==
  ASSUME EditsInv, NEW c \in Clerks, ScanReads(c) \/ ScanWrites(c)
  PROVE  EditsInv'
  <1>1. CASE ScanReads(c)
    <2>1. PICK away \in ClerkState : away = Away
      BY AwayTyped
    <2>2. PICK now \in Contents : now = nfoStamp
      BY DEF EditsInv, EditsTypeOK
    <2>3. PICK k \in ClerkState : k = [away EXCEPT !.at = "scanning", !.read = now]
                                  /\ k.at = "scanning" /\ k.read = now
      <3>1. [away EXCEPT !.at = "scanning", !.read = now] \in ClerkState
        BY DEF ClerkState
      <3> QED BY <3>1 DEF ClerkState
    <2>4. /\ clerk' = [clerk EXCEPT ![c] = k] /\ laneOwner = NoClerk /\ laneOwner' = c
          /\ clerk[c].at = "out" /\ UNCHANGED <<nfoStamp, lastEdit, row, recoverable, excused>>
      BY <1>1, <2>1, <2>2, <2>3 DEF ScanReads, Step, Unrecorded
    <2>5. ClerkKnows(k) /\ ~Unfinished(clerk[c])
      BY <2>2, <2>3, <2>4 DEF ClerkKnows, Unfinished
    <2> QED BY <2>3, <2>4, <2>5, OnlyClerkMoves
  <1>2. CASE ScanWrites(c)
    <2>1. /\ GoHome(c, "scanning") /\ row' \in {row, [row EXCEPT !.of = clerk[c].read]}
          /\ UNCHANGED <<nfoStamp, lastEdit, recoverable, excused>>
      BY <1>2 DEF ScanWrites, Unrecorded
    <2>2. recoverable \in BOOLEAN /\ excused \in BOOLEAN
      BY DEF EditsInv, EditsTypeOK
    <2>3. recoverable' \in BOOLEAN /\ excused' \in BOOLEAN
      BY <2>1, <2>2, Zenon
    <2>4. PICK was \in [of : Contents, manual : BOOLEAN], r \in Contents : was = row /\ r = clerk[c].read
      BY DEF EditsInv, EditsTypeOK
    <2>5. nfoStamp = lastEdit => r = nfoStamp
      BY <2>1, <2>4 DEF EditsInv, ClerkKnows, GoHome, Step
    <2>6. row' \in {was, [was EXCEPT !.of = r]}
      BY <2>1, <2>4
    <2>7. row' \in [of : Contents, manual : BOOLEAN]
      BY <2>6
    <2>8. nfoStamp = lastEdit /\ row'.of # lastEdit => row.of # lastEdit
      BY <2>4, <2>5, <2>6
    <2> QED BY <2>1, <2>3, <2>7, <2>8, GoingHome
  <1> QED BY <1>1, <1>2

\* A content nobody has seen: neither the last edit nor what a scan has read.
LEMMA OthersWriting ==
  ASSUME EditsInv, OtherProgramWrites
  PROVE  EditsInv'
  <1>1. /\ nfoStamp' = nfoStamp + 1 /\ nfoStamp < MaxStamp
        /\ UNCHANGED <<row, laneOwner, clerk, lastEdit, recoverable, excused>>
    BY DEF OtherProgramWrites, Unrecorded
  <1>2. nfoStamp \in Nat /\ lastEdit \in Nat /\ lastEdit <= nfoStamp /\ nfoStamp' \in Contents
    BY <1>1, EditsAssumption DEF EditsInv, EditsTypeOK, Contents
  <1>3. lastEdit' <= nfoStamp' /\ nfoStamp' # lastEdit'
    BY <1>1, <1>2
  <1>4. EditsTypeOK'
    <2>1. recoverable \in BOOLEAN /\ excused \in BOOLEAN
      BY DEF EditsInv, EditsTypeOK
    <2>2. recoverable' \in BOOLEAN /\ excused' \in BOOLEAN
      BY <1>1, <2>1, Zenon
    <2> QED BY <1>1, <1>2, <2>2 DEF EditsInv, EditsTypeOK
  <1>5. LaneHeld' /\ EditIsKnown'
    BY <1>1, <1>3 DEF EditsInv, LaneHeld, EditIsKnown
  <1>6. ASSUME NEW c \in Clerks PROVE ClerkKnows(clerk[c])'
    <2>1. PICK k \in ClerkState : k = clerk[c] /\ k = clerk'[c] /\ ClerkKnows(k)
      BY <1>1 DEF EditsInv, EditsTypeOK, ClerkState
    <2>2. k.digest \in Nat /\ k.read \in Nat
      BY EditsAssumption DEF ClerkState, Contents
    <2>3. k.digest <= nfoStamp => k.digest <= nfoStamp'
      BY <1>1, <1>2, <2>2
    <2>4. k.read <= nfoStamp => k.read <= nfoStamp'
      BY <1>1, <1>2, <2>2
    <2> QED BY <1>1, <1>3, <2>1, <2>3, <2>4 DEF ClerkKnows
  <1> QED BY <1>3, <1>4, <1>5, <1>6 DEF EditsInv

LEMMA StoppingServer ==
  ASSUME EditsInv, StopServer
  PROVE  EditsInv'
  <1>1. /\ clerk' = [c \in Clerks |-> Away] /\ laneOwner' = NoClerk
        /\ UNCHANGED <<nfoStamp, lastEdit, row, recoverable>>
        /\ excused' = (excused \/ \E c \in Clerks : clerk[c].at \notin {"out", "scanning"})
    BY DEF StopServer
  <1>2. PICK k \in ClerkState : k = Away /\ k.at = "out" /\ k.digest = 0
    BY AwayTyped
  <1>3. clerk' \in [Clerks -> ClerkState] /\ \A c \in Clerks : clerk'[c] = k
    BY <1>1, <1>2
  <1>4. EditsTypeOK'
    <2>1. recoverable \in BOOLEAN /\ excused \in BOOLEAN
      BY DEF EditsInv, EditsTypeOK
    <2>2. recoverable' \in BOOLEAN
      BY <1>1, <2>1, Zenon
    <2>3. excused' \in BOOLEAN
      BY <1>1, <2>1, Zenon
    <2> QED BY <1>1, <1>3, <2>2, <2>3 DEF EditsInv, EditsTypeOK, ClerkState
  <1>5. LaneHeld'
    BY <1>1, <1>2, <1>3, EditsAssumption DEF LaneHeld
  <1>6. EditIsKnown'
    <2>1. (\E c \in Clerks : Unfinished(clerk[c])) => \E c \in Clerks : clerk[c].at \notin {"out", "scanning"}
      BY DEF Unfinished
    <2>2. nfoStamp = lastEdit /\ row.of # lastEdit => recoverable' \/ excused'
      BY <1>1, <2>1 DEF EditsInv, EditIsKnown
    <2> QED BY <1>1, <2>2 DEF EditIsKnown
  <1>7. \A c \in Clerks : ClerkKnows(clerk[c])'
    BY <1>2, <1>3 DEF ClerkKnows
  <1> QED BY <1>1, <1>4, <1>5, <1>6, <1>7 DEF EditsInv

LEMMA EditsStart == EditsInit => EditsInv
  <1> SUFFICES ASSUME EditsInit PROVE EditsInv
    OBVIOUS
  <1>1. PICK k \in ClerkState : k = Away /\ k.at = "out" /\ k.digest = 0
    BY AwayTyped
  <1>2. /\ clerk \in [Clerks -> ClerkState] /\ \A c \in Clerks : clerk[c] = k
    BY <1>1 DEF EditsInit
  <1>3. 0 \in Contents
    BY EditsAssumption DEF Contents
  <1>4. EditsTypeOK
    BY <1>2, <1>3 DEF EditsInit, EditsTypeOK, ClerkState
  <1>5. LaneHeld /\ EditIsKnown
    BY <1>1, <1>2, EditsAssumption DEF EditsInit, LaneHeld, EditIsKnown
  <1>6. \A c \in Clerks : ClerkKnows(clerk[c])
    BY <1>1, <1>2 DEF ClerkKnows
  <1> QED BY <1>4, <1>5, <1>6 DEF EditsInv, EditsInit

LEMMA EditsStep == EditsInv /\ [EditsNext]_editVars => EditsInv'
  <1> SUFFICES ASSUME EditsInv, [EditsNext]_editVars PROVE EditsInv'
    OBVIOUS
  <1>1. ASSUME NEW c \in Clerks,
               BeginEdit(c) \/ SaveEdited(c) \/ BeginRecovery(c) \/ TakeDigest(c) \/ MarkManual(c)
        PROVE  EditsInv'
    BY <1>1, BeginningEdit, SavingEdited, BeginningRecovery, TakingDigest, MarkingManual
  <1>2. ASSUME NEW c \in Clerks,
               ReadToIndex(c) \/ WriteIndex(c) \/ CheckIndexed(c) \/ NoteFailure(c) \/ ClearFailure(c)
               \/ ScanReads(c) \/ ScanWrites(c)
        PROVE  EditsInv'
    BY <1>2, ReadingToIndex, WritingIndex, CheckingIndexed, NotingFailure, ClearingFailure, Scanning
  <1>3. CASE OtherProgramWrites \/ StopServer
    BY <1>3, OthersWriting, StoppingServer
  <1>4. CASE UNCHANGED editVars
    BY <1>4, Zenon DEF editVars, EditsInv, EditsTypeOK, LaneHeld, EditIsKnown, ClerkKnows, Unfinished
  <1> QED BY <1>1, <1>2, <1>3, <1>4 DEF EditsNext

\* In every reachable state what the requests know of the file is so, and an
\* edit that is not in the index is known (edit_recovery.go).
THEOREM EditsInductive == EditsSpec => []EditsInv
  BY EditsStart, EditsStep, PTL DEF EditsSpec

\* What the answer to an edit says of the index is so, and an edit that is in
\* the file is in the index or on the list, whatever fails and whoever else
\* writes the file (finishEditedNFO, adminRecoverEdit).
THEOREM EditsAreNotLost == EditsSpec => []EditsAreAccounted
  <1>1. EditsInv => EditsAreAccounted
    <2> SUFFICES ASSUME EditsInv PROVE UnindexedEditIsListed /\ SuccessIsIndexed
      BY DEF EditsAreAccounted
    <2>1. ASSUME laneOwner = NoClerk PROVE ~\E c \in Clerks : Unfinished(clerk[c])
      BY <2>1, EditsAssumption DEF EditsInv, LaneHeld, Unfinished
    <2> QED BY <2>1 DEF EditsInv, EditIsKnown, UnindexedEditIsListed, SuccessIsIndexed, ClerkKnows
  <1> QED BY <1>1, EditsInductive, PTL

\* Every variable of the edits keeps its type.
THEOREM EditsTypeCorrect == EditsSpec => []EditsTypeOK
  <1>1. EditsInv => EditsTypeOK
    BY DEF EditsInv
  <1> QED BY EditsInductive, <1>1, PTL

-----------------------------------------------------------------------------
(***************************************************************************)
(* The program takes out only what it has put in, and can take out what is *)
(* its own, for any number of requests and tags.  The argument is about    *)
(* the lane: whoever has it has read the record that the file was left     *)
(* with, nobody else writes it, and between the file and the record what   *)
(* has been put in is in the hands of the lane's owner.                    *)
(***************************************************************************)

\* What a request has in its hands.
MarkJobs ==
  {NoJob}
  \cup [at : {"confirmed"}, tags : SUBSET Tags, marks : SUBSET Tags,
        evidence : SUBSET Tags, overwrite : BOOLEAN]
  \cup [at : {"scraping"}, marks : SUBSET Tags, evidence : SUBSET Tags]
  \cup [at : {"recording"}, previous : SUBSET Tags, owned : SUBSET Tags]

MarksTyped ==
  /\ tagsIn \subseteq Tags /\ autoMarks \subseteq Tags /\ evidence \subseteq Tags
  /\ ever \subseteq Tags /\ placed \subseteq Tags /\ missed \subseteq Tags
  /\ tagLane \in Taggers \cup {NoTagger} /\ tagger \in [Taggers -> MarkJobs]

\* Nobody is on his way without the lane, and he has read the record.
MarksHoldLane ==
  \A r \in Taggers :
    /\ (tagger[r].at # "out") = (tagLane = r)
    /\ tagger[r].at \in {"confirmed", "scraping"} => tagger[r].marks = autoMarks
    /\ tagger[r].at = "recording" => tagger[r].previous = autoMarks

\* What the program has put in is its own, on record or about to be.
MarksAccounted ==
  /\ placed \subseteq tagsIn
  /\ (\A r \in Taggers : tagger[r].at # "recording") => placed \subseteq autoMarks \cup missed
  /\ \A r \in Taggers : tagger[r].at = "recording" => placed \subseteq tagger[r].owned \cup missed

\* And it has put in what it takes for its own.
MarksJustified ==
  /\ autoMarks \subseteq ever
  /\ \A r \in Taggers : tagger[r].at = "recording" => tagger[r].owned \subseteq ever

MarksInv == MarksTyped /\ MarksHoldLane /\ MarksAccounted /\ MarksJustified

\* Every job has a stage, and what it needs there.
LEMMA MarkFacts ==
  ASSUME NEW j \in MarkJobs
  PROVE  /\ j.at \in {"out", "confirmed", "scraping", "recording"}
         /\ j.at = "confirmed" => j.tags \subseteq Tags
         /\ j.at \in {"confirmed", "scraping"} => j.marks \subseteq Tags /\ j.evidence \subseteq Tags
         /\ j.at = "recording" => j.previous \subseteq Tags /\ j.owned \subseteq Tags
  BY DEF MarkJobs, NoJob

\* mergeAutoMarkTags, with the record the file was left with: what is taken out
\* had been put in, and all that stays or is put in is accounted for.
LEMMA MergingMarks ==
  ASSUME NEW previous \in SUBSET Tags, NEW upstream \in SUBSET Tags, NEW now \in SUBSET Tags,
         NEW protected \in BOOLEAN, NEW r \in Taggers,
         tagsIn \subseteq Tags, placed \subseteq tagsIn, ever \subseteq Tags,
         previous \subseteq ever, placed \subseteq previous \cup missed,
         WriteTags(r, previous, upstream, now, protected)
  PROVE  \E owned \in SUBSET Tags :
           /\ tagger' = [tagger EXCEPT ![r] = [at |-> "recording", previous |-> previous,
                                               owned |-> owned]]
           /\ owned \subseteq ever' /\ placed' \subseteq owned \cup missed
           /\ tagsIn' \subseteq Tags /\ placed' \subseteq tagsIn'
           /\ ever \subseteq ever' /\ ever' \subseteq Tags
           /\ tagsIn \ tagsIn' \subseteq ever
           /\ UNCHANGED <<autoMarks, evidence, tagLane, missed>>
<1> DEFINE owned == Owned(previous, upstream, now, protected)
<1>1. tagger' = [tagger EXCEPT ![r] = [at |-> "recording", previous |-> previous,
                                       owned |-> owned]]
      /\ UNCHANGED <<autoMarks, evidence, tagLane, missed>>
  BY DEF WriteTags, Job
<1>2. CASE protected
  <2>1. tagsIn' = tagsIn /\ placed' = placed /\ ever' = ever /\ owned = previous \cap tagsIn
    BY <1>2 DEF WriteTags, After, Owned
  <2> QED BY <1>1, <2>1
<1>3. CASE ~protected
  <2> DEFINE foreign == (tagsIn \ previous) \cup upstream
             new     == (foreign \cup now) \ (tagsIn \cup upstream)
  <2>1. /\ tagsIn' = foreign \cup now /\ ever' = ever \cup new /\ owned = now \ foreign
        /\ placed' = ((placed \ upstream) \cap (foreign \cup now)) \cup new
    BY <1>3 DEF WriteTags, After, Owned, Foreign
  <2>2. owned \subseteq ever' /\ owned \in SUBSET Tags
    BY <2>1
  <2>3. placed' \subseteq owned \cup missed /\ placed' \subseteq tagsIn'
    BY <2>1
  <2>4. tagsIn' \subseteq Tags /\ ever' \subseteq Tags /\ ever \subseteq ever'
    BY <2>1
  <2>5. tagsIn \ tagsIn' \subseteq ever
    BY <2>1
  <2> QED BY <1>1, <2>2, <2>3, <2>4, <2>5
<1> QED BY <1>2, <1>3

\* So writing keeps the invariant, and takes nothing that is not the program's.
LEMMA WritingMarks ==
  ASSUME MarksInv, NEW r \in Taggers, tagger[r].at \in {"confirmed", "scraping"},
         NEW upstream \in SUBSET Tags, NEW protected \in BOOLEAN,
         WriteTags(r, tagger[r].marks, upstream, tagger[r].evidence, protected)
  PROVE  MarksInv' /\ tagsIn \ tagsIn' \subseteq ever
<1>1. /\ tagger[r].marks = autoMarks /\ tagger[r].marks \in SUBSET Tags
      /\ tagger[r].evidence \in SUBSET Tags /\ tagLane = r
  BY MarkFacts DEF MarksInv, MarksTyped, MarksHoldLane
<1>2. \A q \in Taggers \ {r} : tagger[q].at = "out"
  BY <1>1 DEF MarksInv, MarksHoldLane
<1>3. placed \subseteq tagger[r].marks \cup missed /\ tagger[r].marks \subseteq ever
  BY <1>1, <1>2 DEF MarksInv, MarksAccounted, MarksJustified
<1>4. PICK owned \in SUBSET Tags :
        /\ tagger' = [tagger EXCEPT ![r] = [at |-> "recording", previous |-> tagger[r].marks,
                                            owned |-> owned]]
        /\ owned \subseteq ever' /\ placed' \subseteq owned \cup missed
        /\ tagsIn' \subseteq Tags /\ placed' \subseteq tagsIn'
        /\ ever \subseteq ever' /\ ever' \subseteq Tags
        /\ tagsIn \ tagsIn' \subseteq ever
        /\ UNCHANGED <<autoMarks, evidence, tagLane, missed>>
  <2>1. tagsIn \subseteq Tags /\ placed \subseteq tagsIn /\ ever \subseteq Tags
    BY DEF MarksInv, MarksTyped, MarksAccounted
  <2> QED BY <1>1, <1>3, <2>1, MergingMarks
<1> DEFINE job == [at |-> "recording", previous |-> tagger[r].marks, owned |-> owned]
<1>5. job \in MarkJobs
  BY <1>1 DEF MarkJobs
<1>6. tagger' \in [Taggers -> MarkJobs] /\ tagger'[r] = job
      /\ \A q \in Taggers \ {r} : tagger'[q] = tagger[q]
  BY <1>4, <1>5 DEF MarksInv, MarksTyped
<1> HIDE DEF job
<1>7. job.at = "recording" /\ job.previous = autoMarks /\ job.owned = owned
  BY <1>1 DEF job
<1>8. MarksTyped'
  BY <1>4, <1>6 DEF MarksInv, MarksTyped
<1>9. MarksHoldLane'
  BY <1>1, <1>2, <1>4, <1>6, <1>7 DEF MarksInv, MarksHoldLane
<1>10. MarksAccounted'
  BY <1>2, <1>4, <1>6, <1>7 DEF MarksAccounted
<1>11. MarksJustified'
  BY <1>2, <1>4, <1>6, <1>7 DEF MarksInv, MarksJustified
<1> QED BY <1>4, <1>8, <1>9, <1>10, <1>11 DEF MarksInv

\* Taking the lane keeps it: nobody else is on his way.
LEMMA TakingMarks ==
  ASSUME MarksInv, NEW r \in Taggers, tagLane = NoTagger, tagLane' = r, NEW j \in MarkJobs,
         tagger' = [tagger EXCEPT ![r] = j],
         j.at \in {"confirmed", "scraping"}, j.marks = autoMarks,
         UNCHANGED <<tagsIn, evidence, retags, ever, placed, autoMarks, missed>>
  PROVE  MarksInv'
<1>1. tagger' \in [Taggers -> MarkJobs] /\ tagger'[r] = j
      /\ \A q \in Taggers \ {r} : tagger'[q] = tagger[q]
  BY DEF MarksInv, MarksTyped
<1>2. \A q \in Taggers : tagger[q].at = "out"
  BY MarksAssumption DEF MarksInv, MarksHoldLane
<1>3. MarksTyped'
  BY <1>1 DEF MarksInv, MarksTyped
<1>4. MarksHoldLane'
  BY <1>1, <1>2 DEF MarksInv, MarksHoldLane
<1>5. MarksAccounted'
  BY <1>1, <1>2 DEF MarksInv, MarksAccounted
<1>6. MarksJustified'
  BY <1>1, <1>2 DEF MarksInv, MarksJustified
<1> QED BY <1>3, <1>4, <1>5, <1>6 DEF MarksInv

\* Leaving the lane keeps it, if the record is what it was, is what was owned,
\* or could not be written.
LEMMA LeavingMarks ==
  ASSUME MarksInv, NEW r \in Taggers, tagger[r].at # "out", tagLane' = NoTagger,
         tagger' = [tagger EXCEPT ![r] = NoJob],
         UNCHANGED <<tagsIn, evidence, retags, ever, placed>>,
         \/ tagger[r].at # "recording" /\ UNCHANGED <<autoMarks, missed>>
         \/ tagger[r].at = "recording" /\ autoMarks' = tagger[r].owned /\ missed' = missed
         \/ tagger[r].at = "recording" /\ autoMarks' = autoMarks
              /\ missed' = missed \cup tagger[r].owned
  PROVE  MarksInv'
<1>1. tagger' \in [Taggers -> MarkJobs] /\ tagger'[r].at = "out"
      /\ \A q \in Taggers \ {r} : tagger'[q] = tagger[q]
  BY DEF MarksInv, MarksTyped, MarkJobs, NoJob
<1>2. tagLane = r
  BY DEF MarksInv, MarksHoldLane
<1>3. \A q \in Taggers \ {r} : tagger[q].at = "out"
  BY <1>2 DEF MarksInv, MarksHoldLane
<1>4. \A q \in Taggers : tagger'[q].at = "out"
  BY <1>1, <1>3
<1>5. autoMarks' \subseteq Tags /\ missed' \subseteq Tags
  BY MarkFacts DEF MarksInv, MarksTyped
<1>6. MarksTyped'
  BY <1>1, <1>5 DEF MarksInv, MarksTyped
<1>7. MarksHoldLane'
  BY <1>4, MarksAssumption DEF MarksHoldLane
<1>8. MarksAccounted'
  <2>1. placed' \subseteq autoMarks' \cup missed'
    BY <1>3 DEF MarksInv, MarksAccounted
  <2> QED BY <1>4, <2>1 DEF MarksInv, MarksAccounted
<1>9. MarksJustified'
  BY <1>4 DEF MarksInv, MarksJustified
<1> QED BY <1>6, <1>7, <1>8, <1>9 DEF MarksInv

LEMMA MarksStart == MarksInit => MarksInv
  BY MarksAssumption
  DEF MarksInit, MarksInv, MarksTyped, MarkJobs, NoJob, MarksHoldLane, MarksAccounted, MarksJustified

\* Every step keeps the invariant; what it takes out was the program's.
LEMMA MarksStep ==
  ASSUME MarksInv, [MarksNext]_markVars
  PROVE  MarksInv' /\ OnlyOwnTagsTaken
<1>1. ASSUME NEW r \in Taggers, ConfirmMarks(r) PROVE MarksInv' /\ OnlyOwnTagsTaken
  <2>1. PICK overwrite \in BOOLEAN :
          tagger' = [tagger EXCEPT ![r] =
            [at |-> "confirmed", tags |-> tagsIn, marks |-> autoMarks,
             evidence |-> evidence, overwrite |-> overwrite]]
    BY <1>1 DEF ConfirmMarks, Job
  <2> DEFINE j == [at |-> "confirmed", tags |-> tagsIn, marks |-> autoMarks,
                   evidence |-> evidence, overwrite |-> overwrite]
  <2>2. j \in MarkJobs
    BY DEF MarksInv, MarksTyped, MarkJobs
  <2>3. j.at = "confirmed" /\ j.marks = autoMarks
    OBVIOUS
  <2> HIDE DEF j
  <2>4. tagger' = [tagger EXCEPT ![r] = j]
    BY <2>1 DEF j
  <2>5. tagLane = NoTagger /\ tagLane' = r
        /\ UNCHANGED <<tagsIn, evidence, retags, ever, placed, autoMarks, missed>>
    BY <1>1 DEF ConfirmMarks, FileStays
  <2> QED BY <2>2, <2>3, <2>4, <2>5, TakingMarks DEF OnlyOwnTagsTaken
<1>2. ASSUME NEW r \in Taggers, StartTagging(r) PROVE MarksInv' /\ OnlyOwnTagsTaken
  <2> DEFINE j == [at |-> "scraping", marks |-> autoMarks, evidence |-> evidence]
  <2>1. j \in MarkJobs
    BY DEF MarksInv, MarksTyped, MarkJobs
  <2>2. j.at = "scraping" /\ j.marks = autoMarks /\ tagger' = [tagger EXCEPT ![r] = j]
    BY <1>2 DEF StartTagging, Job
  <2> HIDE DEF j
  <2>3. tagLane = NoTagger /\ tagLane' = r
        /\ UNCHANGED <<tagsIn, evidence, retags, ever, placed, autoMarks, missed>>
    BY <1>2 DEF StartTagging, FileStays
  <2> QED BY <2>1, <2>2, <2>3, TakingMarks DEF OnlyOwnTagsTaken
<1>3. ASSUME NEW r \in Taggers, CommitMarks(r) PROVE MarksInv' /\ OnlyOwnTagsTaken
  <2>1. PICK locked \in BOOLEAN :
          WriteTags(r, tagger[r].marks, {}, tagger[r].evidence,
                    Protected(tagger[r].overwrite, locked))
    BY <1>3 DEF CommitMarks
  <2>2. tagger[r].at = "confirmed" /\ Protected(tagger[r].overwrite, locked) \in BOOLEAN
    BY <1>3 DEF CommitMarks, Protected
  <2> QED BY <2>1, <2>2, WritingMarks DEF OnlyOwnTagsTaken
<1>4. ASSUME NEW r \in Taggers, WriteScraped(r) PROVE MarksInv' /\ OnlyOwnTagsTaken
  <2>1. PICK upstream \in SUBSET Tags, overwrite \in BOOLEAN, locked \in BOOLEAN :
          WriteTags(r, tagger[r].marks, upstream, tagger[r].evidence,
                    Protected(overwrite, locked))
    BY <1>4 DEF WriteScraped
  <2>2. tagger[r].at = "scraping" /\ Protected(overwrite, locked) \in BOOLEAN
    BY <1>4 DEF WriteScraped, Protected
  <2> QED BY <2>1, <2>2, WritingMarks DEF OnlyOwnTagsTaken
<1>5. ASSUME NEW r \in Taggers, DropMarks(r) PROVE MarksInv' /\ OnlyOwnTagsTaken
  <2>1. tagger[r].at \in {"confirmed", "scraping"} /\ tagger' = [tagger EXCEPT ![r] = NoJob]
        /\ tagLane' = NoTagger
        /\ UNCHANGED <<tagsIn, evidence, retags, ever, placed, autoMarks, missed>>
    BY <1>5 DEF DropMarks, Job, FileStays
  <2> QED BY <2>1, LeavingMarks DEF OnlyOwnTagsTaken
<1>6. ASSUME NEW r \in Taggers, RecordMarks(r) PROVE MarksInv' /\ OnlyOwnTagsTaken
  <2>1. tagger[r].at = "recording" /\ tagger' = [tagger EXCEPT ![r] = NoJob]
        /\ tagLane' = NoTagger /\ UNCHANGED <<tagsIn, evidence, retags, ever, placed>>
    BY <1>6 DEF RecordMarks, Job, FileStays
  <2>2. tagger[r].previous = autoMarks
    BY <2>1 DEF MarksInv, MarksHoldLane
  <2>3. \/ autoMarks' = tagger[r].owned /\ missed' = missed
        \/ autoMarks' = autoMarks /\ missed' = missed \cup tagger[r].owned
    BY <1>6, <2>2 DEF RecordMarks
  <2> QED BY <2>1, <2>3, LeavingMarks DEF OnlyOwnTagsTaken
<1>7. CASE PeopleTag
  <2>1. PICK tags \in SUBSET Tags : tagsIn' = tags /\ placed' = placed \cap tags
    BY <1>7 DEF PeopleTag
  <2>2. UNCHANGED <<autoMarks, evidence, tagLane, tagger, ever, missed>>
    BY <1>7 DEF PeopleTag
  <2> QED BY <2>1, <2>2 DEF MarksInv, MarksTyped, MarksHoldLane, MarksAccounted, MarksJustified, OnlyOwnTagsTaken
<1>8. CASE SubtitlesChange
  <2>1. evidence' \subseteq Tags
    BY <1>8 DEF SubtitlesChange
  <2>2. UNCHANGED <<tagsIn, autoMarks, tagLane, tagger, ever, placed, missed>>
    BY <1>8 DEF SubtitlesChange
  <2> QED BY <2>1, <2>2 DEF MarksInv, MarksTyped, MarksHoldLane, MarksAccounted, MarksJustified, OnlyOwnTagsTaken
<1>9. CASE StopTagging
  <2> DEFINE late == {q \in Taggers : tagger[q].at = "recording"}
  <2>1. /\ tagger' = [r \in Taggers |-> NoJob] /\ tagLane' = NoTagger
        /\ missed' = missed \cup UNION {tagger[r].owned : r \in late}
        /\ UNCHANGED <<tagsIn, evidence, ever, placed, autoMarks>>
    BY <1>9 DEF StopTagging, FileStays
  <2>2. tagger' \in [Taggers -> MarkJobs] /\ \A q \in Taggers : tagger'[q].at = "out"
    BY <2>1 DEF MarkJobs, NoJob
  <2>3. \A q \in late : tagger[q].owned \subseteq Tags /\ tagger[q].owned \subseteq missed'
    BY <2>1, MarkFacts DEF MarksInv, MarksTyped
  <2>4. missed' \subseteq Tags /\ missed \subseteq missed'
    BY <2>1, <2>3 DEF MarksInv, MarksTyped
  <2>5. placed \subseteq autoMarks \cup missed'
    BY <2>3, <2>4 DEF MarksInv, MarksAccounted
  <2>6. MarksTyped'
    BY <2>1, <2>2, <2>4 DEF MarksInv, MarksTyped
  <2>7. MarksHoldLane'
    BY <2>1, <2>2, MarksAssumption DEF MarksHoldLane
  <2>8. MarksAccounted' /\ MarksJustified'
    BY <2>1, <2>2, <2>5 DEF MarksInv, MarksAccounted, MarksJustified
  <2> QED BY <2>1, <2>6, <2>7, <2>8 DEF MarksInv, OnlyOwnTagsTaken
<1>10. CASE UNCHANGED markVars
  BY <1>10 DEF markVars, MarksInv, MarksTyped, MarksHoldLane, MarksAccounted, MarksJustified, OnlyOwnTagsTaken
<1> QED
  BY <1>1, <1>2, <1>3, <1>4, <1>5, <1>6, <1>7, <1>8, <1>9, <1>10 DEF MarksNext

\* A free lane means that nobody is about to record.
LEMMA FreeLaneOwned == MarksInv => MarksAreOwned
  BY MarksAssumption DEF MarksInv, MarksHoldLane, MarksAccounted, MarksAreOwned

\* What the requests have read and what they are going to record holds whenever
\* the lane is free, and while it is not.
THEOREM MarksInductive == MarksSpec => []MarksInv
<1>1. MarksInv /\ [MarksNext]_markVars => MarksInv'
  BY MarksStep
<1> QED BY MarksStart, <1>1, PTL DEF MarksSpec

\* MarksAreKept: however requests, scrapes, people, subtitles and the end of the
\* process meet (subtitle_marks.go, CommitAutoMarks, SetAutoMarks), only tags the
\* program has put into a file are taken out of it, and those that are in it are
\* on record unless the record was refused or lost, which is known.
THEOREM MarksKept == MarksSpec => MarksAreKept
<1>1. MarksInv /\ MarksInv' /\ [MarksNext]_markVars => [OnlyOwnTagsTaken /\ MarksAreOwned']_markVars
  <2>1. MarksInv' => MarksAreOwned'
    BY FreeLaneOwned, PTL
  <2> QED BY <2>1, MarksStep
<1> QED BY <1>1, MarksInductive, PTL DEF MarksSpec, MarksAreKept

\* One subtitle asks for one tag, and people write a bounded number of lists.
EvidenceIsOne == Cardinality(evidence) <= 1 /\ retags \in 0..MaxRetags

LEMMA EvidenceStep ==
  ASSUME EvidenceIsOne, [MarksNext]_markVars
  PROVE  EvidenceIsOne'
<1>1. MaxRetags \in Nat
  BY MarksAssumption
<1>2. ASSUME NEW r \in Taggers,
             \/ ConfirmMarks(r) \/ CommitMarks(r) \/ DropMarks(r)
             \/ StartTagging(r) \/ WriteScraped(r) \/ RecordMarks(r)
      PROVE  UNCHANGED <<evidence, retags>>
  <2>1. CASE CommitMarks(r)
    BY <2>1 DEF CommitMarks, WriteTags
  <2>2. CASE WriteScraped(r)
    BY <2>2 DEF WriteScraped, WriteTags
  <2> QED BY <1>2, <2>1, <2>2 DEF ConfirmMarks, DropMarks, StartTagging, RecordMarks, FileStays
<1>3. CASE PeopleTag
  BY <1>1, <1>3 DEF PeopleTag, EvidenceIsOne
<1>4. CASE SubtitlesChange
  <2>1. PICK e \in {{}} \cup {{t} : t \in Tags} : evidence' = e
    BY <1>4 DEF SubtitlesChange
  <2>2. Cardinality({}) = 0 /\ \A t \in Tags : Cardinality({t}) = 1
    BY FS_EmptySet, FS_Singleton
  <2>3. Cardinality(e) <= 1
    <3>1. CASE e = {}
      BY <2>2, <3>1
    <3>2. CASE \E t \in Tags : e = {t}
      BY <2>2, <3>2
    <3> QED BY <2>1, <3>1, <3>2
  <2> QED BY <1>4, <2>1, <2>3 DEF SubtitlesChange, EvidenceIsOne
<1>5. CASE StopTagging \/ UNCHANGED markVars
  BY <1>5 DEF StopTagging, FileStays, markVars, EvidenceIsOne
<1> QED BY <1>2, <1>3, <1>4, <1>5 DEF MarksNext, EvidenceIsOne

\* Every variable of the tags keeps its type.
THEOREM MarksTypeCorrect == MarksSpec => []MarksTypeOK
<1>1. MarksInit => EvidenceIsOne
  <2>1. Cardinality({}) = 0
    BY FS_EmptySet
  <2> QED BY <2>1, MarksAssumption DEF MarksInit, EvidenceIsOne
<1>2. EvidenceIsOne /\ [MarksNext]_markVars => EvidenceIsOne'
  BY EvidenceStep
<1>3. MarksInv /\ EvidenceIsOne => MarksTypeOK
  <2> SUFFICES ASSUME MarksInv, EvidenceIsOne PROVE MarksTypeOK
    OBVIOUS
  <2>1. MarksTyped
    BY DEF MarksInv
  <2>2. ASSUME NEW r \in Taggers PROVE tagger[r].at \in {"out", "confirmed", "scraping", "recording"}
    <3>1. tagger[r] \in MarkJobs
      BY <2>1 DEF MarksTyped
    <3> QED BY <3>1, MarkFacts
  <2> QED BY <2>1, <2>2 DEF MarksTyped, MarksTypeOK, EvidenceIsOne
<1> QED BY <1>1, <1>2, <1>3, MarksInductive, PTL DEF MarksSpec

-----------------------------------------------------------------------------
(****************************************************************************)
(* Events go where the administrator or the file said, for any number of   *)
(* settings, senders and restarts.  The invariant gives the mutex to the    *)
(* request that has stored a configuration and not yet closed the one       *)
(* before, so that what is stored is what is published next.                *)
(****************************************************************************)

\* A configuration, and what the requests and the events have in their hands.
Settings == [targets : Config, multi : BOOLEAN]
EditorState ==
  [at : {"out", "published"}] \cup [at : {"loaded"}, base : Settings]
    \cup [at : {"stored"}, new : Settings]
SendingState ==
  [at : {"sending"}, config : Config, todo : SUBSET TargetIds, tried : SUBSET TargetIds]
NoticeState ==
  [at : {"out"}] \cup [at : {"taken"}, gen : 0..MaxSaves, config : Config] \cup SendingState

HooksTyped ==
  /\ settingV1 \in Target \cup {Missing} /\ settingV2 \in Config \cup {Missing}
  /\ live \in [config : Settings, gen : 0..MaxSaves]
  /\ closed \in SUBSET (0..MaxSaves) /\ updating \in Editors \cup {NoEditor}
  /\ editor \in [Editors -> EditorState] /\ notice \in [Notices -> NoticeState]
  /\ fileTarget \in Target \cup {Missing}
  /\ given \in [TargetIds -> SUBSET Urls]
  /\ confirmed \in SUBSET TargetIds /\ inherited \in SUBSET {LegacyId}

\* The mutex is with the request that has stored and not yet closed.
UpdateHeld == \A e \in Editors : editor[e].at \in {"stored", "published"} <=> updating = e

\* What has been stored is what will be published, with a number of its own.
StoredIsNext ==
  \A e \in Editors :
    /\ editor[e].at = "stored" => editor[e].new = Stored /\ live.gen < MaxSaves
    /\ editor[e].at = "published" => live.gen > 0

HooksInv == HooksTyped /\ UpdateHeld /\ StoredIsNext /\ EventsGoWhereAgreed
-----------------------------------------------------------------------------
LEMMA TargetsAreFound == Missing \notin Target /\ Target \in SUBSET [url : Urls \cup {NoUrl}, on : BOOLEAN]
  BY WebhooksAssumption DEF Target

LEMMA OnlyTyped == ASSUME NEW t \in Target \cup {Missing} PROVE Only(t) \in Config
  BY DEF Only, Config

LEMMA LoadedTyped ==
  ASSUME NEW v1 \in Target \cup {Missing}, NEW v2 \in Config \cup {Missing},
         NEW file \in Target \cup {Missing}
  PROVE  Loaded(v1, v2, file) \in Settings
  <1>1. Only(file) \in Config /\ Only(v1) \in Config
    BY OnlyTyped
  <1>2. CASE v2 # Missing
    BY <1>2 DEF Loaded, Settings
  <1>3. CASE v2 = Missing /\ v1 # Missing
    BY <1>1, <1>3 DEF Loaded, Settings
  <1>4. CASE v2 = Missing /\ v1 = Missing
    BY <1>1, <1>4 DEF Loaded, Settings
  <1> QED BY <1>2, <1>3, <1>4

\* What the file gives is one address at most, for the one target it may have on.
LEMMA FileTyped ==
  ASSUME NEW file \in Target
  PROVE  /\ FileGives(file) \in [TargetIds -> SUBSET Urls]
         /\ On(Only(file)) \in SUBSET {LegacyId}
         /\ \A i \in Has(Only(file)) : Only(file)[i].url \in FileGives(file)[i] \cup {NoUrl}
  <1>1. file # Missing /\ file.url \in Urls \cup {NoUrl}
    BY TargetsAreFound
  <1>2. FileGives(file) \in [TargetIds -> SUBSET Urls]
    BY <1>1 DEF FileGives
  <1>3. \A i \in Has(Only(file)) : i = LegacyId /\ i \in TargetIds /\ Only(file)[i] = file
    BY DEF Has, Only
  <1>4. \A i \in Has(Only(file)) : FileGives(file)[i] = {file.url} \ {NoUrl}
    BY <1>3 DEF FileGives
  <1> QED BY <1>2, <1>3, <1>4 DEF On

LEMMA EditorsAre ==
  ASSUME NEW k \in EditorState
  PROVE  /\ k.at \in {"out", "loaded", "stored", "published"}
         /\ k.at = "stored" => k.new \in Settings
  BY DEF EditorState

LEMMA NotBusyTyped == NotBusy \in EditorState /\ NotBusy \in NoticeState /\ NotBusy.at = "out"
  BY DEF NotBusy, EditorState, NoticeState

\* What runs is what is stored while nobody has the mutex.
LEMMA RunsWhatIsStored ==
  ASSUME HooksInv, updating = NoEditor
  PROVE  live.config = Stored
  BY WebhooksAssumption DEF HooksInv, UpdateHeld, EventsGoWhereAgreed, RunningIsStored

\* A request loads or gives up.
LEMMA EditorWaits ==
  ASSUME HooksInv, NEW e \in Editors, NEW k \in EditorState, k.at \in {"out", "loaded"},
         editor[e].at \in {"out", "loaded"}, editor' = [editor EXCEPT ![e] = k],
         UNCHANGED <<storeVars, live, closed, updating, notice, pastVars>>
  PROVE  HooksInv'
  <1> USE DEF storeVars, pastVars
  <1>1. /\ editor' \in [Editors -> EditorState] /\ editor'[e] = k
        /\ \A d \in Editors \ {e} : editor'[d] = editor[d]
    BY DEF HooksInv, HooksTyped
  <1>2. HooksTyped'
    BY <1>1 DEF HooksInv, HooksTyped
  <1>3. UpdateHeld'
    BY <1>1 DEF HooksInv, UpdateHeld
  <1>4. StoredIsNext'
    BY <1>1 DEF HooksInv, StoredIsNext, Stored
  <1>5. EventsGoWhereAgreed'
    <2>1. \A d \in Editors : editor'[d].at # "stored" => editor[d].at # "stored"
      BY <1>1
    <2> QED BY <2>1 DEF HooksInv, EventsGoWhereAgreed, RunningIsStored, ConsentIsKept,
               OneConfigPerEvent, Stored
  <1> QED BY <1>2, <1>3, <1>4, <1>5 DEF HooksInv

LEMMA LoadingTargets ==
  ASSUME HooksInv, NEW e \in Editors, LoadTargets(e) \/ GiveUpEdit(e)
  PROVE  HooksInv'
  <1>1. CASE LoadTargets(e)
    <2>1. PICK c \in Settings : c = live.config
      BY DEF HooksInv, HooksTyped
    <2> DEFINE k == [at |-> "loaded", base |-> c]
    <2>2. k \in EditorState /\ k.at = "loaded"
      BY DEF EditorState
    <2>3. editor' = [editor EXCEPT ![e] = k]
      BY <1>1, <2>1 DEF LoadTargets, Edit
    <2> HIDE DEF k
    <2> QED BY <1>1, <2>2, <2>3, EditorWaits DEF LoadTargets
  <1>2. CASE GiveUpEdit(e)
    BY <1>2, NotBusyTyped, EditorWaits DEF GiveUpEdit, Edit
  <1> QED BY <1>1, <1>2

\* A request stores a configuration that a restart would load.
LEMMA Storing ==
  ASSUME HooksInv, NEW e \in Editors, NEW config \in Settings,
         updating = NoEditor, updating' = e, live.gen < MaxSaves,
         editor' = [editor EXCEPT ![e] = [at |-> "stored", new |-> config]],
         UNCHANGED <<live, closed, notice>>, fileTarget' = Missing,
         settingV1' \in Target \cup {Missing}, settingV2' \in Config \cup {Missing},
         Loaded(settingV1', settingV2', fileTarget') = config,
         given' \in [TargetIds -> SUBSET Urls],
         confirmed' \in SUBSET TargetIds, inherited' \in SUBSET {LegacyId},
         On(config.targets) \subseteq confirmed' \cup inherited',
         \A i \in Has(config.targets) : config.targets[i].url \in given'[i] \cup {NoUrl}
  PROVE  HooksInv'
  <1> DEFINE k == [at |-> "stored", new |-> config]
  <1>1. k \in EditorState /\ k.at = "stored" /\ k.new = config
    BY DEF EditorState
  <1>2. editor' = [editor EXCEPT ![e] = k]
    OBVIOUS
  <1> HIDE DEF k
  <1>3. /\ editor' \in [Editors -> EditorState] /\ editor'[e] = k
        /\ \A d \in Editors \ {e} : editor'[d] = editor[d] /\ editor[d].at \notin {"stored", "published"}
    BY <1>1, <1>2, WebhooksAssumption DEF HooksInv, HooksTyped, UpdateHeld
  <1>4. HooksTyped'
    BY <1>3 DEF HooksInv, HooksTyped
  <1>5. UpdateHeld'
    BY <1>1, <1>3 DEF UpdateHeld
  <1>6. Stored' = config
    BY DEF Stored
  <1>7. StoredIsNext'
    BY <1>1, <1>3, <1>6 DEF StoredIsNext
  <1>8. RunningIsStored'
    BY <1>1, <1>3 DEF RunningIsStored
  <1>9. ConsentIsKept'
    BY <1>6 DEF ConsentIsKept
  <1>10. OneConfigPerEvent'
    BY DEF HooksInv, EventsGoWhereAgreed, OneConfigPerEvent
  <1> QED BY <1>4, <1>5, <1>7, <1>8, <1>9, <1>10 DEF HooksInv, EventsGoWhereAgreed

\* The addresses given, once more are given with a configuration.
GivenWith(new, urls) ==
  [i \in TargetIds |-> IF new[i] = Missing THEN {}
                       ELSE given[i] \cup ({urls[i]} \ {Missing, NoUrl})]

\* An address that is kept was given for the target that keeps it.
LEMMA AddressesAreKept ==
  ASSUME HooksInv, updating = NoEditor,
         NEW ids \in SUBSET TargetIds, NEW on, NEW urls \in [TargetIds -> Urls \cup {NoUrl, Missing}],
         NEW new, new = Merged(live.config.targets, ids, urls, on),
         given' = GivenWith(new, urls)
  PROVE  /\ given' \in [TargetIds -> SUBSET Urls]
         /\ \A i \in Has(new) : new[i].url \in given'[i] \cup {NoUrl}
  <1>1. \A i \in TargetIds : given[i] \in SUBSET Urls
    BY DEF HooksInv, HooksTyped
  <1>2. given' \in [TargetIds -> SUBSET Urls]
    BY <1>1 DEF GivenWith
  <1>3. ASSUME NEW i \in Has(new) PROVE new[i].url \in given'[i] \cup {NoUrl}
    <2>1. i \in ids /\ i \in TargetIds /\ new[i] # Missing
      BY <1>3 DEF Has, Merged
    <2>2. new[i].url = IF urls[i] = Missing THEN KeptUrl(live.config.targets, i) ELSE urls[i]
      BY <2>1 DEF Merged
    <2>3. given'[i] = given[i] \cup ({urls[i]} \ {Missing, NoUrl})
      BY <2>1 DEF GivenWith
    <2>4. CASE urls[i] = Missing
      <3>1. i \in Has(live.config.targets) => live.config.targets[i].url \in given[i] \cup {NoUrl}
        BY RunsWhatIsStored DEF HooksInv, EventsGoWhereAgreed, ConsentIsKept
      <3> QED BY <2>2, <2>3, <2>4, <3>1 DEF KeptUrl
    <2>5. CASE urls[i] # Missing
      BY <2>2, <2>3, <2>5
    <2> QED BY <2>4, <2>5
  <1> QED BY <1>2, <1>3

LEMMA SavingTargets ==
  ASSUME HooksInv, NEW e \in Editors, SaveTargets(e)
  PROVE  HooksInv'
  <1>1. updating = NoEditor /\ live.gen < MaxSaves
    BY DEF SaveTargets, MaySave
  <1>2. PICK ids \in SUBSET TargetIds, confirm \in BOOLEAN : \E on \in SUBSET ids,
          urls \in [TargetIds -> Urls \cup {NoUrl, Missing}] :
          LET old == live.config.targets  new == Merged(old, ids, urls, on) IN
          /\ \A i \in TargetIds \ ids : urls[i] = Missing
          /\ NeedsConfirmation(old, new) # {} => confirm
          /\ Persist(e, [targets |-> new, multi |-> TRUE], urls)
          /\ settingV2' = new /\ settingV1' = settingV1
          /\ confirmed' = (confirmed \cap On(new)) \cup (IF confirm THEN On(new) ELSE {})
          /\ inherited' = inherited \cap On(new)
    BY DEF SaveTargets
  <1>3. PICK on \in SUBSET ids, urls \in [TargetIds -> Urls \cup {NoUrl, Missing}] :
          LET old == live.config.targets  new == Merged(old, ids, urls, on) IN
          /\ \A i \in TargetIds \ ids : urls[i] = Missing
          /\ NeedsConfirmation(old, new) # {} => confirm
          /\ Persist(e, [targets |-> new, multi |-> TRUE], urls)
          /\ settingV2' = new /\ settingV1' = settingV1
          /\ confirmed' = (confirmed \cap On(new)) \cup (IF confirm THEN On(new) ELSE {})
          /\ inherited' = inherited \cap On(new)
    BY <1>2
  <1>13. PICK new : new = Merged(live.config.targets, ids, urls, on)
    OBVIOUS
  <1>14. /\ new = Merged(live.config.targets, ids, urls, on)
         /\ NeedsConfirmation(live.config.targets, new) # {} => confirm
         /\ Persist(e, [targets |-> new, multi |-> TRUE], urls)
         /\ settingV2' = new /\ settingV1' = settingV1
         /\ confirmed' = (confirmed \cap On(new)) \cup (IF confirm THEN On(new) ELSE {})
          /\ inherited' = inherited \cap On(new)
    BY <1>3, <1>13
  <1>4. PICK config : config = [targets |-> new, multi |-> TRUE]
    OBVIOUS
  <1>12. config.targets = new
    BY <1>4
  <1>5. /\ updating' = e /\ new \in Config
        /\ editor' = [editor EXCEPT ![e] = [at |-> "stored", new |-> config]]
        /\ given' = GivenWith(new, urls)
        /\ fileTarget' = Missing /\ UNCHANGED <<live, closed, notice>>
    BY <1>14, <1>4, <1>12 DEF Persist, Edit, GivenWith
  <1>6. config \in Settings
    <2>1. new \in Config
      BY <1>5
    <2> QED BY <1>4, <2>1 DEF Settings
  <1>7. /\ given' \in [TargetIds -> SUBSET Urls]
        /\ \A i \in Has(new) : new[i].url \in given'[i] \cup {NoUrl}
    <2>1. new = Merged(live.config.targets, ids, urls, on)
      BY <1>14
    <2>2. given' = GivenWith(new, urls)
      BY <1>5
    <2>3. updating = NoEditor
      BY <1>1
    <2> QED BY <2>1, <2>2, <2>3, AddressesAreKept
  <1>8. On(new) \subseteq confirmed' \cup inherited'
    <2>1. CASE confirm
      BY <1>14, <2>1
    <2>2. CASE ~confirm
      <3>1. On(new) \subseteq On(live.config.targets)
        BY <1>14, <2>2 DEF NeedsConfirmation
      <3>2. On(live.config.targets) \subseteq confirmed \cup inherited
        BY <1>1, RunsWhatIsStored DEF HooksInv, EventsGoWhereAgreed, ConsentIsKept
      <3> QED BY <1>14, <3>1, <3>2
    <2> QED BY <2>1, <2>2
  <1>9. confirmed' \in SUBSET TargetIds /\ inherited' \in SUBSET {LegacyId}
    BY <1>14 DEF On, Has, HooksInv, HooksTyped
  <1>10. Loaded(settingV1', settingV2', fileTarget') = config
    BY <1>14, <1>4, <1>5, WebhooksAssumption DEF Loaded
  <1>11. settingV1' \in Target \cup {Missing} /\ settingV2' \in Config \cup {Missing}
    BY <1>14, <1>5 DEF HooksInv, HooksTyped
  <1> QED BY <1>1, <1>5, <1>6, <1>7, <1>8, <1>9, <1>10, <1>11, <1>12, Storing

LEMMA SavingSettings ==
  ASSUME HooksInv, NEW e \in Editors, SaveSettings(e)
  PROVE  HooksInv'
  <1>1. updating = NoEditor /\ live.gen < MaxSaves /\ ~live.config.multi
    BY DEF SaveSettings, MaySave
  <1>2. PICK url \in Urls \cup {NoUrl, Missing}, on \in BOOLEAN : StoreOneTarget(e, url, on)
    BY DEF SaveSettings
  <1>3. PICK ids, urls, ons :
          /\ ids \in SUBSET TargetIds /\ urls \in [TargetIds -> Urls \cup {NoUrl, Missing}]
          /\ ids = {LegacyId} /\ ons = (IF on THEN {LegacyId} ELSE {})
          /\ urls = [i \in TargetIds |-> IF i = LegacyId THEN url ELSE Missing]
    <2>1. {LegacyId} \in SUBSET TargetIds
      BY WebhooksAssumption
    <2>2. [i \in TargetIds |-> IF i = LegacyId THEN url ELSE Missing]
            \in [TargetIds -> Urls \cup {NoUrl, Missing}]
      OBVIOUS
    <2> QED BY <2>1, <2>2, Zenon
  <1>4. PICK new : new = OneTarget(url, on) /\ new = Merged(live.config.targets, ids, urls, ons)
    BY <1>3 DEF OneTarget
  <1>5. PICK config : config = [targets |-> new, multi |-> FALSE]
    OBVIOUS
  <1>16. config.targets = new
    BY <1>5
  <1>6. /\ Persist(e, config, urls) /\ settingV1' = new[LegacyId] /\ settingV2' = settingV2
        /\ confirmed' = On(new) /\ inherited' = {}
    BY <1>2, <1>3, <1>4, <1>5 DEF StoreOneTarget
  <1>7. /\ updating' = e /\ new \in Config
        /\ editor' = [editor EXCEPT ![e] = [at |-> "stored", new |-> config]]
        /\ given' = GivenWith(new, urls)
        /\ fileTarget' = Missing /\ UNCHANGED <<live, closed, notice>>
    BY <1>6, <1>16 DEF Persist, Edit, GivenWith
  <1>8. config \in Settings
    <2>1. new \in Config
      BY <1>7
    <2> QED BY <1>5, <2>1 DEF Settings
  <1>9. /\ given' \in [TargetIds -> SUBSET Urls]
        /\ \A i \in Has(new) : new[i].url \in given'[i] \cup {NoUrl}
    BY <1>1, <1>3, <1>4, <1>7, AddressesAreKept
  <1>10. settingV2 = Missing
    BY <1>1, RunsWhatIsStored DEF Stored, Loaded
  <1>11. new[LegacyId] # Missing
    <2> DEFINE u == IF url = Missing THEN KeptUrl(live.config.targets, LegacyId) ELSE url
    <2>1. u \in Urls \cup {NoUrl}
      <3>1. LegacyId \in Has(live.config.targets) => live.config.targets[LegacyId].url \in Urls \cup {NoUrl}
        BY TargetsAreFound DEF HooksInv, HooksTyped, Settings, Config, Has
      <3> QED BY <3>1 DEF KeptUrl
    <2>2. new[LegacyId] = [url |-> u, on |-> LegacyId \in ons]
      BY <1>3, <1>4, WebhooksAssumption DEF Merged
    <2>3. new[LegacyId] \in [url : Urls \cup {NoUrl}, on : BOOLEAN]
      BY <2>1, <2>2
    <2> QED BY <2>3, WebhooksAssumption
  <1>12. Only(new[LegacyId]) = new
    BY <1>3, <1>4, WebhooksAssumption DEF Only, Merged
  <1>13. Loaded(settingV1', settingV2', fileTarget') = config
    BY <1>5, <1>6, <1>10, <1>11, <1>12 DEF Loaded
  <1>14. settingV1' \in Target \cup {Missing} /\ settingV2' \in Config \cup {Missing}
    BY <1>6, <1>7, WebhooksAssumption DEF HooksInv, HooksTyped, Config
  <1>15. confirmed' \in SUBSET TargetIds /\ inherited' \in SUBSET {LegacyId}
    BY <1>6 DEF On, Has
  <1> QED BY <1>1, <1>6, <1>7, <1>8, <1>9, <1>13, <1>14, <1>15, <1>16, Storing

LEMMA Publishing ==
  ASSUME HooksInv, NEW e \in Editors, PublishConfig(e)
  PROVE  HooksInv'
  <1> USE DEF storeVars, pastVars
  <1>1. PICK c \in Settings, g \in 0..MaxSaves :
          /\ c = editor[e].new /\ c = Stored /\ g = live.gen + 1 /\ g > 0
    BY EditorsAre, WebhooksAssumption DEF PublishConfig, HooksInv, HooksTyped, StoredIsNext
  <1>2. /\ live' = [config |-> c, gen |-> g] /\ editor[e].at = "stored" /\ updating = e
        /\ editor' = [editor EXCEPT ![e] = [at |-> "published"]]
        /\ UNCHANGED <<storeVars, closed, updating, notice, pastVars>>
    BY <1>1 DEF PublishConfig, Edit, HooksInv, UpdateHeld
  <1>3. live' \in [config : Settings, gen : 0..MaxSaves] /\ live'.config = c /\ live'.gen = g
    BY <1>2
  <1> DEFINE k == [at |-> "published"]
  <1>4. k \in EditorState /\ k.at = "published"
    BY DEF EditorState
  <1>5. editor' = [editor EXCEPT ![e] = k]
    BY <1>2
  <1> HIDE DEF k
  <1>6. /\ editor' \in [Editors -> EditorState] /\ editor'[e] = k
        /\ \A d \in Editors \ {e} : editor'[d] = editor[d] /\ editor[d].at \notin {"stored", "published"}
    BY <1>2, <1>4, <1>5 DEF HooksInv, HooksTyped, UpdateHeld
  <1>7. HooksTyped'
    BY <1>2, <1>3, <1>6 DEF HooksInv, HooksTyped
  <1>8. UpdateHeld'
    BY <1>2, <1>4, <1>6 DEF UpdateHeld
  <1>9. StoredIsNext'
    BY <1>1, <1>3, <1>4, <1>6 DEF StoredIsNext
  <1>10. Stored' = Stored
    BY <1>2 DEF Stored
  <1>11. EventsGoWhereAgreed'
    BY <1>1, <1>2, <1>3, <1>10 DEF HooksInv, EventsGoWhereAgreed, RunningIsStored, ConsentIsKept, OneConfigPerEvent
  <1> QED BY <1>7, <1>8, <1>9, <1>11 DEF HooksInv

LEMMA ClosingOld ==
  ASSUME HooksInv, NEW e \in Editors, CloseOld(e)
  PROVE  HooksInv'
  <1> USE DEF storeVars, pastVars
  <1>1. /\ editor[e].at = "published" /\ updating = e /\ updating' = NoEditor
        /\ closed' = closed \cup {live.gen - 1}
        /\ UNCHANGED <<storeVars, live, notice, pastVars>>
    BY DEF CloseOld, HooksInv, UpdateHeld
  <1>2. PICK k \in EditorState : k = NotBusy /\ k.at = "out"
    BY NotBusyTyped
  <1>3. editor' = [editor EXCEPT ![e] = k]
    BY <1>2 DEF CloseOld, Edit
  <1>4. /\ editor' \in [Editors -> EditorState] /\ editor'[e] = k
        /\ \A d \in Editors \ {e} : editor'[d] = editor[d] /\ editor[d].at \notin {"stored", "published"}
    BY <1>1, <1>3 DEF HooksInv, HooksTyped, UpdateHeld
  <1>5. closed' \in SUBSET (0..MaxSaves)
    <2>1. live.gen \in 0..MaxSaves /\ closed \in SUBSET (0..MaxSaves)
      BY DEF HooksInv, HooksTyped
    <2>2. live.gen > 0
      BY <1>1 DEF HooksInv, StoredIsNext
    <2>3. live.gen - 1 \in 0..MaxSaves
      BY <2>1, <2>2, WebhooksAssumption
    <2> QED BY <1>1, <2>1, <2>3
  <1>6. HooksTyped'
    BY <1>1, <1>4, <1>5 DEF HooksInv, HooksTyped
  <1>7. UpdateHeld'
    BY <1>1, <1>2, <1>4, WebhooksAssumption DEF UpdateHeld
  <1>8. StoredIsNext'
    BY <1>2, <1>4 DEF StoredIsNext
  <1>9. live.config = Stored
    <2>1. \A d \in Editors : editor[d].at # "stored"
      BY <1>1, <1>4
    <2> QED BY <2>1 DEF HooksInv, EventsGoWhereAgreed, RunningIsStored
  <1>10. Stored' = Stored
    BY <1>1 DEF Stored
  <1>11. EventsGoWhereAgreed'
    BY <1>1, <1>9, <1>10 DEF HooksInv, EventsGoWhereAgreed, RunningIsStored, ConsentIsKept, OneConfigPerEvent
  <1> QED BY <1>6, <1>7, <1>8, <1>11 DEF HooksInv

LEMMA Noticing ==
  ASSUME HooksInv, NEW n \in Notices, NEW k \in NoticeState, notice' = [notice EXCEPT ![n] = k],
         k.at = "sending" => k.tried \cup k.todo = On(k.config), OnlyNotice
  PROVE  HooksInv'
  <1> USE DEF storeVars, pastVars
  <1>1. /\ notice' \in [Notices -> NoticeState] /\ notice'[n] = k
        /\ \A m \in Notices \ {n} : notice'[m] = notice[m]
    BY DEF HooksInv, HooksTyped
  <1>2. UNCHANGED <<storeVars, live, closed, updating, editor, pastVars>>
    BY DEF OnlyNotice
  <1>3. HooksTyped'
    BY <1>1, <1>2 DEF HooksInv, HooksTyped
  <1>4. UpdateHeld' /\ StoredIsNext' /\ RunningIsStored' /\ ConsentIsKept'
    BY <1>2 DEF HooksInv, UpdateHeld, StoredIsNext, EventsGoWhereAgreed, RunningIsStored, ConsentIsKept, Stored
  <1>5. OneConfigPerEvent'
    BY <1>1 DEF HooksInv, EventsGoWhereAgreed, OneConfigPerEvent
  <1> QED BY <1>3, <1>4, <1>5 DEF HooksInv, EventsGoWhereAgreed

LEMMA OnTyped == ASSUME NEW c PROVE On(c) \in SUBSET TargetIds
  BY DEF On, Has

LEMMA Sending ==
  ASSUME HooksInv, NEW n \in Notices, TakeSender(n) \/ BeginSend(n) \/ TryTarget(n) \/ FinishSend(n)
  PROVE  HooksInv'
  <1>1. CASE TakeSender(n)
    <2>1. PICK g \in 0..MaxSaves, c \in Config : g = live.gen /\ c = live.config.targets
      BY DEF HooksInv, HooksTyped, Settings
    <2> DEFINE k == [at |-> "taken", gen |-> g, config |-> c]
    <2>2. k \in NoticeState /\ k.at = "taken"
      BY DEF NoticeState
    <2>3. notice' = [notice EXCEPT ![n] = k] /\ OnlyNotice
      BY <1>1, <2>1 DEF TakeSender, Notice
    <2> HIDE DEF k
    <2> QED BY <2>2, <2>3, Noticing
  <1>2. CASE BeginSend(n)
    <2>1. CASE notice[n].gen \in closed
      BY <1>2, <2>1, NotBusyTyped, Noticing DEF BeginSend, Notice
    <2>2. CASE notice[n].gen \notin closed
      <3>1. PICK c \in Config : c = notice[n].config
        BY <1>2 DEF BeginSend, HooksInv, HooksTyped, NoticeState, SendingState
      <3>2. PICK s \in SUBSET TargetIds : s = On(c)
        BY OnTyped
      <3> DEFINE k == [at |-> "sending", config |-> c, todo |-> s, tried |-> {}]
      <3>3. k \in NoticeState /\ k.tried \cup k.todo = On(k.config)
        BY <3>2 DEF NoticeState, SendingState
      <3>4. notice' = [notice EXCEPT ![n] = k] /\ OnlyNotice
        BY <1>2, <2>2, <3>1, <3>2 DEF BeginSend, Notice
      <3> HIDE DEF k
      <3> QED BY <3>3, <3>4, Noticing
    <2> QED BY <2>1, <2>2
  <1>3. CASE TryTarget(n)
    <2>1. PICK old \in NoticeState : old = notice[n]
      BY DEF HooksInv, HooksTyped
    <2>2. /\ old \in SendingState /\ old.tried \cup old.todo = On(old.config)
      BY <1>3, <2>1 DEF TryTarget, NoticeState, SendingState, HooksInv, EventsGoWhereAgreed, OneConfigPerEvent
    <2>3. PICK s, r : s = old.todo /\ r = old.tried
      OBVIOUS
    <2>4. PICK i \in s : notice' = [notice EXCEPT ![n] = [old EXCEPT !.tried = r \cup {i}, !.todo = s \ {i}]]
      BY <1>3, <2>1, <2>3 DEF TryTarget, Notice, Subscribers
    <2> DEFINE k == [old EXCEPT !.tried = r \cup {i}, !.todo = s \ {i}]
    <2>5. k \in SendingState
      <3>1. s \ {i} \in SUBSET TargetIds /\ r \cup {i} \in SUBSET TargetIds
        BY <2>2, <2>3 DEF SendingState
      <3> QED BY <2>2, <3>1 DEF SendingState
    <2>6. k.tried = r \cup {i} /\ k.todo = s \ {i} /\ k.config = old.config
      BY <2>2 DEF SendingState
    <2>7. notice' = [notice EXCEPT ![n] = k] /\ OnlyNotice
      BY <1>3, <2>4 DEF TryTarget
    <2> HIDE DEF k
    <2>8. k \in NoticeState /\ k.tried \cup k.todo = On(k.config)
      BY <2>2, <2>3, <2>4, <2>5, <2>6 DEF SendingState, NoticeState
    <2> QED BY <2>7, <2>8, Noticing
  <1>4. CASE FinishSend(n)
    BY <1>4, NotBusyTyped, Noticing DEF FinishSend, Notice
  <1> QED BY <1>1, <1>2, <1>3, <1>4

LEMMA RestartingHooks ==
  ASSUME HooksInv, RestartHooks
  PROVE  HooksInv'
  <1>1. PICK k \in EditorState : k \in NoticeState /\ k = NotBusy /\ k.at = "out"
    BY NotBusyTyped
  <1>2. /\ editor' \in [Editors -> EditorState] /\ \A e \in Editors : editor'[e] = k
        /\ notice' \in [Notices -> NoticeState] /\ \A n \in Notices : notice'[n] = k
        /\ closed' = {} /\ updating' = NoEditor
        /\ UNCHANGED <<settingV1, settingV2, confirmed>>
    BY <1>1 DEF RestartHooks
  <1>11. PICK file \in Target :
           ReadFile(file) /\ live' = [live EXCEPT !.config = Loaded(settingV1, settingV2, file)]
    BY DEF RestartHooks
  <1>3. PICK was \in [config : Settings, gen : 0..MaxSaves], c \in Settings :
          was = live /\ c = Loaded(settingV1, settingV2, file)
    BY LoadedTyped DEF HooksInv, HooksTyped
  <1>4. live' = [was EXCEPT !.config = c]
    BY <1>3, <1>11
  <1>5. live' \in [config : Settings, gen : 0..MaxSaves] /\ live'.config = c
    BY <1>4
  <1> DEFINE FileCounts == settingV1 = Missing /\ settingV2 = Missing
  <1>12. ASSUME FileCounts
         PROVE  /\ fileTarget' = file /\ given' = FileGives(file) /\ inherited' = On(Only(file))
                /\ Stored' = c /\ c.targets = Only(file)
    <2>1. fileTarget' = file /\ given' = FileGives(file) /\ inherited' = On(Only(file))
      BY <1>11, <1>12 DEF ReadFile
    <2>2. Stored' = c /\ c.targets = Only(file)
      BY <1>2, <1>3, <1>12, <2>1 DEF Stored, Loaded
    <2> QED BY <2>1, <2>2
  <1>13. ASSUME ~FileCounts
         PROVE  UNCHANGED <<fileTarget, given, inherited>> /\ Stored' = Stored /\ c = Stored
    <2>1. UNCHANGED <<fileTarget, given, inherited>>
      BY <1>11, <1>13 DEF ReadFile
    <2>2. Stored' = Stored /\ c = Stored
      BY <1>2, <1>3, <1>13, <2>1 DEF Stored, Loaded
    <2> QED BY <2>1, <2>2
  <1>6. HooksTyped'
    BY <1>2, <1>5, <1>12, <1>13, FileTyped DEF HooksInv, HooksTyped
  <1>7. UpdateHeld' /\ StoredIsNext'
    BY <1>1, <1>2, WebhooksAssumption DEF UpdateHeld, StoredIsNext
  <1>8. Stored' = c
    BY <1>12, <1>13
  <1>9. RunningIsStored' /\ OneConfigPerEvent'
    BY <1>1, <1>2, <1>5, <1>8 DEF RunningIsStored, OneConfigPerEvent
  <1>10. ConsentIsKept'
    <2>1. CASE FileCounts
      BY <1>8, <1>12, <2>1, FileTyped DEF ConsentIsKept
    <2>2. CASE ~FileCounts
      BY <1>2, <1>13, <2>2 DEF HooksInv, EventsGoWhereAgreed, ConsentIsKept
    <2> QED BY <2>1, <2>2
  <1> QED BY <1>6, <1>7, <1>9, <1>10 DEF HooksInv, EventsGoWhereAgreed

LEMMA HooksStart == WebhooksInit => HooksInv
  <1> SUFFICES ASSUME WebhooksInit PROVE HooksInv
    OBVIOUS
  <1>1. PICK k \in EditorState : k \in NoticeState /\ k = NotBusy /\ k.at = "out"
    BY NotBusyTyped
  <1>10. PICK file \in Target : file = fileTarget
    BY DEF WebhooksInit
  <1>2. PICK c \in Settings : c = Loaded(Missing, Missing, file)
    BY LoadedTyped
  <1>3. /\ settingV1 = Missing /\ settingV2 = Missing /\ live = [config |-> c, gen |-> 0]
        /\ closed = {} /\ updating = NoEditor
        /\ editor \in [Editors -> EditorState] /\ \A e \in Editors : editor[e] = k
        /\ notice \in [Notices -> NoticeState] /\ \A n \in Notices : notice[n] = k
        /\ given = FileGives(file) /\ confirmed = {} /\ inherited = On(Only(file))
    BY <1>1, <1>2, <1>10 DEF WebhooksInit
  <1>4. live \in [config : Settings, gen : 0..MaxSaves] /\ live.config = c
    BY <1>3, WebhooksAssumption
  <1>5. HooksTyped
    BY <1>3, <1>4, <1>10, FileTyped DEF HooksTyped
  <1>6. UpdateHeld /\ StoredIsNext
    BY <1>1, <1>3, WebhooksAssumption DEF UpdateHeld, StoredIsNext
  <1>7. Stored = c /\ c.targets = Only(file)
    BY <1>2, <1>3, <1>10 DEF Stored, Loaded
  <1>8. ConsentIsKept
    BY <1>3, <1>7, FileTyped DEF ConsentIsKept
  <1>9. RunningIsStored /\ OneConfigPerEvent
    BY <1>1, <1>3, <1>4, <1>7 DEF RunningIsStored, OneConfigPerEvent
  <1> QED BY <1>5, <1>6, <1>8, <1>9 DEF HooksInv, EventsGoWhereAgreed

LEMMA HooksStep == HooksInv /\ [WebhooksNext]_hookVars => HooksInv'
  <1> SUFFICES ASSUME HooksInv, [WebhooksNext]_hookVars PROVE HooksInv'
    OBVIOUS
  <1>1. ASSUME NEW e \in Editors,
               LoadTargets(e) \/ SaveTargets(e) \/ SaveSettings(e) \/ PublishConfig(e) \/ CloseOld(e)
               \/ GiveUpEdit(e)
        PROVE  HooksInv'
    BY <1>1, LoadingTargets, SavingTargets, SavingSettings, Publishing, ClosingOld
  <1>2. ASSUME NEW n \in Notices, TakeSender(n) \/ BeginSend(n) \/ TryTarget(n) \/ FinishSend(n)
        PROVE  HooksInv'
    BY <1>2, Sending
  <1>3. CASE RestartHooks
    BY <1>3, RestartingHooks
  <1>4. CASE UNCHANGED hookVars
    BY <1>4 DEF hookVars, storeVars, pastVars, HooksInv, HooksTyped, UpdateHeld, StoredIsNext, EventsGoWhereAgreed,
                RunningIsStored, ConsentIsKept, OneConfigPerEvent, Stored
  <1> QED BY <1>1, <1>2, <1>3, <1>4 DEF WebhooksNext

\* In every reachable state the mutex, the settings, what runs and what is
\* being sent fit together (webhook_targets.go, webhook_settings.go).
THEOREM HooksInductive == WebhooksSpec => []HooksInv
  BY HooksStart, HooksStep, PTL DEF WebhooksSpec

\* An event goes where an administrator or the configuration file has said, by
\* the configuration that a restart would load (loadWebhookTargets,
\* adminSaveWebhookTargets, adminSaveWebhookSettings, publishWebhook).
THEOREM EventsFollowConsent == WebhooksSpec => []EventsGoWhereAgreed
  <1>1. HooksInv => EventsGoWhereAgreed
    BY DEF HooksInv
  <1> QED BY <1>1, HooksInductive, PTL

\* Every variable of the webhooks keeps its type.
THEOREM WebhooksTypeCorrect == WebhooksSpec => []WebhooksTypeOK
  <1>1. HooksInv => WebhooksTypeOK
    <2> SUFFICES ASSUME HooksInv PROVE WebhooksTypeOK
      OBVIOUS
    <2>1. HooksTyped
      BY DEF HooksInv
    <2>2. ASSUME NEW e \in Editors PROVE editor[e].at \in {"out", "loaded", "stored", "published"}
      <3>1. editor[e] \in EditorState
        BY <2>1 DEF HooksTyped
      <3> QED BY <3>1 DEF EditorState
    <2>3. ASSUME NEW n \in Notices PROVE notice[n].at \in {"out", "taken", "sending"}
      <3>1. notice[n] \in NoticeState
        BY <2>1 DEF HooksTyped
      <3> QED BY <3>1 DEF NoticeState, SendingState
    <2> QED BY <2>1, <2>2, <2>3 DEF HooksTyped, WebhooksTypeOK, Settings
  <1> QED BY <1>1, HooksInductive, PTL

-----------------------------------------------------------------------------
(****************************************************************************)
(* The last whole backup stays, for any number of processes, of which       *)
(* several may be in the directory at a time.  The invariant says of every  *)
(* backup that is a part, or that some run is going to prune, that there is *)
(* a younger whole one which nobody is going to prune.                      *)
(****************************************************************************)

BackupPlaces == Holding \cup {"out", "asking", "found", "dropped", "judged"}
BackupNames == Stamps \cup {0}
Prunings == SUBSET Stamps
Stages == {"none", "part", "all"}
BackupRun == [at : BackupPlaces, name : BackupNames, stage : Stages, old : Prunings]

BackupTyped ==
  /\ second \in Stamps /\ backups \in [Stamps -> {"none", "part", "all"}]
  /\ run \in [Writers -> BackupRun] /\ twice \in BOOLEAN

\* What a run is about to publish is whole, and has a name.
StageHolds(r) ==
  /\ r.at # "out" => r.name \in Stamps
  /\ r.at \in {"copied", "replaced"} => r.stage = "all"

\* Nobody is going to prune the whole backup m.
SafeBackup(m) == backups[m] = "all" /\ \A w \in Writers : m \notin run[w].old
Outlived(n) == \E m \in Stamps : n < m /\ SafeBackup(m)

PartsAreOutlived ==
  \A n \in Stamps :
    backups[n] = "part" \/ (\E w \in Writers : n \in run[w].old) => Outlived(n)

BackupInv ==
  /\ BackupTyped /\ \A w \in Writers : StageHolds(run[w])
  /\ ~twice => PartsAreOutlived
-----------------------------------------------------------------------------
LEMMA StampsAreNumbers == Stamps \subseteq Nat /\ IsFiniteSet(Stamps) /\ MaxSecond \in Nat
                          /\ 1 \in Stamps /\ 0 \notin Stamps
  BY BackupAssumption, FS_Interval DEF Stamps

\* Among some backups one is the youngest.
LEMMA Youngest ==
  ASSUME NEW R \in SUBSET Stamps, R # {}
  PROVE  \E x \in R : \A y \in R : y <= x
  <1> DEFINE S == {d \in Nat : \E y \in R : d = MaxSecond - y}
  <1>1. \A y \in R : y \in Nat /\ y <= MaxSecond
    BY BackupAssumption DEF Stamps
  <1>2. S \in SUBSET Nat
    BY <1>1, BackupAssumption
  <1>3. S # {}
    <2>1. PICK y \in R : TRUE
      OBVIOUS
    <2>2. MaxSecond - y \in S
      BY <1>1, <2>1, BackupAssumption
    <2> QED BY <2>2
  <1>4. PICK d \in S : \A e \in S : d <= e
    BY <1>2, <1>3, Least
  <1>5. PICK x \in R : d = MaxSecond - x
    OBVIOUS
  <1>6. ASSUME NEW y \in R PROVE y <= x
    <2>1. MaxSecond - y \in S
      BY <1>1, BackupAssumption
    <2>2. d <= MaxSecond - y
      BY <1>4, <2>1
    <2> QED BY <1>1, <1>5, <2>2, BackupAssumption
  <1> QED BY <1>6

LEMMA FreeTyped == Free \in BackupRun /\ Free.at = "out" /\ Free.old = {}
  BY DEF Free, BackupRun, BackupPlaces, BackupNames, Prunings, Stages

\* A run moves: what it is going to prune stays, or is nothing.
LEMMA RunGoesOn ==
  ASSUME BackupInv, NEW w \in Writers, NEW r \in BackupRun,
         run' = [run EXCEPT ![w] = r], StageHolds(r), r.old \in {run[w].old, {}},
         second' \in Stamps, UNCHANGED <<backups, twice>>
  PROVE  BackupInv'
  <1>1. /\ run' \in [Writers -> BackupRun] /\ run'[w] = r
        /\ \A v \in Writers \ {w} : run'[v] = run[v]
    BY DEF BackupInv, BackupTyped
  <1>2. BackupTyped'
    BY <1>1 DEF BackupInv, BackupTyped
  <1>3. \A v \in Writers : StageHolds(run'[v])
    BY <1>1 DEF BackupInv
  <1>4. \A v \in Writers : run'[v].old \subseteq run[v].old
    BY <1>1
  <1>5. \A m \in Stamps : SafeBackup(m) => SafeBackup(m)'
    BY <1>4 DEF SafeBackup
  <1>6. ASSUME ~twice PROVE PartsAreOutlived'
    BY <1>4, <1>5, <1>6 DEF BackupInv, PartsAreOutlived, Outlived
  <1>7. ~twice' => PartsAreOutlived'
    BY <1>6
  <1> QED BY <1>2, <1>3, <1>7 DEF BackupInv, StageHolds

\* What Move and StageIs make of a run.
LEMMA MoveIs ==
  ASSUME BackupInv, NEW w \in Writers, NEW from, NEW to \in BackupPlaces,
         Move(w, from, to), from # "out", to # "out", to # "replaced" \/ from = "copied", to # "copied"
  PROVE  \E r \in BackupRun :
           /\ run' = [run EXCEPT ![w] = r] /\ StageHolds(r) /\ r.old = run[w].old
  <1>1. PICK k \in BackupRun : k = run[w]
    BY DEF BackupInv, BackupTyped
  <1>2. PICK r \in BackupRun : /\ r = [k EXCEPT !.at = to] /\ r.at = to /\ r.name = k.name
                               /\ r.stage = k.stage /\ r.old = k.old
    <2> DEFINE r == [k EXCEPT !.at = to]
    <2>1. /\ r \in BackupRun /\ r.at = to /\ r.name = k.name
          /\ r.stage = k.stage /\ r.old = k.old
      BY DEF BackupRun
    <2> QED BY <2>1
  <1>3. run' = [run EXCEPT ![w] = r] /\ k.at = from
    BY <1>1, <1>2 DEF Move, PutRun
  <1>4. StageHolds(k)
    BY <1>1 DEF BackupInv
  <1>5. StageHolds(r)
    BY <1>2, <1>3, <1>4 DEF StageHolds
  <1> QED BY <1>1, <1>2, <1>3, <1>5

LEMMA StageMoves ==
  ASSUME BackupInv, NEW w \in Writers, NEW from \in BackupPlaces \ {"out"}, NEW to \in BackupPlaces, NEW what \in Stages,
         StageIs(w, from, to, what), to \in {"copied", "replaced"} => what = "all"
  PROVE  \E r \in BackupRun :
           /\ run' = [run EXCEPT ![w] = r] /\ StageHolds(r) /\ r.old = run[w].old
  <1>1. PICK k \in BackupRun : k = run[w]
    BY DEF BackupInv, BackupTyped
  <1>2. PICK r \in BackupRun : /\ r = [k EXCEPT !.at = to, !.stage = what] /\ r.at = to /\ r.name = k.name
                               /\ r.stage = what /\ r.old = k.old
    <2> DEFINE r == [k EXCEPT !.at = to, !.stage = what]
    <2>1. /\ r \in BackupRun /\ r.at = to /\ r.name = k.name
          /\ r.stage = what /\ r.old = k.old
      BY DEF BackupRun
    <2> QED BY <2>1
  <1>3. run' = [run EXCEPT ![w] = r] /\ k.at = from
    BY <1>1, <1>2 DEF StageIs, PutRun
  <1>4. StageHolds(k) /\ from # "out"
    BY <1>1 DEF BackupInv
  <1>5. StageHolds(r)
    BY <1>2, <1>3, <1>4 DEF StageHolds
  <1> QED BY <1>1, <1>2, <1>3, <1>5

\* Taking the lock, and the stage up to its last file.
LEMMA LockingKeeps ==
  ASSUME BackupInv, NEW w \in Writers,
         \/ CreateLock(w) \/ WritePid(w) \/ FindLock(w) \/ LockGone(w) \/ JudgeLock(w) \/ DropLock(w)
         \/ Snapshot(w) \/ SnapshotIsWhole(w)
  PROVE  BackupInv'
  <1>1. UNCHANGED <<second, backups, twice>> /\ second \in Stamps
    BY DEF CreateLock, WritePid, FindLock, LockGone, JudgeLock, DropLock, Snapshot, SnapshotIsWhole,
           BackupInv, BackupTyped
  <1>2. \E from, to :
          /\ Move(w, from, to) /\ from # "out" /\ to \notin {"copied", "replaced"}
          /\ to \in BackupPlaces \ {"out"}
    BY DEF CreateLock, WritePid, FindLock, LockGone, JudgeLock, DropLock, Snapshot, SnapshotIsWhole,
           Holding, BackupPlaces
  <1>3. PICK from, to :
          /\ Move(w, from, to) /\ from # "out" /\ to \notin {"copied", "replaced"}
          /\ to \in BackupPlaces \ {"out"}
    BY <1>2
  <1> QED BY <1>1, <1>3, MoveIs, RunGoesOn

LEMMA StagingKeeps ==
  ASSUME BackupInv, NEW w \in Writers, MakeStage(w) \/ CopyMedia(w)
  PROVE  BackupInv'
  <1>1. UNCHANGED <<second, backups, twice>> /\ second \in Stamps
    BY DEF MakeStage, CopyMedia, BackupInv, BackupTyped
  <1>2. \/ StageIs(w, "locked", "staged", "part")
        \/ StageIs(w, "checked", "copied", "all")
    BY DEF MakeStage, CopyMedia
  <1> QED BY <1>1, <1>2, StageMoves, RunGoesOn DEF Holding, BackupPlaces, Stages

\* A run leaves, or is no more.
LEMMA LeavingBackup ==
  ASSUME BackupInv, NEW w \in Writers, run' = [run EXCEPT ![w] = Free],
         second' \in Stamps, UNCHANGED <<backups, twice>>
  PROVE  BackupInv'
  <1>1. StageHolds(Free)
    BY FreeTyped DEF StageHolds
  <1> QED BY <1>1, FreeTyped, RunGoesOn

LEMMA RefusalKeeps ==
  ASSUME BackupInv, NEW w \in Writers, RefuseBackup(w)
  PROVE  BackupInv'
  <1>1. PICK k \in BackupRun : k = run[w]
    BY DEF BackupInv, BackupTyped
  <1>2. PICK r \in BackupRun : r = [k EXCEPT !.at = "out"] /\ r.at = "out" /\ r.old = k.old
    <2> DEFINE r == [k EXCEPT !.at = "out"]
    <2>1. "out" \in BackupPlaces
      BY DEF BackupPlaces
    <2>2. r \in BackupRun /\ r.at = "out" /\ r.old = k.old
      BY <2>1 DEF BackupRun
    <2> QED BY <2>2
  <1>3. run' = [run EXCEPT ![w] = r] /\ UNCHANGED <<second, backups, twice>> /\ second \in Stamps
    BY <1>1, <1>2 DEF RefuseBackup, Move, PutRun, BackupInv, BackupTyped
  <1>4. StageHolds(r)
    BY <1>2 DEF StageHolds
  <1> QED BY <1>1, <1>2, <1>3, <1>4, RunGoesOn

LEMMA StartingKeeps ==
  ASSUME BackupInv, NEW w \in Writers, StartBackup(w)
  PROVE  BackupInv'
  <1>1. PICK free \in BackupRun : free = Free /\ free.old = {}
    BY FreeTyped
  <1>2. second \in Stamps /\ UNCHANGED <<second, backups, twice>>
    BY DEF StartBackup, BackupInv, BackupTyped
  <1>3. PICK s \in Stamps : s = second
    BY <1>2
  <1>4. PICK r \in BackupRun : /\ r = [free EXCEPT !.at = "asking", !.name = s]
                               /\ r.at = "asking" /\ r.name = s /\ r.old = {}
    <2>1. "asking" \in BackupPlaces /\ s \in BackupNames
      BY DEF BackupPlaces, BackupNames
    <2> DEFINE r == [free EXCEPT !.at = "asking", !.name = s]
    <2>2. r \in BackupRun /\ r.at = "asking" /\ r.name = s /\ r.old = {}
      BY <1>1, <2>1 DEF BackupRun
    <2> QED BY <2>2
  <1>5. run' = [run EXCEPT ![w] = r]
    BY <1>1, <1>3, <1>4 DEF StartBackup, PutRun
  <1>6. StageHolds(r)
    BY <1>4 DEF StageHolds
  <1> QED BY <1>2, <1>4, <1>5, <1>6, RunGoesOn

\* With one second for each of them nothing is replaced.
LEMMA ReplacingKeeps ==
  ASSUME BackupInv, NEW w \in Writers, Replace(w)
  PROVE  BackupInv' /\ (~twice' => UNCHANGED backups)
  <1>1. PICK r \in BackupRun :
          /\ run' = [run EXCEPT ![w] = r] /\ StageHolds(r) /\ r.old = run[w].old
    <2>1. PICK k \in BackupRun : k = run[w] /\ k.at = "copied" /\ StageHolds(k)
      BY DEF BackupInv, BackupTyped, Replace, Move
    <2> DEFINE r == [k EXCEPT !.at = "replaced"]
    <2>2. "replaced" \in BackupPlaces
      BY DEF BackupPlaces, Holding
    <2>3. r \in BackupRun /\ r.at = "replaced" /\ r.name = k.name /\ r.stage = k.stage /\ r.old = k.old
      BY <2>2 DEF BackupRun
    <2>4. run' = [run EXCEPT ![w] = r]
      BY <2>1 DEF Replace, Move, PutRun
    <2> HIDE DEF r
    <2>5. StageHolds(r)
      BY <2>1, <2>3 DEF StageHolds
    <2> QED BY <2>1, <2>3, <2>4, <2>5
  <1>2. PICK n \in Stamps : n = run[w].name
    BY DEF BackupInv, StageHolds, Replace, Move
  <1>3. backups' = [backups EXCEPT ![n] = "none"] /\ twice' = (twice \/ backups[n] # "none")
        /\ UNCHANGED second /\ second \in Stamps
    BY <1>2 DEF Replace, BackupInv, BackupTyped
  <1>4. twice' \in BOOLEAN
    BY <1>3
  <1>5. CASE ~twice'
    <2>1. backups[n] = "none" /\ ~twice
      BY <1>3, <1>5
    <2>2. UNCHANGED <<backups, twice>>
      BY <1>3, <1>4, <1>5, <2>1 DEF BackupInv, BackupTyped
    <2> QED BY <1>1, <1>3, <2>2, RunGoesOn
  <1>6. CASE twice'
    <2>1. backups' \in [Stamps -> {"none", "part", "all"}]
      BY <1>3 DEF BackupInv, BackupTyped
    <2>2. run' \in [Writers -> BackupRun] /\ \A v \in Writers : StageHolds(run'[v])
      BY <1>1 DEF BackupInv, BackupTyped
    <2> QED BY <1>3, <1>4, <1>6, <2>1, <2>2 DEF BackupInv, BackupTyped, StageHolds
  <1> QED BY <1>5, <1>6

\* What is published is whole.
LEMMA PublishingBackup ==
  ASSUME BackupInv, NEW w \in Writers, PublishBackup(w)
  PROVE  BackupInv' /\ Whole \subseteq Whole'
  <1>1. PICK r \in BackupRun :
          /\ run' = [run EXCEPT ![w] = r] /\ StageHolds(r) /\ r.old = run[w].old
    BY StageMoves DEF PublishBackup, Holding, BackupPlaces, Stages
  <1>2. PICK n \in Stamps : n = run[w].name
    BY DEF BackupInv, StageHolds, PublishBackup, StageIs
  <1>3. /\ backups' = [backups EXCEPT ![n] = "all"] /\ backups[n] = "none"
        /\ UNCHANGED <<second, twice>> /\ second \in Stamps
    <2>1. run[w].stage = "all"
      BY DEF BackupInv, StageHolds, PublishBackup, StageIs
    <2> QED BY <1>2, <2>1 DEF PublishBackup, BackupInv, BackupTyped
  <1>4. /\ backups' \in [Stamps -> {"none", "part", "all"}] /\ backups'[n] = "all"
        /\ \A m \in Stamps \ {n} : backups'[m] = backups[m]
    BY <1>3 DEF BackupInv, BackupTyped
  <1>5. /\ run' \in [Writers -> BackupRun] /\ \A v \in Writers : StageHolds(run'[v])
        /\ \A v \in Writers : run'[v].old = run[v].old
    BY <1>1 DEF BackupInv, BackupTyped
  <1>6. BackupTyped'
    BY <1>3, <1>4, <1>5 DEF BackupInv, BackupTyped
  <1>7. ASSUME ~twice PROVE PartsAreOutlived'
    <2>1. \A m \in Stamps : SafeBackup(m) => SafeBackup(m)'
      BY <1>3, <1>4, <1>5 DEF SafeBackup
    <2>2. \A m \in Stamps : Outlived(m) => Outlived(m)'
      BY <2>1 DEF Outlived
    <2>3. \A m \in Stamps : backups'[m] = "part" => backups[m] = "part"
      BY <1>4
    <2> QED BY <1>5, <1>7, <2>2, <2>3 DEF BackupInv, PartsAreOutlived
  <1>8. Whole \subseteq Whole'
    BY <1>3, <1>4 DEF Whole
  <1> QED BY <1>3, <1>5, <1>6, <1>7, <1>8 DEF BackupInv, StageHolds

\* The youngest is never too old.
LEMMA ListingKeeps ==
  ASSUME BackupInv, NEW w \in Writers, ListBackups(w)
  PROVE  BackupInv'
  <1>1. PICK k \in BackupRun : k = run[w] /\ k.at = "published" /\ StageHolds(k)
    BY DEF BackupInv, BackupTyped, ListBackups
  <1>2. TooOld \in Prunings
    BY DEF TooOld, Taken, Prunings
  <1>3. PICK tooOld \in Prunings : tooOld = TooOld
    BY <1>2
  <1>4. PICK r \in BackupRun : /\ r = [k EXCEPT !.at = "pruning", !.old = tooOld]
                               /\ r.at = "pruning" /\ r.name = k.name /\ r.old = tooOld
    <2> DEFINE r == [k EXCEPT !.at = "pruning", !.old = tooOld]
    <2>1. "pruning" \in BackupPlaces
      BY DEF BackupPlaces, Holding
    <2>2. r \in BackupRun /\ r.at = "pruning" /\ r.name = k.name /\ r.old = tooOld
      BY <2>1 DEF BackupRun
    <2> QED BY <2>2
  <1>5. run' = [run EXCEPT ![w] = r] /\ UNCHANGED <<second, backups, twice>> /\ second \in Stamps
    BY <1>1, <1>3, <1>4 DEF ListBackups, PutRun, BackupInv, BackupTyped
  <1>6. /\ run' \in [Writers -> BackupRun] /\ run'[w] = r
        /\ \A v \in Writers \ {w} : run'[v] = run[v]
    BY <1>5 DEF BackupInv, BackupTyped
  <1>7. \A v \in Writers : StageHolds(run'[v])
    <2>1. StageHolds(r)
      BY <1>1, <1>4 DEF StageHolds
    <2> QED BY <1>6, <2>1 DEF BackupInv
  <1>8. BackupTyped'
    BY <1>5, <1>6 DEF BackupInv, BackupTyped
  <1>9. ASSUME ~twice PROVE PartsAreOutlived'
    <2>1. CASE Taken = {}
      <3>1. \A n \in Stamps : backups[n] = "none"
        BY <2>1 DEF Taken
      <3>2. \A n \in Stamps : ~Outlived(n)
        BY <3>1 DEF Outlived, SafeBackup
      <3>3. tooOld = {}
        BY <1>3, <2>1 DEF TooOld
      <3> QED BY <1>4, <1>5, <1>6, <1>9, <3>1, <3>2, <3>3 DEF BackupInv, PartsAreOutlived
    <2>2. CASE Taken # {}
      <3>1. PICK x \in Taken : \A y \in Taken : y <= x
        BY <2>2, Youngest DEF Taken
      <3>2. x \in Stamps /\ x \in Nat /\ \A y \in Taken : y \in Nat /\ y \in Stamps
        BY StampsAreNumbers DEF Taken
      <3>3. ~Outlived(x)
        <4>1. ASSUME NEW m \in Stamps, x < m, SafeBackup(m) PROVE FALSE
          <5>1. m \in Taken
            BY <4>1 DEF Taken, SafeBackup
          <5> QED BY <3>1, <3>2, <4>1, <5>1
        <4> QED BY <4>1 DEF Outlived
      <3>4. backups[x] = "all" /\ \A v \in Writers : x \notin run[v].old
        BY <1>9, <3>2, <3>3 DEF BackupInv, BackupTyped, PartsAreOutlived, Taken
      <3>5. x \notin tooOld
        <4>1. {m \in Taken : m > x} = {}
          <5>1. ASSUME NEW m \in Taken PROVE ~(m > x)
            <6>1. m <= x /\ m \in Nat
              BY <3>1, <3>2
            <6> QED BY <3>2, <6>1
          <5> QED BY <5>1
        <4>2. Cardinality({m \in Taken : m > x}) = 0
          BY <4>1, FS_EmptySet
        <4> QED BY <1>3, <4>2, BackupAssumption DEF TooOld
      <3>6. SafeBackup(x)'
        BY <1>4, <1>5, <1>6, <3>4, <3>5 DEF SafeBackup
      <3>7. ASSUME NEW n \in Stamps, backups[n] = "part" \/ (\E v \in Writers : n \in run'[v].old)
            PROVE  n < x
        <4>1. CASE backups[n] = "part" \/ \E v \in Writers : n \in run[v].old
          <5>1. PICK m \in Stamps : n < m /\ SafeBackup(m)
            BY <1>9, <4>1 DEF BackupInv, PartsAreOutlived, Outlived
          <5>2. m \in Taken
            BY <5>1 DEF Taken, SafeBackup
          <5>3. n \in Nat /\ m \in Nat
            BY StampsAreNumbers
          <5> QED BY <3>1, <3>2, <5>1, <5>2, <5>3
        <4>2. CASE n \in tooOld
          <5>1. n \in Taken /\ n # x
            BY <1>3, <3>5, <4>2 DEF TooOld
          <5> QED BY <3>1, <3>2, <5>1
        <4> QED BY <1>4, <1>6, <3>7, <4>1, <4>2
      <3> QED BY <1>5, <3>2, <3>6, <3>7 DEF PartsAreOutlived, Outlived
    <2> QED BY <2>1, <2>2
  <1> QED BY <1>5, <1>7, <1>8, <1>9 DEF BackupInv, StageHolds

\* Whoever prunes leaves the one that outlives what he removes.
LEMMA PruningBackups ==
  ASSUME BackupInv, NEW w \in Writers, Prune(w)
  PROVE  BackupInv' /\ (~twice /\ Whole # {} => Whole' # {})
  <1>1. PICK k \in BackupRun : k = run[w] /\ k.at = "pruning" /\ StageHolds(k)
    BY DEF BackupInv, BackupTyped, Prune
  <1>2. PICK n \in k.old, left \in {"none", "part"} :
          /\ backups' = [backups EXCEPT ![n] = left]
          /\ run' = [run EXCEPT ![w] = [run[w] EXCEPT !.old = IF left = "none" THEN @ \ {n} ELSE {}]]
    BY <1>1 DEF Prune, PutRun
  <1>3. k.old \in SUBSET Stamps
    BY DEF BackupRun, Prunings
  <1>4. PICK rest \in Prunings : /\ rest = (IF left = "none" THEN k.old \ {n} ELSE {})
                                 /\ rest \subseteq k.old
    <2> DEFINE rest == IF left = "none" THEN k.old \ {n} ELSE {}
    <2>1. rest \in Prunings /\ rest \subseteq k.old
      BY <1>3 DEF Prunings
    <2> QED BY <2>1
  <1>5. PICK r \in BackupRun : /\ r = [k EXCEPT !.old = rest]
                               /\ r.at = "pruning" /\ r.name = k.name /\ r.old = rest
    <2> DEFINE r == [k EXCEPT !.old = rest]
    <2>1. r \in BackupRun /\ r.at = "pruning" /\ r.name = k.name /\ r.old = rest
      BY <1>1 DEF BackupRun
    <2> QED BY <2>1
  <1>6. run' = [run EXCEPT ![w] = r]
    BY <1>1, <1>2, <1>4, <1>5
  <1>7. UNCHANGED <<second, twice>> /\ second \in Stamps /\ n \in Stamps
    BY <1>3 DEF Prune, BackupInv, BackupTyped
  <1>8. /\ run' \in [Writers -> BackupRun] /\ run'[w] = r
        /\ \A v \in Writers \ {w} : run'[v] = run[v]
    BY <1>6 DEF BackupInv, BackupTyped
  <1>9. \A v \in Writers : StageHolds(run'[v])
    <2>1. StageHolds(r)
      BY <1>1, <1>5 DEF StageHolds
    <2> QED BY <1>8, <2>1 DEF BackupInv
  <1>10. /\ backups' \in [Stamps -> {"none", "part", "all"}]
         /\ \A m \in Stamps \ {n} : backups'[m] = backups[m]
    BY <1>2, <1>7 DEF BackupInv, BackupTyped
  <1>11. BackupTyped'
    BY <1>7, <1>8, <1>10 DEF BackupInv, BackupTyped
  <1>12. \A v \in Writers : run'[v].old \subseteq run[v].old
    BY <1>1, <1>4, <1>5, <1>8
  <1>13. \A m \in Stamps : SafeBackup(m) => SafeBackup(m)'
    BY <1>1, <1>10, <1>12 DEF SafeBackup
  <1>14. ASSUME ~twice PROVE PartsAreOutlived' /\ Whole' # {}
    <2>1. Outlived(n)
      BY <1>1, <1>7, <1>14 DEF BackupInv, PartsAreOutlived
    <2>2. \A m \in Stamps : Outlived(m) => Outlived(m)'
      BY <1>13 DEF Outlived
    <2>3. \A m \in Stamps \ {n} :
            backups'[m] = "part" \/ (\E v \in Writers : m \in run'[v].old) => Outlived(m)
      BY <1>10, <1>12, <1>14 DEF BackupInv, PartsAreOutlived
    <2>4. PartsAreOutlived'
      BY <2>1, <2>2, <2>3 DEF PartsAreOutlived
    <2>5. PICK m \in Stamps : SafeBackup(m)'
      BY <1>7, <2>1, <2>2 DEF Outlived
    <2>6. m \in Whole'
      BY <2>5 DEF SafeBackup, Whole
    <2> QED BY <2>4, <2>6
  <1> QED BY <1>7, <1>9, <1>11, <1>14 DEF BackupInv, StageHolds

\* A run that fails or dies may leave a part of the backup it was to replace.
LEMMA DyingKeeps ==
  ASSUME BackupInv, NEW w \in Writers, Die(w) \/ FailBackup(w)
  PROVE  BackupInv' /\ (~twice' => UNCHANGED backups)
  <1>1. run' = [run EXCEPT ![w] = Free] /\ UNCHANGED second /\ second \in Stamps
    BY DEF Die, FailBackup, LeaveBackup, BackupInv, BackupTyped
  <1>2. CASE UNCHANGED <<backups, twice>>
    BY <1>1, <1>2, LeavingBackup
  <1>3. CASE ~UNCHANGED <<backups, twice>>
    <2>1. backups' = [backups EXCEPT ![run[w].name] = "part"] /\ twice' = TRUE
      BY <1>3 DEF Die, FailBackup, HalfReplace
    <2>2. backups' \in [Stamps -> {"none", "part", "all"}]
      BY <2>1 DEF BackupInv, BackupTyped
    <2>3. run' \in [Writers -> BackupRun] /\ \A v \in Writers : run'[v] \in {run[v], Free}
      BY <1>1, FreeTyped DEF BackupInv, BackupTyped
    <2>4. \A v \in Writers : StageHolds(run'[v])
      BY <2>3, FreeTyped DEF BackupInv, StageHolds
    <2> QED BY <1>1, <2>1, <2>2, <2>3, <2>4 DEF BackupInv, BackupTyped, StageHolds
  <1> QED BY <1>2, <1>3

LEMMA BackupStart == BackupInit => BackupInv
  <1> SUFFICES ASSUME BackupInit PROVE BackupInv
    OBVIOUS
  <1>1. /\ second = 1 /\ backups = [n \in Stamps |-> "none"]
        /\ run = [w \in Writers |-> Free] /\ twice = FALSE
    BY DEF BackupInit
  <1>2. BackupTyped
    BY <1>1, FreeTyped, StampsAreNumbers DEF BackupTyped
  <1>3. \A w \in Writers : StageHolds(run[w])
    BY <1>1, FreeTyped DEF StageHolds
  <1>4. PartsAreOutlived
    BY <1>1, FreeTyped DEF PartsAreOutlived
  <1> QED BY <1>2, <1>3, <1>4 DEF BackupInv

\* Every step keeps the invariant, and a whole backup.
LEMMA BackupStep ==
  ASSUME BackupInv, [BackupNext]_backupVars
  PROVE  BackupInv' /\ (Whole # {} /\ ~twice' => Whole' # {})
  <1>1. ASSUME UNCHANGED backups PROVE Whole' = Whole
    BY <1>1 DEF Whole
  <1>2. ASSUME NEW w \in Writers,
               \/ StartBackup(w) \/ CreateLock(w) \/ WritePid(w) \/ FindLock(w)
               \/ LockGone(w) \/ RefuseBackup(w) \/ JudgeLock(w) \/ DropLock(w)
               \/ MakeStage(w) \/ Snapshot(w) \/ SnapshotIsWhole(w) \/ CopyMedia(w)
        PROVE  BackupInv' /\ Whole' = Whole
    <2>1. UNCHANGED backups
      BY <1>2 DEF StartBackup, CreateLock, WritePid, FindLock, LockGone, RefuseBackup, JudgeLock, DropLock,
                  MakeStage, Snapshot, SnapshotIsWhole, CopyMedia
    <2> QED BY <1>1, <1>2, <2>1, StartingKeeps, LockingKeeps, RefusalKeeps, StagingKeeps
  <1>3. ASSUME NEW w \in Writers, Replace(w) \/ Die(w) \/ FailBackup(w)
        PROVE  BackupInv' /\ (~twice' => Whole' = Whole)
    BY <1>1, <1>3, ReplacingKeeps, DyingKeeps
  <1>4. ASSUME NEW w \in Writers, PublishBackup(w) PROVE BackupInv' /\ Whole \subseteq Whole'
    BY <1>4, PublishingBackup
  <1>5. ASSUME NEW w \in Writers, ListBackups(w) PROVE BackupInv' /\ Whole' = Whole
    <2>1. UNCHANGED backups
      BY <1>5 DEF ListBackups
    <2> QED BY <1>1, <1>5, <2>1, ListingKeeps
  <1>6. ASSUME NEW w \in Writers, Prune(w)
        PROVE  BackupInv' /\ (Whole # {} /\ ~twice' => Whole' # {})
    <2>1. twice' = twice
      BY <1>6 DEF Prune
    <2> QED BY <1>6, <2>1, PruningBackups
  <1>7. ASSUME NEW w \in Writers, FinishBackup(w) PROVE BackupInv' /\ Whole' = Whole
    <2>1. run' = [run EXCEPT ![w] = Free] /\ UNCHANGED <<second, backups, twice>> /\ second \in Stamps
      BY <1>7 DEF FinishBackup, LeaveBackup, BackupInv, BackupTyped
    <2> QED BY <1>1, <2>1, LeavingBackup
  <1>8. CASE (\E w \in Writers : Reboot(w)) \/ TickBackup \/ GrowOld \/ UNCHANGED backupVars
    <2>1. UNCHANGED <<backups, run, twice>> /\ second' \in Stamps
      <3>1. second \in Stamps
        BY DEF BackupInv, BackupTyped
      <3>2. CASE TickBackup
        BY <3>1, <3>2, BackupAssumption DEF TickBackup, Stamps
      <3> QED BY <1>8, <3>1, <3>2 DEF Reboot, GrowOld, backupVars
    <2>2. BackupInv'
      BY <2>1 DEF BackupInv, BackupTyped, StageHolds, PartsAreOutlived, Outlived, SafeBackup
    <2> QED BY <1>1, <2>1, <2>2
  <1> QED BY <1>2, <1>3, <1>4, <1>5, <1>6, <1>7, <1>8 DEF BackupNext

\* What is a part, or about to be pruned, is outlived by a whole backup (prune,
\* backup.go), as long as no second has two backups.
THEOREM BackupInductive == BackupSpec => []BackupInv
  <1>1. BackupInv /\ [BackupNext]_backupVars => BackupInv'
    BY BackupStep
  <1> QED BY <1>1, BackupStart, PTL DEF BackupSpec

\* The last whole backup never goes: not by pruning, by failures or by processes
\* that die, nor by several runs at a time.
THEOREM LastBackupKept == BackupSpec => LastBackupSurvives
  <1>1. BackupInv /\ [BackupNext]_backupVars => [Whole # {} /\ ~twice' => Whole' # {}]_backupVars
    BY BackupStep
  <1> QED BY <1>1, BackupInductive, PTL DEF BackupSpec, LastBackupSurvives

\* A lock file names the process that has made it and, if anything, the pid that
\* process has written.
LockTyped ==
  /\ lockFile \in [of : Writers, pid : Writers \cup {Unwritten}, old : BOOLEAN]
                  \cup {NoLock}
  /\ up \subseteq Writers

LEMMA LockTypedStep ==
  ASSUME LockTyped, [BackupNext]_backupVars
  PROVE  LockTyped'
  <1> DEFINE Locks == [of : Writers, pid : Writers \cup {Unwritten}, old : BOOLEAN]
  <1>1. ASSUME NEW w \in Writers, CreateLock(w)
        PROVE  LockTyped'
    BY <1>1 DEF CreateLock, LockTyped
  <1>2. ASSUME NEW w \in Writers, WritePid(w)
        PROVE  LockTyped'
    <2>1. CASE lockFile # NoLock /\ lockFile.of = w
      <3>1. lockFile \in Locks /\ lockFile' = [lockFile EXCEPT !.pid = w] /\ up' = up
        BY <1>2, <2>1 DEF WritePid, LockTyped
      <3>2. lockFile' \in Locks
        BY <3>1
      <3> QED BY <3>1, <3>2 DEF LockTyped
    <2>2. CASE ~(lockFile # NoLock /\ lockFile.of = w)
      BY <1>2, <2>2, Zenon DEF WritePid, LockTyped
    <2> QED BY <2>1, <2>2
  <1>3. CASE GrowOld
    <2>1. lockFile \in Locks /\ lockFile' = [lockFile EXCEPT !.old = TRUE] /\ up' = up
      BY <1>3 DEF GrowOld, LockTyped
    <2>2. lockFile' \in Locks
      BY <2>1
    <2> QED BY <2>1, <2>2 DEF LockTyped
  <1>4. ASSUME NEW w \in Writers, DropLock(w) \/ FinishBackup(w) \/ FailBackup(w)
        PROVE  LockTyped'
    BY <1>4 DEF DropLock, FinishBackup, FailBackup, LeaveBackup, LockTyped
  <1>5. ASSUME NEW w \in Writers, Die(w) \/ Reboot(w)
        PROVE  LockTyped'
    BY <1>5 DEF Die, Reboot, LockTyped
  <1>6. ASSUME NEW w \in Writers,
               \/ StartBackup(w) \/ FindLock(w) \/ LockGone(w) \/ RefuseBackup(w) \/ JudgeLock(w)
               \/ MakeStage(w) \/ Snapshot(w) \/ SnapshotIsWhole(w)
               \/ CopyMedia(w) \/ Replace(w) \/ PublishBackup(w) \/ ListBackups(w) \/ Prune(w)
        PROVE  UNCHANGED <<lockFile, up>>
    BY <1>6, Zenon DEF StartBackup, FindLock, LockGone, RefuseBackup, JudgeLock, MakeStage, Snapshot,
              SnapshotIsWhole, CopyMedia, Replace, PublishBackup, ListBackups, Prune
  <1>7. CASE TickBackup \/ UNCHANGED backupVars
    BY <1>7 DEF TickBackup, backupVars, LockTyped
  <1>8. ASSUME UNCHANGED <<lockFile, up>> PROVE LockTyped'
    BY <1>8 DEF LockTyped
  <1> QED BY <1>1, <1>2, <1>3, <1>4, <1>5, <1>6, <1>7, <1>8, Zenon DEF BackupNext

\* Every variable of the backups keeps its type.
THEOREM BackupTypeCorrect == BackupSpec => []BackupTypeOK
  <1>1. BackupInit => LockTyped
    BY DEF BackupInit, LockTyped
  <1>2. LockTyped /\ [BackupNext]_backupVars => LockTyped'
    BY LockTypedStep
  <1>3. BackupInv /\ LockTyped => BackupTypeOK
    <2> SUFFICES ASSUME BackupInv, LockTyped PROVE BackupTypeOK
      OBVIOUS
    <2>1. BackupTyped
      BY DEF BackupInv
    <2>2. ASSUME NEW w \in Writers PROVE run[w].name \in Stamps \cup {0} /\ run[w].old \subseteq Stamps
      <3>1. run[w] \in BackupRun
        BY <2>1 DEF BackupTyped
      <3> QED BY <3>1 DEF BackupRun, BackupNames, Prunings
    <2> QED BY <2>1, <2>2 DEF BackupTyped, LockTyped, BackupTypeOK
  <1> QED BY <1>1, <1>2, <1>3, BackupInductive, PTL DEF BackupSpec

-----------------------------------------------------------------------------
(****************************************************************************)
(* A run replaces no file and changes no row that is not its own to change, *)
(* for any number of runs and of other programs.  What the step of a run    *)
(* does is decided within it; that it is a step of that run follows from    *)
(* the runs being kept apart.                                               *)
(****************************************************************************)

PaintersApart == painter = [p \in Painters |-> painter[p]]

\* What run p has replaced and changed, if this is its step.
LosesNothing(p) ==
  /\ privatePoster' # privatePoster => painter[p].overwrite \/ privatePoster = NoFile
  /\ dbRow' # dbRow => painter[p].row = dbRow

LEMMA OnePaints ==
  ASSUME PaintersApart, NEW p \in Painters, NEW state, Paint(p, state)
  PROVE  /\ PaintersApart'
         /\ \A q \in Painters : painter[q] # painter'[q] => q = p
  BY DEF PaintersApart, Paint

LEMMA PainterSteps ==
  ASSUME PaintersApart, NEW p \in Painters,
         ReadRow(p) \/ LookAtFiles(p) \/ MakeImage(p) \/ PreparePoster(p) \/ InstallPoster(p) \/ IndexPoster(p)
  PROVE  (\E state : Paint(p, state)) /\ LosesNothing(p)
  <1>1. CASE ReadRow(p)
    BY <1>1 DEF ReadRow, LosesNothing, PosterFilesStay
  <1>2. CASE LookAtFiles(p)
    BY <1>2, Zenon DEF LookAtFiles, LosesNothing, PosterFilesStay, LeavePainter
  <1>3. CASE MakeImage(p)
    BY <1>3 DEF MakeImage, LosesNothing, PosterFilesStay, LeavePainter
  <1>4. CASE PreparePoster(p)
    BY <1>4 DEF PreparePoster, LosesNothing, PosterFilesStay, LeavePainter
  <1>5. CASE InstallPoster(p)
    BY <1>5 DEF InstallPoster, LosesNothing, LeavePainter, RowAsRead, MayInstall
  <1>6. CASE IndexPoster(p)
    BY <1>6 DEF IndexPoster, LosesNothing, PosterFilesStay, LeavePainter, RowAsRead
  <1> QED BY <1>1, <1>2, <1>3, <1>4, <1>5, <1>6

LEMMA PosterStep ==
  ASSUME PaintersApart, [PosterNext]_posterVars
  PROVE  /\ PaintersApart'
         /\ \A p \in Painters : painter[p] # painter'[p] => LosesNothing(p)
  <1>1. CASE \E p \in Painters : ReadRow(p) \/ LookAtFiles(p) \/ MakeImage(p) \/ PreparePoster(p)
                                  \/ InstallPoster(p) \/ IndexPoster(p)
    <2>1. PICK p \in Painters : ReadRow(p) \/ LookAtFiles(p) \/ MakeImage(p) \/ PreparePoster(p)
                                  \/ InstallPoster(p) \/ IndexPoster(p)
      BY <1>1
    <2>2. PICK state : Paint(p, state)
      BY <2>1, PainterSteps
    <2>3. LosesNothing(p)
      BY <2>1, PainterSteps
    <2> QED BY <2>2, <2>3, OnePaints
  <1>2. CASE OthersWrite \/ OthersRemove \/ UNCHANGED posterVars
    <2>1. painter' = painter
      BY <1>2 DEF OthersWrite, OthersRemove, posterVars
    <2> QED BY <2>1 DEF PaintersApart
  <1> QED BY <1>1, <1>2 DEF PosterNext

\* A run that was not told to overwrite replaces no file, whoever has put it there
\* while the image was made; and it changes no row that somebody else has changed
\* (installPoster, CompareAndSwapArtwork).
THEOREM PostersAreNotLost == PosterSpec => NothingIsLost
  <1>1. PosterInit => PaintersApart
    BY DEF PosterInit, PaintersApart
  <1>2. PaintersApart /\ [PosterNext]_posterVars => PaintersApart'
    BY PosterStep
  <1>3. PaintersApart /\ [PosterNext]_posterVars =>
          [\A p \in Painters : painter[p] # painter'[p] =>
             /\ privatePoster' # privatePoster => painter[p].overwrite \/ privatePoster = NoFile
             /\ dbRow' # dbRow => painter[p].row = dbRow]_posterVars
    BY PosterStep DEF LosesNothing
  <1> QED BY <1>1, <1>2, <1>3, PTL DEF PosterSpec, NothingIsLost

PaintPlaces == {"out", "read", "making", "made", "repairing", "install", "index"}
PosterRows == [version : 1 .. MaxPrints, private : BOOLEAN]

\* Files and the row are what they can be, and each run is at a place.
PostersTyped ==
  /\ privatePoster \in PosterFiles /\ namedPoster \in PosterFiles /\ strmFile \in 1 .. MaxPrints
  /\ dbRow \in PosterRows /\ prints \in 1 .. MaxPrints
  /\ \A p \in Painters : "at" \in DOMAIN painter[p] /\ painter[p].at \in PaintPlaces

PostersInv == PaintersApart /\ PostersTyped

\* A run that goes to a place is at it.
LEMMA PlacedAt ==
  ASSUME NEW f, "at" \in DOMAIN f, NEW place, NEW g, g = [f EXCEPT !.at = place]
  PROVE  "at" \in DOMAIN g /\ g.at = place
  OBVIOUS

\* Run p goes to a place.
LEMMA PaintedTyped ==
  ASSUME PostersInv, NEW p \in Painters, NEW state, Paint(p, state),
         "at" \in DOMAIN state, state.at \in PaintPlaces
  PROVE  \A q \in Painters : "at" \in DOMAIN painter'[q] /\ painter'[q].at \in PaintPlaces
  <1>1. \A q \in Painters : painter'[q] = IF q = p THEN state ELSE painter[q]
    BY DEF Paint, PostersInv, PaintersApart
  <1> QED BY <1>1 DEF PostersInv, PostersTyped

\* Where run p goes with each of its steps.
LEMMA PainterGoes ==
  ASSUME PostersInv, NEW p \in Painters,
         ReadRow(p) \/ LookAtFiles(p) \/ MakeImage(p) \/ PreparePoster(p) \/ InstallPoster(p) \/ IndexPoster(p)
  PROVE  \E state : Paint(p, state) /\ "at" \in DOMAIN state /\ state.at \in PaintPlaces
  <1>1. "at" \in DOMAIN painter[p] /\ painter[p].at \in PaintPlaces
    BY DEF PostersInv, PostersTyped
  <1>2. "at" \in DOMAIN NotPainting /\ NotPainting.at \in PaintPlaces
    BY DEF NotPainting, PaintPlaces
  <1>3. CASE LeavePainter(p)
    BY <1>2, <1>3 DEF LeavePainter
  <1>4. CASE ReadRow(p)
    BY <1>4 DEF ReadRow, PaintPlaces
  <1>5. CASE LookAtFiles(p)
    <2>1. PICK look : look = [at |-> "making", overwrite |-> painter[p].overwrite,
                              row |-> painter[p].row, seen |-> Fingerprints]
      OBVIOUS
    <2>2. "at" \in DOMAIN look /\ look.at = "making"
      BY <2>1
    <2>3. PICK mend : mend = [look EXCEPT !.at = "repairing"]
      OBVIOUS
    <2>4. "at" \in DOMAIN mend /\ mend.at = "repairing"
      BY <2>2, <2>3, PlacedAt
    <2>5. Paint(p, look) \/ Paint(p, mend) \/ LeavePainter(p)
      BY <1>5, <2>1, <2>3 DEF LookAtFiles
    <2> QED BY <1>3, <2>2, <2>4, <2>5 DEF PaintPlaces
  <1>6. CASE MakeImage(p)
    <2>1. PICK f : f = [painter[p] EXCEPT !.at = "made"]
      OBVIOUS
    <2>2. "at" \in DOMAIN f /\ f.at = "made"
      BY <1>1, <2>1, PlacedAt
    <2>3. Paint(p, f) \/ LeavePainter(p)
      BY <1>6, <2>1 DEF MakeImage
    <2> QED BY <1>3, <2>2, <2>3 DEF PaintPlaces
  <1>7. CASE PreparePoster(p)
    <2>1. PICK place : place = IF painter[p].at = "made" THEN "install" ELSE "index"
      OBVIOUS
    <2>2. PICK f : f = [painter[p] EXCEPT !.at = place]
      OBVIOUS
    <2>3. "at" \in DOMAIN f /\ f.at = place
      BY <1>1, <2>2, PlacedAt
    <2>4. Paint(p, f) \/ LeavePainter(p)
      <3>1. CASE painter[p].seen = Fingerprints
        BY <1>7, <2>1, <2>2, <3>1 DEF PreparePoster
      <3>2. CASE painter[p].seen # Fingerprints
        BY <1>7, <3>2 DEF PreparePoster
      <3> QED BY <3>1, <3>2
    <2> QED BY <1>3, <2>1, <2>3, <2>4 DEF PaintPlaces
  <1>8. CASE InstallPoster(p) \/ IndexPoster(p)
    BY <1>3, <1>8 DEF InstallPoster, IndexPoster
  <1> QED BY <1>4, <1>5, <1>6, <1>7, <1>8

\* The files and the row of a step are what they can be.
LEMMA FilesTyped ==
  ASSUME PostersTyped, PosterNext
  PROVE  /\ privatePoster' \in PosterFiles /\ namedPoster' \in PosterFiles /\ strmFile' \in 1 .. MaxPrints
         /\ dbRow' \in PosterRows /\ prints' \in 1 .. MaxPrints
  <1>1. MaxPrints \in Nat
    BY PosterAssumption
  <1>2. NoFile \in PosterFiles
    BY <1>1 DEF NoFile, PosterFiles
  <1>3. prints < MaxPrints => \A b \in BOOLEAN : [id |-> prints + 1, image |-> b] \in PosterFiles
    BY <1>1 DEF PostersTyped, PosterFiles
  <1>4. prints < MaxPrints => prints + 1 \in 1 .. MaxPrints
    BY <1>1 DEF PostersTyped
  <1>5. ASSUME NEW n \in 1 .. MaxPrints
        PROVE  [dbRow EXCEPT !.version = n] \in PosterRows
    BY <1>5 DEF PostersTyped, PosterRows
  <1>6. /\ [version |-> dbRow.version, private |-> TRUE] \in PosterRows
        /\ [dbRow EXCEPT !.private = TRUE] \in PosterRows
    BY DEF PostersTyped, PosterRows
  <1>7. ASSUME NEW p \in Painters, ReadRow(p) \/ LookAtFiles(p) \/ MakeImage(p) \/ PreparePoster(p)
        PROVE  UNCHANGED <<privatePoster, namedPoster, strmFile, prints, dbRow>>
    BY <1>7, Zenon DEF ReadRow, LookAtFiles, MakeImage, PreparePoster, PosterFilesStay
  <1>8. ASSUME NEW p \in Painters, InstallPoster(p)
        PROVE  /\ privatePoster' \in PosterFiles /\ UNCHANGED <<namedPoster, strmFile>>
               /\ dbRow' \in PosterRows /\ prints' \in 1 .. MaxPrints
    BY <1>8, <1>3, <1>4, <1>6 DEF InstallPoster, PostersTyped
  <1>9. ASSUME NEW p \in Painters, IndexPoster(p)
        PROVE  UNCHANGED <<privatePoster, namedPoster, strmFile, prints>> /\ dbRow' \in PosterRows
    BY <1>9, <1>6 DEF IndexPoster, PosterFilesStay, PostersTyped
  <1>10. CASE OthersWrite
    BY <1>10, <1>3, <1>4, <1>5 DEF OthersWrite, NextPrint, PostersTyped
  <1>11. CASE OthersRemove
    BY <1>11, <1>2 DEF OthersRemove, PostersTyped
  <1> QED BY <1>7, <1>8, <1>9, <1>10, <1>11 DEF PosterNext, PostersTyped

LEMMA PostersStep ==
  ASSUME PostersInv, [PosterNext]_posterVars
  PROVE  PostersInv'
  <1>1. PaintersApart'
    BY PosterStep DEF PostersInv
  <1>2. CASE UNCHANGED posterVars
    BY <1>1, <1>2 DEF posterVars, PostersInv, PostersTyped
  <1>3. CASE PosterNext
    <2>1. /\ privatePoster' \in PosterFiles /\ namedPoster' \in PosterFiles /\ strmFile' \in 1 .. MaxPrints
          /\ dbRow' \in PosterRows /\ prints' \in 1 .. MaxPrints
      BY <1>3, FilesTyped DEF PostersInv
    <2>2. CASE \E p \in Painters : ReadRow(p) \/ LookAtFiles(p) \/ MakeImage(p) \/ PreparePoster(p)
                                    \/ InstallPoster(p) \/ IndexPoster(p)
      BY <1>1, <2>1, <2>2, PainterGoes, PaintedTyped DEF PostersInv, PostersTyped
    <2>3. CASE OthersWrite \/ OthersRemove
      <3>1. painter' = painter
        BY <2>3 DEF OthersWrite, OthersRemove
      <3> QED BY <1>1, <2>1, <3>1 DEF PostersInv, PostersTyped
    <2> QED BY <1>3, <2>2, <2>3 DEF PosterNext
  <1> QED BY <1>2, <1>3

\* Every variable of the posters keeps its type.
THEOREM PostersTypeCorrect == PosterSpec => []PosterTypeOK
  <1>1. PosterInit => PostersInv
    <2> SUFFICES ASSUME PosterInit PROVE PostersInv
      OBVIOUS
    <2>1. 1 \in 1 .. MaxPrints
      BY PosterAssumption
    <2>2. NoFile \in PosterFiles /\ [id |-> 1, image |-> TRUE] \in PosterFiles
      BY PosterAssumption DEF NoFile, PosterFiles
    <2>3. "at" \in DOMAIN NotPainting /\ NotPainting.at \in PaintPlaces
      BY DEF NotPainting, PaintPlaces
    <2> QED BY <2>1, <2>2, <2>3 DEF PosterInit, PostersInv, PaintersApart, PostersTyped, PosterRows
  <1>2. PostersInv /\ [PosterNext]_posterVars => PostersInv'
    BY PostersStep
  <1>3. PostersInv => PosterTypeOK
    BY DEF PostersInv, PostersTyped, PosterTypeOK, PosterRows, PaintPlaces
  <1> QED BY <1>1, <1>2, <1>3, PTL DEF PosterSpec

-----------------------------------------------------------------------------
(****************************************************************************)
(* The log page, for any sizes of chunks, scans, answers and pages, and any *)
(* number of days: what a poll answers is exact.  A request works on the    *)
(* files as they were when it opened them; what the writer and the clean-up *)
(* do meanwhile is one relation between the files before and after, and     *)
(* places that were at a line stay at it.                                   *)
(****************************************************************************)

DaysHold ==
  /\ Files \subseteq 1 .. today
  /\ after[1] <= today

\* A cursor that a page got is at a line, or in one that is longer than a scan.
CursorHolds ==
  after[1] \in Files =>
    /\ after[2] <= Len(logs[after[1]])
    /\ atBoundary(logs[after[1]], after[2]) \/ InLongLine(after)

\* A place of a day is at a line of it, as long as there is the file.
AtLine(p) ==
  p[1] \in Files => p[2] <= Len(logs[p[1]]) /\ atBoundary(logs[p[1]], p[2])

\* All lines of the day of a place that are before it, and not before the cursor.
AllUpTo(p, items) ==
  p[1] \in Files =>
    \A s \in LinesOf(p[1]) :
      ~Earlier(<<p[1], s>>, after) /\ s < p[2]
        => \E i \in 1 .. Len(items) : items[i] = <<p[1], s>>

\* What a poll has taken.
ItemsHold(items) ==
  /\ \A i, j \in 1 .. Len(items) : i < j => Earlier(items[i], items[j])
  /\ \A i \in 1 .. Len(items) :
       /\ ~Earlier(items[i], after)
       /\ items[i][1] \in Files => items[i][2] \in LinesOf(items[i][1])

AllBefore(items, p) == \A i \in 1 .. Len(items) : Earlier(items[i], p)

PlaceHolds(p, items) ==
  /\ p[1] <= today /\ AtLine(p) /\ AllUpTo(p, items)

FileHolds(q) ==
  /\ AllBefore(q.items, q.last)
  /\ \A i \in 1 .. Len(q.items) : \A d \in q.left : q.items[i][1] < d

\* The file that is read is as it was when it was opened, or longer.
CopyHolds(q) ==
  /\ \A d \in q.left : q.day < d
  /\ q.day \in Files =>
       Len(q.data) <= Len(logs[q.day]) /\ \A i \in 1 .. Len(q.data) : logs[q.day][i] = q.data[i]

ChunkHolds(q) ==
  /\ AllBefore(q.items, q.last)
  /\ CopyHolds(q) /\ q.start <= Len(q.data) /\ atBoundary(q.data, q.start)
  /\ ~Earlier(<<q.day, q.start>>, after)
  /\ AllBefore(q.items, <<q.day, q.start>>) /\ PlaceHolds(<<q.day, q.start>>, q.items)

LinesHold(q) ==
  /\ CopyHolds(q) /\ q.start <= q.next /\ q.next <= q.end /\ q.end <= Len(q.data)
  /\ atBoundary(q.data, q.next)
  /\ ~Earlier(<<q.day, q.start>>, after)
  /\ AllBefore(q.items, <<q.day, q.next>>) /\ PlaceHolds(<<q.day, q.next>>, q.items)

PollFits(q) ==
  /\ AtLine(after) /\ \A d \in q.left : d <= today /\ after[1] <= d
  /\ q.day <= today
  /\ ItemsHold(q.items)
  /\ PlaceHolds(q.last, q.items)
  /\ q.at = "file" => FileHolds(q)
  /\ q.at = "chunk" => ChunkHolds(q)
  /\ q.at = "lines" => LinesHold(q)

PollHolds == request \in PollRequests => PollFits(request)

LogInv == LogTypeOK /\ DaysHold /\ CursorHolds /\ PollHolds

------------------------------------------------------------------------------
(* Numbers *)

\* A set of numbers has a least one (Least), which is the one that is taken.
LEMMA MinOf ==
  ASSUME NEW R \in SUBSET Nat, R # {}
  PROVE  Min(R) \in R /\ \A y \in R : Min(R) <= y
  <1>1. \E x \in R : \A y \in R : x <= y
    BY Least
  <1> QED BY <1>1, Zenon DEF Min

\* And one that has a bound has a greatest one.
LEMMA MaxOf ==
  ASSUME NEW R \in SUBSET Nat, R # {}, NEW m \in Nat, \A y \in R : y <= m
  PROVE  Max(R) \in R /\ \A y \in R : y <= Max(R)
  <1> DEFINE D == {m - y : y \in R}
  <1>1. D \in SUBSET Nat /\ D # {}
    <2>1. \A y \in R : m - y \in Nat
      OBVIOUS
    <2> QED BY <2>1
  <1>2. PICK x \in D : \A y \in D : x <= y
    BY <1>1, Least
  <1>3. PICK g \in R : x = m - g
    BY <1>2
  <1>4. \A y \in R : g >= y
    BY <1>2, <1>3
  <1>5. Max(R) \in R /\ \A y \in R : Max(R) >= y
    BY <1>3, <1>4, Zenon DEF Max
  <1> QED BY <1>5

------------------------------------------------------------------------------
(* What the writer and the clean-up do *)

\* Files of earlier days are removed or grow, and no day comes back.
FilesGrow ==
  /\ today <= today' /\ today' \in Nat
  /\ \A d \in Files' :
       /\ d <= today'
       /\ d <= today =>
            /\ d \in Files /\ Len(logs[d]) <= Len(logs'[d])
            /\ \A i \in 1 .. Len(logs[d]) : logs'[d][i] = logs[d][i]

\* The client and its request are left alone.
PageStays == UNCHANGED <<after, before, shown, first, request>>

Ready == LogAssumption /\ LogTypeOK /\ DaysHold

LEMMA DayTypes ==
  ASSUME Ready
  PROVE  /\ today \in Nat /\ MaxDay \in Nat /\ Files \subseteq Nat /\ today \in Files
         /\ today <= MaxDay
         /\ \A d \in Files : logs[d] \in Seq(BOOLEAN) /\ Len(logs[d]) \in Nat /\ d <= today
  BY DEF Ready, LogAssumption, LogTypeOK, DaysHold, Days, Files

LEMMA AppendsGrow ==
  ASSUME Ready, NEW b \in Seq(BOOLEAN), Appends(b)
  PROVE  LogTypeOK' /\ FilesGrow /\ PageStays
  <1> DEFINE old == logs[today]
  <1>1. old \in Seq(BOOLEAN) /\ today \in Files /\ today \in Nat
    BY DayTypes
  <1>2. PICK new : new = old \o b
    OBVIOUS
  <1>3. /\ new \in Seq(BOOLEAN) /\ Len(new) = Len(old) + Len(b)
        /\ \A i \in 1 .. Len(old) + Len(b) : new[i] = IF i <= Len(old) THEN old[i] ELSE b[i - Len(old)]
    <2> HIDE DEF old
    <2> QED BY <1>1, <1>2, ConcatProperties, Zenon
  <1>4. Len(old) \in Nat /\ Len(b) \in Nat
    BY <1>1
  <1>5. \A i \in 1 .. Len(old) : new[i] = old[i]
    <2> HIDE DEF old
    <2> QED BY <1>3, <1>4
  <1>6. logs' = [logs EXCEPT ![today] = new] /\ Len(new) <= MaxBytes
    BY <1>2, <1>3 DEF Appends
  <1>7. PageStays /\ today' = today
    BY DEF Appends, PageStays
  <1>8. Files' = Files /\ \A d \in Files : logs'[d] = IF d = today THEN new ELSE logs[d]
    BY <1>6 DEF Ready, LogTypeOK, Files
  <1>9. LogTypeOK'
    <2>1. logs' \in [Files' -> Seq(BOOLEAN)]
      BY <1>3, <1>6, <1>8, <1>1 DEF Ready, LogTypeOK, Files
    <2>2. \A d \in Files' : Len(logs'[d]) <= MaxBytes
      BY <1>6, <1>8 DEF Ready, LogTypeOK
    <2> QED BY <2>1, <2>2, <1>7, <1>8 DEF Ready, LogTypeOK, PageStays
  <1>10. FilesGrow
    <2>1. \A d \in Files : Len(logs[d]) \in Nat /\ d <= today
      BY DayTypes
    <2>2. ASSUME NEW d \in Files
          PROVE  /\ Len(logs[d]) <= Len(logs'[d])
                 /\ \A i \in 1 .. Len(logs[d]) : logs'[d][i] = logs[d][i]
      <3>1. CASE d = today
        <4>1. logs[d] = old /\ logs'[d] = new
          BY <1>8, <3>1
        <4> HIDE DEF old
        <4> QED BY <4>1, <1>3, <1>4, <1>5
      <3>2. CASE d # today
        BY <1>8, <2>1, <3>2
      <3> QED BY <3>1, <3>2
    <2> QED BY <1>1, <1>7, <1>8, <2>1, <2>2 DEF FilesGrow
  <1> QED BY <1>7, <1>9, <1>10

LEMMA WriterGrows ==
  ASSUME Ready, WriteLine \/ WriteHalf \/ NextDay \/ PurgeLog
  PROVE  LogTypeOK' /\ FilesGrow /\ PageStays
  <1>1. CASE WriteLine
    <2>1. PICK n \in LineLengths : Appends([i \in 1 .. n |-> i = n])
      BY <1>1 DEF WriteLine
    <2>2. n \in Nat
      BY DEF Ready, LogAssumption
    <2>3. [i \in 1 .. n |-> i = n] \in Seq(BOOLEAN)
      BY <2>2
    <2> QED BY <2>1, <2>3, AppendsGrow
  <1>2. CASE WriteHalf
    <2>1. PICK n \in LineLengths : \E k \in 1 .. n - 1 : Appends([i \in 1 .. k |-> FALSE])
      BY <1>2 DEF WriteHalf
    <2>2. PICK k \in 1 .. n - 1 : Appends([i \in 1 .. k |-> FALSE])
      BY <2>1
    <2>3. k \in Nat
      BY DEF Ready, LogAssumption
    <2>4. [i \in 1 .. k |-> FALSE] \in Seq(BOOLEAN)
      BY <2>3
    <2> QED BY <2>2, <2>4, AppendsGrow
  <1>3. CASE NextDay
    <2> DEFINE new == Files \cup {today'}
    <2>1. today' = today + 1 /\ today < MaxDay /\ PageStays /\ today \in Nat /\ MaxDay \in Nat
      BY <1>3, DayTypes DEF NextDay, PageStays
    <2>2. logs' = [d \in new |-> IF d \in Files THEN logs[d] ELSE <<>>]
      BY <1>3 DEF NextDay
    <2>3. Files' = new
      BY <2>2 DEF Files
    <2>4. \A d \in Files' : logs'[d] = IF d \in Files THEN logs[d] ELSE <<>>
      BY <2>2, <2>3
    <2>5. \A d \in Files' : d \in Files \/ d = today + 1
      BY <2>1, <2>3
    <2>6. LogTypeOK'
      <3>1. Files' \subseteq Days /\ today' \in Files'
        BY <2>1, <2>3 DEF Ready, LogTypeOK, Days
      <3>2. \A d \in Files' : logs'[d] \in Seq(BOOLEAN) /\ Len(logs'[d]) <= MaxBytes
        <4>1. <<>> \in Seq(BOOLEAN) /\ Len(<<>>) = 0
          OBVIOUS
        <4>2. MaxBytes \in Nat /\ \A d \in Files : logs[d] \in Seq(BOOLEAN) /\ Len(logs[d]) <= MaxBytes
          BY DEF Ready, LogTypeOK, LogAssumption
        <4>3. ASSUME NEW d \in Files' PROVE logs'[d] \in Seq(BOOLEAN) /\ Len(logs'[d]) <= MaxBytes
          <5>1. CASE d \in Files
            BY <2>4, <4>2, <5>1
          <5>2. CASE d \notin Files
            <6>1. logs'[d] = <<>>
              BY <2>4, <5>2
            <6> QED BY <4>1, <4>2, <6>1
          <5> QED BY <5>1, <5>2
        <4> QED BY <4>3
      <3>3. logs' \in [Files' -> Seq(BOOLEAN)]
        BY <2>2, <2>3, <3>2
      <3> QED BY <2>1, <3>1, <3>2, <3>3 DEF Ready, LogTypeOK, PageStays
    <2>7. FilesGrow
      <3>1. \A d \in Files : Len(logs[d]) \in Nat /\ d <= today /\ d \in Nat
        BY DayTypes
      <3>2. \A d \in Files' : d <= today => d \in Files
        BY <2>1, <2>5
      <3> QED BY <2>1, <2>4, <2>5, <3>1, <3>2 DEF FilesGrow
    <2> QED BY <2>1, <2>6, <2>7
  <1>4. CASE PurgeLog
    <2>1. PICK d \in Files \ {today} : logs' = [e \in Files \ {d} |-> logs[e]]
      BY <1>4 DEF PurgeLog
    <2>2. PageStays /\ today' = today /\ today \in Nat
      BY <1>4, DayTypes DEF PurgeLog, PageStays
    <2>3. Files' = Files \ {d} /\ \A e \in Files' : logs'[e] = logs[e]
      BY <2>1 DEF Files
    <2>4. LogTypeOK'
      <3>1. logs' \in [Files' -> Seq(BOOLEAN)]
        BY <2>1, <2>3 DEF Ready, LogTypeOK, Files
      <3> QED BY <3>1, <2>1, <2>2, <2>3 DEF Ready, LogTypeOK, PageStays
    <2>5. \A e \in Files : Len(logs[e]) \in Nat /\ e <= today
      BY DayTypes
    <2> QED BY <2>2, <2>3, <2>4, <2>5 DEF FilesGrow
  <1> QED BY <1>1, <1>2, <1>3, <1>4


\* The lines in front of a place that is at a line stay the same lines.
LEMMA LinesStay ==
  ASSUME Ready, FilesGrow, LogTypeOK', NEW d \in Files', d <= today,
         NEW o \in Nat, o <= Len(logs[d])
  PROVE  /\ o <= Len(logs'[d])
         /\ atBoundary(logs[d], o) <=> atBoundary(logs'[d], o)
         /\ \A s \in LinesOf(d) : s \in LinesOf(d)'
         /\ atBoundary(logs[d], o) => \A s \in LinesOf(d)' : s < o => s \in LinesOf(d)
  <1> DEFINE old == logs[d]
             new == logs'[d]
  <1>1. d \in Files /\ old \in Seq(BOOLEAN) /\ Len(old) \in Nat
    BY DayTypes DEF FilesGrow
  <1>2. Len(old) <= Len(new) /\ \A i \in 1 .. Len(old) : new[i] = old[i]
    BY DEF FilesGrow
  <1>3. \A s \in Nat : s <= Len(old) => (atBoundary(old, s) <=> atBoundary(new, s))
    <2> HIDE DEF old, new
    <2> QED BY <1>1, <1>2 DEF atBoundary
  <1>4. /\ LinesOf(d) = {s \in 0 .. Len(old) - 1 : atBoundary(old, s) /\ EndsIn(old, s, Len(old)) # {}}
        /\ LinesOf(d)' = {s \in 0 .. Len(new) - 1 : atBoundary(new, s) /\ EndsIn(new, s, Len(new)) # {}}
    BY DEF LinesOf
  <1>5. new \in Seq(BOOLEAN) /\ Len(new) \in Nat
    BY DEF LogTypeOK, Files
  <1> HIDE DEF old, new
  <1>6. ASSUME NEW s \in LinesOf(d) PROVE s \in LinesOf(d)'
    <2>1. s \in 0 .. Len(old) - 1 /\ atBoundary(old, s)
      BY <1>4
    <2>2. PICK e \in s + 1 .. Len(old) : old[e]
      BY <1>4 DEF EndsIn
    <2>3. e \in s + 1 .. Len(new) /\ new[e]
      BY <2>1, <2>2, <1>1, <1>2, <1>5
    <2>4. s \in 0 .. Len(new) - 1 /\ atBoundary(new, s)
      BY <2>1, <1>1, <1>2, <1>3, <1>5
    <2> QED BY <2>3, <2>4, <1>4 DEF EndsIn
  <1>7. ASSUME atBoundary(old, o), NEW s \in LinesOf(d)', s < o PROVE s \in LinesOf(d)
    <2>1. s \in 0 .. Len(new) - 1 /\ atBoundary(new, s)
      BY <1>4
    <2>2. o <= Len(old)
      BY DEF old
    <2>3. s \in 0 .. Len(old) - 1 /\ atBoundary(old, s)
      BY <2>1, <2>2, <1>1, <1>3, <1>5, <1>7
    <2>4. o \in s + 1 .. Len(old) /\ old[o]
      BY <2>1, <2>2, <1>1, <1>7, <1>5 DEF atBoundary
    <2> QED BY <2>3, <2>4, <1>4 DEF EndsIn
  <1>8. o <= Len(new)
    BY <1>1, <1>2, <1>5 DEF old
  <1>9. atBoundary(old, o) <=> atBoundary(new, o)
    BY <1>3 DEF old
  <1> QED BY <1>6, <1>7, <1>8, <1>9 DEF old, new

LEMMA LineTypes ==
  ASSUME Ready, NEW d \in Files
  PROVE  LinesOf(d) \subseteq Nat /\ \A s \in LinesOf(d) : s < Len(logs[d])
  BY DayTypes DEF LinesOf

LEMMA AtLineStays ==
  ASSUME Ready, FilesGrow, LogTypeOK', NEW p \in Places, p[1] <= today, AtLine(p)
  PROVE  AtLine(p)' /\ p[1] <= today'
  <1>1. p[1] \in Nat /\ p[2] \in Nat /\ today \in Nat
    BY DayTypes DEF Places
  <1>2. ASSUME p[1] \in Files' PROVE AtLine(p)'
    <2>1. p[1] \in Files
      BY <1>2 DEF FilesGrow
    <2>2. p[2] <= Len(logs[p[1]]) /\ atBoundary(logs[p[1]], p[2])
      BY <2>1 DEF AtLine
    <2>3. p[2] <= Len(logs'[p[1]]) /\ atBoundary(logs'[p[1]], p[2])
      BY <1>1, <1>2, <2>2, LinesStay
    <2> QED BY <2>3 DEF AtLine
  <1>3. p[1] <= today'
    BY <1>1 DEF FilesGrow
  <1> QED BY <1>2, <1>3 DEF AtLine

LEMMA UpToStays ==
  ASSUME Ready, FilesGrow, LogTypeOK', PageStays, NEW p \in Places, p[1] <= today,
         NEW items \in Seq(Days \X Nat), AtLine(p), AllUpTo(p, items)
  PROVE  AllUpTo(p, items)'
  <1>1. ASSUME p[1] \in Files', NEW s \in LinesOf(p[1])', ~Earlier(<<p[1], s>>, after), s < p[2]
        PROVE  \E i \in 1 .. Len(items) : items[i] = <<p[1], s>>
    <2>1. p[1] \in Nat /\ p[2] \in Nat /\ p[1] \in Files
      BY <1>1 DEF Places, FilesGrow
    <2>2. p[2] <= Len(logs[p[1]]) /\ atBoundary(logs[p[1]], p[2])
      BY <2>1 DEF AtLine
    <2>3. s \in LinesOf(p[1])
      BY <1>1, <2>1, <2>2, LinesStay
    <2> QED BY <1>1, <2>1, <2>3 DEF AllUpTo
  <1>2. \A s : Earlier(<<p[1], s>>, after)' <=> Earlier(<<p[1], s>>, after)
    BY DEF PageStays, Earlier
  <1> QED BY <1>1, <1>2 DEF AllUpTo

LEMMA PlaceStays ==
  ASSUME Ready, FilesGrow, LogTypeOK', PageStays, NEW p \in Places,
         NEW items \in Seq(Days \X Nat), PlaceHolds(p, items)
  PROVE  PlaceHolds(p, items)'
  <1>1. p[1] <= today /\ AtLine(p) /\ AllUpTo(p, items)
    BY DEF PlaceHolds
  <1> QED BY <1>1, AtLineStays, UpToStays DEF PlaceHolds

\* That the items are of days there have been is part of what the invariant says of
\* their places.
LEMMA ItemsStay ==
  ASSUME Ready, FilesGrow, LogTypeOK', PageStays,
         NEW items \in Seq(Days \X Nat), ItemsHold(items),
         \A i \in 1 .. Len(items) : items[i][1] <= today
  PROVE  ItemsHold(items)'
  <1>1. ASSUME NEW i \in 1 .. Len(items), items[i][1] \in Files'
        PROVE  items[i][2] \in LinesOf(items[i][1])'
    <2>1. PICK d, s : items[i] = <<d, s>> /\ d \in Days /\ s \in Nat
      BY ElementOfSeq
    <2>2. d \in Files /\ d <= today /\ d \in Files'
      BY <1>1, <2>1 DEF FilesGrow
    <2>3. s \in LinesOf(d)
      BY <2>1, <2>2 DEF ItemsHold
    <2>4. s <= Len(logs[d])
      BY <2>2, <2>3, LineTypes, DayTypes
    <2>5. s \in LinesOf(d)'
      BY <2>1, <2>2, <2>3, <2>4, LinesStay
    <2> QED BY <2>1, <2>5
  <1>2. \A i \in 1 .. Len(items) : Earlier(items[i], after)' <=> Earlier(items[i], after)
    BY DEF PageStays, Earlier
  <1>3. \A i, j \in 1 .. Len(items) : Earlier(items[i], items[j])' <=> Earlier(items[i], items[j])
    BY DEF Earlier
  <1> QED BY <1>1, <1>2, <1>3 DEF ItemsHold

LEMMA CursorStays ==
  ASSUME Ready, FilesGrow, LogTypeOK', PageStays, CursorHolds
  PROVE  CursorHolds'
  <1> PICK c \in Places : c = after
    BY DEF Ready, LogTypeOK
  <1>1. after' = c /\ c[1] \in Nat /\ c[2] \in Nat /\ today \in Nat /\ ScanBytes \in Nat /\ c[1] <= today
    BY DayTypes DEF PageStays, Places, Ready, LogAssumption, DaysHold
  <1>2. ASSUME c[1] \in Files'
        PROVE  c[2] <= Len(logs'[c[1]]) /\ (atBoundary(logs'[c[1]], c[2]) \/ InLongLine(c)')
    <2>1. c[1] \in Files
      BY <1>1, <1>2 DEF FilesGrow
    <2>2. c[2] <= Len(logs[c[1]]) /\ (atBoundary(logs[c[1]], c[2]) \/ InLongLine(c))
      BY <2>1 DEF CursorHolds
    <2>3. /\ c[2] <= Len(logs'[c[1]])
          /\ atBoundary(logs[c[1]], c[2]) => atBoundary(logs'[c[1]], c[2])
      BY <1>1, <1>2, <2>2, LinesStay
    <2>4. ASSUME InLongLine(c) PROVE InLongLine(c)'
      <3> DEFINE old == logs[c[1]]
                 new == logs'[c[1]]
      <3>1. Len(old) \in Nat /\ Len(new) \in Nat /\ Len(old) <= Len(new)
        BY <1>1, <1>2, <2>1, DayTypes DEF FilesGrow, LogTypeOK, Files
      <3>2. \A i \in 1 .. Len(old) : new[i] = old[i]
        BY <1>1, <1>2 DEF FilesGrow
      <3>3. c[2] + ScanBytes <= Len(old) /\ EndsIn(old, c[2], c[2] + ScanBytes) = {}
        BY <2>4 DEF InLongLine
      <3> HIDE DEF old, new
      <3>4. c[2] + ScanBytes <= Len(new)
        BY <1>1, <3>1, <3>3
      <3>5. ASSUME NEW e \in c[2] + 1 .. c[2] + ScanBytes PROVE ~new[e]
        <4>1. e \in 1 .. Len(old)
          BY <1>1, <3>1, <3>3
        <4>2. ~old[e]
          BY <3>3 DEF EndsIn
        <4> QED BY <3>2, <4>1, <4>2
      <3>6. EndsIn(new, c[2], c[2] + ScanBytes) = {}
        BY <3>5 DEF EndsIn
      <3> QED BY <3>4, <3>6 DEF InLongLine, new
    <2> QED BY <2>2, <2>3, <2>4
  <1> QED BY <1>1, <1>2 DEF CursorHolds

LEMMA CopyStays ==
  ASSUME Ready, FilesGrow, LogTypeOK', PageStays, NEW q \in PollRequests, q.day <= today,
         CopyHolds(q)
  PROVE  CopyHolds(q)'
  <1>1. q.day \in Nat /\ q.data \in Seq(BOOLEAN) /\ Len(q.data) \in Nat /\ today \in Nat
    BY DayTypes DEF PollRequests, Days
  <1>2. ASSUME q.day \in Files'
        PROVE  /\ Len(q.data) <= Len(logs'[q.day])
               /\ \A i \in 1 .. Len(q.data) : logs'[q.day][i] = q.data[i]
    <2>1. /\ q.day \in Files /\ Len(logs[q.day]) <= Len(logs'[q.day])
          /\ \A i \in 1 .. Len(logs[q.day]) : logs'[q.day][i] = logs[q.day][i]
      BY <1>1, <1>2 DEF FilesGrow
    <2>2. /\ Len(q.data) <= Len(logs[q.day])
          /\ \A i \in 1 .. Len(q.data) : logs[q.day][i] = q.data[i]
      BY <2>1 DEF CopyHolds
    <2>3. Len(logs[q.day]) \in Nat /\ Len(logs'[q.day]) \in Nat
      BY <1>2, <2>1, DayTypes DEF LogTypeOK, Files
    <2> QED BY <1>1, <2>1, <2>2, <2>3
  <1> QED BY <1>2 DEF CopyHolds

LEMMA ItemNumbers ==
  ASSUME NEW items \in Seq(Days \X Nat), NEW i \in 1 .. Len(items)
  PROVE  items[i][1] \in Nat /\ items[i][2] \in Nat
  <1>1. items[i] \in Days \X Nat
    BY ElementOfSeq
  <1> QED BY <1>1 DEF Days

LEMMA ItemDays ==
  ASSUME NEW items \in Seq(Days \X Nat), NEW p \in Places, AllBefore(items, p), NEW n \in Nat,
         p[1] <= n
  PROVE  \A i \in 1 .. Len(items) : items[i][1] <= n
  <1>1. ASSUME NEW i \in 1 .. Len(items) PROVE items[i][1] <= n
    <2>1. items[i][1] \in Nat /\ p[1] \in Nat
      BY ElementOfSeq DEF Days, Places
    <2>2. items[i][1] < p[1] \/ items[i][1] = p[1]
      BY DEF AllBefore, Earlier
    <2> QED BY <2>1, <2>2
  <1> QED BY <1>1

LEMMA PollTypes ==
  ASSUME LogAssumption, NEW q \in PollRequests
  PROVE  /\ q.items \in Seq(Days \X Nat) /\ q.last \in Places /\ Len(q.items) \in Nat
         /\ q.day \in Nat /\ q.start \in Nat /\ q.next \in Nat /\ q.end \in Nat
         /\ q.data \in Seq(BOOLEAN) /\ Len(q.data) \in Nat
         /\ <<q.day, q.start>> \in Places /\ <<q.day, q.next>> \in Places
         /\ q.left \subseteq Days /\ Days \subseteq Nat
         /\ q.scanned \in 0 .. ScanBytes /\ q.bytes \in 0 .. MaxPayload
         /\ q.day \in Days
  BY DEF PollRequests, Days, Places, LogAssumption

LEMMA PollStays ==
  ASSUME Ready, FilesGrow, LogTypeOK', PageStays, PollHolds
  PROVE  PollHolds'
  <1> SUFFICES ASSUME request \in PollRequests PROVE PollHolds'
    BY DEF PollHolds, PageStays
  <1> PICK q \in PollRequests : q = request
    OBVIOUS
  <1>1. request' = q /\ after' = after /\ LogAssumption /\ today \in Nat /\ today' \in Nat /\ today <= today'
    BY DayTypes DEF PageStays, Ready, FilesGrow
  <1>2. /\ AtLine(after) /\ \A d \in q.left : d <= today /\ after[1] <= d
        /\ q.day <= today
        /\ ItemsHold(q.items)
        /\ PlaceHolds(q.last, q.items)
        /\ q.at = "file" => FileHolds(q)
        /\ q.at = "chunk" => ChunkHolds(q)
        /\ q.at = "lines" => LinesHold(q)
    BY DEF PollHolds, PollFits
  <1>3. \A p : Earlier(p, after)' <=> Earlier(p, after)
    BY <1>1 DEF Earlier
  <1>4. PlaceHolds(q.last, q.items)'
    BY <1>2, PollTypes, PlaceStays DEF Ready
  <1>5. AtLine(after)'
    <2> PICK c \in Places : c = after
      BY DEF Ready, LogTypeOK
    <2>1. AtLine(c) /\ c[1] <= today
      BY <1>2 DEF Ready, DaysHold
    <2>2. AtLine(c)'
      BY <2>1, AtLineStays
    <2> QED BY <2>2, <1>1 DEF AtLine
  <1>6. ItemsHold(q.items)' /\ (q.at = "file" => FileHolds(q)') /\ (q.at = "chunk" => ChunkHolds(q)')
          /\ (q.at = "lines" => LinesHold(q)')
    <2>1. q.at \in {"file", "chunk", "lines"}
      BY DEF PollRequests
    <2>2. CASE q.at = "file"
      <3>1. FileHolds(q) /\ q.last[1] <= today
        BY <2>2, <1>2 DEF PlaceHolds
      <3>2. \A i \in 1 .. Len(q.items) : q.items[i][1] <= today
        BY <3>1, <1>1, ItemDays, PollTypes DEF FileHolds
      <3>3. FileHolds(q)'
        BY <3>1 DEF FileHolds, AllBefore, Earlier
      <3> QED BY <3>2, <3>3, <2>2, <1>1, <1>2, ItemsStay, PollTypes
    <2>3. CASE q.at = "chunk"
      <3>1. ChunkHolds(q) /\ q.last[1] <= today
        BY <2>3, <1>2 DEF PlaceHolds
      <3>2. \A i \in 1 .. Len(q.items) : q.items[i][1] <= today
        BY <3>1, <1>1, ItemDays, PollTypes DEF ChunkHolds
      <3>3. CopyHolds(q)' /\ PlaceHolds(<<q.day, q.start>>, q.items)'
        BY <3>1, <1>1, <1>2, CopyStays, PlaceStays, PollTypes DEF ChunkHolds
      <3>4. ChunkHolds(q)'
        BY <3>1, <3>3, <1>3 DEF ChunkHolds, AllBefore, Earlier
      <3> QED BY <3>2, <3>4, <2>3, <1>1, <1>2, ItemsStay, PollTypes
    <2>4. CASE q.at = "lines"
      <3>1. LinesHold(q) /\ <<q.day, q.next>>[1] <= today
        BY <2>4, <1>2 DEF PlaceHolds
      <3>2. \A i \in 1 .. Len(q.items) : q.items[i][1] <= today
        BY <3>1, <1>1, ItemDays, PollTypes DEF LinesHold
      <3>3. CopyHolds(q)' /\ PlaceHolds(<<q.day, q.next>>, q.items)'
        BY <3>1, <1>1, <1>2, CopyStays, PlaceStays, PollTypes DEF LinesHold
      <3>4. LinesHold(q)'
        BY <3>1, <3>3, <1>3 DEF LinesHold, AllBefore, Earlier
      <3> QED BY <3>2, <3>4, <2>4, <1>1, <1>2, ItemsStay, PollTypes
    <2> QED BY <2>1, <2>2, <2>3, <2>4
  <1>7. q.day \in Nat /\ q.left \subseteq Nat
    BY <1>1, PollTypes
  <1>8. (\A d \in q.left : d <= today' /\ after'[1] <= d) /\ q.day <= today'
    BY <1>1, <1>2, <1>7
  <1>9. PollHolds'
    BY <1>1, <1>4, <1>5, <1>6, <1>7, <1>8 DEF PollHolds, PollFits
  <1> QED BY <1>9

LEMMA WriterKeeps ==
  ASSUME LogAssumption, LogInv, WriteLine \/ WriteHalf \/ NextDay \/ PurgeLog
  PROVE  LogInv'
  <1>1. Ready
    BY DEF Ready, LogInv
  <1>2. LogTypeOK' /\ FilesGrow /\ PageStays
    BY <1>1, WriterGrows
  <1>3. DaysHold'
    <2>1. \A d \in Files' : d \in Nat /\ d >= 1 /\ d <= today'
      BY <1>2 DEF FilesGrow, LogTypeOK, Days
    <2>2. after[1] \in Nat /\ after[1] <= today /\ today \in Nat
      BY <1>1, DayTypes DEF LogInv, DaysHold, LogTypeOK, Places
    <2> QED BY <1>2, <2>1, <2>2 DEF DaysHold, FilesGrow, PageStays
  <1> QED BY <1>1, <1>2, <1>3, CursorStays, PollStays DEF LogInv

------------------------------------------------------------------------------
(* The tail *)

LEMMA MinOfThree ==
  ASSUME NEW a \in Nat, NEW b \in Nat, NEW c \in Nat
  PROVE  /\ Min({a, b, c}) \in Nat /\ Min({a, b, c}) \in {a, b, c}
         /\ Min({a, b, c}) <= a /\ Min({a, b, c}) <= b /\ Min({a, b, c}) <= c
  <1>1. {a, b, c} \in SUBSET Nat /\ {a, b, c} # {}
    OBVIOUS
  <1>2. Min({a, b, c}) \in {a, b, c} /\ \A y \in {a, b, c} : Min({a, b, c}) <= y
    BY <1>1, MinOf
  <1> QED BY <1>2

LEMMA WindowBounds ==
  ASSUME LogAssumption, NEW end \in Nat
  PROVE  /\ \A low \in Windows(end) : low \in 0 .. end /\ (end <= low + ScanBytes)
         /\ \E low \in Windows(end) : low = 0 \/ low + ScanBytes = end
  <1> DEFINE step(k) == Min({k * Chunk, end, ScanBytes})
  <1>1. Chunk \in Nat /\ ScanBytes \in Nat /\ Chunk >= 1
    BY DEF LogAssumption
  <1>2. \A k \in 0 .. end : k * Chunk \in Nat
    BY <1>1
  <1>3. \A k \in 0 .. end : step(k) \in Nat /\ step(k) <= end /\ step(k) <= ScanBytes /\ step(k) \in {k * Chunk, end, ScanBytes}
    BY <1>1, <1>2, MinOfThree
  <1>4. end <= end * Chunk
    BY <1>1
  <1>5. Windows(end) = {end - step(k) : k \in 0 .. end}
    BY DEF Windows
  <1>6. step(end) \in {end, ScanBytes}
    <2>1. end \in 0 .. end
      OBVIOUS
    <2>2. step(end) <= end /\ step(end) \in {end * Chunk, end, ScanBytes} /\ step(end) \in Nat
      BY <1>3, <2>1
    <2> HIDE DEF step
    <2>3. CASE step(end) = end * Chunk
      <3>1. PICK m : m = end * Chunk
        OBVIOUS
      <3>2. m \in Nat /\ end <= m /\ m <= end
        BY <1>4, <2>2, <2>3, <3>1
      <3> QED BY <2>3, <3>1, <3>2
    <2> QED BY <2>2, <2>3
  <1> HIDE DEF step
  <1>7. ASSUME NEW low \in Windows(end) PROVE low \in 0 .. end /\ end <= low + ScanBytes
    <2>1. PICK k \in 0 .. end : low = end - step(k)
      BY <1>5
    <2>2. step(k) \in Nat /\ step(k) <= end /\ step(k) <= ScanBytes
      BY <1>3
    <2> QED BY <1>1, <2>1, <2>2
  <1>8. end - step(end) \in Windows(end) /\ (end - step(end) = 0 \/ (end - step(end)) + ScanBytes = end)
    <2>1. end \in 0 .. end
      OBVIOUS
    <2>2. end - step(end) \in Windows(end)
      BY <1>5, <2>1
    <2> QED BY <1>1, <1>6, <2>2
  <1> QED BY <1>7, <1>8

\* A window without a line in it is as large as a scan, or all of the file.
LEMMA WindowIsFound ==
  ASSUME LogAssumption, NEW data \in Seq(BOOLEAN), NEW end \in Nat, NEW limit
  PROVE  /\ WindowStart(data, end, limit) \in 0 .. end
         /\ limit \in Nat /\ EndsIn(data, WindowStart(data, end, limit), end) = {}
              => WindowStart(data, end, limit) = 0 \/ WindowStart(data, end, limit) + ScanBytes = end
  <1> DEFINE full == {low \in Windows(end) : Cardinality(EndsIn(data, low, end)) > limit}
             start == WindowStart(data, end, limit)
  <1>1. Windows(end) \in SUBSET Nat /\ Windows(end) # {} /\ \A low \in Windows(end) : low \in 0 .. end
    <2>1. (\A low \in Windows(end) : low \in 0 .. end) /\ \E low \in Windows(end) : TRUE
      BY WindowBounds
    <2> QED BY <2>1
  <1>2. start = IF full = {} THEN Min(Windows(end)) ELSE Max(full)
    BY DEF WindowStart
  <1>3. CASE full = {}
    <2>1. start = Min(Windows(end))
      BY <1>2, <1>3
    <2>2. start \in Windows(end) /\ \A low \in Windows(end) : start <= low
      BY <1>1, <2>1, MinOf
    <2>3. start \in 0 .. end /\ end <= start + ScanBytes
      BY <2>2, WindowBounds
    <2>4. PICK low \in Windows(end) : low = 0 \/ low + ScanBytes = end
      BY WindowBounds
    <2>5. start <= low /\ low \in Nat /\ ScanBytes \in Nat
      BY <1>1, <2>2 DEF LogAssumption
    <2> HIDE DEF start
    <2>6. start = 0 \/ start + ScanBytes = end
      BY <2>3, <2>4, <2>5
    <2> QED BY <2>3, <2>6 DEF start
  <1>4. CASE full # {}
    <2>1. full \in SUBSET Nat /\ \A low \in full : low <= end
      BY <1>1
    <2>2. Max(full) \in full
      <3> HIDE DEF full
      <3> QED BY <1>4, <2>1, MaxOf
    <2>3. start \in full
      BY <1>2, <1>4, <2>2
    <2>4. start \in 0 .. end /\ Cardinality(EndsIn(data, start, end)) > limit
      BY <1>1, <2>3
    <2> HIDE DEF start, full
    <2>5. Cardinality({}) = 0
      BY FS_EmptySet
    <2>6. ASSUME limit \in Nat, EndsIn(data, start, end) = {} PROVE FALSE
      <3>1. 0 > limit
        BY <2>4, <2>5, <2>6
      <3> QED BY <2>6, <3>1
    <2> QED BY <2>4, <2>6 DEF start
  <1> QED BY <1>3, <1>4

LEMMA TailTypes ==
  ASSUME LogAssumption, NEW d, logs[d] \in Seq(BOOLEAN), NEW end \in Nat, NEW limit
  PROVE  /\ TailRefs(d, end, limit).refs \subseteq {d} \X Nat
         /\ TailRefs(d, end, limit).next \in 0 .. end
         /\ limit \in Nat =>
              \/ atBoundary(logs[d], TailRefs(d, end, limit).next)
              \/ /\ TailRefs(d, end, limit).next + ScanBytes = end
                 /\ EndsIn(logs[d], TailRefs(d, end, limit).next, end) = {}
  <1> DEFINE low    == WindowStart(logs[d], end, limit)
             ends   == EndsIn(logs[d], low, end)
             starts == {s \in {low} \cup ends : s + 1 \notin ends /\ \E e \in ends : s < e}
             last   == {s \in starts : Cardinality({t \in starts : t > s}) < limit}
             next   == IF ends = {} THEN low ELSE Max(ends)
  <1>1. low \in 0 .. end /\ (limit \in Nat /\ ends = {} => low = 0 \/ low + ScanBytes = end)
    BY WindowIsFound
  <1>2. TailRefs(d, end, limit) = [refs |-> {<<d, s>> : s \in last}, next |-> next]
    BY DEF TailRefs
  <1>3. ends \in SUBSET Nat /\ \A e \in ends : e \in 0 .. end /\ e <= end /\ logs[d][e]
    <2> HIDE DEF low
    <2> QED BY <1>1 DEF EndsIn
  <1>4. \A s \in last : s \in Nat
    BY <1>1, <1>3
  <1>5. ends # {} => Max(ends) \in ends
    <2> HIDE DEF ends
    <2> QED BY <1>3, MaxOf
  <1> HIDE DEF low, ends, starts, last
  <1>6. TailRefs(d, end, limit).refs \subseteq {d} \X Nat
    BY <1>2, <1>4
  <1>7. next \in 0 .. end
    BY <1>1, <1>3, <1>5
  <1>8. ASSUME limit \in Nat
        PROVE  \/ atBoundary(logs[d], next)
               \/ next + ScanBytes = end /\ EndsIn(logs[d], next, end) = {}
    <2>1. CASE ends = {}
      <3>1. next = low /\ (low = 0 \/ low + ScanBytes = end)
        BY <1>1, <1>8, <2>1
      <3>2. EndsIn(logs[d], low, end) = {}
        BY <2>1 DEF ends
      <3>3. CASE low = 0
        BY <3>1, <3>3 DEF atBoundary
      <3> QED BY <3>1, <3>2, <3>3
    <2>2. CASE ends # {}
      BY <1>3, <1>5, <2>2 DEF atBoundary
    <2> QED BY <2>1, <2>2
  <1> QED BY <1>2, <1>6, <1>7, <1>8

LEMMA FirstRefTypes ==
  ASSUME LogAssumption, NEW refs \in SUBSET (Days \X Nat), refs # {}
  PROVE  FirstRef(refs) \in Days \X Nat
  <1> DEFINE days == {p[1] : p \in refs}
             d    == Min(days)
             here == {p[2] : p \in {q \in refs : q[1] = d}}
  <1>1. days \in SUBSET Nat /\ days # {} /\ days \subseteq Days
    BY DEF Days
  <1>2. d \in days
    <2> HIDE DEF days
    <2> QED BY <1>1, MinOf
  <1>3. here \in SUBSET Nat /\ here # {}
    BY <1>2
  <1>4. Min(here) \in here
    <2> HIDE DEF here
    <2> QED BY <1>3, MinOf
  <1>5. FirstRef(refs) = <<d, Min(here)>>
    BY DEF FirstRef
  <1> HIDE DEF days, d, here
  <1>6. d \in Days /\ Min(here) \in Nat
    BY <1>1, <1>2, <1>3, <1>4
  <1> QED BY <1>5, <1>6

LEMMA TailIsLoaded ==
  ASSUME LogAssumption, LogInv, LoadTail, UNCHANGED <<logs, today>>
  PROVE  LogInv'
  <1> DEFINE d    == Max(Files)
             tail == TailRefs(d, Len(logs[d]), PageLimit)
  <1>1. Ready
    BY DEF Ready, LogInv
  <1>2. d \in Files
    BY <1>1, DayTypes, MaxOf
  <1>3. d \in Days /\ d \in Nat /\ d <= today /\ logs[d] \in Seq(BOOLEAN) /\ Len(logs[d]) \in Nat
    BY <1>1, <1>2, DayTypes DEF LogInv, LogTypeOK
  <1>4. PageLimit \in Nat /\ ScanBytes \in Nat
    BY DEF LogAssumption
  <1>5. /\ tail.refs \subseteq {d} \X Nat
        /\ tail.next \in 0 .. Len(logs[d])
        /\ \/ atBoundary(logs[d], tail.next)
           \/ tail.next + ScanBytes = Len(logs[d]) /\ EndsIn(logs[d], tail.next, Len(logs[d])) = {}
    <2> HIDE DEF d
    <2> QED BY <1>3, <1>4, TailTypes
  <1>6. /\ shown' = tail.refs /\ after' = <<d, tail.next>> /\ request' = NoRequest
        /\ before' = IF tail.refs = {} THEN NoCursor ELSE FirstRef(tail.refs)
        /\ first' = before' /\ logs' = logs /\ today' = today
    BY DEF LoadTail
  <1> HIDE DEF d, tail
  <1>7. tail.refs \subseteq Days \X Nat
    BY <1>3, <1>5
  <1>8. before' \in Places
    <2>1. NoCursor \in Places
      BY DEF NoCursor, Places, LogAssumption
    <2>2. Days \X Nat \subseteq Places
      BY DEF Days, Places, LogAssumption
    <2> QED BY <1>6, <1>7, <2>1, <2>2, FirstRefTypes
  <1>9. after' \in Places
    BY <1>3, <1>5, <1>6 DEF Places, Days, LogAssumption
  <1>10. Files' = Files
    BY <1>6 DEF Files
  <1>11. LogTypeOK'
    BY <1>6, <1>7, <1>8, <1>9, <1>10 DEF LogInv, LogTypeOK
  <1>12. DaysHold'
    BY <1>3, <1>6, <1>10 DEF LogInv, DaysHold
  <1>13. CursorHolds'
    <2>1. after'[1] = d /\ after'[2] = tail.next
      BY <1>6
    <2>2. tail.next <= Len(logs[d])
      BY <1>3, <1>5
    <2>3. CASE atBoundary(logs[d], tail.next)
      BY <1>6, <2>1, <2>2, <2>3 DEF CursorHolds
    <2>4. CASE tail.next + ScanBytes = Len(logs[d]) /\ EndsIn(logs[d], tail.next, Len(logs[d])) = {}
      <3>1. InLongLine(after)'
        BY <1>3, <1>6, <2>1, <2>4 DEF InLongLine
      <3> QED BY <1>6, <2>1, <2>2, <3>1 DEF CursorHolds
    <2> QED BY <1>5, <2>3, <2>4
  <1>14. PollHolds'
    BY <1>6 DEF PollHolds, PollRequests, NoRequest
  <1> QED BY <1>11, <1>12, <1>13, <1>14 DEF LogInv

------------------------------------------------------------------------------
(* The steps of a request *)

LEMMA StaysTyped ==
  ASSUME LogTypeOK, UNCHANGED <<logs, today, after, before, shown, first>>,
         NEW r \in {NoRequest} \cup PollRequests \cup EarlierRequests, request' = r
  PROVE  LogTypeOK'
  BY DEF LogTypeOK, Files

LEMMA StaysFit ==
  ASSUME UNCHANGED <<logs, today, after>>, NEW q, PollFits(q)
  PROVE  PollFits(q)'
  <1>1. Files' = Files
    BY DEF Files
  <1>2. \A d : LinesOf(d)' = LinesOf(d)
    BY DEF LinesOf
  <1>3. \A p, items : AtLine(p)' = AtLine(p) /\ AllUpTo(p, items)' = AllUpTo(p, items)
    BY <1>1, <1>2 DEF AtLine, AllUpTo
  <1>4. \A p, items : PlaceHolds(p, items)' = PlaceHolds(p, items)
    BY <1>3 DEF PlaceHolds
  <1>5. \A items : ItemsHold(items)' = ItemsHold(items)
    BY <1>1, <1>2 DEF ItemsHold
  <1>6. CopyHolds(q)' = CopyHolds(q)
    BY <1>1 DEF CopyHolds
  <1>7. /\ FileHolds(q)' = FileHolds(q) /\ ChunkHolds(q)' = ChunkHolds(q)
        /\ LinesHold(q)' = LinesHold(q)
    BY <1>4, <1>6 DEF FileHolds, ChunkHolds, LinesHold
  <1>8. AtLine(after)' = AtLine(after)
    BY <1>3
  <1> QED BY <1>4, <1>5, <1>7, <1>8, Zenon DEF PollFits

LEMMA PollStep ==
  ASSUME LogInv, UNCHANGED <<logs, today, after, before, shown, first>>,
         NEW r \in PollRequests, request' = r, PollFits(r)
  PROVE  LogInv'
  <1>1. LogTypeOK'
    BY StaysTyped DEF LogInv
  <1>2. PollHolds'
    BY StaysFit DEF PollHolds
  <1>3. DaysHold' /\ CursorHolds'
    BY DEF LogInv, DaysHold, CursorHolds, InLongLine, Files
  <1> QED BY <1>1, <1>2, <1>3 DEF LogInv

LEMMA NotAPoll ==
  ASSUME LogInv, UNCHANGED <<logs, today, after>>, LogTypeOK', request' \notin PollRequests
  PROVE  LogInv'
  <1>1. PollHolds'
    BY DEF PollHolds, PollRequests
  <1>2. DaysHold' /\ CursorHolds'
    BY DEF LogInv, DaysHold, CursorHolds, InLongLine, Files
  <1> QED BY <1>1, <1>2 DEF LogInv

LEMMA OtherRequests ==
  /\ NoRequest \notin PollRequests
  /\ \A r \in EarlierRequests : r \notin PollRequests
  /\ \A r \in {NoRequest} \cup PollRequests \cup EarlierRequests :
       /\ r.at = "earlier" => r \in EarlierRequests
       /\ r.at \in {"file", "chunk", "lines"} => r \in PollRequests
  BY DEF NoRequest, PollRequests, EarlierRequests

LEMMA RestartKeeps ==
  ASSUME LogAssumption, LogInv, RestartLogs
  PROVE  LogInv'
  <1>1. UNCHANGED <<logs, today, shown>> /\ after' = NoCursor /\ before' = NoCursor /\ first' = NoCursor
          /\ request' = NoRequest
    BY DEF RestartLogs
  <1>2. NoCursor \in Places /\ NoCursor[1] = 0
    BY DEF NoCursor, Places, LogAssumption
  <1>3. LogTypeOK'
    BY <1>1, <1>2 DEF LogInv, LogTypeOK, Files
  <1>4. 0 \notin Files /\ today \in Nat
    BY DayTypes DEF LogInv, DaysHold, Ready
  <1>5. DaysHold' /\ CursorHolds'
    BY <1>1, <1>2, <1>4 DEF LogInv, DaysHold, CursorHolds, Files
  <1>6. PollHolds'
    BY <1>1, OtherRequests DEF PollHolds
  <1> QED BY <1>3, <1>5, <1>6 DEF LogInv

LEMMA AbortKeeps ==
  ASSUME LogInv, UNCHANGED <<logs, today, after, before, shown, first>>, request' = NoRequest
  PROVE  LogInv'
  <1>1. LogTypeOK'
    BY StaysTyped DEF LogInv
  <1> QED BY <1>1, OtherRequests, NotAPoll

LEMMA EarlierKeeps ==
  ASSUME LogAssumption, LogInv, LoadEarlier \/ GatherFile \/ EndEarlier
  PROVE  LogInv'
  <1>1. CASE LoadEarlier
    <2>1. CASE ReadableRefs(before)
      <3> DEFINE r == [at |-> "earlier", left |-> {d \in Files : d <= before[1]}, refs |-> {}]
      <3>1. request' = r /\ UNCHANGED <<logs, today, after, before, shown, first>>
        BY <1>1, <2>1 DEF LoadEarlier
      <3>2. r \in EarlierRequests
        BY DEF EarlierRequests, LogInv, LogTypeOK
      <3> HIDE DEF r
      <3>3. LogTypeOK'
        BY <3>1, <3>2, StaysTyped DEF LogInv
      <3> QED BY <3>1, <3>2, <3>3, OtherRequests, NotAPoll
    <2>2. CASE ~ReadableRefs(before)
      BY <1>1, <2>2, TailIsLoaded DEF LoadEarlier
    <2> QED BY <2>1, <2>2
  <1>2. CASE GatherFile
    <2> PICK q \in EarlierRequests : q = request
      BY <1>2, OtherRequests DEF GatherFile, LogInv, LogTypeOK
    <2> DEFINE d   == Max(q.left)
               end == IF d = before[1] THEN before[2] ELSE Len(logs[d])
               new == TailRefs(d, end, PageLimit - Cardinality(q.refs)).refs
               r   == [q EXCEPT !.left = @ \ {d}, !.refs = @ \cup new]
    <2>1. /\ UNCHANGED <<logs, today, after, before, shown, first>>
          /\ request' = IF d \notin Files THEN NoRequest ELSE r
      BY <1>2 DEF GatherFile
    <2>2. CASE d \notin Files
      BY <2>1, <2>2, AbortKeeps
    <2>3. CASE d \in Files
      <3>1. d \in Days /\ logs[d] \in Seq(BOOLEAN) /\ end \in Nat
        BY <2>3, DayTypes DEF Ready, LogInv, LogTypeOK, Places
      <3>2. new \subseteq {d} \X Nat
        <4> HIDE DEF d, end
        <4> QED BY <3>1, TailTypes
      <3>3. new \subseteq Days \X Nat
        <4> HIDE DEF new, d
        <4> QED BY <3>1, <3>2
      <3>4. r \in EarlierRequests
        <4> HIDE DEF d, new
        <4> QED BY <3>3 DEF EarlierRequests
      <3>5. request' = r
        BY <2>1, <2>3
      <3> HIDE DEF r
      <3>6. LogTypeOK'
        BY <2>1, <3>4, <3>5, StaysTyped DEF LogInv
      <3> QED BY <2>1, <3>4, <3>5, <3>6, OtherRequests, NotAPoll
    <2> QED BY <2>2, <2>3
  <1>3. CASE EndEarlier
    <2> PICK q \in EarlierRequests : q = request
      BY <1>3, OtherRequests DEF EndEarlier, LogInv, LogTypeOK
    <2>1. UNCHANGED <<logs, today, after, first>> /\ request' = NoRequest
      BY <1>3 DEF EndEarlier
    <2>2. q.refs \in SUBSET (Days \X Nat)
      BY DEF EarlierRequests
    <2>3. \/ before' = before /\ shown' = shown
          \/ shown' = shown \cup q.refs /\ before' = IF q.refs = {} THEN before ELSE FirstRef(q.refs)
      BY <1>3 DEF EndEarlier
    <2>4. before' \in Places
      <3>1. Days \X Nat \subseteq Places
        BY DEF Days, Places, LogAssumption
      <3>2. before \in Places
        BY DEF LogInv, LogTypeOK
      <3> QED BY <2>2, <2>3, <3>1, <3>2, FirstRefTypes
    <2>5. shown' \subseteq Days \X Nat
      BY <2>2, <2>3 DEF LogInv, LogTypeOK
    <2>6. LogTypeOK'
      BY <2>1, <2>4, <2>5 DEF LogInv, LogTypeOK, Files
    <2> QED BY <2>1, <2>6, OtherRequests, NotAPoll
  <1> QED BY <1>1, <1>2, <1>3

LEMMA NothingTaken ==
  ASSUME NEW p
  PROVE  /\ ItemsHold(<<>>) /\ AllBefore(<<>>, p)
         /\ <<>> \in Seq(Days \X Nat) /\ Len(<<>>) = 0
  BY DEF ItemsHold, AllBefore

LEMMA BeginKeeps ==
  ASSUME LogAssumption, LogInv, BeginPoll
  PROVE  LogInv'
  <1>1. CASE ~ReadableRefs(after)
    BY <1>1, TailIsLoaded DEF BeginPoll
  <1>2. CASE ReadableRefs(after)
    <2> PICK c \in Places : c = after
      BY DEF LogInv, LogTypeOK
    <2> PICK r : r = [at |-> "file", left |-> {d \in Files : d >= c[1]},
                      day |-> c[1], data |-> <<>>, start |-> 0, next |-> 0, end |-> 0,
                      items |-> <<>>, scanned |-> 0, bytes |-> 0, last |-> c]
      OBVIOUS
    <2>1. UNCHANGED <<logs, today, after, before, shown, first>> /\ request' = r
      BY <1>2 DEF BeginPoll
    <2>2. /\ r.at = "file" /\ r.left = {d \in Files : d >= c[1]} /\ r.day = c[1] /\ r.items = <<>>
          /\ r.last = c
      OBVIOUS
    <2>3. /\ c[1] \in Files /\ c[2] <= Len(logs[c[1]]) /\ atBoundary(logs[c[1]], c[2])
          /\ c[1] \in Days /\ c[1] \in Nat /\ c[2] \in Nat /\ c[1] <= today
      BY <1>2, DayTypes DEF ReadableRefs, LogInv, LogTypeOK, Places, Ready
    <2>4. r \in PollRequests
      <3>1. {d \in Files : d >= c[1]} \in SUBSET Days
        BY DEF LogInv, LogTypeOK
      <3>2. <<>> \in Seq(BOOLEAN) /\ <<>> \in Seq(Days \X Nat)
        OBVIOUS
      <3>3. 0 \in 0 .. ScanBytes /\ 0 \in 0 .. MaxPayload
        BY DEF LogAssumption
      <3> QED BY <2>3, <3>1, <3>2, <3>3 DEF PollRequests
    <2>5. AtLine(c) /\ AtLine(after)
      BY <2>3 DEF AtLine
    <2>6. AllUpTo(c, <<>>)
      <3>1. \A s \in LinesOf(c[1]) : s \in Nat
        BY <2>3, LineTypes DEF LogInv, Ready
      <3>2. ASSUME NEW s \in Nat, ~Earlier(<<c[1], s>>, after), s < c[2] PROVE FALSE
        BY <2>3, <3>2 DEF Earlier
      <3> QED BY <3>1, <3>2 DEF AllUpTo
    <2>7. PlaceHolds(c, <<>>)
      BY <2>3, <2>5, <2>6 DEF PlaceHolds
    <2>8. FileHolds(r)
      BY <2>2, NothingTaken DEF FileHolds
    <2>9. \A d \in r.left : d <= today /\ after[1] <= d
      BY <2>2, <2>3, DayTypes DEF LogInv, Ready
    <2>10. ~(r.at = "chunk") /\ ~(r.at = "lines")
      BY <2>2
    <2>11. PollFits(r)
      BY <2>2, <2>3, <2>5, <2>7, <2>8, <2>9, <2>10, NothingTaken DEF PollFits
    <2> QED BY <2>1, <2>4, <2>11, PollStep
  <1> QED BY <1>1, <1>2

\* What the state of a request is made of, for the steps that go on with it.
LEMMA PollUnfolds ==
  ASSUME LogAssumption, LogInv, request.at \in {"file", "chunk", "lines"}
  PROVE  request \in PollRequests /\ PollFits(request)
  BY OtherRequests DEF LogInv, LogTypeOK, PollHolds

LEMMA FilesAreOpened ==
  ASSUME LogAssumption, LogInv, OpenFile
  PROVE  LogInv'
  <1> PICK q \in PollRequests : q = request /\ PollFits(q)
    BY PollUnfolds DEF OpenFile
  <1> DEFINE d == Min(q.left)
  <1>1. /\ UNCHANGED <<logs, today, after, before, shown, first>> /\ q.at = "file" /\ q.left # {}
        /\ request' = IF d \notin Files THEN NoRequest
                      ELSE [q EXCEPT !.at = "chunk", !.left = @ \ {d}, !.day = d,
                                     !.data = logs[d], !.start = StartIn(d)]
    BY DEF OpenFile
  <1>2. CASE d \notin Files
    BY <1>1, <1>2, AbortKeeps
  <1>3. CASE d \in Files
    <2> PICK c \in Places : c = after
      BY DEF LogInv, LogTypeOK
    <2>1. /\ q.left \in SUBSET Nat /\ q.left \subseteq Days /\ Ready
          /\ q.items \in Seq(Days \X Nat) /\ Len(q.items) \in Nat /\ q.last \in Places
      BY PollTypes DEF LogInv, Ready
    <2>2. d \in q.left /\ \A e \in q.left : d <= e
      BY <1>1, <2>1, MinOf
    <2>3. PICK o : o = StartIn(d)
      OBVIOUS
    <2>4. /\ c[1] \in Nat /\ c[2] \in Nat /\ d \in Nat /\ d \in Days /\ d <= today /\ c[1] <= d
          /\ logs[d] \in Seq(BOOLEAN) /\ Len(logs[d]) \in Nat
      BY <1>3, <2>1, <2>2, DayTypes DEF Places, PollFits
    <2>5. o = (IF d = c[1] THEN c[2] ELSE 0) /\ o \in Nat
      BY <2>3, <2>4 DEF StartIn
    <2>6. o <= Len(logs[d]) /\ atBoundary(logs[d], o)
      <3>1. CASE d = c[1]
        BY <1>3, <2>5, <3>1 DEF PollFits, AtLine
      <3>2. CASE d # c[1]
        BY <2>4, <2>5, <3>2 DEF atBoundary
      <3> QED BY <3>1, <3>2
    <2>7. PICK r : r = [q EXCEPT !.at = "chunk", !.left = @ \ {d}, !.day = d,
                                 !.data = logs[d], !.start = o]
      OBVIOUS
    <2>8. request' = r
      BY <1>1, <1>3, <2>3, <2>7
    <2> HIDE DEF d
    <2>9. /\ r \in PollRequests
          /\ r.at = "chunk" /\ r.left = q.left \ {d} /\ r.day = d /\ r.data = logs[d]
          /\ r.start = o /\ r.items = q.items /\ r.last = q.last
      BY <2>4, <2>5, <2>7 DEF PollRequests
    <2>10. CopyHolds(r)
      <3>1. \A e \in r.left : d < e
        <4>1. ASSUME NEW e \in r.left PROVE d < e
          <5>1. e \in Nat /\ e # d /\ d <= e
            BY <2>1, <2>2, <2>9
          <5> QED BY <2>4, <5>1
        <4> QED BY <4>1
      <3> QED BY <2>4, <2>9, <3>1 DEF CopyHolds
    <2>11. FileHolds(q) /\ ItemsHold(q.items) /\ PlaceHolds(q.last, q.items)
      BY <1>1 DEF PollFits
    <2>12. AllBefore(r.items, <<d, o>>)
      BY <2>2, <2>9, <2>11 DEF AllBefore, FileHolds, Earlier
    <2>13. ~Earlier(<<d, o>>, after)
      BY <2>4, <2>5 DEF Earlier
    <2>14. AllUpTo(<<d, o>>, r.items)
      <3>1. \A s \in LinesOf(d) : s \in Nat
        BY <1>3, <2>1, LineTypes DEF d
      <3>2. ASSUME NEW s \in Nat, ~Earlier(<<d, s>>, after), s < o PROVE FALSE
        BY <2>4, <2>5, <3>2 DEF Earlier
      <3> QED BY <3>1, <3>2 DEF AllUpTo
    <2>15. PlaceHolds(<<d, o>>, r.items)
      BY <2>4, <2>6, <2>14 DEF PlaceHolds, AtLine
    <2>16. ChunkHolds(r)
      BY <2>6, <2>9, <2>10, <2>11, <2>12, <2>13, <2>15 DEF ChunkHolds, FileHolds
    <2>17. PollFits(r)
      BY <2>4, <2>9, <2>11, <2>16 DEF PollFits
    <2> QED BY <1>1, <2>8, <2>9, <2>17, PollStep
  <1> QED BY <1>2, <1>3

LEMMA ChunksAreRead ==
  ASSUME LogAssumption, LogInv, ReadChunk
  PROVE  LogInv'
  <1> PICK q \in PollRequests : q = request /\ PollFits(q)
    BY PollUnfolds DEF ReadChunk
  <1>1. UNCHANGED <<logs, today, after, before, shown, first>> /\ q.at = "chunk" /\ ChunkHolds(q)
    BY DEF ReadChunk, PollFits
  <1>2. /\ q.items \in Seq(Days \X Nat) /\ q.last \in Places /\ q.left \subseteq Nat
        /\ q.day \in Nat /\ q.start \in Nat /\ Len(q.data) \in Nat
        /\ q.scanned \in 0 .. ScanBytes /\ ScanBytes \in Nat /\ Chunk \in Nat \ {0}
    BY PollTypes DEF LogAssumption
  <1>3. CASE ~MoreToRead(q)
    <2>1. PICK r : r = [q EXCEPT !.at = "file"]
      OBVIOUS
    <2>2. request' = r
      BY <1>3, <2>1 DEF ReadChunk
    <2>3. /\ r \in PollRequests /\ r.at = "file" /\ r.left = q.left /\ r.day = q.day
          /\ r.items = q.items /\ r.last = q.last
      BY <2>1 DEF PollRequests
    <2>4. FileHolds(r)
      <3>1. AllBefore(r.items, r.last)
        BY <1>1, <2>3 DEF ChunkHolds
      <3>2. \A i \in 1 .. Len(r.items) : r.items[i][1] <= q.day
        <4>1. PICK p \in Places : p = <<q.day, q.start>>
          BY PollTypes
        <4>2. AllBefore(q.items, p) /\ p[1] <= q.day
          BY <1>1, <1>2, <4>1 DEF ChunkHolds
        <4> QED BY <1>2, <2>3, <4>2, ItemDays
      <3>3. \A e \in r.left : q.day < e /\ e \in Nat
        BY <1>1, <1>2, <2>3 DEF ChunkHolds, CopyHolds
      <3>4. \A i \in 1 .. Len(r.items) : r.items[i][1] \in Nat
        BY <1>2, <2>3, ItemNumbers
      <3>5. ASSUME NEW i \in 1 .. Len(r.items), NEW d \in r.left PROVE r.items[i][1] < d
        <4>1. r.items[i][1] <= q.day /\ r.items[i][1] \in Nat /\ q.day < d /\ d \in Nat
          BY <3>2, <3>3, <3>4
        <4> QED BY <1>2, <4>1
      <3> QED BY <3>1, <3>5 DEF FileHolds
    <2>5. PollFits(r)
      BY <2>3, <2>4 DEF PollFits
    <2> QED BY <1>1, <2>2, <2>3, <2>5, PollStep
  <1>4. CASE MoreToRead(q)
    <2>1. PICK n : n = Min({Chunk, Len(q.data) - q.start, ScanBytes - q.scanned})
      OBVIOUS
    <2>2. Len(q.data) - q.start \in Nat /\ ScanBytes - q.scanned \in Nat
      BY <1>1, <1>2 DEF ChunkHolds
    <2>3. n \in Nat /\ n <= Len(q.data) - q.start /\ n <= ScanBytes - q.scanned
      BY <1>2, <2>1, <2>2, MinOfThree
    <2>4. PICK r : r = [q EXCEPT !.at = "lines", !.next = q.start,
                               !.end = q.start + n, !.scanned = q.scanned + n]
      OBVIOUS
    <2>5. request' = r
      BY <1>4, <2>1, <2>4 DEF ReadChunk
    <2>6. q.start + n \in Nat /\ q.scanned + n \in 0 .. ScanBytes /\ q.start <= q.start + n
            /\ q.start + n <= Len(q.data)
      <3> PICK a, c, l : a = q.start /\ c = q.scanned /\ l = Len(q.data)
        OBVIOUS
      <3>1. /\ a \in Nat /\ c \in Nat /\ l \in Nat /\ n \in Nat /\ ScanBytes \in Nat
            /\ n <= l - a /\ n <= ScanBytes - c
        BY <1>2, <2>3
      <3>2. a + n \in Nat /\ a <= a + n /\ a + n <= l
        BY <3>1
      <3>3. c + n \in Nat /\ c + n <= ScanBytes
        BY <3>1
      <3>4. c + n \in 0 .. ScanBytes
        BY <3>1, <3>3
      <3> QED BY <3>2, <3>4
    <2>7. /\ r \in PollRequests /\ r.at = "lines" /\ r.left = q.left /\ r.day = q.day
          /\ r.items = q.items /\ r.last = q.last /\ r.data = q.data /\ r.start = q.start
          /\ r.next = q.start /\ r.end = q.start + n
      BY <1>2, <2>4, <2>6 DEF PollRequests
    <2>8. CopyHolds(r)
      BY <1>1, <2>7 DEF ChunkHolds, CopyHolds
    <2>9. LinesHold(r)
      BY <1>1, <1>2, <2>6, <2>7, <2>8 DEF ChunkHolds, LinesHold
    <2>10. PollFits(r)
      BY <2>7, <2>9 DEF PollFits
    <2> QED BY <1>1, <2>5, <2>7, <2>10, PollStep
  <1> QED BY <1>3, <1>4

LEMMA Grown ==
  ASSUME NEW S, NEW s \in Seq(S), NEW x \in S
  PROVE  /\ Append(s, x) \in Seq(S) /\ Len(Append(s, x)) = Len(s) + 1
         /\ \A i \in 1 .. Len(s) : Append(s, x)[i] = s[i]
         /\ Append(s, x)[Len(s) + 1] = x
         /\ \A i \in 1 .. Len(s) + 1 : i \in 1 .. Len(s) \/ i = Len(s) + 1
  OBVIOUS

LEMMA LinesAreTaken ==
  ASSUME LogAssumption, LogInv, TakeLine
  PROVE  LogInv'
  <1> PICK q \in PollRequests : q = request /\ PollFits(q)
    BY PollUnfolds DEF TakeLine
  <1>1. UNCHANGED <<logs, today, after, before, shown, first>> /\ q.at = "lines" /\ LinesHold(q)
    BY DEF TakeLine, PollFits
  <1>2. /\ q.items \in Seq(Days \X Nat) /\ q.last \in Places /\ Len(q.items) \in Nat
        /\ q.day \in Nat /\ q.day \in Days /\ q.start \in Nat /\ q.next \in Nat /\ q.end \in Nat
        /\ q.data \in Seq(BOOLEAN) /\ Len(q.data) \in Nat
        /\ q.bytes \in 0 .. MaxPayload /\ MaxPayload \in Nat
    BY PollTypes DEF LogAssumption
  <1>3. PICK e :
          /\ e \in q.next + 1 .. q.end /\ Takes(q, e)
          /\ request' = [q EXCEPT !.items = Append(@, <<q.day, q.next>>),
                                  !.bytes = @ + (e - q.next - 1), !.next = e]
    BY DEF TakeLine
  <1>4. PICK x, items, b, r :
          /\ x = <<q.day, q.next>> /\ items = Append(q.items, x) /\ b = q.bytes + (e - q.next - 1)
          /\ r = [q EXCEPT !.items = items, !.bytes = b, !.next = e]
    OBVIOUS
  <1>5. request' = r
    BY <1>3, <1>4
  <1>6. /\ e \in Nat /\ q.next < e /\ e <= q.end /\ e <= Len(q.data) /\ q.data[e]
        /\ EndsIn(q.data, q.next, e - 1) = {}
    <2>1. e \in Nat /\ q.next < e /\ e <= q.end
      BY <1>2, <1>3
    <2>2. q.end <= Len(q.data)
      BY <1>1 DEF LinesHold
    <2>3. q.data[e] /\ EndsIn(q.data, q.next, e - 1) = {}
      BY <1>3 DEF Takes
    <2> QED BY <1>2, <2>1, <2>2, <2>3
  <1>7. b \in 0 .. MaxPayload
    <2>1. b = q.bytes + (e - q.next - 1) /\ b <= MaxPayload
      BY <1>3, <1>4 DEF Takes
    <2>2. q.bytes \in Nat /\ MaxPayload \in Nat
      BY <1>2
    <2>3. e - q.next - 1 \in Nat
      BY <1>2, <1>6
    <2>4. b \in Nat
      BY <2>1, <2>2, <2>3
    <2> QED BY <2>1, <2>2, <2>4
  <1>8. /\ x \in Days \X Nat /\ x[1] = q.day /\ x[2] = q.next
        /\ items \in Seq(Days \X Nat) /\ Len(items) = Len(q.items) + 1
        /\ \A i \in 1 .. Len(q.items) : items[i] = q.items[i]
        /\ items[Len(q.items) + 1] = x
        /\ \A i \in 1 .. Len(items) : i \in 1 .. Len(q.items) \/ i = Len(q.items) + 1
    <2>1. x \in Days \X Nat /\ x[1] = q.day /\ x[2] = q.next /\ items = Append(q.items, x)
      BY <1>2, <1>4
    <2>2. q.items \in Seq(Days \X Nat)
      BY <1>2
    <2>3. /\ items \in Seq(Days \X Nat) /\ Len(items) = Len(q.items) + 1
          /\ \A i \in 1 .. Len(q.items) : items[i] = q.items[i]
          /\ items[Len(q.items) + 1] = x
          /\ \A i \in 1 .. Len(q.items) + 1 : i \in 1 .. Len(q.items) \/ i = Len(q.items) + 1
      <3> PICK S : S = Days \X Nat
        OBVIOUS
      <3>1. x \in S /\ q.items \in Seq(S)
        BY <2>1, <2>2
      <3>2. /\ items \in Seq(S) /\ Len(items) = Len(q.items) + 1
            /\ \A i \in 1 .. Len(q.items) : items[i] = q.items[i]
            /\ items[Len(q.items) + 1] = x
            /\ \A i \in 1 .. Len(q.items) + 1 : i \in 1 .. Len(q.items) \/ i = Len(q.items) + 1
        BY <2>1, <3>1, Grown
      <3> QED BY <3>2
    <2> QED BY <2>1, <2>3
  <1>9. /\ r \in PollRequests /\ r.at = "lines" /\ r.left = q.left /\ r.day = q.day
        /\ r.items = items /\ r.last = q.last /\ r.data = q.data /\ r.start = q.start
        /\ r.next = e /\ r.end = q.end
    BY <1>1, <1>4, <1>6, <1>7, <1>8 DEF PollRequests
  <1>10. Ready
    BY DEF Ready, LogInv
  \* As long as there is the file, its lines are those of the copy.
  <1>11. ASSUME q.day \in Files
         PROVE  /\ q.next \in LinesOf(q.day) /\ e <= Len(logs[q.day]) /\ logs[q.day][e]
                /\ \A s \in LinesOf(q.day) : s < e => s <= q.next
    <2>1. /\ Len(q.data) <= Len(logs[q.day]) /\ \A i \in 1 .. Len(q.data) : logs[q.day][i] = q.data[i]
          /\ Len(logs[q.day]) \in Nat
      BY <1>1, <1>10, <1>11, DayTypes DEF LinesHold, CopyHolds
    <2>2. e <= Len(logs[q.day]) /\ logs[q.day][e] /\ e \in q.next + 1 .. Len(logs[q.day])
      <3>1. e \in 1 .. Len(q.data) /\ e <= Len(logs[q.day])
        BY <1>2, <1>6, <2>1
      <3>2. logs[q.day][e] = q.data[e]
        BY <2>1, <3>1
      <3> QED BY <1>2, <1>6, <2>1, <3>1, <3>2
    <2>3. atBoundary(logs[q.day], q.next)
      <3>1. ASSUME q.next > 0 PROVE logs[q.day][q.next]
        <4>1. q.next \in 1 .. Len(q.data)
          BY <1>2, <1>6, <3>1
        <4>2. q.data[q.next]
          BY <1>1, <3>1 DEF LinesHold, atBoundary
        <4> QED BY <2>1, <4>1, <4>2
      <3> QED BY <3>1 DEF atBoundary
    <2>4. q.next \in LinesOf(q.day)
      <3>1. e \in EndsIn(logs[q.day], q.next, Len(logs[q.day]))
        BY <2>2 DEF EndsIn
      <3>2. q.next \in 0 .. Len(logs[q.day]) - 1
        BY <1>2, <1>6, <2>1, <2>2
      <3> QED BY <2>3, <3>1, <3>2 DEF LinesOf
    <2>5. ASSUME NEW s \in LinesOf(q.day), s < e, q.next < s PROVE FALSE
      <3>1. s \in Nat /\ atBoundary(logs[q.day], s)
        BY DEF LinesOf
      <3>2. s \in 1 .. Len(q.data) /\ logs[q.day][s]
        BY <1>2, <1>6, <2>5, <3>1 DEF atBoundary
      <3>3. q.data[s]
        BY <2>1, <3>2
      <3>4. s \in q.next + 1 .. e - 1
        BY <1>2, <1>6, <2>5, <3>1
      <3> QED BY <1>6, <3>3, <3>4 DEF EndsIn
    <2>6. \A s \in LinesOf(q.day) : s \in Nat
      BY DEF LinesOf
    <2> QED BY <1>2, <2>2, <2>4, <2>5, <2>6
  <1>12. CopyHolds(r)
    BY <1>1, <1>9 DEF LinesHold, CopyHolds
  <1>13. AllBefore(items, <<q.day, e>>)
    <2>1. ASSUME NEW i \in 1 .. Len(q.items) PROVE Earlier(q.items[i], <<q.day, e>>)
      <3>1. Earlier(q.items[i], <<q.day, q.next>>)
        BY <1>1 DEF LinesHold, AllBefore
      <3> QED BY <1>2, <1>6, <3>1, ItemNumbers DEF Earlier
    <2>2. Earlier(x, <<q.day, e>>)
      BY <1>6, <1>8 DEF Earlier
    <2> QED BY <1>8, <2>1, <2>2 DEF AllBefore
  <1>14. ItemsHold(items)
    <2>1. \A i, j \in 1 .. Len(items) : i < j => Earlier(items[i], items[j])
      <3>1. \A i \in 1 .. Len(q.items) : Earlier(q.items[i], x)
        BY <1>1, <1>4 DEF LinesHold, AllBefore
      <3>2. \A i, j \in 1 .. Len(q.items) : i < j => Earlier(q.items[i], q.items[j])
        BY DEF PollFits, ItemsHold
      <3>3. ASSUME NEW i \in 1 .. Len(items), NEW j \in 1 .. Len(items), i < j
            PROVE  Earlier(items[i], items[j])
        <4>1. i \in 1 .. Len(q.items)
          BY <1>2, <1>8, <3>3
        <4>2. CASE j \in 1 .. Len(q.items)
          BY <1>8, <3>2, <3>3, <4>1, <4>2
        <4>3. CASE j = Len(q.items) + 1
          BY <1>8, <3>1, <4>1, <4>3
        <4> QED BY <1>8, <4>2, <4>3
      <3> QED BY <3>3
    <2>2. ~Earlier(x, after)
      <3>1. ~Earlier(<<q.day, q.start>>, after) /\ q.start <= q.next
        BY <1>1 DEF LinesHold
      <3>2. after[1] \in Nat /\ after[2] \in Nat
        BY DEF LogInv, LogTypeOK, Places
      <3>3. ~(q.day < after[1] \/ (q.day = after[1] /\ q.start < after[2]))
        BY <3>1 DEF Earlier
      <3>4. q.day \in Nat /\ q.start \in Nat /\ q.next \in Nat
        BY <1>2
      <3>5. ~(q.day < after[1] \/ (q.day = after[1] /\ q.next < after[2]))
        BY <3>1, <3>2, <3>3, <3>4
      <3>6. x[1] = q.day /\ x[2] = q.next
        BY <1>8
      <3> QED BY <3>5, <3>6 DEF Earlier
    <2>3. \A i \in 1 .. Len(q.items) :
            /\ ~Earlier(q.items[i], after)
            /\ q.items[i][1] \in Files => q.items[i][2] \in LinesOf(q.items[i][1])
      BY DEF PollFits, ItemsHold
    <2>4. x[1] \in Files => x[2] \in LinesOf(x[1])
      BY <1>8, <1>11
    <2>5. ASSUME NEW i \in 1 .. Len(items)
          PROVE  /\ ~Earlier(items[i], after)
                 /\ items[i][1] \in Files => items[i][2] \in LinesOf(items[i][1])
      <3>1. CASE i \in 1 .. Len(q.items)
        BY <1>8, <2>3, <3>1
      <3>2. CASE i = Len(q.items) + 1
        BY <1>8, <2>2, <2>4, <3>2
      <3> QED BY <1>8, <3>1, <3>2
    <2> QED BY <2>1, <2>5 DEF ItemsHold
  <1>15. \A p : AllUpTo(p, q.items) => AllUpTo(p, items)
    <2>1. \A i \in 1 .. Len(q.items) : i \in 1 .. Len(items)
      BY <1>2, <1>8
    <2>2. ASSUME NEW p, NEW i \in 1 .. Len(q.items), q.items[i] = p
          PROVE  \E j \in 1 .. Len(items) : items[j] = p
      <3>1. i \in 1 .. Len(items) /\ items[i] = p
        BY <1>8, <2>1, <2>2
      <3> QED BY <3>1
    <2> QED BY <2>2 DEF AllUpTo
  <1>16. PlaceHolds(q.last, items)
    BY <1>15 DEF PollFits, PlaceHolds
  <1>17. AllUpTo(<<q.day, e>>, items)
    <2>1. ASSUME q.day \in Files, NEW s \in LinesOf(q.day), ~Earlier(<<q.day, s>>, after), s < e
          PROVE  \E i \in 1 .. Len(items) : items[i] = <<q.day, s>>
      <3>1. s \in Nat
        BY DEF LinesOf
      <3>2. s <= q.next
        BY <1>11, <2>1
      <3>3. CASE s = q.next
        <4>1. Len(q.items) + 1 \in 1 .. Len(items)
          BY <1>2, <1>8
        <4> QED BY <1>8, <3>3, <4>1
      <3>4. CASE s < q.next
        <4>1. AllUpTo(<<q.day, q.next>>, items)
          BY <1>1, <1>15 DEF LinesHold, PlaceHolds
        <4>2. \A t \in LinesOf(q.day) : ~Earlier(<<q.day, t>>, after) /\ t < q.next
                => \E i \in 1 .. Len(items) : items[i] = <<q.day, t>>
          BY <2>1, <4>1 DEF AllUpTo
        <4> QED BY <2>1, <3>4, <4>2
      <3>5. s = q.next \/ s < q.next
        BY <1>2, <3>1, <3>2
      <3> QED BY <3>3, <3>4, <3>5
    <2> QED BY <2>1 DEF AllUpTo
  <1>18. PlaceHolds(<<q.day, e>>, items)
    <2>1. q.day <= today
      BY DEF PollFits
    <2>2. AtLine(<<q.day, e>>)
      BY <1>11 DEF AtLine, atBoundary
    <2> QED BY <2>1, <2>2, <1>17 DEF PlaceHolds
  <1>19. LinesHold(r)
    <2>1. q.start <= e /\ atBoundary(q.data, e)
      BY <1>1, <1>2, <1>6 DEF LinesHold, atBoundary
    <2> QED BY <1>1, <1>6, <1>9, <1>12, <1>13, <1>18, <2>1 DEF LinesHold
  <1>20. PollFits(r)
    BY <1>9, <1>14, <1>16, <1>19 DEF PollFits
  <1> QED BY <1>1, <1>5, <1>9, <1>20, PollStep

LEMMA ChunksAreLeft ==
  ASSUME LogAssumption, LogInv, LeaveChunk
  PROVE  LogInv'
  <1> PICK q \in PollRequests : q = request /\ PollFits(q)
    BY PollUnfolds DEF LeaveChunk
  <1>1. UNCHANGED <<logs, today, after, before, shown, first>> /\ q.at = "lines" /\ LinesHold(q)
    BY DEF LeaveChunk, PollFits
  <1>2. /\ q.items \in Seq(Days \X Nat) /\ q.last \in Places /\ q.left \subseteq Nat
        /\ q.day \in Nat /\ q.day \in Days /\ q.start \in Nat /\ q.next \in Nat /\ q.end \in Nat
        /\ Len(q.data) \in Nat
    BY PollTypes
  <1>3. PICK at \in {"file", "chunk"} :
          request' = [q EXCEPT !.at = at, !.start = q.next, !.last = <<q.day, q.next>>]
    BY DEF LeaveChunk, Consumed
  <1>4. PICK p \in Places : p = <<q.day, q.next>>
    BY PollTypes
  <1>5. PICK r : r = [q EXCEPT !.at = at, !.start = q.next, !.last = p]
    OBVIOUS
  <1>6. /\ r \in PollRequests /\ r.at = at /\ r.left = q.left /\ r.day = q.day
        /\ r.items = q.items /\ r.last = p /\ r.data = q.data /\ r.start = q.next
    BY <1>2, <1>4, <1>5 DEF PollRequests
  <1>7. request' = r
    BY <1>3, <1>4, <1>5
  <1>8. p[1] = q.day /\ p[2] = q.next /\ AllBefore(q.items, p) /\ PlaceHolds(p, q.items)
    BY <1>1, <1>4 DEF LinesHold
  <1>9. CopyHolds(r)
    BY <1>1, <1>6 DEF LinesHold, CopyHolds
  <1>10. FileHolds(r)
    <2>1. \A i \in 1 .. Len(q.items) : q.items[i][1] <= q.day /\ q.items[i][1] \in Nat
      <3>1. \A i \in 1 .. Len(q.items) : q.items[i][1] <= q.day
        <4>1. p[1] <= q.day
          BY <1>2, <1>8
        <4> QED BY <1>2, <1>8, <4>1, ItemDays
      <3>2. \A i \in 1 .. Len(q.items) : q.items[i][1] \in Nat
        BY <1>2, ItemNumbers
      <3> QED BY <3>1, <3>2
    <2>2. \A d \in q.left : q.day < d
      BY <1>1 DEF LinesHold, CopyHolds
    <2>3. ASSUME NEW i \in 1 .. Len(q.items), NEW d \in q.left PROVE q.items[i][1] < d
      <3>1. q.items[i][1] <= q.day /\ q.items[i][1] \in Nat /\ q.day < d
        BY <2>1, <2>2
      <3>2. q.day \in Nat /\ d \in Nat
        BY <1>2
      <3> QED BY <3>1, <3>2
    <2> QED BY <1>6, <1>8, <2>3 DEF FileHolds
  <1>11. ChunkHolds(r)
    <2>1. q.next <= Len(q.data) /\ atBoundary(q.data, q.next)
      BY <1>1, <1>2 DEF LinesHold
    <2>2. ~Earlier(<<q.day, q.next>>, after)
      <3>1. ~Earlier(<<q.day, q.start>>, after) /\ q.start <= q.next
        BY <1>1 DEF LinesHold
      <3>2. after[1] \in Nat /\ after[2] \in Nat
        BY DEF LogInv, LogTypeOK, Places
      <3> QED BY <1>2, <3>1, <3>2 DEF Earlier
    <2> QED BY <1>4, <1>6, <1>8, <1>9, <2>1, <2>2 DEF ChunkHolds
  <1>12. PollFits(r)
    BY <1>6, <1>8, <1>10, <1>11 DEF PollFits
  <1> QED BY <1>1, <1>6, <1>7, <1>12, PollStep

LEMMA PollsEnd ==
  ASSUME LogAssumption, LogInv, EndPoll
  PROVE  LogInv' /\ AnswerIsExact
  <1> PICK q \in PollRequests : q = request /\ PollFits(q)
    BY PollUnfolds DEF EndPoll
  <1>1. /\ UNCHANGED <<logs, today, before, first>> /\ q.at = "file" /\ FileHolds(q)
        /\ shown' = shown \cup ToSet(q.items) /\ after' = q.last /\ request' = NoRequest
    BY DEF EndPoll, PollFits
  <1>2. q.items \in Seq(Days \X Nat) /\ q.last \in Places /\ Len(q.items) \in Nat
    BY PollTypes
  <1>3. ItemsHold(q.items) /\ PlaceHolds(q.last, q.items)
    BY DEF PollFits
  <1>4. AnswerIsExact
    BY <1>1, <1>3 DEF AnswerIsExact, ItemsHold, FileHolds, AllBefore, PlaceHolds, AllUpTo
  <1>5. ToSet(q.items) \subseteq Days \X Nat
    BY <1>2, ElementOfSeq, LenProperties DEF ToSet
  <1>6. LogTypeOK'
    BY <1>1, <1>2, <1>5 DEF LogInv, LogTypeOK, Files
  <1>7. DaysHold'
    BY <1>1, <1>3 DEF LogInv, DaysHold, Files, PlaceHolds
  <1>8. CursorHolds'
    BY <1>1, <1>3 DEF CursorHolds, Files, PlaceHolds, AtLine
  <1>9. PollHolds'
    BY <1>1, OtherRequests DEF PollHolds
  <1> QED BY <1>4, <1>6, <1>7, <1>8, <1>9 DEF LogInv

------------------------------------------------------------------------------
(* The theorems *)

LEMMA LogStarts ==
  ASSUME LogAssumption, LogInit
  PROVE  LogInv
  <1>1. /\ Files = {1} /\ logs[1] = <<>> /\ today = 1 /\ after = <<0, 0>> /\ before = <<0, 0>>
        /\ first = <<0, 0>> /\ shown = {} /\ request = NoRequest /\ logs = [d \in {1} |-> <<>>]
    BY DEF LogInit, Files, NoCursor
  <1>2. LogTypeOK
    <2>1. <<>> \in Seq(BOOLEAN) /\ Len(<<>>) = 0
      OBVIOUS
    <2>2. MaxBytes \in Nat /\ 1 \in Days /\ <<0, 0>> \in Places
      BY DEF LogAssumption, Days, Places
    <2>3. logs \in [Files -> Seq(BOOLEAN)] /\ \A d \in Files : Len(logs[d]) <= MaxBytes
      BY <1>1, <2>1, <2>2
    <2> QED BY <1>1, <2>2, <2>3 DEF LogTypeOK
  <1>3. DaysHold /\ CursorHolds
    BY <1>1 DEF DaysHold, CursorHolds
  <1>4. PollHolds
    BY <1>1, OtherRequests DEF PollHolds
  <1> QED BY <1>2, <1>3, <1>4 DEF LogInv

LEMMA LogSteps ==
  ASSUME LogAssumption, LogInv, [LogNext]_logVars
  PROVE  LogInv'
  <1>1. CASE WriteLine \/ WriteHalf \/ NextDay \/ PurgeLog
    BY <1>1, WriterKeeps
  <1>2. CASE RestartLogs
    BY <1>2, RestartKeeps
  <1>3. CASE OpenPage
    BY <1>3, TailIsLoaded DEF OpenPage
  <1>4. CASE LoadEarlier \/ GatherFile \/ EndEarlier
    BY <1>4, EarlierKeeps
  <1>5. CASE BeginPoll
    BY <1>5, BeginKeeps
  <1>6. CASE OpenFile
    BY <1>6, FilesAreOpened
  <1>7. CASE ReadChunk
    BY <1>7, ChunksAreRead
  <1>8. CASE TakeLine
    BY <1>8, LinesAreTaken
  <1>9. CASE LeaveChunk
    BY <1>9, ChunksAreLeft
  <1>10. CASE EndPoll
    BY <1>10, PollsEnd
  <1>11. CASE AbortRequest
    BY <1>11, AbortKeeps DEF AbortRequest
  <1>12. CASE UNCHANGED logVars
    <2>1. UNCHANGED <<logs, today, after, before, shown, first>> /\ request' = request
      BY <1>12 DEF logVars
    <2>2. CASE request \in PollRequests
      BY <2>1, <2>2, PollStep DEF LogInv, PollHolds
    <2>3. CASE request \notin PollRequests
      <3>1. LogTypeOK'
        BY <2>1 DEF LogInv, LogTypeOK, Files
      <3> QED BY <2>1, <2>3, <3>1, NotAPoll
    <2> QED BY <2>2, <2>3
  <1> QED
    BY <1>1, <1>2, <1>3, <1>4, <1>5, <1>6, <1>7, <1>8, <1>9, <1>10, <1>11, <1>12 DEF LogNext

\* The invariant of the log page: every request that is served has taken all lines of
\* the file it reads, from the cursor on and up to where it is.
THEOREM LogPageInductive == LogSpec => []LogInv
  <1>1. LogInit => LogInv
    BY LogStarts, LogAssumption
  <1>2. LogInv /\ [LogNext]_logVars => LogInv'
    BY LogSteps, LogAssumption
  <1> QED BY <1>1, <1>2, PTL DEF LogSpec

\* Cursors, items and requests keep their types.
THEOREM LogPageTyped == LogSpec => []LogTypeOK
  <1>1. LogInv => LogTypeOK
    BY DEF LogInv
  <1> QED BY <1>1, LogPageInductive, PTL

\* Polling the log page answers with whole lines, in their order, none twice, and none
\* of the file where it ends left out; and it gives up its place only for a file that
\* was removed or for a line longer than a scan.
THEOREM PollsAreExact == LogSpec => PollIsExact
  <1> DEFINE Exact ==
        /\ EndPoll => AnswerIsExact
        /\ BeginPoll /\ request' = NoRequest => after[1] \notin Files \/ InLongLine(after)
  <1>1. LogInv /\ [LogNext]_logVars => [Exact]_logVars
    <2> SUFFICES ASSUME LogInv PROVE Exact
      OBVIOUS
    <2>1. EndPoll => AnswerIsExact
      BY PollsEnd, LogAssumption
    <2>2. ASSUME BeginPoll, request' = NoRequest, after[1] \in Files PROVE InLongLine(after)
      <3>1. ~ReadableRefs(after)
        BY <2>2 DEF BeginPoll, NoRequest
      <3>2. ~(after[2] <= Len(logs[after[1]]) /\ atBoundary(logs[after[1]], after[2]))
        BY <2>2, <3>1 DEF ReadableRefs
      <3> QED BY <2>2, <3>2 DEF LogInv, CursorHolds
    <2> QED BY <2>1, <2>2
  <1> QED BY <1>1, LogPageInductive, PTL DEF LogSpec, PollIsExact

-----------------------------------------------------------------------------
(****************************************************************************)
(* The works together: what is proved of one of them holds beside the       *)
(* others.                                                                  *)
(****************************************************************************)

\* A behaviour of the works is one of each of them.
LEMMA EachIsWork ==
  MCSpec => /\ SpritesSpec /\ UpgradeSpec /\ BackupSpec /\ EditsSpec
            /\ MarksSpec /\ LogSpec /\ PosterSpec /\ WebhooksSpec
  <1>1. MCInit => /\ SpritesInit /\ UpgradeInit /\ BackupInit /\ EditsInit
                  /\ MarksInit /\ LogInit /\ PosterInit /\ WebhooksInit
    BY DEF MCInit
  <1>2. ASSUME [MCNext]_allVars
        PROVE  /\ [SpritesNext]_spriteVars /\ [UpgradeNext]_upgradeVars
               /\ [BackupNext]_backupVars /\ [EditsNext]_editVars
               /\ [MarksNext]_markVars /\ [LogNext]_logVars
               /\ [PosterNext]_posterVars /\ [WebhooksNext]_hookVars
    <2>1. CASE UNCHANGED allVars
      BY <2>1, Zenon DEF allVars
    <2>2. CASE MCNext
      BY <2>2 DEF MCNext
    <2> QED BY <1>2, <2>1, <2>2
  <1>3. [MCNext]_allVars =>
          /\ [SpritesNext]_spriteVars /\ [UpgradeNext]_upgradeVars
          /\ [BackupNext]_backupVars /\ [EditsNext]_editVars
          /\ [MarksNext]_markVars /\ [LogNext]_logVars
          /\ [PosterNext]_posterVars /\ [WebhooksNext]_hookVars
    BY <1>2
  <1> QED BY <1>1, <1>3, PTL DEF MCSpec, SpritesSpec, UpgradeSpec, BackupSpec, EditsSpec,
                                 MarksSpec, LogSpec, PosterSpec, WebhooksSpec

\* Every variable of the works keeps its type, whichever of them is done.
THEOREM WorksTypeCorrect == MCSpec => []WorksTypeOK
  BY EachIsWork, SpritesTypeCorrect, UpgradeTypeCorrect, BackupTypeCorrect, EditsTypeCorrect,
     MarksTypeCorrect, LogPageTyped, PostersTypeCorrect, WebhooksTypeCorrect, PTL DEF WorksTypeOK
=============================================================================
