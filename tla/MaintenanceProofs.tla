------------------------- MODULE MaintenanceProofs -------------------------
(***************************************************************************)
(* Proofs about Maintenance, for any finite set of slots and any kinds.    *)
(*                                                                         *)
(* The inductive invariant is layered.  Shape says which kinds a control   *)
(* point belongs to.  On top of it every step either leaves the lane       *)
(* alone, takes it or gives it back (LaneStep), and likewise for the       *)
(* Running flags (StatusStep) and the registrations (HostStep); each of    *)
(* the three layers is then preserved for reasons that no longer mention   *)
(* the individual actions.                                                 *)
(***************************************************************************)
EXTENDS Maintenance, FiniteSetTheorems, TLAPS

\* The kinds a control point belongs to.
Shape ==
  \A j \in Jobs :
    /\ pc[j] = "idle" <=> kind[j] = "none"
    /\ pc[j] = "idle" <=> host[j] = "none"
    /\ pc[j] \in {"checked", "claiming", "closing"} => kind[j] \in ScrapeKinds
    /\ pc[j] \in {"rescan", "rescanning", "rescan_unflagged"} => kind[j] = "scrape"
    /\ pc[j] = "unflagged" => kind[j] \in {"scan", "probe"}
    /\ saved[j] # "none" => kind[j] = "scrape"

TypeShape == Typed /\ Shape

-----------------------------------------------------------------------------
(* Types and shape *)

\* The initial state is well typed.
LEMMA InitTypeShape == Init => TypeShape
<1> SUFFICES ASSUME Init PROVE TypeShape
    OBVIOUS
<1>1. Typed
  <2>1. nfoRefs \in Nat /\ workers \in Int
    BY DEF Init
  <2>2. /\ running \in [Statuses -> BOOLEAN]
        /\ pc \in [Jobs -> PCs] /\ phase \in Phases
    BY DEF Init, PCs, Phases
  <2>3. /\ kind \in [Jobs -> AllKinds \cup {"none"}] /\ host \in [Jobs -> Hosts \cup {"none"}]
        /\ saved \in [Jobs -> SaveStates]
        /\ nfoOwner \in Lanes \cup {Free}
    BY DEF Init, SaveStates
  <2> QED BY <2>1, <2>2, <2>3 DEF Init, Typed
<1>2. Shape
  BY DEF Init, Shape
<1> QED BY <1>1, <1>2 DEF TypeShape

\* Every step keeps the types and the shape.
LEMMA NextTypeShape == TypeShape /\ [Next]_vars => TypeShape'
<1> SUFFICES ASSUME TypeShape, [Next]_vars PROVE TypeShape'
    OBVIOUS
<1> USE JobsAssumption DEF TypeShape, Typed, Shape, At, Goto, laneVars, scrapeVars, taskVars, jobVars,
        mainVars, mainOnly, PCs, ScrapeKinds, Claimable, ClaimNFO, ReleaseNFO
<1> DEFINE LaneType == nfoOwner \in Lanes \cup {Free} /\ nfoRefs \in Nat
<1>0. \A k \in AllKinds : LaneOf(k) \in Lanes
    BY DEF Lanes
<1>1. \A k \in {"scan"} \cup FlagKinds \cup ScrapeKinds : k \in AllKinds /\ LaneOf(k) = k
    BY DEF FlagKinds, AllKinds, LaneOf
<1>2. ItemKinds \cup FusedKinds \cup {"scan", "probe"} \subseteq AllKinds
    BY DEF ItemKinds, FusedKinds, AllKinds
<1>3. FlagKinds \cup FusedKinds \cup {"scan", "probe", "scrape"} \subseteq Statuses
    BY DEF FlagKinds, FusedKinds, Statuses
<1>4. ASSUME NEW j \in Jobs, NEW k \in Kinds, NEW h \in HostsOf(k), Enter(j, k, h)
      PROVE  TypeShape'
  <2>1. k \in AllKinds /\ k # "none" /\ h \in Hosts /\ h # "none"
    BY <1>4 DEF HostsOf, Hosts, AllKinds, Enter
  <2> QED BY <1>4, <2>1 DEF Enter
<1>5. ASSUME NEW j \in Jobs, Begin(j) PROVE TypeShape'
  <2>1. CASE BeginScan(j)
    BY <2>1, <1>0, <1>1, <1>3 DEF BeginScan
  <2>2. CASE BeginFlagged(j)
    <3>1. kind[j] \in AllKinds /\ kind[j] \in Lanes /\ kind[j] \in Statuses
      BY <2>2, <1>0, <1>1, <1>3 DEF BeginFlagged
    <3> QED BY <2>2, <3>1 DEF BeginFlagged
  <2>3. CASE BeginItem(j)
    BY <2>3, <1>0, <1>2 DEF BeginItem
  <2>4. CASE CheckLane(j)
    BY <2>4 DEF CheckLane
  <2>5. CASE BeginScrape(j)
    BY <2>5, <1>3 DEF BeginScrape
  <2>6. CASE ClaimForScrape(j)
    BY <2>6, <1>0, <1>1 DEF ClaimForScrape
  <2>7. CASE Refused(j)
    BY <2>7 DEF Refused
  <2>8. CASE NothingToDo(j)
    BY <2>8 DEF NothingToDo
  <2> QED BY <1>5, <2>1, <2>2, <2>3, <2>4, <2>5, <2>6, <2>7, <2>8 DEF Begin
<1>6. CASE (\E j \in Jobs : SaveNFO(j)) \/ CancelScrape
  <2>1. ASSUME NEW j \in Jobs, SaveNFO(j) PROVE TypeShape'
    BY <2>1 DEF SaveNFO, SaveStates
  <2>2. CASE CancelScrape
    BY <2>2 DEF CancelScrape
  <2> QED BY <1>6, <2>1, <2>2
<1>7. ASSUME NEW j \in Jobs, Finish(j) PROVE TypeShape'
  <2>1. CASE LowerFlag(j)
    BY <2>1, <1>3 DEF LowerFlag
  <2>2. CASE ReleaseAfterFlag(j)
    BY <2>2 DEF ReleaseAfterFlag
  <2>3. CASE EndFused(j)
    BY <2>3, <1>3 DEF EndFused
  <2>4. CASE EndItem(j)
    BY <2>4 DEF EndItem
  <2>5. CASE EndWriting(j)
    BY <2>5 DEF EndWriting
  <2>6. CASE BeginRescan(j)
    BY <2>6, <1>0, <1>1, <1>3 DEF BeginRescan
  <2>7. CASE RescanRefused(j)
    BY <2>7 DEF RescanRefused
  <2>8. CASE EndRescan(j)
    BY <2>8, <1>3 DEF EndRescan, SaveStates
  <2>9. CASE ReleaseRescan(j)
    BY <2>9 DEF ReleaseRescan
  <2>10. CASE EndScrape(j)
    BY <2>10, <1>3 DEF EndScrape
  <2>11. CASE Leave(j)
    BY <2>11 DEF Leave, SaveStates
  <2>12. CASE CountSaved(j)
    BY <2>12 DEF CountSaved, SaveStates
  <2> QED BY <1>7, <2>1, <2>2, <2>3, <2>4, <2>5, <2>6, <2>7, <2>8, <2>9, <2>10, <2>11, <2>12 DEF Finish
<1>8. CASE CloseGate
  BY <1>8 DEF CloseGate, Phases
<1>9. CASE Drain
  <2>1. CASE StopScheduler
    BY <2>1 DEF StopScheduler, Phases
  <2>2. CASE CancelRoot
    BY <2>2 DEF CancelRoot, Phases
  <2>3. CASE StopListening
    BY <2>3 DEF StopListening
  <2>4. CASE WorkersJoined
    BY <2>4 DEF WorkersJoined
  <2>5. CASE SchedulerJoined
    BY <2>5 DEF SchedulerJoined
  <2>6. CASE CloseDB
    BY <2>6 DEF CloseDB, Phases
  <2> QED BY <1>9, <2>1, <2>2, <2>3, <2>4, <2>5, <2>6 DEF Drain
<1>10. CASE BudgetExpires
  BY <1>10 DEF BudgetExpires, Phases
<1>11. CASE UNCHANGED vars
  BY <1>11 DEF vars
<1> QED BY <1>4, <1>5, <1>6, <1>7, <1>8, <1>9, <1>10, <1>11 DEF Next, Exited

-----------------------------------------------------------------------------
(* The lane *)

KeepLane ==
  /\ UNCHANGED laneVars
  /\ Holders' = Holders
  /\ \A k \in Holders : LaneAt(k)' = LaneAt(k)

TakeLane(j, lane) ==
  /\ j \notin Holders /\ Holders' = Holders \cup {j}
  /\ ClaimNFO(lane) /\ LaneAt(j)' = lane
  /\ \A k \in Holders : LaneAt(k)' = LaneAt(k)

GiveLane(j) ==
  /\ j \in Holders /\ Holders' = Holders \ {j}
  /\ ReleaseNFO(LaneAt(j))
  /\ \A k \in Holders' : LaneAt(k)' = LaneAt(k)

LaneStepOf(j) ==
  \/ KeepLane
  \/ \E lane \in Lanes : TakeLane(j, lane)
  \/ GiveLane(j)

\* Every step leaves the lane alone, takes it or gives it back.
LEMMA LaneStep ==
  TypeShape /\ [Next]_vars => KeepLane \/ \E j \in Jobs : LaneStepOf(j)
<1> SUFFICES ASSUME TypeShape, [Next]_vars
             PROVE  KeepLane \/ \E j \in Jobs : LaneStepOf(j)
    OBVIOUS
<1> USE DEF TypeShape, Typed, Shape, At, Goto, scrapeVars, taskVars, jobVars, mainVars, mainOnly
<1>1. ASSUME NEW j \in Jobs, NEW loc \in PCs,
             pc' = [pc EXCEPT ![j] = loc], UNCHANGED laneVars,
             \A k \in Jobs \ {j} : kind'[k] = kind[k],
             pc[j] \in Holding <=> loc \in Holding,
             loc \in Holding => kind'[j] = kind[j],
             pc[j] \in {"rescanning", "rescan_unflagged"} <=> loc \in {"rescanning", "rescan_unflagged"}
      PROVE  KeepLane
  BY <1>1 DEF KeepLane, Holders, LaneAt
<1>2. ASSUME NEW j \in Jobs, NEW loc \in Holding, NEW lane \in Lanes,
             pc' = [pc EXCEPT ![j] = loc], pc[j] \notin Holding, UNCHANGED kind,
             ClaimNFO(lane),
             lane = IF loc \in {"rescanning", "rescan_unflagged"} THEN "scan" ELSE LaneOf(kind[j])
      PROVE  LaneStepOf(j)
  <2>1. TakeLane(j, lane)
    BY <1>2 DEF TakeLane, Holders, LaneAt
  <2> QED BY <2>1 DEF LaneStepOf
<1>3. ASSUME NEW j \in Jobs, NEW loc \in PCs \ Holding,
             pc' = [pc EXCEPT ![j] = loc], pc[j] \in Holding, UNCHANGED kind,
             ReleaseNFO(LaneAt(j))
      PROVE  LaneStepOf(j)
  <2>1. GiveLane(j)
    BY <1>3 DEF GiveLane, Holders, LaneAt
  <2> QED BY <2>1 DEF LaneStepOf
<1>4. \A k \in {"scan"} \cup FlagKinds \cup FusedKinds \cup ScrapeKinds :
        k \in AllKinds /\ LaneOf(k) = k
  BY DEF FlagKinds, FusedKinds, ScrapeKinds, AllKinds, LaneOf
<1>5. \A k \in AllKinds : LaneOf(k) \in Lanes
  BY DEF Lanes
<1>6. ItemKinds \subseteq AllKinds
  BY DEF ItemKinds, AllKinds
<1>7. ASSUME UNCHANGED <<laneVars, pc, kind>> PROVE KeepLane
  BY <1>7 DEF KeepLane, Holders, LaneAt
<1>8. ASSUME NEW j \in Jobs, NEW k \in Kinds, NEW h \in HostsOf(k), Enter(j, k, h)
      PROVE  KeepLane
  BY <1>8, <1>1 DEF Enter, PCs, Holding
<1>9. ASSUME NEW j \in Jobs, Begin(j) PROVE KeepLane \/ LaneStepOf(j)
  <2>1. CASE BeginScan(j)
    BY <2>1, <1>2, <1>4, <1>5 DEF BeginScan, Holding
  <2>2. CASE BeginFlagged(j)
    <3>1. kind[j] \in Lanes /\ LaneOf(kind[j]) = kind[j]
      BY <2>2, <1>4, <1>5 DEF BeginFlagged
    <3> QED BY <2>2, <3>1, <1>2 DEF BeginFlagged, Holding
  <2>3. CASE BeginItem(j)
    <3>1. LaneOf(kind[j]) \in Lanes
      BY <2>3, <1>5, <1>6 DEF BeginItem
    <3> QED BY <2>3, <3>1, <1>2 DEF BeginItem, Holding
  <2>4. CASE CheckLane(j)
    BY <2>4, <1>1 DEF CheckLane, PCs, Holding
  <2>5. CASE BeginScrape(j)
    BY <2>5, <1>1 DEF BeginScrape, PCs, Holding
  <2>6. CASE ClaimForScrape(j)
    <3>1. kind[j] \in Lanes /\ LaneOf(kind[j]) = kind[j]
      BY <2>6, <1>4, <1>5 DEF ClaimForScrape
    <3>2. CASE ClaimNFO(kind[j]) /\ Goto(j, "writing")
      BY <2>6, <3>1, <3>2, <1>2 DEF ClaimForScrape, Holding
    <3>3. CASE ~Claimable(kind[j]) /\ Goto(j, "closing") /\ UNCHANGED laneVars
      BY <2>6, <3>3, <1>1 DEF ClaimForScrape, PCs, Holding
    <3> QED BY <2>6, <3>2, <3>3 DEF ClaimForScrape
  <2>7. CASE Refused(j)
    BY <2>7, <1>1 DEF Refused, PCs, Holding
  <2>8. CASE NothingToDo(j)
    BY <2>8, <1>1 DEF NothingToDo, PCs, Holding
  <2> QED BY <1>9, <2>1, <2>2, <2>3, <2>4, <2>5, <2>6, <2>7, <2>8 DEF Begin
<1>10. CASE (\E j \in Jobs : SaveNFO(j)) \/ CancelScrape
  BY <1>10, <1>7 DEF SaveNFO, CancelScrape
<1>11. ASSUME NEW j \in Jobs, Finish(j) PROVE KeepLane \/ LaneStepOf(j)
  <2>1. CASE LowerFlag(j)
    BY <2>1, <1>1 DEF LowerFlag, PCs, Holding
  <2>2. CASE ReleaseAfterFlag(j)
    <3>1. LaneAt(j) = kind[j]
      BY <2>2, <1>4 DEF ReleaseAfterFlag, LaneAt, FlagKinds
    <3> QED BY <2>2, <3>1, <1>3 DEF ReleaseAfterFlag, PCs, Holding
  <2>3. CASE EndFused(j)
    <3>1. LaneAt(j) = kind[j]
      BY <2>3, <1>4 DEF EndFused, LaneAt
    <3> QED BY <2>3, <3>1, <1>3 DEF EndFused, PCs, Holding
  <2>4. CASE EndItem(j)
    <3>1. LaneAt(j) = LaneOf(kind[j])
      BY <2>4 DEF EndItem, LaneAt
    <3> QED BY <2>4, <3>1, <1>3 DEF EndItem, PCs, Holding
  <2>5. CASE EndWriting(j)
    <3>1. pc[j] = "writing" /\ kind[j] \in ScrapeKinds
      BY <2>5 DEF EndWriting
    <3>2. LaneAt(j) = kind[j]
      BY <3>1, <1>4 DEF LaneAt
    <3>3. PICK loc \in {"rescan", "closing"} : Goto(j, loc)
      BY <2>5 DEF EndWriting
    <3>4. ReleaseNFO(LaneAt(j))
      BY <2>5, <3>2 DEF EndWriting
    <3> QED BY <3>1, <3>3, <3>4, <1>3 DEF PCs, Holding
  <2>6. CASE BeginRescan(j)
    <3>1. "scan" \in Lanes /\ "rescanning" \in Holding /\ pc[j] \notin Holding
      BY <2>6, <1>4, <1>5 DEF BeginRescan, Holding
    <3>2. ClaimNFO("scan") /\ UNCHANGED kind /\ pc' = [pc EXCEPT ![j] = "rescanning"]
      BY <2>6 DEF BeginRescan
    <3> QED BY <3>1, <3>2, <1>2
  <2>7. CASE RescanRefused(j)
    BY <2>7, <1>1 DEF RescanRefused, PCs, Holding
  <2>8. CASE EndRescan(j)
    BY <2>8, <1>1 DEF EndRescan, PCs, Holding
  <2>9. CASE ReleaseRescan(j)
    <3>1. LaneAt(j) = "scan"
      BY <2>9 DEF ReleaseRescan, LaneAt
    <3>2. "closing" \in PCs \ Holding /\ pc[j] \in Holding
      BY <2>9 DEF ReleaseRescan, PCs, Holding
    <3>3. ReleaseNFO(LaneAt(j)) /\ UNCHANGED kind /\ pc' = [pc EXCEPT ![j] = "closing"]
      BY <2>9, <3>1 DEF ReleaseRescan
    <3> QED BY <3>2, <3>3, <1>3
  <2>10. CASE EndScrape(j)
    BY <2>10, <1>1 DEF EndScrape, PCs, Holding
  <2>11. CASE Leave(j)
    BY <2>11, <1>1 DEF Leave, PCs, Holding
  <2>12. CASE CountSaved(j)
    BY <2>12, <1>7 DEF CountSaved
  <2> QED BY <1>11, <2>1, <2>2, <2>3, <2>4, <2>5, <2>6, <2>7, <2>8, <2>9, <2>10, <2>11, <2>12 DEF Finish
<1>12. CASE CloseGate \/ Drain \/ BudgetExpires \/ UNCHANGED vars
  <2>1. UNCHANGED <<laneVars, pc, kind>>
    BY <1>12 DEF CloseGate, Drain, BudgetExpires, StopScheduler, CancelRoot, StopListening,
       WorkersJoined, SchedulerJoined, CloseDB, vars
  <2> QED BY <2>1, <1>7
<1> QED BY <1>8, <1>9, <1>10, <1>11, <1>12 DEF Next, Exited

\* An exclusive name is held once.
ExclusiveHeldOnce == nfoOwner \in Exclusive => \A j, k \in Holders : j = k

LaneInv == LaneCounted /\ ExclusiveHeldOnce

LEMMA HoldersFinite == IsFiniteSet(Holders) /\ IsFiniteSet(Holders)'
<1>1. Holders \subseteq Jobs /\ Holders' \subseteq Jobs
  BY DEF Holders
<1> QED BY <1>1, FS_Subset, JobsAssumption

LEMMA FreeIsNoLane == Free \notin Lanes
<1>1. \A k \in AllKinds : LaneOf(k) # Free
  BY DEF LaneOf, Free, AllKinds
<1> QED BY <1>1 DEF Lanes

\* Taking the lane keeps the count and the owner's name right.
LEMMA TakeKeeps ==
  ASSUME NEW j \in Jobs, NEW lane \in Lanes, LaneInv, TakeLane(j, lane)
  PROVE  LaneInv'
<1> USE DEF LaneInv, LaneCounted, ExclusiveHeldOnce, TakeLane, ClaimNFO
<1>1. Cardinality(Holders') = Cardinality(Holders) + 1
  BY HoldersFinite, FS_AddElement
<1>2. nfoRefs' = Cardinality(Holders') /\ nfoOwner' = lane /\ lane # Free /\ Holders' # {}
  BY <1>1, FreeIsNoLane
<1>3. \A k \in Holders : LaneAt(k) = lane
  BY FreeIsNoLane DEF Claimable
<1>4. \A k \in Holders' : LaneAt(k)' = nfoOwner'
  BY <1>2, <1>3
<1>5. lane \in Exclusive => Holders = {}
  BY DEF Claimable
<1> QED BY <1>2, <1>4, <1>5

\* Giving it back frees it exactly when nobody is left.
LEMMA GiveKeeps ==
  ASSUME NEW j \in Jobs, LaneInv, GiveLane(j)
  PROVE  LaneInv' /\ nfoOwner' = IF Holders' = {} THEN Free ELSE nfoOwner
<1> USE DEF LaneInv, LaneCounted, ExclusiveHeldOnce, GiveLane
<1>1. nfoOwner = LaneAt(j) /\ nfoOwner # Free
  OBVIOUS
<1>2. Cardinality(Holders') = Cardinality(Holders) - 1 /\ Cardinality(Holders) \in Nat
  BY HoldersFinite, FS_RemoveElement, FS_CardinalityType
<1>3. Cardinality(Holders') \in Nat /\ (Cardinality(Holders') = 0 <=> Holders' = {})
  BY HoldersFinite, FS_CardinalityType, FS_EmptySet
<1>4. nfoRefs' = Cardinality(Holders')
  BY <1>1, <1>2, <1>3 DEF ReleaseNFO
<1>5. nfoOwner' = IF Holders' = {} THEN Free ELSE nfoOwner
  BY <1>1, <1>3, <1>4 DEF ReleaseNFO
<1>6. Holders' \subseteq Holders
  OBVIOUS
<1>7. \A k \in Holders' : LaneAt(k)' = nfoOwner'
  BY <1>5, <1>6
<1>8. Free \notin Exclusive
  BY DEF Free, Exclusive
<1> QED BY <1>1, <1>4, <1>5, <1>6, <1>7, <1>8

\* The lane invariant holds at first and is kept by every step.
LEMMA InitLaneInv == Init => LaneInv
<1> SUFFICES ASSUME Init PROVE LaneInv
    OBVIOUS
<1>1. Holders = {} /\ nfoRefs = 0 /\ nfoOwner = Free
  BY DEF Init, Holders, Holding
<1>2. Free \notin Exclusive
  BY DEF Free, Exclusive
<1> QED BY <1>1, <1>2, FS_EmptySet DEF LaneInv, LaneCounted, ExclusiveHeldOnce

LEMMA NextLaneInv == TypeShape /\ LaneInv /\ [Next]_vars => LaneInv'
<1> SUFFICES ASSUME TypeShape, LaneInv, [Next]_vars PROVE LaneInv'
    OBVIOUS
<1>1. CASE KeepLane
  BY <1>1 DEF KeepLane, LaneInv, LaneCounted, ExclusiveHeldOnce, laneVars
<1>2. ASSUME NEW j \in Jobs, NEW lane \in Lanes, TakeLane(j, lane) PROVE LaneInv'
  BY <1>2, TakeKeeps
<1>3. ASSUME NEW j \in Jobs, GiveLane(j) PROVE LaneInv'
  BY <1>3, GiveKeeps
<1> QED BY <1>1, <1>2, <1>3, LaneStep DEF LaneStepOf

\* Every step of the counted lane is a step of the lane with holders.
LEMMA LaneRefines == TypeShape /\ LaneInv /\ [Next]_vars => [Lane!LaneNext]_(Lane!laneVars)
<1> SUFFICES ASSUME TypeShape, LaneInv, [Next]_vars
             PROVE  [Lane!LaneNext]_(Lane!laneVars)
    OBVIOUS
<1>1. CASE KeepLane
  BY <1>1 DEF KeepLane, laneVars, Lane!laneVars
<1>2. ASSUME NEW j \in Jobs, NEW lane \in Lanes, TakeLane(j, lane)
      PROVE  Lane!LaneNext
  <2>1. lane \in Exclusive => Holders = {}
    BY <1>2 DEF TakeLane, ClaimNFO, Claimable, LaneInv, LaneCounted
  <2>2. Lane!Claim(j, lane)
    BY <1>2, <2>1 DEF TakeLane, ClaimNFO, Claimable, Lane!Claim
  <2> QED BY <2>2 DEF Lane!LaneNext
<1>3. ASSUME NEW j \in Jobs, GiveLane(j) PROVE Lane!LaneNext
  <2>1. Lane!Release(j)
    BY <1>3, GiveKeeps DEF GiveLane, Lane!Release
  <2> QED BY <2>1 DEF Lane!LaneNext
<1> QED BY <1>1, <1>2, <1>3, LaneStep DEF LaneStepOf

-----------------------------------------------------------------------------
(* The Running flags *)

KeepFlags ==
  UNCHANGED running /\ \A k \in Jobs : Raised(k)' = Raised(k)

RaiseFlag(j, s) ==
  /\ ~running[s] /\ running' = [running EXCEPT ![s] = TRUE]
  /\ Raised(j)' = Raised(j) \cup {s}
  /\ \A k \in Jobs \ {j} : Raised(k)' = Raised(k)

DropFlag(j, s) ==
  /\ s \in Raised(j) /\ running' = [running EXCEPT ![s] = FALSE]
  /\ Raised(j)' = Raised(j) \ {s}
  /\ \A k \in Jobs \ {j} : Raised(k)' = Raised(k)

FlagStepOf(j) == KeepFlags \/ \E s \in Statuses : RaiseFlag(j, s) \/ DropFlag(j, s)

\* Every step leaves the flags alone, raises one that was down or lowers one
\* that its task had raised.
LEMMA StatusStep ==
  TypeShape /\ [Next]_vars => KeepFlags \/ \E j \in Jobs : FlagStepOf(j)
<1> SUFFICES ASSUME TypeShape, [Next]_vars
             PROVE  KeepFlags \/ \E j \in Jobs : FlagStepOf(j)
    OBVIOUS
<1> USE DEF TypeShape, Typed, Shape, At, Goto, laneVars, scrapeVars, taskVars, jobVars, mainVars, mainOnly
<1>1. ASSUME NEW j \in Jobs, NEW loc \in PCs, pc' = [pc EXCEPT ![j] = loc],
             \A k \in Jobs \ {j} : kind'[k] = kind[k]
      PROVE  \A k \in Jobs \ {j} : Raised(k)' = Raised(k)
  BY <1>1 DEF Raised
<1>2. ASSUME NEW j \in Jobs, NEW loc \in PCs, pc' = [pc EXCEPT ![j] = loc],
             \A k \in Jobs \ {j} : kind'[k] = kind[k], UNCHANGED running,
             Raised(j)' = Raised(j)
      PROVE  KeepFlags
  BY <1>1, <1>2 DEF KeepFlags
<1>3. FlagKinds \cup FusedKinds \cup {"scan", "probe", "scrape"} \subseteq Statuses
  BY DEF FlagKinds, FusedKinds, Statuses
<1>4. \A k \in FlagKinds \cup FusedKinds \cup {"scan", "probe"} : k \notin ScrapeKinds /\ k # "scrape"
  BY DEF FlagKinds, FusedKinds, ScrapeKinds
<1>5. \A k \in ItemKinds : k \notin ScrapeKinds /\ k \notin Statuses
  BY DEF ItemKinds, ScrapeKinds, Statuses
<1>6. ASSUME UNCHANGED <<running, pc, kind>> PROVE KeepFlags
  BY <1>6 DEF KeepFlags, Raised
<1>7. ASSUME NEW j \in Jobs, NEW k \in Kinds, NEW h \in HostsOf(k), Enter(j, k, h)
      PROVE  KeepFlags
  <2>1. /\ UNCHANGED running /\ pc' = [pc EXCEPT ![j] = "admitted"]
        /\ \A i \in Jobs \ {j} : kind'[i] = kind[i]
    BY <1>7 DEF Enter
  <2>2. pc[j] = "idle" /\ pc'[j] = "admitted"
    BY <1>7 DEF Enter
  <2>3. Raised(j) = {} /\ Raised(j)' = {}
    BY <2>2 DEF Raised
  <2> QED BY <2>1, <2>3, <1>2 DEF PCs
<1>8. ASSUME NEW j \in Jobs, Begin(j) PROVE KeepFlags \/ FlagStepOf(j)
  <2>1. CASE BeginScan(j)
    <3>1. pc[j] = "admitted" /\ pc'[j] = "writing" /\ kind[j] = "scan" /\ kind'[j] = "scan"
      BY <2>1 DEF BeginScan
    <3>2. Raised(j) = {} /\ Raised(j)' = {"scan"}
      BY <3>1, <1>3 DEF Raised, ScrapeKinds
    <3>3. RaiseFlag(j, "scan")
      BY <2>1, <3>2, <1>1 DEF BeginScan, RaiseFlag, PCs
    <3> QED BY <3>3, <1>3 DEF FlagStepOf
  <2>2. CASE BeginFlagged(j)
    <3>1. pc[j] = "admitted" /\ pc'[j] = "writing" /\ kind[j] \in FlagKinds /\ kind'[j] = kind[j]
      BY <2>2 DEF BeginFlagged
    <3>2. Raised(j) = {} /\ Raised(j)' = {kind[j]}
      BY <3>1, <1>3, <1>4 DEF Raised
    <3>3. RaiseFlag(j, kind[j])
      BY <2>2, <3>2, <1>1 DEF BeginFlagged, RaiseFlag, PCs
    <3> QED BY <3>1, <3>3, <1>3 DEF FlagStepOf
  <2>3. CASE BeginItem(j)
    <3>1. pc[j] = "admitted" /\ pc'[j] = "writing" /\ kind[j] \in ItemKinds /\ kind'[j] = kind[j]
      BY <2>3 DEF BeginItem
    <3>2. Raised(j) = {} /\ Raised(j)' = {}
      BY <3>1, <1>5 DEF Raised
    <3> QED BY <2>3, <3>2, <1>2 DEF BeginItem, PCs
  <2>4. CASE CheckLane(j)
    <3>1. pc[j] = "admitted" /\ pc'[j] = "checked"
      BY <2>4 DEF CheckLane, PCs
    <3>2. Raised(j) = {} /\ Raised(j)' = {}
      BY <3>1 DEF Raised
    <3> QED BY <2>4, <3>2, <1>2 DEF CheckLane, PCs
  <2>5. CASE BeginScrape(j)
    <3>1. pc[j] = "checked" /\ pc'[j] = "claiming" /\ kind[j] \in ScrapeKinds /\ kind'[j] = kind[j]
      BY <2>5 DEF BeginScrape, PCs
    <3>2. Raised(j) = {} /\ Raised(j)' = {"scrape"}
      BY <3>1, <1>3 DEF Raised
    <3>3. RaiseFlag(j, "scrape")
      BY <2>5, <3>2, <1>1 DEF BeginScrape, RaiseFlag, PCs
    <3> QED BY <3>3, <1>3 DEF FlagStepOf
  <2>6. CASE ClaimForScrape(j)
    <3>1. PICK loc \in {"writing", "closing"} : Goto(j, loc)
      BY <2>6 DEF ClaimForScrape
    <3>2. pc[j] = "claiming" /\ kind[j] \in ScrapeKinds /\ pc'[j] = loc /\ kind'[j] = kind[j]
      BY <2>6, <3>1 DEF ClaimForScrape
    <3>3. Raised(j) = {"scrape"}
      BY <3>2, <1>3 DEF Raised
    <3>4. Raised(j)' = {"scrape"}
      BY <3>1, <3>2, <1>3 DEF Raised, ScrapeKinds, Statuses
    <3> QED BY <2>6, <3>1, <3>3, <3>4, <1>2 DEF ClaimForScrape, PCs
  <2>7. CASE Refused(j) \/ NothingToDo(j)
    <3>1. pc[j] \in {"admitted", "checked"} /\ pc'[j] = "leaving" /\ Goto(j, "leaving") /\ UNCHANGED running
      BY <2>7 DEF Refused, NothingToDo, PCs
    <3>2. Raised(j) = {} /\ Raised(j)' = {}
      BY <3>1 DEF Raised
    <3> QED BY <3>1, <3>2, <1>2 DEF PCs
  <2> QED BY <1>8, <2>1, <2>2, <2>3, <2>4, <2>5, <2>6, <2>7 DEF Begin
<1>9. CASE (\E j \in Jobs : SaveNFO(j)) \/ CancelScrape
  BY <1>9, <1>6 DEF SaveNFO, CancelScrape
<1>10. ASSUME NEW j \in Jobs, Finish(j) PROVE KeepFlags \/ FlagStepOf(j)
  <2>1. CASE LowerFlag(j) \/ EndFused(j)
    <3>1. PICK loc \in {"unflagged", "leaving"} : Goto(j, loc)
      BY <2>1 DEF LowerFlag, EndFused
    <3>2. /\ pc[j] = "writing" /\ kind[j] \in FusedKinds \cup {"scan", "probe"} /\ kind'[j] = kind[j]
          /\ pc'[j] = loc /\ running' = [running EXCEPT ![kind[j]] = FALSE]
      BY <2>1, <3>1 DEF LowerFlag, EndFused, PCs
    <3>3. Raised(j) = {kind[j]} /\ Raised(j)' = {}
      BY <3>1, <3>2, <1>3, <1>4 DEF Raised
    <3>4. DropFlag(j, kind[j])
      BY <3>1, <3>2, <3>3, <1>1 DEF DropFlag, PCs
    <3> QED BY <3>2, <3>4, <1>3 DEF FlagStepOf
  <2>2. CASE ReleaseAfterFlag(j)
    <3>1. pc[j] = "unflagged" /\ pc'[j] = "leaving"
      BY <2>2 DEF ReleaseAfterFlag, PCs
    <3>2. Raised(j) = {} /\ Raised(j)' = {}
      BY <3>1 DEF Raised
    <3> QED BY <2>2, <3>2, <1>2 DEF ReleaseAfterFlag, PCs
  <2>3. CASE EndItem(j)
    <3>1. pc[j] = "writing" /\ pc'[j] = "leaving" /\ kind[j] \in ItemKinds
      BY <2>3 DEF EndItem, PCs
    <3>2. Raised(j) = {} /\ Raised(j)' = {}
      BY <3>1, <1>5 DEF Raised
    <3> QED BY <2>3, <3>2, <1>2 DEF EndItem, PCs
  <2>4. CASE EndWriting(j)
    <3>1. PICK loc \in {"rescan", "closing"} : Goto(j, loc)
      BY <2>4 DEF EndWriting
    <3>2. pc[j] = "writing" /\ kind[j] \in ScrapeKinds /\ pc'[j] = loc /\ kind'[j] = kind[j]
      BY <2>4, <3>1 DEF EndWriting
    <3>3. Raised(j) = {"scrape"} /\ Raised(j)' = {"scrape"}
      BY <3>1, <3>2, <1>3 DEF Raised, ScrapeKinds, Statuses
    <3> QED BY <2>4, <3>1, <3>3, <1>2 DEF EndWriting, PCs
  <2>5. CASE BeginRescan(j)
    <3>1. pc[j] = "rescan" /\ pc'[j] = "rescanning" /\ kind[j] = "scrape" /\ kind'[j] = "scrape"
      BY <2>5 DEF BeginRescan
    <3>2. Raised(j) = {"scrape"} /\ Raised(j)' = {"scrape", "scan"}
      BY <3>1, <1>3 DEF Raised, ScrapeKinds
    <3>3. RaiseFlag(j, "scan")
      BY <2>5, <3>2, <1>1 DEF BeginRescan, RaiseFlag, PCs
    <3> QED BY <3>3, <1>3 DEF FlagStepOf
  <2>6. CASE RescanRefused(j) \/ ReleaseRescan(j)
    <3>1. /\ pc[j] \in {"rescan", "rescan_unflagged"} /\ pc'[j] = "closing" /\ kind[j] = "scrape"
          /\ kind'[j] = "scrape" /\ Goto(j, "closing") /\ UNCHANGED running
      BY <2>6 DEF RescanRefused, ReleaseRescan
    <3>2. Raised(j) = {"scrape"} /\ Raised(j)' = {"scrape"}
      BY <3>1, <1>3 DEF Raised, ScrapeKinds
    <3> QED BY <3>1, <3>2, <1>2 DEF PCs
  <2>7. CASE EndRescan(j)
    <3>1. pc[j] = "rescanning" /\ pc'[j] = "rescan_unflagged" /\ kind[j] = "scrape" /\ kind'[j] = "scrape"
      BY <2>7 DEF EndRescan
    <3>2. Raised(j) = {"scrape", "scan"} /\ Raised(j)' = {"scrape"}
      BY <3>1, <1>3 DEF Raised, ScrapeKinds
    <3>3. DropFlag(j, "scan")
      BY <2>7, <3>2, <1>1 DEF EndRescan, DropFlag, PCs
    <3> QED BY <3>3, <1>3 DEF FlagStepOf
  <2>8. CASE EndScrape(j)
    <3>1. pc[j] = "closing" /\ pc'[j] = "leaving" /\ kind[j] \in ScrapeKinds
      BY <2>8 DEF EndScrape, PCs
    <3>2. Raised(j) = {"scrape"} /\ Raised(j)' = {}
      BY <3>1, <1>3 DEF Raised
    <3>3. DropFlag(j, "scrape")
      BY <2>8, <3>2, <1>1 DEF EndScrape, DropFlag, PCs
    <3> QED BY <3>3, <1>3 DEF FlagStepOf
  <2>9. CASE Leave(j)
    <3>1. /\ pc[j] = "leaving" /\ pc'[j] = "idle" /\ pc' = [pc EXCEPT ![j] = "idle"] /\ UNCHANGED running
          /\ \A k \in Jobs \ {j} : kind'[k] = kind[k]
      BY <2>9 DEF Leave, PCs
    <3>2. Raised(j) = {} /\ Raised(j)' = {}
      BY <3>1 DEF Raised
    <3> QED BY <3>1, <3>2, <1>2 DEF PCs
  <2>10. CASE CountSaved(j)
    BY <2>10, <1>6 DEF CountSaved
  <2> QED BY <1>10, <2>1, <2>2, <2>3, <2>4, <2>5, <2>6, <2>7, <2>8, <2>9, <2>10 DEF Finish
<1>11. CASE CloseGate \/ Drain \/ BudgetExpires \/ UNCHANGED vars
  <2>1. UNCHANGED <<running, pc, kind>>
    BY <1>11 DEF CloseGate, Drain, BudgetExpires, StopScheduler, CancelRoot, StopListening,
       WorkersJoined, SchedulerJoined, CloseDB, vars
  <2> QED BY <2>1, <1>6
<1> QED BY <1>7, <1>8, <1>9, <1>10, <1>11 DEF Next, Exited

\* Each flag is up for one run, at first and after every step.
LEMMA InitOneRun == Init => OneRunPerStatus
<1> SUFFICES ASSUME Init PROVE OneRunPerStatus
    OBVIOUS
<1>1. \A j \in Jobs : Raised(j) = {}
  BY DEF Init, Raised
<1> QED BY <1>1 DEF Init, OneRunPerStatus

LEMMA NextOneRun == TypeShape /\ OneRunPerStatus /\ [Next]_vars => OneRunPerStatus'
<1> SUFFICES ASSUME TypeShape, OneRunPerStatus, [Next]_vars PROVE OneRunPerStatus'
    OBVIOUS
<1> USE DEF OneRunPerStatus, TypeShape, Typed
<1>1. CASE KeepFlags
  BY <1>1 DEF KeepFlags
<1>2. ASSUME NEW j \in Jobs, NEW s \in Statuses, RaiseFlag(j, s) PROVE OneRunPerStatus'
  BY <1>2 DEF RaiseFlag
<1>3. ASSUME NEW j \in Jobs, NEW s \in Statuses, DropFlag(j, s) PROVE OneRunPerStatus'
  BY <1>3 DEF DropFlag
<1> QED BY <1>1, <1>2, <1>3, StatusStep DEF FlagStepOf

-----------------------------------------------------------------------------
(* Registrations and the shutdown *)

KeepHosts ==
  UNCHANGED workers /\ \A h \in Hosts : Hosted(h)' = Hosted(h)

JoinHost(j, h) ==
  /\ j \notin Active
  /\ Hosted(h)' = Hosted(h) \cup {j}
  /\ \A g \in Hosts \ {h} : Hosted(g)' = Hosted(g)
  /\ h = "worker" => ~gateClosed
  /\ h = "cron" => ~CronStopped
  /\ h = "http" => httpOpen
  /\ workers' = IF h = "worker" THEN workers + 1 ELSE workers

QuitHost(j, h) ==
  /\ j \in Hosted(h) /\ Hosted(h)' = Hosted(h) \ {j}
  /\ \A g \in Hosts \ {h} : Hosted(g)' = Hosted(g)
  /\ workers' = IF h = "worker" THEN workers - 1 ELSE workers

MainStep == CloseGate \/ Drain \/ BudgetExpires

HostStepOf(j) == \E h \in Hosts : JoinHost(j, h) \/ QuitHost(j, h)

\* A step of main moves no task; a step of a task leaves main where it is and
\* lets a task in, out, or neither.
LEMMA HostStep ==
  TypeShape /\ [Next]_vars =>
    \/ MainStep /\ KeepHosts
    \/ UNCHANGED mainVars /\ (KeepHosts \/ \E j \in Jobs : HostStepOf(j))
<1> SUFFICES ASSUME TypeShape, [Next]_vars
             PROVE  \/ MainStep /\ KeepHosts
                    \/ UNCHANGED mainVars /\ (KeepHosts \/ \E j \in Jobs : HostStepOf(j))
    OBVIOUS
<1> USE DEF TypeShape, Typed, Shape, At, Goto, laneVars, scrapeVars, taskVars, jobVars, mainOnly
<1>1. ASSUME NEW j \in Jobs, NEW loc \in PCs \ {"idle"}, Goto(j, loc), pc[j] # "idle",
             UNCHANGED workers
      PROVE  KeepHosts
  BY <1>1 DEF KeepHosts, Hosted, Active
<1>2. ASSUME UNCHANGED <<pc, host, workers>> PROVE KeepHosts
  BY <1>2 DEF KeepHosts, Hosted, Active
<1>3. ASSUME NEW j \in Jobs, NEW k \in Kinds, NEW h \in HostsOf(k), Enter(j, k, h)
      PROVE  UNCHANGED mainVars /\ HostStepOf(j)
  <2>1. k \in AllKinds /\ h \in Hosts
    BY <1>3, JobsAssumption DEF HostsOf, Hosts, AllKinds, Enter
  <2>2. /\ pc[j] = "idle" /\ pc' = [pc EXCEPT ![j] = "admitted"]
        /\ host' = [host EXCEPT ![j] = h] /\ UNCHANGED mainVars
    BY <1>3 DEF Enter
  <2>3. j \notin Active /\ Active' = Active \cup {j}
    BY <2>2 DEF Active
  <2>4. Hosted(h)' = Hosted(h) \cup {j} /\ \A g \in Hosts \ {h} : Hosted(g)' = Hosted(g)
    BY <2>1, <2>2, <2>3 DEF Hosted, Active
  <2>5. /\ h = "worker" => ~gateClosed
        /\ h = "cron" => ~CronStopped
        /\ h = "http" => httpOpen
        /\ workers' = IF h = "worker" THEN workers + 1 ELSE workers
    BY <1>3 DEF Enter
  <2>6. JoinHost(j, h)
    BY <2>3, <2>4, <2>5 DEF JoinHost
  <2> QED BY <2>1, <2>2, <2>6 DEF HostStepOf
<1>4. ASSUME NEW j \in Jobs, Leave(j) PROVE UNCHANGED mainVars /\ HostStepOf(j)
  <2>1. PICK h \in Hosts : h = host[j]
    BY <1>4 DEF Leave
  <2>2. /\ pc[j] = "leaving" /\ pc' = [pc EXCEPT ![j] = "idle"] /\ UNCHANGED mainVars
        /\ host' = [host EXCEPT ![j] = "none"] /\ host[j] = h
        /\ workers' = IF h = "worker" THEN workers - 1 ELSE workers
    BY <1>4, <2>1 DEF Leave
  <2>3. j \in Hosted(h) /\ Hosted(h)' = Hosted(h) \ {j}
    BY <2>2 DEF Hosted, Active
  <2>4. \A g \in Hosts \ {h} : Hosted(g)' = Hosted(g)
    BY <2>2 DEF Hosted, Active
  <2>5. QuitHost(j, h)
    BY <2>2, <2>3, <2>4 DEF QuitHost
  <2> QED BY <2>2, <2>5 DEF HostStepOf
<1>5. ASSUME NEW j \in Jobs, Begin(j) PROVE KeepHosts /\ UNCHANGED mainVars
  <2>1. PICK loc \in PCs \ {"idle"} : Goto(j, loc)
    BY <1>5 DEF Begin, BeginScan, BeginFlagged, BeginItem, CheckLane, BeginScrape,
       ClaimForScrape, Refused, NothingToDo, PCs
  <2>2. pc[j] # "idle" /\ UNCHANGED workers /\ UNCHANGED mainVars
    BY <1>5 DEF Begin, BeginScan, BeginFlagged, BeginItem, CheckLane, BeginScrape,
       ClaimForScrape, Refused, NothingToDo
  <2> QED BY <2>1, <2>2, <1>1
<1>6. CASE CancelScrape \/ \E j \in Jobs : SaveNFO(j) \/ CountSaved(j)
  <2>1. UNCHANGED mainVars /\ UNCHANGED <<pc, host, workers>>
    BY <1>6 DEF SaveNFO, CountSaved, CancelScrape
  <2> QED BY <2>1, <1>2
<1>7. ASSUME NEW j \in Jobs, Finish(j), ~Leave(j), ~CountSaved(j)
      PROVE  KeepHosts /\ UNCHANGED mainVars
  <2>1. PICK loc \in PCs \ {"idle"} : Goto(j, loc)
    BY <1>7 DEF Finish, LowerFlag, ReleaseAfterFlag, EndFused, EndItem, EndWriting, BeginRescan,
       RescanRefused, EndRescan, ReleaseRescan, EndScrape, PCs
  <2>2. pc[j] # "idle" /\ UNCHANGED workers /\ UNCHANGED mainVars
    BY <1>7 DEF Finish, LowerFlag, ReleaseAfterFlag, EndFused, EndItem, EndWriting, BeginRescan,
       RescanRefused, EndRescan, ReleaseRescan, EndScrape
  <2> QED BY <2>1, <2>2, <1>1
<1>8. CASE MainStep
  <2>1. UNCHANGED <<pc, host, workers>>
    BY <1>8 DEF MainStep, CloseGate, Drain, BudgetExpires, StopScheduler, CancelRoot, StopListening,
       WorkersJoined, SchedulerJoined, CloseDB
  <2> QED BY <2>1, <1>2, <1>8
<1>9. CASE UNCHANGED vars
  BY <1>9, <1>2 DEF vars, mainVars
<1> QED BY <1>3, <1>4, <1>5, <1>6, <1>7, <1>8, <1>9 DEF Next, Exited, MainStep

\* The WaitGroup counts the registered tasks, and each stage of the shutdown
\* remembers who can no longer be there.
MainInv ==
  /\ workers = Cardinality(Hosted("worker"))
  /\ gateClosed <=> phase # "serving"
  /\ join # "idle" => phase \in {"cancelled", "closed", "killed"}
  /\ join \in {"sched", "done"} => Hosted("worker") = {}
  /\ join = "done" => Hosted("cron") = {}
  /\ phase = "closed" => join = "done" /\ ~httpOpen /\ Hosted("http") = {}

LEMMA HostedFinite == \A h \in Hosts : IsFiniteSet(Hosted(h)) /\ IsFiniteSet(Hosted(h))'
<1> SUFFICES ASSUME NEW h \in Hosts PROVE IsFiniteSet(Hosted(h)) /\ IsFiniteSet(Hosted(h)')
    OBVIOUS
<1>1. Hosted(h) \subseteq Jobs /\ Hosted(h)' \subseteq Jobs
  BY DEF Hosted, Active
<1> QED BY <1>1, FS_Subset, JobsAssumption

LEMMA InitMainInv == Init => MainInv
<1> SUFFICES ASSUME Init PROVE MainInv
    OBVIOUS
<1>1. Hosted("worker") = {}
  BY DEF Init, Hosted, Active
<1>2. workers = Cardinality(Hosted("worker"))
  BY <1>1, FS_EmptySet DEF Init
<1> QED BY <1>2 DEF Init, MainInv

LEMMA NextMainInv == TypeShape /\ MainInv /\ [Next]_vars => MainInv'
<1> SUFFICES ASSUME TypeShape, MainInv, [Next]_vars PROVE MainInv'
    OBVIOUS
<1>0. "worker" \in Hosts /\ "cron" \in Hosts /\ "http" \in Hosts
  BY DEF Hosts
<1>1. CASE MainStep /\ KeepHosts
  <2>1. Hosted("worker")' = Hosted("worker") /\ Hosted("cron")' = Hosted("cron")
        /\ Hosted("http")' = Hosted("http") /\ workers' = workers
    BY <1>0, <1>1 DEF KeepHosts
  <2>2. workers = 0 => Hosted("worker") = {}
    BY <1>0, HostedFinite, FS_EmptySet DEF MainInv
  <2>3. CASE CloseGate \/ StopScheduler \/ StopListening \/ BudgetExpires
    BY <2>1, <2>3 DEF MainInv, CloseGate, StopScheduler, StopListening, BudgetExpires
  <2>4. CASE CancelRoot
    BY <2>1, <2>4 DEF MainInv, CancelRoot
  <2>5. CASE WorkersJoined
    BY <2>1, <2>2, <2>5 DEF MainInv, WorkersJoined
  <2>6. CASE SchedulerJoined
    BY <2>1, <2>6 DEF MainInv, SchedulerJoined
  <2>7. CASE CloseDB
    BY <2>1, <2>7 DEF MainInv, CloseDB
  <2> QED BY <1>1, <2>3, <2>4, <2>5, <2>6, <2>7 DEF MainStep, Drain
<1>2. CASE UNCHANGED mainVars /\ KeepHosts
  BY <1>0, <1>2 DEF MainInv, mainVars, KeepHosts
<1>3. ASSUME NEW j \in Jobs, NEW h \in Hosts, JoinHost(j, h), UNCHANGED mainVars
      PROVE  MainInv'
  <2>1. j \notin Hosted("worker")
    BY <1>3 DEF JoinHost, Hosted
  <2>2. workers' = Cardinality(Hosted("worker")')
    <3>1. CASE h = "worker"
      BY <1>0, <1>3, <2>1, <3>1, HostedFinite, FS_AddElement DEF JoinHost, MainInv
    <3>2. CASE h # "worker"
      BY <1>0, <1>3, <3>2 DEF JoinHost, MainInv
    <3> QED BY <3>1, <3>2
  <2>3. /\ join \in {"sched", "done"} => h # "worker"
        /\ join = "done" => h # "cron"
        /\ phase = "closed" => h # "http"
    BY <1>3 DEF JoinHost, MainInv, CronStopped
  <2> QED BY <1>0, <1>3, <2>2, <2>3 DEF JoinHost, MainInv, mainVars
<1>4. ASSUME NEW j \in Jobs, NEW h \in Hosts, QuitHost(j, h), UNCHANGED mainVars
      PROVE  MainInv'
  <2>1. workers' = Cardinality(Hosted("worker")')
    <3>1. CASE h = "worker"
      BY <1>0, <1>4, <3>1, HostedFinite, FS_RemoveElement DEF QuitHost, MainInv
    <3>2. CASE h # "worker"
      BY <1>0, <1>4, <3>2 DEF QuitHost, MainInv
    <3> QED BY <3>1, <3>2
  <2>2. \A g \in Hosts : Hosted(g)' \subseteq Hosted(g)
    BY <1>4 DEF QuitHost
  <2> QED BY <1>0, <1>4, <2>1, <2>2 DEF MainInv, mainVars
<1> QED BY <1>1, <1>2, <1>3, <1>4, HostStep DEF HostStepOf

-----------------------------------------------------------------------------
(* What a scrape run has saved *)

\* A task has saved nothing before it has the lane; a rescan follows a counted
\* save; and a run that is about to end with files the index does not know has
\* said so, or was cancelled before it counted one of them.
SavedIsTold(j) ==
  /\ pc[j] \in {"admitted", "checked", "claiming"} => saved[j] = "none"
  /\ pc[j] \in {"rescan", "rescanning", "rescan_unflagged"} => saved[j] # "committed"
  /\ pc[j] = "closing" /\ saved[j] = "unindexed" => refreshFailed
  /\ pc[j] = "closing" /\ saved[j] = "committed" => RunCancelled

Told == \A j \in Jobs : SavedIsTold(j)

LEMMA InitTold == Init => Told
  BY DEF Init, Told, SavedIsTold, RunCancelled

\* A step of one task that takes neither the notice nor the cancellation back:
\* its own part has to be shown.
LEMMA OneTells ==
  ASSUME TypeShape, Told, NEW j \in Jobs, refreshFailed => refreshFailed',
         RunCancelled => RunCancelled',
         \A k \in Jobs \ {j} : pc'[k] = pc[k] /\ saved'[k] = saved[k],
         SavedIsTold(j)'
  PROVE  Told'
<1>1. ASSUME NEW k \in Jobs \ {j} PROVE SavedIsTold(k)'
  BY <1>1 DEF Told, SavedIsTold
<1> QED BY <1>1 DEF Told

LEMMA NextTold == TypeShape /\ OneRunPerStatus /\ Told /\ [Next]_vars => Told'
<1> SUFFICES ASSUME TypeShape, OneRunPerStatus, Told, [Next]_vars PROVE Told'
    OBVIOUS
<1> USE DEF TypeShape, Typed, At, Goto, laneVars, scrapeVars, taskVars, jobVars, mainVars, mainOnly
<1>1. ASSUME UNCHANGED <<pc, saved, refreshFailed>>, RunCancelled => RunCancelled' PROVE Told'
  BY <1>1 DEF Told, SavedIsTold
<1>0. UNCHANGED <<scrapeCancelled, phase>> => UNCHANGED RunCancelled
  BY DEF RunCancelled, RootCancelled
<1>9. ASSUME NEW j \in Jobs, \/ BeginScrape(j) \/ EndScrape(j) PROVE \A k \in Jobs \ {j} : pc[k] # "closing"
  <2>1. \A k \in Jobs \ {j} : "scrape" \notin Raised(k)
    <3>1. CASE BeginScrape(j)
      BY <3>1 DEF OneRunPerStatus, Statuses, BeginScrape
    <3>2. CASE EndScrape(j)
      <4>1. "scrape" \in Raised(j)
        BY <3>2 DEF EndScrape, Raised, Shape, Statuses, ScrapeKinds
      <4> QED BY <4>1 DEF OneRunPerStatus, Statuses
    <3> QED BY <1>9, <3>1, <3>2
  <2>2. \A k \in Jobs : pc[k] = "closing" => "scrape" \in Raised(k)
    BY DEF Raised, Shape, Statuses, ScrapeKinds
  <2> QED BY <2>1, <2>2
<1>2. ASSUME NEW j \in Jobs, NEW k \in Kinds, NEW h \in HostsOf(k), Enter(j, k, h)
      PROVE  Told'
  <2>1. saved[j] = "none"
    BY <1>2 DEF Enter, Shape, ScrapeKinds
  <2>2. SavedIsTold(j)' /\ UNCHANGED <<saved, refreshFailed, scrapeCancelled, phase>>
    BY <1>2, <2>1 DEF Enter, SavedIsTold
  <2>3. \A i \in Jobs \ {j} : pc'[i] = pc[i]
    BY <1>2 DEF Enter
  <2> QED BY <1>0, <2>2, <2>3, OneTells
<1>3. ASSUME NEW j \in Jobs, BeginScrape(j) PROVE Told'
  <2>1. \A k \in Jobs \ {j} : pc[k] # "closing"
    BY <1>3, <1>9
  <2>2. /\ \A k \in Jobs \ {j} : pc'[k] = pc[k]
        /\ pc'[j] = "claiming" /\ pc[j] = "checked" /\ UNCHANGED saved
    BY <1>3 DEF BeginScrape
  <2>3. ASSUME NEW k \in Jobs PROVE SavedIsTold(k)'
    BY <2>1, <2>2 DEF SavedIsTold, Told
  <2> QED BY <2>3 DEF Told
<1>4. ASSUME NEW j \in Jobs, Begin(j), ~BeginScrape(j) PROVE Told'
  <2>1. PICK loc \in {"writing", "checked", "closing", "leaving"} :
          /\ pc' = [pc EXCEPT ![j] = loc]
          /\ UNCHANGED <<saved, refreshFailed, scrapeCancelled, phase>>
          /\ pc[j] \in {"admitted", "checked", "claiming"}
    BY <1>4 DEF Begin, BeginScan, BeginFlagged, BeginItem, CheckLane, ClaimForScrape, Refused, NothingToDo
  <2>2. SavedIsTold(j)' /\ \A k \in Jobs \ {j} : pc'[k] = pc[k]
    BY <2>1 DEF Told, SavedIsTold
  <2> QED BY <1>0, <2>1, <2>2, OneTells
<1>5. ASSUME NEW j \in Jobs, SaveNFO(j) \/ CountSaved(j) PROVE Told'
  <2>1. /\ SavedIsTold(j)' /\ \A k \in Jobs \ {j} : saved'[k] = saved[k]
        /\ UNCHANGED <<pc, refreshFailed, scrapeCancelled, phase>>
    BY <1>5 DEF SaveNFO, CountSaved, SavedIsTold
  <2> QED BY <1>0, <2>1, OneTells
<1>6. ASSUME NEW j \in Jobs, Finish(j) PROVE Told'
  <2>1. CASE LowerFlag(j) \/ ReleaseAfterFlag(j) \/ EndFused(j) \/ EndItem(j) \/ BeginRescan(j)
    <3>1. PICK loc \in {"unflagged", "leaving", "rescanning"} :
            /\ pc' = [pc EXCEPT ![j] = loc]
            /\ UNCHANGED <<saved, refreshFailed, scrapeCancelled, phase>>
            /\ loc = "rescanning" => pc[j] = "rescan"
      BY <2>1 DEF LowerFlag, ReleaseAfterFlag, EndFused, EndItem, BeginRescan
    <3>2. SavedIsTold(j)' /\ \A k \in Jobs \ {j} : pc'[k] = pc[k]
      BY <3>1 DEF SavedIsTold, Told
    <3> QED BY <1>0, <3>1, <3>2, OneTells
  <2>2. CASE EndWriting(j)
    <3>1. /\ UNCHANGED <<saved, refreshFailed, scrapeCancelled, phase>>
          /\ \A k \in Jobs \ {j} : pc'[k] = pc[k]
      BY <2>2 DEF EndWriting
    <3>2. SavedIsTold(j)'
      BY <1>0, <3>1, <2>2 DEF EndWriting, SavedIsTold
    <3> QED BY <1>0, <3>1, <3>2, OneTells
  <2>7. CASE EndScrape(j)
    <3>1. /\ \A k \in Jobs \ {j} : pc'[k] = pc[k] /\ pc[k] # "closing"
          /\ pc'[j] = "leaving" /\ UNCHANGED saved
      BY <2>7, <1>9 DEF EndScrape
    <3>2. ASSUME NEW k \in Jobs PROVE SavedIsTold(k)'
      BY <3>1 DEF SavedIsTold, Told
    <3> QED BY <3>2 DEF Told
  <2>3. CASE RescanRefused(j)
    <3>1. /\ SavedIsTold(j)' /\ refreshFailed' /\ UNCHANGED <<saved, scrapeCancelled, phase>>
          /\ \A k \in Jobs \ {j} : pc'[k] = pc[k]
      BY <2>3 DEF RescanRefused, SavedIsTold, Told
    <3> QED BY <1>0, <3>1, OneTells
  <2>4. CASE EndRescan(j)
    <3>1. /\ \A k \in Jobs \ {j} : pc'[k] = pc[k] /\ saved'[k] = saved[k]
          /\ SavedIsTold(j)' /\ UNCHANGED <<refreshFailed, scrapeCancelled, phase>>
      BY <2>4 DEF EndRescan, SavedIsTold, Told
    <3> QED BY <1>0, <3>1, OneTells
  <2>5. CASE ReleaseRescan(j)
    <3>1. /\ \A k \in Jobs \ {j} : pc'[k] = pc[k] /\ saved'[k] = saved[k]
          /\ SavedIsTold(j)' /\ (refreshFailed => refreshFailed')
          /\ UNCHANGED <<scrapeCancelled, phase>>
      BY <2>5 DEF ReleaseRescan, SavedIsTold, Told
    <3> QED BY <1>0, <3>1, OneTells
  <2>6. CASE Leave(j)
    <3>1. /\ \A k \in Jobs \ {j} : pc'[k] = pc[k] /\ saved'[k] = saved[k]
          /\ SavedIsTold(j)' /\ UNCHANGED <<refreshFailed, scrapeCancelled, phase>>
      BY <2>6 DEF Leave, SavedIsTold, Told
    <3> QED BY <1>0, <3>1, OneTells
  <2> QED BY <1>5, <1>6, <2>1, <2>2, <2>3, <2>4, <2>5, <2>6, <2>7 DEF Finish
<1>7. CASE CancelScrape \/ CloseGate \/ Drain \/ BudgetExpires \/ UNCHANGED vars
  <2>1. UNCHANGED <<pc, saved, refreshFailed>>
    BY <1>7 DEF CancelScrape, CloseGate, Drain, StopScheduler, CancelRoot, StopListening,
                WorkersJoined, SchedulerJoined, CloseDB, BudgetExpires, vars
  <2>2. RunCancelled => RunCancelled'
    BY <1>7 DEF CancelScrape, CloseGate, Drain, StopScheduler, CancelRoot, StopListening,
                WorkersJoined, SchedulerJoined, CloseDB, BudgetExpires, vars, RunCancelled,
                RootCancelled
  <2> QED BY <2>1, <2>2, <1>1
<1> QED BY <1>2, <1>3, <1>4, <1>5, <1>6, <1>7 DEF Next, Exited

-----------------------------------------------------------------------------
(* The theorems *)

IInv == TypeShape /\ LaneInv /\ OneRunPerStatus /\ MainInv /\ Told

\* The strengthened invariant: types, shape, lane, flags, shutdown stages and
\* what the scrape runs have saved.
THEOREM Inductive == Spec => []IInv
<1>1. Init => IInv
  BY InitTypeShape, InitLaneInv, InitOneRun, InitMainInv, InitTold DEF IInv
<1>2. IInv /\ [Next]_vars => IInv'
  BY NextTypeShape, NextLaneInv, NextOneRun, NextMainInv, NextTold DEF IInv
<1> QED BY <1>1, <1>2, PTL DEF Spec

\* Every variable keeps its type, the WaitGroup counter stays a natural number.
THEOREM TypeCorrect == Spec => []TypeOK
<1>1. IInv => TypeOK
  <2> SUFFICES ASSUME IInv PROVE workers \in Nat
    BY DEF IInv, TypeShape, TypeOK
  <2>1. IsFiniteSet(Hosted("worker"))
    BY HostedFinite DEF Hosts
  <2> QED BY <2>1, FS_CardinalityType DEF IInv, MainInv
<1> QED BY <1>1, Inductive, PTL

\* claimNFO and releaseNFO: count, owner and holders always agree.
THEOREM LaneCountedAlways == Spec => []LaneCounted
<1>1. IInv => LaneCounted
  BY DEF IInv, LaneInv
<1> QED BY <1>1, Inductive, PTL

\* A Running flag is up exactly while one task has raised it.
THEOREM OneRunAlways == Spec => []OneRunPerStatus
<1>1. IInv => OneRunPerStatus
  BY DEF IInv
<1> QED BY <1>1, Inductive, PTL

\* No two tasks rewrite NFO files together, save probes.
THEOREM WritersStayApart == Spec => []WritersApart
<1>1. IInv => WritersApart
  <2> SUFFICES ASSUME IInv, NEW j \in Jobs, NEW k \in Jobs, j # k,
                      pc[j] \in Writing, pc[k] \in Writing
               PROVE  LaneAt(j) = "probe" /\ LaneAt(k) = "probe"
    BY DEF WritersApart
  <2> USE DEF IInv, TypeShape, Typed, Shape, Writing
  <2>1. j \in Holders /\ k \in Holders
    BY DEF Holders, Holding
  <2>2. LaneAt(j) = nfoOwner /\ LaneAt(k) = nfoOwner /\ nfoOwner \notin Exclusive
    BY <2>1 DEF LaneInv, LaneCounted, ExclusiveHeldOnce
  <2>3. \A s \in Statuses : s \notin Raised(j) \cap Raised(k)
    BY DEF OneRunPerStatus
  <2>4. ASSUME NEW i \in {j, k}
        PROVE  /\ LaneAt(i) = "scan" => "scan" \in Raised(i)
               /\ LaneAt(i) = "translate" => "translate" \in Raised(i)
               /\ LaneAt(i) = "scrape_avatars" => "scrape" \in Raised(i)
    <3>1. i \in Jobs /\ pc[i] \in {"writing", "rescanning"} /\ kind[i] \in AllKinds \cup {"none"}
      BY <2>4
    <3>2. CASE pc[i] = "rescanning"
      BY <3>1, <3>2 DEF LaneAt, Raised, Statuses
    <3>3. CASE pc[i] = "writing"
      <4>1. LaneAt(i) = LaneOf(kind[i])
        BY <3>3 DEF LaneAt
      <4>2. LaneAt(i) \in {"scan", "translate", "scrape_avatars"} => kind[i] = LaneAt(i)
        BY <4>1 DEF LaneOf
      <4> QED BY <3>3, <4>2 DEF Raised, Statuses, ScrapeKinds
    <3> QED BY <3>1, <3>2, <3>3
  <2>5. nfoOwner \notin {"scan", "translate", "scrape_avatars"}
    BY <2>2, <2>3, <2>4 DEF Statuses
  <2>6. nfoOwner \in Lanes
    BY <2>1 DEF LaneInv, LaneCounted
  <2>7. Lanes \subseteq {"scan", "probe", "scrape", "scrape_avatars", "translate", "artwork",
                         "sprites", "edit", "subtitle_marks"}
    BY DEF Lanes, LaneOf, AllKinds
  <2> QED BY <2>2, <2>5, <2>6, <2>7 DEF Exclusive
<1> QED BY <1>1, Inductive, PTL

\* The database is closed after the last task left, however it was hosted.
THEOREM DatabaseClosedLast == Spec => []DatabaseOutlivesTasks
<1>1. IInv => DatabaseOutlivesTasks
  <2> SUFFICES ASSUME IInv, phase = "closed" PROVE Active = {}
    BY DEF DatabaseOutlivesTasks
  <2>1. \A h \in Hosts : Hosted(h) = {}
    BY DEF IInv, MainInv, Hosts
  <2>2. \A j \in Active : host[j] \in Hosts
    BY DEF IInv, TypeShape, Typed, Shape, Active
  <2> QED BY <2>1, <2>2 DEF Hosted
<1> QED BY <1>1, Inductive, PTL

\* Nothing is added to the WaitGroup once somebody may be waiting for it.
THEOREM NoAddWhileWaiting == Spec => NoAddDuringWait
<1>1. IInv /\ [Next]_vars => [join # "idle" => workers' <= workers]_vars
  <2> SUFFICES ASSUME IInv, [Next]_vars, join # "idle" PROVE workers' <= workers
    OBVIOUS
  <2>1. gateClosed /\ workers \in Int
    BY DEF IInv, MainInv, TypeShape, Typed
  <2>2. CASE KeepHosts
    BY <2>1, <2>2 DEF KeepHosts
  <2>3. ASSUME NEW j \in Jobs, NEW h \in Hosts, JoinHost(j, h) \/ QuitHost(j, h)
        PROVE  workers' <= workers
    BY <2>1, <2>3 DEF JoinHost, QuitHost
  <2> QED BY <2>2, <2>3, HostStep DEF HostStepOf, IInv
<1> QED BY <1>1, Inductive, PTL DEF Spec, NoAddDuringWait

\* executeScrape: a run that ends with counted saves outside the index has set
\* IndexRefreshFailed, and no other run has reset it in the meantime; one whose
\* saves are not counted ends as cancelled.
THEOREM UnindexedReported == Spec => UnindexedIsReported
<1>1. IInv /\ [Next]_vars
        => [\A j \in Jobs : pc[j] = "closing" /\ pc'[j] = "leaving" =>
              /\ saved[j] = "unindexed" => refreshFailed'
              /\ saved[j] = "committed" => RunCancelled]_vars
  <2>0. ASSUME IInv, NEW j \in Jobs, pc[j] = "closing", saved[j] = "committed"
        PROVE  RunCancelled
    BY <2>0 DEF IInv, Told, SavedIsTold
  <2> SUFFICES ASSUME IInv, [Next]_vars, NEW j \in Jobs, pc[j] = "closing", pc'[j] = "leaving",
                      saved[j] = "unindexed"
               PROVE  refreshFailed'
    BY <2>0
  <2>1. refreshFailed
    BY DEF IInv, Told, SavedIsTold
  <2>2. ASSUME NEW k \in Jobs, BeginScrape(k) PROVE FALSE
    <3>1. "scrape" \in Raised(j)
      BY DEF IInv, TypeShape, Shape, Raised, Statuses, ScrapeKinds
    <3> QED BY <3>1, <2>2 DEF IInv, OneRunPerStatus, Statuses, BeginScrape
  <2>3. refreshFailed' = refreshFailed \/ refreshFailed'
    <3> USE DEF laneVars, scrapeVars, taskVars, jobVars, mainVars, mainOnly
    <3>1. ASSUME NEW k \in Jobs, Begin(k) PROVE refreshFailed' = refreshFailed
      BY <3>1, <2>2 DEF Begin, BeginScan, BeginFlagged, BeginItem, CheckLane, ClaimForScrape, Refused, NothingToDo
    <3>2. ASSUME NEW k \in Jobs, Finish(k) PROVE refreshFailed' = refreshFailed \/ refreshFailed'
      BY <3>2, <2>1 DEF Finish, LowerFlag, ReleaseAfterFlag, EndFused, EndItem, EndWriting, BeginRescan,
                        RescanRefused, EndRescan, ReleaseRescan, EndScrape, CountSaved, Leave
    <3>3. ASSUME NEW k \in Jobs, SaveNFO(k) PROVE refreshFailed' = refreshFailed
      BY <3>3 DEF SaveNFO
    <3>4. ASSUME NEW k \in Jobs, NEW i \in Kinds, NEW h \in HostsOf(i), Enter(k, i, h)
          PROVE  refreshFailed' = refreshFailed
      BY <3>4 DEF Enter
    <3>5. CASE CancelScrape \/ CloseGate \/ Drain \/ BudgetExpires \/ UNCHANGED vars
      BY <3>5 DEF CancelScrape, CloseGate, Drain, StopScheduler, CancelRoot, StopListening, WorkersJoined,
                  SchedulerJoined, CloseDB, BudgetExpires, vars
    <3> QED BY <3>1, <3>2, <3>3, <3>4, <3>5 DEF Next, Exited
  <2> QED BY <2>1, <2>3
<1> QED BY <1>1, Inductive, PTL DEF Spec, UnindexedIsReported

\* Maintenance implements NfoLane: the reference count loses no holder.
THEOREM ImplementsLane == Spec => LaneImplemented
<1>1. Init => Lane!LaneInit
  BY DEF Init, Lane!LaneInit, Holders, Holding
<1>2. IInv /\ [Next]_vars => [Lane!LaneNext]_(Lane!laneVars)
  BY LaneRefines DEF IInv
<1> QED BY <1>1, <1>2, Inductive, PTL DEF Spec, LaneImplemented, Lane!LaneSpec
=============================================================================
