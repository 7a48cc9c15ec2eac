------------------------------- MODULE Thumbs -------------------------------
(***************************************************************************)
(* Thumbnails (server/media.go, imagecache/disk.go,                         *)
(* server/image_cache_settings.go).  A request looks in memory and on disk, *)
(* and if there is nothing one request makes the image while the others for *)
(* the same key wait for it.  Making is limited by a semaphore, may fail,   *)
(* and may panic.  Memory is evicted, and the directory is trimmed to a     *)
(* limit that the settings page changes.                                    *)
(***************************************************************************)
EXTENDS Integers, Sequences, FiniteSets

CONSTANTS
  Viewings,     \* requests for images
  ThumbKeys,    \* path, tag, size and quality
  ThumbSlots,        \* capacity of thumbSem
  MaxFlights,   \* bound: images that are made, or tried
  Limits,       \* limits of the settings page, 0 for none
  VariantSize,  \* of a file
  MaxLosses     \* bound: evictions of memory, and trims

ASSUME ThumbAssumption ==
  /\ ThumbSlots \in Nat \ {0} /\ MaxFlights \in Nat /\ MaxLosses \in Nat
  /\ Limits \subseteq Nat /\ Limits # {} /\ VariantSize \in Nat \ {0}

VARIABLES
  viewing,   \* each request: where it is, its key, its flight
  flightOf,  \* App.thumbFlights: the flight of a key, 0 for none
  flights,   \* the flights, each open or closed with a result
  memory,    \* App.imgThumb
  onDisk,    \* the variants in the directory
  maxBytes,  \* Disk.maxBytes
  trim,      \* Disk.trimming, and what the walk has found
  made,      \* history: how often each key was made
  lostFiles,      \* history: how often each key was in neither cache any more
  losses

thumbVars == <<viewing, flightOf, flights, memory, onDisk, maxBytes, trim, made, lostFiles, losses>>

Out == [at |-> "out"]
NoTrim == [at |-> "no"]

ThumbsInit ==
  /\ viewing = [r \in Viewings |-> Out] /\ flightOf = [k \in ThumbKeys |-> 0] /\ flights = <<>>
  /\ memory = {} /\ onDisk = {} /\ maxBytes \in Limits /\ trim = NoTrim
  /\ made = [k \in ThumbKeys |-> 0] /\ lostFiles = made /\ losses = 0

MoveTo(r, state) == viewing' = [viewing EXCEPT ![r] = state]
GoesTo(r, place) == MoveTo(r, [viewing[r] EXCEPT !.at = place])
CachesStay == UNCHANGED <<memory, onDisk, maxBytes, trim, made, lostFiles, losses>>
FlightsStay == UNCHANGED <<flightOf, flights>>
KeyOf(r) == viewing[r].key

-----------------------------------------------------------------------------
(* thumbnail *)

\* In memory, or on disk and then in memory as well.
Found(k) == k \in memory \cup onDisk
Warm(k) ==
  memory' = memory \cup {k} /\ UNCHANGED <<onDisk, maxBytes, trim, made, lostFiles, losses>>

AskImage(r) ==
  /\ viewing[r] = Out
  /\ \E k \in ThumbKeys :
       IF Found(k) THEN Warm(k) /\ UNCHANGED viewing
       ELSE MoveTo(r, [at |-> "missed", key |-> k]) /\ CachesStay
  /\ FlightsStay

\* beginThumbFlight
Join(r) ==
  /\ viewing[r].at = "missed"
  /\ LET k == KeyOf(r)
     IN IF flightOf[k] # 0
        THEN MoveTo(r, [at |-> "follows", key |-> k, flight |-> flightOf[k]]) /\ FlightsStay
        ELSE /\ Len(flights) < MaxFlights
             /\ flights' = Append(flights, "open")
             /\ flightOf' = [flightOf EXCEPT ![k] = Len(flights')]
             /\ MoveTo(r, [at |-> "leads", key |-> k, flight |-> Len(flights')])
  /\ CachesStay

\* A follower gets the leader's result, or its client goes away.
Follow(r) ==
  /\ viewing[r].at = "follows" /\ flights[viewing[r].flight] # "open" /\ MoveTo(r, Out)
  /\ FlightsStay /\ CachesStay
StopFollowing(r) ==
  /\ viewing[r].at = "follows" /\ MoveTo(r, Out) /\ FlightsStay /\ CachesStay

Holders == {r \in Viewings : viewing[r].at \in {"holds", "makes", "stores"}}
AcquireSem(r) ==
  /\ viewing[r].at = "leads" /\ Cardinality(Holders) < ThumbSlots /\ GoesTo(r, "holds")
  /\ FlightsStay /\ CachesStay

\* The leader's client goes away while it waits for the semaphore.
StopLeading(r) == viewing[r].at = "leads" /\ GoesTo(r, "failed") /\ FlightsStay /\ CachesStay

\* Seeded fault: the caches are not looked at again.
NeverFound(k) == FALSE

FoundMeanwhile(k) == Found(k)

\* Somebody may have made the image since this request missed it.
Recheck(r) ==
  /\ viewing[r].at = "holds" /\ FlightsStay
  /\ IF FoundMeanwhile(KeyOf(r)) THEN GoesTo(r, "done") /\ Warm(KeyOf(r))
     ELSE GoesTo(r, "makes") /\ CachesStay

\* A failure, or a panic, makes nothing.
MakeThumb(r) ==
  /\ viewing[r].at = "makes" /\ FlightsStay
  /\ \/ /\ GoesTo(r, "stores") /\ made' = [made EXCEPT ![KeyOf(r)] = @ + 1]
        /\ memory' = memory \cup {KeyOf(r)}
        /\ UNCHANGED <<onDisk, maxBytes, trim, lostFiles, losses>>
     \/ GoesTo(r, "failed") /\ CachesStay
     \/ GoesTo(r, "panics") /\ CachesStay

\* Put, which may fail; then MaybeTrim, which starts at most one trim.
StoreThumb(r) ==
  /\ viewing[r].at = "stores" /\ GoesTo(r, "done") /\ FlightsStay
  /\ onDisk' \in {onDisk, onDisk \cup {KeyOf(r)}}
  /\ trim' \in {trim} \cup (IF trim = NoTrim /\ losses < MaxLosses THEN {[at |-> "walk"]} ELSE {})
  /\ UNCHANGED <<memory, maxBytes, made, lostFiles, losses>>

\* Seeded fault: a panic goes past finishThumbFlight.
FinishUnlessPanics(r) == viewing[r].at \in {"done", "failed"}

MustFinish(r) == viewing[r].at \in {"done", "failed", "panics"}

\* finishThumbFlight, deferred for a panic; the request is over.
FinishFlight(r) ==
  /\ viewing[r].at \in {"done", "failed", "panics"} /\ MoveTo(r, Out) /\ CachesStay
  /\ IF MustFinish(r)
     THEN /\ flights' = [flights EXCEPT ![viewing[r].flight] =
                           IF viewing[r].at = "done" THEN "made" ELSE "failed"]
          /\ flightOf' = [flightOf EXCEPT ![KeyOf(r)] = 0]
     ELSE FlightsStay

-----------------------------------------------------------------------------
(* Losses *)

Loses(mem, dsk) ==
  /\ losses < MaxLosses /\ losses' = losses + 1 /\ memory' = mem /\ onDisk' = dsk
  /\ lostFiles' = [k \in ThumbKeys |->
                lostFiles[k] + IF Found(k) /\ k \notin mem \cup dsk THEN 1 ELSE 0]
  /\ UNCHANGED <<viewing, made, maxBytes>> /\ FlightsStay

\* The LRU of memory, or its TTL, or a restart of the server's cache.
EvictMemory == \E k \in memory : Loses(memory \ {k}, onDisk) /\ UNCHANGED trim

\* adminSaveImageCacheSettings starts a trim, unless one is running.
SaveLimit ==
  /\ maxBytes' \in Limits \ {maxBytes}
  /\ trim' = IF trim = NoTrim /\ losses < MaxLosses THEN [at |-> "walk"] ELSE trim
  /\ UNCHANGED <<viewing, memory, onDisk, made, lostFiles, losses>> /\ FlightsStay

WalkDir ==
  /\ trim.at = "walk" /\ trim' = [at |-> "evict", items |-> onDisk]
  /\ UNCHANGED <<viewing, memory, onDisk, maxBytes, made, lostFiles, losses>> /\ FlightsStay

\* Over the limit, the oldest go until trimTargetPercent is reached; and some may
\* have expired.  What came after the walk is not looked at.
Total(items) == Cardinality(items) * VariantSize
EvictDisk ==
  /\ trim.at = "evict" /\ trim' = NoTrim
  /\ \E keep \in SUBSET trim.items :
       /\ maxBytes > 0 /\ Total(trim.items) > maxBytes => Total(keep) <= (maxBytes * 80) \div 100
       /\ Loses(memory, onDisk \ (trim.items \ keep))

ThumbStep(r) ==
  \/ Join(r) \/ Follow(r) \/ Recheck(r) \/ MakeThumb(r) \/ StoreThumb(r) \/ FinishFlight(r)

ThumbsNext ==
  \/ \E r \in Viewings :
       AskImage(r) \/ ThumbStep(r) \/ AcquireSem(r) \/ StopFollowing(r) \/ StopLeading(r)
  \/ EvictMemory \/ SaveLimit \/ WalkDir \/ EvictDisk

ThumbsSpec == ThumbsInit /\ [][ThumbsNext]_thumbVars

\* Requests run, a library call returns or panics, and a channel serves those who
\* wait for it in the order in which they came.
ThumbsFairness ==
  \A r \in Viewings : WF_thumbVars(ThumbStep(r)) /\ SF_thumbVars(AcquireSem(r))
ThumbsFairSpec == ThumbsSpec /\ ThumbsFairness

-----------------------------------------------------------------------------
(* Properties *)

ThumbsTypeOK ==
  /\ flightOf \in [ThumbKeys -> 0 .. MaxFlights]
  /\ flights \in Seq({"open", "made", "failed"}) /\ memory \subseteq ThumbKeys
  /\ onDisk \subseteq ThumbKeys /\ maxBytes \in Limits
  /\ trim.at \in {"no", "walk", "evict"} /\ losses \in 0 .. MaxLosses
  /\ \A r \in Viewings :
       viewing[r].at \in {"out", "missed", "leads", "follows", "holds", "makes", "stores",
                          "done", "failed", "panics"}

\* A request for an image is answered, also when the one that makes the image
\* fails, panics, or has lost its client.
ImagesAreAnswered ==
  \A r \in Viewings :
    viewing[r].at \notin {"out", "missed"} ~> viewing[r].at = "out"

\* An image is made once, and once more for each time it has been lost, however
\* many requests have missed it before.
MadeOnce == \A k \in ThumbKeys : made[k] <= 1 + lostFiles[k]
==============================================================================
