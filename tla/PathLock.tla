----------------------------- MODULE PathLock ------------------------------
(***************************************************************************)
(* One mutex per NFO path, kept in a table that forgets it when nobody     *)
(* needs it (internal/nfo/nfo.go lockNFOPath; internal/scraper/apply.go    *)
(* lockImageCommit has the same shape), and the writers of NFO files that  *)
(* rely on it: each reads the whole file, changes a part and renames a new *)
(* file over the old one, and a translation does so twice, with a call to  *)
(* the translator in between that holds no lock.                           *)
(*                                                                         *)
(* A step is a critical section of pathLockGuard, an operation on the      *)
(* mutex of an entry, or one access to the file.  An entry is a pointer: a *)
(* new one is taken from those nobody can reach.  Paths stand for the keys *)
(* that pathLockKey makes of their spellings.                              *)
(***************************************************************************)
EXTENDS Integers, FiniteSets

CONSTANTS Callers, \* goroutines
          Paths,   \* absolute, clean paths
          Entries, \* addresses of lock entries
          Texts,   \* what the translated fields of a file can hold
          NoPath     \* a nil pointer, a free mutex, no translation

\* What a caller came for; a translation is a snapshot and then a commit.
Ops == {"mark", "edit", "snapshot", "commit"}

ASSUME PathLockAssumption ==
  /\ IsFiniteSet(Callers)
  /\ NoPath \notin Callers \cup Entries \cup Texts \cup Paths \cup Ops
  /\ Texts # {}

LockPCs == {"idle", "waiting", "locked", "read", "done", "unlocked", "translating"}

VARIABLES
  table,   \* pathLocks: the entry of a path, or NoPath
  refs,    \* entry.refs
  holder,  \* who holds entry.mu, or NoPath
  stage, op, path,
  entry,   \* the entry a caller works with
  snap,    \* a translation's snapshot, or NoPath before it is taken
  buf,     \* the text a caller has read
  file     \* by path: the source text, the source of the translation, the
           \* parts that callers have put into it

pathVars == <<table, refs, holder, stage, op, path, entry, snap, buf, file>>

Contents == [source : Texts, translated : Texts \cup {NoPath}, marks : SUBSET Callers]

\* Callers that have taken a reference and not given it back, and the ones
\* between Lock and Unlock.
Inflight == {c \in Callers : stage[c] \in {"waiting", "locked", "read", "done", "unlocked"}}
Inside   == {c \in Callers : stage[c] \in {"locked", "read", "done"}}
Users(e) == {c \in Inflight : entry[c] = e}

Reachable(e) == (\E p \in Paths : table[p] = e) \/ Users(e) # {}

LockTypeOK ==
  /\ table \in [Paths -> Entries \cup {NoPath}]
  /\ refs \in [Entries -> Nat]
  /\ holder \in [Entries -> Callers \cup {NoPath}]
  /\ stage \in [Callers -> LockPCs]
  /\ op \in [Callers -> Ops \cup {NoPath}]
  /\ path \in [Callers -> Paths \cup {NoPath}]
  /\ entry \in [Callers -> Entries \cup {NoPath}]
  /\ snap \in [Callers -> Texts \cup {NoPath}]
  /\ buf \in [Callers -> Contents]
  /\ file \in [Paths -> Contents]

Blank == [source |-> CHOOSE t \in Texts : TRUE, translated |-> NoPath, marks |-> {}]

LockInit ==
  /\ table = [p \in Paths |-> NoPath]
  /\ refs = [e \in Entries |-> 0] /\ holder = [e \in Entries |-> NoPath]
  /\ stage = [c \in Callers |-> "idle"]
  /\ op = [c \in Callers |-> NoPath] /\ path = [c \in Callers |-> NoPath]
  /\ entry = [c \in Callers |-> NoPath]
  /\ snap = [c \in Callers |-> NoPath]
  /\ buf = [c \in Callers |-> Blank] /\ file = [p \in Paths |-> Blank]

GotoLock(c, loc) == stage' = [stage EXCEPT ![c] = loc]
tableVars == <<table, refs, holder, entry>>

-----------------------------------------------------------------------------
(* lockNFOPath and the function it returns *)

\* Under pathLockGuard: the entry of the path, or a new one, and a reference
\* to it before the wait for its mutex.
Lookup(c, p) ==
  /\ IF table[p] # NoPath
     THEN /\ entry' = [entry EXCEPT ![c] = table[p]]
          /\ refs' = [refs EXCEPT ![table[p]] = @ + 1]
          /\ UNCHANGED table
     ELSE \E e \in Entries :
            /\ ~Reachable(e)
            /\ entry' = [entry EXCEPT ![c] = e]
            /\ table' = [table EXCEPT ![p] = e] /\ refs' = [refs EXCEPT ![e] = 1]
  /\ GotoLock(c, "waiting") /\ UNCHANGED holder

Start(c, p, o) ==
  /\ stage[c] = "idle"
  /\ path' = [path EXCEPT ![c] = p] /\ op' = [op EXCEPT ![c] = o]
  /\ Lookup(c, p)
  /\ UNCHANGED <<snap, buf, file>>

\* The second half of a translation, after the translator answered, or not.
Resume(c) ==
  /\ stage[c] = "translating" /\ Lookup(c, path[c])
  /\ UNCHANGED <<op, path, snap, buf, file>>

\* An idle caller holds nothing.
Rest(c) ==
  /\ GotoLock(c, "idle")
  /\ op' = [op EXCEPT ![c] = NoPath] /\ path' = [path EXCEPT ![c] = NoPath]
  /\ snap' = [snap EXCEPT ![c] = NoPath] /\ buf' = [buf EXCEPT ![c] = Blank]
TranslationFails(c) ==
  stage[c] = "translating" /\ Rest(c) /\ UNCHANGED <<tableVars, file>>

LockEntry(c) ==
  /\ stage[c] = "waiting" /\ holder[entry[c]] = NoPath
  /\ holder' = [holder EXCEPT ![entry[c]] = c]
  /\ GotoLock(c, "locked")
  /\ UNCHANGED <<table, refs, entry, op, path, snap, buf, file>>

UnlockEntry(c) ==
  /\ stage[c] = "done"
  /\ holder' = [holder EXCEPT ![entry[c]] = NoPath]
  /\ GotoLock(c, "unlocked")
  /\ UNCHANGED <<table, refs, entry, op, path, snap, buf, file>>

\* Where a caller goes on: a snapshot goes to the translator, everything else
\* is over.
GoOn(c) ==
  IF op[c] = "snapshot" /\ snap[c] # NoPath
  THEN /\ GotoLock(c, "translating") /\ op' = [op EXCEPT ![c] = "commit"]
       /\ buf' = [buf EXCEPT ![c] = Blank] /\ UNCHANGED <<path, snap>>
  ELSE Rest(c)

\* Seeded faults: the entry goes with its first user; it never goes.
ReturnAtOnce(c) ==
  /\ stage[c] = "unlocked"
  /\ refs' = [refs EXCEPT ![entry[c]] = @ - 1]
  /\ table' = [table EXCEPT ![path[c]] = NoPath]
  /\ entry' = [entry EXCEPT ![c] = NoPath]
  /\ GoOn(c) /\ UNCHANGED <<holder, file>>
ReturnKeeping(c) ==
  /\ stage[c] = "unlocked"
  /\ refs' = [refs EXCEPT ![entry[c]] = @ - 1]
  /\ entry' = [entry EXCEPT ![c] = NoPath]
  /\ GoOn(c) /\ UNCHANGED <<table, holder, file>>

\* Under pathLockGuard again: the reference goes, and the last one takes the
\* entry with it, unless the path has another entry by now.
ReturnEntry(c) ==
  /\ stage[c] = "unlocked"
  /\ refs' = [refs EXCEPT ![entry[c]] = @ - 1]
  /\ table' = IF refs'[entry[c]] = 0 /\ table[path[c]] = entry[c]
              THEN [table EXCEPT ![path[c]] = NoPath] ELSE table
  /\ entry' = [entry EXCEPT ![c] = NoPath]
  /\ GoOn(c) /\ UNCHANGED <<holder, file>>

-----------------------------------------------------------------------------
(* What a caller does under the lock *)

\* ReadFile, or its failure.
ReadFile(c) ==
  /\ stage[c] = "locked"
  /\ \/ GotoLock(c, "read") /\ buf' = [buf EXCEPT ![c] = file[path[c]]]
     \/ GotoLock(c, "done") /\ UNCHANGED buf
  /\ UNCHANGED <<tableVars, op, path, snap, file>>

\* The new text renamed over the old one, or an error that leaves it alone.
Save(c, text) ==
  /\ stage[c] = "read" /\ GotoLock(c, "done")
  /\ \/ file' = [file EXCEPT ![path[c]] = text] /\ buf' = [buf EXCEPT ![c] = text]
     \/ UNCHANGED <<file, buf>>
  /\ UNCHANGED <<tableVars, op, path, snap>>

\* SaveFileInfo, SetActorThumb: a block of the caller's own.
SaveMark(c) ==
  op[c] = "mark" /\ Save(c, [buf[c] EXCEPT !.marks = @ \cup {c}])

\* A scrape or an edit gives the file another source text.
SaveEdit(c) ==
  op[c] = "edit" /\ \E t \in Texts : Save(c, [buf[c] EXCEPT !.source = t])

\* ReadTranslationSnapshot
TakeSnapshot(c) ==
  /\ op[c] = "snapshot" /\ stage[c] = "read"
  /\ GotoLock(c, "done")
  /\ snap' = [snap EXCEPT ![c] = buf[c].source]
  /\ UNCHANGED <<tableVars, op, path, buf, file>>

\* Seeded fault: the translation is saved without another look at the source.
SaveTranslationBlindly(c) ==
  op[c] = "commit" /\ Save(c, [buf[c] EXCEPT !.translated = snap[c]])

\* CommitTranslation saves if the file still has the source it had ...
SaveTranslation(c) ==
  /\ op[c] = "commit" /\ buf[c].source = snap[c]
  /\ Save(c, [buf[c] EXCEPT !.translated = snap[c]])

\* Seeded fault: the early return skips the deferred unlock.
ConflictReturning(c) ==
  /\ op[c] = "commit" /\ buf[c].source # snap[c]
  /\ stage[c] = "read" /\ GotoLock(c, "unlocked")
  /\ UNCHANGED <<tableVars, op, path, snap, buf, file>>

\* ... and is a conflict otherwise.
Conflict(c) ==
  /\ op[c] = "commit" /\ buf[c].source # snap[c]
  /\ stage[c] = "read" /\ GotoLock(c, "done")
  /\ UNCHANGED <<tableVars, op, path, snap, buf, file>>

Work(c) == ReadFile(c) \/ SaveMark(c) \/ SaveEdit(c) \/ TakeSnapshot(c)
           \/ SaveTranslation(c) \/ Conflict(c)
Unlock(c) == UnlockEntry(c) \/ ReturnEntry(c)

LockNext == \E c \in Callers :
          \/ \E p \in Paths, o \in Ops \ {"commit"} : Start(c, p, o)
          \/ LockEntry(c) \/ Work(c) \/ Unlock(c)
          \/ Resume(c) \/ TranslationFails(c)

LockSpec == LockInit /\ [][LockNext]_pathVars

\* Whatever a caller does that waits for nobody but the translator.
Proceed(c) == Work(c) \/ Unlock(c) \/ Resume(c) \/ TranslationFails(c)

\* Goroutines are scheduled, the translator answers or times out, and a Go
\* mutex is handed to whoever has waited for a millisecond.
LockFairSpec ==
  /\ LockSpec
  /\ \A c \in Callers : WF_pathVars(Proceed(c)) /\ SF_pathVars(LockEntry(c))

-----------------------------------------------------------------------------
(* Properties *)

\* The claim the table is built on: everybody in flight on a path works with
\* the one entry the table has for it, so a path never gets a second mutex
\* however lookups, waits and removals interleave.
OneMutexPerPath ==
  /\ \A c \in Inflight : entry[c] # NoPath /\ table[path[c]] = entry[c]
  /\ \A c, d \in Inside : c # d => path[c] # path[d]

\* The table holds an entry for exactly the paths somebody is in flight on: it
\* does not grow with the paths ever seen.
EntriesReclaimed ==
  \A p \in Paths : table[p] # NoPath <=> \E c \in Inflight : path[c] = p

\* No writer loses what another one saved: parts stay in the file whoever
\* rewrites it afterwards, from whatever text he had read.
UpdatesKept == [][\A p \in Paths : file[p].marks \subseteq file'[p].marks]_pathVars

\* A translation that is saved is one of the text the file has now, although
\* the lock was free while the translator worked.
TranslationOfSource ==
  [][\A p \in Paths : file'[p].translated # file[p].translated
       => file'[p].translated = file'[p].source]_pathVars

\* Whoever starts comes to an end.
CallersReturn == \A c \in Callers : stage[c] # "idle" ~> stage[c] = "idle"
=============================================================================
