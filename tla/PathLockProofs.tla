--------------------------- MODULE PathLockProofs ---------------------------
(***************************************************************************)
(* A path has one mutex, its entry lives as long as somebody needs it, no  *)
(* update is lost and no stale translation is saved: for every number of   *)
(* callers, paths and addresses.  The argument is the reference count: an  *)
(* entry in the table is one that somebody in flight works with, so a      *)
(* lookup never makes a second one.                                        *)
(***************************************************************************)
EXTENDS PathLock, FiniteSetTheorems, TLAPS

\* Callers in flight are linked to the entry of their path, the others to none.
Linked ==
  \A c \in Callers :
    /\ stage[c] # "idle" => path[c] \in Paths
    /\ c \in Inflight => entry[c] \in Entries /\ table[path[c]] = entry[c]
    /\ c \notin Inflight => entry[c] = NoPath

\* No entry serves two paths, and every entry in the table serves somebody.
Apart == \A p, q \in Paths : table[p] # NoPath /\ table[p] = table[q] => p = q
Used  == \A p \in Paths : table[p] # NoPath => \E c \in Inflight : entry[c] = table[p]

Counted == \A e \in Entries : refs[e] = Cardinality(Users(e))

\* The mutex of an entry is held by the caller that is inside with it.
Held ==
  /\ \A c \in Inside : holder[entry[c]] = c
  /\ \A e \in Entries : holder[e] # NoPath => holder[e] \in Inside /\ entry[holder[e]] = e

\* What a caller has read under the lock is still what the file says.
Fresh == \A c \in Callers : stage[c] = "read" => buf[c] = file[path[c]]

LockInv == Linked /\ Apart /\ Used /\ Counted /\ Held
IInv    == LockTypeOK /\ LockInv /\ Fresh

-----------------------------------------------------------------------------

LEMMA FiniteUsers == \A e : IsFiniteSet(Users(e))
<1> SUFFICES ASSUME NEW e PROVE IsFiniteSet(Users(e))
    OBVIOUS
<1>1. Users(e) \subseteq Callers
  BY DEF Users, Inflight
<1> QED BY <1>1, FS_Subset, PathLockAssumption

\* Two callers inside have different paths: one entry per path, one holder
\* per entry.
LEMMA InsideApart ==
  ASSUME LockTypeOK, LockInv, NEW c \in Inside, NEW d \in Inside, path[c] = path[d]
  PROVE  c = d
<1>1. c \in Inflight /\ d \in Inflight /\ c \in Callers /\ d \in Callers
  BY DEF Inside, Inflight
<1>2. entry[c] = entry[d]
  BY <1>1 DEF LockInv, Linked
<1> QED BY <1>2 DEF LockInv, Held

LEMMA OneMutex == LockTypeOK /\ LockInv => OneMutexPerPath
<1> SUFFICES ASSUME LockTypeOK, LockInv PROVE OneMutexPerPath
    OBVIOUS
<1>1. ASSUME NEW c \in Inflight PROVE entry[c] # NoPath /\ table[path[c]] = entry[c]
  <2>1. c \in Callers
    BY DEF Inflight
  <2> QED BY <2>1, PathLockAssumption DEF LockInv, Linked
<1> QED BY <1>1, InsideApart DEF OneMutexPerPath

LEMMA Reclaimed == LockTypeOK /\ LockInv => EntriesReclaimed
<1> SUFFICES ASSUME LockTypeOK, LockInv, NEW p \in Paths
             PROVE  table[p] # NoPath <=> \E c \in Inflight : path[c] = p
    BY DEF EntriesReclaimed
<1>1. \A c \in Inflight : c \in Callers /\ stage[c] # "idle"
  BY DEF Inflight
<1>2. ASSUME table[p] # NoPath PROVE \E c \in Inflight : path[c] = p
  <2>1. PICK c \in Inflight : entry[c] = table[p]
    BY <1>2 DEF LockInv, Used
  <2>2. table[path[c]] = table[p] /\ path[c] \in Paths
    BY <1>1, <2>1 DEF LockInv, Linked
  <2> QED BY <1>2, <2>2 DEF LockInv, Apart
<1>3. ASSUME NEW c \in Inflight, path[c] = p PROVE table[p] # NoPath
  BY <1>1, <1>3, PathLockAssumption DEF LockInv, Linked
<1> QED BY <1>2, <1>3

-----------------------------------------------------------------------------
(* The steps on the lock *)

\* A lookup finds the entry everybody in flight on the path works with, or
\* makes one when nobody is.
LEMMA LookupStep ==
  ASSUME LockTypeOK, LockInv, NEW c \in Callers, NEW p \in Paths,
         stage[c] \notin {"waiting", "locked", "read", "done", "unlocked"},
         Lookup(c, p), path'[c] = p, \A d \in Callers \ {c} : path'[d] = path[d]
  PROVE  LockInv' /\ UNCHANGED holder
         /\ table' \in [Paths -> Entries \cup {NoPath}] /\ refs' \in [Entries -> Nat]
         /\ entry' \in [Callers -> Entries \cup {NoPath}]
<1> USE DEF LockInv
<1>1. c \notin Inflight /\ entry[c] = NoPath
  BY DEF Inflight, Linked
<1>2. PICK e \in Entries :
        /\ entry' = [entry EXCEPT ![c] = e] /\ stage' = [stage EXCEPT ![c] = "waiting"]
        /\ UNCHANGED holder
        /\ \/ table[p] = e /\ UNCHANGED table /\ refs' = [refs EXCEPT ![e] = @ + 1]
           \/ /\ table[p] = NoPath /\ ~Reachable(e)
              /\ table' = [table EXCEPT ![p] = e] /\ refs' = [refs EXCEPT ![e] = 1]
  BY DEF Lookup, GotoLock, LockTypeOK
<1>3. Inflight' = Inflight \cup {c} /\ Inside' = Inside /\ c \notin Inside
  BY <1>1, <1>2 DEF Inflight, Inside, LockTypeOK
<1>4. /\ entry'[c] = e /\ \A d \in Callers \ {c} : entry'[d] = entry[d]
      /\ e # NoPath
  BY <1>2, PathLockAssumption DEF LockTypeOK
<1>5. table'[p] = e /\ \A q \in Paths \ {p} : table'[q] = table[q] /\ table'[q] # e
  BY <1>2, <1>4 DEF LockTypeOK, Apart, Reachable
<1>6. \A d \in Inflight : d \in Callers /\ d # c /\ path[d] \in Paths /\ table[path[d]] = entry[d]
                          /\ entry[d] \in Entries
  BY <1>1 DEF Inflight, Linked
<1>7. ASSUME NEW d \in Inflight PROVE table'[path[d]] = entry[d]
  <2>1. CASE path[d] = p
    BY <1>2, <1>4, <1>5, <1>6, <2>1, PathLockAssumption
  <2>2. CASE path[d] # p
    BY <1>5, <1>6, <2>2
  <2> QED BY <2>1, <2>2
<1>8. Linked'
  BY <1>1, <1>2, <1>3, <1>4, <1>5, <1>6, <1>7 DEF Linked, LockTypeOK
<1>9. Apart'
  BY <1>4, <1>5 DEF Apart
<1>10. Used'
  BY <1>3, <1>4, <1>5, <1>6 DEF Used
<1>11. \A d \in Entries : Users(d)' = IF d = e THEN Users(d) \cup {c} ELSE Users(d)
  BY <1>3, <1>4, <1>6 DEF Users
<1>12. refs[e] = Cardinality(Users(e)) /\ refs'[e] = refs[e] + 1
       /\ \A d \in Entries \ {e} : refs'[d] = refs[d]
  <2>1. refs[e] = Cardinality(Users(e)) /\ refs[e] \in Nat
    BY DEF Counted, LockTypeOK
  <2>2. ~Reachable(e) => refs[e] = 0
    BY <2>1, FS_EmptySet DEF Reachable
  <2> QED BY <1>2, <2>1, <2>2 DEF LockTypeOK
<1>13. Cardinality(Users(e) \cup {c}) = Cardinality(Users(e)) + 1
  <2>1. c \notin Users(e)
    BY <1>1 DEF Users
  <2> QED BY <2>1, FiniteUsers, FS_AddElement
<1>14. Counted'
  BY <1>11, <1>12, <1>13 DEF Counted
<1>15. Held'
  BY <1>2, <1>3, <1>4 DEF Held, Inside
<1>16. /\ table' \in [Paths -> Entries \cup {NoPath}] /\ refs' \in [Entries -> Nat]
       /\ entry' \in [Callers -> Entries \cup {NoPath}]
  BY <1>2 DEF LockTypeOK
<1> QED BY <1>2, <1>8, <1>9, <1>10, <1>14, <1>15, <1>16

\* Taking and giving back the mutex moves nothing but the holder.
LEMMA MutexStep ==
  ASSUME LockTypeOK, LockInv, NEW c \in Callers, LockEntry(c) \/ UnlockEntry(c)
  PROVE  LockInv' /\ holder' \in [Entries -> Callers \cup {NoPath}]
<1> USE DEF LockInv
<1>1. c \in Inflight /\ entry[c] \in Entries
  BY DEF LockEntry, UnlockEntry, Inflight, Linked
<1>2. UNCHANGED <<table, refs, entry, path>> /\ Inflight' = Inflight
  BY DEF LockEntry, UnlockEntry, Inflight, GotoLock, LockTypeOK
<1>3. Linked' /\ Apart' /\ Used'
  BY <1>1, <1>2 DEF Linked, Apart, Used, LockEntry, UnlockEntry, GotoLock, LockTypeOK
<1>4. \A e \in Entries : Users(e)' = Users(e)
  BY <1>2 DEF Users
<1>5. Counted'
  BY <1>2, <1>4 DEF Counted
<1>6. CASE LockEntry(c)
  <2>1. Inside' = Inside \cup {c} /\ holder' = [holder EXCEPT ![entry[c]] = c]
        /\ holder[entry[c]] = NoPath
    BY <1>6 DEF LockEntry, GotoLock, Inside, LockTypeOK
  <2>2. \A d \in Inside : entry[d] # entry[c]
    <3>1. \A d \in Inside : holder[entry[d]] = d /\ d \in Callers
      BY DEF Held, Inside
    <3> QED BY <2>1, <3>1, PathLockAssumption
  <2>3. \A d \in Inside : entry[d] \in Entries
    BY DEF Inside, Inflight, Linked
  <2>4. Held'
    BY <1>1, <1>2, <2>1, <2>2, <2>3 DEF Held, LockTypeOK
  <2> QED BY <1>3, <1>5, <2>1, <2>4 DEF LockTypeOK
<1>7. CASE UnlockEntry(c)
  <2>1. Inside' = Inside \ {c} /\ holder' = [holder EXCEPT ![entry[c]] = NoPath] /\ c \in Inside
    BY <1>7 DEF UnlockEntry, GotoLock, Inside, LockTypeOK
  <2>2. \A d \in Inside : holder[entry[d]] = d /\ entry[d] \in Entries
    BY DEF Inside, Inflight, Linked, Held
  <2>3. Held'
    BY <1>1, <1>2, <2>1, <2>2, PathLockAssumption DEF Held, LockTypeOK
  <2> QED BY <1>3, <1>5, <2>1, <2>3 DEF LockTypeOK
<1> QED BY <1>6, <1>7

\* The last reference takes the entry out of the table; until then somebody
\* else in flight keeps it there.
LEMMA ReturnStep ==
  ASSUME LockTypeOK, LockInv, NEW c \in Callers, ReturnEntry(c)
  PROVE  LockInv'
         /\ table' \in [Paths -> Entries \cup {NoPath}] /\ refs' \in [Entries -> Nat]
         /\ entry' \in [Callers -> Entries \cup {NoPath}]
<1> USE DEF LockInv
<1> DEFINE e == entry[c]  p == path[c]
<1>1. c \in Inflight /\ e \in Entries /\ p \in Paths /\ table[p] = e /\ e # NoPath
  BY PathLockAssumption DEF ReturnEntry, Inflight, Linked
<1>2. PICK loc \in {"idle", "translating"} :
        /\ stage' = [stage EXCEPT ![c] = loc]
        /\ \A d \in Callers \ {c} : path'[d] = path[d]
        /\ loc = "translating" => path'[c] = path[c]
  BY DEF ReturnEntry, GoOn, Rest, GotoLock, LockTypeOK
<1>3. Inflight' = Inflight \ {c} /\ Inside' = Inside /\ c \notin Inside
  BY <1>2 DEF ReturnEntry, Inflight, Inside, LockTypeOK
<1>4. /\ refs' = [refs EXCEPT ![e] = @ - 1] /\ entry' = [entry EXCEPT ![c] = NoPath]
      /\ table' = IF refs'[e] = 0 THEN [table EXCEPT ![p] = NoPath] ELSE table
      /\ UNCHANGED holder
  BY <1>1 DEF ReturnEntry
<1>5. /\ \A d \in Entries : Users(d)' = IF d = e THEN Users(d) \ {c} ELSE Users(d)
      /\ c \in Users(e)
  BY <1>1, <1>3, <1>4 DEF Users, Inflight, LockTypeOK
<1>6. /\ Cardinality(Users(e) \ {c}) = Cardinality(Users(e)) - 1
      /\ Cardinality(Users(e)) \in Nat \ {0}
  BY <1>5, FiniteUsers, FS_RemoveElement, FS_CardinalityType, FS_EmptySet
<1>7. refs' \in [Entries -> Nat] /\ refs'[e] = Cardinality(Users(e) \ {c})
      /\ \A d \in Entries \ {e} : refs'[d] = refs[d]
  BY <1>1, <1>4, <1>6 DEF Counted, LockTypeOK
<1>8. Counted'
  BY <1>5, <1>7 DEF Counted
<1>9. refs'[e] = 0 <=> Users(e) \ {c} = {}
  <2>1. IsFiniteSet(Users(e) \ {c})
    BY FiniteUsers, FS_Subset
  <2> QED BY <1>7, <2>1, FS_EmptySet
<1>10. \A q \in Paths : table'[q] = IF q = p /\ Users(e) \ {c} = {} THEN NoPath ELSE table[q]
  BY <1>4, <1>9 DEF LockTypeOK
<1>11. \A d \in Inflight \ {c} : /\ d \in Callers /\ stage[d] # "idle" /\ path[d] \in Paths
                                 /\ table[path[d]] = entry[d] /\ entry[d] \in Entries
  BY DEF Inflight, Linked
<1>12. ASSUME NEW d \in Inflight \ {c} PROVE table'[path[d]] = entry[d]
  <2>1. path[d] = p => d \in Users(e) \ {c}
    BY <1>1, <1>11 DEF Users
  <2> QED BY <1>10, <1>11, <2>1
<1>13. Linked'
  <2>1. ASSUME NEW d \in Callers, stage'[d] # "idle" PROVE path'[d] \in Paths
    BY <1>1, <1>2, <2>1 DEF Linked, LockTypeOK
  <2>2. ASSUME NEW d \in Inflight' PROVE entry'[d] \in Entries /\ table'[path'[d]] = entry'[d]
    <3>1. d \in Inflight \ {c}
      BY <1>3, <2>2
    <3> QED BY <1>2, <1>4, <1>11, <1>12, <3>1 DEF LockTypeOK
  <2>3. ASSUME NEW d \in Callers, d \notin Inflight' PROVE entry'[d] = NoPath
    BY <1>3, <1>4, <2>3 DEF Linked, LockTypeOK
  <2> QED BY <2>1, <2>2, <2>3 DEF Linked
<1>14. Apart'
  BY <1>10 DEF Apart
<1>15. Used'
  <2> SUFFICES ASSUME NEW q \in Paths, table'[q] # NoPath
               PROVE  \E d \in Inflight' : entry'[d] = table'[q]
      BY DEF Used
  <2>1. table'[q] = table[q] /\ (q = p => Users(e) \ {c} # {})
    BY <1>10
  <2>2. CASE q = p
    <3>1. PICK d \in Users(e) \ {c} : TRUE
      BY <2>1, <2>2
    <3> QED BY <1>1, <1>3, <1>4, <1>11, <2>1, <2>2, <3>1 DEF Users, LockTypeOK
  <2>3. CASE q # p
    <3>1. PICK d \in Inflight : entry[d] = table[q]
      BY <2>1 DEF Used
    <3>2. d # c
      BY <1>1, <2>1, <2>3, <3>1 DEF Apart
    <3> QED BY <1>3, <1>4, <1>11, <2>1, <3>1, <3>2 DEF LockTypeOK
  <2> QED BY <2>2, <2>3
<1>16. Held'
  BY <1>3, <1>4 DEF Held, Inside, LockTypeOK
<1>17. /\ table' \in [Paths -> Entries \cup {NoPath}]
       /\ entry' \in [Callers -> Entries \cup {NoPath}]
  BY <1>4 DEF LockTypeOK
<1> QED BY <1>7, <1>8, <1>13, <1>14, <1>15, <1>16, <1>17

\* A step that leaves the lock and everybody's place around it alone keeps its
\* invariant.
LEMMA OtherStep ==
  ASSUME LockInv, UNCHANGED tableVars, Inflight' = Inflight, Inside' = Inside,
         \A c \in Callers : stage'[c] # "idle" => stage[c] # "idle" /\ path'[c] = path[c]
  PROVE  LockInv'
<1> USE DEF LockInv, tableVars
<1>1. \A c \in Inflight : c \in Callers /\ path'[c] = path[c]
  <2>1. \A c \in Inflight' : c \in Callers /\ stage'[c] # "idle"
    BY DEF Inflight
  <2> QED BY <2>1
<1>2. Linked'
  BY <1>1 DEF Linked
<1>3. Apart' /\ Used'
  BY DEF Apart, Used
<1>4. Counted'
  BY DEF Counted, Users
<1>5. Held'
  BY DEF Held
<1> QED BY <1>2, <1>3, <1>4, <1>5

-----------------------------------------------------------------------------
(* The file *)

\* What a writer saves is made of what the file says, and nobody else is
\* between his read and his write of it.
LEMMA SaveStep ==
  ASSUME IInv, NEW c \in Callers, NEW text \in Contents, Save(c, text)
  PROVE  IInv'
<1> USE DEF IInv
<1>1. c \in Inside /\ c \in Inflight /\ path[c] \in Paths /\ stage[c] = "read"
  BY DEF Save, Inside, Inflight, LockInv, Linked
<1>2. /\ UNCHANGED <<tableVars, op, path, snap>> /\ stage' = [stage EXCEPT ![c] = "done"]
      /\ \A p \in Paths : p # path[c] => file'[p] = file[p]
      /\ \A d \in Callers \ {c} : buf'[d] = buf[d]
  BY DEF Save, GotoLock, LockTypeOK
<1>3. LockTypeOK'
  BY <1>1, <1>2 DEF Save, LockTypeOK, tableVars, LockPCs
<1>4. LockInv'
  <2>1. Inflight' = Inflight /\ Inside' = Inside
    BY <1>1, <1>2 DEF Inflight, Inside, LockTypeOK
  <2> QED BY <1>1, <1>2, <2>1, OtherStep DEF LockTypeOK
<1>5. Fresh'
  <2> SUFFICES ASSUME NEW d \in Callers, stage'[d] = "read" PROVE buf'[d] = file'[path'[d]]
      BY DEF Fresh
  <2>1. d # c /\ stage[d] = "read" /\ d \in Inside
    BY <1>2 DEF LockTypeOK, Inside
  <2>2. path[d] # path[c] /\ path[d] \in Paths
    BY <1>1, <2>1, InsideApart DEF LockInv, Linked
  <2> QED BY <1>2, <2>1, <2>2 DEF Fresh
<1> QED BY <1>3, <1>4, <1>5

\* What the three writers save.
LEMMA SavedText ==
  ASSUME IInv, NEW c \in Callers, SaveMark(c) \/ SaveEdit(c) \/ SaveTranslation(c)
  PROVE  \E text \in Contents :
           /\ Save(c, text)
           /\ file[path[c]].marks \subseteq text.marks
           /\ text.translated # file[path[c]].translated => text.translated = text.source
<1>1. stage[c] = "read" /\ path[c] \in Paths
  BY DEF SaveMark, SaveEdit, SaveTranslation, Save, IInv, LockInv, Linked
<1>2. buf[c] = file[path[c]] /\ buf[c] \in Contents /\ snap[c] \in Texts \cup {NoPath}
  BY <1>1 DEF IInv, Fresh, LockTypeOK
<1>3. CASE SaveMark(c)
  <2> DEFINE text == [buf[c] EXCEPT !.marks = @ \cup {c}]
  <2>1. text \in Contents /\ buf[c].marks \subseteq text.marks
        /\ text.translated = buf[c].translated
    BY <1>2 DEF Contents
  <2>2. Save(c, text)
    BY <1>3 DEF SaveMark
  <2> HIDE DEF text
  <2> QED BY <1>2, <2>1, <2>2
<1>4. CASE SaveEdit(c)
  <2>1. PICK t \in Texts : Save(c, [buf[c] EXCEPT !.source = t])
    BY <1>4 DEF SaveEdit
  <2> DEFINE text == [buf[c] EXCEPT !.source = t]
  <2>2. text \in Contents /\ text.marks = buf[c].marks /\ text.translated = buf[c].translated
    BY <1>2 DEF Contents
  <2>3. Save(c, text)
    BY <2>1
  <2> HIDE DEF text
  <2> QED BY <1>2, <2>2, <2>3
<1>5. CASE SaveTranslation(c)
  <2> DEFINE text == [buf[c] EXCEPT !.translated = snap[c]]
  <2>1. text \in Contents /\ text.marks = buf[c].marks /\ text.translated = text.source
    BY <1>2, <1>5 DEF SaveTranslation, Contents
  <2>2. Save(c, text)
    BY <1>5 DEF SaveTranslation
  <2> HIDE DEF text
  <2> QED BY <1>2, <2>1, <2>2
<1> QED BY <1>3, <1>4, <1>5

-----------------------------------------------------------------------------
(* The inductive invariant *)

LEMMA BlankIsText == Blank \in Contents
BY PathLockAssumption DEF Blank, Contents

LEMMA InitInv == LockInit => IInv
<1> SUFFICES ASSUME LockInit PROVE IInv
    OBVIOUS
<1>1. LockTypeOK
  BY BlankIsText DEF LockInit, LockTypeOK, LockPCs
<1>2. Inflight = {} /\ Inside = {}
  BY DEF LockInit, Inflight, Inside
<1>3. Linked /\ Apart /\ Used /\ Held
  BY <1>2 DEF LockInit, Linked, Apart, Used, Held
<1>4. Counted
  <2>1. \A e \in Entries : Users(e) = {}
    BY <1>2 DEF Users
  <2> QED BY <2>1, FS_EmptySet DEF LockInit, Counted
<1>5. Fresh
  BY DEF LockInit, Fresh
<1> QED BY <1>1, <1>3, <1>4, <1>5 DEF IInv, LockInv

\* What a step does to the callers' own state when it leaves the files alone:
\* whoever is at his writing has read what the file says.
LEMMA StillFresh ==
  ASSUME Fresh, UNCHANGED file,
         \A d \in Callers : stage'[d] = "read" =>
            \/ stage[d] = "read" /\ path'[d] = path[d] /\ buf'[d] = buf[d]
            \/ buf'[d] = file[path'[d]]
  PROVE  Fresh'
BY DEF Fresh

LEMMA RestTyped ==
  ASSUME LockTypeOK, NEW c \in Callers, Rest(c)
  PROVE  /\ stage' \in [Callers -> LockPCs] /\ op' \in [Callers -> Ops \cup {NoPath}]
         /\ path' \in [Callers -> Paths \cup {NoPath}]
         /\ snap' \in [Callers -> Texts \cup {NoPath}] /\ buf' \in [Callers -> Contents]
BY BlankIsText DEF LockTypeOK, Rest, GotoLock, LockPCs

LEMMA NextInv == IInv /\ [LockNext]_pathVars => IInv'
<1> SUFFICES ASSUME IInv, [LockNext]_pathVars PROVE IInv'
    OBVIOUS
<1> USE DEF IInv
<1>1. ASSUME NEW c \in Callers, NEW p \in Paths, NEW o \in Ops, Start(c, p, o) PROVE IInv'
  <2>1. /\ path' = [path EXCEPT ![c] = p] /\ op' = [op EXCEPT ![c] = o]
        /\ stage' = [stage EXCEPT ![c] = "waiting"] /\ Lookup(c, p) /\ stage[c] = "idle"
        /\ UNCHANGED <<snap, buf, file>>
    BY <1>1 DEF Start, Lookup, GotoLock
  <2>2. path'[c] = p /\ \A d \in Callers \ {c} : path'[d] = path[d]
    BY <2>1 DEF LockTypeOK
  <2>3. /\ LockInv' /\ UNCHANGED holder
        /\ table' \in [Paths -> Entries \cup {NoPath}] /\ refs' \in [Entries -> Nat]
        /\ entry' \in [Callers -> Entries \cup {NoPath}]
    BY <2>1, <2>2, LookupStep
  <2>4. LockTypeOK'
    BY <2>1, <2>3 DEF LockTypeOK, LockPCs
  <2>5. Fresh'
    BY <2>1, <2>2, StillFresh DEF LockTypeOK
  <2> QED BY <2>3, <2>4, <2>5
<1>2. ASSUME NEW c \in Callers, Resume(c) PROVE IInv'
  <2>1. /\ stage' = [stage EXCEPT ![c] = "waiting"] /\ Lookup(c, path[c]) /\ stage[c] = "translating"
        /\ UNCHANGED <<op, path, snap, buf, file>>
    BY <1>2 DEF Resume, Lookup, GotoLock
  <2>2. path[c] \in Paths
    BY <2>1 DEF LockInv, Linked
  <2>3. /\ LockInv' /\ UNCHANGED holder
        /\ table' \in [Paths -> Entries \cup {NoPath}] /\ refs' \in [Entries -> Nat]
        /\ entry' \in [Callers -> Entries \cup {NoPath}]
    BY <2>1, <2>2, LookupStep
  <2>4. LockTypeOK'
    BY <2>1, <2>3 DEF LockTypeOK, LockPCs
  <2>5. Fresh'
    BY <2>1, StillFresh DEF LockTypeOK
  <2> QED BY <2>3, <2>4, <2>5
<1>3. ASSUME NEW c \in Callers, LockEntry(c) \/ UnlockEntry(c) PROVE IInv'
  <2>1. LockInv' /\ holder' \in [Entries -> Callers \cup {NoPath}]
    BY <1>3, MutexStep
  <2>2. /\ UNCHANGED <<table, refs, entry, op, path, snap, buf, file>>
        /\ \E loc \in {"locked", "unlocked"} : stage' = [stage EXCEPT ![c] = loc]
    BY <1>3 DEF LockEntry, UnlockEntry, GotoLock
  <2>3. LockTypeOK'
    BY <2>1, <2>2 DEF LockTypeOK, LockPCs
  <2>4. Fresh'
    BY <2>2, StillFresh DEF LockTypeOK
  <2> QED BY <2>1, <2>3, <2>4
<1>4. ASSUME NEW c \in Callers, ReturnEntry(c) PROVE IInv'
  <2>1. /\ LockInv' /\ table' \in [Paths -> Entries \cup {NoPath}] /\ refs' \in [Entries -> Nat]
        /\ entry' \in [Callers -> Entries \cup {NoPath}]
    BY <1>4, ReturnStep
  <2>2. GoOn(c) /\ UNCHANGED <<holder, file>>
    BY <1>4 DEF ReturnEntry
  <2>3. LockTypeOK'
    <3>1. CASE Rest(c)
      BY <2>1, <2>2, <3>1, RestTyped DEF LockTypeOK
    <3>2. CASE op[c] = "snapshot" /\ snap[c] # NoPath
      BY <2>1, <2>2, <3>2, BlankIsText DEF LockTypeOK, GoOn, GotoLock, LockPCs, Ops
    <3> QED BY <2>2, <3>1, <3>2 DEF GoOn
  <2>4. Fresh'
    <3>1. \A d \in Callers : stage'[d] = "read" =>
             stage[d] = "read" /\ path'[d] = path[d] /\ buf'[d] = buf[d]
      BY <2>2 DEF GoOn, Rest, GotoLock, LockTypeOK
    <3> QED BY <2>2, <3>1, StillFresh
  <2> QED BY <2>1, <2>3, <2>4
<1>5. ASSUME NEW c \in Callers, ReadFile(c) PROVE IInv'
  <2>1. path[c] \in Paths
    BY <1>5 DEF ReadFile, LockInv, Linked
  <2>2. LockTypeOK'
    BY <1>5, <2>1 DEF ReadFile, GotoLock, LockTypeOK, LockPCs, tableVars
  <2>3. Inflight' = Inflight /\ Inside' = Inside
    BY <1>5 DEF ReadFile, GotoLock, Inflight, Inside, LockTypeOK
  <2>4. LockInv'
    <3>1. \A d \in Callers : stage'[d] # "idle" => stage[d] # "idle" /\ path'[d] = path[d]
      BY <1>5 DEF ReadFile, GotoLock, LockTypeOK
    <3> QED BY <1>5, <2>3, <3>1, OtherStep DEF ReadFile
  <2>5. Fresh'
    <3>1. \A d \in Callers : stage'[d] = "read" =>
            \/ stage[d] = "read" /\ path'[d] = path[d] /\ buf'[d] = buf[d]
            \/ buf'[d] = file[path'[d]]
      BY <1>5 DEF ReadFile, GotoLock, LockTypeOK
    <3> QED BY <1>5, <3>1, StillFresh DEF ReadFile
  <2> QED BY <2>2, <2>4, <2>5
<1>6. ASSUME NEW c \in Callers, SaveMark(c) \/ SaveEdit(c) \/ SaveTranslation(c) PROVE IInv'
  BY <1>6, SavedText, SaveStep
<1>7. ASSUME NEW c \in Callers, TakeSnapshot(c) \/ Conflict(c) PROVE IInv'
  <2>1. /\ UNCHANGED <<tableVars, op, path, buf, file>> /\ stage[c] = "read"
        /\ stage' = [stage EXCEPT ![c] = "done"]
        /\ snap' = snap \/ snap' = [snap EXCEPT ![c] = buf[c].source]
    BY <1>7 DEF TakeSnapshot, Conflict, GotoLock
  <2>2. LockTypeOK'
    BY <2>1 DEF LockTypeOK, LockPCs, tableVars, Contents
  <2>3. Inflight' = Inflight /\ Inside' = Inside
    BY <2>1 DEF Inflight, Inside, LockTypeOK
  <2>4. LockInv'
    <3>1. \A d \in Callers : stage'[d] # "idle" => stage[d] # "idle" /\ path'[d] = path[d]
      BY <2>1 DEF LockTypeOK
    <3> QED BY <2>1, <2>3, <3>1, OtherStep
  <2>5. Fresh'
    BY <2>1, StillFresh DEF LockTypeOK
  <2> QED BY <2>2, <2>4, <2>5
<1>8. ASSUME NEW c \in Callers, TranslationFails(c) PROVE IInv'
  <2>1. Rest(c) /\ UNCHANGED <<tableVars, file>> /\ stage[c] = "translating"
    BY <1>8 DEF TranslationFails
  <2>2. LockTypeOK'
    BY <2>1, RestTyped DEF LockTypeOK, tableVars
  <2>3. stage' = [stage EXCEPT ![c] = "idle"] /\ \A d \in Callers \ {c} : path'[d] = path[d] /\ buf'[d] = buf[d]
    BY <2>1 DEF Rest, GotoLock, LockTypeOK
  <2>4. Inflight' = Inflight /\ Inside' = Inside
    BY <2>1, <2>3 DEF Inflight, Inside, LockTypeOK
  <2>5. LockInv'
    <3>1. \A d \in Callers : stage'[d] # "idle" => stage[d] # "idle" /\ path'[d] = path[d]
      BY <2>3 DEF LockTypeOK
    <3> QED BY <2>1, <2>4, <3>1, OtherStep
  <2>6. Fresh'
    BY <2>1, <2>3, StillFresh DEF LockTypeOK
  <2> QED BY <2>2, <2>5, <2>6
<1>9. CASE UNCHANGED pathVars
  <2>1. UNCHANGED <<tableVars, stage, op, path, snap, buf, file>>
    BY <1>9 DEF pathVars, tableVars
  <2>2. LockTypeOK'
    BY <2>1 DEF LockTypeOK, tableVars
  <2>3. LockInv'
    BY <2>1, OtherStep DEF Inflight, Inside
  <2>4. Fresh'
    BY <2>1 DEF Fresh
  <2> QED BY <2>2, <2>3, <2>4
<1> QED BY <1>1, <1>2, <1>3, <1>4, <1>5, <1>6, <1>7, <1>8, <1>9 DEF LockNext, Work, Unlock

-----------------------------------------------------------------------------
(* What it gives *)

\* The lock's invariant holds in every reachable state.
THEOREM Inductive == LockSpec => []IInv
<1>1. LockInit => IInv
  BY InitInv
<1>2. IInv /\ [LockNext]_pathVars => IInv'
  BY NextInv
<1> QED BY <1>1, <1>2, PTL DEF LockSpec

\* Every variable keeps its type; above all, a reference count never goes
\* below zero.
THEOREM TypeCorrect == LockSpec => []LockTypeOK
<1>1. IInv => LockTypeOK
  BY DEF IInv
<1> QED BY <1>1, Inductive, PTL

\* lockNFOPath never hands out two mutexes for a path.
THEOREM OneMutexAlways == LockSpec => []OneMutexPerPath
<1>1. IInv => OneMutexPerPath
  BY OneMutex DEF IInv
<1> QED BY <1>1, Inductive, PTL

\* The table of lockNFOPath holds what is in use and nothing else.
THEOREM ReclaimedAlways == LockSpec => []EntriesReclaimed
<1>1. IInv => EntriesReclaimed
  BY Reclaimed DEF IInv
<1> QED BY <1>1, Inductive, PTL

\* Only the three writers touch a file, each the one of its own path.
LEMMA FileStep ==
  ASSUME IInv, [LockNext]_pathVars
  PROVE  \A p \in Paths :
           /\ file[p].marks \subseteq file'[p].marks
           /\ file'[p].translated # file[p].translated
                => file'[p].translated = file'[p].source
<1>1. ASSUME NEW c \in Callers, SaveMark(c) \/ SaveEdit(c) \/ SaveTranslation(c),
             NEW p \in Paths
      PROVE  /\ file[p].marks \subseteq file'[p].marks
             /\ file'[p].translated # file[p].translated
                  => file'[p].translated = file'[p].source
  <2>1. PICK text \in Contents :
           /\ Save(c, text)
           /\ file[path[c]].marks \subseteq text.marks
           /\ text.translated # file[path[c]].translated => text.translated = text.source
    BY <1>1, SavedText
  <2>2. file'[p] = file[p] \/ (p = path[c] /\ file'[p] = text)
    BY <2>1 DEF Save, IInv, LockTypeOK
  <2> QED BY <2>1, <2>2
<1>2. (\E c \in Callers : SaveMark(c) \/ SaveEdit(c) \/ SaveTranslation(c)) \/ UNCHANGED file
  BY DEF LockNext, Work, Unlock, Start, Resume, LockEntry, UnlockEntry, ReturnEntry, ReadFile,
         TakeSnapshot, Conflict, TranslationFails, pathVars
<1> QED BY <1>1, <1>2

\* No writer of an NFO file undoes what another one has saved.
THEOREM UpdatesAreKept == LockSpec => UpdatesKept
<1>1. IInv /\ [LockNext]_pathVars => [\A p \in Paths : file[p].marks \subseteq file'[p].marks]_pathVars
  BY FileStep
<1> QED BY <1>1, Inductive, PTL DEF LockSpec, UpdatesKept

\* CommitTranslation never saves a translation of a text that has changed.
THEOREM TranslationsAreCurrent == LockSpec => TranslationOfSource
<1>1. IInv /\ [LockNext]_pathVars =>
        [\A p \in Paths : file'[p].translated # file[p].translated
           => file'[p].translated = file'[p].source]_pathVars
  BY FileStep
<1> QED BY <1>1, Inductive, PTL DEF LockSpec, TranslationOfSource
=============================================================================
