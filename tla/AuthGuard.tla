----------------------------- MODULE AuthGuard -----------------------------
(***************************************************************************)
(* The budget of wrong passwords (internal/server/auth_guard.go) and the   *)
(* life of a credential request through it (auth.go, users_admin.go,       *)
(* auth_guard_handlers.go, api_key_rotation.go).                           *)
(*                                                                         *)
(* A request is admitted by its source, reserves one attempt on its        *)
(* account and on the combination of both, checks the password in one of   *)
(* a few bcrypt slots, may commit, and always ends in Finish, which gives  *)
(* the reservation back and turns a wrong password into a failure.  Every  *)
(* action of the guard is one critical section of authGuard.mu.            *)
(*                                                                         *)
(* Times are ages: a history knows for how long its window has been open   *)
(* and for how long it has been blocked, and Tick makes everything older.  *)
(* The request buckets and the log of refusals are not modelled: a request *)
(* may be turned away by them at any time.                                 *)
(***************************************************************************)
EXTENDS Integers, FiniteSets

CONSTANTS Requests, IPs, Accounts,
          None,       \* a ticket without an account (accountKey = "")
          IPLimit, AccountLimit, ComboLimit,     \* failures that close a key
          IPWindow, AccountWindow, ComboWindow,  \* ticks after which they lapse
          Cooldown,   \* ticks a full account stays blocked
          MaxKeys,    \* histories the table holds
          Slots       \* passwords checked at a time

Combos == IPs \X Accounts
Keys   == IPs \cup Accounts \cup Combos

ASSUME SetsAssumption ==
  /\ IsFiniteSet(Requests)
  /\ None \notin IPs \cup Accounts
  /\ IPs \cap Accounts = {} /\ (IPs \cup Accounts) \cap Combos = {}

ASSUME NumbersAssumption ==
  /\ {IPLimit, AccountLimit, ComboLimit} \subseteq Nat \ {0}
  /\ {IPWindow, AccountWindow, ComboWindow, Cooldown} \subseteq Nat \ {0}
  /\ MaxKeys \in Nat /\ Slots \in Nat \ {0}

Limit(k)  == IF k \in IPs THEN IPLimit ELSE IF k \in Accounts THEN AccountLimit ELSE ComboLimit
Window(k) == IF k \in IPs THEN IPWindow ELSE IF k \in Accounts THEN AccountWindow ELSE ComboWindow

NotBlocked == -1

\* A key without a history; one with a history counts at least one failure.
Fresh == [n |-> 0, age |-> 0, rest |-> NotBlocked]

Outcomes == {"interrupted", "invalid", "verified", "storage"}

VARIABLES
  hist,     \* failures: per key the count, the age of its window and of its block
  inflight, \* reserved attempts, by key
  pc,       \* where the request's handler is
  ip,       \* its source, or None
  acct,     \* the account it has reserved an attempt on, or None
  outcome   \* what the deferred Finish will be told

vars == <<hist, inflight, pc, ip, acct, outcome>>

PCs == {"idle", "admitted", "attached", "checking", "committing", "unlocked", "ending"}

KeysOf(r) == {ip[r], acct[r], <<ip[r], acct[r]>>}

\* The requests that hold a reservation on a key.
Reservers(k) == {r \in Requests : acct[r] # None /\ k \in KeysOf(r)}

TypeOK ==
  /\ hist \in [Keys -> [n : Nat, age : Nat, rest : Nat \cup {NotBlocked}]]
  /\ inflight \in [Keys -> Nat]
  /\ pc \in [Requests -> PCs]
  /\ ip \in [Requests -> IPs \cup {None}]
  /\ acct \in [Requests -> Accounts \cup {None}]
  /\ outcome \in [Requests -> Outcomes]

Init ==
  /\ hist = [k \in Keys |-> Fresh]
  /\ inflight = [k \in Keys |-> 0]
  /\ pc = [r \in Requests |-> "idle"]
  /\ ip = [r \in Requests |-> None]
  /\ acct = [r \in Requests |-> None]
  /\ outcome = [r \in Requests |-> "interrupted"]

-----------------------------------------------------------------------------
(* The table of histories.  h is the table as an earlier line left it. *)

Present(h)    == {k \in Keys : h[k].n > 0}
Expired(h, k) == h[k].n > 0 /\ h[k].age >= Window(k)
Full(h, k)    == h[k].n + inflight[k] >= Limit(k)

\* gcLocked drops every history whose window is over.
Collected(h) == [k \in Keys |-> IF Expired(h, k) THEN Fresh ELSE h[k]]

\* Seeded fault: the reservations in flight are not counted.
RefusesCounted(h, k) == h[k].n >= Limit(k) /\ ~(h[k].rest >= Cooldown)

\* retryForKeyLocked: what it deletes, and whether it refuses after that.  A
\* blocked account whose cooldown is over starts afresh, and is let in without
\* another look at its reservations.
Looked(h, k) ==
  IF Expired(h, k) \/ (Full(h, k) /\ h[k].n > 0 /\ h[k].rest >= Cooldown)
  THEN [h EXCEPT ![k] = Fresh] ELSE h

Refuses(h, k) ==
  IF Expired(h, k) \/ h[k].n = 0 THEN inflight[k] >= Limit(k)
  ELSE Full(h, k) /\ ~(h[k].rest >= Cooldown)

\* recordFailureLocked: a full table takes no new key, and only an account is
\* blocked, from the failure that fills its budget.
Recorded(h, k) ==
  LET old == IF Expired(h, k) THEN Fresh ELSE h[k]
      rest == IF k \in Accounts /\ old.n + 1 >= Limit(k) /\ old.rest = NotBlocked
              THEN 0 ELSE old.rest
  IN  IF old.n = 0 /\ Cardinality(Present(h) \ {k}) >= MaxKeys
      THEN [h EXCEPT ![k] = old]
      ELSE [h EXCEPT ![k] = [n |-> old.n + 1, age |-> old.age, rest |-> rest]]

Cleared(h, gone) == [k \in Keys |-> IF k \in gone THEN Fresh ELSE h[k]]
KeysOfAccount(a) == {a} \cup (IPs \X {a})

-----------------------------------------------------------------------------
(* A request *)

Goto(r, loc) == pc' = [pc EXCEPT ![r] = loc]
End(r, out)  == Goto(r, "ending") /\ outcome' = [outcome EXCEPT ![r] = out]

\* AdmitRequest, with or without a collection first: refused by a bucket, by
\* the failures of its source, or let in.
Admit(r, i) ==
  /\ pc[r] = "idle"
  /\ \E h \in {hist, Collected(hist)} :
       \/ hist' = h /\ UNCHANGED <<pc, ip>>
       \/ /\ hist' = Looked(h, i)
          /\ IF Refuses(h, i) THEN UNCHANGED <<pc, ip>>
             ELSE Goto(r, "admitted") /\ ip' = [ip EXCEPT ![r] = i]
  /\ UNCHANGED <<inflight, acct, outcome>>

\* AttachAccount: both budgets, then the reservation, in one critical section.
AttachAccount(r, a) ==
  /\ pc[r] = "admitted"
  /\ LET i  == ip[r]
         h1 == Looked(hist, a)
     IN  IF Refuses(hist, a)
         THEN hist' = h1 /\ End(r, "interrupted") /\ UNCHANGED <<inflight, acct>>
         ELSE /\ hist' = Looked(h1, <<i, a>>)
              /\ IF Refuses(h1, <<i, a>>)
                 THEN End(r, "interrupted") /\ UNCHANGED <<inflight, acct>>
                 ELSE /\ inflight' = [k \in Keys |-> IF k \in {i, a, <<i, a>>}
                                                      THEN inflight[k] + 1 ELSE inflight[k]]
                      /\ acct' = [acct EXCEPT ![r] = a]
                      /\ Goto(r, "attached") /\ UNCHANGED outcome
  /\ UNCHANGED ip

\* A login without a name reserves nothing and goes on.
AttachNobody(r) ==
  /\ pc[r] = "admitted" /\ Goto(r, "attached")
  /\ UNCHANGED <<hist, inflight, ip, acct, outcome>>

\* An unreadable body counts as a failure of the source, an oversized one does
\* not; the same path ends a refused first initialisation.
BadRequest(r) ==
  /\ pc[r] = "admitted" /\ \E out \in {"invalid", "interrupted", "storage"} : End(r, out)
  /\ UNCHANGED <<hist, inflight, ip, acct>>

\* initialize commits without a reservation and without bcrypt.
Initialize(r, a) ==
  /\ pc[r] = "admitted" /\ End(r, "verified")
  /\ hist' = Cleared(hist, KeysOfAccount(a))
  /\ UNCHANGED <<inflight, ip, acct>>

\* The store is unavailable or not initialised, or no slot came free in time.
GiveUp(r) ==
  /\ pc[r] = "attached" /\ \E out \in {"interrupted", "storage"} : End(r, out)
  /\ UNCHANGED <<hist, inflight, ip, acct>>

AcquireBcrypt(r) ==
  /\ pc[r] = "attached"
  /\ Cardinality({s \in Requests : pc[s] = "checking"}) < Slots
  /\ Goto(r, "checking")
  /\ UNCHANGED <<hist, inflight, ip, acct, outcome>>

\* AuthenticateUser and the release of the slot; a valid password of another
\* account than the one looked up ends the request without a verdict.
VerifyPassword(r) ==
  /\ pc[r] = "checking"
  /\ \/ \E out \in {"invalid", "storage", "interrupted"} : End(r, out)
     \/ acct[r] # None /\ Goto(r, "committing") /\ UNCHANGED outcome
  /\ UNCHANGED <<hist, inflight, ip, acct>>

\* An administrator's Unlock, behind the same check of his own password.
UnlockIP(r, i) ==
  /\ pc[r] = "committing" /\ Goto(r, "unlocked")
  /\ hist' = Cleared(hist, {i})
  /\ UNCHANGED <<inflight, ip, acct, outcome>>
UnlockAccount(r, a) ==
  /\ pc[r] = "committing" /\ Goto(r, "unlocked")
  /\ hist' = Cleared(hist, KeysOfAccount(a))
  /\ UNCHANGED <<inflight, ip, acct, outcome>>

\* The token or the new password is committed, then
\* OnCredentialCommitSuccess; a failed commit forgives nothing.
Commit(r) ==
  /\ pc[r] \in {"committing", "unlocked"}
  /\ \/ End(r, "verified") /\ hist' = Cleared(hist, KeysOfAccount(acct[r]))
     \/ pc[r] = "committing" /\ End(r, "storage") /\ UNCHANGED hist
  /\ UNCHANGED <<inflight, ip, acct>>

\* What a request leaves in the table: a wrong password counts against the
\* source and against what it had reserved.
Settled(r) ==
  IF outcome[r] # "invalid" THEN hist
  ELSE IF acct[r] = None THEN Recorded(hist, ip[r])
  ELSE Recorded(Recorded(Recorded(hist, ip[r]), acct[r]), <<ip[r], acct[r]>>)

Leave(r) ==
  /\ pc[r] = "ending" /\ Goto(r, "idle")
  /\ ip' = [ip EXCEPT ![r] = None] /\ acct' = [acct EXCEPT ![r] = None]
  /\ outcome' = [outcome EXCEPT ![r] = "interrupted"]

\* The deferred Finish: the reservation goes, and a wrong password is recorded
\* in its place.
Finish(r) ==
  /\ Leave(r) /\ hist' = Settled(r)
  /\ inflight' = IF acct[r] = None THEN inflight
                 ELSE [k \in Keys |-> IF k \in KeysOf(r) /\ inflight[k] > 0
                                      THEN inflight[k] - 1 ELSE inflight[k]]

\* Time passes.  Ages stop where nothing can be told apart any more.
Tick ==
  /\ hist' = [k \in Keys |->
       IF hist[k].n = 0 THEN hist[k]
       ELSE [n |-> hist[k].n,
             age |-> IF hist[k].age < Window(k) THEN hist[k].age + 1 ELSE hist[k].age,
             rest |-> IF hist[k].rest \in 0..(Cooldown - 1) THEN hist[k].rest + 1 ELSE hist[k].rest]]
  /\ UNCHANGED <<inflight, pc, ip, acct, outcome>>

\* What a handler does on its own once the request was admitted.
Handle(r) == \/ \E a \in Accounts : AttachAccount(r, a) \/ Initialize(r, a) \/ UnlockAccount(r, a)
             \/ \E i \in IPs : UnlockIP(r, i)
             \/ AttachNobody(r) \/ BadRequest(r) \/ GiveUp(r) \/ AcquireBcrypt(r)
             \/ VerifyPassword(r) \/ Commit(r) \/ Finish(r)

Next ==
  \/ \E r \in Requests : Handle(r) \/ \E i \in IPs : Admit(r, i)
  \/ Tick

Spec == Init /\ [][Next]_vars

\* Handlers run to their deferred Finish (bodies, slots and queries are
\* bounded), and time passes.  No request has to come.
FairSpec == Spec /\ WF_vars(Tick) /\ \A r \in Requests : WF_vars(Handle(r))

-----------------------------------------------------------------------------
(* Properties *)

\* However many requests are in flight, an account and a combination never
\* have more wrong passwords behind them and reservations ahead of them than
\* their limit: requests that run together cannot pass the budget together.
BudgetHolds ==
  \A k \in Accounts \cup Combos : hist[k].n + inflight[k] <= Limit(k)

\* Every key counts exactly the requests that hold a reservation on it, on
\* every path through the handlers: no reservation is lost or given back twice.
ReservationsCounted ==
  \A k \in Keys : inflight[k] = Cardinality(Reservers(k))

\* The failures of a source survive every success of its requests: they
\* shrink only when their window is over or an administrator unlocks it.
SourceHistorySurvives ==
  [][\A i \in IPs : hist[i].n > 0 /\ hist'[i].n < hist[i].n
       => Expired(hist, i) \/ \E r \in Requests : UnlockIP(r, i)]_vars

\* An account that is refused, by failures or by requests in flight, is
\* accepted again: nobody can lock it for good.
RefusalEnds == \A a \in Accounts : Refuses(hist, a) ~> ~Refuses(hist, a)
=============================================================================
