-------------------------- MODULE AuthGuardProofs --------------------------
(***************************************************************************)
(* The budget of AuthGuard holds for every number of requests, sources and *)
(* accounts, every limit, window and cooldown and every size of the table. *)
(* The point of the argument is the cooldown: a blocked account is let in  *)
(* without a look at its reservations, which is right only because a block *)
(* starts at a full budget, and a full budget leaves no room for one.      *)
(***************************************************************************)
EXTENDS AuthGuard, FiniteSetTheorems, TLAPS

Table  == [Keys -> [n : Nat, age : Nat, rest : Nat \cup {NotBlocked}]]
Scarce == Accounts \cup Combos

\* A blocked history is an account's, and its failures fill the budget.
Blocks(h) ==
  \A k \in Keys : h[k].rest # NotBlocked => k \in Accounts /\ h[k].n >= AccountLimit

Fits(h) == \A k \in Scarce : h[k].n + inflight[k] <= Limit(k)

\* A request without an account is before its reservation or past its Finish.
Tickets ==
  \A r \in Requests :
    /\ pc[r] # "idle" => ip[r] \in IPs
    /\ pc[r] \in {"idle", "admitted"} => acct[r] = None
    /\ pc[r] \in {"committing", "unlocked"} => acct[r] # None

IInv == TypeOK /\ ReservationsCounted /\ BudgetHolds /\ Blocks(hist) /\ Tickets

-----------------------------------------------------------------------------
(* The operators on the table *)

\* The kinds of key do not overlap, and limits are positive.
LEMMA KeyKinds ==
  /\ \A i \in IPs, a \in Accounts :
       /\ i \in Keys /\ a \in Keys /\ <<i, a>> \in Keys /\ <<i, a>> \in Combos
       /\ i # a /\ i # <<i, a>> /\ a # <<i, a>>
       /\ i \notin Scarce /\ a \notin IPs /\ <<i, a>> \notin IPs
  /\ \A k \in Keys : Limit(k) \in Nat \ {0} /\ Window(k) \in Nat \ {0}
  /\ \A a \in Accounts : Limit(a) = AccountLimit
  /\ Scarce \subseteq Keys
<1>1. \A i \in IPs, a \in Accounts : <<i, a>> \in Combos
  BY DEF Combos
<1> QED BY <1>1, SetsAssumption, NumbersAssumption DEF Keys, Scarce, Limit, Window

LEMMA FreshRecord == Fresh \in [n : Nat, age : Nat, rest : Nat \cup {NotBlocked}]
                     /\ Fresh.n = 0 /\ Fresh.rest = NotBlocked
  BY DEF Fresh

\* Forgetting histories, any of them, keeps the table in shape and in budget.
LEMMA Forgetting ==
  ASSUME NEW h \in Table, NEW g,
         g = [k \in Keys |-> g[k]], \A k \in Keys : g[k] \in {h[k], Fresh}
  PROVE  /\ g \in Table
         /\ Blocks(h) => Blocks(g)
         /\ inflight \in [Keys -> Nat] /\ Fits(h) => Fits(g)
<1>1. g \in Table
  BY FreshRecord DEF Table
<1>2. Blocks(h) => Blocks(g)
  BY FreshRecord DEF Blocks
<1>3. ASSUME inflight \in [Keys -> Nat], Fits(h), NEW k \in Scarce
      PROVE  g[k].n + inflight[k] <= Limit(k)
  <2>1. k \in Keys /\ inflight[k] \in Nat /\ h[k].n \in Nat /\ Limit(k) \in Nat
    BY <1>3, KeyKinds DEF Table
  <2>2. g[k] = h[k] \/ g[k].n = 0
    BY <2>1, FreshRecord
  <2>3. h[k].n + inflight[k] <= Limit(k)
    BY <1>3 DEF Fits
  <2> QED BY <2>1, <2>2, <2>3
<1> QED BY <1>1, <1>2, <1>3 DEF Fits

LEMMA LookedForgets ==
  ASSUME NEW h \in Table, NEW x \in Keys
  PROVE  /\ Looked(h, x) = [k \in Keys |-> Looked(h, x)[k]]
         /\ \A k \in Keys : Looked(h, x)[k] \in {h[k], Fresh}
         /\ \A k \in Keys \ {x} : Looked(h, x)[k] = h[k]
  BY DEF Looked, Table

LEMMA ClearedForgets ==
  ASSUME NEW h \in Table, NEW gone
  PROVE  /\ Cleared(h, gone) = [k \in Keys |-> Cleared(h, gone)[k]]
         /\ \A k \in Keys : Cleared(h, gone)[k] \in {h[k], Fresh}
         /\ \A k \in Keys \ gone : Cleared(h, gone)[k] = h[k]
  BY DEF Cleared

LEMMA CollectedForgets ==
  ASSUME NEW h \in Table
  PROVE  /\ Collected(h) = [k \in Keys |-> Collected(h)[k]]
         /\ \A k \in Keys : Collected(h)[k] \in {h[k], Fresh}
         /\ \A k \in Keys : Collected(h)[k] # h[k] => Expired(h, k)
  BY DEF Collected

\* A key that is not refused has room for one more reservation, also when it
\* is let in because its cooldown is over.
LEMMA RoomForOne ==
  ASSUME NEW h \in Table, NEW k \in Scarce, inflight \in [Keys -> Nat],
         Blocks(h), Fits(h), ~Refuses(h, k)
  PROVE  Looked(h, k)[k].n + inflight[k] < Limit(k)
<1>1. k \in Keys /\ inflight[k] \in Nat /\ h[k].n \in Nat /\ Limit(k) \in Nat \ {0}
  BY KeyKinds DEF Table
<1>2. h[k].n + inflight[k] <= Limit(k)
  BY DEF Fits
<1>3. CASE Expired(h, k) \/ h[k].n = 0
  <2>1. inflight[k] < Limit(k)
    BY <1>1, <1>3 DEF Refuses
  <2>2. Looked(h, k)[k].n = 0
    BY <1>1, <1>3, FreshRecord DEF Looked, Table
  <2> QED BY <1>1, <2>1, <2>2
<1>4. CASE ~(Expired(h, k) \/ h[k].n = 0) /\ ~Full(h, k)
  <2>1. Looked(h, k) = h
    BY <1>4 DEF Looked
  <2> QED BY <1>1, <1>4, <2>1 DEF Full
<1>5. CASE ~(Expired(h, k) \/ h[k].n = 0) /\ Full(h, k)
  <2>1. h[k].rest >= Cooldown
    BY <1>5 DEF Refuses
  <2>2. h[k].rest # NotBlocked
    BY <1>1, <2>1, NumbersAssumption DEF NotBlocked, Table
  <2>3. k \in Accounts /\ h[k].n >= Limit(k)
    BY <1>1, <2>2, KeyKinds DEF Blocks
  <2>4. inflight[k] = 0
    BY <1>1, <1>2, <2>3
  <2>5. Looked(h, k)[k].n = 0
    BY <1>1, <1>5, <2>1, FreshRecord DEF Looked, Table
  <2> QED BY <1>1, <2>4, <2>5
<1> QED BY <1>3, <1>4, <1>5

\* A failure adds at most one to its key, and touches no other.
LEMMA RecordedAddsOne ==
  ASSUME NEW h \in Table, NEW x \in Keys
  PROVE  /\ Recorded(h, x) \in Table
         /\ \A k \in Keys \ {x} : Recorded(h, x)[k] = h[k]
         /\ Recorded(h, x)[x].n <= h[x].n + 1
         /\ Blocks(h) => Blocks(Recorded(h, x))
         /\ ~Expired(h, x) => Recorded(h, x)[x].n >= h[x].n
<1> DEFINE old == IF Expired(h, x) THEN Fresh ELSE h[x]
           rest == IF x \in Accounts /\ old.n + 1 >= Limit(x) /\ old.rest = NotBlocked
                   THEN 0 ELSE old.rest
           new == [n |-> old.n + 1, age |-> old.age, rest |-> rest]
           Rec == [n : Nat, age : Nat, rest : Nat \cup {NotBlocked}]
<1>1. h[x] \in Rec /\ Limit(x) \in Nat
  BY KeyKinds DEF Table
<1>2. old \in Rec /\ old.n <= h[x].n /\ (old = h[x] \/ old = Fresh) /\ (~Expired(h, x) => old = h[x])
  BY <1>1, FreshRecord
<1>3. old.n \in Nat /\ old.age \in Nat /\ old.rest \in Nat \cup {NotBlocked}
  BY <1>2
<1>4. new \in Rec /\ new.n = old.n + 1 /\ new.rest = rest
  BY <1>3
<1>5. Recorded(h, x) = [h EXCEPT ![x] = old] \/ Recorded(h, x) = [h EXCEPT ![x] = new]
  BY DEF Recorded
<1>6. PICK put \in {old, new} : Recorded(h, x) = [h EXCEPT ![x] = put]
  BY <1>5
<1>7. Recorded(h, x) \in Table /\ Recorded(h, x)[x] = put
      /\ \A k \in Keys \ {x} : Recorded(h, x)[k] = h[k]
  BY <1>2, <1>4, <1>6 DEF Table
<1>8. put.n <= h[x].n + 1 /\ (~Expired(h, x) => put.n >= h[x].n)
  BY <1>1, <1>2, <1>3, <1>4
<1>9. ASSUME Blocks(h) PROVE Blocks(Recorded(h, x))
  <2>1. old.rest # NotBlocked => x \in Accounts /\ old.n >= AccountLimit
    BY <1>2, <1>9, FreshRecord DEF Blocks
  <2>2. rest # NotBlocked => x \in Accounts /\ old.n + 1 >= AccountLimit
    BY <1>3, <2>1, KeyKinds, NumbersAssumption
  <2>3. put.rest # NotBlocked => x \in Accounts /\ put.n >= AccountLimit
    BY <1>4, <2>1, <2>2
  <2> QED BY <1>7, <1>9, <2>3 DEF Blocks
<1> QED BY <1>7, <1>8, <1>9

-----------------------------------------------------------------------------
(* The inductive invariant *)


LEMMA SameReservers ==
  ASSUME UNCHANGED <<inflight, ip, acct>>, ReservationsCounted
  PROVE  ReservationsCounted'
  BY DEF ReservationsCounted, Reservers, KeysOf

\* A step that leaves the reservations alone and forgets histories.
LEMMA ForgettingStep ==
  ASSUME IInv, UNCHANGED <<inflight, acct>>, hist' = [k \in Keys |-> hist'[k]],
         \A k \in Keys : hist'[k] \in {hist[k], Fresh}
  PROVE  hist' \in Table /\ BudgetHolds' /\ Blocks(hist)'
<1>1. hist \in Table /\ inflight \in [Keys -> Nat] /\ Fits(hist) /\ Blocks(hist)
  BY DEF IInv, TypeOK, Table, Fits, BudgetHolds, Scarce
<1>2. hist' \in Table /\ Blocks(hist') /\ Fits(hist')
  BY <1>1, Forgetting
<1>3. BudgetHolds'
  BY <1>2 DEF BudgetHolds, Fits, Scarce
<1> QED BY <1>2, <1>3 DEF Blocks

LEMMA InitInv == Init => IInv
<1> SUFFICES ASSUME Init PROVE IInv
    OBVIOUS
<1>1. TypeOK
  BY FreshRecord DEF Init, TypeOK, PCs, Outcomes
<1>2. \A k \in Keys : Reservers(k) = {}
  BY DEF Init, Reservers
<1>3. ReservationsCounted
  BY <1>2, FS_EmptySet DEF Init, ReservationsCounted
<1>4. BudgetHolds /\ Blocks(hist)
  BY FreshRecord, KeyKinds DEF Init, BudgetHolds, Blocks, Scarce
<1>5. Tickets
  BY DEF Init, Tickets
<1> QED BY <1>1, <1>3, <1>4, <1>5 DEF IInv

LEMMA AdmitInv ==
  ASSUME IInv, NEW r \in Requests, NEW i \in IPs, Admit(r, i)
  PROVE  IInv'
<1> USE DEF IInv
<1>1. hist \in Table /\ i \in Keys /\ pc[r] = "idle" /\ acct[r] = None
  BY DEF TypeOK, Table, Keys, Admit, Tickets
<1>2. PICK h \in {hist, Collected(hist)} :
        \/ hist' = h /\ UNCHANGED <<pc, ip>>
        \/ /\ hist' = Looked(h, i)
           /\ IF Refuses(h, i) THEN UNCHANGED <<pc, ip>>
              ELSE Goto(r, "admitted") /\ ip' = [ip EXCEPT ![r] = i]
  BY DEF Admit
<1>3. h = [k \in Keys |-> h[k]] /\ \A k \in Keys : h[k] \in {hist[k], Fresh}
  BY <1>1, CollectedForgets DEF Table
<1>4. h \in Table
  BY <1>1, <1>3, Forgetting
<1>5. hist' = [k \in Keys |-> hist'[k]] /\ \A k \in Keys : hist'[k] \in {hist[k], Fresh}
  BY <1>1, <1>2, <1>3, <1>4, LookedForgets
<1>6. UNCHANGED <<inflight, acct, outcome>>
  BY DEF Admit
<1>7. hist' \in Table /\ BudgetHolds' /\ Blocks(hist)'
  BY <1>5, <1>6, ForgettingStep
<1>8. UNCHANGED <<pc, ip>> \/ (pc' = [pc EXCEPT ![r] = "admitted"] /\ ip' = [ip EXCEPT ![r] = i])
  BY <1>2 DEF Goto
<1>9. TypeOK'
  BY <1>6, <1>7, <1>8 DEF TypeOK, Table, PCs
<1>10. Tickets'
  BY <1>1, <1>6, <1>8 DEF Tickets, TypeOK
<1>11. \A k \in Keys : Reservers(k)' = Reservers(k)
  BY <1>1, <1>6, <1>8 DEF Reservers, KeysOf, TypeOK
<1>12. ReservationsCounted'
  BY <1>6, <1>11 DEF ReservationsCounted
<1> QED BY <1>7, <1>9, <1>10, <1>12

\* A request that ends early, is refused or gives up.
LEMMA PlainInv ==
  ASSUME IInv, NEW r \in Requests, NEW loc \in PCs \ {"idle", "admitted"},
         pc[r] # "idle", pc' = [pc EXCEPT ![r] = loc],
         loc \in {"committing", "unlocked"} => acct[r] # None,
         UNCHANGED <<inflight, ip, acct>>, outcome' \in [Requests -> Outcomes],
         hist' = [k \in Keys |-> hist'[k]],
         \A k \in Keys : hist'[k] \in {hist[k], Fresh}
  PROVE  IInv'
<1> USE DEF IInv
<1>1. hist' \in Table /\ BudgetHolds' /\ Blocks(hist)'
  BY ForgettingStep
<1>2. ReservationsCounted'
  BY SameReservers
<1>3. TypeOK'
  BY <1>1 DEF TypeOK, Table, PCs
<1>4. Tickets'
  BY DEF Tickets, TypeOK, PCs
<1> QED BY <1>1, <1>2, <1>3, <1>4

-----------------------------------------------------------------------------
(* The two steps that move a reservation *)

LEMMA FiniteReservers == \A k : IsFiniteSet(Reservers(k))
<1> SUFFICES ASSUME NEW k PROVE IsFiniteSet(Reservers(k))
    OBVIOUS
<1>1. Reservers(k) \subseteq Requests
  BY DEF Reservers
<1> QED BY <1>1, FS_Subset, SetsAssumption

LEMMA AttachInv ==
  ASSUME IInv, NEW r \in Requests, NEW a \in Accounts, AttachAccount(r, a)
  PROVE  IInv'
<1> USE DEF IInv
<1> DEFINE i == ip[r]
           combo == <<i, a>>
           h1 == Looked(hist, a)
           h2 == Looked(h1, combo)
           mine == {i, a, combo}
<1>1. /\ i \in IPs /\ pc[r] = "admitted" /\ acct[r] = None
      /\ hist \in Table /\ inflight \in [Keys -> Nat] /\ Fits(hist)
  BY DEF AttachAccount, Tickets, TypeOK, Table, Fits, BudgetHolds, Scarce
<1>2. {i, a, combo} \subseteq Keys /\ a \in Scarce /\ combo \in Scarce
      /\ i # a /\ i # combo /\ a # combo /\ i \notin Scarce
  BY <1>1, KeyKinds DEF Scarce
<1>3. /\ h1 \in Table /\ Blocks(h1) /\ Fits(h1)
      /\ h1 = [k \in Keys |-> h1[k]] /\ \A k \in Keys : h1[k] \in {hist[k], Fresh}
  BY <1>1, <1>2, LookedForgets, Forgetting
<1>4. /\ h2 \in Table /\ Blocks(h2) /\ Fits(h2)
      /\ h2 = [k \in Keys |-> h2[k]] /\ \A k \in Keys : h2[k] \in {hist[k], Fresh}
      /\ h2[a] = h1[a]
  <2>1. /\ h2 = [k \in Keys |-> h2[k]] /\ \A k \in Keys : h2[k] \in {h1[k], Fresh}
        /\ \A k \in Keys \ {combo} : h2[k] = h1[k]
    BY <1>2, <1>3, LookedForgets
  <2>2. h2 \in Table /\ Blocks(h2) /\ Fits(h2)
    BY <1>1, <1>3, <2>1, Forgetting
  <2>3. \A k \in Keys : h2[k] \in {hist[k], Fresh}
    BY <1>3, <2>1
  <2> QED BY <1>2, <2>1, <2>2, <2>3
<1>5. CASE Refuses(hist, a) \/ Refuses(h1, combo)
  <2>1. (hist' = h1 \/ hist' = h2) /\ UNCHANGED <<inflight, ip, acct>>
        /\ pc' = [pc EXCEPT ![r] = "ending"] /\ outcome' = [outcome EXCEPT ![r] = "interrupted"]
    BY <1>5 DEF AttachAccount, End, Goto
  <2>2. hist' = [k \in Keys |-> hist'[k]] /\ \A k \in Keys : hist'[k] \in {hist[k], Fresh}
    BY <1>3, <1>4, <2>1
  <2>3. outcome' \in [Requests -> Outcomes]
    BY <2>1 DEF TypeOK, Outcomes
  <2>4. "ending" \in PCs \ {"idle", "admitted"}
    BY DEF PCs
  <2> QED BY <1>1, <2>1, <2>2, <2>3, <2>4, PlainInv
<1>6. CASE ~Refuses(hist, a) /\ ~Refuses(h1, combo)
  <2>1. /\ hist' = h2 /\ UNCHANGED <<ip, outcome>>
        /\ inflight' = [k \in Keys |-> IF k \in mine THEN inflight[k] + 1 ELSE inflight[k]]
        /\ acct' = [acct EXCEPT ![r] = a] /\ pc' = [pc EXCEPT ![r] = "attached"]
    BY <1>6 DEF AttachAccount, Goto
  <2>2. h2[a].n + inflight[a] < Limit(a)
    <3>1. h1[a].n + inflight[a] < Limit(a)
      BY <1>1, <1>2, <1>6, RoomForOne
    <3> QED BY <1>4, <3>1
  <2>3. h2[combo].n + inflight[combo] < Limit(combo)
    BY <1>1, <1>2, <1>3, <1>6, RoomForOne
  <2>4. ASSUME NEW k \in Scarce PROVE hist'[k].n + inflight'[k] <= Limit(k)
    <3>1. k \in Keys /\ inflight[k] \in Nat /\ h2[k].n \in Nat /\ Limit(k) \in Nat
      BY <1>1, <1>4, KeyKinds DEF Table
    <3>2. CASE k \in {a, combo}
      BY <2>1, <2>2, <2>3, <3>1, <3>2
    <3>3. CASE k \notin {a, combo}
      <4>1. h2[k].n + inflight[k] <= Limit(k)
        BY <1>4 DEF Fits
      <4>2. inflight'[k] = inflight[k]
        BY <1>2, <2>1, <3>1, <3>3
      <4> QED BY <2>1, <4>1, <4>2
    <3> QED BY <3>2, <3>3
  <2>5. BudgetHolds'
    BY <2>4 DEF BudgetHolds, Scarce
  <2>6. ASSUME NEW k \in Keys PROVE inflight'[k] = Cardinality(Reservers(k)')
    <3>1. Reservers(k)' = IF k \in mine THEN Reservers(k) \cup {r} ELSE Reservers(k)
      BY <1>1, <2>1, SetsAssumption DEF Reservers, KeysOf, TypeOK
    <3>2. r \notin Reservers(k) /\ inflight[k] = Cardinality(Reservers(k))
      BY <1>1 DEF Reservers, ReservationsCounted
    <3>3. Cardinality(Reservers(k) \cup {r}) = Cardinality(Reservers(k)) + 1
      BY <3>2, FiniteReservers, FS_AddElement
    <3> QED BY <2>1, <3>1, <3>2, <3>3
  <2>7. ReservationsCounted'
    BY <2>6 DEF ReservationsCounted
  <2>8. TypeOK'
    <3>1. inflight' \in [Keys -> Nat]
      BY <1>1, <2>1
    <3>2. hist' \in Table
      BY <1>4, <2>1
    <3> QED BY <2>1, <3>1, <3>2 DEF TypeOK, Table, PCs
  <2>9. Blocks(hist)'
    BY <1>4, <2>1 DEF Blocks
  <2>10. Tickets'
    BY <1>1, <2>1, SetsAssumption DEF Tickets, TypeOK
  <2> QED BY <2>5, <2>7, <2>8, <2>9, <2>10
<1> QED BY <1>5, <1>6

LEMMA SettledTable ==
  ASSUME IInv, NEW r \in Requests, pc[r] = "ending"
  PROVE  /\ Settled(r) \in Table /\ Blocks(Settled(r))
         /\ \A k \in Keys : Settled(r)[k].n <= hist[k].n + 1
         /\ \A k \in Scarce : Settled(r)[k].n > hist[k].n => acct[r] # None /\ k \in KeysOf(r)
<1> USE DEF IInv
<1>1. hist \in Table /\ ip[r] \in IPs /\ ip[r] \in Keys /\ ip[r] \notin Scarce
  BY SetsAssumption DEF TypeOK, Table, Tickets, Keys, Scarce
<1>2. \A k \in Keys : hist[k].n \in Nat
  BY <1>1 DEF Table
<1>3. CASE outcome[r] # "invalid"
  BY <1>1, <1>2, <1>3, KeyKinds DEF Settled
<1>4. CASE outcome[r] = "invalid" /\ acct[r] = None
  <2>1. Settled(r) = Recorded(hist, ip[r])
    BY <1>4 DEF Settled
  <2> QED BY <1>1, <1>2, <2>1, RecordedAddsOne, KeyKinds
<1>5. CASE outcome[r] = "invalid" /\ acct[r] # None
  <2> DEFINE i == ip[r]
             a == acct[r]
             g1 == Recorded(hist, i)
             g2 == Recorded(g1, a)
             g3 == Recorded(g2, <<i, a>>)
  <2>1. Settled(r) = g3 /\ KeysOf(r) = {i, a, <<i, a>>} /\ a \in Accounts
    BY <1>5 DEF Settled, KeysOf, TypeOK
  <2>2. {i, a, <<i, a>>} \subseteq Keys /\ i # a /\ i # <<i, a>> /\ a # <<i, a>>
    BY <1>1, <2>1, KeyKinds
  <2>3. /\ g1 \in Table /\ Blocks(g1) /\ g1[i].n <= hist[i].n + 1
        /\ \A k \in Keys \ {i} : g1[k] = hist[k]
    BY <1>1, <2>2, RecordedAddsOne
  <2>4. /\ g2 \in Table /\ Blocks(g2) /\ g2[a].n <= g1[a].n + 1
        /\ \A k \in Keys \ {a} : g2[k] = g1[k]
    BY <2>2, <2>3, RecordedAddsOne
  <2>5. /\ g3 \in Table /\ Blocks(g3) /\ g3[<<i, a>>].n <= g2[<<i, a>>].n + 1
        /\ \A k \in Keys \ {<<i, a>>} : g3[k] = g2[k]
    BY <2>2, <2>4, RecordedAddsOne
  <2>6. \A k \in Keys : g3[k].n <= hist[k].n + 1 /\ (k \notin {i, a, <<i, a>>} => g3[k] = hist[k])
    BY <1>2, <2>2, <2>3, <2>4, <2>5
  <2> HIDE DEF g1, g2, g3, i, a
  <2>7. \A k \in Scarce : g3[k].n > hist[k].n => k \in {i, a, <<i, a>>}
    BY <1>2, <2>6, KeyKinds
  <2> QED BY <1>5, <2>1, <2>5, <2>6, <2>7
<1> QED BY <1>3, <1>4, <1>5

LEMMA FinishInv ==
  ASSUME IInv, NEW r \in Requests, Finish(r)
  PROVE  IInv'
<1> USE DEF IInv
<1>1. /\ pc[r] = "ending" /\ pc' = [pc EXCEPT ![r] = "idle"] /\ hist' = Settled(r)
      /\ ip' = [ip EXCEPT ![r] = None] /\ acct' = [acct EXCEPT ![r] = None]
      /\ outcome' = [outcome EXCEPT ![r] = "interrupted"]
      /\ inflight' = IF acct[r] = None THEN inflight
                     ELSE [k \in Keys |-> IF k \in KeysOf(r) /\ inflight[k] > 0
                                          THEN inflight[k] - 1 ELSE inflight[k]]
  BY DEF Finish, Leave, Goto
<1>2. /\ hist' \in Table /\ Blocks(hist')
      /\ \A k \in Keys : hist'[k].n <= hist[k].n + 1
      /\ \A k \in Scarce : hist'[k].n > hist[k].n => acct[r] # None /\ k \in KeysOf(r)
  BY <1>1, SettledTable
<1>3. inflight \in [Keys -> Nat] /\ inflight' \in [Keys -> Nat] /\ hist \in Table
  BY <1>1 DEF TypeOK, Table
<1>4. ASSUME NEW k \in Keys, r \in Reservers(k)
      PROVE  /\ acct[r] # None /\ k \in KeysOf(r)
             /\ inflight'[k] = inflight[k] - 1 /\ inflight[k] > 0
             /\ inflight'[k] = Cardinality(Reservers(k) \ {r})
  <2>1. acct[r] # None /\ k \in KeysOf(r)
    BY <1>4 DEF Reservers
  <2>2. inflight[k] = Cardinality(Reservers(k)) /\ IsFiniteSet(Reservers(k))
    BY FiniteReservers DEF ReservationsCounted
  <2>3. Cardinality(Reservers(k) \ {r}) = Cardinality(Reservers(k)) - 1
    BY <1>4, <2>2, FS_RemoveElement
  <2>4. Cardinality(Reservers(k) \ {r}) \in Nat
    BY <2>2, FS_RemoveElement, FS_CardinalityType
  <2> QED BY <1>1, <1>3, <2>1, <2>2, <2>3, <2>4
<1>5. ASSUME NEW k \in Keys, r \notin Reservers(k)
      PROVE  inflight'[k] = inflight[k] /\ (acct[r] = None \/ k \notin KeysOf(r))
  BY <1>1, <1>3, <1>5 DEF Reservers
<1>6. ReservationsCounted'
  <2>1. ASSUME NEW k \in Keys PROVE Reservers(k)' = Reservers(k) \ {r}
    BY <1>1 DEF Reservers, KeysOf, TypeOK
  <2>2. ASSUME NEW k \in Keys PROVE inflight'[k] = Cardinality(Reservers(k)')
    <3>1. CASE r \in Reservers(k)
      BY <1>4, <2>1, <3>1
    <3>2. CASE r \notin Reservers(k)
      <4>1. Reservers(k)' = Reservers(k)
        BY <2>1, <3>2
      <4> QED BY <1>5, <3>2, <4>1 DEF ReservationsCounted
    <3> QED BY <3>1, <3>2
  <2> QED BY <2>2 DEF ReservationsCounted
<1>7. BudgetHolds'
  <2>1. ASSUME NEW k \in Scarce PROVE hist'[k].n + inflight'[k] <= Limit(k)
    <3>1. /\ k \in Keys /\ inflight[k] \in Nat /\ hist[k].n \in Nat /\ hist'[k].n \in Nat
          /\ Limit(k) \in Nat
      BY <1>2, <1>3, KeyKinds DEF Table
    <3>2. hist[k].n + inflight[k] <= Limit(k)
      BY DEF BudgetHolds, Scarce
    <3>3. CASE r \in Reservers(k)
      <4>1. hist'[k].n <= hist[k].n + 1
        BY <1>2, <3>1
      <4>2. inflight'[k] = inflight[k] - 1
        BY <1>4, <3>1, <3>3
      <4> QED BY <3>1, <3>2, <4>1, <4>2
    <3>4. CASE r \notin Reservers(k)
      <4>1. hist'[k].n <= hist[k].n
        BY <1>2, <1>5, <3>1, <3>4
      <4> QED BY <1>5, <3>1, <3>2, <3>4, <4>1
    <3> QED BY <3>3, <3>4
  <2> QED BY <2>1 DEF BudgetHolds, Scarce
<1>8. TypeOK'
  BY <1>1, <1>2, <1>3 DEF TypeOK, Table, PCs, Outcomes
<1>9. Tickets'
  BY <1>1 DEF Tickets, TypeOK
<1>10. Blocks(hist)'
  BY <1>2 DEF Blocks
<1> QED BY <1>6, <1>7, <1>8, <1>9, <1>10

-----------------------------------------------------------------------------
(* Every step, and the theorems *)

LEMMA TickInv ==
  ASSUME IInv, Tick
  PROVE  IInv'
<1> USE DEF IInv
<1>1. hist' \in Table /\ \A k \in Keys : hist'[k].n = hist[k].n
                       /\ (hist'[k].rest # NotBlocked => hist[k].rest # NotBlocked)
  <2>1. ASSUME NEW k \in Keys
        PROVE  /\ hist'[k] \in [n : Nat, age : Nat, rest : Nat \cup {NotBlocked}]
               /\ hist'[k].n = hist[k].n
               /\ hist'[k].rest # NotBlocked => hist[k].rest # NotBlocked
    <3>1. hist[k] \in [n : Nat, age : Nat, rest : Nat \cup {NotBlocked}]
      BY DEF TypeOK
    <3>2. CASE hist[k].n = 0
      BY <3>1, <3>2 DEF Tick
    <3>3. CASE hist[k].n # 0
      <4> DEFINE old  == IF hist[k].age < Window(k) THEN hist[k].age + 1 ELSE hist[k].age
                 wait == IF hist[k].rest \in 0..(Cooldown - 1) THEN hist[k].rest + 1
                         ELSE hist[k].rest
      <4>1. hist'[k] = [n |-> hist[k].n, age |-> old, rest |-> wait]
        BY <3>3 DEF Tick
      <4>2. hist[k].n \in Nat /\ hist[k].age \in Nat /\ hist[k].rest \in Nat \cup {NotBlocked}
        BY <3>1
      <4>3. old \in Nat
        BY <4>2
      <4>4. wait \in Nat \cup {NotBlocked} /\ (wait # NotBlocked => hist[k].rest # NotBlocked)
        BY <4>2, NumbersAssumption DEF NotBlocked
      <4> HIDE DEF old, wait
      <4> QED BY <4>1, <4>2, <4>3, <4>4
    <3> QED BY <3>2, <3>3
  <2>2. hist' = [k \in Keys |-> hist'[k]]
    BY DEF Tick
  <2> QED BY <2>1, <2>2 DEF Table
<1>2. UNCHANGED <<inflight, pc, ip, acct, outcome>>
  BY DEF Tick
<1>3. TypeOK'
  BY <1>1, <1>2 DEF TypeOK, Table
<1>4. BudgetHolds'
  BY <1>1, <1>2, KeyKinds DEF BudgetHolds, Scarce
<1>5. Blocks(hist)'
  BY <1>1 DEF Blocks
<1>6. ReservationsCounted' /\ Tickets'
  BY <1>2, SameReservers DEF Tickets
<1> QED BY <1>3, <1>4, <1>5, <1>6

\* The steps of a handler between its reservation and its Finish.
LEMMA HandlerInv ==
  ASSUME IInv, NEW r \in Requests,
         \/ \E a \in Accounts : Initialize(r, a) \/ UnlockAccount(r, a)
         \/ \E i \in IPs : UnlockIP(r, i)
         \/ AttachNobody(r) \/ BadRequest(r) \/ GiveUp(r) \/ AcquireBcrypt(r)
         \/ VerifyPassword(r) \/ Commit(r)
  PROVE  IInv'
<1> USE DEF IInv
<1>1. hist \in Table /\ hist = [k \in Keys |-> hist[k]]
  BY DEF TypeOK, Table
<1>2. PICK loc \in PCs \ {"idle", "admitted"} :
        /\ pc[r] # "idle" /\ pc' = [pc EXCEPT ![r] = loc]
        /\ loc \in {"committing", "unlocked"} => acct[r] # None
  BY DEF Initialize, UnlockAccount, UnlockIP, AttachNobody, BadRequest, GiveUp, AcquireBcrypt,
     VerifyPassword, Commit, End, Goto, PCs, Tickets
<1>3. UNCHANGED <<inflight, ip, acct>> /\ outcome' \in [Requests -> Outcomes]
  BY DEF Initialize, UnlockAccount, UnlockIP, AttachNobody, BadRequest, GiveUp, AcquireBcrypt,
     VerifyPassword, Commit, End, Goto, TypeOK, Outcomes
<1>4. UNCHANGED hist \/ \E gone : hist' = Cleared(hist, gone)
  BY DEF Initialize, UnlockAccount, UnlockIP, AttachNobody, BadRequest, GiveUp, AcquireBcrypt,
     VerifyPassword, Commit
<1>5. hist' = [k \in Keys |-> hist'[k]] /\ \A k \in Keys : hist'[k] \in {hist[k], Fresh}
  BY <1>1, <1>4, ClearedForgets
<1> QED BY <1>2, <1>3, <1>5, PlainInv

LEMMA NextInv == IInv /\ [Next]_vars => IInv'
<1> SUFFICES ASSUME IInv, [Next]_vars PROVE IInv'
    OBVIOUS
<1>1. CASE UNCHANGED vars
  <2>1. ReservationsCounted'
    BY <1>1, SameReservers DEF vars, IInv
  <2> QED BY <1>1, <2>1 DEF IInv, vars, TypeOK, BudgetHolds, Blocks, Tickets
<1>2. CASE Tick
  BY <1>2, TickInv
<1>3. ASSUME NEW r \in Requests, NEW i \in IPs, Admit(r, i) PROVE IInv'
  BY <1>3, AdmitInv
<1>4. ASSUME NEW r \in Requests, Handle(r) PROVE IInv'
  <2>1. ASSUME NEW a \in Accounts, AttachAccount(r, a) PROVE IInv'
    BY <2>1, AttachInv
  <2>2. CASE Finish(r)
    BY <2>2, FinishInv
  <2> QED BY <1>4, <2>1, <2>2, HandlerInv DEF Handle
<1> QED BY <1>1, <1>2, <1>3, <1>4 DEF Next

THEOREM Inductive == Spec => []IInv
<1> QED BY InitInv, NextInv, PTL DEF Spec

\* Types of the guard's tables and of the tickets, in every reachable state.
THEOREM TypeCorrect == Spec => []TypeOK
<1>1. IInv => TypeOK
  BY DEF IInv
<1> QED BY <1>1, Inductive, PTL

\* Failures and reservations of an account or a combination stay within its
\* limit, whatever the interleaving of requests, lapses and unlocks.
THEOREM BudgetAlways == Spec => []BudgetHolds
<1>1. IInv => BudgetHolds
  BY DEF IInv
<1> QED BY <1>1, Inductive, PTL

\* The reservations of a key are those of the requests in flight on it.
THEOREM ReservationsAlways == Spec => []ReservationsCounted
<1>1. IInv => ReservationsCounted
  BY DEF IInv
<1> QED BY <1>1, Inductive, PTL

\* A step that lowers the failures of a source is the end of its window or an
\* administrator's unlock of that source.
LEMMA SourceStep ==
  ASSUME IInv, [Next]_vars, NEW i \in IPs, hist[i].n > 0, hist'[i].n < hist[i].n
  PROVE  Expired(hist, i) \/ \E r \in Requests : UnlockIP(r, i)
<1> SUFFICES ASSUME ~Expired(hist, i) PROVE \E r \in Requests : UnlockIP(r, i)
    OBVIOUS
<1>1. hist \in Table /\ i \in Keys /\ Blocks(hist) /\ hist[i].n \in Nat
  BY DEF IInv, TypeOK, Table, Keys
<1>2. ~UNCHANGED vars
  BY <1>1 DEF vars
<1>3. hist[i].rest = NotBlocked
  BY <1>1, SetsAssumption DEF Blocks
<1>4. ASSUME NEW h \in {hist, Collected(hist)} PROVE h \in Table /\ h[i] = hist[i]
  <2>1. hist = [k \in Keys |-> hist[k]] /\ h = [k \in Keys |-> h[k]]
        /\ \A k \in Keys : h[k] \in {hist[k], Fresh}
    BY <1>1, CollectedForgets DEF Table
  <2>2. h \in Table
    BY <1>1, <2>1, Forgetting
  <2> QED BY <1>1, <2>2, CollectedForgets
<1>5. ASSUME NEW h \in Table, h[i] = hist[i], NEW k \in Keys, k = i \/ k \notin IPs
      PROVE  Looked(h, k) \in Table /\ Looked(h, k)[i] = hist[i]
  <2>1. Looked(h, k) \in Table
    BY LookedForgets, Forgetting
  <2>2. CASE k # i
    BY <1>1, <1>5, <2>1, <2>2, LookedForgets
  <2>3. CASE k = i
    <3>1. ~Expired(h, i) /\ ~(h[i].rest >= Cooldown)
      BY <1>3, <1>5, NumbersAssumption DEF Expired, NotBlocked
    <3> QED BY <1>5, <2>1, <2>3, <3>1 DEF Looked
  <2> QED BY <2>1, <2>2, <2>3
<1>6. ASSUME Tick PROVE FALSE
  BY <1>1, <1>6 DEF Tick
<1>7. ASSUME NEW r \in Requests, NEW j \in IPs, Admit(r, j) PROVE FALSE
  <2>1. PICK h \in {hist, Collected(hist)} : hist' = h \/ hist' = Looked(h, j)
    BY <1>7 DEF Admit
  <2>2. CASE j = i
    BY <1>1, <1>4, <1>5, <2>1, <2>2
  <2>3. CASE j # i
    <3>1. j \in Keys /\ Looked(h, j)[i] = h[i]
      BY <1>1, <1>4, <2>3, LookedForgets DEF Keys
    <3> QED BY <1>1, <1>4, <2>1, <3>1
  <2> QED BY <2>2, <2>3
<1>8. ASSUME NEW r \in Requests, NEW a \in Accounts, AttachAccount(r, a) PROVE FALSE
  <2>1. ip[r] \in IPs
    BY <1>8 DEF AttachAccount, IInv, Tickets
  <2>2. /\ a \in Keys /\ a \notin IPs /\ <<ip[r], a>> \in Keys /\ <<ip[r], a>> \notin IPs
    BY <2>1, KeyKinds
  <2>3. Looked(hist, a) \in Table /\ Looked(hist, a)[i] = hist[i]
    BY <1>1, <1>5, <2>2
  <2>4. Looked(Looked(hist, a), <<ip[r], a>>)[i] = hist[i]
    BY <1>5, <2>2, <2>3
  <2>5. hist' = Looked(hist, a) \/ hist' = Looked(Looked(hist, a), <<ip[r], a>>)
    BY <1>8 DEF AttachAccount
  <2> QED BY <1>1, <2>3, <2>4, <2>5
<1>9. ASSUME NEW a \in Accounts PROVE Cleared(hist, KeysOfAccount(a))[i] = hist[i]
  <2>1. i \notin KeysOfAccount(a)
    BY SetsAssumption DEF KeysOfAccount, Combos
  <2> QED BY <1>1, <2>1, ClearedForgets
<1>10. ASSUME NEW r \in Requests, NEW a \in Accounts, Initialize(r, a) \/ UnlockAccount(r, a)
       PROVE FALSE
  BY <1>1, <1>9, <1>10 DEF Initialize, UnlockAccount
<1>11. ASSUME NEW r \in Requests,
              AttachNobody(r) \/ BadRequest(r) \/ GiveUp(r) \/ AcquireBcrypt(r) \/ VerifyPassword(r)
       PROVE FALSE
  BY <1>1, <1>11 DEF AttachNobody, BadRequest, GiveUp, AcquireBcrypt, VerifyPassword
<1>12. ASSUME NEW r \in Requests, Commit(r) PROVE FALSE
  <2>1. acct[r] \in Accounts
    BY <1>12 DEF Commit, IInv, Tickets, TypeOK
  <2> QED BY <1>1, <1>9, <1>12, <2>1 DEF Commit
<1>13. ASSUME NEW r \in Requests, Finish(r) PROVE FALSE
  <2> DEFINE g1 == Recorded(hist, ip[r])
             g2 == Recorded(g1, acct[r])
             g3 == Recorded(g2, <<ip[r], acct[r]>>)
  <2>1. ip[r] \in IPs /\ ip[r] \in Keys
    BY <1>13 DEF Finish, Leave, IInv, Tickets, Keys
  <2>2. g1 \in Table /\ g1[i].n >= hist[i].n
    BY <1>1, <2>1, RecordedAddsOne
  <2>3. CASE hist' = hist \/ hist' = g1
    BY <1>1, <2>2, <2>3 DEF Table
  <2>4. CASE acct[r] # None /\ hist' = g3
    <3>1. acct[r] \in Keys /\ acct[r] # i /\ <<ip[r], acct[r]>> \in Keys /\ <<ip[r], acct[r]>> # i
      BY <2>1, <2>4, KeyKinds DEF IInv, TypeOK
    <3>2. g2 \in Table /\ g2[i] = g1[i]
      BY <1>1, <2>2, <3>1, RecordedAddsOne
    <3>3. g3[i] = g2[i]
      BY <1>1, <3>1, <3>2, RecordedAddsOne
    <3>4. hist'[i].n = g1[i].n /\ g1[i].n \in Nat
      BY <1>1, <2>2, <2>4, <3>2, <3>3 DEF Table
    <3> QED BY <1>1, <2>2, <3>4
  <2> QED BY <1>13, <2>3, <2>4 DEF Finish, Settled
<1>14. ASSUME NEW r \in Requests, NEW j \in IPs, UnlockIP(r, j) PROVE \E s \in Requests : UnlockIP(s, i)
  <2>1. CASE j = i
    BY <1>14, <2>1
  <2>2. CASE j # i
    <3>1. Cleared(hist, {j})[i] = hist[i]
      BY <1>1, <2>2, ClearedForgets
    <3> QED BY <1>1, <1>14, <3>1 DEF UnlockIP
  <2> QED BY <2>1, <2>2
<1> QED BY <1>2, <1>6, <1>7, <1>8, <1>10, <1>11, <1>12, <1>13, <1>14 DEF Next, Handle

\* No success of any account wipes the failures of the source it came from.
THEOREM SourceHistoryKept == Spec => SourceHistorySurvives
<1>1. IInv /\ [Next]_vars
        => [\A i \in IPs : hist[i].n > 0 /\ hist'[i].n < hist[i].n
              => Expired(hist, i) \/ \E r \in Requests : UnlockIP(r, i)]_vars
  BY SourceStep
<1> QED BY <1>1, Inductive, PTL DEF Spec, SourceHistorySurvives
=============================================================================
