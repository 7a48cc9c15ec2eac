--------------------------- MODULE ServicesProofs ---------------------------
(***************************************************************************)
(* How accounts, answers, plays and tasks are kept, for any clients.       *)
(* Each part has the invariant that carries its property, a lemma for each *)
(* of its steps, and the property at its end.                              *)
(***************************************************************************)
EXTENDS Accounts, Views, ScanTasks, Playback, MCServices, FiniteSetTheorems, SequenceTheorems, WellFoundedInduction, TLAPS
-----------------------------------------------------------------------------
(****************************************************************************)
(* Access is controlled for any number of clients, users, tokens and keys.  *)
(* The invariant says of every row how far its user's password generation   *)
(* has come: what was given out for an older generation has been deleted,   *)
(* and a request that still holds such a row has read it before and will    *)
(* find it gone.  A row that has died keeps its identity and never lives    *)
(* again.                                                                   *)
(****************************************************************************)

\* Account u is what it was at generation g, or has moved on, or is gone.
Reached(u, g) ==
  u \in Users /\ accounts[u] # Unused /\ (accounts[u] # Deleted => g <= accounts[u].gen)

\* It has moved on, or is gone.
Past(u, g) ==
  u \in Users /\ accounts[u] # Unused /\ (accounts[u] # Deleted => g < accounts[u].gen)

\* A credential that was given out, and one that stands for nobody any more.
GivenOut(c) ==
  \/ c \in Tokens /\ tokens[c] # Unused
  \/ /\ c \in KeyCredentials /\ keys[c[1]] # Unused
     /\ keys[c[1]] # Deleted => c[2] <= keys[c[1]].version

Spent(c) ==
  \/ c \in Tokens /\ tokens[c] = Deleted
  \/ /\ c \in KeyCredentials /\ keys[c[1]] # Unused
     /\ keys[c[1]] # Deleted => c[2] < keys[c[1]].version

\* Rows are of accounts there have been, at generations there have been.
RowsHold ==
  /\ \A t \in Tokens : tokens[t] \notin Absent => Reached(tokens[t].user, tokens[t].gen)
  /\ \A k \in ApiKeys : keys[k] \notin Absent => Reached(keys[k].user, 0)

\* A session that was revoked has no row, or one that its account is past.
DeadStayDead ==
  \A t \in dead : /\ tokens[t] # Unused
                  /\ tokens[t] # Deleted => Past(tokens[t].user, tokens[t].gen)

\* What a request has read was true once; what it has lost is no longer true.
ReadOnce(q) ==
  /\ q.id # Nothing => Reached(q.id, q.gen)
  /\ q.vid # Nothing => Reached(q.vid, q.vgen)
  /\ q.cred # Nothing => GivenOut(q.cred)
  /\ q.at # "verified" => q.vid = Nothing
  /\ q.at = "verified" /\ q.op = "change" => q.vid = q.id
  /\ q.at = "sliding" => q.cred \in Tokens

LostIsPast(q) ==
  /\ "proof" \in q.lost => Past(q.id, q.gen) \/ Spent(q.cred)
  /\ "password" \in q.lost => Past(q.vid, q.vgen)

RequestsHold == \A r \in Clients : ReadOnce(req[r]) /\ LostIsPast(req[r])

Controlled == AnAdminRemains /\ RowsHold /\ DeadStayDead /\ RequestsHold

AccountsInv == AccountsTypeOK /\ Controlled

\* Rows only go on: none comes back, an account's generation and a key's
\* version grow, and a session's row keeps its account and its generation.
AccountsGoOn ==
  \A u \in Users : accounts[u] # Unused =>
    /\ accounts'[u] # Unused
    /\ accounts'[u] # Deleted => accounts[u] # Deleted /\ accounts[u].gen <= accounts'[u].gen

TokensGoOn ==
  \A t \in Tokens : tokens[t] # Unused =>
    /\ tokens'[t] # Unused
    /\ tokens'[t] # Deleted => /\ tokens[t] # Deleted /\ tokens'[t].user = tokens[t].user
                               /\ tokens'[t].gen = tokens[t].gen

KeysGoOn ==
  \A k \in ApiKeys : keys[k] # Unused =>
    /\ keys'[k] # Unused
    /\ keys'[k] # Deleted => /\ keys[k] # Deleted /\ keys'[k].user = keys[k].user
                             /\ keys[k].version <= keys'[k].version

RowsGoOn == AccountsGoOn /\ TokensGoOn /\ KeysGoOn

-----------------------------------------------------------------------------
(* What the rows and the requests are *)

LEMMA RowFacts ==
  ASSUME AccountsTypeOK
  PROVE  /\ \A u \in Users : accounts[u] \notin Absent => accounts[u] \in Account
         /\ \A t \in Tokens : tokens[t] \notin Absent => tokens[t] \in Token
         /\ \A k \in ApiKeys : keys[k] \notin Absent => keys[k] \in Key
  BY DEF AccountsTypeOK, Absent

LEMMA GenBounds ==
  /\ MaxGen \in Nat /\ 1 \in 1..MaxGen /\ 0 \in 0..MaxGen
  /\ MaxVersion \in Nat /\ 1 \in 1..MaxVersion /\ 0 \in 0..MaxVersion
  BY AccountsAssumption

LEMMA NothingIsNone ==
  /\ Nothing \notin Users /\ Nothing \notin Names /\ Nothing \notin Passwords
  /\ Nothing \notin Tokens /\ Nothing \notin KeyCredentials /\ Nothing \notin BOOLEAN
  /\ \A c \in KeyCredentials : c \notin Tokens /\ c[1] \in ApiKeys /\ c[2] \in 1..MaxVersion
  BY AccountsAssumption DEF Credentials, KeyCredentials

\* A row that is written is there.
LEMMA WrittenIsThere ==
  /\ \A a \in Account : a \notin Absent
  /\ \A t \in Token : t \notin Absent
  /\ \A k \in Key : k \notin Absent
  /\ Unused # Deleted
  BY AccountsAssumption DEF Absent

LEMMA IdleFacts ==
  /\ Idle \in Request
  /\ Idle.at = "idle" /\ Idle.op = "none" /\ Idle.cred = Nothing /\ Idle.id = Nothing
  /\ Idle.vid = Nothing /\ Idle.lost = {} /\ Idle.gen = 0 /\ Idle.admin = FALSE
  BY GenBounds DEF Idle, Request

LEMMA RequestFacts ==
  ASSUME NEW q \in Request
  PROVE  /\ q.cred \in Tokens \cup KeyCredentials \cup {Nothing} /\ q.id \in Users \cup {Nothing}
         /\ q.gen \in 0..MaxGen /\ q.gen \in Nat /\ q.vid \in Users \cup {Nothing}
         /\ q.vgen \in 0..MaxGen /\ q.vgen \in Nat
         /\ q.seen \in 0..MaxVersion /\ q.lost \in SUBSET {"proof", "password"}
         /\ q.admin \in BOOLEAN
  BY GenBounds DEF Request, Credentials

\* What was once so, and what is past, stays that way.
LEMMA PastStays ==
  ASSUME AccountsTypeOK, AccountsTypeOK', RowsGoOn
  PROVE  /\ \A u, g : g \in Nat /\ Reached(u, g) => Reached(u, g)'
         /\ \A u, g : g \in Nat /\ Past(u, g) => Past(u, g)'
         /\ \A c : GivenOut(c) => GivenOut(c)'
         /\ \A c : Spent(c) => Spent(c)'
<1>1. ASSUME NEW u \in Users, NEW g \in Nat, accounts[u] # Unused,
             accounts'[u] # Deleted
      PROVE  /\ accounts'[u] # Unused /\ accounts[u] # Deleted
             /\ accounts[u].gen <= accounts'[u].gen
             /\ accounts[u].gen \in Nat /\ accounts'[u].gen \in Nat
  <2>1. accounts'[u] # Unused /\ accounts[u] # Deleted /\ accounts[u].gen <= accounts'[u].gen
    BY <1>1 DEF RowsGoOn, AccountsGoOn, TokensGoOn, KeysGoOn
  <2>2. accounts[u] \in Account /\ accounts'[u] \in Account
    BY <1>1, <2>1 DEF AccountsTypeOK
  <2> QED BY <2>1, <2>2, GenBounds DEF Account
<1>2. ASSUME NEW c \in KeyCredentials, keys[c[1]] # Unused, keys'[c[1]] # Deleted
      PROVE  /\ keys'[c[1]] # Unused /\ keys[c[1]] # Deleted
             /\ keys[c[1]].version <= keys'[c[1]].version
             /\ keys[c[1]].version \in Nat /\ keys'[c[1]].version \in Nat /\ c[2] \in Nat
  <2>0. c[1] \in ApiKeys /\ c[2] \in Nat
    BY NothingIsNone, GenBounds
  <2>1. keys'[c[1]] # Unused /\ keys[c[1]] # Deleted /\ keys[c[1]].version <= keys'[c[1]].version
    BY <1>2, <2>0 DEF RowsGoOn, AccountsGoOn, TokensGoOn, KeysGoOn
  <2>2. keys[c[1]] \in Key /\ keys'[c[1]] \in Key
    BY <1>2, <2>0, <2>1 DEF AccountsTypeOK
  <2> QED BY <2>0, <2>1, <2>2, GenBounds DEF Key
<1>3. \A u, g : g \in Nat /\ Reached(u, g) => Reached(u, g)'
  BY <1>1 DEF Reached, RowsGoOn, AccountsGoOn, TokensGoOn, KeysGoOn
<1>4. \A u, g : g \in Nat /\ Past(u, g) => Past(u, g)'
  BY <1>1 DEF Past, RowsGoOn, AccountsGoOn, TokensGoOn, KeysGoOn
<1>5. \A c : GivenOut(c) => GivenOut(c)'
  BY <1>2, NothingIsNone DEF GivenOut, RowsGoOn, AccountsGoOn, TokensGoOn, KeysGoOn
<1>6. \A c : Spent(c) => Spent(c)'
  BY <1>2, NothingIsNone, WrittenIsThere DEF Spent, RowsGoOn, AccountsGoOn, TokensGoOn, KeysGoOn
<1> QED BY <1>3, <1>4, <1>5, <1>6

\* How a request ends.
LEMMA EndedRow ==
  ASSUME AccountsTypeOK, NEW r \in Clients, Ends(r)
  PROVE  /\ req' \in [Clients -> Request] /\ req'[r] = Idle
         /\ \A q \in Clients \ {r} : req'[q] = req[q]
  BY IdleFacts DEF AccountsTypeOK, Ends

LEMMA Outdated ==
  ASSUME AccountsTypeOK, NEW r \in Clients, NEW U \in SUBSET Users, NEW C \in SUBSET Credentials,
         EndsAndOutdates(r, U, C)
  PROVE  /\ req' \in [Clients -> Request] /\ req'[r] = Idle
         /\ \A q \in Clients \ {r} :
              /\ req'[q].at = req[q].at /\ req'[q].op = req[q].op /\ req'[q].cred = req[q].cred
              /\ req'[q].id = req[q].id /\ req'[q].gen = req[q].gen
              /\ req'[q].vid = req[q].vid /\ req'[q].vgen = req[q].vgen
              /\ "proof" \in req'[q].lost =>
                   "proof" \in req[q].lost \/ req[q].id \in U \/ req[q].cred \in C
              /\ "password" \in req'[q].lost => "password" \in req[q].lost \/ req[q].vid \in U
<1> DEFINE lost(q) == req[q].lost \cup {w \in {"proof"} : req[q].id \in U \/ req[q].cred \in C}
                        \cup {w \in {"password"} : req[q].vid \in U}
<1>1. req'[r] = Idle /\ \A q \in Clients \ {r} : req'[q] = [req[q] EXCEPT !.lost = lost(q)]
  BY DEF EndsAndOutdates
<1>2. \A q \in Clients : lost(q) \in SUBSET {"proof", "password"}
  BY DEF AccountsTypeOK, Request
<1>3. \A q \in Clients :
        /\ "proof" \in lost(q) => "proof" \in req[q].lost \/ req[q].id \in U \/ req[q].cred \in C
        /\ "password" \in lost(q) => "password" \in req[q].lost \/ req[q].vid \in U
  OBVIOUS
<1> HIDE DEF lost
<1>4. ASSUME NEW q \in Clients \ {r}
      PROVE  /\ req'[q] \in Request /\ req'[q].lost = lost(q)
             /\ req'[q].at = req[q].at /\ req'[q].op = req[q].op /\ req'[q].cred = req[q].cred
             /\ req'[q].id = req[q].id /\ req'[q].gen = req[q].gen
             /\ req'[q].vid = req[q].vid /\ req'[q].vgen = req[q].vgen
  <2>1. req[q] \in Request
    BY DEF AccountsTypeOK
  <2>2. lost(q) \in SUBSET {"proof", "password"}
    BY <1>2
  <2>3. req'[q] = [req[q] EXCEPT !.lost = lost(q)]
    BY <1>1
  <2>4. PICK old \in Request : old = req[q]
    BY <2>1
  <2>5. PICK l \in SUBSET {"proof", "password"} : l = lost(q)
    BY <2>2
  <2>6. PICK new : new = req'[q]
    OBVIOUS
  <2>7. new = [old EXCEPT !.lost = l]
    BY <2>3, <2>4, <2>5, <2>6, Zenon
  <2>8. /\ new \in Request /\ new.lost = l /\ new.at = old.at /\ new.op = old.op
        /\ new.cred = old.cred /\ new.id = old.id /\ new.gen = old.gen
        /\ new.vid = old.vid /\ new.vgen = old.vgen
    BY <2>7 DEF Request
  <2>9. req'[q] = new /\ req[q] = old /\ lost(q) = l
    BY <2>4, <2>5, <2>6
  <2> QED BY <2>8, <2>9, Zenon
<1>5. req' \in [Clients -> Request]
  <2>1. DOMAIN req' = Clients /\ req' = [q \in Clients |-> req'[q]]
    BY DEF EndsAndOutdates
  <2> QED BY <1>1, <1>4, <2>1, IdleFacts
<1> QED BY <1>1, <1>3, <1>4, <1>5

-----------------------------------------------------------------------------
(* What a step does to the requests *)

LEMMA IdleHolds ==
  ASSUME NEW r \in Clients, req'[r] = Idle
  PROVE  (ReadOnce(req[r]) /\ LostIsPast(req[r]))'
  BY IdleFacts DEF ReadOnce, LostIsPast

\* A request that is left alone knows what it knew.
LEMMA OthersHold ==
  ASSUME AccountsTypeOK, AccountsTypeOK', RowsGoOn, RequestsHold,
         NEW q \in Clients, req'[q] = req[q]
  PROVE  (ReadOnce(req[q]) /\ LostIsPast(req[q]))'
<1>1. PICK p \in Request : p = req[q]
  BY DEF AccountsTypeOK
<1>2. ReadOnce(p) /\ LostIsPast(p)
  BY <1>1 DEF RequestsHold
<1>3. p.gen \in Nat /\ p.vgen \in Nat
  BY RequestFacts, GenBounds
<1>4. ReadOnce(p)' /\ LostIsPast(p)'
  BY <1>2, <1>3, PastStays DEF ReadOnce, LostIsPast
<1> QED BY <1>1, <1>4 DEF ReadOnce, LostIsPast

\* Those whose account or credential is past now have lost their proof.
LEMMA OutdatedHold ==
  ASSUME AccountsTypeOK, AccountsTypeOK', RowsGoOn, RequestsHold,
         NEW r \in Clients, NEW U \in SUBSET Users, NEW C \in SUBSET Credentials,
         EndsAndOutdates(r, U, C),
         \A u \in U, g \in Nat : Reached(u, g) => Past(u, g)',
         \A c \in C : GivenOut(c) => Spent(c)'
  PROVE  RequestsHold'
<1>1. ASSUME NEW q \in Clients \ {r} PROVE (ReadOnce(req[q]) /\ LostIsPast(req[q]))'
  <2>1. PICK p \in Request : p = req[q]
    BY DEF AccountsTypeOK
  <2>2. PICK n \in Request : n = req'[q]
    BY Outdated DEF AccountsTypeOK
  <2>3. /\ n.at = p.at /\ n.op = p.op /\ n.cred = p.cred /\ n.id = p.id /\ n.gen = p.gen
        /\ n.vid = p.vid /\ n.vgen = p.vgen
        /\ "proof" \in n.lost => "proof" \in p.lost \/ p.id \in U \/ p.cred \in C
        /\ "password" \in n.lost => "password" \in p.lost \/ p.vid \in U
    BY <2>1, <2>2, Outdated
  <2>4. ReadOnce(p) /\ LostIsPast(p)
    BY <2>1 DEF RequestsHold
  <2>5. p.gen \in Nat /\ p.vgen \in Nat
    BY RequestFacts, GenBounds
  <2>6. ReadOnce(n)'
    BY <2>3, <2>4, <2>5, PastStays DEF ReadOnce
  <2>7. Nothing \notin U /\ Nothing \notin C
    BY NothingIsNone DEF Credentials
  <2>8. "proof" \in n.lost => Past(n.id, n.gen)' \/ Spent(n.cred)'
    BY <2>3, <2>4, <2>5, <2>7, PastStays DEF ReadOnce, LostIsPast
  <2>9. "password" \in n.lost => Past(n.vid, n.vgen)'
    BY <2>3, <2>4, <2>5, <2>7, PastStays DEF ReadOnce, LostIsPast
  <2>10. LostIsPast(n)'
    BY <2>8, <2>9 DEF LostIsPast
  <2> QED BY <2>2, <2>6, <2>10 DEF ReadOnce, LostIsPast
<1>2. (ReadOnce(req[r]) /\ LostIsPast(req[r]))'
  BY Outdated, IdleHolds
<1> QED BY <1>1, <1>2 DEF RequestsHold

LEMMA EndedHold ==
  ASSUME AccountsTypeOK, AccountsTypeOK', RowsGoOn, RequestsHold, NEW r \in Clients, Ends(r)
  PROVE  RequestsHold'
  BY EndedRow, IdleHolds, OthersHold DEF RequestsHold

\* One request goes on.
LEMMA OneGoesOn ==
  ASSUME AccountsTypeOK, AccountsTypeOK', RowsGoOn, RequestsHold, NEW r \in Clients,
         \A q \in Clients \ {r} : req'[q] = req[q],
         (ReadOnce(req[r]) /\ LostIsPast(req[r]))'
  PROVE  RequestsHold'
  BY OthersHold DEF RequestsHold

-----------------------------------------------------------------------------
(* What a step does to the rows *)

\* A field of an update that is given, or the old one.
LEMMA GivenFacts ==
  /\ \A n \in Names \cup {Nothing}, o \in Names : Given(n, o) \in Names
  /\ \A n \in Passwords \cup {Nothing}, o \in Passwords : Given(n, o) \in Passwords
  /\ \A a \in BOOLEAN \cup {Nothing}, o \in BOOLEAN : Given(a, o) \in BOOLEAN
  BY DEF Given

\* An update writes one row of the same account, of a later generation if it revokes.
LEMMA Updating ==
  ASSUME AccountsTypeOK, NEW r \in Clients, NEW u \in Users, NEW n \in Names \cup {Nothing},
         NEW p \in Passwords \cup {Nothing}, NEW a \in BOOLEAN \cup {Nothing},
         UpdateUser(r, u, n, p, a)
  PROVE  \E row \in Account :
           /\ accounts' = [accounts EXCEPT ![u] = row]
           /\ accounts[u] \in Account /\ accounts[u].gen <= row.gen
           /\ accounts[u].admin /\ a # FALSE => row.admin
           /\ \/ row.gen = accounts[u].gen /\ UNCHANGED <<tokens, dead>> /\ Ends(r)
              \/ /\ accounts[u].gen < row.gen
                 /\ Delete(TokensOf({u})) \/ UNCHANGED tokens
                 /\ EndsAndOutdates(r, {u}, {}) /\ dead' = dead \cup TokensOf({u})
<1>1. accounts[u] \in Account
  BY DEF UpdateUser, Exists, AccountsTypeOK, Absent
<1> DEFINE was == accounts[u]
           role == Given(a, was.admin)
           one == IF p # Nothing THEN 1 ELSE 0
           two == IF role # was.admin THEN 1 ELSE 0
           row == [name |-> Given(n, was.name), pw |-> Given(p, was.pw), admin |-> role,
                   gen |-> was.gen + (one + two)]
<1>2. /\ was.gen + (one + two) <= MaxGen
      /\ accounts' = [accounts EXCEPT ![u] = row]
      /\ IF p # Nothing THEN Delete(TokensOf({u})) ELSE UNCHANGED tokens
      /\ IF one + two > 0
         THEN EndsAndOutdates(r, {u}, {}) /\ dead' = dead \cup TokensOf({u})
         ELSE Ends(r) /\ UNCHANGED dead
  BY DEF UpdateUser
<1>3. one \in {0, 1} /\ two \in {0, 1} /\ (p # Nothing => one = 1)
  OBVIOUS
<1>4. was.gen \in Nat /\ was.gen >= 1 /\ was.name \in Names /\ was.pw \in Passwords
      /\ was.admin \in BOOLEAN
  BY <1>1 DEF Account
<1>5. role \in BOOLEAN /\ Given(n, was.name) \in Names /\ Given(p, was.pw) \in Passwords
  BY <1>4, GivenFacts
<1> HIDE DEF one, two, role
<1>6. row \in Account /\ row.gen = was.gen + (one + two) /\ row.admin = role
  <2>1. was.gen + (one + two) \in 1..MaxGen
    BY <1>2, <1>3, <1>4, GenBounds
  <2> QED BY <1>5, <2>1 DEF Account
<1> HIDE DEF row
<1>7. \/ one + two = 0 /\ one = 0 /\ row.gen = was.gen
      \/ one + two > 0 /\ was.gen < row.gen
  BY <1>3, <1>4, <1>6
<1>8. accounts[u].admin /\ a # FALSE => row.admin
  BY <1>6 DEF role, Given
<1>9. \/ row.gen = accounts[u].gen /\ UNCHANGED <<tokens, dead>> /\ Ends(r)
      \/ /\ accounts[u].gen < row.gen
         /\ Delete(TokensOf({u})) \/ UNCHANGED tokens
         /\ EndsAndOutdates(r, {u}, {}) /\ dead' = dead \cup TokensOf({u})
  BY <1>2, <1>3, <1>7
<1>10. accounts[u].gen <= row.gen
  BY <1>3, <1>4, <1>6
<1> row \in Account
  BY <1>6
<1> WITNESS row \in Account
<1> QED BY <1>1, <1>2, <1>8, <1>9, <1>10

\* A new password writes one row of the next generation, or nothing.
LEMMA SettingPassword ==
  ASSUME AccountsTypeOK, NEW r \in Clients, NEW p \in Passwords, SetPassword(r, p)
  PROVE  /\ UNCHANGED keys /\ req[r].at = "verified" /\ req[r].op = "change"
         /\ \/ /\ ~Unrevoked(r) /\ Ends(r) /\ UNCHANGED <<accounts, tokens, dead>>
            \/ \E u \in Users, row \in Account :
                 /\ u = req[r].vid /\ Unrevoked(r)
                 /\ accounts' = [accounts EXCEPT ![u] = row] /\ accounts[u] \in Account
                 /\ row.admin = accounts[u].admin /\ accounts[u].gen < row.gen
                 /\ Delete(TokensOf({u})) /\ dead' = dead \cup TokensOf({u})
                 /\ EndsAndOutdates(r, {u}, {})
<1>1. CASE ~Unrevoked(r) /\ Ends(r) /\ UNCHANGED <<accounts, tokens, dead>>
  BY <1>1 DEF SetPassword
<1>2. CASE ~(~Unrevoked(r) /\ Ends(r) /\ UNCHANGED <<accounts, tokens, dead>>)
  <2>1. PICK u \in Users : u = req[r].vid /\ Unrevoked(r)
    BY <1>2 DEF SetPassword, Unrevoked, Exists
  <2>2. PICK was \in Account : was = accounts[u]
    BY <2>1, RowFacts DEF Unrevoked, Exists
  <2>3. /\ accounts[u].gen < MaxGen
        /\ accounts' = [accounts EXCEPT ![u] = [accounts[u] EXCEPT !.pw = p,
                                                  !.gen = accounts[u].gen + 1]]
        /\ Delete(TokensOf({u})) /\ dead' = dead \cup TokensOf({u})
        /\ EndsAndOutdates(r, {u}, {})
    BY <1>2, <2>1 DEF SetPassword
  <2> DEFINE row == [was EXCEPT !.pw = p, !.gen = was.gen + 1]
  <2>4. row \in Account /\ row.admin = was.admin /\ was.gen < row.gen
    <3>1. was.gen < MaxGen
      BY <2>2, <2>3
    <3>2. was.gen \in Nat /\ was.gen >= 1
      BY GenBounds DEF Account
    <3>3. was.gen + 1 \in 1..MaxGen /\ was.gen < was.gen + 1
      BY <3>1, <3>2, GenBounds
    <3>4. PICK g \in 1..MaxGen : g = was.gen + 1
      BY <3>3
    <3>5. [was EXCEPT !.pw = p, !.gen = g] \in Account
          /\ [was EXCEPT !.pw = p, !.gen = g].admin = was.admin
          /\ [was EXCEPT !.pw = p, !.gen = g].gen = g
      BY DEF Account
    <3> QED BY <3>3, <3>4, <3>5
  <2>5. accounts' = [accounts EXCEPT ![u] = row]
    BY <2>2, <2>3
  <2> HIDE DEF row
  <2> QED BY <2>1, <2>2, <2>3, <2>4, <2>5 DEF SetPassword
<1> QED BY <1>1, <1>2

\* Rows that a step leaves, and rows that it deletes.
LEMMA TokensDeleted ==
  ASSUME AccountsTypeOK, NEW T, Delete(T)
  PROVE  /\ tokens' \in [Tokens -> Token \cup {Unused, Deleted}]
         /\ \A t \in Tokens : tokens'[t] = (IF t \in T THEN Deleted ELSE tokens[t])
  BY DEF AccountsTypeOK, Delete

\* The request and the credential it has shown are there.
LEMMA Writer ==
  ASSUME AccountsTypeOK, NEW r \in Clients, Admitted(r)
  PROVE  /\ req[r].id \in Users /\ accounts[req[r].id] \notin Absent
         /\ accounts[req[r].id].admin /\ accounts[req[r].id].gen = req[r].gen
         /\ accounts[req[r].id] \in Account
         /\ \/ LiveToken(req[r].cred)
            \/ LiveKey(req[r].cred)
  BY DEF Admitted, Exists, StandsFor, AccountsTypeOK, Absent

\* Types hold after every step.
LEMMA AccountsTypesStay == ASSUME AccountsTypeOK, RequestsHold, [AccountsNext]_accountVars
                   PROVE  AccountsTypeOK'
<1> USE GenBounds
<1>1. ASSUME NEW n \in Names, NEW p \in Passwords, InitializeFirst(n, p) PROVE AccountsTypeOK'
  <2>1. [name |-> n, pw |-> p, admin |-> TRUE, gen |-> 1] \in Account
    BY DEF Account
  <2> QED BY <1>1, <2>1 DEF InitializeFirst, AccountsTypeOK
<1>2. ASSUME NEW t \in Tokens, Expire(t) PROVE AccountsTypeOK'
  <2>1. [tokens[t] EXCEPT !.expired = TRUE] \in Token
    BY <1>2, RowFacts DEF Expire, Token
  <2>2. tokens' = [tokens EXCEPT ![t] = [tokens[t] EXCEPT !.expired = TRUE]]
    BY <1>2 DEF Expire
  <2> QED BY <1>2, <2>1, <2>2 DEF Expire, AccountsTypeOK
<1>3. ASSUME NEW r \in Clients, NEW n \in Names, NEW p \in Passwords, LogIn(r, n, p)
      PROVE AccountsTypeOK'
  <2>1. PICK u \in Users :
          /\ Matches(u, n, p)
          /\ req' = [req EXCEPT ![r] = [Idle EXCEPT !.at = "verified", !.op = "login",
                                          !.vid = u, !.vgen = accounts[u].gen]]
    BY <1>3 DEF LogIn
  <2>2. accounts[u].gen \in 0..MaxGen
    BY <2>1, RowFacts DEF Matches, Exists, Account
  <2>3. [Idle EXCEPT !.at = "verified", !.op = "login", !.vid = u, !.vgen = accounts[u].gen]
          \in Request
    BY <2>2 DEF Idle, Request
  <2> QED BY <1>3, <2>1, <2>3 DEF LogIn, AccountsTypeOK
<1>4. ASSUME NEW r \in Clients, SaveAccessToken(r) PROVE AccountsTypeOK'
  <2>1. CASE Unrevoked(r) /\ \E t \in Tokens :
             /\ tokens[t] = Unused
             /\ tokens' = [tokens EXCEPT ![t] =
                  [user |-> req[r].vid, gen |-> accounts[req[r].vid].gen, expired |-> FALSE]]
             /\ dead' = IF "password" \in req[r].lost THEN dead \cup {t} ELSE dead
    <3>1. [user |-> req[r].vid, gen |-> accounts[req[r].vid].gen, expired |-> FALSE] \in Token
      BY <2>1, RowFacts DEF Unrevoked, Exists, Account, Token
    <3>2. tokens' \in [Tokens -> Token \cup {Unused, Deleted}] /\ dead' \subseteq Tokens
      BY <2>1, <3>1 DEF AccountsTypeOK
    <3> QED BY <1>4, <3>2, EndedRow DEF SaveAccessToken, AccountsTypeOK
  <2>2. CASE ~Unrevoked(r) /\ UNCHANGED <<tokens, dead>>
    BY <1>4, <2>2, EndedRow DEF SaveAccessToken, AccountsTypeOK
  <2> QED BY <1>4, <2>1, <2>2 DEF SaveAccessToken
<1>5. ASSUME NEW r \in Clients, NEW c \in Credentials, PresentCredential(r, c)
      PROVE AccountsTypeOK'
  <2>1. CASE LiveToken(c) /\ tokens[c].expired /\ Delete({c}) /\ UNCHANGED req
    BY <1>5, <2>1, TokensDeleted DEF PresentCredential, AccountsTypeOK
  <2>2. ASSUME LiveToken(c) \/ LiveKey(c), NEW at \in {"validated", "sliding"}, UNCHANGED tokens,
               req' = [req EXCEPT ![r] = [Idle EXCEPT !.at = at, !.cred = c, !.id = OwnerOf(c)]]
        PROVE AccountsTypeOK'
    <3>1. OwnerOf(c) \in Users
      BY <2>2, NothingIsNone, RowFacts DEF OwnerOf, LiveToken, LiveKey, Exists, Key
    <3>2. [Idle EXCEPT !.at = at, !.cred = c, !.id = OwnerOf(c)] \in Request
      BY <3>1 DEF Idle, Request
    <3> QED BY <1>5, <2>2, <3>2 DEF PresentCredential, AccountsTypeOK
  <2> QED BY <1>5, <2>1, <2>2 DEF PresentCredential
<1>6. ASSUME NEW r \in Clients, Slide(r) PROVE AccountsTypeOK'
  <2>1. req[r].cred \in Tokens
    BY <1>6 DEF Slide, RequestsHold, ReadOnce
  <2>2. tokens' \in [Tokens -> Token \cup {Unused, Deleted}]
    <3>1. CASE tokens[req[r].cred] \in Absent
      BY <1>6, <3>1 DEF Slide, AccountsTypeOK
    <3>2. CASE tokens[req[r].cred] \notin Absent
      <4>1. [tokens[req[r].cred] EXCEPT !.expired = FALSE] \in Token
        BY <2>1, <3>2, RowFacts DEF Token
      <4>2. tokens' = [tokens EXCEPT ![req[r].cred] = [tokens[req[r].cred] EXCEPT !.expired = FALSE]]
        BY <1>6, <3>2 DEF Slide
      <4> QED BY <2>1, <4>1, <4>2 DEF AccountsTypeOK
    <3> QED BY <3>1, <3>2
  <2>3. req' \in [Clients -> Request]
    <3>1. [req[r] EXCEPT !.at = "validated"] \in Request
      BY DEF AccountsTypeOK, Request
    <3>2. req' = [req EXCEPT ![r] = [req[r] EXCEPT !.at = "validated"]]
      BY <1>6 DEF Slide
    <3> QED BY <3>1, <3>2 DEF AccountsTypeOK
  <2> QED BY <1>6, <2>2, <2>3 DEF Slide, AccountsTypeOK
<1>7. ASSUME NEW r \in Clients, RequestCredential(r) PROVE AccountsTypeOK'
  <2>1. CASE ~StandsFor(req[r].cred, req[r].id)
    BY <1>7, <2>1, EndedRow DEF RequestCredential, AccountsTypeOK
  <2>2. CASE StandsFor(req[r].cred, req[r].id)
    <3> DEFINE a == accounts[req[r].id]
               new == [req[r] EXCEPT !.at = "proved", !.gen = a.gen, !.admin = a.admin, !.lost = {}]
    <3>1. a.gen \in 0..MaxGen /\ a.admin \in BOOLEAN
      BY <2>2, RowFacts DEF StandsFor, Exists, Account
    <3>2. new \in Request
      <4>1. PICK old \in Request : old = req[r]
        BY DEF AccountsTypeOK
      <4> QED BY <3>1, <4>1 DEF Request
    <3>3. req' = [req EXCEPT ![r] = new]
      BY <1>7, <2>2 DEF RequestCredential
    <3> QED BY <1>7, <3>2, <3>3 DEF RequestCredential, AccountsTypeOK
  <2> QED BY <2>1, <2>2
<1>8. ASSUME NEW r \in Clients, Logout(r) PROVE AccountsTypeOK'
  <2>1. CASE req[r].cred \in Tokens
    <3>1. {req[r].cred} \in SUBSET Credentials /\ {} \in SUBSET Users
      BY <2>1 DEF Credentials
    <3>2. req' \in [Clients -> Request]
      BY <1>8, <2>1, <3>1, Outdated DEF Logout
    <3>3. tokens' \in [Tokens -> Token \cup {Unused, Deleted}]
      BY <1>8, <2>1, TokensDeleted DEF Logout
    <3> QED BY <1>8, <2>1, <3>2, <3>3 DEF Logout, AccountsTypeOK
  <2>2. CASE req[r].cred \notin Tokens
    BY <1>8, <2>2, EndedRow DEF Logout, AccountsTypeOK
  <2> QED BY <2>1, <2>2
<1>9. ASSUME NEW r \in Clients, NEW u \in Users, NEW n \in Names, NEW p \in Passwords,
             NEW a \in BOOLEAN, CreateUser(r, u, n, p, a)
      PROVE AccountsTypeOK'
  <2>1. [name |-> n, pw |-> p, admin |-> a, gen |-> 1] \in Account
    BY DEF Account
  <2> QED BY <1>9, <2>1, EndedRow DEF CreateUser, AccountsTypeOK
<1>10. ASSUME NEW r \in Clients, NEW u \in Users, NEW n \in Names \cup {Nothing},
              NEW p \in Passwords \cup {Nothing}, NEW a \in BOOLEAN \cup {Nothing},
              UpdateUser(r, u, n, p, a)
       PROVE AccountsTypeOK'
  <2>1. PICK row \in Account :
          /\ accounts' = [accounts EXCEPT ![u] = row]
          /\ \/ UNCHANGED <<tokens, dead>> /\ Ends(r)
             \/ /\ Delete(TokensOf({u})) \/ UNCHANGED tokens
                /\ EndsAndOutdates(r, {u}, {}) /\ dead' = dead \cup TokensOf({u})
    BY <1>10, Updating
  <2>2. UNCHANGED keys
    BY <1>10 DEF UpdateUser
  <2>3. tokens' \in [Tokens -> Token \cup {Unused, Deleted}] /\ dead' \subseteq Tokens
    BY <2>1, TokensDeleted DEF TokensOf, AccountsTypeOK
  <2>4. req' \in [Clients -> Request]
    <3>1. {u} \in SUBSET Users /\ {} \in SUBSET Credentials
      OBVIOUS
    <3> QED BY <2>1, <3>1, EndedRow, Outdated
  <2> QED BY <2>1, <2>2, <2>3, <2>4 DEF AccountsTypeOK
<1>11. ASSUME NEW r \in Clients, NEW u \in Users, DeleteUser(r, u) PROVE AccountsTypeOK'
  <2>1. {u} \in SUBSET Users /\ {} \in SUBSET Credentials
    OBVIOUS
  <2>2. req' \in [Clients -> Request]
    BY <1>11, <2>1, Outdated DEF DeleteUser
  <2>3. tokens' \in [Tokens -> Token \cup {Unused, Deleted}]
    BY <1>11, TokensDeleted DEF DeleteUser
  <2> QED BY <1>11, <2>2, <2>3 DEF DeleteUser, TokensOf, AccountsTypeOK
<1>12. ASSUME NEW r \in Clients, RevokeAll(r) PROVE AccountsTypeOK'
  <2>1. ASSUME NEW u \in Users, Exists(u)
        PROVE [accounts[u] EXCEPT !.gen = accounts[u].gen + 1] \in Account
    <3>1. accounts[u] \in Account /\ accounts[u].gen < MaxGen
      BY <1>12, <2>1, RowFacts DEF RevokeAll, Exists
    <3> QED BY <3>1 DEF Account
  <2>2. accounts' = [u \in Users |-> IF Exists(u) THEN [accounts[u] EXCEPT !.gen = accounts[u].gen + 1]
                                     ELSE accounts[u]]
    BY <1>12 DEF RevokeAll
  <2>3. accounts' \in [Users -> Account \cup {Unused, Deleted}]
    BY <2>1, <2>2 DEF AccountsTypeOK
  <2> QED BY <1>12, <2>3, TokensDeleted, Outdated DEF RevokeAll, TokensOf, AccountsTypeOK
<1>13. ASSUME NEW r \in Clients, NEW k \in ApiKeys, CreateKey(r, k) PROVE AccountsTypeOK'
  <2>1. [user |-> req[r].id, version |-> 1] \in Key
    BY <1>13, Writer DEF CreateKey, MayWrite, Key
  <2> QED BY <1>13, <2>1, EndedRow DEF CreateKey, AccountsTypeOK
<1>14. ASSUME NEW r \in Clients, NEW k \in ApiKeys, NEW v \in 0..MaxVersion, DeleteKey(r, k, v)
       PROVE AccountsTypeOK'
  <2>1. {<<k, keys[k].version>>} \in SUBSET Credentials
    BY <1>14, RowFacts DEF DeleteKey, Key, Credentials, KeyCredentials
  <2> QED BY <1>14, <2>1, Outdated DEF DeleteKey, AccountsTypeOK
<1>15. ASSUME NEW r \in Clients, AdmitOperation(r) PROVE AccountsTypeOK'
  <2>1. [Idle EXCEPT !.at = "working"] \in Request
    BY DEF Idle, Request
  <2> QED BY <1>15, <2>1 DEF AdmitOperation, AccountsTypeOK
<1>16. ASSUME NEW r \in Clients, ReadName(r) PROVE AccountsTypeOK'
  <2>1. [Idle EXCEPT !.at = "named", !.op = "change", !.id = req[r].id,
                     !.name = accounts[req[r].id].name] \in Request
    BY <1>16, RowFacts DEF ReadName, Exists, Account, Idle, Request
  <2> QED BY <1>16, <2>1 DEF ReadName, AccountsTypeOK
<1>17. ASSUME NEW r \in Clients, NEW v \in 1..MaxVersion, StartRotation(r, v) PROVE AccountsTypeOK'
  <2> DEFINE u == OwnerOf(req[r].cred)
             new == [req[r] EXCEPT !.at = "named", !.op = "rotate", !.name = accounts[u].name,
                                   !.seen = v]
  <2>1. accounts[u].name \in Names
    BY <1>17, RowFacts DEF StartRotation, LiveToken, OwnerOf, Exists, Account
  <2>2. new \in Request
    <3>1. PICK old \in Request : old = req[r]
      BY DEF AccountsTypeOK
    <3>2. PICK n \in Names : n = accounts[u].name
      BY <2>1
    <3>3. v \in 0..MaxVersion
      OBVIOUS
    <3>4. [old EXCEPT !.at = "named", !.op = "rotate", !.name = n, !.seen = v] \in Request
      BY <3>3 DEF Request
    <3> QED BY <3>1, <3>2, <3>4
  <2>3. req' = [req EXCEPT ![r] = new]
    BY <1>17 DEF StartRotation
  <2> QED BY <1>17, <2>2, <2>3 DEF StartRotation, AccountsTypeOK
<1>18. ASSUME NEW r \in Clients, NEW p \in Passwords, Verify(r, p) PROVE AccountsTypeOK'
  <2>1. PICK u \in Users :
          /\ Matches(u, req[r].name, p)
          /\ IF u = req[r].id
             THEN req' = [req EXCEPT ![r] = [req[r] EXCEPT !.at = "verified", !.name = Nothing,
                            !.vid = u, !.vgen = accounts[u].gen,
                            !.lost = req[r].lost \ {"password"}]]
             ELSE Ends(r)
    BY <1>18 DEF Verify
  <2>2. accounts[u].gen \in 0..MaxGen
    BY <2>1, RowFacts DEF Matches, Exists, Account
  <2>3. req[r].lost \ {"password"} \in SUBSET {"proof", "password"}
    BY DEF AccountsTypeOK, Request
  <2>4. [req[r] EXCEPT !.at = "verified", !.name = Nothing, !.vid = u, !.vgen = accounts[u].gen,
                       !.lost = req[r].lost \ {"password"}] \in Request
    <3>1. PICK old \in Request : old = req[r]
      BY DEF AccountsTypeOK
    <3> QED BY <2>2, <2>3, <3>1 DEF Request
  <2>5. req' \in [Clients -> Request]
    BY <2>1, <2>4, EndedRow DEF AccountsTypeOK
  <2> QED BY <1>18, <2>5 DEF Verify, AccountsTypeOK
<1>19. ASSUME NEW r \in Clients, NEW p \in Passwords, SetPassword(r, p) PROVE AccountsTypeOK'
  <2>1. CASE Ends(r) /\ UNCHANGED <<accounts, tokens, dead>>
    BY <1>19, <2>1, EndedRow DEF SetPassword, AccountsTypeOK
  <2>2. ASSUME NEW u \in Users, NEW row \in Account, accounts' = [accounts EXCEPT ![u] = row],
               Delete(TokensOf({u})), dead' = dead \cup TokensOf({u}),
               EndsAndOutdates(r, {u}, {}), UNCHANGED keys
        PROVE  AccountsTypeOK'
    <3>1. {u} \in SUBSET Users /\ {} \in SUBSET Credentials
      OBVIOUS
    <3>2. req' \in [Clients -> Request]
      BY <2>2, <3>1, Outdated
    <3>3. tokens' \in [Tokens -> Token \cup {Unused, Deleted}] /\ dead' \subseteq Tokens
      BY <2>2, TokensDeleted DEF TokensOf, AccountsTypeOK
    <3> QED BY <2>2, <3>2, <3>3 DEF AccountsTypeOK
  <2> QED BY <1>19, <2>1, <2>2, SettingPassword
<1>20. ASSUME NEW r \in Clients, NEW k \in ApiKeys, Rotate(r, k) PROVE AccountsTypeOK'
  <2>1. CASE /\ keys[k].version < MaxVersion
             /\ keys' = [keys EXCEPT ![k].version = keys[k].version + 1]
             /\ EndsAndOutdates(r, {}, {<<k, keys[k].version>>})
    <3>1. keys[k] \in Key
      BY <1>20, RowFacts DEF Rotate
    <3>2. [keys[k] EXCEPT !.version = keys[k].version + 1] \in Key
      BY <2>1, <3>1 DEF Key
    <3>3. keys' \in [ApiKeys -> Key \cup {Unused, Deleted}]
      BY <2>1, <3>2 DEF AccountsTypeOK
    <3>4. {<<k, keys[k].version>>} \in SUBSET Credentials
      BY <3>1 DEF Key, Credentials, KeyCredentials
    <3> QED BY <1>20, <2>1, <3>3, <3>4, Outdated DEF Rotate, AccountsTypeOK
  <2>2. CASE Ends(r) /\ UNCHANGED keys
    BY <1>20, <2>2, EndedRow DEF Rotate, AccountsTypeOK
  <2> QED BY <1>20, <2>1, <2>2 DEF Rotate
<1>21. ASSUME NEW r \in Clients, DropRequest(r) PROVE AccountsTypeOK'
  BY <1>21, EndedRow DEF DropRequest, AccountsTypeOK
<1>22. CASE UNCHANGED accountVars
  BY <1>22 DEF accountVars, AccountsTypeOK
<1> QED
  BY <1>1, <1>2, <1>3, <1>4, <1>5, <1>6, <1>7, <1>8, <1>9, <1>10, <1>11, <1>12, <1>13, <1>14,
     <1>15, <1>16, <1>17, <1>18, <1>19, <1>20, <1>21, <1>22 DEF AccountsNext, AdminWrites

LEMMA GensAreNumbers ==
  ASSUME AccountsTypeOK
  PROVE  /\ \A u \in Users : accounts[u] \notin Absent => accounts[u].gen \in Nat
         /\ \A k \in ApiKeys : keys[k] \notin Absent => keys[k].version \in Nat
  BY RowFacts, GenBounds DEF Account, Key

\* A step that leaves a table, deletes from it, or fills a row that was not there.
LEMMA StandingGoesOn ==
  ASSUME AccountsTypeOK
  PROVE  /\ UNCHANGED accounts => AccountsGoOn
         /\ UNCHANGED tokens => TokensGoOn
         /\ UNCHANGED keys => KeysGoOn
         /\ \A T : Delete(T) => TokensGoOn
<1>1. UNCHANGED accounts => AccountsGoOn
  BY GensAreNumbers DEF AccountsGoOn, Absent
<1>2. UNCHANGED tokens => TokensGoOn
  BY DEF TokensGoOn
<1>3. UNCHANGED keys => KeysGoOn
  BY GensAreNumbers DEF KeysGoOn, Absent
<1>4. \A T : Delete(T) => TokensGoOn
  BY TokensDeleted, WrittenIsThere DEF TokensGoOn
<1> QED BY <1>1, <1>2, <1>3, <1>4

LEMMA WritingGoesOn ==
  ASSUME AccountsTypeOK, NEW u \in Users, NEW row \in Account,
         accounts' = [accounts EXCEPT ![u] = row],
         accounts[u] \in Account => accounts[u].gen <= row.gen, accounts[u] # Deleted
  PROVE  AccountsGoOn
<1>1. accounts'[u] = row /\ \A v \in Users \ {u} : accounts'[v] = accounts[v]
  BY DEF AccountsTypeOK
<1>2. row \notin Absent /\ Unused # Deleted
  BY WrittenIsThere
<1>3. accounts[u] = Unused \/ accounts[u] \in Account
  BY DEF AccountsTypeOK
<1> QED BY <1>1, <1>2, <1>3, GensAreNumbers DEF AccountsGoOn, Absent

\* Every step goes on.
LEMMA GoesOn == ASSUME AccountsTypeOK, RequestsHold, [AccountsNext]_accountVars PROVE RowsGoOn
<1> SUFFICES AccountsGoOn /\ TokensGoOn /\ KeysGoOn
  BY DEF RowsGoOn
<1>1. ASSUME NEW n \in Names, NEW p \in Passwords, InitializeFirst(n, p)
      PROVE AccountsGoOn /\ TokensGoOn /\ KeysGoOn
  <2>1. [name |-> n, pw |-> p, admin |-> TRUE, gen |-> 1] \in Account
    BY GenBounds DEF Account
  <2>2. PICK row \in Account : row = [name |-> n, pw |-> p, admin |-> TRUE, gen |-> 1]
    BY <2>1
  <2>3. First \in Users /\ accounts[First] = Unused /\ accounts' = [accounts EXCEPT ![First] = row]
    BY <1>1, <2>2, AccountsAssumption DEF InitializeFirst
  <2>4. AccountsGoOn
    BY <2>3, WritingGoesOn, WrittenIsThere DEF Absent
  <2> QED BY <1>1, <2>4, StandingGoesOn DEF InitializeFirst
<1>2. ASSUME NEW t \in Tokens, Expire(t) PROVE AccountsGoOn /\ TokensGoOn /\ KeysGoOn
  <2>1. \A s \in Tokens : /\ s # t => tokens'[s] = tokens[s]
                          /\ s = t => tokens'[s] = [tokens[t] EXCEPT !.expired = TRUE]
    BY <1>2 DEF Expire, AccountsTypeOK
  <2>2. tokens[t] \in Token /\ tokens[t] \notin Absent
    BY <1>2, RowFacts DEF Expire
  <2>3. PICK old \in Token : old = tokens[t]
    BY <2>2
  <2>4. [old EXCEPT !.expired = TRUE] \in Token
        /\ [old EXCEPT !.expired = TRUE].user = old.user
        /\ [old EXCEPT !.expired = TRUE].gen = old.gen
    BY DEF Token
  <2>5. TokensGoOn
    BY <2>1, <2>2, <2>3, <2>4, WrittenIsThere DEF TokensGoOn, Absent
  <2> QED BY <1>2, <2>5, StandingGoesOn DEF Expire
<1>3. ASSUME NEW r \in Clients, SaveAccessToken(r) PROVE AccountsGoOn /\ TokensGoOn /\ KeysGoOn
  <2>1. TokensGoOn
    <3>1. CASE UNCHANGED tokens
      BY <3>1, StandingGoesOn
    <3>2. ASSUME NEW t \in Tokens, tokens[t] = Unused, NEW row,
                 tokens' = [tokens EXCEPT ![t] = row]
          PROVE  TokensGoOn
      <4>1. \A s \in Tokens \ {t} : tokens'[s] = tokens[s]
        BY <3>2 DEF AccountsTypeOK
      <4> QED BY <3>2, <4>1 DEF TokensGoOn
    <3> QED BY <1>3, <3>1, <3>2 DEF SaveAccessToken
  <2> QED BY <1>3, <2>1, StandingGoesOn DEF SaveAccessToken
<1>4. ASSUME NEW r \in Clients, NEW c \in Credentials, PresentCredential(r, c)
      PROVE AccountsGoOn /\ TokensGoOn /\ KeysGoOn
  BY <1>4, StandingGoesOn DEF PresentCredential
<1>5. ASSUME NEW r \in Clients, Slide(r) PROVE AccountsGoOn /\ TokensGoOn /\ KeysGoOn
  <2>1. CASE UNCHANGED tokens
    BY <1>5, <2>1, StandingGoesOn DEF Slide
  <2>2. CASE tokens[req[r].cred] \notin Absent
    <3>1. PICK t \in Tokens : t = req[r].cred
      BY <1>5 DEF Slide, RequestsHold, ReadOnce
    <3>2. PICK old \in Token : old = tokens[t]
      BY <2>2, <3>1, RowFacts
    <3>3. tokens' = [tokens EXCEPT ![t] = [old EXCEPT !.expired = FALSE]]
      BY <1>5, <2>2, <3>1, <3>2 DEF Slide
    <3>4. \A s \in Tokens : /\ s # t => tokens'[s] = tokens[s]
                            /\ s = t => tokens'[s] = [old EXCEPT !.expired = FALSE]
      BY <3>3 DEF AccountsTypeOK
    <3>5. [old EXCEPT !.expired = FALSE] \in Token
          /\ [old EXCEPT !.expired = FALSE].user = old.user
          /\ [old EXCEPT !.expired = FALSE].gen = old.gen
      BY DEF Token
    <3>6. TokensGoOn
      BY <2>2, <3>1, <3>2, <3>4, <3>5, WrittenIsThere DEF TokensGoOn, Absent
    <3> QED BY <1>5, <3>6, StandingGoesOn DEF Slide
  <2> QED BY <1>5, <2>1, <2>2 DEF Slide
<1>6. ASSUME NEW r \in Clients, Logout(r) PROVE AccountsGoOn /\ TokensGoOn /\ KeysGoOn
  BY <1>6, StandingGoesOn DEF Logout
<1>7. ASSUME NEW r \in Clients, NEW u \in Users, NEW n \in Names, NEW p \in Passwords,
             NEW a \in BOOLEAN, CreateUser(r, u, n, p, a)
      PROVE AccountsGoOn /\ TokensGoOn /\ KeysGoOn
  <2>1. [name |-> n, pw |-> p, admin |-> a, gen |-> 1] \in Account
    BY GenBounds DEF Account
  <2>2. PICK row \in Account : row = [name |-> n, pw |-> p, admin |-> a, gen |-> 1]
    BY <2>1
  <2>3. accounts[u] = Unused /\ accounts' = [accounts EXCEPT ![u] = row]
    BY <1>7, <2>2 DEF CreateUser
  <2>4. AccountsGoOn
    BY <2>3, WritingGoesOn, WrittenIsThere DEF Absent
  <2> QED BY <1>7, <2>4, StandingGoesOn DEF CreateUser
<1>8. ASSUME NEW r \in Clients, NEW u \in Users, NEW n \in Names \cup {Nothing},
             NEW p \in Passwords \cup {Nothing}, NEW a \in BOOLEAN \cup {Nothing},
             UpdateUser(r, u, n, p, a)
      PROVE AccountsGoOn /\ TokensGoOn /\ KeysGoOn
  <2>1. PICK row \in Account :
          /\ accounts' = [accounts EXCEPT ![u] = row] /\ accounts[u] \in Account
          /\ accounts[u].gen <= row.gen
          /\ Delete(TokensOf({u})) \/ UNCHANGED tokens
    BY <1>8, Updating
  <2>2. AccountsGoOn
    BY <2>1, WritingGoesOn, WrittenIsThere DEF Absent
  <2>3. UNCHANGED keys
    BY <1>8 DEF UpdateUser
  <2> QED BY <2>1, <2>2, <2>3, StandingGoesOn
<1>9. ASSUME NEW r \in Clients, NEW u \in Users, DeleteUser(r, u)
      PROVE AccountsGoOn /\ TokensGoOn /\ KeysGoOn
  <2>1. AccountsGoOn
    BY <1>9, WrittenIsThere, GensAreNumbers DEF DeleteUser, AccountsGoOn, AccountsTypeOK, Absent
  <2>2. KeysGoOn
    BY <1>9, WrittenIsThere, GensAreNumbers DEF DeleteUser, KeysGoOn, AccountsTypeOK, Absent
  <2> QED BY <1>9, <2>1, <2>2, StandingGoesOn DEF DeleteUser
<1>10. ASSUME NEW r \in Clients, RevokeAll(r) PROVE AccountsGoOn /\ TokensGoOn /\ KeysGoOn
  <2>1. ASSUME NEW u \in Users, accounts[u] # Unused, accounts[u] # Deleted
        PROVE  accounts'[u] \notin Absent /\ accounts[u].gen <= accounts'[u].gen
    <3>1. PICK old \in Account : old = accounts[u]
      BY <2>1, RowFacts DEF Absent
    <3>2. accounts'[u] = [old EXCEPT !.gen = old.gen + 1]
      BY <1>10, <2>1, <3>1 DEF RevokeAll, Exists, Absent
    <3>3. old.gen < MaxGen
      BY <1>10, <2>1, <3>1 DEF RevokeAll, Exists, Absent
    <3>4. [old EXCEPT !.gen = old.gen + 1] \in Account
      BY <3>3, GenBounds DEF Account
    <3> QED BY <3>1, <3>2, <3>4, WrittenIsThere, GenBounds DEF Account
  <2>2. \A u \in Users : accounts[u] = Deleted => accounts'[u] = Deleted
    BY <1>10 DEF RevokeAll, Exists, Absent
  <2>3. AccountsGoOn
    BY <2>1, <2>2, WrittenIsThere DEF AccountsGoOn, Absent
  <2> QED BY <1>10, <2>3, StandingGoesOn DEF RevokeAll
<1>11. ASSUME NEW r \in Clients, NEW k \in ApiKeys, CreateKey(r, k)
       PROVE AccountsGoOn /\ TokensGoOn /\ KeysGoOn
  <2>1. KeysGoOn
    BY <1>11, GensAreNumbers DEF CreateKey, KeysGoOn, AccountsTypeOK, Absent
  <2> QED BY <1>11, <2>1, StandingGoesOn DEF CreateKey
<1>12. ASSUME NEW r \in Clients, NEW k \in ApiKeys, NEW v \in 0..MaxVersion, DeleteKey(r, k, v)
       PROVE AccountsGoOn /\ TokensGoOn /\ KeysGoOn
  <2>1. KeysGoOn
    BY <1>12, WrittenIsThere, GensAreNumbers DEF DeleteKey, KeysGoOn, AccountsTypeOK, Absent
  <2> QED BY <1>12, <2>1, StandingGoesOn DEF DeleteKey
<1>13. ASSUME NEW r \in Clients, NEW p \in Passwords, SetPassword(r, p)
       PROVE AccountsGoOn /\ TokensGoOn /\ KeysGoOn
  <2>1. CASE UNCHANGED <<accounts, tokens, keys>>
    BY <2>1, StandingGoesOn
  <2>2. ASSUME NEW u \in Users, NEW row \in Account, accounts' = [accounts EXCEPT ![u] = row],
               accounts[u] \in Account, accounts[u].gen < row.gen, Delete(TokensOf({u})),
               UNCHANGED keys
        PROVE  AccountsGoOn /\ TokensGoOn /\ KeysGoOn
    <3>1. accounts[u].gen <= row.gen
      BY <2>2, GenBounds DEF Account
    <3>2. AccountsGoOn
      BY <2>2, <3>1, WritingGoesOn, WrittenIsThere DEF Absent
    <3> QED BY <2>2, <3>2, StandingGoesOn
  <2> QED BY <1>13, <2>1, <2>2, SettingPassword
<1>14. ASSUME NEW r \in Clients, NEW k \in ApiKeys, Rotate(r, k)
       PROVE AccountsGoOn /\ TokensGoOn /\ KeysGoOn
  <2>1. CASE UNCHANGED keys
    BY <1>14, <2>1, StandingGoesOn DEF Rotate
  <2>2. CASE /\ keys[k].version < MaxVersion
             /\ keys' = [keys EXCEPT ![k].version = keys[k].version + 1]
    <3>1. PICK old \in Key : old = keys[k]
      BY <1>14, RowFacts DEF Rotate
    <3>2. keys' = [keys EXCEPT ![k] = [old EXCEPT !.version = old.version + 1]]
      BY <2>2, <3>1
    <3>3. old.version < MaxVersion
      BY <2>2, <3>1
    <3>4. /\ [old EXCEPT !.version = old.version + 1] \in Key
          /\ [old EXCEPT !.version = old.version + 1].user = old.user
          /\ [old EXCEPT !.version = old.version + 1].version = old.version + 1
          /\ old.version \in Nat
      BY <3>3, GenBounds DEF Key
    <3>5. \A l \in ApiKeys : /\ l # k => keys'[l] = keys[l]
                             /\ l = k => keys'[l] = [old EXCEPT !.version = old.version + 1]
      BY <3>2 DEF AccountsTypeOK
    <3>6. keys[k] \notin Absent
      BY <1>14 DEF Rotate
    <3>7. /\ keys'[k] \notin Absent /\ keys'[k].user = keys[k].user
          /\ keys[k].version <= keys'[k].version
      <4>1. keys'[k] = [old EXCEPT !.version = old.version + 1]
        BY <3>5
      <4>2. old.version <= old.version + 1
        BY <3>4
      <4> QED BY <3>1, <3>4, <4>1, <4>2, WrittenIsThere
    <3>8. KeysGoOn
      BY <3>5, <3>6, <3>7, GensAreNumbers DEF KeysGoOn, Absent
    <3> QED BY <1>14, <3>8, StandingGoesOn DEF Rotate
  <2> QED BY <1>14, <2>1, <2>2 DEF Rotate
<1>15. CASE UNCHANGED <<accounts, tokens, keys>>
  BY <1>15, StandingGoesOn
<1> QED
  BY <1>1, <1>2, <1>3, <1>4, <1>5, <1>6, <1>7, <1>8, <1>9, <1>10, <1>11, <1>12, <1>13, <1>14,
     <1>15
  DEF AccountsNext, AdminWrites, LogIn, RequestCredential, AdmitOperation, ReadName,
      StartRotation, Verify, DropRequest, accountVars

-----------------------------------------------------------------------------
(* What a step keeps *)

RowsKept == RowsHold /\ DeadStayDead /\ RequestsHold

NoFreshToken == \A t \in Tokens : tokens[t] = Unused => tokens'[t] \in Absent
NoFreshKey == \A k \in ApiKeys : keys[k] = Unused => keys'[k] \in Absent

LEMMA NoFreshRow ==
  ASSUME AccountsTypeOK
  PROVE  /\ UNCHANGED tokens => NoFreshToken
         /\ UNCHANGED keys => NoFreshKey
         /\ \A T : Delete(T) => NoFreshToken
<1>1. \A T : Delete(T) => NoFreshToken
  BY TokensDeleted DEF NoFreshToken, Absent
<1> QED BY <1>1 DEF NoFreshToken, NoFreshKey, Absent

\* A row that was there is of an account that was there; so is a fresh one.
LEMMA TokenRowsStay ==
  ASSUME AccountsTypeOK, AccountsTypeOK', RowsGoOn, RowsHold,
         \A t \in Tokens : tokens[t] = Unused /\ tokens'[t] \notin Absent
           => Reached(tokens[t].user, tokens[t].gen)'
  PROVE  (\A t \in Tokens : tokens[t] \notin Absent => Reached(tokens[t].user, tokens[t].gen))'
<1> SUFFICES ASSUME NEW t \in Tokens, tokens'[t] \notin Absent, tokens[t] # Unused
             PROVE  Reached(tokens[t].user, tokens[t].gen)'
  BY DEF Absent
<1>1. tokens[t] \notin Absent /\ tokens'[t].user = tokens[t].user /\ tokens'[t].gen = tokens[t].gen
  BY DEF RowsGoOn, TokensGoOn, Absent
<1>2. PICK row \in Token : row = tokens[t]
  BY <1>1, RowFacts
<1>3. Reached(row.user, row.gen) /\ row.gen \in Nat
  BY <1>1, <1>2, GenBounds DEF RowsHold, Token
<1>4. Reached(row.user, row.gen)'
  BY <1>3, PastStays
<1> QED BY <1>1, <1>2, <1>4 DEF Reached

LEMMA KeyRowsStay ==
  ASSUME AccountsTypeOK, AccountsTypeOK', RowsGoOn, RowsHold,
         \A k \in ApiKeys : keys[k] = Unused /\ keys'[k] \notin Absent => Reached(keys[k].user, 0)'
  PROVE  (\A k \in ApiKeys : keys[k] \notin Absent => Reached(keys[k].user, 0))'
<1> SUFFICES ASSUME NEW k \in ApiKeys, keys'[k] \notin Absent, keys[k] # Unused
             PROVE  Reached(keys[k].user, 0)'
  BY DEF Absent
<1>1. keys[k] \notin Absent /\ keys'[k].user = keys[k].user
  BY DEF RowsGoOn, KeysGoOn, Absent
<1>2. PICK row \in Key : row = keys[k]
  BY <1>1, RowFacts
<1>3. Reached(row.user, 0)
  BY <1>1, <1>2 DEF RowsHold
<1>4. Reached(row.user, 0)'
  BY <1>3, PastStays
<1> QED BY <1>1, <1>2, <1>4 DEF Reached

\* What was revoked stays so.
LEMMA DeadStay ==
  ASSUME AccountsTypeOK, AccountsTypeOK', RowsGoOn, DeadStayDead, NEW t \in dead
  PROVE  /\ tokens'[t] # Unused
         /\ tokens'[t] # Deleted => Past(tokens[t].user, tokens[t].gen)'
<1>0. t \in Tokens /\ tokens[t] # Unused /\ tokens'[t] # Unused
  BY DEF AccountsTypeOK, DeadStayDead, RowsGoOn, TokensGoOn
<1> SUFFICES ASSUME tokens'[t] # Deleted PROVE Past(tokens[t].user, tokens[t].gen)'
  BY <1>0
<1>1. tokens[t] # Deleted /\ tokens'[t].user = tokens[t].user /\ tokens'[t].gen = tokens[t].gen
  BY <1>0 DEF RowsGoOn, TokensGoOn
<1>2. PICK row \in Token : row = tokens[t]
  BY <1>0, <1>1 DEF AccountsTypeOK
<1>3. Past(row.user, row.gen) /\ row.gen \in Nat
  BY <1>1, <1>2, GenBounds DEF DeadStayDead, Token
<1>4. Past(row.user, row.gen)'
  BY <1>3, PastStays
<1> QED BY <1>1, <1>2, <1>4 DEF Past

\* A step that revokes nothing.
LEMMA QuietKeeps ==
  ASSUME AccountsTypeOK, AccountsTypeOK', RowsGoOn, RowsKept, NoFreshToken, NoFreshKey,
         UNCHANGED dead, RequestsHold'
  PROVE  RowsKept'
<1>1. RowsHold'
  BY TokenRowsStay, KeyRowsStay DEF RowsKept, RowsHold, NoFreshToken, NoFreshKey
<1>2. DeadStayDead'
  BY DeadStay DEF RowsKept, DeadStayDead
<1> QED BY <1>1, <1>2 DEF RowsKept

\* A step that revokes what the accounts U had.
LEMMA RevokingKeeps ==
  ASSUME AccountsTypeOK, AccountsTypeOK', RowsGoOn, RowsKept, NoFreshToken, NoFreshKey,
         NEW r \in Clients, NEW U \in SUBSET Users, EndsAndOutdates(r, U, {}),
         \A u \in U, g \in Nat : Reached(u, g) => Past(u, g)',
         dead' = dead \cup TokensOf(U)
  PROVE  RowsKept'
<1>1. RowsHold'
  BY TokenRowsStay, KeyRowsStay DEF RowsKept, RowsHold, NoFreshToken, NoFreshKey
<1>2. RequestsHold'
  <2>1. {} \in SUBSET Credentials
    OBVIOUS
  <2> QED BY <2>1, OutdatedHold DEF RowsKept
<1>3. ASSUME NEW t \in TokensOf(U)
      PROVE  /\ tokens'[t] # Unused
             /\ tokens'[t] # Deleted => Past(tokens[t].user, tokens[t].gen)'
  <2>1. t \in Tokens /\ tokens[t] \notin Absent /\ tokens[t].user \in U
    BY DEF TokensOf
  <2>2. PICK row \in Token : row = tokens[t]
    BY <2>1, RowFacts
  <2>3. Reached(row.user, row.gen) /\ row.gen \in Nat
    BY <2>1, <2>2, GenBounds DEF RowsKept, RowsHold, Token
  <2>4. Past(row.user, row.gen)'
    BY <2>1, <2>2, <2>3
  <2>5. tokens'[t] # Unused /\ (tokens'[t] # Deleted =>
          tokens'[t].user = tokens[t].user /\ tokens'[t].gen = tokens[t].gen)
    BY <2>1 DEF RowsGoOn, TokensGoOn, Absent
  <2> QED BY <2>2, <2>4, <2>5 DEF Past
<1>4. DeadStayDead'
  BY <1>3, DeadStay DEF RowsKept, DeadStayDead
<1> QED BY <1>1, <1>2, <1>4 DEF RowsKept

\* A row that is written with a later generation, or deleted, is past.
LEMMA WrittenIsPast ==
  ASSUME AccountsTypeOK, AccountsTypeOK', NEW u \in Users,
         accounts[u] \in Account,
         accounts'[u] # Deleted =>
           accounts'[u] \in Account /\ accounts[u].gen < accounts'[u].gen
  PROVE  \A g \in Nat : Reached(u, g) => Past(u, g)'
<1>1. accounts[u].gen \in Nat /\ accounts[u] # Deleted
  BY WrittenIsThere, GenBounds DEF Account, Absent
<1>2. CASE accounts'[u] = Deleted
  BY <1>2, WrittenIsThere DEF Reached, Past
<1>3. CASE accounts'[u] \in Account /\ accounts[u].gen < accounts'[u].gen
  <2>1. accounts'[u].gen \in Nat /\ accounts'[u] # Deleted /\ accounts'[u] # Unused
    BY <1>3, WrittenIsThere, GenBounds DEF Account, Absent
  <2> QED BY <1>1, <1>3, <2>1 DEF Reached, Past
<1> QED BY <1>2, <1>3

LEMMA KeepsKept ==
  ASSUME AccountsTypeOK, AccountsTypeOK', RowsGoOn, RowsKept, [AccountsNext]_accountVars
  PROVE  RowsKept'
<1> USE NoFreshRow
<1>0. RequestsHold
  BY DEF RowsKept
<1>1. ASSUME NEW n \in Names, NEW p \in Passwords, InitializeFirst(n, p) PROVE RowsKept'
  <2>1. RequestsHold'
    BY <1>0, <1>1, OthersHold DEF InitializeFirst, RequestsHold
  <2> QED BY <1>1, <2>1, QuietKeeps DEF InitializeFirst
<1>2. ASSUME NEW t \in Tokens, Expire(t) PROVE RowsKept'
  <2>1. RequestsHold'
    BY <1>0, <1>2, OthersHold DEF Expire, RequestsHold
  <2>2. NoFreshToken
    BY <1>2 DEF Expire, NoFreshToken, AccountsTypeOK, Absent
  <2> QED BY <1>2, <2>1, <2>2, QuietKeeps DEF Expire
<1>3. ASSUME NEW r \in Clients, NEW n \in Names, NEW p \in Passwords, LogIn(r, n, p) PROVE RowsKept'
  <2>1. PICK u \in Users :
          /\ accounts[u] \notin Absent
          /\ req' = [req EXCEPT ![r] = [Idle EXCEPT !.at = "verified", !.op = "login",
                                          !.vid = u, !.vgen = accounts[u].gen]]
    BY <1>3 DEF LogIn, Matches, Exists
  <2>2. PICK g : g = accounts[u].gen
    OBVIOUS
  <2>3. /\ req'[r].id = Nothing /\ req'[r].cred = Nothing /\ req'[r].at = "verified"
        /\ req'[r].op = "login" /\ req'[r].lost = {} /\ req'[r].vid = u /\ req'[r].vgen = g
    BY <2>1, <2>2 DEF AccountsTypeOK, Idle
  <2>4. UNCHANGED <<accounts, tokens, keys, dead>>
    BY <1>3 DEF LogIn
  <2>5. Reached(u, g)'
    BY <2>1, <2>2, <2>4, GensAreNumbers DEF Reached, Absent
  <2>6. (ReadOnce(req[r]) /\ LostIsPast(req[r]))'
    BY <2>3, <2>5 DEF ReadOnce, LostIsPast
  <2>7. \A q \in Clients \ {r} : req'[q] = req[q]
    BY <2>1 DEF AccountsTypeOK
  <2>8. RequestsHold'
    BY <1>0, <2>6, <2>7, OneGoesOn
  <2> QED BY <2>4, <2>8, QuietKeeps
<1>4. ASSUME NEW r \in Clients, SaveAccessToken(r) PROVE RowsKept'
  <2>1. RequestsHold'
    BY <1>0, <1>4, EndedHold DEF SaveAccessToken
  <2>2. CASE UNCHANGED <<tokens, dead>>
    BY <1>4, <2>1, <2>2, QuietKeeps DEF SaveAccessToken
  <2>3. CASE ~UNCHANGED <<tokens, dead>>
    <3>1. PICK t \in Tokens :
            /\ tokens[t] = Unused
            /\ tokens' = [tokens EXCEPT ![t] =
                 [user |-> req[r].vid, gen |-> accounts[req[r].vid].gen, expired |-> FALSE]]
            /\ dead' = IF "password" \in req[r].lost THEN dead \cup {t} ELSE dead
      BY <1>4, <2>3 DEF SaveAccessToken
    <3>2. Unrevoked(r) /\ UNCHANGED <<accounts, keys>>
      BY <1>4, <2>3 DEF SaveAccessToken
    <3>3. PICK u \in Users : u = req[r].vid /\ accounts[u] \notin Absent
                             /\ accounts[u].gen = req[r].vgen
      BY <3>2 DEF Unrevoked, Exists
    <3>4. accounts[u].gen \in Nat
      BY <3>3, GensAreNumbers
    <3>5. "password" \notin req[r].lost
      BY <1>0, <3>3, <3>4 DEF RequestsHold, LostIsPast, Past, Absent
    <3>6. Reached(u, accounts[u].gen)'
      BY <3>2, <3>3, <3>4 DEF Reached, Absent
    <3>7. /\ \A s \in Tokens \ {t} : tokens'[s] = tokens[s]
          /\ tokens'[t].user = u /\ tokens'[t].gen = accounts[u].gen
      BY <3>1, <3>3 DEF AccountsTypeOK
    <3>8. \A s \in Tokens : tokens[s] = Unused /\ tokens'[s] \notin Absent
            => Reached(tokens[s].user, tokens[s].gen)'
      BY <3>2, <3>6, <3>7 DEF Reached, Absent
    <3>9. RowsHold'
      BY <3>2, <3>8, TokenRowsStay, KeyRowsStay DEF RowsKept, RowsHold, NoFreshKey
    <3>10. DeadStayDead'
      BY <3>1, <3>5, DeadStay DEF RowsKept, DeadStayDead
    <3> QED BY <2>1, <3>9, <3>10 DEF RowsKept
  <2> QED BY <2>2, <2>3
<1>5. ASSUME NEW r \in Clients, NEW c \in Credentials, PresentCredential(r, c) PROVE RowsKept'
  <2>1. CASE Delete({c}) /\ UNCHANGED req
    <3>1. RequestsHold'
      BY <1>0, <2>1, OthersHold DEF RequestsHold
    <3> QED BY <1>5, <2>1, <3>1, QuietKeeps DEF PresentCredential
  <2>2. ASSUME LiveToken(c) \/ LiveKey(c), NEW at \in {"validated", "sliding"}, UNCHANGED tokens,
               at = "sliding" => LiveToken(c),
               req' = [req EXCEPT ![r] = [Idle EXCEPT !.at = at, !.cred = c, !.id = OwnerOf(c)]]
        PROVE RowsKept'
    <3>1. UNCHANGED <<accounts, keys, dead>>
      BY <1>5 DEF PresentCredential
    <3>2. PICK u : u = OwnerOf(c)
      OBVIOUS
    <3>3. Reached(u, 0)
      <4>1. CASE LiveToken(c)
        <5>1. u = tokens[c].user /\ Exists(u)
          BY <3>2, <4>1 DEF LiveToken, OwnerOf
        <5> QED BY <5>1, GensAreNumbers DEF Reached, Exists, Absent
      <4>2. CASE LiveKey(c)
        <5>1. u = keys[c[1]].user /\ c[1] \in ApiKeys /\ keys[c[1]] \notin Absent
          BY <3>2, <4>2, NothingIsNone DEF LiveKey, OwnerOf
        <5> QED BY <5>1 DEF RowsKept, RowsHold
      <4> QED BY <2>2, <4>1, <4>2
    <3>4. GivenOut(c)
      <4>1. CASE LiveToken(c)
        BY <4>1 DEF LiveToken, GivenOut, Absent
      <4>2. CASE LiveKey(c)
        <5>1. c \in KeyCredentials /\ c[1] \in ApiKeys /\ keys[c[1]] \notin Absent
              /\ keys[c[1]].version = c[2]
          BY <4>2, NothingIsNone DEF LiveKey
        <5> QED BY <5>1, GensAreNumbers DEF GivenOut, Absent
      <4> QED BY <2>2, <4>1, <4>2
    <3>5. /\ req'[r].id = u /\ req'[r].cred = c /\ req'[r].at = at /\ req'[r].gen = 0
          /\ req'[r].op = "none" /\ req'[r].lost = {} /\ req'[r].vid = Nothing
      BY <2>2, <3>2 DEF AccountsTypeOK, Idle
    <3>6. Reached(u, 0)' /\ GivenOut(c)'
      BY <3>3, <3>4, PastStays
    <3>7. at = "sliding" => c \in Tokens
      BY <2>2 DEF LiveToken
    <3>8. (ReadOnce(req[r]) /\ LostIsPast(req[r]))'
      BY <3>5, <3>6, <3>7 DEF ReadOnce, LostIsPast
    <3>9. \A q \in Clients \ {r} : req'[q] = req[q]
      BY <2>2 DEF AccountsTypeOK
    <3>10. RequestsHold'
      BY <1>0, <3>8, <3>9, OneGoesOn
    <3> QED BY <2>2, <3>1, <3>10, QuietKeeps
  <2> QED BY <1>5, <2>1, <2>2 DEF PresentCredential
<1>6. ASSUME NEW r \in Clients, Slide(r) PROVE RowsKept'
  <2>1. UNCHANGED <<accounts, keys, dead>>
    BY <1>6 DEF Slide
  <2>2. NoFreshToken
    BY <1>6 DEF Slide, NoFreshToken, AccountsTypeOK, Absent
  <2>3. PICK q \in Request : q = req[r]
    BY DEF AccountsTypeOK
  <2>4. q.at = "sliding" /\ req' = [req EXCEPT ![r] = [q EXCEPT !.at = "validated"]]
    BY <1>6, <2>3 DEF Slide
  <2>5. /\ req'[r].id = q.id /\ req'[r].cred = q.cred /\ req'[r].at = "validated"
        /\ req'[r].gen = q.gen /\ req'[r].lost = q.lost /\ req'[r].vid = q.vid
        /\ req'[r].vgen = q.vgen
    BY <2>4 DEF AccountsTypeOK, Request
  <2>6. ReadOnce(q) /\ LostIsPast(q) /\ q.gen \in Nat /\ q.vgen \in Nat
    BY <1>0, <2>3, RequestFacts, GenBounds DEF RequestsHold
  <2>7. (ReadOnce(req[r]) /\ LostIsPast(req[r]))'
    BY <2>4, <2>5, <2>6, PastStays DEF ReadOnce, LostIsPast
  <2>8. \A p \in Clients \ {r} : req'[p] = req[p]
    BY <2>4 DEF AccountsTypeOK
  <2>9. RequestsHold'
    BY <1>0, <2>7, <2>8, OneGoesOn
  <2> QED BY <2>1, <2>2, <2>9, QuietKeeps
<1>7. ASSUME NEW r \in Clients, RequestCredential(r) PROVE RowsKept'
  <2>1. UNCHANGED <<accounts, tokens, keys, dead>>
    BY <1>7 DEF RequestCredential
  <2>2. CASE Ends(r)
    BY <1>0, <2>1, <2>2, EndedHold, QuietKeeps
  <2>3. CASE StandsFor(req[r].cred, req[r].id)
    <3> DEFINE a == accounts[req[r].id]
    <3>1. PICK q \in Request : q = req[r]
      BY DEF AccountsTypeOK
    <3>2. PICK g, admin : g = a.gen /\ admin = a.admin
      OBVIOUS
    <3>3. req' = [req EXCEPT ![r] = [q EXCEPT !.at = "proved", !.gen = g, !.admin = admin,
                                              !.lost = {}]]
      BY <1>7, <2>3, <3>1, <3>2 DEF RequestCredential
    <3>4. q.at = "validated" /\ ReadOnce(q)
      BY <1>0, <1>7, <3>1 DEF RequestCredential, RequestsHold
    <3>5. /\ req'[r].id = q.id /\ req'[r].cred = q.cred /\ req'[r].at = "proved"
          /\ req'[r].gen = g /\ req'[r].lost = {} /\ req'[r].vid = q.vid
          /\ req'[r].vgen = q.vgen
      BY <3>3 DEF AccountsTypeOK, Request
    <3>6. q.id \in Users /\ accounts[q.id] \notin Absent /\ g = accounts[q.id].gen
      BY <2>3, <3>1, <3>2 DEF StandsFor, Exists
    <3>7. g \in Nat /\ Reached(q.id, g)
      BY <3>6, GensAreNumbers DEF Reached, Absent
    <3>8. q.gen \in Nat /\ q.vgen \in Nat
      BY RequestFacts, GenBounds
    <3>9. (ReadOnce(req[r]) /\ LostIsPast(req[r]))'
      BY <3>4, <3>5, <3>7, <3>8, PastStays DEF ReadOnce, LostIsPast
    <3>10. \A p \in Clients \ {r} : req'[p] = req[p]
      BY <3>3 DEF AccountsTypeOK
    <3>11. RequestsHold'
      BY <1>0, <3>9, <3>10, OneGoesOn
    <3> QED BY <2>1, <3>11, QuietKeeps
  <2> QED BY <1>7, <2>2, <2>3 DEF RequestCredential
<1>8. ASSUME NEW r \in Clients, Logout(r) PROVE RowsKept'
  <2>1. UNCHANGED <<accounts, keys>>
    BY <1>8 DEF Logout
  <2>2. CASE req[r].cred \notin Tokens
    BY <1>0, <1>8, <2>1, <2>2, EndedHold, QuietKeeps DEF Logout
  <2>3. CASE req[r].cred \in Tokens
    <3>1. PICK t \in Tokens : t = req[r].cred
      BY <2>3
    <3>2. Delete({t} \cap TokensOf(Users)) /\ EndsAndOutdates(r, {}, {t}) /\ dead' = dead \cup {t}
      BY <1>8, <2>3, <3>1 DEF Logout
    <3>3. tokens[t] # Unused
      BY <1>0, <3>1, NothingIsNone DEF RequestsHold, ReadOnce, GivenOut
    <3>4. t \in TokensOf(Users) \/ tokens[t] = Deleted
      BY <3>3, RowFacts DEF TokensOf, Absent, Token
    <3>5. tokens'[t] = Deleted
      BY <3>2, <3>4, TokensDeleted
    <3>6. Spent(t)'
      BY <3>5 DEF Spent
    <3>7. {} \in SUBSET Users /\ {t} \in SUBSET Credentials
      BY DEF Credentials
    <3>8. RequestsHold'
      BY <1>0, <3>2, <3>6, <3>7, OutdatedHold
    <3>9. NoFreshToken /\ NoFreshKey
      BY <2>1, <3>2
    <3>10. RowsHold'
      BY <3>9, TokenRowsStay, KeyRowsStay DEF RowsKept, RowsHold, NoFreshToken, NoFreshKey
    <3>11. DeadStayDead'
      BY <3>2, <3>5, DeadStay, WrittenIsThere DEF RowsKept, DeadStayDead
    <3> QED BY <3>8, <3>10, <3>11 DEF RowsKept
  <2> QED BY <2>2, <2>3
<1>9. ASSUME NEW r \in Clients, NEW u \in Users, NEW n \in Names, NEW p \in Passwords,
             NEW a \in BOOLEAN, CreateUser(r, u, n, p, a)
      PROVE RowsKept'
  BY <1>0, <1>9, EndedHold, QuietKeeps DEF CreateUser
<1>10. ASSUME NEW r \in Clients, NEW u \in Users, NEW n \in Names \cup {Nothing},
              NEW p \in Passwords \cup {Nothing}, NEW a \in BOOLEAN \cup {Nothing},
              UpdateUser(r, u, n, p, a)
       PROVE RowsKept'
  <2>1. PICK row \in Account :
          /\ accounts' = [accounts EXCEPT ![u] = row] /\ accounts[u] \in Account
          /\ \/ row.gen = accounts[u].gen /\ UNCHANGED <<tokens, dead>> /\ Ends(r)
             \/ /\ accounts[u].gen < row.gen
                /\ Delete(TokensOf({u})) \/ UNCHANGED tokens
                /\ EndsAndOutdates(r, {u}, {}) /\ dead' = dead \cup TokensOf({u})
    BY <1>10, Updating
  <2>2. UNCHANGED keys /\ accounts'[u] = row
    BY <1>10, <2>1 DEF UpdateUser, AccountsTypeOK
  <2>3. CASE UNCHANGED <<tokens, dead>> /\ Ends(r)
    BY <1>0, <2>2, <2>3, EndedHold, QuietKeeps
  <2>4. CASE /\ accounts[u].gen < row.gen /\ EndsAndOutdates(r, {u}, {})
             /\ Delete(TokensOf({u})) \/ UNCHANGED tokens
             /\ dead' = dead \cup TokensOf({u})
    <3>1. \A g \in Nat : Reached(u, g) => Past(u, g)'
      BY <2>1, <2>2, <2>4, WrittenIsPast
    <3>2. NoFreshToken /\ NoFreshKey /\ {u} \in SUBSET Users
      BY <2>2, <2>4
    <3> QED BY <2>4, <3>1, <3>2, RevokingKeeps
  <2> QED BY <2>1, <2>3, <2>4
<1>11. ASSUME NEW r \in Clients, NEW u \in Users, DeleteUser(r, u) PROVE RowsKept'
  <2>1. accounts[u] \in Account /\ accounts'[u] = Deleted
    BY <1>11, RowFacts DEF DeleteUser, Exists, AccountsTypeOK
  <2>2. \A g \in Nat : Reached(u, g) => Past(u, g)'
    BY <2>1, WrittenIsThere, WrittenIsPast
  <2>3. NoFreshKey
    BY <1>11 DEF DeleteUser, NoFreshKey, AccountsTypeOK, Absent
  <2>4. NoFreshToken /\ {u} \in SUBSET Users
    BY <1>11 DEF DeleteUser
  <2>5. EndsAndOutdates(r, {u}, {}) /\ dead' = dead \cup TokensOf({u})
    BY <1>11 DEF DeleteUser
  <2> QED BY <2>2, <2>3, <2>4, <2>5, RevokingKeeps
<1>12. ASSUME NEW r \in Clients, RevokeAll(r) PROVE RowsKept'
  <2>1. ASSUME NEW u \in Users, NEW g \in Nat, Reached(u, g) PROVE Past(u, g)'
    <3>1. CASE accounts[u] = Deleted
      <4>1. accounts'[u] = Deleted
        BY <1>12, <3>1 DEF RevokeAll, Exists, Absent
      <4> QED BY <4>1, WrittenIsThere DEF Past
    <3>2. CASE accounts[u] # Deleted
      <4>1. PICK old \in Account : old = accounts[u]
        BY <2>1, <3>2, RowFacts DEF Reached, Absent
      <4>2. accounts'[u] = [old EXCEPT !.gen = old.gen + 1]
        BY <1>12, <2>1, <3>2, <4>1 DEF RevokeAll, Exists, Absent, Reached
      <4>3. old.gen < MaxGen
        BY <1>12, <2>1, <3>2, <4>1 DEF RevokeAll, Exists, Absent, Reached
      <4>4. [old EXCEPT !.gen = old.gen + 1] \in Account
            /\ old.gen < [old EXCEPT !.gen = old.gen + 1].gen
        BY <4>3, GenBounds DEF Account
      <4> QED BY <2>1, <4>1, <4>2, <4>4, WrittenIsPast
    <3> QED BY <3>1, <3>2
  <2>2. NoFreshToken /\ NoFreshKey /\ Users \in SUBSET Users
    BY <1>12 DEF RevokeAll
  <2>3. EndsAndOutdates(r, Users, {}) /\ dead' = dead \cup TokensOf(Users)
    BY <1>12 DEF RevokeAll
  <2> QED BY <2>1, <2>2, <2>3, RevokingKeeps
<1>13. ASSUME NEW r \in Clients, NEW k \in ApiKeys, CreateKey(r, k) PROVE RowsKept'
  <2>1. RequestsHold'
    BY <1>0, <1>13, EndedHold DEF CreateKey
  <2>2. PICK u \in Users : u = req[r].id /\ accounts[u] \notin Absent
    BY <1>13, Writer DEF CreateKey, MayWrite
  <2>3. Reached(u, 0)'
    BY <1>13, <2>2, GensAreNumbers DEF CreateKey, Reached, Absent
  <2>4. /\ \A l \in ApiKeys \ {k} : keys'[l] = keys[l]
        /\ keys'[k].user = u
    BY <1>13, <2>2 DEF CreateKey, AccountsTypeOK
  <2>5. \A l \in ApiKeys : keys[l] = Unused /\ keys'[l] \notin Absent => Reached(keys[l].user, 0)'
    BY <2>3, <2>4 DEF Reached, Absent
  <2>6. RowsHold'
    BY <1>13, <2>5, TokenRowsStay, KeyRowsStay DEF CreateKey, RowsKept, RowsHold, NoFreshToken
  <2>7. DeadStayDead'
    BY <1>13, DeadStay DEF CreateKey, RowsKept, DeadStayDead
  <2> QED BY <2>1, <2>6, <2>7 DEF RowsKept
<1>14. ASSUME NEW r \in Clients, NEW k \in ApiKeys, NEW v \in 0..MaxVersion, DeleteKey(r, k, v)
       PROVE RowsKept'
  <2>1. keys'[k] = Deleted /\ keys[k] \in Key
    BY <1>14, RowFacts DEF DeleteKey, AccountsTypeOK
  <2>2. PICK c : c = <<k, keys[k].version>>
    OBVIOUS
  <2>3. c \in KeyCredentials /\ c[1] = k
    BY <2>1, <2>2 DEF Key, KeyCredentials
  <2>4. Spent(c)'
    BY <2>1, <2>3, WrittenIsThere DEF Spent
  <2>5. {} \in SUBSET Users /\ {c} \in SUBSET Credentials
    BY <2>3 DEF Credentials
  <2>6. EndsAndOutdates(r, {}, {c}) /\ UNCHANGED <<accounts, tokens, dead>>
    BY <1>14, <2>2 DEF DeleteKey
  <2>7. RequestsHold'
    BY <1>0, <2>4, <2>5, <2>6, OutdatedHold
  <2>8. NoFreshKey
    BY <1>14 DEF DeleteKey, NoFreshKey, AccountsTypeOK, Absent
  <2> QED BY <2>6, <2>7, <2>8, QuietKeeps
<1>15. ASSUME NEW r \in Clients, AdmitOperation(r) PROVE RowsKept'
  <2>1. /\ req'[r].id = Nothing /\ req'[r].cred = Nothing /\ req'[r].at = "working"
        /\ req'[r].op = "none" /\ req'[r].lost = {} /\ req'[r].vid = Nothing
        /\ \A p \in Clients \ {r} : req'[p] = req[p]
    BY <1>15 DEF AdmitOperation, AccountsTypeOK, Idle
  <2>2. (ReadOnce(req[r]) /\ LostIsPast(req[r]))'
    BY <2>1 DEF ReadOnce, LostIsPast
  <2>3. RequestsHold'
    BY <1>0, <2>1, <2>2, OneGoesOn
  <2> QED BY <1>15, <2>3, QuietKeeps DEF AdmitOperation
<1>16. ASSUME NEW r \in Clients, ReadName(r) PROVE RowsKept'
  <2>1. PICK q \in Request : q = req[r]
    BY DEF AccountsTypeOK
  <2>2. /\ req'[r].id = q.id /\ req'[r].cred = Nothing /\ req'[r].at = "named"
        /\ req'[r].op = "change" /\ req'[r].lost = {} /\ req'[r].vid = Nothing
        /\ req'[r].gen = 0
        /\ \A p \in Clients \ {r} : req'[p] = req[p]
    BY <1>16, <2>1 DEF ReadName, AccountsTypeOK, Idle
  <2>3. Reached(q.id, 0)
    BY <1>16, <2>1, GensAreNumbers DEF ReadName, Exists, Reached, Absent
  <2>4. Reached(q.id, 0)'
    BY <2>3, PastStays
  <2>5. (ReadOnce(req[r]) /\ LostIsPast(req[r]))'
    BY <2>2, <2>4 DEF ReadOnce, LostIsPast
  <2>6. RequestsHold'
    BY <1>0, <2>2, <2>5, OneGoesOn
  <2> QED BY <1>16, <2>6, QuietKeeps DEF ReadName
<1>17. ASSUME NEW r \in Clients, NEW v \in 1..MaxVersion, StartRotation(r, v) PROVE RowsKept'
  <2>1. PICK q \in Request : q = req[r]
    BY DEF AccountsTypeOK
  <2>2. PICK name : name = accounts[OwnerOf(req[r].cred)].name
    OBVIOUS
  <2>3. q.at = "proved" /\ req' = [req EXCEPT ![r] = [q EXCEPT !.at = "named", !.op = "rotate",
                                                               !.name = name, !.seen = v]]
    BY <1>17, <2>1, <2>2 DEF StartRotation
  <2>4. /\ req'[r].id = q.id /\ req'[r].cred = q.cred /\ req'[r].at = "named"
        /\ req'[r].gen = q.gen /\ req'[r].lost = q.lost /\ req'[r].vid = q.vid
        /\ req'[r].vgen = q.vgen
        /\ \A p \in Clients \ {r} : req'[p] = req[p]
    BY <2>3 DEF AccountsTypeOK, Request
  <2>5. ReadOnce(q) /\ LostIsPast(q) /\ q.gen \in Nat /\ q.vgen \in Nat
    BY <1>0, <2>1, RequestFacts, GenBounds DEF RequestsHold
  <2>6. (ReadOnce(req[r]) /\ LostIsPast(req[r]))'
    BY <2>3, <2>4, <2>5, PastStays DEF ReadOnce, LostIsPast
  <2>7. RequestsHold'
    BY <1>0, <2>4, <2>6, OneGoesOn
  <2> QED BY <1>17, <2>7, QuietKeeps DEF StartRotation
<1>18. ASSUME NEW r \in Clients, NEW p \in Passwords, Verify(r, p) PROVE RowsKept'
  <2>1. UNCHANGED <<accounts, tokens, keys, dead>>
    BY <1>18 DEF Verify
  <2>2. CASE Ends(r)
    BY <1>0, <2>1, <2>2, EndedHold, QuietKeeps
  <2>3. CASE ~Ends(r)
    <3>1. PICK q \in Request : q = req[r]
      BY DEF AccountsTypeOK
    <3>2. PICK u \in Users :
            /\ accounts[u] \notin Absent /\ u = q.id
            /\ req' = [req EXCEPT ![r] = [req[r] EXCEPT !.at = "verified", !.name = Nothing,
                         !.vid = u, !.vgen = accounts[u].gen,
                         !.lost = req[r].lost \ {"password"}]]
      BY <1>18, <2>3, <3>1 DEF Verify, Matches, Exists
    <3>3. PICK g : g = accounts[u].gen
      OBVIOUS
    <3>4. req' = [req EXCEPT ![r] = [q EXCEPT !.at = "verified", !.name = Nothing,
                         !.vid = u, !.vgen = g, !.lost = q.lost \ {"password"}]]
      BY <3>1, <3>2, <3>3
    <3>5. /\ req'[r].id = q.id /\ req'[r].cred = q.cred /\ req'[r].at = "verified"
          /\ req'[r].gen = q.gen /\ req'[r].lost = q.lost \ {"password"} /\ req'[r].vid = u
          /\ req'[r].vgen = g
          /\ \A s \in Clients \ {r} : req'[s] = req[s]
      BY <3>4 DEF AccountsTypeOK, Request
    <3>6. g \in Nat /\ Reached(u, g)
      BY <3>2, <3>3, GensAreNumbers DEF Reached, Absent
    <3>7. ReadOnce(q) /\ LostIsPast(q) /\ q.gen \in Nat /\ q.vgen \in Nat
      BY <1>0, <3>1, RequestFacts, GenBounds DEF RequestsHold
    <3>8. Reached(u, g)'
      BY <3>6, PastStays
    <3>9. (ReadOnce(req[r]) /\ LostIsPast(req[r]))'
      BY <3>2, <3>5, <3>7, <3>8, PastStays DEF ReadOnce, LostIsPast
    <3>10. RequestsHold'
      BY <1>0, <3>5, <3>9, OneGoesOn
    <3> QED BY <2>1, <3>10, QuietKeeps
  <2> QED BY <2>2, <2>3
<1>19. ASSUME NEW r \in Clients, NEW p \in Passwords, SetPassword(r, p) PROVE RowsKept'
  <2>1. CASE Ends(r) /\ UNCHANGED <<accounts, tokens, keys, dead>>
    BY <1>0, <2>1, EndedHold, QuietKeeps
  <2>2. ASSUME NEW u \in Users, NEW row \in Account, accounts' = [accounts EXCEPT ![u] = row],
               accounts[u] \in Account, accounts[u].gen < row.gen, Delete(TokensOf({u})),
               dead' = dead \cup TokensOf({u}), EndsAndOutdates(r, {u}, {}), UNCHANGED keys
        PROVE  RowsKept'
    <3>1. accounts'[u] = row
      BY <2>2 DEF AccountsTypeOK
    <3>2. \A g \in Nat : Reached(u, g) => Past(u, g)'
      BY <2>2, <3>1, WrittenIsPast
    <3>3. NoFreshToken /\ NoFreshKey /\ {u} \in SUBSET Users
      BY <2>2
    <3> QED BY <2>2, <3>2, <3>3, RevokingKeeps
  <2> QED BY <1>19, <2>1, <2>2, SettingPassword
<1>20. ASSUME NEW r \in Clients, NEW k \in ApiKeys, Rotate(r, k) PROVE RowsKept'
  <2>1. CASE Ends(r) /\ UNCHANGED keys
    BY <1>0, <1>20, <2>1, EndedHold, QuietKeeps DEF Rotate
  <2>2. CASE /\ keys[k].version < MaxVersion
             /\ keys' = [keys EXCEPT ![k].version = keys[k].version + 1]
             /\ EndsAndOutdates(r, {}, {<<k, keys[k].version>>})
    <3>1. PICK old \in Key : old = keys[k]
      BY <1>20, RowFacts DEF Rotate
    <3>2. keys' = [keys EXCEPT ![k] = [old EXCEPT !.version = old.version + 1]]
      BY <2>2, <3>1
    <3>3. old.version < MaxVersion
      BY <2>2, <3>1
    <3>4. /\ [old EXCEPT !.version = old.version + 1] \in Key
          /\ [old EXCEPT !.version = old.version + 1].version = old.version + 1
          /\ old.version \in Nat /\ old.version < old.version + 1
      BY <3>3, GenBounds DEF Key
    <3>5. keys'[k] = [old EXCEPT !.version = old.version + 1]
      BY <3>2 DEF AccountsTypeOK
    <3>6. PICK c : c = <<k, old.version>>
      OBVIOUS
    <3>7. c \in KeyCredentials /\ c[1] = k /\ c[2] = old.version
      BY <3>6, GenBounds DEF Key, KeyCredentials
    <3>8. keys'[k] \notin Absent /\ c[2] < keys'[k].version
      BY <3>4, <3>5, <3>7, WrittenIsThere
    <3>9. Spent(c)'
      BY <3>7, <3>8 DEF Spent, Absent
    <3>10. {} \in SUBSET Users /\ {c} \in SUBSET Credentials
      BY <3>7 DEF Credentials
    <3>11. EndsAndOutdates(r, {}, {c})
      BY <2>2, <3>1, <3>6
    <3>12. RequestsHold'
      BY <1>0, <3>9, <3>10, <3>11, OutdatedHold
    <3>13. UNCHANGED <<accounts, tokens, dead>>
      BY <1>20 DEF Rotate
    <3>14. NoFreshKey
      BY <1>20, <3>2 DEF Rotate, NoFreshKey, AccountsTypeOK, Absent
    <3> QED BY <3>12, <3>13, <3>14, QuietKeeps
  <2> QED BY <1>20, <2>1, <2>2 DEF Rotate
<1>21. ASSUME NEW r \in Clients, DropRequest(r) PROVE RowsKept'
  BY <1>0, <1>21, EndedHold, QuietKeeps DEF DropRequest
<1>22. CASE UNCHANGED accountVars
  <2>1. RequestsHold'
    BY <1>0, <1>22, OthersHold DEF accountVars, RequestsHold
  <2> QED BY <1>22, <2>1, QuietKeeps DEF accountVars
<1> QED
  BY <1>1, <1>2, <1>3, <1>4, <1>5, <1>6, <1>7, <1>8, <1>9, <1>10, <1>11, <1>12, <1>13, <1>14,
     <1>15, <1>16, <1>17, <1>18, <1>19, <1>20, <1>21, <1>22 DEF AccountsNext, AdminWrites

\* There is an administrator in the next state, if somebody stays one.
LEMMA AdminThere ==
  ASSUME NEW v \in Users, accounts'[v] \notin Absent, accounts'[v].admin
  PROVE  AnAdminRemains'
  BY DEF AnAdminRemains, Admins, Exists

LEMMA AdminStays ==
  ASSUME AccountsTypeOK, AccountsTypeOK', AnAdminRemains, [AccountsNext]_accountVars
  PROVE  AnAdminRemains'
<1>1. ASSUME NEW n \in Names, NEW p \in Passwords, InitializeFirst(n, p) PROVE AnAdminRemains'
  <2>1. [name |-> n, pw |-> p, admin |-> TRUE, gen |-> 1] \in Account
    BY GenBounds DEF Account
  <2>2. First \in Users /\ accounts'[First] = [name |-> n, pw |-> p, admin |-> TRUE, gen |-> 1]
    BY <1>1, AccountsAssumption DEF InitializeFirst, AccountsTypeOK
  <2> QED BY <2>1, <2>2, WrittenIsThere, AdminThere
<1>2. ASSUME NEW r \in Clients, NEW u \in Users, NEW n \in Names, NEW p \in Passwords,
             NEW a \in BOOLEAN, CreateUser(r, u, n, p, a)
      PROVE AnAdminRemains'
  <2>1. PICK v \in Users : accounts[v] \notin Absent /\ accounts[v].admin
    BY <1>2, Writer DEF CreateUser, MayWrite
  <2>2. v # u
    BY <1>2, <2>1 DEF CreateUser, Absent
  <2>3. accounts'[v] = accounts[v]
    BY <1>2, <2>2 DEF CreateUser, AccountsTypeOK
  <2> QED BY <2>1, <2>3, AdminThere
<1>3. ASSUME NEW r \in Clients, NEW u \in Users, NEW n \in Names \cup {Nothing},
             NEW p \in Passwords \cup {Nothing}, NEW a \in BOOLEAN \cup {Nothing},
             UpdateUser(r, u, n, p, a)
      PROVE AnAdminRemains'
  <2>1. PICK row \in Account : /\ accounts' = [accounts EXCEPT ![u] = row]
                               /\ accounts[u] \in Account
                               /\ accounts[u].admin /\ a # FALSE => row.admin
    BY <1>3, Updating
  <2>2. accounts'[u] = row /\ \A v \in Users \ {u} : accounts'[v] = accounts[v]
    BY <2>1 DEF AccountsTypeOK
  <2>3. CASE \E v \in Users \ {u} : accounts[v] \notin Absent /\ accounts[v].admin
    BY <2>2, <2>3, AdminThere
  <2>4. CASE ~ \E v \in Users \ {u} : accounts[v] \notin Absent /\ accounts[v].admin
    <3>1. accounts[u].admin
      BY <1>3, <2>4, Writer DEF UpdateUser, MayWrite
    <3>2. a # FALSE
      BY <1>3, <2>4, <3>1 DEF UpdateUser, AnotherAdmin, Admins, Exists
    <3>3. row.admin
      BY <2>1, <3>1, <3>2
    <3> QED BY <2>2, <3>3, WrittenIsThere, AdminThere
  <2> QED BY <2>3, <2>4
<1>4. ASSUME NEW r \in Clients, NEW u \in Users, DeleteUser(r, u) PROVE AnAdminRemains'
  <2>1. req[r].id \in Users \ {u} /\ accounts[req[r].id] \notin Absent /\ accounts[req[r].id].admin
    BY <1>4, Writer DEF DeleteUser, MayWrite
  <2>2. accounts'[req[r].id] = accounts[req[r].id]
    BY <1>4, <2>1 DEF DeleteUser, AccountsTypeOK
  <2> QED BY <2>1, <2>2, AdminThere
<1>5. ASSUME NEW r \in Clients, RevokeAll(r) PROVE AnAdminRemains'
  <2>1. PICK v \in Users : accounts[v] \notin Absent /\ accounts[v].admin
    BY <1>5, Writer DEF RevokeAll, MayWrite
  <2>2. PICK old \in Account : old = accounts[v]
    BY <2>1, RowFacts
  <2>3. accounts'[v] = [old EXCEPT !.gen = old.gen + 1] /\ old.gen < MaxGen
    BY <1>5, <2>1, <2>2 DEF RevokeAll, Exists
  <2>4. [old EXCEPT !.gen = old.gen + 1] \in Account
        /\ [old EXCEPT !.gen = old.gen + 1].admin = old.admin
    BY <2>3, GenBounds DEF Account
  <2> QED BY <2>1, <2>2, <2>3, <2>4, WrittenIsThere, AdminThere
<1>6. ASSUME NEW r \in Clients, NEW p \in Passwords, SetPassword(r, p) PROVE AnAdminRemains'
  <2>1. CASE UNCHANGED accounts
    BY <2>1 DEF AnAdminRemains, Admins, Exists
  <2>2. ASSUME NEW u \in Users, NEW row \in Account, accounts' = [accounts EXCEPT ![u] = row],
               accounts[u] \in Account, row.admin = accounts[u].admin
        PROVE  AnAdminRemains'
    <3>1. accounts'[u] = row /\ \A v \in Users \ {u} : accounts'[v] = accounts[v]
      BY <2>2 DEF AccountsTypeOK
    <3>2. row \notin Absent /\ accounts[u] \notin Absent
      BY <2>2, WrittenIsThere
    <3>3. ASSUME NEW v \in Users, accounts[v] \notin Absent, accounts[v].admin
          PROVE  AnAdminRemains'
      BY <2>2, <3>1, <3>2, <3>3, AdminThere
    <3>4. Exists(First)' => Exists(First)
      BY <3>1, <3>2 DEF Exists
    <3> QED BY <3>3, <3>4 DEF AnAdminRemains, Admins, Exists
  <2> QED BY <1>6, <2>1, <2>2, SettingPassword
<1>7. CASE UNCHANGED accounts
  BY <1>7 DEF AnAdminRemains, Admins, Exists
<1> QED
  BY <1>1, <1>2, <1>3, <1>4, <1>5, <1>6, <1>7, ZenonT(60)
  DEF AccountsNext, AdminWrites, Expire, LogIn, SaveAccessToken, PresentCredential, Slide,
      RequestCredential, Logout, CreateKey, DeleteKey, AdmitOperation, ReadName,
      StartRotation, Verify, Rotate, DropRequest, accountVars

-----------------------------------------------------------------------------
(* What a commit rests on *)

\* Who is admitted has lost no proof, who is unrevoked no password.
LEMMA AdmittedHasProof ==
  ASSUME AccountsTypeOK, RequestsHold, NEW r \in Clients, Admitted(r)
  PROVE  "proof" \notin req[r].lost
<1>1. PICK q \in Request : q = req[r]
  BY DEF AccountsTypeOK
<1>2. q.id \in Users /\ accounts[q.id] \notin Absent /\ accounts[q.id].gen = q.gen /\ q.gen \in Nat
  BY <1>1, RequestFacts, GenBounds, Writer
<1>3. ~Past(q.id, q.gen)
  BY <1>2 DEF Past, Absent
<1>4. LiveToken(q.cred) \/ LiveKey(q.cred)
  BY <1>1, Writer
<1>5. ~Spent(q.cred)
  <2>1. CASE LiveToken(q.cred)
    BY <2>1, NothingIsNone DEF LiveToken, Spent, Absent
  <2>2. CASE LiveKey(q.cred)
    <3>1. q.cred \in KeyCredentials /\ q.cred[1] \in ApiKeys /\ q.cred \notin Tokens
          /\ keys[q.cred[1]] \notin Absent /\ keys[q.cred[1]].version = q.cred[2]
      BY <2>2, NothingIsNone DEF LiveKey
    <3> QED BY <3>1, GensAreNumbers DEF Spent, Absent
  <2> QED BY <1>4, <2>1, <2>2
<1> QED BY <1>1, <1>3, <1>5 DEF RequestsHold, LostIsPast

LEMMA UnrevokedHasPassword ==
  ASSUME AccountsTypeOK, RequestsHold, NEW r \in Clients, Unrevoked(r)
  PROVE  "password" \notin req[r].lost
<1>1. req[r].vid \in Users /\ accounts[req[r].vid] \notin Absent
      /\ accounts[req[r].vid].gen = req[r].vgen
  BY DEF Unrevoked, Exists
<1> QED BY <1>1, GensAreNumbers DEF RequestsHold, LostIsPast, Past, Absent

\* Before a password is asked for there is none to lose.
LEMMA WriterLosesNothing ==
  ASSUME AccountsTypeOK, RequestsHold, NEW r \in Clients, MayWrite(r)
  PROVE  req[r].lost = {}
<1>1. "proof" \notin req[r].lost
  BY AdmittedHasProof DEF MayWrite
<1>2. req[r].vid = Nothing
  BY DEF MayWrite, RequestsHold, ReadOnce
<1>3. "password" \notin req[r].lost
  BY <1>2, NothingIsNone DEF RequestsHold, LostIsPast, Past
<1> QED BY <1>1, <1>3 DEF AccountsTypeOK, Request

\* A request that stays where it is neither commits nor goes on.
LEMMA BystanderDecides ==
  ASSUME NEW q \in Clients, req'[q].at = req[q].at
  PROVE  CommitIsCurrent(q) /\ ChangesItsOwn(q)
  BY DEF CommitIsCurrent, ChangesItsOwn

\* One whose step leaves accounts and keys commits nothing.
LEMMA ReaderDecides ==
  ASSUME NEW r \in Clients, UNCHANGED <<accounts, keys>>, req'[r].at # "working"
  PROVE  CommitIsCurrent(r) /\ ChangesItsOwn(r)
  BY DEF CommitIsCurrent, ChangesItsOwn

LEMMA WriterDecides ==
  ASSUME AccountsTypeOK, RequestsHold, NEW r \in Clients, MayWrite(r)
  PROVE  CommitIsCurrent(r) /\ ChangesItsOwn(r)
  BY WriterLosesNothing DEF CommitIsCurrent, ChangesItsOwn, MayWrite

\* Of the requests only the one that takes the step moves.
LEMMA OneMoves ==
  ASSUME AccountsTypeOK, NEW r \in Clients,
         \/ Ends(r)
         \/ \E U, C : EndsAndOutdates(r, U, C)
         \/ \E new : req' = [req EXCEPT ![r] = new]
  PROVE  \A q \in Clients \ {r} : req'[q].at = req[q].at
<1>1. CASE Ends(r)
  BY <1>1, EndedRow
<1>2. ASSUME NEW U, NEW C, EndsAndOutdates(r, U, C), NEW q \in Clients \ {r}
      PROVE  req'[q].at = req[q].at
  <2>1. PICK old \in Request : old = req[q]
    BY DEF AccountsTypeOK
  <2>2. PICK lost : lost = req[q].lost \cup {w \in {"proof"} : req[q].id \in U \/ req[q].cred \in C}
                             \cup {w \in {"password"} : req[q].vid \in U}
    OBVIOUS
  <2>3. req'[q] = [old EXCEPT !.lost = lost]
    BY <1>2, <2>1, <2>2 DEF EndsAndOutdates
  <2> QED BY <2>1, <2>3 DEF Request
<1>3. CASE \E new : req' = [req EXCEPT ![r] = new]
  BY <1>3 DEF AccountsTypeOK
<1> QED BY <1>1, <1>2, <1>3

Decided == \A q \in Clients : CommitIsCurrent(q) /\ ChangesItsOwn(q)

\* It is enough to look at the request whose step it is.
LEMMA ActorDecides ==
  ASSUME NEW r \in Clients, \A q \in Clients \ {r} : req'[q].at = req[q].at,
         CommitIsCurrent(r) /\ ChangesItsOwn(r)
  PROVE  Decided
  BY BystanderDecides DEF Decided

\* Every commit rests on what still stands.
LEMMA CommitsDecided ==
  ASSUME AccountsTypeOK, RequestsHold, [AccountsNext]_accountVars
  PROVE  Decided
<1>1. CASE UNCHANGED req
  BY <1>1, BystanderDecides DEF Decided
<1>2. ASSUME NEW r \in Clients, MayWrite(r), \/ Ends(r)
                                             \/ \E U, C : EndsAndOutdates(r, U, C)
                                             \/ \E new : req' = [req EXCEPT ![r] = new]
      PROVE  Decided
  BY <1>2, OneMoves, WriterDecides, ActorDecides
<1>3. ASSUME NEW r \in Clients, UNCHANGED <<accounts, keys>>, Ends(r)
      PROVE  Decided
  <2>1. req'[r].at # "working"
    BY <1>3, EndedRow, IdleFacts
  <2> QED BY <1>3, <2>1, OneMoves, ReaderDecides, ActorDecides
<1>4. ASSUME NEW r \in Clients, NEW new, req' = [req EXCEPT ![r] = new], new.at # "working",
             UNCHANGED <<accounts, keys>>
      PROVE  Decided
  <2>1. req'[r].at # "working"
    BY <1>4 DEF AccountsTypeOK
  <2> QED BY <1>4, <2>1, OneMoves, ReaderDecides, ActorDecides
<1>5. ASSUME NEW r \in Clients, NEW n \in Names, NEW p \in Passwords, LogIn(r, n, p) PROVE Decided
  <2>1. PICK u \in Users :
          req' = [req EXCEPT ![r] = [Idle EXCEPT !.at = "verified", !.op = "login",
                                       !.vid = u, !.vgen = accounts[u].gen]]
    BY <1>5 DEF LogIn
  <2>2. PICK new : new = [Idle EXCEPT !.at = "verified", !.op = "login",
                                       !.vid = u, !.vgen = accounts[u].gen]
    OBVIOUS
  <2>3. new.at # "working"
    BY <2>2 DEF Idle
  <2> QED BY <1>4, <1>5, <2>1, <2>2, <2>3 DEF LogIn
<1>6. ASSUME NEW r \in Clients, SaveAccessToken(r) PROVE Decided
  BY <1>3, <1>6 DEF SaveAccessToken
<1>7. ASSUME NEW r \in Clients, NEW c \in Credentials, PresentCredential(r, c) PROVE Decided
  <2>1. CASE UNCHANGED req
    BY <1>1, <2>1
  <2>2. ASSUME NEW at \in {"validated", "sliding"},
               req' = [req EXCEPT ![r] = [Idle EXCEPT !.at = at, !.cred = c, !.id = OwnerOf(c)]]
        PROVE Decided
    <3>1. PICK new : new = [Idle EXCEPT !.at = at, !.cred = c, !.id = OwnerOf(c)]
      OBVIOUS
    <3>2. new.at # "working"
      BY <3>1 DEF Idle
    <3> QED BY <1>4, <1>7, <2>2, <3>1, <3>2 DEF PresentCredential
  <2> QED BY <1>7, <2>1, <2>2 DEF PresentCredential
<1>8. ASSUME NEW r \in Clients, Slide(r) PROVE Decided
  <2>1. PICK old \in Request : old = req[r]
    BY DEF AccountsTypeOK
  <2>2. PICK new : new = [old EXCEPT !.at = "validated"]
    OBVIOUS
  <2>3. new.at # "working"
    BY <2>2 DEF Request
  <2>4. req' = [req EXCEPT ![r] = new]
    BY <1>8, <2>1, <2>2 DEF Slide
  <2> QED BY <1>4, <1>8, <2>3, <2>4 DEF Slide
<1>9. ASSUME NEW r \in Clients, RequestCredential(r) PROVE Decided
  <2>1. CASE Ends(r)
    BY <1>3, <1>9, <2>1 DEF RequestCredential
  <2>2. CASE ~Ends(r)
    <3>1. PICK old \in Request : old = req[r]
      BY DEF AccountsTypeOK
    <3>2. PICK g, admin : g = accounts[req[r].id].gen /\ admin = accounts[req[r].id].admin
      OBVIOUS
    <3>3. PICK new : new = [old EXCEPT !.at = "proved", !.gen = g, !.admin = admin, !.lost = {}]
      OBVIOUS
    <3>4. new.at # "working"
      BY <3>3 DEF Request
    <3>5. req' = [req EXCEPT ![r] = new]
      BY <1>9, <2>2, <3>1, <3>2, <3>3 DEF RequestCredential
    <3> QED BY <1>4, <1>9, <3>4, <3>5 DEF RequestCredential
  <2> QED BY <2>1, <2>2
<1>10. ASSUME NEW r \in Clients, Logout(r) PROVE Decided
  <2>1. UNCHANGED <<accounts, keys>> /\ (Ends(r) \/ EndsAndOutdates(r, {}, {req[r].cred}))
    BY <1>10 DEF Logout
  <2>2. req'[r] = Idle
    BY <2>1, EndedRow DEF EndsAndOutdates
  <2> QED BY <2>1, <2>2, IdleFacts, OneMoves, ReaderDecides, ActorDecides
<1>11. ASSUME NEW r \in Clients, AdminWrites(r) PROVE Decided
  <2>1. MayWrite(r)
    BY <1>11, ZenonT(60) DEF AdminWrites, CreateUser, UpdateUser, DeleteUser, RevokeAll, CreateKey, DeleteKey,
                 AdmitOperation
  <2>2. \/ Ends(r)
        \/ \E U, C : EndsAndOutdates(r, U, C)
        \/ \E new : req' = [req EXCEPT ![r] = new]
    BY <1>11, ZenonT(60) DEF AdminWrites, CreateUser, UpdateUser, DeleteUser, RevokeAll, CreateKey, DeleteKey,
                 AdmitOperation
  <2> QED BY <1>2, <2>1, <2>2
<1>12. ASSUME NEW r \in Clients, ReadName(r) PROVE Decided
  <2>1. PICK new : new = [Idle EXCEPT !.at = "named", !.op = "change", !.id = req[r].id,
                                      !.name = accounts[req[r].id].name]
    OBVIOUS
  <2>2. new.at # "working"
    BY <2>1 DEF Idle
  <2> QED BY <1>4, <1>12, <2>1, <2>2 DEF ReadName
<1>13. ASSUME NEW r \in Clients, NEW v \in 1..MaxVersion, StartRotation(r, v) PROVE Decided
  <2>1. PICK old \in Request : old = req[r]
    BY DEF AccountsTypeOK
  <2>2. PICK name : name = accounts[OwnerOf(req[r].cred)].name
    OBVIOUS
  <2>3. PICK new : new = [old EXCEPT !.at = "named", !.op = "rotate", !.name = name, !.seen = v]
    OBVIOUS
  <2>4. new.at # "working"
    BY <2>3 DEF Request
  <2>5. req' = [req EXCEPT ![r] = new]
    BY <1>13, <2>1, <2>2, <2>3 DEF StartRotation
  <2> QED BY <1>4, <1>13, <2>4, <2>5 DEF StartRotation
<1>14. ASSUME NEW r \in Clients, NEW p \in Passwords, Verify(r, p) PROVE Decided
  <2>1. CASE Ends(r)
    BY <1>3, <1>14, <2>1 DEF Verify
  <2>2. CASE ~Ends(r)
    <3>1. PICK old \in Request : old = req[r]
      BY DEF AccountsTypeOK
    <3>2. PICK u \in Users :
            req' = [req EXCEPT ![r] = [req[r] EXCEPT !.at = "verified", !.name = Nothing, !.vid = u,
                         !.vgen = accounts[u].gen, !.lost = req[r].lost \ {"password"}]]
      BY <1>14, <2>2 DEF Verify
    <3>3. PICK g, lost : g = accounts[u].gen /\ lost = req[r].lost \ {"password"}
      OBVIOUS
    <3>4. PICK new : new = [old EXCEPT !.at = "verified", !.name = Nothing, !.vid = u, !.vgen = g,
                                       !.lost = lost]
      OBVIOUS
    <3>5. new.at # "working"
      BY <3>4 DEF Request
    <3>6. req' = [req EXCEPT ![r] = new]
      BY <3>1, <3>2, <3>3, <3>4
    <3> QED BY <1>4, <1>14, <3>5, <3>6 DEF Verify
  <2> QED BY <2>1, <2>2
<1>15. ASSUME NEW r \in Clients, NEW p \in Passwords, SetPassword(r, p) PROVE Decided
  <2>1. CASE UNCHANGED <<accounts, keys>> /\ Ends(r)
    BY <1>3, <2>1
  <2>2. ASSUME NEW u \in Users, NEW row \in Account, accounts' = [accounts EXCEPT ![u] = row],
               u = req[r].vid, Unrevoked(r), req[r].at = "verified", req[r].op = "change",
               EndsAndOutdates(r, {u}, {})
        PROVE  Decided
    <3>1. "password" \notin req[r].lost /\ u = req[r].id
      BY <2>2, UnrevokedHasPassword DEF RequestsHold, ReadOnce
    <3>2. \A v \in Users \ {req[r].id} : accounts'[v] = accounts[v]
      BY <2>2, <3>1 DEF AccountsTypeOK
    <3>3. CommitIsCurrent(r) /\ ChangesItsOwn(r)
      BY <2>2, <3>1, <3>2 DEF CommitIsCurrent, ChangesItsOwn
    <3> QED BY <2>2, <3>3, OneMoves, ActorDecides
  <2> QED BY <1>15, <2>1, <2>2, SettingPassword
<1>16. ASSUME NEW r \in Clients, NEW k \in ApiKeys, Rotate(r, k) PROVE Decided
  <2>1. CASE Ends(r) /\ UNCHANGED keys
    BY <1>3, <1>16, <2>1 DEF Rotate
  <2>2. CASE Admitted(r) /\ Unrevoked(r) /\ EndsAndOutdates(r, {}, {<<k, keys[k].version>>})
    <3>1. req[r].lost = {}
      BY <2>2, AdmittedHasProof, UnrevokedHasPassword DEF AccountsTypeOK, Request
    <3>2. CommitIsCurrent(r) /\ ChangesItsOwn(r)
      BY <1>16, <3>1 DEF Rotate, CommitIsCurrent, ChangesItsOwn
    <3> QED BY <2>2, <3>2, OneMoves, ActorDecides
  <2> QED BY <1>16, <2>1, <2>2 DEF Rotate
<1>17. ASSUME NEW r \in Clients, DropRequest(r) PROVE Decided
  BY <1>3, <1>17 DEF DropRequest
<1> QED
  BY <1>1, <1>5, <1>6, <1>7, <1>8, <1>9, <1>10, <1>11, <1>12, <1>13, <1>14, <1>15, <1>16, <1>17
  DEF AccountsNext, InitializeFirst, Expire, accountVars

LEMMA AccountsStart == AccountsInit => AccountsInv
<1> SUFFICES ASSUME AccountsInit PROVE AccountsInv
  OBVIOUS
<1>1. AccountsTypeOK
  BY IdleFacts DEF AccountsInit, AccountsTypeOK
<1>2. AnAdminRemains
  BY AccountsAssumption DEF AccountsInit, AnAdminRemains, Exists, Absent
<1>3. RowsHold /\ DeadStayDead
  BY DEF AccountsInit, RowsHold, DeadStayDead, Absent
<1>4. RequestsHold
  BY IdleFacts DEF AccountsInit, RequestsHold, ReadOnce, LostIsPast
<1> QED BY <1>1, <1>2, <1>3, <1>4 DEF AccountsInv, Controlled

LEMMA AccountsStep == ASSUME AccountsInv, [AccountsNext]_accountVars PROVE AccountsInv'
<1>1. AccountsTypeOK'
  BY AccountsTypesStay DEF AccountsInv, Controlled
<1>2. RowsGoOn
  BY GoesOn DEF AccountsInv, Controlled
<1>3. RowsKept'
  BY <1>1, <1>2, KeepsKept DEF AccountsInv, Controlled, RowsKept
<1>4. AnAdminRemains'
  BY <1>1, AdminStays DEF AccountsInv, Controlled
<1> QED BY <1>1, <1>3, <1>4 DEF AccountsInv, Controlled, RowsKept

\* The invariant that the theorems follow from: types, an administrator, and what
\* the rows and the requests hold.
THEOREM AccountsInductive == AccountsSpec => []AccountsInv
  BY AccountsStart, AccountsStep, PTL DEF AccountsSpec

\* Somebody has the administration, and nobody by a token that was revoked
\* (store/users.go, admin_users.go, admin_credentials.go).
THEOREM AccessControlled == AccountsSpec => []AccessIsControlled
<1>1. ASSUME AccountsInv PROVE AccessIsControlled
  <2>1. ASSUME NEW t \in dead PROVE ~LiveToken(t)
    <3>1. t \in Tokens /\ tokens[t] # Unused /\ (tokens[t] # Deleted => Past(tokens[t].user, tokens[t].gen))
      BY <1>1 DEF AccountsInv, Controlled, DeadStayDead, AccountsTypeOK
    <3> QED BY <1>1, <3>1, GensAreNumbers DEF AccountsInv, LiveToken, Exists, Absent, Past
  <2> QED BY <1>1, <2>1 DEF AccountsInv, Controlled, AccessIsControlled, NoRevokedToken
<1> QED BY <1>1, AccountsInductive, PTL

\* Every commit rests on what its credential stands for at that moment, and a
\* password change is of one's own (admin_users.go adminUserTx,
\* SetAuthenticatedUserPassword, RotateAPIKeyForRequest).
THEOREM CredentialsAlwaysDecide == AccountsSpec => CredentialsDecide
<1>1. ASSUME AccountsInv, [AccountsNext]_accountVars
      PROVE  (\A r \in Clients : CommitIsCurrent(r)) /\ (\A r \in Clients : ChangesItsOwn(r))
  BY <1>1, CommitsDecided DEF AccountsInv, Controlled, Decided
<1>2. AccountsInv /\ [AccountsNext]_accountVars =>
        [\A r \in Clients : CommitIsCurrent(r)]_accountVars
        /\ [\A r \in Clients : ChangesItsOwn(r)]_accountVars
  BY <1>1
<1> QED
  BY <1>2, AccountsInductive, PTL
  DEF AccountsSpec, CredentialsDecide, CommitsAreCurrent, OwnPasswordOnly

-----------------------------------------------------------------------------
(***************************************************************************)
(* Answers are current for any number of readers, writers and writes.      *)
(* The argument is about the entries: what is kept under a version was     *)
(* read when that version, at least, had been committed, because a reader  *)
(* takes the version first; and a hit is looked up under a version that is *)
(* not behind the newest one published.                                    *)
(***************************************************************************)

\* The mirror in the process lies between what was published and what is written.
MirrorBetween ==
  /\ announced <= gversion /\ gversion <= written
  /\ \A w \in IndexWriters : writer[w] <= written

\* An entry is of its version or newer.
EntriesHold == \A v \in Commits : cached[v] # NoEntry => cached[v] >= v

\* What a reader knows on its way.
ReadersHold ==
  \A r \in Readers :
    /\ reader[r].at # "reading" /\ reader[r].version <= written
    /\ reader[r].at \in {"asked", "read"} => reader[r].since <= reader[r].version
    /\ reader[r].at = "read" => reader[r].version <= reader[r].seen
    /\ Fresh(r)

ViewsCurrent == MirrorBetween /\ (answer \in Bound => EntriesHold /\ ReadersHold)

ViewsInv == ViewsTypeOK /\ ViewsCurrent

Requested == [at : {"out", "asked", "reading", "read", "served"},
              version : Commits, seen : Commits, since : Commits]

\* A commit is a number.
LEMMA CommitFacts == Commits \subseteq Nat /\ 0 \in Commits
                     /\ \A n \in Commits : n < MaxWrites => n + 1 \in Commits
  BY ViewsAssumption DEF Commits

\* All that is compared is a number.
LEMMA ViewNumbers ==
  ViewsTypeOK =>
    /\ written \in Nat /\ gversion \in Nat /\ announced \in Nat
    /\ written \in Commits /\ gversion \in Commits /\ announced \in Commits
    /\ \A w \in IndexWriters : writer[w] \in Nat
    /\ \A r \in Readers : reader[r].version \in Nat /\ reader[r].seen \in Nat
                           /\ reader[r].since \in Nat /\ reader[r].version \in Commits
    /\ \A v \in Commits : v \in Nat /\ (cached[v] # NoEntry => cached[v] \in Nat)
  BY CommitFacts DEF ViewsTypeOK

\* A hit is the answer; without one the version is kept for later.
LEMMA AskingView ==
  ASSUME ViewsTypeOK, NEW r \in Readers, NEW kind, Ask(r, kind)
  PROVE  /\ answer = kind
         /\ UNCHANGED <<answer, written, visible, gversion, announced, cached, writer>>
         /\ \E new \in Requested :
              /\ reader' = [reader EXCEPT ![r] = new] /\ new.since = announced
              /\ \/ /\ cached[gversion] # NoEntry /\ new.at = "served"
                    /\ new.seen = cached[gversion] /\ new.version = 0
                 \/ new.at = "asked" /\ new.version = gversion
<1> DEFINE asked == [NoRequest EXCEPT !.at = "asked", !.since = announced]
           hit   == [asked EXCEPT !.at = "served", !.seen = cached[gversion]]
           miss  == [asked EXCEPT !.version = gversion]
<1>1. asked \in Requested /\ asked.at = "asked" /\ asked.since = announced /\ asked.version = 0
  BY CommitFacts DEF NoRequest, Requested, ViewsTypeOK
<1>2. CASE cached[gversion] # NoEntry
  <2>1. reader' = [reader EXCEPT ![r] = hit]
    BY <1>2 DEF Ask, LookupAnswer, PutReader
  <2>2. hit \in Requested /\ hit.at = "served" /\ hit.seen = cached[gversion]
        /\ hit.since = announced /\ hit.version = 0
    BY <1>1, <1>2 DEF Requested, ViewsTypeOK
  <2> QED BY <1>2, <2>1, <2>2 DEF Ask
<1>3. CASE cached[gversion] = NoEntry
  <2>1. reader' = [reader EXCEPT ![r] = miss]
    BY <1>3 DEF Ask, LookupAnswer, PutReader
  <2>2. miss \in Requested /\ miss.at = "asked" /\ miss.since = announced /\ miss.version = gversion
    BY <1>1 DEF Requested, ViewsTypeOK
  <2> QED BY <2>1, <2>2 DEF Ask
<1> QED BY <1>2, <1>3

\* Every handler that captures the version first does the same of its kind.
LEMMA Askers ==
  ASSUME NEW r \in Readers,
         \/ AskItems(r) \/ AskEntities(r) \/ AskSimilar(r) \/ AskCover(r) \/ AskCounts(r) \/ AskMovie(r)
  PROVE  \E kind \in Bound : Ask(r, kind)
  BY DEF AskItems, AskEntities, AskSimilar, AskCover, AskCounts, AskMovie, Bound

\* All the writers' transactions do the same to what the readers see.
LEMMA Committing ==
  ASSUME NEW w \in IndexWriters, WriteVersioned(w) \/ WriteUserData(w) \/ DeleteIndexedMovie(w)
  PROVE  CommitIndex(w) /\ visible' \in {visible, FALSE}
  BY DEF WriteVersioned, WriteUserData, DeleteIndexedMovie, CommitIndex

\* Nothing is cached, announced or asked for at first.
LEMMA ViewsStart == ViewsInit => ViewsInv
  BY CommitFacts
  DEF ViewsInit, ViewsInv, ViewsCurrent, ViewsTypeOK, MirrorBetween, EntriesHold, ReadersHold, Fresh, NoRequest

LEMMA ViewsTypesStay == ASSUME ViewsInv, [ViewsNext]_viewVars PROVE ViewsTypeOK'
<1>1. ASSUME NEW w \in IndexWriters, CommitIndex(w), visible' \in {visible, FALSE}
      PROVE  ViewsTypeOK'
  BY <1>1, CommitFacts DEF ViewsInv, ViewsTypeOK, CommitIndex
<1>2. ASSUME NEW w \in IndexWriters, PublishVersion(w) PROVE ViewsTypeOK'
  BY <1>2, CommitFacts DEF ViewsInv, ViewsTypeOK, PublishVersion, Published
<1>3. ASSUME NEW r \in Readers, NEW kind \in Bound, Ask(r, kind) PROVE ViewsTypeOK'
  BY <1>3, AskingView, CommitFacts DEF ViewsInv, ViewsTypeOK, Requested
<1>4. ASSUME NEW r \in Readers, ReadIndex(r) PROVE ViewsTypeOK'
  BY <1>4 DEF ViewsInv, ViewsTypeOK, ReadIndex, PutReader
<1>5. ASSUME NEW r \in Readers, ReadDetail(r) PROVE ViewsTypeOK'
  BY <1>5, CommitFacts DEF ViewsInv, ViewsTypeOK, ReadDetail, PutReader, NoRequest
<1>6. ASSUME NEW r \in Readers, AskDetail(r) PROVE ViewsTypeOK'
  BY <1>6, ZenonT(60) DEF ViewsInv, ViewsTypeOK, AskDetail, LookupAnswer, PutReader
<1>7. ASSUME NEW r \in Readers, PutAnswer(r) PROVE ViewsTypeOK'
  BY <1>7 DEF ViewsInv, ViewsTypeOK, PutAnswer, PutReader
<1>8. ASSUME NEW r \in Readers, LeaveAnswer(r) PROVE ViewsTypeOK'
  BY <1>8, CommitFacts DEF ViewsInv, ViewsTypeOK, LeaveAnswer, PutReader, NoRequest
<1>9. ASSUME NEW v \in Commits, Evict(v) PROVE ViewsTypeOK'
  BY <1>9 DEF ViewsInv, ViewsTypeOK, Evict
<1>10. CASE RestartServer
  BY <1>10, CommitFacts DEF ViewsInv, ViewsTypeOK, RestartServer, NoRequest
<1>11. CASE UNCHANGED viewVars
  BY <1>11 DEF ViewsInv, ViewsTypeOK, viewVars
<1> QED
  BY <1>1, <1>2, <1>3, <1>4, <1>5, <1>6, <1>7, <1>8, <1>9, <1>10, <1>11, Askers, Committing
  DEF ViewsNext

LEMMA MirrorStays == ASSUME ViewsInv, [ViewsNext]_viewVars PROVE MirrorBetween'
<1>1. ASSUME NEW w \in IndexWriters, CommitIndex(w) PROVE MirrorBetween'
  BY <1>1, ViewNumbers, CommitFacts DEF ViewsInv, ViewsCurrent, ViewsTypeOK, MirrorBetween, CommitIndex
<1>2. ASSUME NEW w \in IndexWriters, PublishVersion(w) PROVE MirrorBetween'
  BY <1>2, ViewNumbers, CommitFacts DEF ViewsInv, ViewsCurrent, ViewsTypeOK, MirrorBetween, PublishVersion, Published
<1>3. ASSUME NEW r \in Readers, NEW kind \in Bound, Ask(r, kind) PROVE MirrorBetween'
  BY <1>3 DEF ViewsInv, ViewsCurrent, MirrorBetween, Ask
<1>4. ASSUME NEW r \in Readers, \/ ReadIndex(r) \/ ReadDetail(r) \/ AskDetail(r)
                               \/ PutAnswer(r) \/ LeaveAnswer(r)
      PROVE  MirrorBetween'
  BY <1>4 DEF ViewsInv, ViewsCurrent, MirrorBetween, ReadIndex, ReadDetail, AskDetail, PutAnswer, LeaveAnswer
<1>5. ASSUME NEW v \in Commits, Evict(v) PROVE MirrorBetween'
  BY <1>5 DEF ViewsInv, ViewsCurrent, MirrorBetween, Evict
<1>6. CASE RestartServer
  BY <1>6, ViewNumbers, CommitFacts DEF ViewsTypeOK, ViewsInv, MirrorBetween, RestartServer
<1>7. CASE UNCHANGED viewVars
  BY <1>7 DEF ViewsInv, ViewsCurrent, MirrorBetween, viewVars
<1> QED
  BY <1>1, <1>2, <1>3, <1>4, <1>5, <1>6, <1>7, Askers, Committing DEF ViewsNext

\* An entry is put by a reader whose rows were not older than its version.
LEMMA EntriesStay ==
  ASSUME ViewsInv, [ViewsNext]_viewVars, answer \in Bound, answer' = answer
  PROVE  EntriesHold'
<1> DEFINE Same == cached' = cached
<1>1. ASSUME Same PROVE EntriesHold'
  BY <1>1 DEF ViewsInv, ViewsCurrent, EntriesHold
<1>2. ASSUME NEW r \in Readers, PutAnswer(r) PROVE EntriesHold'
  <2>1. reader[r].seen >= reader[r].version /\ reader[r].version \in Commits
    BY <1>2, ViewNumbers, CommitFacts DEF ViewsInv, ViewsCurrent, ViewsTypeOK, ReadersHold, PutAnswer
  <2> QED
    BY <1>2, <2>1 DEF ViewsInv, ViewsCurrent, ViewsTypeOK, EntriesHold, PutAnswer
<1>3. ASSUME NEW v \in Commits, Evict(v) PROVE EntriesHold'
  BY <1>3 DEF ViewsInv, ViewsCurrent, ViewsTypeOK, EntriesHold, Evict
<1>4. CASE RestartServer
  BY <1>4 DEF ViewsInv, ViewsCurrent, EntriesHold, RestartServer
<1>5. ASSUME NEW w \in IndexWriters, CommitIndex(w) \/ PublishVersion(w) PROVE Same
  BY <1>5 DEF CommitIndex, PublishVersion
<1>6. ASSUME NEW r \in Readers, NEW kind \in Bound, Ask(r, kind) PROVE Same
  BY <1>6 DEF Ask
<1>7. ASSUME NEW r \in Readers, ReadIndex(r) \/ ReadDetail(r) \/ AskDetail(r) \/ LeaveAnswer(r)
      PROVE  Same
  BY <1>7 DEF ReadIndex, ReadDetail, AskDetail, LeaveAnswer
<1>8. CASE UNCHANGED viewVars
  BY <1>8, <1>1 DEF viewVars
<1> HIDE DEF Same
<1> QED
  BY <1>1, <1>2, <1>3, <1>4, <1>5, <1>6, <1>7, <1>8, Askers, Committing DEF ViewsNext

LEMMA ReadersStay ==
  ASSUME ViewsInv, [ViewsNext]_viewVars, answer \in Bound, answer' = answer
  PROVE  ReadersHold'
<1>1. ASSUME NEW w \in IndexWriters, CommitIndex(w) PROVE ReadersHold'
  BY <1>1, ViewNumbers, CommitFacts DEF ViewsInv, ViewsCurrent, ViewsTypeOK, ReadersHold, Fresh, CommitIndex
<1>2. ASSUME NEW w \in IndexWriters, PublishVersion(w) PROVE ReadersHold'
  BY <1>2 DEF ViewsInv, ViewsCurrent, ReadersHold, Fresh, PublishVersion
<1>3. ASSUME NEW r \in Readers, NEW kind \in Bound, Ask(r, kind) PROVE ReadersHold'
  BY <1>3, AskingView, ViewNumbers, CommitFacts
  DEF ViewsInv, ViewsCurrent, ViewsTypeOK, MirrorBetween, EntriesHold, ReadersHold, Fresh, Requested
<1>4. ASSUME NEW r \in Readers, ReadIndex(r) PROVE ReadersHold'
  BY <1>4, ViewNumbers, CommitFacts DEF ViewsInv, ViewsCurrent, ViewsTypeOK, ReadersHold, Fresh, ReadIndex, PutReader
<1>5. ASSUME NEW r \in Readers, ReadDetail(r) \/ AskDetail(r) PROVE ReadersHold'
  BY <1>5 DEF ViewsInv, ViewsCurrent, ReadersHold, Bound, ReadDetail, AskDetail
<1>6. ASSUME NEW r \in Readers, PutAnswer(r) PROVE ReadersHold'
  BY <1>6, ViewNumbers, CommitFacts DEF ViewsInv, ViewsCurrent, ViewsTypeOK, ReadersHold, Fresh, PutAnswer, PutReader
<1>7. ASSUME NEW r \in Readers, LeaveAnswer(r) PROVE ReadersHold'
  BY <1>7, ViewNumbers, CommitFacts DEF ViewsInv, ViewsCurrent, ViewsTypeOK, ReadersHold, Fresh, LeaveAnswer, PutReader, NoRequest
<1>8. ASSUME NEW v \in Commits, Evict(v) PROVE ReadersHold'
  BY <1>8 DEF ViewsInv, ViewsCurrent, ReadersHold, Fresh, Evict
<1>9. CASE RestartServer
  BY <1>9, ViewNumbers, CommitFacts DEF ViewsInv, ViewsTypeOK, ReadersHold, Fresh, RestartServer, NoRequest
<1>10. CASE UNCHANGED viewVars
  BY <1>10 DEF ViewsInv, ViewsCurrent, ReadersHold, Fresh, viewVars
<1> QED
  BY <1>1, <1>2, <1>3, <1>4, <1>5, <1>6, <1>7, <1>8, <1>9, <1>10, Askers, Committing DEF ViewsNext

\* A behaviour is about one kind of answer.
LEMMA AnswerStays == ASSUME [ViewsNext]_viewVars PROVE answer' = answer
  BY Askers, Committing
  DEF ViewsNext, viewVars, CommitIndex, PublishVersion, Ask, ReadIndex, ReadDetail, AskDetail,
      PutAnswer, LeaveAnswer, Evict, RestartServer

\* The invariant that the theorem follows from.
THEOREM ViewsInductive == ViewsSpec => []ViewsInv
<1>1. ViewsInv /\ [ViewsNext]_viewVars => ViewsInv'
  BY ViewsTypesStay, MirrorStays, EntriesStay, ReadersStay, AnswerStays DEF ViewsInv, ViewsCurrent
<1> QED
  BY ViewsStart, <1>1, PTL DEF ViewsSpec

\* An answer, computed or found, shows every write that had been published when it
\* was asked for (versions.go, itemsQuery and the other handlers that take the
\* version first), also across restarts that keep the cache.
THEOREM ServedAlwaysCurrent == ViewsSpec => []ServedIsCurrent
<1>1. ViewsInv => ServedIsCurrent
  BY DEF ViewsInv, ViewsCurrent, ReadersHold, ServedIsCurrent
<1> QED
  BY ViewsInductive, <1>1, PTL

-----------------------------------------------------------------------------
(****************************************************************************)
(* Tasks are kept for any number of jobs, keys and restarts.  The invariant *)
(* says that an id is given out once: no two jobs have the same, and none   *)
(* has been written above the counter; so what a job writes is its own row  *)
(* and its own entry, and those of others are only ever pruned.             *)
(****************************************************************************)

TasksTyped ==
  /\ life \in {"up", "cancelled", "down"} /\ nextID \in 0..MaxID
  /\ rec \in [Ids -> Statuses \cup {NoTask}]
  /\ scans \in [Ids -> ScanRow \cup {NoTask}]
  /\ idem \in [IdemKeys -> KeyRow \cup {NoTask}]
  /\ scanner \in Jobs \cup {"elsewhere", NoTask}
  /\ place \in [Jobs -> TaskPCs] /\ jid \in [Jobs -> Ids \cup {NoTask}]
  /\ jkey \in [Jobs -> IdemKeys \cup {NoTask}] /\ jdigest \in [Jobs -> Digests \cup {NoTask}]
  /\ out \in [Jobs -> Ended \cup {NoTask}]
  /\ lostAnswers \subseteq Ids

\* An id is of one job, and nothing stands above the counter while it counts.
IdsAreFresh ==
  /\ \A j \in Jobs : jid[j] = NoTask <=> place[j] \in {"idle", "missed"}
  /\ \A j \in Jobs : jid[j] # NoTask => jid[j] <= nextID
  /\ \A j, k \in Jobs : jid[j] = jid[k] /\ jid[j] # NoTask => j = k
  /\ \A i \in Ids : scans[i] # NoTask => i <= nextID
  /\ life # "down" => \A i \in Ids : rec[i] # NoTask => i <= nextID
  /\ life = "down" => nextID = 0

\* What a job knows of its scan and of its record.
JobHolds(j) ==
  /\ place[j] \notin {"idle", "other"} => jdigest[j] # NoTask
  /\ place[j] \in {"started", "queued"} => rec[jid[j]] \notin Terminal
  /\ place[j] = "started" => scans[jid[j]] = NoTask
  /\ place[j] \in {"ended", "finishing"} => out[j] # NoTask

VisibleTo(j) == Accepted(j) => scans[jid[j]] # NoTask /\ ~Finished(jid[j])
RecordedEnd(i) ==
  scans[i] # NoTask /\ Finished(i) => rec[i] \in Terminal \cup {NoTask} \/ i \in lostAnswers

TasksInv ==
  /\ TasksTyped /\ IdsAreFresh
  /\ \A j \in Jobs : JobHolds(j) /\ VisibleTo(j)
  /\ \A i \in Ids : RecordedEnd(i)

-----------------------------------------------------------------------------
(* What is written of a task *)

\* A write about task i that may leave it with the status s: of other tasks
\* rows go at most, and a write that is lost is known to be.
RecordStep(i, s) ==
  /\ rec' \in [Ids -> Statuses \cup {NoTask}]
  /\ \A k \in Ids \ {i} : rec'[k] \in {rec[k], NoTask}
  /\ rec'[i] \in {rec[i], s, NoTask}
  /\ rec[i] = NoTask => rec'[i] \in {NoTask, s}
  /\ rec'[i] \in {s, NoTask} \/ i \in lostAnswers'
  /\ lostAnswers \subseteq lostAnswers' /\ lostAnswers' \subseteq Ids

LEMMA StatusIsNoTask == NoTask \notin Statuses /\ NoTask \notin Ids /\ NoTask \notin ScanRow /\ NoTask \notin KeyRow
  BY ScanTasksAssumption

LEMMA UpsertDoes ==
  ASSUME TasksTyped, NEW i \in Ids, NEW s \in Statuses, Upsert(i, s) \/ UpsertFails(i, s)
  PROVE  RecordStep(i, s)
  <1>1. CASE Upsert(i, s)
    <2>1. \A k \in Ids : rec'[k] = IF k \notin NewestTasks(RecordedTask \cup {i}, Retention) THEN NoTask
                                   ELSE IF k = i THEN s ELSE rec[k]
      BY <1>1 DEF Upsert, Upserted
    <2>2. rec' \in [Ids -> Statuses \cup {NoTask}]
      BY <1>1 DEF Upsert, Upserted, TasksTyped
    <2> QED BY <1>1, <2>1, <2>2 DEF Upsert, RecordStep, TasksTyped
  <1>2. CASE UpsertFails(i, s)
    BY <1>2 DEF UpsertFails, RecordStep, TasksTyped
  <1> QED BY <1>1, <1>2

LEMMA UpdateDoes ==
  ASSUME TasksTyped, NEW i \in Ids, NEW s \in Statuses, Update(i, s)
  PROVE  RecordStep(i, s)
  BY DEF Update, RecordStep, TasksTyped

LEMMA FinishListedDoes ==
  ASSUME TasksTyped, NEW i \in Ids, NEW s \in Ended, FinishListed(i, s)
  PROVE  /\ rec' \in [Ids -> Statuses \cup {NoTask}]
         /\ \A k \in Ids \ {i} : rec'[k] = rec[k]
         /\ rec'[i] \in {rec[i], s} /\ (rec[i] = NoTask => rec'[i] = NoTask)
         /\ lostAnswers \subseteq lostAnswers' /\ lostAnswers' \subseteq Ids
  BY DEF FinishListed, Update, Statuses, Terminal, TasksTyped

-----------------------------------------------------------------------------
(* What a step of one job leaves to the others *)

\* Job j goes on, and writes of task i; entries of others go when they have ended.
Frame(j, i) ==
  /\ UNCHANGED <<life, nextID>>
  /\ \A k \in Jobs \ {j} : /\ place'[k] = place[k] /\ jid'[k] = jid[k] /\ jdigest'[k] = jdigest[k]
                           /\ out'[k] = out[k] /\ (i \in Ids => jid[k] # i)
  /\ jid'[j] \in {jid[j], NoTask}
  /\ jid'[j] = NoTask <=> place'[j] \in {"idle", "missed"}
  /\ i \in Ids => i <= nextID
  /\ \A m \in Ids \ {i} : rec'[m] \in {rec[m], NoTask}
  /\ \A m \in Ids \ {i} : \/ scans'[m] = scans[m]
                          \/ scans'[m] = NoTask /\ Finished(m)
  /\ lostAnswers \subseteq lostAnswers'

LEMMA FrameKeeps ==
  ASSUME TasksInv, TasksTyped', NEW j \in Jobs, NEW i, Frame(j, i),
         JobHolds(j)', VisibleTo(j)', i \in Ids => RecordedEnd(i)'
  PROVE  TasksInv'
  <1>1. IdsAreFresh'
    <2>1. \A k \in Jobs : jid'[k] = NoTask <=> place'[k] \in {"idle", "missed"}
      BY DEF Frame, TasksInv, IdsAreFresh
    <2>2. \A k \in Jobs : jid'[k] # NoTask => jid'[k] <= nextID'
      BY DEF Frame, TasksInv, IdsAreFresh
    <2>3. \A k, l \in Jobs : jid'[k] = jid'[l] /\ jid'[k] # NoTask => k = l
      BY DEF Frame, TasksInv, IdsAreFresh
    <2>4. \A m \in Ids : scans'[m] # NoTask => m <= nextID'
      BY DEF Frame, TasksInv, IdsAreFresh
    <2>5. life' # "down" => \A m \in Ids : rec'[m] # NoTask => m <= nextID'
      BY DEF Frame, TasksInv, IdsAreFresh
    <2>6. life' = "down" => nextID' = 0
      BY DEF Frame, TasksInv, IdsAreFresh
    <2> QED BY <2>1, <2>2, <2>3, <2>4, <2>5, <2>6 DEF IdsAreFresh
  <1>2. ASSUME NEW k \in Jobs \ {j} PROVE JobHolds(k)' /\ VisibleTo(k)'
    <2>1. JobHolds(k) /\ VisibleTo(k) /\ (jid[k] = NoTask <=> place[k] \in {"idle", "missed"}) /\ jid[k] \in Ids \cup {NoTask}
      BY DEF TasksInv, IdsAreFresh, TasksTyped
    <2>2. jid[k] \in Ids => jid[k] \in Ids \ {i}
      BY DEF Frame
    <2>3. JobHolds(k)'
      BY <2>1, <2>2, StatusIsNoTask DEF JobHolds, Frame, Statuses
    <2>4. VisibleTo(k)'
      <3>1. Accepted(k)' <=> Accepted(k)
        BY DEF Frame, Accepted
      <3>2. ASSUME Accepted(k) PROVE scans'[jid[k]] = scans[jid[k]]
        BY <2>1, <2>2, <3>2 DEF Frame, VisibleTo, Accepted
      <3>3. jid'[k] = jid[k]
        BY DEF Frame
      <3> QED BY <2>1, <3>1, <3>2, <3>3 DEF VisibleTo, Finished
    <2> QED BY <2>3, <2>4
  <1>3. ASSUME NEW m \in Ids PROVE RecordedEnd(m)'
    <2>1. CASE m = i
      BY <2>1
    <2>2. CASE m # i
      BY <2>2 DEF Frame, RecordedEnd, Finished, TasksInv
    <2> QED BY <2>1, <2>2
  <1> QED BY <1>1, <1>2, <1>3 DEF TasksInv

-----------------------------------------------------------------------------
(* The steps of a job *)

LEMMA PrunedTyped ==
  ASSUME TasksTyped, NEW key
  PROVE  Pruned(key) \in [IdemKeys -> KeyRow \cup {NoTask}]
  BY DEF TasksTyped, Pruned

LEMMA SubmitKeeps ==
  ASSUME TasksInv, NEW j \in Jobs, NEW key \in IdemKeys \cup {NoTask}, NEW digest \in Digests,
         Submit(j, key, digest)
  PROVE  TasksInv'
  <1>1. CASE UNCHANGED jobVars
    <2>1. TasksTyped'
      <3>1. idem' \in [IdemKeys -> KeyRow \cup {NoTask}]
        BY PrunedTyped DEF Submit, TasksInv, TasksTyped
      <3>2. UNCHANGED <<life, nextID, rec, scans, scanner, place, jid, jkey, jdigest, out, lostAnswers>>
        BY <1>1 DEF Submit, jobVars
      <3>3. TasksTyped
        BY DEF TasksInv
      <3> QED BY <3>1, <3>2, <3>3 DEF TasksTyped
    <2>2. UNCHANGED <<life, nextID, rec, scans, place, jid, jdigest, out, lostAnswers>>
      BY <1>1 DEF Submit, jobVars
    <2> QED BY <2>1, <2>2 DEF TasksInv, IdsAreFresh, JobHolds, VisibleTo, Accepted, Finished, RecordedEnd
  <1>2. CASE /\ jkey' = [jkey EXCEPT ![j] = key] /\ jdigest' = [jdigest EXCEPT ![j] = digest]
             /\ idem' \in {idem, Pruned(key)}
             /\ GotoTask(j, "missed") /\ UNCHANGED <<jid, out>>
    <2>1. TasksTyped'
      <3>1. idem' \in [IdemKeys -> KeyRow \cup {NoTask}]
        BY <1>2, PrunedTyped DEF TasksInv, TasksTyped
      <3> QED BY <1>2, <3>1 DEF Submit, TasksInv, TasksTyped, GotoTask, TaskPCs
    <2>2. place[j] = "idle" /\ jid[j] = NoTask
      BY DEF Submit, TaskAt, TasksInv, IdsAreFresh
    <2>3. Frame(j, NoTask)
      <3>1. UNCHANGED <<life, nextID, rec, scans, lostAnswers, jid, out>>
        BY <1>2 DEF Submit
      <3>2. ASSUME NEW k \in Jobs \ {j}
            PROVE  place'[k] = place[k] /\ jid'[k] = jid[k] /\ jdigest'[k] = jdigest[k] /\ out'[k] = out[k]
        BY <1>2 DEF GotoTask, TasksInv, TasksTyped
      <3>3. place'[j] = "missed"
        BY <1>2 DEF GotoTask, TasksInv, TasksTyped
      <3> QED BY <2>2, <3>1, <3>2, <3>3, StatusIsNoTask DEF Frame
    <2>4. JobHolds(j)' /\ VisibleTo(j)'
      BY <1>2, ScanTasksAssumption DEF JobHolds, VisibleTo, Accepted, GotoTask, TasksInv, TasksTyped
    <2> QED BY <2>1, <2>3, <2>4, StatusIsNoTask, FrameKeeps
  <1> QED BY <1>1, <1>2 DEF Submit

LEMMA StartKeeps ==
  ASSUME TasksInv, NEW j \in Jobs, NEW loc \in {"started", "other"},
         Alive, place[j] \in {"idle", "missed"}, loc = "started" => jdigest[j] # NoTask,
         StartTask(j, loc)
  PROVE  TasksInv'
  <1> DEFINE i == nextID + 1
  <1>1. i \in Ids /\ nextID' = i /\ nextID \in Nat /\ i > nextID /\ nextID' \in 0..MaxID
    BY ScanTasksAssumption DEF StartTask, TasksInv, TasksTyped, Ids
  <1>2. RecordStep(i, "running")
    BY <1>1, UpsertDoes DEF StartTask, TasksInv, Statuses
  <1>3. /\ jid' = [jid EXCEPT ![j] = i] /\ place' = [place EXCEPT ![j] = loc]
        /\ UNCHANGED <<life, scans, order, idem, scanner, jkey, jdigest, out>>
    BY <1>1 DEF StartTask, GotoTask
  <1> HIDE DEF i
  <1>4. TasksTyped'
    BY <1>1, <1>2, <1>3 DEF RecordStep, TasksInv, TasksTyped, TaskPCs
  <1>5. rec[i] = NoTask /\ scans[i] = NoTask /\ \A k \in Jobs : jid[k] # i
    <2>1. ~(i <= nextID)
      BY <1>1
    <2> QED BY <1>1, <2>1, StatusIsNoTask DEF TasksInv, IdsAreFresh, Alive
  <1>6. jid' \in [Jobs -> Ids \cup {NoTask}] /\ jid'[j] = i /\ jid'[j] # NoTask /\ place'[j] = loc
        /\ \A k \in Jobs \ {j} : jid'[k] = jid[k] /\ place'[k] = place[k]
    BY <1>1, <1>3, StatusIsNoTask DEF TasksInv, TasksTyped
  <1>7. IdsAreFresh'
    <2>1. \A m \in Ids : m <= nextID => m <= nextID'
      BY <1>1 DEF Ids
    <2>2. \A k \in Jobs : jid'[k] = NoTask <=> place'[k] \in {"idle", "missed"}
      BY <1>6 DEF TasksInv, IdsAreFresh
    <2>3. \A k \in Jobs : jid'[k] # NoTask => jid'[k] <= nextID'
      <3>1. i <= nextID'
        BY <1>1 DEF Ids
      <3>2. \A k \in Jobs : jid[k] # NoTask => jid[k] \in Ids /\ jid[k] <= nextID
        BY DEF TasksInv, TasksTyped, IdsAreFresh
      <3> QED BY <1>6, <2>1, <3>1, <3>2
    <2>4. \A k, l \in Jobs : jid'[k] = jid'[l] /\ jid'[k] # NoTask => k = l
      BY <1>5, <1>6 DEF TasksInv, IdsAreFresh
    <2>5. \A m \in Ids : scans'[m] # NoTask => m <= nextID'
      BY <1>3, <2>1 DEF TasksInv, IdsAreFresh
    <2>6. \A m \in Ids : rec'[m] # NoTask => m <= nextID'
      <3>1. ASSUME NEW m \in Ids, rec'[m] # NoTask PROVE m <= nextID'
        <4>1. CASE m = i
          BY <1>1, <4>1 DEF Ids
        <4>2. CASE m # i
          <5>1. rec[m] # NoTask
            BY <1>2, <3>1, <4>2 DEF RecordStep
          <5> QED BY <2>1, <5>1 DEF TasksInv, IdsAreFresh, Alive
        <4> QED BY <4>1, <4>2
      <3> QED BY <3>1
    <2>7. life' # "down"
      BY <1>3 DEF Alive
    <2> QED BY <2>2, <2>3, <2>4, <2>5, <2>6, <2>7 DEF IdsAreFresh
  <1>8. ASSUME NEW k \in Jobs PROVE JobHolds(k)' /\ VisibleTo(k)'
    <2>1. CASE k = j
      <3>1. rec'[i] \notin Terminal
        BY <1>2, <1>5, StatusIsNoTask DEF RecordStep, Statuses, Terminal, Ended
      <3>2. jdigest'[j] = jdigest[j] /\ place'[j] \in {"started", "other"}
        BY <1>3, <1>6
      <3>3. JobHolds(j)'
        BY <1>3, <1>5, <1>6, <3>1, <3>2 DEF JobHolds
      <3>4. VisibleTo(j)'
        BY <3>2 DEF VisibleTo, Accepted
      <3> QED BY <2>1, <3>3, <3>4
    <2>2. CASE k # j
      <3>1. JobHolds(k) /\ VisibleTo(k) /\ jid[k] # i
            /\ (jid[k] = NoTask <=> place[k] \in {"idle", "missed"}) /\ jid[k] \in Ids \cup {NoTask}
        BY <1>5 DEF TasksInv, IdsAreFresh, TasksTyped
      <3>2. JobHolds(k)'
        BY <1>2, <1>3, <1>6, <2>2, <3>1, StatusIsNoTask DEF JobHolds, RecordStep, Statuses
      <3>3. VisibleTo(k)'
        BY <1>3, <1>6, <2>2, <3>1 DEF VisibleTo, Accepted, Finished
      <3> QED BY <3>2, <3>3
    <2> QED BY <2>1, <2>2
  <1>9. ASSUME NEW m \in Ids PROVE RecordedEnd(m)'
    BY <1>2, <1>3, <1>5 DEF RecordedEnd, Finished, RecordStep, TasksInv
  <1> QED BY <1>4, <1>7, <1>8, <1>9 DEF TasksInv

\* A job that has started a task has an id of its own.
LEMMA OwnTask ==
  ASSUME TasksInv, NEW j \in Jobs, place[j] \notin {"idle", "missed"}
  PROVE  /\ jid[j] \in Ids /\ jid[j] <= nextID /\ \A k \in Jobs \ {j} : jid[k] # jid[j]
  BY DEF TasksInv, IdsAreFresh, TasksTyped

\* It goes on to loc and keeps what it has: what is to be shown of it.
LEMMA JobGoesOn ==
  ASSUME TasksInv, NEW j \in Jobs, NEW loc \in TaskPCs \ {"idle", "missed"},
         place[j] \notin {"idle", "missed"},
         GotoTask(j, loc), UNCHANGED <<life, nextID, jid, jkey, jdigest>>,
         scanner' \in Jobs \cup {"elsewhere", NoTask},
         out' \in [Jobs -> Ended \cup {NoTask}], \A k \in Jobs \ {j} : out'[k] = out[k],
         rec' \in [Ids -> Statuses \cup {NoTask}], scans' \in [Ids -> ScanRow \cup {NoTask}],
         idem' \in [IdemKeys -> KeyRow \cup {NoTask}], lostAnswers \subseteq lostAnswers', lostAnswers' \subseteq Ids,
         \A m \in Ids \ {jid[j]} : rec'[m] \in {rec[m], NoTask},
         \A m \in Ids \ {jid[j]} : scans'[m] = scans[m] \/ (scans'[m] = NoTask /\ Finished(m))
  PROVE  TasksTyped' /\ Frame(j, jid[j]) /\ place'[j] = loc /\ jid'[j] = jid[j] /\ jdigest'[j] = jdigest[j]
  <1>1. jid[j] \in Ids /\ jid[j] <= nextID /\ \A k \in Jobs \ {j} : jid[k] # jid[j]
    BY OwnTask
  <1>2. place' \in [Jobs -> TaskPCs] /\ place'[j] = loc /\ \A k \in Jobs \ {j} : place'[k] = place[k]
    BY DEF GotoTask, TasksInv, TasksTyped
  <1>3. TasksTyped'
    BY <1>2 DEF TasksInv, TasksTyped
  <1>4. Frame(j, jid[j])
    BY <1>1, <1>2, StatusIsNoTask DEF Frame
  <1> QED BY <1>2, <1>3, <1>4

LEMMA LeastOf ==
  ASSUME NEW S \in SUBSET Nat, S # {}
  PROVE  \E x \in S : \A y \in S : x <= y
  <1>1. PICK x \in S : \A y \in S : <<y, x>> \notin OpToRel(<, Nat)
    BY NatLessThanWellFounded, WFMin, Zenon
  <1>2. \A y \in S : ~(y < x)
    BY <1>1, Zenon DEF OpToRel
  <1>3. ASSUME NEW y \in S PROVE x <= y
    <2>1. x \in Nat /\ y \in Nat
      OBVIOUS
    <2> QED BY <1>2, <2>1
  <1> QED BY <1>3

\* Who makes room has ended.
LEMMA VictimsHaveEnded ==
  ASSUME Room
  PROVE  \A m \in Victims : Finished(m)
  <1> DEFINE I == {n \in 1 .. Len(order) : Finished(order[n])}
  <1>1. FirstFinished = IF I # {} THEN Min(I) ELSE 0
    BY DEF FirstFinished, SelectInSeq
  <1>2. ASSUME I # {} PROVE Min(I) \in I
    <2>1. I \in SUBSET Nat
      OBVIOUS
    <2>2. \E x \in I : \A y \in I : x <= y
      BY <1>2, <2>1, LeastOf
    <2> HIDE DEF I
    <2> QED BY <2>2 DEF Min
  <1> QED BY <1>1, <1>2 DEF Room, Victims

LEMMA InsertKeeps ==
  ASSUME TasksInv, NEW j \in Jobs, place[j] = "started", Room, Insert(j, Victims),
         UNCHANGED <<life, nextID, listed, scanner, jid, jkey, jdigest, out>>
  PROVE  TasksInv'
  <1>0. PICK i \in Ids : i = jid[j]
    BY OwnTask
  <1> DEFINE kept == [k \in IdemKeys |-> IF Pruned(jkey[j])[k] # NoTask /\ Pruned(jkey[j])[k].id \in Victims
                                         THEN NoTask ELSE Pruned(jkey[j])[k]]
             left == [k \in Ids |-> IF k \in Victims THEN NoTask ELSE scans[k]]
             row  == [status |-> "queued", key |-> jkey[j], digest |-> jdigest[j]]
  <1>1. "queued" \in Statuses /\ jdigest[j] # NoTask /\ rec[i] \notin Terminal
    BY <1>0 DEF Statuses, TasksInv, JobHolds
  <1>2. row \in ScanRow /\ row # NoTask /\ row.status = "queued"
    BY <1>1, StatusIsNoTask DEF ScanRow, TasksInv, TasksTyped
  <1>3. kept \in [IdemKeys -> KeyRow \cup {NoTask}]
    BY PrunedTyped DEF TasksInv
  <1>4. left \in [Ids -> ScanRow \cup {NoTask}]
        /\ \A m \in Ids : left[m] = scans[m] \/ (left[m] = NoTask /\ Finished(m))
    BY VictimsHaveEnded DEF TasksInv, TasksTyped
  <1>5. out \in [Jobs -> Ended \cup {NoTask}] /\ scanner \in Jobs \cup {"elsewhere", NoTask} /\ TasksTyped
    BY DEF TasksInv, TasksTyped
  <1>6. CASE /\ Upsert(i, "queued") /\ scans' = [left EXCEPT ![i] = row]
             /\ idem' = IF jkey[j] = NoTask THEN kept ELSE [kept EXCEPT ![jkey[j]] = [id |-> i, age |-> 0]]
             /\ GotoTask(j, "queued")
    <2>1. RecordStep(i, "queued")
      BY <1>1, <1>5, <1>6, UpsertDoes
    <2>2. [id |-> i, age |-> 0] \in KeyRow
      BY <1>1, ScanTasksAssumption DEF KeyRow
    <2> HIDE DEF kept, left, row
    <2>3. idem' \in [IdemKeys -> KeyRow \cup {NoTask}]
      BY <1>3, <1>6, <2>2
    <2>4. /\ scans' \in [Ids -> ScanRow \cup {NoTask}] /\ scans'[i] = row
          /\ \A m \in Ids \ {i} : scans'[m] = scans[m] \/ (scans'[m] = NoTask /\ Finished(m))
      BY <1>1, <1>2, <1>4, <1>6
    <2>5. TasksTyped' /\ Frame(j, i) /\ place'[j] = "queued" /\ jid'[j] = i /\ jdigest'[j] = jdigest[j]
      <3>1. /\ UNCHANGED <<life, nextID, jid, jkey, jdigest>> /\ out' \in [Jobs -> Ended \cup {NoTask}]
            /\ scanner' \in Jobs \cup {"elsewhere", NoTask} /\ \A k \in Jobs \ {j} : out'[k] = out[k]
        BY <1>5
      <3>2. "queued" \in TaskPCs \ {"idle", "missed"} /\ place[j] \notin {"idle", "missed"}
        BY DEF TaskPCs
      <3>3. /\ rec' \in [Ids -> Statuses \cup {NoTask}] /\ lostAnswers \subseteq lostAnswers' /\ lostAnswers' \subseteq Ids
            /\ \A m \in Ids \ {i} : rec'[m] \in {rec[m], NoTask}
        BY <2>1 DEF RecordStep
      <3> QED BY <1>6, <2>3, <2>4, <3>1, <3>2, <3>3, <1>0, JobGoesOn
    <2>6. JobHolds(j)'
      BY <1>1, <2>1, <2>5, StatusIsNoTask DEF JobHolds, RecordStep, Terminal, Ended, Statuses
    <2>7. VisibleTo(j)' /\ RecordedEnd(i)'
      BY <1>2, <2>4, <2>5 DEF VisibleTo, RecordedEnd, Finished, Ended
    <2> QED BY <2>5, <2>6, <2>7, FrameKeeps
  <1>7. CASE UpsertFails(i, "queued") /\ scans' = left /\ idem' = kept /\ GotoTask(j, "refused")
    <2>1. RecordStep(i, "queued") /\ i \in lostAnswers'
      BY <1>1, <1>5, <1>7, UpsertDoes DEF UpsertFails
    <2> HIDE DEF kept, left, row
    <2>2. TasksTyped' /\ Frame(j, i) /\ place'[j] = "refused" /\ jid'[j] = i /\ jdigest'[j] = jdigest[j]
      <3>1. /\ UNCHANGED <<life, nextID, jid, jkey, jdigest>> /\ out' \in [Jobs -> Ended \cup {NoTask}]
            /\ scanner' \in Jobs \cup {"elsewhere", NoTask} /\ \A k \in Jobs \ {j} : out'[k] = out[k]
        BY <1>5
      <3>2. "refused" \in TaskPCs \ {"idle", "missed"} /\ place[j] \notin {"idle", "missed"}
        BY DEF TaskPCs
      <3>3. /\ rec' \in [Ids -> Statuses \cup {NoTask}] /\ lostAnswers \subseteq lostAnswers' /\ lostAnswers' \subseteq Ids
            /\ \A m \in Ids \ {i} : rec'[m] \in {rec[m], NoTask}
        BY <2>1 DEF RecordStep
      <3>4. idem' \in [IdemKeys -> KeyRow \cup {NoTask}] /\ scans' \in [Ids -> ScanRow \cup {NoTask}]
            /\ \A m \in Ids \ {i} : scans'[m] = scans[m] \/ (scans'[m] = NoTask /\ Finished(m))
        BY <1>3, <1>4, <1>7
      <3> QED BY <1>7, <3>1, <3>2, <3>3, <3>4, <1>0, JobGoesOn
    <2>3. JobHolds(j)' /\ VisibleTo(j)' /\ RecordedEnd(i)'
      BY <1>1, <2>1, <2>2 DEF JobHolds, VisibleTo, Accepted, RecordedEnd
    <2> QED BY <2>2, <2>3, FrameKeeps
  <1> QED BY <1>0, <1>6, <1>7 DEF Insert

LEMMA RegisterKeeps ==
  ASSUME TasksInv, NEW j \in Jobs, Register(j)
  PROVE  TasksInv'
  <1>0. PICK i \in Ids : i = jid[j] /\ place[j] = "started"
    BY OwnTask DEF Register, TaskAt
  <1>1. TasksTyped /\ UNCHANGED <<life, nextID, listed, scanner, jid, jkey, jdigest, out>>
    BY DEF Register, TasksInv
  <1>2. CASE Room /\ Insert(j, Victims)
    BY <1>0, <1>1, <1>2, InsertKeeps
  <1>3. CASE GotoTask(j, "refused") /\ UNCHANGED <<rec, scans, lostAnswers>> /\ idem' \in {idem, Pruned(jkey[j])}
    <2>1. idem' \in [IdemKeys -> KeyRow \cup {NoTask}]
      BY <1>1, <1>3, PrunedTyped DEF TasksTyped
    <2>2. "refused" \in TaskPCs \ {"idle", "missed"}
      BY DEF TaskPCs
    <2>3. TasksTyped' /\ Frame(j, i) /\ place'[j] = "refused" /\ jdigest'[j] = jdigest[j] /\ jid'[j] = i
      BY <1>0, <1>1, <1>3, <2>1, <2>2, JobGoesOn DEF TasksTyped
    <2>4. JobHolds(j)' /\ VisibleTo(j)'
      BY <1>0, <2>3 DEF JobHolds, VisibleTo, Accepted, TasksInv
    <2>5. RecordedEnd(i)'
      BY <1>3 DEF RecordedEnd, Finished, TasksInv
    <2> QED BY <2>3, <2>4, <2>5, FrameKeeps
  <1> QED BY <1>2, <1>3 DEF Register

LEMMA SetStatusDoes ==
  ASSUME TasksTyped, NEW i \in Ids, NEW s \in Statuses, SetStatus(i, s)
  PROVE  /\ scans' \in [Ids -> ScanRow \cup {NoTask}]
         /\ \A m \in Ids \ {i} : scans'[m] = scans[m]
         /\ scans'[i] # NoTask <=> scans[i] # NoTask
         /\ scans[i] # NoTask => scans'[i].status = s
  <1>1. CASE scans[i] = NoTask
    BY <1>1 DEF SetStatus, TasksTyped
  <1>2. CASE scans[i] # NoTask
    <2>1. PICK new : new = [scans[i] EXCEPT !.status = s]
      OBVIOUS
    <2>2. new \in ScanRow /\ new.status = s
      BY <1>2, <2>1 DEF TasksTyped, ScanRow
    <2>3. scans' = [scans EXCEPT ![i] = new]
      BY <1>2, <2>1 DEF SetStatus
    <2> QED BY <1>2, <2>2, <2>3, StatusIsNoTask DEF TasksTyped
  <1> QED BY <1>1, <1>2

LEMMA SetRunningKeeps ==
  ASSUME TasksInv, NEW j \in Jobs, SetRunning(j)
  PROVE  TasksInv'
  <1>0. PICK i \in Ids : i = jid[j] /\ place[j] = "queued"
    BY OwnTask DEF SetRunning, TaskAt
  <1>1. /\ TasksTyped /\ UNCHANGED <<life, nextID, idem, scanner, jid, jkey, jdigest, out>>
        /\ SetStatus(i, "running") /\ Update(i, "running") /\ GotoTask(j, "running")
        /\ "running" \in Statuses /\ "running" \in TaskPCs \ {"idle", "missed"}
    BY <1>0 DEF SetRunning, TasksInv, Statuses, TaskPCs
  <1>2. RecordStep(i, "running")
    BY <1>1, UpdateDoes
  <1>3. /\ scans' \in [Ids -> ScanRow \cup {NoTask}] /\ \A m \in Ids \ {i} : scans'[m] = scans[m]
        /\ scans'[i] # NoTask <=> scans[i] # NoTask
        /\ scans[i] # NoTask => scans'[i].status = "running"
    BY <1>1, SetStatusDoes
  <1>4. TasksTyped' /\ Frame(j, i) /\ place'[j] = "running" /\ jdigest'[j] = jdigest[j] /\ jid'[j] = i
    BY <1>0, <1>1, <1>2, <1>3, JobGoesOn DEF TasksTyped, RecordStep
  <1>5. jdigest[j] # NoTask /\ scans[i] # NoTask
    BY <1>0 DEF TasksInv, JobHolds, VisibleTo, Accepted
  <1>6. JobHolds(j)' /\ VisibleTo(j)' /\ RecordedEnd(i)'
    BY <1>3, <1>4, <1>5 DEF JobHolds, VisibleTo, RecordedEnd, Finished, Ended
  <1> QED BY <1>4, <1>6, FrameKeeps

LEMMA ScanningKeeps ==
  ASSUME TasksInv, NEW j \in Jobs, BeginScan(j) \/ EndScan(j)
  PROVE  TasksInv'
  <1>0. PICK i \in Ids : i = jid[j] /\ place[j] \in {"running", "scanning"}
    BY OwnTask DEF BeginScan, EndScan, TaskAt
  <1>1. PICK loc \in {"scanning", "ended"} :
          /\ GotoTask(j, loc) /\ scanner' \in Jobs \cup {"elsewhere", NoTask}
          /\ out' \in [Jobs -> Ended \cup {NoTask}] /\ (loc = "ended" => out'[j] # NoTask)
          /\ \A k \in Jobs \ {j} : out'[k] = out[k]
    BY StatusIsNoTask DEF BeginScan, EndScan, TasksInv, TasksTyped, Ended, Statuses, Terminal
  <1>2. /\ TasksTyped /\ UNCHANGED <<life, nextID, rec, scans, idem, jid, jkey, jdigest, lostAnswers>>
        /\ loc \in TaskPCs \ {"idle", "missed"}
    BY DEF BeginScan, EndScan, TasksInv, TaskPCs
  <1>3. TasksTyped' /\ Frame(j, i) /\ place'[j] = loc /\ jdigest'[j] = jdigest[j] /\ jid'[j] = i
    BY <1>0, <1>1, <1>2, JobGoesOn DEF TasksTyped
  <1>4. JobHolds(j) /\ VisibleTo(j) /\ RecordedEnd(i)
    BY DEF TasksInv
  <1>5. JobHolds(j)' /\ VisibleTo(j)' /\ RecordedEnd(i)'
    BY <1>0, <1>1, <1>2, <1>3, <1>4 DEF JobHolds, VisibleTo, Accepted, RecordedEnd, Finished
  <1> QED BY <1>3, <1>5, FrameKeeps

LEMMA FinishTaskKeeps ==
  ASSUME TasksInv, NEW j \in Jobs, FinishTask(j)
  PROVE  TasksInv'
  <1>0. PICK i \in Ids : i = jid[j] /\ place[j] = "ended"
    BY OwnTask DEF FinishTask, TaskAt
  <1>1. /\ TasksTyped /\ UNCHANGED <<life, nextID, scans, idem, scanner, jid, jkey, jdigest, out>>
        /\ FinishListed(i, out[j]) /\ GotoTask(j, "finishing") /\ out[j] \in Ended
        /\ "finishing" \in TaskPCs \ {"idle", "missed"}
    BY <1>0 DEF FinishTask, tables, TasksInv, TasksTyped, JobHolds, TaskPCs
  <1>2. /\ rec' \in [Ids -> Statuses \cup {NoTask}] /\ \A m \in Ids \ {i} : rec'[m] = rec[m]
        /\ rec'[i] \in {rec[i], out[j]} /\ (rec[i] = NoTask => rec'[i] = NoTask)
        /\ lostAnswers \subseteq lostAnswers' /\ lostAnswers' \subseteq Ids
    BY <1>1, FinishListedDoes
  <1>3. TasksTyped' /\ Frame(j, i) /\ place'[j] = "finishing" /\ jdigest'[j] = jdigest[j] /\ jid'[j] = i
    BY <1>0, <1>1, <1>2, JobGoesOn DEF TasksTyped
  <1>4. JobHolds(j) /\ VisibleTo(j) /\ RecordedEnd(i)
    BY DEF TasksInv
  <1>5. JobHolds(j)' /\ VisibleTo(j)' /\ RecordedEnd(i)'
    BY <1>0, <1>1, <1>2, <1>3, <1>4 DEF JobHolds, VisibleTo, Accepted, RecordedEnd, Finished, Terminal
  <1> QED BY <1>3, <1>5, FrameKeeps

\* A job that rests has nothing any more: what is to be shown is of its task.
LEMMA JobRests ==
  ASSUME TasksInv, NEW j \in Jobs, NEW i \in Ids, i = jid[j], place[j] \notin {"idle", "missed"},
         RestTask(j), UNCHANGED <<life, nextID, idem, scanner>>,
         rec' \in [Ids -> Statuses \cup {NoTask}], scans' \in [Ids -> ScanRow \cup {NoTask}],
         lostAnswers \subseteq lostAnswers', lostAnswers' \subseteq Ids,
         \A m \in Ids \ {i} : rec'[m] \in {rec[m], NoTask} /\ scans'[m] = scans[m],
         RecordedEnd(i)'
  PROVE  TasksInv'
  <1>1. i <= nextID /\ \A k \in Jobs \ {j} : jid[k] # i
    BY OwnTask
  <1>2. /\ place' = [place EXCEPT ![j] = "idle"] /\ jid' = [jid EXCEPT ![j] = NoTask]
        /\ jkey' = [jkey EXCEPT ![j] = NoTask] /\ jdigest' = [jdigest EXCEPT ![j] = NoTask]
        /\ out' = [out EXCEPT ![j] = NoTask]
    BY DEF RestTask, GotoTask
  <1>3. TasksTyped'
    BY <1>2 DEF TasksInv, TasksTyped, TaskPCs
  <1>4. place'[j] = "idle" /\ jid'[j] = NoTask
    BY <1>2 DEF TasksInv, TasksTyped
  <1>5. \A k \in Jobs \ {j} : /\ place'[k] = place[k] /\ jid'[k] = jid[k] /\ jdigest'[k] = jdigest[k]
                              /\ out'[k] = out[k]
    BY <1>2 DEF TasksInv, TasksTyped
  <1>6. Frame(j, i)
    BY <1>1, <1>4, <1>5 DEF Frame
  <1>7. JobHolds(j)' /\ VisibleTo(j)'
    BY <1>4 DEF JobHolds, VisibleTo, Accepted
  <1> QED BY <1>3, <1>6, <1>7, FrameKeeps

LEMMA ListedEndKeeps ==
  ASSUME TasksInv, NEW j \in Jobs, place[j] \notin {"idle", "missed"}, NEW s \in Ended,
         FinishListed(jid[j], s), RestTask(j), UNCHANGED <<life, nextID, tables>>
  PROVE  TasksInv'
  <1>0. PICK i \in Ids : i = jid[j]
    BY OwnTask
  <1>1. TasksTyped /\ UNCHANGED <<life, nextID, scans, idem, scanner>> /\ RecordedEnd(i)
    BY DEF TasksInv, tables
  <1>2. /\ rec' \in [Ids -> Statuses \cup {NoTask}] /\ \A m \in Ids \ {i} : rec'[m] = rec[m]
        /\ rec'[i] \in {rec[i], s} /\ (rec[i] = NoTask => rec'[i] = NoTask)
        /\ lostAnswers \subseteq lostAnswers' /\ lostAnswers' \subseteq Ids
    BY <1>0, <1>1, FinishListedDoes
  <1>3. RecordedEnd(i)'
    BY <1>1, <1>2 DEF RecordedEnd, Finished, Terminal
  <1>4. scans' \in [Ids -> ScanRow \cup {NoTask}]
    BY <1>1 DEF TasksTyped
  <1> QED BY <1>0, <1>1, <1>2, <1>3, <1>4, JobRests

LEMMA FinishScanKeeps ==
  ASSUME TasksInv, NEW j \in Jobs, FinishScan(j)
  PROVE  TasksInv'
  <1>0. PICK i \in Ids : i = jid[j] /\ place[j] = "finishing"
    BY OwnTask DEF FinishScan, TaskAt
  <1>1. PICK s \in Ended : s = out[j]
    BY <1>0 DEF TasksInv, TasksTyped, JobHolds
  <1>2. /\ TasksTyped /\ UNCHANGED <<life, nextID, idem, scanner>> /\ s \in Statuses
        /\ SetStatus(i, s) /\ Update(i, s) /\ RestTask(j)
    BY <1>0, <1>1 DEF FinishScan, TasksInv, Statuses, Terminal
  <1>3. RecordStep(i, s)
    BY <1>2, UpdateDoes
  <1>4. /\ scans' \in [Ids -> ScanRow \cup {NoTask}] /\ \A m \in Ids \ {i} : scans'[m] = scans[m]
    BY <1>2, SetStatusDoes
  <1>5. RecordedEnd(i)'
    BY <1>3 DEF RecordedEnd, RecordStep, Terminal
  <1> QED BY <1>0, <1>2, <1>3, <1>4, <1>5, JobRests DEF RecordStep

LEMMA JobStepKeeps ==
  ASSUME TasksInv, NEW j \in Jobs, WorkTask(j) \/ StartOther(j) \/ FinishOther(j)
  PROVE  TasksInv'
  <1>1. CASE StartScan(j)
    <2>1. Alive /\ place[j] = "missed" /\ StartTask(j, "started") /\ jdigest[j] # NoTask
      BY <1>1 DEF StartScan, TaskAt, TasksInv, JobHolds
    <2> QED BY <2>1, StartKeeps
  <1>2. CASE StartOther(j)
    <2>1. Alive /\ place[j] = "idle" /\ StartTask(j, "other")
      BY <1>2 DEF StartOther, TaskAt
    <2> QED BY <2>1, StartKeeps
  <1>3. CASE Refuse(j) \/ FinishOther(j)
    <2>1. PICK s \in Ended : FinishListed(jid[j], s)
      BY <1>3 DEF Refuse, FinishOther, Ended
    <2>2. place[j] \notin {"idle", "missed"} /\ RestTask(j) /\ UNCHANGED <<life, nextID, tables>>
      BY <1>3 DEF Refuse, FinishOther, TaskAt
    <2> QED BY <2>1, <2>2, ListedEndKeeps
  <1> QED BY <1>1, <1>2, <1>3, RegisterKeeps, SetRunningKeeps, ScanningKeeps, FinishTaskKeeps,
             FinishScanKeeps DEF WorkTask

-----------------------------------------------------------------------------
(* The steps of the process *)

LEMMA ProcessKeeps ==
  ASSUME TasksInv, ScanElsewhere \/ AgeKeys \/ Cancel \/ ExitProcess \/ StartProcess
  PROVE  TasksInv'
  <1>0. TasksTyped /\ IdsAreFresh
    BY DEF TasksInv
  <1>1. ASSUME UNCHANGED <<nextID, rec, scans, place, jid, jkey, jdigest, out, lostAnswers>>,
               life' \in {"up", "cancelled"}, life # "down",
               idem' \in [IdemKeys -> KeyRow \cup {NoTask}], scanner' \in Jobs \cup {"elsewhere", NoTask}
        PROVE  TasksInv'
    <2>1. TasksTyped'
      BY <1>0, <1>1 DEF TasksTyped
    <2>2. IdsAreFresh'
      BY <1>0, <1>1 DEF IdsAreFresh
    <2> QED BY <1>1, <2>1, <2>2 DEF TasksInv, JobHolds, VisibleTo, Accepted, Finished, RecordedEnd
  <1>2. CASE ScanElsewhere
    <2>1. /\ life' \in {"up", "cancelled"} /\ life # "down" /\ idem' \in [IdemKeys -> KeyRow \cup {NoTask}]
          /\ scanner' \in Jobs \cup {"elsewhere", NoTask}
      BY <1>0, <1>2 DEF ScanElsewhere, Alive, TasksTyped
    <2> QED BY <1>1, <1>2, <2>1 DEF ScanElsewhere, jobVars
  <1>3. CASE AgeKeys
    <2>1. idem' \in [IdemKeys -> KeyRow \cup {NoTask}]
      <3>1. ASSUME NEW k \in IdemKeys PROVE idem'[k] \in KeyRow \cup {NoTask}
        <4>1. CASE idem[k] # NoTask /\ idem[k].age <= TTL
          <5>1. PICK new : new = [idem[k] EXCEPT !.age = @ + 1]
            OBVIOUS
          <5>2. idem[k] \in KeyRow /\ idem[k].age + 1 \in 0..(TTL + 1)
            BY <1>0, <4>1, ScanTasksAssumption DEF TasksTyped, KeyRow
          <5>3. new \in KeyRow
            BY <5>1, <5>2 DEF KeyRow
          <5> QED BY <1>3, <4>1, <5>1, <5>3 DEF AgeKeys
        <4>2. CASE ~(idem[k] # NoTask /\ idem[k].age <= TTL)
          BY <1>0, <1>3, <4>2 DEF AgeKeys, TasksTyped
        <4> QED BY <4>1, <4>2
      <3> QED BY <1>3, <3>1 DEF AgeKeys
    <2>2. life' \in {"up", "cancelled"} /\ life # "down" /\ scanner' \in Jobs \cup {"elsewhere", NoTask}
      BY <1>0, <1>3 DEF AgeKeys, Alive, TasksTyped
    <2> QED BY <1>1, <1>3, <2>1, <2>2 DEF AgeKeys, jobVars
  <1>4. CASE Cancel
    BY <1>0, <1>1, <1>4 DEF Cancel, tables, jobVars, TasksTyped
  <1>5. CASE ExitProcess
    <2>1. /\ life' = "down" /\ nextID' = 0 /\ UNCHANGED <<rec, lostAnswers>> /\ scanner' = NoTask
          /\ scans' = [i \in Ids |-> NoTask] /\ idem' = [k \in IdemKeys |-> NoTask]
          /\ place' = [j \in Jobs |-> "idle"] /\ jid' = [j \in Jobs |-> NoTask]
          /\ jkey' = [j \in Jobs |-> NoTask] /\ jdigest' = [j \in Jobs |-> NoTask]
          /\ out' = [j \in Jobs |-> NoTask]
      BY <1>5 DEF ExitProcess, NothingIn
    <2>2. TasksTyped'
      BY <1>0, <2>1, ScanTasksAssumption DEF TasksTyped, TaskPCs
    <2>3. IdsAreFresh'
      BY <2>1 DEF IdsAreFresh
    <2> QED BY <2>1, <2>2, <2>3 DEF TasksInv, JobHolds, VisibleTo, Accepted, RecordedEnd
  <1>6. CASE StartProcess
    <2>1. /\ life = "down" /\ life' = "up" /\ nextID = 0 /\ nextID' = Max({0} \cup RecordedTask)
          /\ rec' = Interrupted
          /\ UNCHANGED <<scans, idem, scanner, place, jid, jkey, jdigest, out, lostAnswers>>
      BY <1>0, <1>6 DEF StartProcess, IdsAreFresh, tables, jobVars
    <2>2. /\ \A j \in Jobs : jid[j] = NoTask /\ place[j] \in {"idle", "missed"}
          /\ \A i \in Ids : scans[i] = NoTask
      <3>1. \A i \in Ids : ~(i <= nextID)
        BY <2>1 DEF Ids
      <3> QED BY <1>0, <3>1 DEF TasksTyped, IdsAreFresh
    <2>3. nextID' \in {0} \cup RecordedTask /\ \A i \in RecordedTask : i <= nextID'
      <3> DEFINE S == {0} \cup RecordedTask
                 D == {MaxID - s : s \in S}
      <3>1. S \subseteq 0 .. MaxID /\ MaxID \in Nat
        BY ScanTasksAssumption DEF RecordedTask, Ids
      <3>2. D \in SUBSET Nat /\ D # {}
        BY <3>1
      <3>3. PICK d \in D : \A e \in D : d <= e
        BY <3>2, LeastOf
      <3>4. PICK s \in S : d = MaxID - s
        OBVIOUS
      <3>5. ASSUME NEW t \in S PROVE s >= t
        <4>1. MaxID - t \in D
          OBVIOUS
        <4>2. d <= MaxID - t /\ t \in 0 .. MaxID /\ s \in 0 .. MaxID
          BY <3>1, <3>3, <4>1
        <4> QED BY <3>1, <3>4, <4>2
      <3>6. \E x \in S : \A y \in S : x >= y
        BY <3>5
      <3> HIDE DEF S
      <3>7. Max(S) \in S /\ \A y \in S : Max(S) >= y
        BY <3>6 DEF Max
      <3>8. nextID' \in S /\ \A y \in S : nextID' >= y
        BY <2>1, <3>7 DEF S
      <3>9. ASSUME NEW i \in RecordedTask PROVE i <= nextID'
        <4>1. i \in S /\ i \in 0 .. MaxID /\ nextID' \in 0 .. MaxID
          BY <3>1, <3>8 DEF S
        <4> QED BY <3>8, <4>1
      <3> QED BY <3>8, <3>9 DEF S
    <2>4. rec' \in [Ids -> Statuses \cup {NoTask}] /\ \A i \in Ids : rec'[i] = NoTask <=> rec[i] = NoTask
      BY <1>0, <2>1, StatusIsNoTask DEF Interrupted, TasksTyped, Statuses, Terminal
    <2>5. nextID' \in 0 .. MaxID
      BY <2>3, ScanTasksAssumption DEF RecordedTask, Ids
    <2>6. TasksTyped'
      BY <1>0, <2>1, <2>4, <2>5 DEF TasksTyped
    <2>7. IdsAreFresh'
      BY <2>1, <2>2, <2>3, <2>4 DEF IdsAreFresh, RecordedTask
    <2>8. ASSUME NEW j \in Jobs PROVE JobHolds(j)' /\ VisibleTo(j)'
      BY <2>1, <2>2 DEF JobHolds, VisibleTo, Accepted, TasksInv
    <2> QED BY <2>1, <2>2, <2>6, <2>7, <2>8 DEF TasksInv, RecordedEnd
  <1> QED BY <1>2, <1>3, <1>4, <1>5, <1>6

LEMMA TasksStepKeeps == TasksInv /\ [TasksNext]_taskVars => TasksInv'
  <1> SUFFICES ASSUME TasksInv, [TasksNext]_taskVars PROVE TasksInv'
    OBVIOUS
  <1>1. CASE UNCHANGED taskVars
    BY <1>1 DEF taskVars, tables, jobVars, TasksInv, TasksTyped, IdsAreFresh, JobHolds, VisibleTo,
                Accepted, Finished, RecordedEnd
  <1>2. CASE TasksNext
    BY <1>2, SubmitKeeps, JobStepKeeps, ProcessKeeps DEF TasksNext
  <1> QED BY <1>1, <1>2

\* The invariant of the tasks, of which the properties below are consequences.
THEOREM TasksInductive == TasksSpec => []TasksInv
  <1>1. TasksInit => TasksInv
    <2> SUFFICES ASSUME TasksInit PROVE TasksInv
      OBVIOUS
    <2>1. TasksTyped
      BY ScanTasksAssumption DEF TasksInit, TasksTyped, NothingIn, TaskPCs
    <2> QED BY <2>1 DEF TasksInit, TasksInv, IdsAreFresh, NothingIn, JobHolds, VisibleTo, Accepted, RecordedEnd
  <1> QED BY <1>1, TasksStepKeeps, PTL DEF TasksSpec

-----------------------------------------------------------------------------
(* What is promised of a task *)

\* Only a registration gives a key another task, and of a live key there is none.
LEMMA KeysStepKept ==
  ASSUME TasksInv, [TasksNext]_taskVars, NEW k \in IdemKeys, Live(k), life' # "down",
         idem'[k] # NoTask
  PROVE  idem'[k].id = idem[k].id
  <1>0. idem[k] \in KeyRow /\ idem[k] # NoTask /\ FreshKey(k) /\ idem \in [IdemKeys -> KeyRow \cup {NoTask}]
    BY DEF Live, FreshKey, TasksInv, TasksTyped
  <1>1. CASE UNCHANGED idem
    BY <1>1
  <1>2. \A key : Pruned(key)[k] \in {idem[k], NoTask}
    BY DEF Pruned
  <1>3. ASSUME NEW j \in Jobs, Register(j) PROVE idem'[k].id = idem[k].id
    <2> DEFINE pruned == Pruned(jkey[j])
               kept == [m \in IdemKeys |-> IF pruned[m] # NoTask /\ pruned[m].id \in Victims
                                           THEN NoTask ELSE pruned[m]]
    <2>1. CASE idem' \in {idem, pruned}
      BY <1>2, <2>1
    <2>2. CASE ~(jkey[j] # NoTask /\ Live(jkey[j])) /\ Insert(j, Victims)
      <3>1. idem' = kept \/ \E row : idem' = [kept EXCEPT ![jkey[j]] = row]
        BY <2>2 DEF Insert
      <3>2. jkey[j] # k
        BY <2>2, <1>0, ScanTasksAssumption
      <3>3. kept[k] \in {idem[k], NoTask}
        BY <1>2
      <3>4. kept \in [IdemKeys -> {kept[m] : m \in IdemKeys}]
        OBVIOUS
      <3> HIDE DEF kept
      <3>5. idem'[k] = kept[k]
        <4>1. CASE idem' = kept
          BY <4>1
        <4>2. ASSUME NEW row, idem' = [kept EXCEPT ![jkey[j]] = row] PROVE idem'[k] = kept[k]
          BY <3>2, <3>4, <4>2
        <4> QED BY <3>1, <4>1, <4>2
      <3> QED BY <3>3, <3>5
    <2> QED BY <1>3, <2>1, <2>2 DEF Register
  <1>4. ASSUME NEW j \in Jobs, NEW key \in IdemKeys \cup {NoTask}, NEW digest \in Digests, Submit(j, key, digest)
        PROVE  idem'[k].id = idem[k].id
    <2>1. idem' \in {idem, Pruned(key)}
      BY <1>4 DEF Submit
    <2> QED BY <1>2, <2>1
  <1>5. CASE AgeKeys
    <2>1. PICK new : new = [idem[k] EXCEPT !.age = @ + 1]
      OBVIOUS
    <2>2. new.id = idem[k].id
      BY <1>0, <2>1 DEF KeyRow
    <2>3. idem'[k] \in {new, idem[k]}
      BY <1>5, <2>1 DEF AgeKeys
    <2> QED BY <2>2, <2>3
  <1>6. ASSUME NEW j \in Jobs,
               StartScan(j) \/ Refuse(j) \/ SetRunning(j) \/ BeginScan(j) \/ EndScan(j) \/ FinishTask(j)
               \/ FinishScan(j) \/ StartOther(j) \/ FinishOther(j)
        PROVE  UNCHANGED idem
    BY <1>6 DEF StartScan, StartTask, Refuse, SetRunning, BeginScan, EndScan, FinishTask, FinishScan,
                StartOther, FinishOther, tables
  <1>7. CASE ScanElsewhere \/ Cancel \/ StartProcess \/ UNCHANGED taskVars
    BY <1>1, <1>7 DEF ScanElsewhere, Cancel, StartProcess, taskVars, tables
  <1>8. ~ExitProcess
    BY DEF ExitProcess
  <1> QED BY <1>1, <1>3, <1>4, <1>5, <1>6, <1>7, <1>8 DEF TasksNext, WorkTask

\* A job writes of its own task only, and of one that has ended only its end.
LEMMA EndsStepKept ==
  ASSUME TasksInv, [TasksNext]_taskVars, NEW i \in Ids, rec[i] \in Terminal
  PROVE  rec'[i] \in Terminal \cup {NoTask}
  <1>0. TasksTyped /\ rec[i] # NoTask
    BY StatusIsNoTask DEF TasksInv, Statuses
  <1>1. ASSUME NEW m \in Ids, NEW s \in Statuses, RecordStep(m, s), m = i => s \in Terminal
        PROVE  rec'[i] \in Terminal \cup {NoTask}
    BY <1>1 DEF RecordStep
  <1>2. ASSUME NEW j \in Jobs, NEW loc, StartTask(j, loc), Alive PROVE rec'[i] \in Terminal \cup {NoTask}
    <2>1. nextID + 1 \in Ids /\ nextID' = nextID + 1 /\ nextID \in Nat
      BY <1>0, <1>2, ScanTasksAssumption DEF StartTask, TasksTyped, Ids
    <2>2. PICK m \in Ids : m = nextID + 1
      BY <2>1
    <2>3. RecordStep(m, "running") /\ "running" \in Statuses
      BY <1>0, <1>2, <2>1, <2>2, UpsertDoes DEF StartTask, Statuses
    <2>4. m # i
      <3>1. i <= nextID
        BY <1>0, <1>2 DEF TasksInv, IdsAreFresh, Alive
      <3> QED BY <2>1, <2>2, <3>1 DEF Ids
    <2> QED BY <1>1, <2>3, <2>4
  <1>3. ASSUME NEW j \in Jobs, Register(j) PROVE rec'[i] \in Terminal \cup {NoTask}
    <2>1. PICK m \in Ids : m = jid[j] /\ place[j] = "started"
      BY <1>3, OwnTask DEF Register, TaskAt
    <2>2. m # i
      BY <2>1 DEF TasksInv, JobHolds
    <2>3. UNCHANGED rec \/ RecordStep(m, "queued")
      <3>1. UNCHANGED rec \/ Upsert(m, "queued") \/ UpsertFails(m, "queued")
        BY <1>3, <2>1 DEF Register, Insert
      <3> QED BY <1>0, <3>1, UpsertDoes DEF Statuses
    <2> QED BY <1>1, <2>2, <2>3 DEF Statuses
  <1>4. ASSUME NEW j \in Jobs, SetRunning(j) PROVE rec'[i] \in Terminal \cup {NoTask}
    <2>1. PICK m \in Ids : m = jid[j] /\ place[j] = "queued"
      BY <1>4, OwnTask DEF SetRunning, TaskAt
    <2>2. m # i
      BY <2>1 DEF TasksInv, JobHolds
    <2>3. RecordStep(m, "running") /\ "running" \in Statuses
      BY <1>0, <1>4, <2>1, UpdateDoes DEF SetRunning, Statuses
    <2> QED BY <1>1, <2>2, <2>3
  <1>5. ASSUME NEW j \in Jobs, NEW s \in Ended, FinishListed(jid[j], s), place[j] \notin {"idle", "missed"}
        PROVE  rec'[i] \in Terminal \cup {NoTask}
    <2>1. PICK m \in Ids : m = jid[j]
      BY <1>5, OwnTask
    <2>2. /\ \A k \in Ids \ {m} : rec'[k] = rec[k]
          /\ rec'[m] \in {rec[m], s}
      BY <1>0, <1>5, <2>1, FinishListedDoes
    <2> QED BY <2>2 DEF Terminal
  <1>6. ASSUME NEW j \in Jobs, FinishScan(j) PROVE rec'[i] \in Terminal \cup {NoTask}
    <2>1. PICK m \in Ids : m = jid[j] /\ place[j] = "finishing"
      BY <1>6, OwnTask DEF FinishScan, TaskAt
    <2>2. PICK s \in Ended : s = out[j]
      BY <1>0, <2>1 DEF TasksInv, TasksTyped, JobHolds
    <2>3. s \in Statuses /\ s \in Terminal
      BY DEF Statuses, Terminal
    <2>4. RecordStep(m, s)
      BY <1>0, <1>6, <2>1, <2>2, <2>3, UpdateDoes DEF FinishScan
    <2> QED BY <1>1, <2>3, <2>4
  <1>7. CASE StartProcess
    BY <1>0, <1>7 DEF StartProcess, Interrupted, Terminal, Ended
  <1>8. ASSUME NEW j \in Jobs,
               StartScan(j) \/ StartOther(j) \/ Refuse(j) \/ FinishOther(j) \/ FinishTask(j)
        PROVE  rec'[i] \in Terminal \cup {NoTask}
    <2>1. CASE StartScan(j) \/ StartOther(j)
      <3>1. \E loc : StartTask(j, loc) /\ Alive
        BY <2>1 DEF StartScan, StartOther, TaskAt
      <3> QED BY <1>2, <3>1
    <2>2. CASE Refuse(j) \/ FinishOther(j) \/ FinishTask(j)
      <3>1. place[j] \in {"refused", "other", "ended"}
        BY <2>2 DEF Refuse, FinishOther, FinishTask, TaskAt
      <3>2. place[j] = "ended" => out[j] \in Ended
        BY <1>0 DEF TasksInv, TasksTyped, JobHolds
      <3>3. PICK s \in Ended : FinishListed(jid[j], s)
        BY <2>2, <3>2 DEF Refuse, FinishOther, FinishTask, TaskAt, Ended
      <3> QED BY <1>5, <3>1, <3>3
    <2> QED BY <1>8, <2>1, <2>2
  <1>9. ASSUME NEW j \in Jobs, BeginScan(j) \/ EndScan(j) \/ \E key, digest : Submit(j, key, digest)
        PROVE  UNCHANGED rec
    BY <1>9 DEF BeginScan, EndScan, Submit
  <1>10. CASE ScanElsewhere \/ AgeKeys \/ Cancel \/ ExitProcess \/ UNCHANGED taskVars
    BY <1>10 DEF ScanElsewhere, AgeKeys, Cancel, ExitProcess, taskVars
  <1>11. CASE UNCHANGED rec
    BY <1>11
  <1> QED BY <1>3, <1>4, <1>6, <1>7, <1>8, <1>9, <1>10, <1>11 DEF TasksNext, WorkTask

\* A client who was told 202 finds his task until it has ended, what has ended
\* is recorded and never runs again, and a key stands for one task, however
\* many jobs, keys and ids there are and whenever the process ends.
THEOREM TasksKept == TasksSpec => TasksAreKept
  <1>1. TasksInv => AcceptedStaysVisible /\ FinishedIsRecorded
    BY DEF TasksInv, VisibleTo, RecordedEnd, AcceptedStaysVisible, FinishedIsRecorded, InTable
  <1>2. TasksInv /\ [TasksNext]_taskVars =>
          [\A k \in IdemKeys : Live(k) /\ life' # "down" /\ idem'[k] # NoTask /\ idem'[k].id # idem[k].id
             => scans'[idem[k].id] = NoTask]_taskVars
    BY KeysStepKept
  <1>3. TasksInv /\ [TasksNext]_taskVars =>
          [\A i \in Ids : rec[i] \in Terminal => rec'[i] \in Terminal \cup {NoTask}]_taskVars
    BY EndsStepKept
  <1> QED BY <1>1, <1>2, <1>3, TasksInductive, PTL DEF TasksSpec, TasksAreKept, OneTaskPerKey, TerminalStays

-----------------------------------------------------------------------------
(* The tables within their bounds *)

\* Records beyond what is retained are of writes that were lost; the order of
\* the table names each of its tasks once.
ListBounded    == listed \subseteq Ids /\ Cardinality(listed) <= ListCap
RecordsBounded == Cardinality(RecordedTask \ lostAnswers) <= Retention
OrderIsOfTable == /\ order \in Seq(Ids) /\ IsInjective(order) /\ ToSet(order) = InTable
                  /\ Len(order) <= Capacity

TasksBounded == ListBounded /\ RecordsBounded /\ OrderIsOfTable

LEMMA IdsAreFinite == \A S \in SUBSET Ids : IsFiniteSet(S) /\ Cardinality(S) \in Nat /\ S \in SUBSET Nat
  <1>1. IsFiniteSet(Ids)
    BY ScanTasksAssumption, FS_Interval DEF Ids
  <1>2. ASSUME NEW S \in SUBSET Ids PROVE IsFiniteSet(S) /\ Cardinality(S) \in Nat
    BY <1>1, FS_Subset, FS_CardinalityType
  <1>3. Ids \subseteq Nat
    BY DEF Ids
  <1> QED BY <1>2, <1>3

\* Of the newest n there are no more than n.
LEMMA NewestAreFew ==
  ASSUME NEW S \in SUBSET Ids, NEW n \in Nat \ {0}
  PROVE  NewestTasks(S, n) \subseteq S /\ Cardinality(NewestTasks(S, n)) <= n
  <1>0. PICK R : R = NewestTasks(S, n)
    OBVIOUS
  <1>1. R \in SUBSET S /\ R \in SUBSET Ids /\ IsFiniteSet(R) /\ Cardinality(R) \in Nat
    BY <1>0, IdsAreFinite DEF NewestTasks
  <1>2. CASE R = {}
    BY <1>0, <1>2, FS_EmptySet
  <1>3. CASE R # {}
    <2>1. PICK x \in R : \A y \in R : x <= y
      BY <1>1, <1>3, IdsAreFinite, LeastOf
    <2>2. PICK A, B : A = R \ {x} /\ B = {k \in S : k > x}
      OBVIOUS
    <2>3. A \subseteq B
      <3>1. ASSUME NEW z \in R, z # x PROVE z > x
        <4>1. x \in Nat /\ z \in Nat /\ x <= z
          BY <1>1, <2>1, IdsAreFinite
        <4> QED BY <3>1, <4>1
      <3> QED BY <1>1, <2>2, <3>1
    <2>4. Cardinality(B) < n
      BY <1>0, <2>1, <2>2 DEF NewestTasks
    <2>5. IsFiniteSet(B) /\ Cardinality(B) \in Nat
      BY <2>2, IdsAreFinite
    <2>6. Cardinality(A) \in Nat /\ Cardinality(A) <= Cardinality(B)
      BY <2>3, <2>5, FS_Subset, FS_CardinalityType
    <2>7. Cardinality(A) = Cardinality(R) - 1
      BY <1>1, <2>1, <2>2, FS_RemoveElement
    <2> QED BY <1>0, <1>1, <2>4, <2>5, <2>6, <2>7
  <1> QED BY <1>2, <1>3

\* A sequence without its n-th element, and with another one at its end.
LEMMA OneGoes ==
  ASSUME NEW s \in Seq(Ids), NEW n \in 1 .. Len(s), IsInjective(s)
  PROVE  /\ RemoveAt(s, n) \in Seq(Ids) /\ Len(RemoveAt(s, n)) = Len(s) - 1
         /\ IsInjective(RemoveAt(s, n)) /\ ToSet(RemoveAt(s, n)) = ToSet(s) \ {s[n]}
  <1>1. PICK q : q = RemoveAt(s, n)
    OBVIOUS
  <1>2. /\ q \in Seq(Ids) /\ Len(q) = Len(s) - 1
        /\ \A m \in 1 .. Len(s) - 1 : q[m] = IF m < n THEN s[m] ELSE s[m + 1]
    <2>1. PICK a, b : a = SubSeq(s, 1, n - 1) /\ b = SubSeq(s, n + 1, Len(s))
      OBVIOUS
    <2>2. Len(s) \in Nat /\ n \in Nat /\ 1 <= n /\ n <= Len(s)
      OBVIOUS
    <2>3. a \in Seq(Ids) /\ Len(a) = n - 1 /\ \A m \in 1 .. n - 1 : a[m] = s[m]
      BY <2>1, <2>2
    <2>4. b \in Seq(Ids) /\ Len(b) = Len(s) - n /\ \A m \in 1 .. Len(s) - n : b[m] = s[n + m]
      BY <2>1, <2>2
    <2>5. q = a \o b
      BY <1>1, <2>1 DEF RemoveAt
    <2>6. /\ q \in Seq(Ids) /\ Len(q) = Len(a) + Len(b)
          /\ \A m \in 1 .. Len(a) + Len(b) : q[m] = IF m <= Len(a) THEN a[m] ELSE b[m - Len(a)]
      BY <2>3, <2>4, <2>5, ConcatProperties
    <2>7. ASSUME NEW m \in 1 .. Len(s) - 1 PROVE q[m] = IF m < n THEN s[m] ELSE s[m + 1]
      <3>1. CASE m < n
        <4>1. m \in 1 .. n - 1 /\ m <= n - 1 /\ m \in 1 .. (n - 1) + (Len(s) - n)
          BY <2>2, <3>1
        <4>2. q[m] = a[m]
          BY <2>3, <2>4, <2>6, <4>1
        <4> QED BY <2>3, <3>1, <4>1, <4>2
      <3>2. CASE ~(m < n)
        <4>1. m - (n - 1) \in 1 .. Len(s) - n /\ n + (m - (n - 1)) = m + 1 /\ ~(m <= n - 1)
              /\ m \in 1 .. (n - 1) + (Len(s) - n)
          BY <2>2, <3>2
        <4>2. q[m] = b[m - (n - 1)]
          BY <2>3, <2>4, <2>6, <4>1
        <4> QED BY <2>4, <3>2, <4>1, <4>2
      <3> QED BY <3>1, <3>2
    <2> QED BY <2>2, <2>3, <2>4, <2>6, <2>7
  <1>3. DOMAIN q = 1 .. Len(s) - 1 /\ DOMAIN s = 1 .. Len(s) /\ Len(s) \in Nat
    BY <1>2
  <1>4. IsInjective(q)
    <2>1. ASSUME NEW a \in 1 .. Len(s) - 1, NEW b \in 1 .. Len(s) - 1, q[a] = q[b] PROVE a = b
      <3>1. PICK c \in 1 .. Len(s) : c = IF a < n THEN a ELSE a + 1
        BY <1>3
      <3>2. PICK d \in 1 .. Len(s) : d = IF b < n THEN b ELSE b + 1
        BY <1>3
      <3>3. s[c] = s[d]
        BY <1>2, <2>1, <3>1, <3>2
      <3>4. c = d
        BY <1>3, <3>3 DEF IsInjective
      <3> QED BY <1>3, <3>1, <3>2, <3>4
    <2> QED BY <1>3, <2>1 DEF IsInjective
  <1>5. ToSet(q) = ToSet(s) \ {s[n]}
    <2>1. ASSUME NEW m \in 1 .. Len(s) - 1 PROVE q[m] \in ToSet(s) \ {s[n]}
      <3>1. PICK c \in 1 .. Len(s) : c = (IF m < n THEN m ELSE m + 1) /\ c # n
        BY <1>3
      <3>2. q[m] = s[c]
        BY <1>2, <3>1
      <3>3. s[c] # s[n]
        BY <1>3, <3>1 DEF IsInjective
      <3> QED BY <1>3, <3>2, <3>3 DEF ToSet
    <2>2. ASSUME NEW c \in 1 .. Len(s), c # n PROVE \E m \in 1 .. Len(s) - 1 : q[m] = s[c]
      <3>1. CASE c < n
        <4>1. c \in 1 .. Len(s) - 1
          BY <1>3, <3>1
        <4> QED BY <1>2, <3>1, <4>1
      <3>2. CASE c > n
        <4>1. c - 1 \in 1 .. Len(s) - 1 /\ ~(c - 1 < n) /\ (c - 1) + 1 = c
          BY <1>3, <3>2
        <4> QED BY <1>2, <4>1
      <3> QED BY <1>3, <2>2, <3>1, <3>2
    <2>3. ToSet(q) = {q[m] : m \in 1 .. Len(s) - 1} /\ ToSet(s) = {s[c] : c \in 1 .. Len(s)}
      BY <1>3 DEF ToSet
    <2>4. ToSet(q) \subseteq ToSet(s) \ {s[n]}
      BY <2>1, <2>3
    <2>5. ToSet(s) \ {s[n]} \subseteq ToSet(q)
      BY <2>2, <2>3
    <2> QED BY <2>4, <2>5
  <1> QED BY <1>1, <1>2, <1>4, <1>5

LEMMA OneComes ==
  ASSUME NEW s \in Seq(Ids), NEW i \in Ids, IsInjective(s), i \notin ToSet(s)
  PROVE  /\ Append(s, i) \in Seq(Ids) /\ Len(Append(s, i)) = Len(s) + 1
         /\ IsInjective(Append(s, i)) /\ ToSet(Append(s, i)) = ToSet(s) \cup {i}
  <1>1. PICK q : q = Append(s, i)
    OBVIOUS
  <1>2. /\ q \in Seq(Ids) /\ Len(q) = Len(s) + 1 /\ q[Len(s) + 1] = i
        /\ \A m \in 1 .. Len(s) : q[m] = s[m]
    BY <1>1
  <1>3. DOMAIN q = 1 .. Len(s) + 1 /\ DOMAIN s = 1 .. Len(s) /\ Len(s) \in Nat
    BY <1>2
  <1>4. \A m \in 1 .. Len(s) + 1 : m \in 1 .. Len(s) \/ m = Len(s) + 1
    BY <1>3
  <1>5. \A m \in 1 .. Len(s) : s[m] # i
    BY <1>3 DEF ToSet
  <1>6. IsInjective(q)
    BY <1>2, <1>3, <1>4, <1>5 DEF IsInjective
  <1>7. ToSet(q) = ToSet(s) \cup {i}
    <2>1. \A m \in 1 .. Len(s) : m \in 1 .. Len(s) + 1
      BY <1>3
    <2>2. Len(s) + 1 \in 1 .. Len(s) + 1
      BY <1>3
    <2> QED BY <1>2, <1>3, <1>4, <2>1, <2>2 DEF ToSet
  <1> QED BY <1>1, <1>2, <1>6, <1>7

LEMMA NoMoreRecords ==
  ASSUME RecordsBounded, RecordedTask' \ lostAnswers' \subseteq RecordedTask \ lostAnswers
  PROVE  RecordsBounded'
  <1>1. RecordedTask \ lostAnswers \in SUBSET Ids
    BY DEF RecordedTask
  <1>2. Cardinality(RecordedTask' \ lostAnswers') <= Cardinality(RecordedTask \ lostAnswers)
        /\ Cardinality(RecordedTask' \ lostAnswers') \in Nat /\ Cardinality(RecordedTask \ lostAnswers) \in Nat
    BY <1>1, IdsAreFinite, FS_Subset
  <1> QED BY <1>2, ScanTasksAssumption DEF RecordsBounded

LEMMA UpsertBounded ==
  ASSUME TasksTyped, RecordsBounded, NEW i \in Ids, NEW s \in Statuses, Upsert(i, s) \/ UpsertFails(i, s)
  PROVE  RecordsBounded'
  <1>1. CASE Upsert(i, s)
    <2>1. PICK S, R : S = RecordedTask \cup {i} /\ R = NewestTasks(S, Retention)
      OBVIOUS
    <2>2. S \in SUBSET Ids /\ R \subseteq S /\ Cardinality(R) <= Retention
      <3>1. S \in SUBSET Ids
        BY <2>1 DEF RecordedTask
      <3> QED BY <2>1, <3>1, NewestAreFew, ScanTasksAssumption
    <2>3. RecordedTask' \ lostAnswers' \subseteq R
      <3>1. \A k \in Ids : k \notin R => rec'[k] = NoTask
        BY <1>1, <2>1 DEF Upsert, Upserted
      <3> QED BY <3>1 DEF RecordedTask
    <2>4. Cardinality(RecordedTask' \ lostAnswers') <= Cardinality(R)
          /\ Cardinality(RecordedTask' \ lostAnswers') \in Nat /\ Cardinality(R) \in Nat
      BY <2>2, <2>3, IdsAreFinite, FS_Subset
    <2> QED BY <2>2, <2>4, ScanTasksAssumption DEF RecordsBounded
  <1>2. CASE UpsertFails(i, s)
    <2>1. \A k \in Ids \ {i} : rec'[k] = rec[k]
      BY <1>2 DEF UpsertFails, TasksTyped
    <2>2. i \in lostAnswers' /\ lostAnswers \subseteq lostAnswers'
      BY <1>2 DEF UpsertFails
    <2>3. RecordedTask' \ lostAnswers' \subseteq RecordedTask \ lostAnswers
      BY <2>1, <2>2 DEF RecordedTask
    <2> QED BY <2>3, NoMoreRecords
  <1> QED BY <1>1, <1>2

LEMMA UpdateBounded ==
  ASSUME TasksTyped, RecordsBounded, NEW i \in Ids, NEW s \in Statuses, Update(i, s)
  PROVE  RecordsBounded'
  <1>1. \A k \in Ids : rec[k] = NoTask => rec'[k] = NoTask
    BY DEF Update, TasksTyped
  <1>2. lostAnswers \subseteq lostAnswers'
    BY DEF Update
  <1>3. RecordedTask' \ lostAnswers' \subseteq RecordedTask \ lostAnswers
    BY <1>1, <1>2 DEF RecordedTask
  <1> QED BY <1>3, NoMoreRecords

LEMMA FinishBounded ==
  ASSUME TasksTyped, RecordsBounded, NEW i \in Ids, NEW s \in Ended, FinishListed(i, s)
  PROVE  RecordsBounded'
  <1>1. CASE Update(i, s)
    BY <1>1, UpdateBounded DEF Statuses, Terminal
  <1>2. CASE UNCHANGED <<rec, lostAnswers>>
    BY <1>2 DEF RecordsBounded, RecordedTask
  <1> QED BY <1>1, <1>2 DEF FinishListed

\* Entries change and none comes or goes.
LEMMA TableStays ==
  ASSUME OrderIsOfTable, UNCHANGED order, \A m \in Ids : scans'[m] = NoTask <=> scans[m] = NoTask
  PROVE  OrderIsOfTable'
  BY DEF OrderIsOfTable, InTable

LEMMA InsertBounded ==
  ASSUME TasksInv, TasksBounded, NEW j \in Jobs, place[j] = "started", Room, Insert(j, Victims)
  PROVE  RecordsBounded' /\ OrderIsOfTable'
  <1>0. PICK i \in Ids : i = jid[j] /\ scans[i] = NoTask
    BY OwnTask DEF TasksInv, JobHolds
  <1>1. RecordsBounded'
    <2>1. Upsert(i, "queued") \/ UpsertFails(i, "queued")
      BY <1>0 DEF Insert
    <2> QED BY <2>1, UpsertBounded DEF TasksInv, TasksBounded, Statuses
  <1>2. /\ order \in Seq(Ids) /\ IsInjective(order) /\ ToSet(order) = InTable /\ Len(order) <= Capacity
        /\ Capacity \in Nat \ {0} /\ Len(order) \in Nat
    BY ScanTasksAssumption DEF TasksBounded, OrderIsOfTable
  <1>3. /\ Remaining \in Seq(Ids) /\ IsInjective(Remaining) /\ ToSet(Remaining) = InTable \ Victims
        /\ Len(Remaining) + 1 <= Capacity /\ Len(Remaining) \in Nat
    <2>1. CASE Len(order) < Capacity
      BY <1>2, <2>1 DEF Remaining, Victims
    <2>2. CASE ~(Len(order) < Capacity)
      <3>1. PICK n \in 1 .. Len(order) : n = FirstFinished
        <4> DEFINE I == {n \in 1 .. Len(order) : Finished(order[n])}
        <4>1. FirstFinished = IF I # {} THEN Min(I) ELSE 0
          BY DEF FirstFinished, SelectInSeq
        <4>2. I # {}
          BY <2>2, <4>1 DEF Room
        <4>3. \E x \in I : \A y \in I : x <= y
          <5>1. I \in SUBSET Nat
            OBVIOUS
          <5> HIDE DEF I
          <5> QED BY <4>2, <5>1, LeastOf
        <4> HIDE DEF I
        <4>4. Min(I) \in I
          BY <4>3 DEF Min
        <4> QED BY <4>1, <4>2, <4>4 DEF I
      <3>2. Remaining = RemoveAt(order, n) /\ Victims = {order[n]}
        BY <2>2, <3>1 DEF Remaining, Victims
      <3> QED BY <1>2, <3>2, OneGoes
    <2> QED BY <2>1, <2>2
  <1> DEFINE left == [k \in Ids |-> IF k \in Victims THEN NoTask ELSE scans[k]]
             row  == [status |-> "queued", key |-> jkey[j], digest |-> jdigest[j]]
  <1>4. /\ i \notin ToSet(Remaining) /\ row \in ScanRow /\ row # NoTask
        /\ {m \in Ids : left[m] # NoTask} = ToSet(Remaining)
    <2>1. row \in ScanRow
      BY DEF ScanRow, TasksInv, TasksTyped, JobHolds, Statuses
    <2> QED BY <1>0, <1>3, <2>1, StatusIsNoTask DEF InTable
  <1>5. CASE scans' = [left EXCEPT ![i] = row] /\ order' = Append(Remaining, i)
    <2>1. /\ order' \in Seq(Ids) /\ Len(order') = Len(Remaining) + 1
          /\ IsInjective(order') /\ ToSet(order') = ToSet(Remaining) \cup {i}
      BY <1>3, <1>4, <1>5, OneComes
    <2>2. InTable' = {m \in Ids : left[m] # NoTask} \cup {i}
      <3>1. \A m \in Ids : scans'[m] # NoTask <=> left[m] # NoTask \/ m = i
        BY <1>4, <1>5
      <3> QED BY <3>1 DEF InTable
    <2>3. OrderIsOfTable'
      BY <1>3, <1>4, <2>1, <2>2 DEF OrderIsOfTable
    <2> QED BY <1>1, <2>3
  <1>6. CASE scans' = left /\ order' = Remaining
    <2>1. InTable' = ToSet(Remaining)
      BY <1>4, <1>6 DEF InTable
    <2>2. OrderIsOfTable'
      BY <1>2, <1>3, <1>6, <2>1 DEF OrderIsOfTable
    <2> QED BY <1>1, <2>2
  <1> QED BY <1>0, <1>5, <1>6 DEF Insert

\* The steps after which the tables hold what they held.
LEMMA TablesStay ==
  ASSUME TasksBounded, UNCHANGED <<listed, rec, scans, order, lostAnswers>>
  PROVE  TasksBounded'
  BY DEF TasksBounded, ListBounded, RecordsBounded, OrderIsOfTable, RecordedTask, InTable

\* A new task comes on the list and gets a record.
LEMMA StartBounded ==
  ASSUME TasksInv, TasksBounded, NEW j \in Jobs, NEW loc, StartTask(j, loc)
  PROVE  TasksBounded'
  <1>1. PICK i \in Ids : /\ i = nextID' /\ listed' = NewestTasks(listed \cup {i}, ListCap)
                         /\ Upsert(i, "running") \/ UpsertFails(i, "running")
    <2>1. nextID' \in Ids
      BY ScanTasksAssumption DEF StartTask, TasksInv, TasksTyped, Ids
    <2> QED BY <2>1 DEF StartTask
  <1>2. ListBounded'
    <2>1. PICK S : S = listed \cup {i}
      OBVIOUS
    <2>2. S \in SUBSET Ids /\ ListCap \in Nat \ {0} /\ listed' = NewestTasks(S, ListCap)
      BY <1>1, <2>1, ScanTasksAssumption DEF TasksBounded, ListBounded
    <2>3. listed' \subseteq S /\ Cardinality(listed') <= ListCap
      BY <2>2, NewestAreFew
    <2> QED BY <2>2, <2>3 DEF ListBounded
  <1>3. RecordsBounded'
    BY <1>1, UpsertBounded DEF TasksInv, TasksBounded, Statuses
  <1>4. OrderIsOfTable'
    BY DEF StartTask, TasksBounded, OrderIsOfTable, InTable
  <1> QED BY <1>2, <1>3, <1>4 DEF TasksBounded

\* A job writes that its task runs or has ended.
LEMMA WriteBounded ==
  ASSUME TasksInv, TasksBounded, NEW i \in Ids, NEW s \in Statuses,
         UNCHANGED <<listed, order>>, Update(i, s), SetStatus(i, s)
  PROVE  TasksBounded'
  <1>1. TasksTyped
    BY DEF TasksInv
  <1>2. RecordsBounded'
    BY <1>1, UpdateBounded DEF TasksBounded
  <1>3. \A m \in Ids : scans'[m] = NoTask <=> scans[m] = NoTask
    BY <1>1, SetStatusDoes
  <1>4. OrderIsOfTable'
    BY <1>3, TableStays DEF TasksBounded
  <1> QED BY <1>2, <1>4 DEF TasksBounded, ListBounded

LEMMA ListedBounded ==
  ASSUME TasksInv, TasksBounded, NEW j \in Jobs, place[j] \notin {"idle", "missed"}, NEW s \in Ended,
         FinishListed(jid[j], s), UNCHANGED tables
  PROVE  TasksBounded'
  <1>1. PICK i \in Ids : i = jid[j]
    BY OwnTask
  <1>2. RecordsBounded'
    BY <1>1, FinishBounded DEF TasksInv, TasksBounded
  <1> QED BY <1>2 DEF tables, TasksBounded, ListBounded, OrderIsOfTable, InTable

LEMMA JobStepBounded ==
  ASSUME TasksInv, TasksBounded, NEW j \in Jobs, WorkTask(j) \/ StartOther(j) \/ FinishOther(j)
  PROVE  TasksBounded'
  <1>1. CASE StartScan(j) \/ StartOther(j)
    BY <1>1, StartBounded DEF StartScan, StartOther
  <1>2. CASE Register(j)
    <2>1. place[j] = "started" /\ UNCHANGED listed
      BY <1>2 DEF Register, TaskAt
    <2>2. CASE UNCHANGED <<rec, scans, order, lostAnswers>>
      BY <2>1, <2>2, TablesStay
    <2>3. CASE Room /\ Insert(j, Victims)
      BY <2>1, <2>3, InsertBounded DEF TasksBounded, ListBounded
    <2> QED BY <1>2, <2>2, <2>3 DEF Register
  <1>3. CASE Refuse(j) \/ FinishOther(j)
    <2>1. PICK s \in Ended : FinishListed(jid[j], s)
      BY <1>3 DEF Refuse, FinishOther, Ended
    <2> QED BY <1>3, <2>1, ListedBounded DEF Refuse, FinishOther, TaskAt
  <1>4. CASE SetRunning(j)
    <2>1. PICK i \in Ids : i = jid[j]
      BY <1>4, OwnTask DEF SetRunning, TaskAt
    <2> QED BY <1>4, <2>1, WriteBounded DEF SetRunning, Statuses
  <1>5. CASE BeginScan(j) \/ EndScan(j)
    BY <1>5, TablesStay DEF BeginScan, EndScan
  <1>6. CASE FinishTask(j)
    <2>1. place[j] = "ended" /\ out[j] \in Ended
      BY <1>6 DEF FinishTask, TaskAt, TasksInv, TasksTyped, JobHolds
    <2> QED BY <1>6, <2>1, ListedBounded DEF FinishTask
  <1>7. CASE FinishScan(j)
    <2>1. place[j] = "finishing" /\ out[j] \in Ended
      BY <1>7 DEF FinishScan, TaskAt, TasksInv, TasksTyped, JobHolds
    <2>2. PICK i \in Ids : i = jid[j]
      BY <2>1, OwnTask
    <2> QED BY <1>7, <2>1, <2>2, WriteBounded DEF FinishScan, Statuses, Terminal
  <1> QED BY <1>1, <1>2, <1>3, <1>4, <1>5, <1>6, <1>7 DEF WorkTask

LEMMA ProcessBounded ==
  ASSUME TasksInv, TasksBounded, ExitProcess \/ StartProcess
  PROVE  TasksBounded'
  <1>1. CASE ExitProcess
    <2>1. listed' = {} /\ order' = <<>> /\ scans' = [i \in Ids |-> NoTask] /\ UNCHANGED <<rec, lostAnswers>>
      BY <1>1 DEF ExitProcess, NothingIn
    <2>2. ListBounded'
      BY <2>1, FS_EmptySet, ScanTasksAssumption DEF ListBounded
    <2>3. OrderIsOfTable'
      BY <2>1, ScanTasksAssumption DEF OrderIsOfTable, InTable, IsInjective, ToSet
    <2> QED BY <2>1, <2>2, <2>3 DEF TasksBounded, RecordsBounded, RecordedTask
  <1>2. CASE StartProcess
    <2>1. \A i \in Ids : rec'[i] = NoTask <=> rec[i] = NoTask
      BY <1>2, StatusIsNoTask DEF StartProcess, Interrupted, TasksInv, TasksTyped, Statuses, Terminal
    <2>2. RecordsBounded'
      BY <1>2, <2>1 DEF StartProcess, TasksBounded, RecordsBounded, RecordedTask
    <2> QED BY <1>2, <2>2 DEF StartProcess, tables, TasksBounded, ListBounded, OrderIsOfTable, InTable
  <1> QED BY <1>1, <1>2

LEMMA BoundedStep == TasksInv /\ TasksBounded /\ [TasksNext]_taskVars => TasksBounded'
  <1> SUFFICES ASSUME TasksInv, TasksBounded, [TasksNext]_taskVars PROVE TasksBounded'
    OBVIOUS
  <1>1. CASE UNCHANGED taskVars
    BY <1>1, TablesStay DEF taskVars, tables
  <1>2. ASSUME NEW j \in Jobs, NEW key \in IdemKeys \cup {NoTask}, NEW digest \in Digests, Submit(j, key, digest)
        PROVE  TasksBounded'
    BY <1>2, TablesStay DEF Submit
  <1>3. CASE ScanElsewhere \/ AgeKeys \/ Cancel
    BY <1>3, TablesStay DEF ScanElsewhere, AgeKeys, Cancel, tables
  <1> QED BY <1>1, <1>2, <1>3, JobStepBounded, ProcessBounded DEF TasksNext

\* The list, the table with its order, and the records keep to their bounds:
\* a record beyond them is one whose pruning the database refused.
THEOREM TasksTypeCorrect == TasksSpec => []TasksTypeOK
  <1>1. TasksInit => TasksBounded
    <2> SUFFICES ASSUME TasksInit PROVE TasksBounded
      OBVIOUS
    <2>1. /\ listed = {} /\ order = <<>> /\ scans = [i \in Ids |-> NoTask] /\ rec = [i \in Ids |-> NoTask]
      BY DEF TasksInit, NothingIn
    <2>2. ListBounded
      BY <2>1, FS_EmptySet, ScanTasksAssumption DEF ListBounded
    <2>3. OrderIsOfTable
      BY <2>1, ScanTasksAssumption DEF OrderIsOfTable, InTable, IsInjective, ToSet
    <2>4. RecordsBounded
      <3>1. RecordedTask \ lostAnswers = {}
        BY <2>1 DEF RecordedTask
      <3>2. Cardinality({}) = 0
        BY FS_EmptySet
      <3> QED BY <3>1, <3>2, ScanTasksAssumption DEF RecordsBounded
    <2> QED BY <2>2, <2>3, <2>4 DEF TasksBounded
  <1>2. TasksInv /\ TasksBounded => TasksTypeOK
    <2> SUFFICES ASSUME TasksInv, TasksBounded PROVE TasksTypeOK
      OBVIOUS
    <2>1. PICK kept, lost : kept = RecordedTask \ lostAnswers /\ lost = RecordedTask \cap lostAnswers
      OBVIOUS
    <2>2. /\ kept \in SUBSET Ids /\ lost \in SUBSET Ids /\ lostAnswers \in SUBSET Ids
          /\ kept \cap lost = {} /\ kept \cup lost = RecordedTask /\ lost \subseteq lostAnswers
      BY <2>1 DEF RecordedTask, TasksInv, TasksTyped
    <2>3. /\ IsFiniteSet(kept) /\ IsFiniteSet(lost) /\ IsFiniteSet(lostAnswers) /\ IsFiniteSet(RecordedTask)
          /\ Cardinality(kept) \in Nat /\ Cardinality(lost) \in Nat /\ Cardinality(lostAnswers) \in Nat
      BY <2>2, IdsAreFinite
    <2>4. Cardinality(RecordedTask) = Cardinality(kept) + Cardinality(lost)
      <3>1. Cardinality(kept \cup lost) = Cardinality(kept) + Cardinality(lost) - Cardinality(kept \cap lost)
        BY <2>3, FS_Union, Zenon
      <3>2. Cardinality(kept \cap lost) = 0
        BY <2>2, FS_EmptySet
      <3>3. Cardinality(kept \cup lost) = Cardinality(RecordedTask)
        BY <2>2
      <3> QED BY <2>3, <3>1, <3>2, <3>3
    <2>5. Cardinality(lost) <= Cardinality(lostAnswers)
      BY <2>2, <2>3, FS_Subset
    <2>6. Cardinality(kept) <= Retention /\ Retention \in Nat
      BY <2>1, ScanTasksAssumption DEF TasksBounded, RecordsBounded
    <2>7. Cardinality(RecordedTask) <= Retention + Cardinality(lostAnswers)
      BY <2>3, <2>4, <2>5, <2>6
    <2> QED BY <2>7 DEF TasksTypeOK, TasksInv, TasksTyped, TasksBounded, ListBounded, OrderIsOfTable
  <1> QED BY <1>1, <1>2, BoundedStep, TasksInductive, PTL DEF TasksSpec

-----------------------------------------------------------------------------
(****************************************************************************)
(* Every play is counted once, for any number of sessions, movies and       *)
(* reports.  A report changes one session, and that of its own movie, so    *)
(* that the open sessions of a movie change by one with its two counters.   *)
(****************************************************************************)

PlayRow == [title : Titles, stopped : BOOLEAN, seq : 1..MaxEvents]
PlayReport == [at : {"resolved"}, play : Plays, title : Titles, kind : Kinds]

PlaybackTyped ==
  /\ titles \subseteq Titles /\ lastEvent \in 0..MaxEvents
  /\ session \in [Plays -> PlayRow \cup {NoSession}]
  /\ \A p \in Plays : HasSession(p) => session[p].seq <= lastEvent
  /\ counts \in [Titles -> Nat] /\ opened \in [Titles -> Nat]
  /\ report \in [Reports -> PlayReport \cup {NoReport}]

OpenOf(t) == Of(t) \ Stopped

PlaybackInv == PlaybackTyped /\ PlaysCounted
-----------------------------------------------------------------------------
LEMMA OpenAreFinite == \A t : IsFiniteSet(OpenOf(t)) /\ Cardinality(OpenOf(t)) \in Nat
  <1>1. \A t : OpenOf(t) \in SUBSET Plays
    BY DEF OpenOf, Of
  <1> QED BY <1>1, PlaybackAssumption, FS_Subset, FS_CardinalityType

LEMMA RowIsNot == NoSession \notin PlayRow
  BY PlaybackAssumption DEF PlayRow

\* One session is written, that of its own movie or a new one.
LEMMA OneSessionWritten ==
  ASSUME PlaybackTyped, NEW p \in Plays, NEW t \in Titles, NEW row \in PlayRow,
         HasSession(p) => session[p].title = t, row.title = t,
         session' = [session EXCEPT ![p] = row]
  PROVE  /\ \A s \in Titles \ {t} : OpenOf(s)' = OpenOf(s)
         /\ OpenOf(t)' = IF row.stopped THEN OpenOf(t) \ {p} ELSE OpenOf(t) \cup {p}
         /\ session' \in [Plays -> PlayRow \cup {NoSession}]
  <1>1. /\ session' \in [Plays -> PlayRow \cup {NoSession}] /\ session'[p] = row
        /\ \A q \in Plays \ {p} : session'[q] = session[q]
    BY DEF PlaybackTyped
  <1>2. \A q \in Plays : \A s : q \in OpenOf(s) <=> HasSession(q) /\ session[q].title = s /\ ~session[q].stopped
    BY DEF OpenOf, Of, Stopped
  <1>3. \A q \in Plays : \A s :
          q \in OpenOf(s)' <=> session'[q] # NoSession /\ session'[q].title = s /\ ~session'[q].stopped
    BY DEF OpenOf, Of, Stopped, HasSession
  <1>4. \A s : OpenOf(s) \subseteq Plays /\ OpenOf(s)' \subseteq Plays
    BY DEF OpenOf, Of
  <1>5. \A q \in Plays \ {p} : \A s : q \in OpenOf(s)' <=> q \in OpenOf(s)
    BY <1>1, <1>2, <1>3 DEF HasSession
  <1>6. \A s : p \in OpenOf(s)' <=> s = t /\ ~row.stopped
    BY <1>1, <1>3, RowIsNot
  <1>7. \A s \in Titles \ {t} : p \notin OpenOf(s)
    BY <1>2
  <1>8. ASSUME NEW s \in Titles \ {t} PROVE OpenOf(s)' = OpenOf(s)
    BY <1>4, <1>5, <1>6, <1>7
  <1>9. OpenOf(t)' = IF row.stopped THEN OpenOf(t) \ {p} ELSE OpenOf(t) \cup {p}
    BY <1>4, <1>5, <1>6
  <1> QED BY <1>1, <1>8, <1>9

-----------------------------------------------------------------------------
\* The row that an accepted report writes.
RowOf(p, t, kind) ==
  [title |-> t, stopped |-> StoppedAfter(p, kind), seq |-> EventSeq(p) + 1]

LEMMA ReportsWriteRows ==
  ASSUME PlaybackTyped, NEW p \in Plays, NEW t \in Titles, NEW kind \in Kinds,
         lastEvent < MaxEvents
  PROVE  /\ RowOf(p, t, kind) \in PlayRow /\ RowOf(p, t, kind).title = t
         /\ RowOf(p, t, kind).stopped = StoppedAfter(p, kind)
         /\ RowOf(p, t, kind).seq <= lastEvent + 1
  <1>1. StoppedAfter(p, kind) \in BOOLEAN
    BY DEF StoppedAfter
  <1>2. EventSeq(p) \in Nat /\ EventSeq(p) <= lastEvent /\ MaxEvents \in Nat /\ lastEvent \in Nat
    <2>1. HasSession(p) => session[p] \in PlayRow
      BY DEF PlaybackTyped, HasSession
    <2>2. HasSession(p) => session[p].seq \in Nat
      BY <2>1 DEF PlayRow
    <2> QED BY <2>2, PlaybackAssumption DEF PlaybackTyped, EventSeq
  <1> QED BY <1>1, <1>2 DEF RowOf, PlayRow

\* What an accepted report does to the open sessions of its movie, and to the
\* two counters of it.
LEMMA CountersFollow ==
  ASSUME PlaybackInv, NEW p \in Plays, NEW t \in Titles, NEW kind \in Kinds,
         Accepts(p, kind), HasSession(p) => p \in Of(t),
         NEW now,
         now = IF StoppedAfter(p, kind) THEN OpenOf(t) \ {p} ELSE OpenOf(t) \cup {p},
         NEW c, c = IF kind = "stopped" THEN counts[t] + 1 ELSE counts[t],
         NEW o,
         o = IF ~HasSession(p) \/ (p \in Stopped /\ kind = "start")
             THEN opened[t] + 1 ELSE opened[t]
  PROVE  c + Cardinality(now) = o /\ c \in Nat /\ o \in Nat
  <1> DEFINE n == Cardinality(OpenOf(t))
  <1>1. /\ IsFiniteSet(OpenOf(t)) /\ n \in Nat /\ counts[t] \in Nat /\ opened[t] \in Nat
        /\ counts[t] + n = opened[t]
    BY OpenAreFinite DEF PlaybackInv, PlaysCounted, PlaybackTyped, OpenOf
  <1>2. p \in OpenOf(t) <=> HasSession(p) /\ p \notin Stopped
    BY DEF OpenOf, Of, Stopped
  <1>3. p \in Stopped => HasSession(p)
    BY DEF Stopped
  <1>4. /\ p \notin OpenOf(t) => Cardinality(OpenOf(t) \cup {p}) = n + 1
        /\ p \in OpenOf(t) => Cardinality(OpenOf(t) \ {p}) = n - 1
    BY <1>1, FS_AddElement, FS_RemoveElement
  <1>5. /\ p \in OpenOf(t) => OpenOf(t) \cup {p} = OpenOf(t)
        /\ p \notin OpenOf(t) => OpenOf(t) \ {p} = OpenOf(t)
    OBVIOUS
  <1>6. CASE kind = "start"
    <2>1. now = OpenOf(t) \cup {p} /\ c = counts[t]
      BY <1>6 DEF StoppedAfter
    <2>2. o = IF p \in OpenOf(t) THEN opened[t] ELSE opened[t] + 1
      BY <1>2, <1>3, <1>6
    <2>3. Cardinality(now) = IF p \in OpenOf(t) THEN n ELSE n + 1
      BY <2>1, <1>4, <1>5
    <2> QED BY <2>1, <2>2, <2>3, <1>1
  <1>7. CASE kind = "progress"
    <2>1. p \notin Stopped
      BY <1>7 DEF Accepts
    <2>2. now = OpenOf(t) \cup {p} /\ c = counts[t]
      BY <2>1, <1>7 DEF StoppedAfter
    <2>3. o = IF p \in OpenOf(t) THEN opened[t] ELSE opened[t] + 1
      BY <2>1, <1>2
    <2>4. Cardinality(now) = IF p \in OpenOf(t) THEN n ELSE n + 1
      BY <2>2, <1>4, <1>5
    <2> QED BY <2>2, <2>3, <2>4, <1>1
  <1>8. CASE kind = "stopped"
    <2>1. p \notin Stopped
      BY <1>8 DEF Accepts
    <2>2. now = OpenOf(t) \ {p} /\ c = counts[t] + 1
      BY <1>8 DEF StoppedAfter
    <2>3. o = IF p \in OpenOf(t) THEN opened[t] ELSE opened[t] + 1
      BY <2>1, <1>2
    <2>4. Cardinality(now) = IF p \in OpenOf(t) THEN n - 1 ELSE n
      BY <2>2, <1>4, <1>5
    <2> QED BY <2>2, <2>3, <2>4, <1>1
  <1> QED BY <1>6, <1>7, <1>8 DEF Kinds
-----------------------------------------------------------------------------
LEMMA PlaybackInitOK == PlaybackInit => PlaybackInv
  <1> SUFFICES ASSUME PlaybackInit PROVE PlaybackInv
    OBVIOUS
  <1>1. PlaybackTyped
    BY PlaybackAssumption DEF PlaybackInit, PlaybackTyped, HasSession
  <1>2. ASSUME NEW t \in Titles PROVE counts[t] + Cardinality(Of(t) \ Stopped) = opened[t]
    <2>1. Of(t) \ Stopped = {}
      BY DEF PlaybackInit, Of, HasSession
    <2> QED BY <2>1, FS_EmptySet DEF PlaybackInit
  <1> QED BY <1>1, <1>2 DEF PlaybackInv, PlaysCounted

LEMMA RecordCounts ==
  ASSUME PlaybackInv, NEW r \in Reports, Record(r)
  PROVE  PlaybackInv'
  <1>1. report[r] # NoReport /\ report[r] \in PlayReport
    BY DEF PlaybackInv, PlaybackTyped, Record, NoReport, PlayReport
  <1>2. PICK p \in Plays, t \in Titles, kind \in Kinds :
          report[r].play = p /\ report[r].title = t /\ report[r].kind = kind
    BY <1>1 DEF PlayReport
  <1>3. /\ Accepts(p, kind) /\ (HasSession(p) => p \in Of(t))
        /\ lastEvent < MaxEvents /\ lastEvent' = lastEvent + 1
        /\ session' = [session EXCEPT ![p] = RowOf(p, t, kind)]
        /\ titles' = titles /\ report' = [report EXCEPT ![r] = NoReport]
    BY <1>2 DEF Record, RowOf
  <1>4. counts' = [counts EXCEPT ![t] = IF kind = "stopped" THEN @ + 1 ELSE @]
    BY <1>2 DEF Record
  <1>5. opened' = [opened EXCEPT ![t] =
          IF ~HasSession(p) \/ (p \in Stopped /\ kind = "start") THEN @ + 1 ELSE @]
    BY <1>2 DEF Record
  <1>6. /\ RowOf(p, t, kind) \in PlayRow /\ RowOf(p, t, kind).title = t
        /\ RowOf(p, t, kind).stopped = StoppedAfter(p, kind)
        /\ RowOf(p, t, kind).seq <= lastEvent + 1
    BY <1>3, ReportsWriteRows DEF PlaybackInv
  <1>7. /\ \A s \in Titles \ {t} : OpenOf(s)' = OpenOf(s)
        /\ OpenOf(t)' = IF StoppedAfter(p, kind) THEN OpenOf(t) \ {p} ELSE OpenOf(t) \cup {p}
        /\ session' \in [Plays -> PlayRow \cup {NoSession}]
    <2>1. HasSession(p) => session[p].title = t
      BY <1>3 DEF Of
    <2> QED BY <2>1, <1>3, <1>6, OneSessionWritten DEF PlaybackInv
  <1>8. /\ counts \in [Titles -> Nat] /\ opened \in [Titles -> Nat]
        /\ session \in [Plays -> PlayRow \cup {NoSession}]
    BY DEF PlaybackInv, PlaybackTyped
  <1>9. /\ counts'[t] + Cardinality(OpenOf(t)') = opened'[t]
        /\ counts'[t] \in Nat /\ opened'[t] \in Nat
    <2>1. /\ counts'[t] = IF kind = "stopped" THEN counts[t] + 1 ELSE counts[t]
          /\ opened'[t] = IF ~HasSession(p) \/ (p \in Stopped /\ kind = "start")
                          THEN opened[t] + 1 ELSE opened[t]
      BY <1>4, <1>5, <1>8
    <2>2. PICK now, c, o : now = OpenOf(t)' /\ c = counts'[t] /\ o = opened'[t]
      OBVIOUS
    <2>3. /\ now = IF StoppedAfter(p, kind) THEN OpenOf(t) \ {p} ELSE OpenOf(t) \cup {p}
          /\ c = IF kind = "stopped" THEN counts[t] + 1 ELSE counts[t]
          /\ o = IF ~HasSession(p) \/ (p \in Stopped /\ kind = "start")
                 THEN opened[t] + 1 ELSE opened[t]
      BY <1>7, <2>1, <2>2
    <2>4. c + Cardinality(now) = o /\ c \in Nat /\ o \in Nat
      BY <1>3, <2>3, CountersFollow
    <2> QED BY <2>2, <2>4
  <1>10. \A s \in Titles \ {t} : counts'[s] = counts[s] /\ opened'[s] = opened[s]
    BY <1>4, <1>5, <1>8
  <1>11. counts' \in [Titles -> Nat] /\ opened' \in [Titles -> Nat]
    BY <1>4, <1>5, <1>8, <1>9
  <1>12. PlaysCounted'
    <2>1. ASSUME NEW s \in Titles PROVE counts'[s] + Cardinality(OpenOf(s)') = opened'[s]
      BY <1>7, <1>9, <1>10 DEF PlaybackInv, PlaysCounted, OpenOf
    <2> QED BY <2>1 DEF PlaysCounted, OpenOf
  <1>13. \A q \in Plays : HasSession(q)' => session'[q].seq <= lastEvent'
    <2>1. ASSUME NEW q \in Plays, session'[q] # NoSession PROVE session'[q].seq <= lastEvent'
      <3>1. CASE q = p
        BY <3>1, <1>3, <1>6, <1>8
      <3>2. CASE q # p
        <4>1. session'[q] = session[q] /\ session[q] \in PlayRow
          BY <3>2, <2>1, <1>3, <1>8
        <4>2. session[q].seq \in Nat /\ session[q].seq <= lastEvent /\ lastEvent \in Nat
          BY <4>1, <2>1, PlaybackAssumption DEF PlaybackInv, PlaybackTyped, HasSession, PlayRow
        <4> QED BY <4>1, <4>2, <1>3
      <3> QED BY <3>1, <3>2
    <2> QED BY <2>1 DEF HasSession
  <1>14. PlaybackTyped'
    <2>1. titles' \subseteq Titles /\ lastEvent' \in 0..MaxEvents
      BY <1>3, PlaybackAssumption DEF PlaybackInv, PlaybackTyped
    <2>2. report' \in [Reports -> PlayReport \cup {NoReport}]
      BY <1>3 DEF PlaybackInv, PlaybackTyped
    <2> QED BY <2>1, <2>2, <1>7, <1>11, <1>13 DEF PlaybackTyped
  <1> QED BY <1>12, <1>14 DEF PlaybackInv

LEMMA ResolveCounts ==
  ASSUME PlaybackInv, NEW r \in Reports, Resolve(r) \/ Ignore(r)
  PROVE  PlaybackInv'
  <1>1. UNCHANGED <<titles, session, counts, lastEvent, opened>>
    BY DEF Resolve, Ignore
  <1>2. report' \in [Reports -> PlayReport \cup {NoReport}]
    <2>1. CASE Resolve(r)
      <3>1. PICK p \in Plays, t \in titles, kind \in Kinds :
              report' = [report EXCEPT ![r] =
                [at |-> "resolved", play |-> p, title |-> t, kind |-> kind]]
        BY <2>1 DEF Resolve
      <3>2. [at |-> "resolved", play |-> p, title |-> t, kind |-> kind] \in PlayReport
        BY DEF PlaybackInv, PlaybackTyped, PlayReport
      <3> QED BY <3>1, <3>2 DEF PlaybackInv, PlaybackTyped
    <2>2. CASE Ignore(r)
      BY <2>2 DEF Ignore, PlaybackInv, PlaybackTyped
    <2> QED BY <2>1, <2>2
  <1> QED BY <1>1, <1>2
       DEF PlaybackInv, PlaybackTyped, PlaysCounted, Of, Stopped, HasSession

LEMMA TitlesComeAndGo ==
  ASSUME PlaybackInv, NEW t \in Titles, DeleteTitle(t) \/ AddTitle(t)
  PROVE  PlaybackInv'
  <1>1. CASE AddTitle(t)
    <2>1. titles' \subseteq Titles
      BY <1>1 DEF AddTitle, PlaybackInv, PlaybackTyped
    <2> QED BY <1>1, <2>1
         DEF AddTitle, PlaybackInv, PlaybackTyped, PlaysCounted, Of, Stopped, HasSession
  <1>2. CASE DeleteTitle(t)
    <2>1. /\ session' = [p \in Plays |-> IF p \in Of(t) THEN NoSession ELSE session[p]]
          /\ counts' = [counts EXCEPT ![t] = 0] /\ opened' = [opened EXCEPT ![t] = 0]
          /\ titles' \subseteq Titles /\ lastEvent' = lastEvent /\ report' = report
      BY <1>2 DEF DeleteTitle, PlaybackInv, PlaybackTyped
    <2>2. /\ session \in [Plays -> PlayRow \cup {NoSession}]
          /\ counts \in [Titles -> Nat] /\ opened \in [Titles -> Nat]
      BY DEF PlaybackInv, PlaybackTyped
    <2>3. /\ \A p \in Of(t) : session'[p] = NoSession
          /\ \A p \in Plays \ Of(t) : session'[p] = session[p]
      BY <2>1 DEF Of
    <2>4. /\ session' \in [Plays -> PlayRow \cup {NoSession}]
          /\ \A p \in Plays : session'[p] # NoSession => session'[p].seq <= lastEvent'
      BY <2>1, <2>2, <2>3 DEF PlaybackInv, PlaybackTyped, HasSession
    <2>5. \A q \in Plays : \A s : q \in OpenOf(s) <=> HasSession(q) /\ session[q].title = s /\ ~session[q].stopped
      BY DEF OpenOf, Of, Stopped
    <2>6. \A q \in Plays : \A s :
            q \in OpenOf(s)' <=> session'[q] # NoSession /\ session'[q].title = s /\ ~session'[q].stopped
      BY DEF OpenOf, Of, Stopped, HasSession
    <2>7. \A s : OpenOf(s) \subseteq Plays /\ OpenOf(s)' \subseteq Plays
      BY DEF OpenOf, Of
    <2>8. \A q \in Plays : q \in Of(t) <=> HasSession(q) /\ session[q].title = t
      BY DEF Of
    <2>9. ASSUME NEW s \in Titles \ {t} PROVE OpenOf(s)' = OpenOf(s)
      <3>1. \A q \in Plays : q \in OpenOf(s)' <=> q \in OpenOf(s)
        BY <2>3, <2>5, <2>6, <2>8 DEF HasSession
      <3> QED BY <3>1, <2>7
    <2>10. OpenOf(t)' = {}
      <3>1. \A q \in Plays : q \notin OpenOf(t)'
        BY <2>3, <2>6, <2>8 DEF HasSession
      <3> QED BY <3>1, <2>7
    <2>11. ASSUME NEW s \in Titles PROVE counts'[s] + Cardinality(OpenOf(s)') = opened'[s]
      <3>1. CASE s = t
        BY <3>1, <2>1, <2>2, <2>10, FS_EmptySet
      <3>2. CASE s # t
        BY <3>2, <2>1, <2>2, <2>9 DEF PlaybackInv, PlaysCounted, OpenOf
      <3> QED BY <3>1, <3>2
    <2>12. PlaysCounted'
      BY <2>11 DEF PlaysCounted, OpenOf
    <2>13. counts' \in [Titles -> Nat] /\ opened' \in [Titles -> Nat]
      BY <2>1, <2>2
    <2> QED BY <2>1, <2>4, <2>12, <2>13 DEF PlaybackInv, PlaybackTyped, HasSession
  <1> QED BY <1>1, <1>2

\* The rows are written by accepted reports only, and PlaysCounted is inductive
\* with their types: the bookkeeping of RecordPlaybackEvent and of the deletion
\* of a movie, in any order of the reports.
THEOREM PlaybackInductive == PlaybackSpec => []PlaybackInv
  <1>1. ASSUME PlaybackInv, [PlaybackNext]_playVars PROVE PlaybackInv'
    <2>1. CASE PlaybackNext
      BY <1>1, <2>1, ResolveCounts, RecordCounts, TitlesComeAndGo DEF PlaybackNext
    <2>2. CASE UNCHANGED playVars
      BY <1>1, <2>2
         DEF playVars, PlaybackInv, PlaybackTyped, PlaysCounted, Of, Stopped, HasSession
    <2> QED BY <1>1, <2>1, <2>2
  <1> QED BY <1>1, PlaybackInitOK, PTL DEF PlaybackSpec

\* The play count of a movie is the number of its sessions that were opened
\* less those that are open: a stop that comes twice, a heartbeat after the
\* stop and a session that is started again are each counted once.
THEOREM PlaysAreCounted == PlaybackSpec => []PlaysCounted
  BY PlaybackInductive, PTL DEF PlaybackInv

-----------------------------------------------------------------------------
(* The table of events within its bound *)

PlayEvent == [id : 1..MaxEvents, play : Plays, seq : 1..MaxEvents]

\* Each event has an id of its own, and since the last pruning no more have
\* come than the counter has moved on.
EventsBounded ==
  /\ events \subseteq PlayEvent /\ IsFiniteSet(events)
  /\ \A e \in events : e.id <= lastEvent
  /\ \A e, f \in events : e.id = f.id => e = f
  /\ Cardinality(events) <= EventsRetain + (lastEvent % PruneEvery)

CountsBounded == \A t \in Titles : opened[t] <= lastEvent

\* One more than a number that is not a multiple of k leaves one more over.
LEMMA NextRest ==
  ASSUME NEW n \in Nat, NEW k \in Nat \ {0}, (n + 1) % k # 0
  PROVE  n % k \in Nat /\ (n + 1) % k = (n % k) + 1 /\ (n + 1) % k <= k - 1
  <1>1. PICK q \in Int, r \in 0 .. k - 1 : n = k * q + r /\ r = n % k
    <2>1. n = k * (n \div k) + (n % k)
      OBVIOUS
    <2>2. n \div k \in Int /\ n % k \in 0 .. k - 1
      OBVIOUS
    <2> QED BY <2>1, <2>2
  <1>2. PICK p \in Int, s \in 0 .. k - 1 : n + 1 = k * p + s /\ s = (n + 1) % k
    <2>1. n + 1 = k * ((n + 1) \div k) + ((n + 1) % k)
      OBVIOUS
    <2>2. (n + 1) \div k \in Int /\ (n + 1) % k \in 0 .. k - 1
      OBVIOUS
    <2> QED BY <2>1, <2>2
  <1>3. k * (p - q) = r + 1 - s
    BY <1>1, <1>2
  <1>4. p - q <= 0
    <2>1. SUFFICES ASSUME p - q >= 1 PROVE FALSE
      BY <1>1, <1>2
    <2>2. PICK d \in Nat : p - q = d + 1
      BY <1>1, <1>2, <2>1
    <2>3. k * (d + 1) = k * d + k /\ k * d \in Nat
      OBVIOUS
    <2>4. k * d + k = r + 1 - s
      BY <1>3, <2>2, <2>3, Zenon
    <2>5. s # 0
      BY <1>2
    <2> QED BY <2>3, <2>4, <2>5
  <1>5. p - q >= 0
    <2>1. SUFFICES ASSUME p - q <= -1 PROVE FALSE
      BY <1>1, <1>2
    <2>2. PICK d \in Nat : p - q = -(d + 1)
      BY <1>1, <1>2, <2>1
    <2>3. k * (-(d + 1)) = -(k * d) - k /\ k * d \in Nat
      OBVIOUS
    <2>4. -(k * d) - k = r + 1 - s
      BY <1>3, <2>2, <2>3, Zenon
    <2> QED BY <2>3, <2>4
  <1>6. p - q = 0 /\ s = r + 1
    <2>1. p - q = 0
      BY <1>1, <1>2, <1>4, <1>5
    <2>2. k * 0 = r + 1 - s
      BY <1>3, <2>1, Zenon
    <2>3. k * 0 = 0
      OBVIOUS
    <2> QED BY <2>1, <2>2, <2>3
  <1>7. r \in Nat /\ s = r + 1 /\ s <= k - 1
    BY <1>2, <1>6
  <1> QED BY <1>1, <1>2, <1>7, Zenon

LEMMA RestOfEvents == \A n \in Nat : n % PruneEvery \in 0 .. PruneEvery - 1
  BY PlaybackAssumption

\* A pruning leaves no more events than are retained.
LEMMA NewestEventsAreFew ==
  ASSUME NEW es \in SUBSET PlayEvent, IsFiniteSet(es), \A e, f \in es : e.id = f.id => e = f,
         NEW kept \in SUBSET es,
         \A e \in kept : Cardinality({f \in es : f.id > e.id}) < EventsRetain
  PROVE  Cardinality(kept) <= EventsRetain
  <1>1. kept \subseteq es /\ IsFiniteSet(kept) /\ Cardinality(kept) \in Nat /\ EventsRetain \in Nat
    BY FS_Subset, FS_CardinalityType, PlaybackAssumption
  <1>2. CASE kept = {}
    <2>1. Cardinality(kept) = 0
      BY <1>2, FS_EmptySet, Zenon
    <2> QED BY <1>1, <2>1
  <1>3. CASE kept # {}
    <2>1. PICK D : D = {e.id : e \in kept}
      OBVIOUS
    <2>2. D \in SUBSET Nat /\ D # {}
      <3>1. \A e \in kept : e.id \in Nat
        BY <1>1 DEF PlayEvent
      <3> QED BY <1>3, <2>1, <3>1
    <2>3. PICK d \in D : \A y \in D : d <= y
      BY <2>2, LeastOf
    <2>4. PICK x \in kept : x.id = d /\ \A y \in kept : x.id <= y.id
      BY <2>1, <2>3
    <2>5. PICK A, B : A = kept \ {x} /\ B = {f \in es : f.id > x.id}
      OBVIOUS
    <2>6. A \subseteq B
      <3>1. ASSUME NEW y \in A PROVE y.id > x.id
        <4>1. y \in es /\ x \in es /\ y # x /\ x.id <= y.id
          BY <1>1, <2>4, <2>5
        <4>2. y.id # x.id /\ y.id \in Nat /\ x.id \in Nat
          BY <4>1 DEF PlayEvent
        <4> QED BY <4>1, <4>2
      <3> QED BY <1>1, <2>5, <3>1
    <2>7. Cardinality(B) < EventsRetain
      BY <2>4, <2>5
    <2>8. IsFiniteSet(B) /\ Cardinality(B) \in Nat
      BY <2>5, FS_Subset, FS_CardinalityType
    <2>9. Cardinality(A) \in Nat /\ Cardinality(A) <= Cardinality(B)
      BY <2>6, <2>8, FS_Subset, FS_CardinalityType
    <2>10. Cardinality(A) = Cardinality(kept) - 1
      BY <1>1, <2>4, <2>5, FS_RemoveElement
    <2> QED BY <1>1, <2>7, <2>8, <2>9, <2>10
  <1> QED BY <1>2, <1>3

\* Some events go and none comes.
LEMMA FewerEvents ==
  ASSUME EventsBounded, PlaybackTyped, events' \subseteq events, UNCHANGED lastEvent
  PROVE  EventsBounded'
  <1>1. IsFiniteSet(events') /\ Cardinality(events') \in Nat /\ Cardinality(events) \in Nat
        /\ Cardinality(events') <= Cardinality(events)
    BY FS_Subset, FS_CardinalityType DEF EventsBounded
  <1>2. lastEvent % PruneEvery \in Nat /\ EventsRetain \in Nat
    BY RestOfEvents, PlaybackAssumption DEF PlaybackTyped
  <1> QED BY <1>1, <1>2 DEF EventsBounded

LEMMA RecordBounded ==
  ASSUME PlaybackInv, EventsBounded, CountsBounded, NEW r \in Reports, Record(r)
  PROVE  EventsBounded' /\ CountsBounded'
  <1>1. report[r] # NoReport /\ report[r] \in PlayReport
    BY DEF PlaybackInv, PlaybackTyped, Record, NoReport, PlayReport
  <1>2. PICK p \in Plays, t \in Titles, kind \in Kinds :
          report[r].play = p /\ report[r].title = t /\ report[r].kind = kind
    BY <1>1 DEF PlayReport
  <1>3. PICK new : new = [id |-> lastEvent + 1, play |-> p, seq |-> EventSeq(p) + 1]
    OBVIOUS
  <1>4. PICK es : es = events \cup {new}
    OBVIOUS
  <1>5. lastEvent < MaxEvents /\ lastEvent' = lastEvent + 1 /\ events' = PrunedEvents(es, lastEvent + 1, kind)
    BY <1>2, <1>3, <1>4 DEF Record
  <1>6. lastEvent \in Nat /\ MaxEvents \in Nat /\ EventsRetain \in Nat /\ PruneEvery \in Nat \ {0}
    BY PlaybackAssumption DEF PlaybackInv, PlaybackTyped
  <1>7. new \in PlayEvent /\ new.id = lastEvent + 1
    <2>1. EventSeq(p) + 1 \in 1 .. MaxEvents
      <3>1. RowOf(p, t, kind) \in PlayRow
        BY <1>5, ReportsWriteRows DEF PlaybackInv
      <3> QED BY <3>1 DEF RowOf, PlayRow
    <2> QED BY <1>3, <1>5, <1>6, <2>1 DEF PlayEvent
  <1>8. /\ \A e \in events : e \in PlayEvent /\ e.id \in Nat /\ e.id <= lastEvent
        /\ new \notin events
    BY <1>6, <1>7 DEF EventsBounded, PlayEvent
  <1>9. /\ es \in SUBSET PlayEvent /\ IsFiniteSet(es) /\ Cardinality(es) = Cardinality(events) + 1
        /\ Cardinality(events) \in Nat /\ Cardinality(es) \in Nat
    BY <1>4, <1>7, <1>8, FS_AddElement, FS_CardinalityType DEF EventsBounded
  <1>10. /\ \A e \in es : e.id <= lastEvent + 1
         /\ \A e, f \in es : e.id = f.id => e = f
    BY <1>4, <1>6, <1>7, <1>8 DEF EventsBounded
  <1>11. CountsBounded'
    <2>1. opened' = [opened EXCEPT ![t] =
            IF ~HasSession(p) \/ (p \in Stopped /\ kind = "start") THEN @ + 1 ELSE @]
      BY <1>2 DEF Record
    <2>2. ASSUME NEW s \in Titles PROVE opened'[s] <= lastEvent'
      <3>1. opened[s] \in Nat /\ opened[s] <= lastEvent /\ opened'[s] \in {opened[s], opened[s] + 1}
        BY <2>1 DEF CountsBounded, PlaybackInv, PlaybackTyped
      <3> QED BY <1>5, <1>6, <3>1
    <2> QED BY <2>2 DEF CountsBounded
  <1>12. CASE (lastEvent + 1) % PruneEvery # 0
    <2>1. events' = es
      BY <1>5, <1>12 DEF PrunedEvents
    <2>2. lastEvent % PruneEvery \in Nat /\ (lastEvent + 1) % PruneEvery = (lastEvent % PruneEvery) + 1
      BY <1>6, <1>12, NextRest
    <2>3. Cardinality(events) <= EventsRetain + (lastEvent % PruneEvery)
      BY DEF EventsBounded
    <2>4. Cardinality(es) <= EventsRetain + ((lastEvent + 1) % PruneEvery)
      BY <1>6, <1>9, <2>2, <2>3
    <2>5. Cardinality(events') <= EventsRetain + (lastEvent' % PruneEvery)
      BY <1>5, <2>1, <2>4, Zenon
    <2>6. events' \subseteq PlayEvent /\ IsFiniteSet(events')
      BY <1>9, <2>1
    <2>7. \A e \in events' : e.id <= lastEvent'
      BY <1>5, <1>10, <2>1, Zenon
    <2>8. \A e, f \in events' : e.id = f.id => e = f
      BY <1>10, <2>1, Zenon
    <2> QED BY <1>11, <2>5, <2>6, <2>7, <2>8, Zenon DEF EventsBounded
  <1>13. CASE (lastEvent + 1) % PruneEvery = 0
    <2>1. PICK kept : kept = {e \in es : Cardinality({f \in es : f.id > e.id}) < EventsRetain}
      OBVIOUS
    <2>2. events' = kept /\ kept \subseteq es
      BY <1>5, <1>13, <2>1 DEF PrunedEvents
    <2>3. Cardinality(kept) <= EventsRetain
      BY <1>9, <1>10, <2>1, NewestEventsAreFew
    <2>4. IsFiniteSet(kept)
      BY <1>9, <2>2, FS_Subset
    <2>5. Cardinality(kept) <= EventsRetain + ((lastEvent + 1) % PruneEvery)
      BY <1>6, <1>13, <2>3
    <2>6. Cardinality(events') <= EventsRetain + (lastEvent' % PruneEvery)
      BY <1>5, <2>2, <2>5, Zenon
    <2>7. events' \subseteq PlayEvent /\ IsFiniteSet(events')
      BY <1>9, <2>2, <2>4
    <2>8. \A e \in events' : e.id <= lastEvent'
      BY <1>5, <1>10, <2>2, Zenon
    <2>9. \A e, f \in events' : e.id = f.id => e = f
      BY <1>10, <2>2, Zenon
    <2> QED BY <1>11, <2>6, <2>7, <2>8, <2>9, Zenon DEF EventsBounded
  <1> QED BY <1>6, <1>12, <1>13

LEMMA PlaybackBoundedStep ==
  PlaybackInv /\ EventsBounded /\ CountsBounded /\ [PlaybackNext]_playVars => EventsBounded' /\ CountsBounded'
  <1> SUFFICES ASSUME PlaybackInv, EventsBounded, CountsBounded, [PlaybackNext]_playVars
               PROVE  EventsBounded' /\ CountsBounded'
    OBVIOUS
  <1>1. ASSUME NEW r \in Reports, Record(r) PROVE EventsBounded' /\ CountsBounded'
    BY <1>1, RecordBounded
  <1>2. CASE events' \subseteq events /\ UNCHANGED <<lastEvent, opened>>
    BY <1>2, FewerEvents DEF PlaybackInv, CountsBounded
  <1>3. ASSUME NEW t \in Titles, DeleteTitle(t) PROVE EventsBounded' /\ CountsBounded'
    <2>1. events' \subseteq events /\ UNCHANGED lastEvent /\ opened' = [opened EXCEPT ![t] = 0]
      BY <1>3 DEF DeleteTitle
    <2>2. CountsBounded'
      <3>1. \A s \in Titles : opened'[s] \in {opened[s], 0} /\ lastEvent \in Nat
        BY <2>1, PlaybackAssumption DEF PlaybackInv, PlaybackTyped
      <3> QED BY <2>1, <3>1 DEF CountsBounded
    <2> QED BY <2>1, <2>2, FewerEvents DEF PlaybackInv
  <1>4. CASE UNCHANGED playVars
    BY <1>2, <1>4 DEF playVars
  <1> QED BY <1>1, <1>2, <1>3, <1>4 DEF PlaybackNext, Resolve, Ignore, AddTitle

LEMMA PlaybackBoundsMeanTypes == PlaybackInv /\ EventsBounded /\ CountsBounded => PlaybackTypeOK
  <1> SUFFICES ASSUME PlaybackInv, EventsBounded, CountsBounded PROVE PlaybackTypeOK
    OBVIOUS
  <1>1. lastEvent \in Nat /\ lastEvent <= MaxEvents /\ MaxEvents \in Nat
        /\ EventsRetain \in Nat /\ PruneEvery \in Nat \ {0}
    BY PlaybackAssumption DEF PlaybackInv, PlaybackTyped
  <1>2. Cardinality(events) <= EventsRetain + PruneEvery - 1
    <2>1. lastEvent % PruneEvery \in 0 .. PruneEvery - 1
      BY <1>1, RestOfEvents
    <2>2. Cardinality(events) \in Nat /\ Cardinality(events) <= EventsRetain + (lastEvent % PruneEvery)
      BY FS_CardinalityType DEF EventsBounded
    <2> QED BY <1>1, <2>1, <2>2
  <1>3. ASSUME NEW t \in Titles PROVE counts[t] \in 0 .. MaxEvents /\ opened[t] \in 0 .. MaxEvents
    <2>1. /\ counts[t] \in Nat /\ opened[t] \in Nat /\ opened[t] <= lastEvent
          /\ counts[t] + Cardinality(OpenOf(t)) = opened[t] /\ Cardinality(OpenOf(t)) \in Nat
      BY OpenAreFinite DEF PlaybackInv, PlaybackTyped, PlaysCounted, OpenOf, CountsBounded
    <2> QED BY <1>1, <2>1
  <1> QED BY <1>2, <1>3 DEF PlaybackTypeOK, PlaybackInv, PlaybackTyped, EventsBounded, PlayEvent, PlayRow

\* The table of events never holds more than what is retained and what came
\* since the last pruning, however reports and deletions are mixed.
THEOREM PlaybackTypeCorrect == PlaybackSpec => []PlaybackTypeOK
  <1>1. PlaybackInit => EventsBounded /\ CountsBounded
    <2> SUFFICES ASSUME PlaybackInit PROVE EventsBounded /\ CountsBounded
      OBVIOUS
    <2>1. events = {} /\ lastEvent = 0 /\ opened = [t \in Titles |-> 0]
      BY DEF PlaybackInit
    <2>2. EventsRetain \in Nat /\ 0 % PruneEvery \in 0 .. PruneEvery - 1 /\ PruneEvery \in Nat
      BY PlaybackAssumption, RestOfEvents
    <2> QED BY <2>1, <2>2, FS_EmptySet DEF EventsBounded, CountsBounded
  <1> QED BY <1>1, PlaybackBoundedStep, PlaybackBoundsMeanTypes, PlaybackInductive, PTL DEF PlaybackSpec

-----------------------------------------------------------------------------
(****************************************************************************)
(* The services together: what is proved of one of them holds beside the    *)
(* others.                                                                  *)
(****************************************************************************)

\* A behaviour of the services is one of each of them.
LEMMA EachIsPlayed == MCSpec => AccountsSpec /\ PlaybackSpec /\ ViewsSpec /\ TasksSpec
  <1>1. MCInit => AccountsInit /\ PlaybackInit /\ ViewsInit /\ TasksInit
    BY DEF MCInit
  <1>2. [MCNext]_allVars => /\ [AccountsNext]_accountVars /\ [PlaybackNext]_playVars
                            /\ [ViewsNext]_viewVars /\ [TasksNext]_taskVars
    <2> SUFFICES ASSUME [MCNext]_allVars
                 PROVE  /\ [AccountsNext]_accountVars /\ [PlaybackNext]_playVars
                        /\ [ViewsNext]_viewVars /\ [TasksNext]_taskVars
      OBVIOUS
    <2>1. CASE UNCHANGED allVars
      BY <2>1 DEF allVars
    <2>2. CASE MCNext
      BY <2>2 DEF MCNext
    <2> QED BY <2>1, <2>2
  <1> QED BY <1>1, <1>2, PTL DEF MCSpec, AccountsSpec, PlaybackSpec, ViewsSpec, TasksSpec

\* Rows, sessions, events, cached answers, tasks and their records keep their
\* types and their bounds, whichever service is busy.
THEOREM ServicesTypeCorrect == MCSpec => []ServicesTypeOK
  <1>1. AccountsInv /\ ViewsInv /\ PlaybackTypeOK /\ TasksTypeOK => ServicesTypeOK
    BY DEF AccountsInv, ViewsInv, ServicesTypeOK
  <1> QED BY <1>1, EachIsPlayed, AccountsInductive, ViewsInductive, PlaybackTypeCorrect, TasksTypeCorrect, PTL
=============================================================================
