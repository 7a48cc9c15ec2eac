------------------------------ MODULE Accounts ------------------------------
(***************************************************************************)
(* Users, login sessions and API keys (store/users.go, admin_users.go,     *)
(* admin_credentials.go, api_key_rotation.go) and the requests that use    *)
(* them (server/auth.go, users_admin.go, api_key_rotation.go).             *)
(*                                                                         *)
(* A request reads who it is and what it may do, works for a while (bcrypt *)
(* alone takes longer than most queries), and commits in one transaction.  *)
(* Between any two of its statements other requests change passwords,      *)
(* names and roles, revoke sessions and rotate keys.                       *)
(***************************************************************************)
EXTENDS Naturals, FiniteSets

CONSTANTS
  Clients,      \* requests in flight
  Users,        \* ids of accounts; an id is given out once
  First,        \* the id that initialisation gives the first administrator
  Names,
  Passwords,
  Tokens,       \* random login tokens, each given out once
  ApiKeys,      \* stable ids of API keys, each given out once
  Nothing,      \* no name, no password, no user
  Unused, Deleted,  \* what stands for a row that is not there yet, or no more
  MaxGen,       \* bound: generation of an account
  MaxVersion    \* bound: version of an API key

VARIABLES
  accounts,     \* the rows of users: a row, Unused or Deleted
  tokens,       \* the rows of access_tokens: a row, Unused or Deleted
  keys,         \* the rows of api_keys: a row, Unused or Deleted
  req,          \* what each request has read so far
  dead          \* history: tokens whose login or session has been revoked

accountVars == <<accounts, tokens, keys, req, dead>>

\* A row of users is known by its own field: name, hash, role, auth_generation.
Account == [name : Names, pw : Passwords, admin : BOOLEAN, gen : 1..MaxGen]
Token   == [user : Users, gen : 1..MaxGen, expired : BOOLEAN]
Key     == [user : Users, version : 1..MaxVersion]

\* A key's credential is replaced by each rotation and never comes back.
KeyCredentials == ApiKeys \X (1..MaxVersion)
Credentials == Tokens \cup KeyCredentials

ASSUME AccountsAssumption ==
  /\ First \in Users
  /\ Nothing \notin Users \cup Names \cup Passwords \cup Credentials \cup BOOLEAN
  /\ Tokens \cap KeyCredentials = {}
  /\ Unused # Deleted /\ {Unused, Deleted} \cap (Account \cup Token \cup Key) = {}
  /\ MaxGen \in Nat \ {0} /\ MaxVersion \in Nat \ {0}

Idle ==
  [at |-> "idle", op |-> "none", cred |-> Nothing, id |-> Nothing, gen |-> 0,
   admin |-> FALSE, name |-> Nothing, vid |-> Nothing, vgen |-> 0, seen |-> 0,
   lost |-> {}]

Request ==
  [at : {"idle", "validated", "sliding", "proved", "named", "verified", "working"},
   op : {"none", "login", "change", "rotate"},
   cred : Credentials \cup {Nothing}, id : Users \cup {Nothing}, gen : 0..MaxGen,
   admin : BOOLEAN, name : Names \cup {Nothing}, vid : Users \cup {Nothing},
   vgen : 0..MaxGen, seen : 0..MaxVersion, lost : SUBSET {"proof", "password"}]

AccountsTypeOK ==
  /\ accounts \in [Users -> Account \cup {Unused, Deleted}]
  /\ tokens \in [Tokens -> Token \cup {Unused, Deleted}]
  /\ keys \in [ApiKeys -> Key \cup {Unused, Deleted}]
  /\ req \in [Clients -> Request]
  /\ dead \subseteq Tokens

Absent == {Unused, Deleted}
Exists(u) == u \in Users /\ accounts[u] \notin Absent
Admins == {u \in Users : Exists(u) /\ accounts[u].admin}
NameFree(n, u) == \A v \in Users \ {u} : Exists(v) => accounts[v].name # n

\* The row that both session queries ask for: a token of the generation that
\* its account still has.
LiveToken(t) ==
  /\ t \in Tokens /\ tokens[t] \notin Absent
  /\ Exists(tokens[t].user) /\ accounts[tokens[t].user].gen = tokens[t].gen

LiveKey(c) ==
  c \in KeyCredentials /\ keys[c[1]] \notin Absent /\ keys[c[1]].version = c[2]

OwnerOf(c) == IF c \in Tokens THEN tokens[c].user ELSE keys[c[1]].user

\* RequestCredentialUser and adminUserTx: the credential still stands for u.
StandsFor(c, u) ==
  /\ \/ LiveToken(c) /\ ~tokens[c].expired
     \/ LiveKey(c)
  /\ OwnerOf(c) = u /\ Exists(u)

AccountsInit ==
  /\ accounts = [u \in Users |-> Unused]
  /\ tokens = [t \in Tokens |-> Unused]
  /\ keys = [k \in ApiKeys |-> Unused]
  /\ req = [r \in Clients |-> Idle]
  /\ dead = {}

-----------------------------------------------------------------------------
(* What a committed write takes from others *)

\* Request r ends; what the others know of the accounts U or have shown with
\* the credentials C is out of date from now on.
EndsAndOutdates(r, U, C) ==
  req' = [q \in Clients |->
            IF q = r THEN Idle
            ELSE [req[q] EXCEPT !.lost =
                    @ \cup {w \in {"proof"} : req[q].id \in U \/ req[q].cred \in C}
                      \cup {w \in {"password"} : req[q].vid \in U}]]

TokensOf(U) == {t \in Tokens : tokens[t] \notin Absent /\ tokens[t].user \in U}
Delete(T) == tokens' = [t \in Tokens |-> IF t \in T THEN Deleted ELSE tokens[t]]

Ends(r) == req' = [req EXCEPT ![r] = Idle]

-----------------------------------------------------------------------------
(* Initialisation and login *)

\* initialize: the check and the insertion of id 1, which only the first of
\* two requests can do.
InitializeFirst(n, p) ==
  /\ accounts[First] = Unused /\ Admins = {}
  /\ accounts' = [accounts EXCEPT ![First] = [name |-> n, pw |-> p, admin |-> TRUE, gen |-> 1]]
  /\ UNCHANGED <<tokens, keys, req, dead>>

Matches(u, n, p) == Exists(u) /\ accounts[u].name = n /\ accounts[u].pw = p

\* authenticate, up to the end of bcrypt: one row is read, then compared.
LogIn(r, n, p) ==
  /\ req[r].at = "idle" /\ Admins # {}
  /\ \E u \in Users :
       /\ Matches(u, n, p)
       /\ req' = [req EXCEPT ![r] = [Idle EXCEPT !.at = "verified", !.op = "login",
                                       !.vid = u, !.vgen = accounts[u].gen]]
  /\ UNCHANGED <<accounts, tokens, keys, dead>>

Unrevoked(r) == Exists(req[r].vid) /\ accounts[req[r].vid].gen = req[r].vgen

\* Seeded fault: the insertion does not compare the generation.
SaveAccessTokenUnchecked(r) ==
  /\ req[r].at = "verified" /\ req[r].op = "login"
  /\ Exists(req[r].vid)
  /\ \E t \in Tokens :
       /\ tokens[t] = Unused
       /\ tokens' = [tokens EXCEPT ![t] =
            [user |-> req[r].vid, gen |-> accounts[req[r].vid].gen, expired |-> FALSE]]
       /\ dead' = IF "password" \in req[r].lost THEN dead \cup {t} ELSE dead
  /\ Ends(r)
  /\ UNCHANGED <<accounts, keys>>

\* SaveAccessTokenForAuthenticatedUser
SaveAccessToken(r) ==
  /\ req[r].at = "verified" /\ req[r].op = "login"
  /\ \/ /\ Unrevoked(r)
        /\ \E t \in Tokens :
             /\ tokens[t] = Unused
             /\ tokens' = [tokens EXCEPT ![t] =
                  [user |-> req[r].vid, gen |-> accounts[req[r].vid].gen, expired |-> FALSE]]
             /\ dead' = IF "password" \in req[r].lost THEN dead \cup {t} ELSE dead
     \/ ~Unrevoked(r) /\ UNCHANGED <<tokens, dead>>
  /\ Ends(r)
  /\ UNCHANGED <<accounts, keys>>

-----------------------------------------------------------------------------
(* Who sends a request *)

\* authOK, first half: ValidateAccessTokenUser, or else APIKeyUser.  An expired
\* session is deleted; one with little time left is renewed by a statement of
\* its own.
PresentCredential(r, c) ==
  /\ req[r].at = "idle"
  /\ \/ /\ LiveToken(c) /\ ~tokens[c].expired
        /\ \E at \in {"validated", "sliding"} :
             req' = [req EXCEPT ![r] = [Idle EXCEPT !.at = at, !.cred = c, !.id = OwnerOf(c)]]
        /\ UNCHANGED tokens
     \/ /\ LiveToken(c) /\ tokens[c].expired
        /\ Delete({c})
        /\ UNCHANGED req
     \/ /\ LiveKey(c)
        /\ req' = [req EXCEPT ![r] = [Idle EXCEPT !.at = "validated", !.cred = c, !.id = OwnerOf(c)]]
        /\ UNCHANGED tokens
  /\ UNCHANGED <<accounts, keys, dead>>

\* The renewal writes a row that may have expired or gone meanwhile.
Slide(r) ==
  /\ req[r].at = "sliding"
  /\ req' = [req EXCEPT ![r].at = "validated"]
  /\ tokens' = IF tokens[req[r].cred] \in Absent THEN tokens
               ELSE [tokens EXCEPT ![req[r].cred].expired = FALSE]
  /\ UNCHANGED <<accounts, keys, dead>>

\* authOK, second half: RequestCredentialUser reads identity, generation and
\* credential in one statement.
RequestCredential(r) ==
  /\ req[r].at = "validated"
  /\ \/ /\ StandsFor(req[r].cred, req[r].id)
        /\ LET a == accounts[req[r].id]
           IN req' = [req EXCEPT ![r] = [@ EXCEPT !.at = "proved", !.gen = a.gen,
                                                  !.admin = a.admin, !.lost = {}]]
     \/ ~StandsFor(req[r].cred, req[r].id) /\ Ends(r)
  /\ UNCHANGED <<accounts, tokens, keys, dead>>

Expire(t) ==
  /\ tokens[t] \notin Absent /\ ~tokens[t].expired
  /\ tokens' = [tokens EXCEPT ![t].expired = TRUE]
  /\ UNCHANGED <<accounts, keys, req, dead>>

\* logout deletes the session of the request; an API key has none.
Logout(r) ==
  /\ req[r].at = "proved"
  /\ IF req[r].cred \in Tokens
     THEN /\ Delete({req[r].cred} \cap TokensOf(Users))
          /\ EndsAndOutdates(r, {}, {req[r].cred})
          /\ dead' = dead \cup {req[r].cred}
     ELSE Ends(r) /\ UNCHANGED <<tokens, dead>>
  /\ UNCHANGED <<accounts, keys>>

-----------------------------------------------------------------------------
(* What an administrator writes: adminUserTx, then the write *)

\* requireAdmin let the request in; adminUserTx holds the writer and asks
\* whether the proof is still true.
Admitted(r) ==
  /\ Exists(req[r].id) /\ accounts[req[r].id].admin
  /\ accounts[req[r].id].gen = req[r].gen
  /\ StandsFor(req[r].cred, req[r].id)

MayWrite(r) == req[r].at = "proved" /\ req[r].admin /\ Admitted(r)

\* AdminCreateUser
CreateUser(r, u, n, p, a) ==
  /\ MayWrite(r)
  /\ accounts[u] = Unused /\ u # First /\ NameFree(n, u)
  /\ accounts' = [accounts EXCEPT ![u] = [name |-> n, pw |-> p, admin |-> a, gen |-> 1]]
  /\ Ends(r)
  /\ UNCHANGED <<tokens, keys, dead>>

\* ensureAnotherAdminTx
AnotherAdmin(u) == Admins \ {u} # {}

Given(new, old) == IF new = Nothing THEN old ELSE new

\* AdminUpdateUser: the fields that are given, in one transaction.  A new
\* password revokes, and so does a role that really changes.
UpdateUser(r, u, n, p, a) ==
  /\ MayWrite(r) /\ Exists(u)
  /\ n # Nothing => NameFree(n, u)
  /\ accounts[u].admin /\ a = FALSE => AnotherAdmin(u)
  /\ LET was == accounts[u]
         role == Given(a, was.admin)
         bumps == (IF p # Nothing THEN 1 ELSE 0) + (IF role # was.admin THEN 1 ELSE 0)
     IN /\ was.gen + bumps <= MaxGen
        /\ accounts' = [accounts EXCEPT ![u] =
             [name |-> Given(n, was.name), pw |-> Given(p, was.pw), admin |-> role,
              gen |-> was.gen + bumps]]
        /\ IF p # Nothing THEN Delete(TokensOf({u})) ELSE UNCHANGED tokens
        /\ IF bumps > 0
           THEN EndsAndOutdates(r, {u}, {}) /\ dead' = dead \cup TokensOf({u})
           ELSE Ends(r) /\ UNCHANGED dead
  /\ UNCHANGED keys

\* AdminDeleteUser: not the first account, not one's own.
DeleteUser(r, u) ==
  /\ MayWrite(r) /\ Exists(u)
  /\ u # First /\ u # req[r].id
  /\ accounts[u].admin => AnotherAdmin(u)
  /\ accounts' = [accounts EXCEPT ![u] = Deleted]
  /\ Delete(TokensOf({u}))
  /\ keys' = [k \in ApiKeys |-> IF keys[k] \notin Absent /\ keys[k].user = u THEN Deleted ELSE keys[k]]
  /\ dead' = dead \cup TokensOf({u})
  /\ EndsAndOutdates(r, {u}, {})

\* AdminRevokeAllAccessTokens
RevokeAll(r) ==
  /\ MayWrite(r)
  /\ \A u \in Users : Exists(u) => accounts[u].gen < MaxGen
  /\ accounts' = [u \in Users |-> IF Exists(u) THEN [accounts[u] EXCEPT !.gen = @ + 1] ELSE accounts[u]]
  /\ Delete(TokensOf(Users))
  /\ dead' = dead \cup TokensOf(Users)
  /\ EndsAndOutdates(r, Users, {})
  /\ UNCHANGED keys

\* AdminCreateAPIKey
CreateKey(r, k) ==
  /\ MayWrite(r) /\ keys[k] = Unused
  /\ keys' = [keys EXCEPT ![k] = [user |-> req[r].id, version |-> 1]]
  /\ Ends(r)
  /\ UNCHANGED <<accounts, tokens, dead>>

\* AdminDeleteAPIKey: of the version that If-Match names, or of any.
DeleteKey(r, k, v) ==
  /\ MayWrite(r) /\ keys[k] \notin Absent
  /\ v > 0 => keys[k].version = v
  /\ keys' = [keys EXCEPT ![k] = Deleted]
  /\ EndsAndOutdates(r, {}, {<<k, keys[k].version>>})
  /\ UNCHANGED <<accounts, tokens, dead>>

\* AdmitAdminOperation: a barrier before work that is not a transaction.
AdmitOperation(r) ==
  /\ MayWrite(r)
  /\ req' = [req EXCEPT ![r] = [Idle EXCEPT !.at = "working"]]
  /\ UNCHANGED <<accounts, tokens, keys, dead>>

-----------------------------------------------------------------------------
(* What a password is asked for again *)

\* changePassword reads the name of the account that is logged in, and has no
\* more use for what the request has shown.
ReadName(r) ==
  /\ req[r].at = "proved" /\ Exists(req[r].id)
  /\ req' = [req EXCEPT ![r] = [Idle EXCEPT !.at = "named", !.op = "change",
                 !.id = req[r].id, !.name = accounts[req[r].id].name]]
  /\ UNCHANGED <<accounts, tokens, keys, dead>>

\* adminRotateAPIKey: requireInteractiveSession asks for the session once more,
\* and the client says which version it has seen.
StartRotation(r, v) ==
  /\ req[r].at = "proved" /\ req[r].admin
  /\ LiveToken(req[r].cred) /\ ~tokens[req[r].cred].expired
  /\ LET u == OwnerOf(req[r].cred)
     IN /\ accounts[u].admin
        /\ req' = [req EXCEPT ![r] = [@ EXCEPT !.at = "named", !.op = "rotate",
                                        !.name = accounts[u].name, !.seen = v]]
  /\ UNCHANGED <<accounts, tokens, keys, dead>>

\* Seeded fault: whoever has the name and the password will do.
VerifyByName(r, p) ==
  /\ req[r].at = "named"
  /\ \E u \in Users :
       /\ Matches(u, req[r].name, p)
       /\ req' = [req EXCEPT ![r] = [@ EXCEPT !.at = "verified", !.name = Nothing,
                     !.vid = u, !.vgen = accounts[u].gen, !.lost = req[r].lost \ {"password"}]]
  /\ UNCHANGED <<accounts, tokens, keys, dead>>

\* AuthenticateUser looks the account up by its name, which another one may
\* have taken since; its proof counts for the same id only.
Verify(r, p) ==
  /\ req[r].at = "named"
  /\ \E u \in Users :
       /\ Matches(u, req[r].name, p)
       /\ IF u = req[r].id
          THEN req' = [req EXCEPT ![r] = [@ EXCEPT !.at = "verified", !.name = Nothing,
                         !.vid = u, !.vgen = accounts[u].gen, !.lost = req[r].lost \ {"password"}]]
          ELSE Ends(r)
  /\ UNCHANGED <<accounts, tokens, keys, dead>>

\* SetAuthenticatedUserPassword
SetPassword(r, p) ==
  /\ req[r].at = "verified" /\ req[r].op = "change"
  /\ LET u == req[r].vid
     IN \/ /\ Unrevoked(r) /\ accounts[u].gen < MaxGen
           /\ accounts' = [accounts EXCEPT ![u] = [@ EXCEPT !.pw = p, !.gen = accounts[u].gen + 1]]
           /\ Delete(TokensOf({u}))
           /\ dead' = dead \cup TokensOf({u})
           /\ EndsAndOutdates(r, {u}, {})
        \/ /\ ~Unrevoked(r)
           /\ Ends(r)
           /\ UNCHANGED <<accounts, tokens, dead>>
  /\ UNCHANGED keys

\* RotateAPIKeyForRequest: session, password, role and version in one transaction.
Rotate(r, k) ==
  /\ req[r].at = "verified" /\ req[r].op = "rotate"
  /\ keys[k] \notin Absent
  /\ IF /\ Admitted(r) /\ Unrevoked(r) /\ accounts[req[r].vid].admin
        /\ keys[k].version = req[r].seen
     THEN /\ keys[k].version < MaxVersion
          /\ keys' = [keys EXCEPT ![k].version = @ + 1]
          /\ EndsAndOutdates(r, {}, {<<k, keys[k].version>>})
     ELSE Ends(r) /\ UNCHANGED keys
  /\ UNCHANGED <<accounts, tokens, dead>>

-----------------------------------------------------------------------------
\* A request is over before it commits: the client went away, a query failed,
\* a password was wrong, or a check above refused it.
DropRequest(r) ==
  /\ req[r].at # "idle"
  /\ Ends(r)
  /\ UNCHANGED <<accounts, tokens, keys, dead>>

AdminWrites(r) ==
  \/ \E u \in Users, n \in Names, p \in Passwords, a \in BOOLEAN : CreateUser(r, u, n, p, a)
  \/ \E u \in Users, n \in Names \cup {Nothing}, p \in Passwords \cup {Nothing},
        a \in BOOLEAN \cup {Nothing} : UpdateUser(r, u, n, p, a)
  \/ \E u \in Users : DeleteUser(r, u)
  \/ RevokeAll(r)
  \/ \E k \in ApiKeys : CreateKey(r, k) \/ \E v \in 0..MaxVersion : DeleteKey(r, k, v)
  \/ AdmitOperation(r)

AccountsNext ==
  \/ \E n \in Names, p \in Passwords : InitializeFirst(n, p)
  \/ \E t \in Tokens : Expire(t)
  \/ \E r \in Clients :
       \/ \E n \in Names, p \in Passwords : LogIn(r, n, p)
       \/ SaveAccessToken(r)
       \/ \E c \in Credentials : PresentCredential(r, c)
       \/ Slide(r) \/ RequestCredential(r) \/ Logout(r)
       \/ AdminWrites(r)
       \/ ReadName(r) \/ \E v \in 1..MaxVersion : StartRotation(r, v)
       \/ \E p \in Passwords : Verify(r, p) \/ SetPassword(r, p)
       \/ \E k \in ApiKeys : Rotate(r, k)
       \/ DropRequest(r)

AccountsSpec == AccountsInit /\ [][AccountsNext]_accountVars

-----------------------------------------------------------------------------
(* Properties *)

\* Once there is an administrator there is always one: whatever two of them do
\* to each other and to themselves, and in whatever order it commits.
AnAdminRemains == Exists(First) => Admins # {}

\* A login session that a password change, a change of role, a logout, a
\* deletion or a revocation has ended stays ended, and so does one whose
\* password was checked before such a change and saved after it.
NoRevokedToken == \A t \in dead : ~LiveToken(t)

\* What commits commits on authority that is still there: no write, and no
\* admitted operation, rests on a session, key, role or password check that
\* another request has revoked since it was read.
CommitIsCurrent(r) ==
  LET needs == IF req[r].op = "change" THEN {"password"} ELSE {"proof", "password"}
  IN /\ req[r].at \in {"proved", "verified"}
     /\ \/ req'[r].at = "idle" /\ <<accounts, keys>>' # <<accounts, keys>>
        \/ req'[r].at = "working"
     => req[r].lost \cap needs = {}

CommitsAreCurrent == [][\A r \in Clients : CommitIsCurrent(r)]_accountVars

\* A request that asks for a password again changes nobody else's: names are
\* free to move between accounts while bcrypt runs.
ChangesItsOwn(r) ==
  req[r].at = "verified" /\ req[r].op = "change" /\ req'[r].at = "idle"
    => \A u \in Users \ {req[r].id} : accounts'[u] = accounts[u]

OwnPasswordOnly == [][\A r \in Clients : ChangesItsOwn(r)]_accountVars

\* What opens the administration is in the right hands: somebody has it, and
\* nobody has it by a token that was revoked.
AccessIsControlled == AnAdminRemains /\ NoRevokedToken

\* Every commit rests on what its credential stands for at that moment.
CredentialsDecide == CommitsAreCurrent /\ OwnPasswordOnly
=============================================================================
