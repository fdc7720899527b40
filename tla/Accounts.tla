------------------------------ MODULE Accounts ------------------------------
(***************************************************************************)
(* Users, their sessions and their API keys: routes/users.py, auth.py,     *)
(* api_keys.py over services/users.py and services/auth.py.                *)
(*                                                                         *)
(* A route reads and checks, and then writes in one to three transactions; *)
(* other requests are served between any two of them. Everything is found  *)
(* by user name, and no foreign key is enforced.                           *)
(***************************************************************************)
EXTENDS Naturals, FiniteSets, Functions

CONSTANTS Usernames, SessionIds, Passwords,
          Requests,        \* requests in flight
          Seed,            \* the users of config/users.json
          MaxBorn,         \* bounds of the instance: accounts under one name,
          MaxKeys,         \* and keys
          Nothing

Roles == {"admin", "editor", "reader"}

UserRow == [role : Roles, password : Passwords]

\* born and password are the account's when the session or the key was made; clean: nothing
\* else on the user was in flight then.
SessionRow == [user : Usernames, born : Nat, password : Passwords, clean : BOOLEAN]
KeyRow == [user : Usernames, born : Nat, active : BOOLEAN, clean : BOOLEAN]

\* What a request has read before its first transaction.
Data(op) ==
    CASE op = "login" -> [password : Passwords, born : Nat]
      [] op = "change" -> [password : Passwords, session : SessionIds]
      [] op = "create" -> UserRow
      [] op = "update" -> Roles
      [] op = "delete" -> {Nothing}
      [] op = "reset" -> Passwords
      [] op = "key" -> [born : Nat, clean : BOOLEAN]
      [] op = "cycle" -> [key : Nat, born : Nat, clean : BOOLEAN]
Ops == {"login", "change", "create", "update", "delete", "reset", "key", "cycle"}

\* overtaken: an administrator it may have counted on is none any more.
Request(op) == [op : {op}, user : Usernames, data : Data(op), step : Nat, alone : BOOLEAN, overtaken : BOOLEAN]

ASSUME SeedAssumption ==
    /\ IsFiniteSet(Usernames)
    /\ DOMAIN Seed \subseteq Usernames
    /\ Seed \in [DOMAIN Seed -> UserRow]
    /\ \E u \in DOMAIN Seed : Seed[u].role = "admin"

ASSUME BoundsAssumption == MaxBorn \in Nat /\ MaxKeys \in Nat

ASSUME NothingAssumption == \A op \in Ops : Nothing \notin Request(op)

VARIABLES users,      \* role and password of each account
          sessions,   \* sessions by id
          keys,       \* API keys by id, numbered; a revoked one stays, inactive
          requests,   \* the requests in flight, between their transactions
          born        \* accounts there have been under each name

accountVars == <<users, sessions, keys, requests, born>>

KeyIds == 1..MaxKeys

AccountsTypeOK ==
    /\ DOMAIN users \subseteq Usernames /\ users \in [DOMAIN users -> UserRow]
    /\ DOMAIN sessions \subseteq SessionIds /\ sessions \in [DOMAIN sessions -> SessionRow]
    /\ \E n \in 0..MaxKeys : DOMAIN keys = 1..n
    /\ keys \in [DOMAIN keys -> KeyRow]
    /\ requests = [r \in Requests |-> requests[r]]
    /\ \A r \in Requests : requests[r] # Nothing => \E op \in Ops : requests[r] \in Request(op)
    /\ born \in [Usernames -> Nat]

Admins == {u \in DOMAIN users : users[u].role = "admin"}

AccountsInit ==
    /\ users = Seed
    /\ sessions = <<>> /\ keys = <<>>
    /\ requests = [r \in Requests |-> Nothing]
    /\ born = [u \in Usernames |-> IF u \in DOMAIN Seed THEN 1 ELSE 0]

\* require_admin. Whoever has an account may call: the session or the key of the call itself
\* need not be among those the instance has room for.
IsAdmin(u) == u \in Admins

Busy == {r \in Requests : requests[r] # Nothing}
On(u) == {r \in Busy : requests[r].user = u}
Removals(u) == {r \in On(u) : requests[r].op \in {"delete", "reset", "change"}}

\* A request begins: it is alone with its user until another names the same one.
Begin(op, u, data) == \E r \in Requests \ Busy :
    /\ requests' = [q \in Requests |->
         IF q = r THEN [op |-> op, user |-> u, data |-> data, step |-> 1, alone |-> On(u) = {}, overtaken |-> FALSE]
         ELSE IF q \in On(u) THEN [requests[q] EXCEPT !.alone = FALSE] ELSE requests[q]]
    /\ UNCHANGED <<users, sessions, keys, born>>

At(r, op, step) == r \in Busy /\ requests[r].op = op /\ requests[r].step = step
Continue(r) == requests' = [requests EXCEPT ![r].step = @ + 1]
\* The last transaction. Removals of an admin that others have read about are noted with them.
End(r) == requests' = [q \in Requests |->
    IF q = r THEN Nothing
    ELSE IF q \in Busy /\ Cardinality({u \in Admins : u \in DOMAIN users' /\ users'[u].role = "admin"}) < Cardinality(Admins)
         THEN [requests[q] EXCEPT !.overtaken = TRUE] ELSE requests[q]]

-----------------------------------------------------------------------------
(* routes/auth.py                                                          *)

Login == \E u \in DOMAIN users :
    Begin("login", u, [password |-> users[u].password, born |-> born[u]])

FreshSessions == SessionIds \ (DOMAIN sessions \cup {requests[q].data.session : q \in {p \in Busy : requests[p].op = "change"}})

\* touch_last_login and create_session do not ask whether the password still is that one.
CreateSession(r, s) ==
    /\ At(r, "login", 1) /\ s \in FreshSessions
    /\ sessions' = [t \in DOMAIN sessions \cup {s} |-> IF t \in DOMAIN sessions THEN sessions[t] ELSE
                     [user |-> requests[r].user, born |-> requests[r].data.born,
                      password |-> requests[r].data.password, clean |-> requests[r].alone]]
    /\ UNCHANGED <<users, keys, born>> /\ End(r)

\* Or the session's time is up.
Logout == \E s \in DOMAIN sessions :
    /\ sessions' = Restrict(sessions, DOMAIN sessions \ {s})
    /\ UNCHANGED <<users, keys, requests, born>>

SetPassword(u, p) == users' = [v \in DOMAIN users |-> IF v = u THEN [users[v] EXCEPT !.password = p] ELSE users[v]]

ChangePassword == \E s \in DOMAIN sessions, p \in Passwords :
    /\ sessions[s].user \in DOMAIN users
    /\ Begin("change", sessions[s].user, [password |-> p, session |-> s])

ChangeStores(r) ==
    /\ At(r, "change", 1)
    /\ SetPassword(requests[r].user, requests[r].data.password)
    /\ UNCHANGED <<sessions, keys, born>> /\ Continue(r)

\* invalidate_all_sessions but the one in use, which the new password stands for from now on.
ChangeSignsOut(r) ==
    /\ At(r, "change", 2)
    /\ LET u == requests[r].user
           kept == requests[r].data.session
       IN sessions' = [s \in {t \in DOMAIN sessions : sessions[t].user # u \/ t = kept} |->
                         IF s = kept THEN [sessions[s] EXCEPT !.password = requests[r].data.password,
                                                              !.clean = @ /\ requests[r].alone] ELSE sessions[s]]
    /\ UNCHANGED <<users, keys, born>> /\ End(r)

-----------------------------------------------------------------------------
(* routes/users.py                                                         *)

CreateUser == \E by, u \in Usernames, role \in Roles, p \in Passwords :
    /\ IsAdmin(by) /\ u \notin DOMAIN users /\ born[u] < MaxBorn
    /\ Begin("create", u, [role |-> role, password |-> p])

\* The primary key refuses a second account of the name.
CreateUserCommits(r) ==
    /\ At(r, "create", 1)
    /\ LET u == requests[r].user
       IN IF u \in DOMAIN users THEN UNCHANGED <<users, born>>
          ELSE /\ users' = [v \in DOMAIN users \cup {u} |-> IF v = u THEN requests[r].data ELSE users[v]]
               /\ born' = [born EXCEPT ![u] = @ + 1]
    /\ UNCHANGED <<sessions, keys>> /\ End(r)

\* Mutant: neither is asked.
RemovableByAnyAdmin(by, u) == TRUE
\* SELF_DEMOTE, SELF_DELETE and LAST_ADMIN.
Removable(by, u) == by # u /\ (users[u].role = "admin" => Cardinality(Admins) > 1)

UpdateUser == \E by \in Usernames, u \in DOMAIN users, role \in Roles :
    /\ IsAdmin(by)
    /\ IF role = "admin" THEN by # u ELSE Removable(by, u)
    /\ Begin("update", u, role)

UpdateUserCommits(r) ==
    /\ At(r, "update", 1)
    /\ users' = [v \in DOMAIN users |-> IF v = requests[r].user THEN [users[v] EXCEPT !.role = requests[r].data] ELSE users[v]]
    /\ UNCHANGED <<sessions, keys, born>> /\ End(r)

DeleteUser == \E by \in Usernames, u \in DOMAIN users :
    /\ IsAdmin(by) /\ Removable(by, u)
    /\ Begin("delete", u, Nothing)

SignOut(u) == sessions' = Restrict(sessions, {s \in DOMAIN sessions : sessions[s].user # u})

DeleteSignsOut(r) == At(r, "delete", 1) /\ SignOut(requests[r].user) /\ Continue(r) /\ UNCHANGED <<users, keys, born>>

\* Mutant: the sessions go, the keys stay.
RevokeNoKeys(u) == keys
RevokeUserKeys(u) == [k \in DOMAIN keys |-> IF keys[k].user = u THEN [keys[k] EXCEPT !.active = FALSE] ELSE keys[k]]

DeleteRevokes(r) == /\ At(r, "delete", 2) /\ keys' = RevokeUserKeys(requests[r].user)
                    /\ Continue(r) /\ UNCHANGED <<users, sessions, born>>

DeleteCommits(r) ==
    /\ At(r, "delete", 3)
    /\ users' = Restrict(users, DOMAIN users \ {requests[r].user})
    /\ UNCHANGED <<sessions, keys, born>> /\ End(r)

ResetPassword == \E by \in Usernames, u \in DOMAIN users, p \in Passwords :
    /\ IsAdmin(by) /\ by # u
    /\ Begin("reset", u, p)

ResetSignsOut(r) == At(r, "reset", 1) /\ SignOut(requests[r].user) /\ Continue(r) /\ UNCHANGED <<users, keys, born>>

ResetStores(r) ==
    /\ At(r, "reset", 2)
    /\ SetPassword(requests[r].user, requests[r].data)
    /\ UNCHANGED <<sessions, keys, born>> /\ End(r)

-----------------------------------------------------------------------------
(* routes/api_keys.py                                                      *)

NewKey(r) == [k \in DOMAIN keys \cup {Cardinality(DOMAIN keys) + 1} |-> IF k \in DOMAIN keys THEN keys[k] ELSE
    [user |-> requests[r].user, born |-> requests[r].data.born, active |-> TRUE, clean |-> requests[r].alone /\ requests[r].data.clean]]

CreateKey == \E by \in Usernames, u \in DOMAIN users :
    IsAdmin(by) /\ Begin("key", u, [born |-> born[u], clean |-> TRUE])

CreateKeyCommits(r) ==
    /\ At(r, "key", 1) /\ DOMAIN keys # KeyIds
    /\ keys' = NewKey(r)
    /\ UNCHANGED <<users, sessions, born>> /\ End(r)

\* Whose key it is, and whether it still is active, is not looked at: the replacement of a
\* revoked key is an active key of the same name.
CycleKey == \E by \in Usernames, k \in DOMAIN keys :
    /\ IsAdmin(by)
    /\ Begin("cycle", keys[k].user, [key |-> k, born |-> born[keys[k].user], clean |-> keys[k].active /\ keys[k].clean])

CycleCreates(r) ==
    /\ At(r, "cycle", 1) /\ DOMAIN keys # KeyIds
    /\ keys' = NewKey(r)
    /\ UNCHANGED <<users, sessions, born>> /\ Continue(r)

CycleRevokes(r) ==
    /\ At(r, "cycle", 2)
    /\ keys' = [keys EXCEPT ![requests[r].data.key].active = FALSE]
    /\ UNCHANGED <<users, sessions, born>> /\ End(r)

\* revoke_key, or the key's last day passes.
RevokeKey == \E k \in DOMAIN keys :
    /\ keys' = [keys EXCEPT ![k].active = FALSE]
    /\ keys[k].active
    /\ UNCHANGED <<users, sessions, requests, born>>

\* verify_key, check_key: what the MCP server is told of a key.
Answer(k) == IF k \in DOMAIN keys /\ keys[k].active /\ keys[k].user \in DOMAIN users
             THEN users[keys[k].user].role ELSE "unusable"

-----------------------------------------------------------------------------

\* The server stops, or a transaction fails, between two of them.
Abandon(r) ==
    /\ r \in Busy
    /\ requests' = [requests EXCEPT ![r] = Nothing]
    /\ sessions' = [s \in DOMAIN sessions |->
         IF sessions[s].user = requests[r].user /\ At(r, "change", 2) THEN [sessions[s] EXCEPT !.clean = FALSE] ELSE sessions[s]]
    /\ UNCHANGED <<users, keys, born>>

AccountsNext ==
    \/ Login \/ Logout \/ ChangePassword
    \/ CreateUser \/ UpdateUser \/ DeleteUser \/ ResetPassword
    \/ CreateKey \/ CycleKey \/ RevokeKey
    \/ \E r \in Requests :
         \/ \E s \in SessionIds : CreateSession(r, s)
         \/ CreateKeyCommits(r) \/ CycleCreates(r)
         \/ ChangeStores(r) \/ ChangeSignsOut(r) \/ CreateUserCommits(r) \/ UpdateUserCommits(r)
         \/ DeleteSignsOut(r) \/ DeleteRevokes(r) \/ DeleteCommits(r) \/ ResetSignsOut(r) \/ ResetStores(r)
         \/ CycleRevokes(r) \/ Abandon(r)

\* The accounts on their own, whatever their grants are.
AccountsSpec == AccountsInit /\ [][AccountsNext]_accountVars


-----------------------------------------------------------------------------
(* Properties                                                              *)

\* services/auth.py, routes/users.py, auth.py: a session or a key is of the account that has
\* its name now, and a session is of its password: deleting the account, resetting or changing
\* the password takes the others along. But for what was issued while another request on that
\* user was in flight, a change that stopped half-way, and the replacement of a revoked key.
CredentialsMatchTheirAccount ==
    /\ \A s \in DOMAIN sessions : LET c == sessions[s] IN
         c.clean /\ Removals(c.user) = {} => c.user \in DOMAIN users /\ c.born = born[c.user] /\ c.password = users[c.user].password
    /\ \A k \in DOMAIN keys : LET c == keys[k] IN
         c.active /\ c.clean /\ Removals(c.user) = {} => c.user \in DOMAIN users /\ c.born = born[c.user]

\* users.py: the last administrator is not demoted or deleted, but by a request that found
\* another one who was removed since.
AnAdminRemains ==
    [][Admins' = {} => Admins = {} \/ \E r \in Busy : requests[r].overtaken /\ requests'[r] = Nothing]_accountVars
=============================================================================
