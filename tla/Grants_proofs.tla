---------------------------- MODULE Grants_proofs ----------------------------
(***************************************************************************)
(* What holds of accounts, sessions and keys for any number of users,      *)
(* sessions, keys and requests in flight; then, beside them, of the grants *)
(* of the MCP server for any number of codes, tokens and handlers.         *)
(***************************************************************************)
EXTENDS Grants, FiniteSetTheorems, TLAPS

-----------------------------------------------------------------------------
(* Accounts: the inductive invariant                                       *)

\* A request that is alone with its user is the only one in flight on that user.
AloneIsAlone == \A r \in Busy : requests[r].alone => On(requests[r].user) = {r}

\* What such a request has read about the account still holds.
Found(r) ==
    LET u == requests[r].user
        d == requests[r].data
        op == requests[r].op
    IN /\ op = "login" \/ (op \in {"key", "cycle"} /\ d.clean)
            => u \in DOMAIN users /\ d.born = born[u]
       /\ op = "login" => d.password = users[u].password
       /\ op = "change" => /\ u \in DOMAIN users
                           /\ requests[r].step = 2 => d.password = users[u].password
FoundStillHolds == \A r \in Busy : requests[r].alone => Found(r)

\* A clean session is of its account and of its password, or the change of the
\* password has its sign-out to come.
Follows(c) == /\ c.user \in DOMAIN users /\ c.born = born[c.user]
              /\ \/ c.password = users[c.user].password
                 \/ \E r \in On(c.user) : requests[r].op = "change" /\ requests[r].step = 2
SessionsFollow == \A s \in DOMAIN sessions : sessions[s].clean => Follows(sessions[s])

Usable(c) == c.active /\ c.clean
KeysFollow == \A k \in DOMAIN keys :
    Usable(keys[k]) => keys[k].user \in DOMAIN users /\ keys[k].born = born[keys[k].user]

\* Between the transactions of a removal only requests that are not alone issue anything.
SignedOut == \A r \in Busy : requests[r].op \in {"delete", "reset"} /\ requests[r].step >= 2 =>
    \A s \in DOMAIN sessions : sessions[s].user = requests[r].user => ~ sessions[s].clean
KeysRevoked == \A r \in Busy : requests[r].op = "delete" /\ requests[r].step >= 3 =>
    \A k \in DOMAIN keys : keys[k].user = requests[r].user => ~ Usable(keys[k])

\* The session a password is changed in is not given to anyone else.
OwnSession == \A r \in Busy : requests[r].op = "change" =>
    \A s \in DOMAIN sessions : s = requests[r].data.session => sessions[s].user = requests[r].user

\* A request that takes an administrator away has found another one, who still is
\* one unless the request is overtaken.
Takes(r) == requests[r].op = "delete" \/ (requests[r].op = "update" /\ requests[r].data # "admin")
AnotherAdmin == \A r \in Busy : Takes(r) /\ ~ requests[r].overtaken =>
    \E v \in Admins : v # requests[r].user

Invariant ==
    /\ AccountsTypeOK
    /\ AloneIsAlone /\ FoundStillHolds
    /\ SessionsFollow /\ KeysFollow
    /\ SignedOut /\ KeysRevoked /\ OwnSession
    /\ AnotherAdmin

-----------------------------------------------------------------------------
(* Requests                                                                *)

LEMMA RequestRows ==
  ASSUME AccountsTypeOK, NEW r \in Busy
  PROVE  /\ requests[r].op \in Ops
         /\ requests[r] \in Request(requests[r].op)
         /\ requests[r].user \in Usernames
         /\ requests[r].data \in Data(requests[r].op)
         /\ requests[r].step \in Nat
         /\ requests[r].alone \in BOOLEAN
         /\ requests[r].overtaken \in BOOLEAN
<1>1. PICK op \in Ops : requests[r] \in Request(op)
  BY DEF AccountsTypeOK, Busy
<1>2. requests[r].op = op
  BY <1>1 DEF Request
<1>3. QED
  BY <1>1, <1>2 DEF Request

\* A request is between its transactions, and so is what the others know of it.
Kept(q) == /\ requests'[q].op = requests[q].op
           /\ requests'[q].user = requests[q].user
           /\ requests'[q].data = requests[q].data

RequestsTyped == /\ requests = [r \in Requests |-> requests[r]]
                 /\ \A r \in Requests : requests[r] # Nothing => \E op \in Ops : requests[r] \in Request(op)

LEMMA Began ==
  ASSUME AccountsTypeOK, NEW op \in Ops, NEW u \in Usernames, NEW d \in Data(op), Begin(op, u, d)
  PROVE  /\ RequestsTyped'
         /\ UNCHANGED <<users, sessions, keys, born>>
         /\ \E r \in Requests \ Busy :
              /\ Busy' = Busy \cup {r}
              /\ requests'[r].op = op /\ requests'[r].user = u /\ requests'[r].data = d
              /\ requests'[r].step = 1 /\ (requests'[r].alone <=> On(u) = {})
              /\ ~ requests'[r].overtaken
              /\ \A q \in Busy : /\ Kept(q)
                                 /\ requests'[q].step = requests[q].step
                                 /\ requests'[q].alone <=> requests[q].alone /\ requests[q].user # u
                                 /\ requests'[q].overtaken <=> requests[q].overtaken
<1> DEFINE new == [op |-> op, user |-> u, data |-> d, step |-> 1, alone |-> On(u) = {}, overtaken |-> FALSE]
<1>1. PICK r \in Requests \ Busy :
        requests' = [q \in Requests |-> IF q = r THEN new
                                        ELSE IF q \in On(u) THEN [requests[q] EXCEPT !.alone = FALSE]
                                        ELSE requests[q]]
  BY DEF Begin
<1>2. new \in Request(op)
  BY DEF Request
<1>3. \A q \in Busy : [requests[q] EXCEPT !.alone = FALSE] \in Request(requests[q].op)
  BY RequestRows DEF Request
<1>4. \A q \in Requests : /\ q = r => requests'[q] = new
                          /\ q # r /\ q \in On(u) => requests'[q] = [requests[q] EXCEPT !.alone = FALSE]
                          /\ q # r /\ q \notin On(u) => requests'[q] = requests[q]
  BY <1>1
<1>5. On(u) \subseteq Busy
  BY DEF On
<1>6. \A q \in Requests : IF q \in Busy \cup {r} THEN \E o \in Ops : requests'[q] \in Request(o)
                                                  ELSE requests'[q] = Nothing
  <2> TAKE q \in Requests
  <2> HIDE DEF new
  <2>1. CASE q = r
    BY <2>1, <1>2, <1>4
  <2>2. CASE q # r /\ q \in On(u)
    <3>1. q \in Busy /\ requests[q].op \in Ops
      BY <2>2, <1>5, RequestRows
    <3>2. QED
      BY <2>2, <3>1, <1>3, <1>4
  <2>3. CASE q # r /\ q \notin On(u)
    <3>1. requests'[q] = requests[q]
      BY <2>3, <1>4
    <3>2. q \in Busy => requests[q].op \in Ops /\ requests[q] \in Request(requests[q].op)
      BY RequestRows
    <3>3. q \notin Busy => requests[q] = Nothing
      BY DEF Busy
    <3>4. QED
      BY <2>3, <3>1, <3>2, <3>3
  <2>4. QED
    BY <2>1, <2>2, <2>3
<1>7. \A q \in Requests : requests'[q] # Nothing <=> q \in Busy \cup {r}
  BY <1>6, NothingAssumption
<1>8. \A q \in Busy : /\ Kept(q)
                      /\ requests'[q].step = requests[q].step
                      /\ requests'[q].alone <=> requests[q].alone /\ requests[q].user # u
                      /\ requests'[q].overtaken <=> requests[q].overtaken
  <2> TAKE q \in Busy
  <2>1. q \in Requests /\ q # r /\ requests[q] \in Request(requests[q].op)
    BY RequestRows DEF Busy
  <2>2. CASE q \in On(u)
    BY <2>1, <2>2, <1>4, RequestRows, ZenonT(60) DEF Kept, On, Request
  <2>3. CASE q \notin On(u)
    <3>1. requests'[q] = requests[q] /\ requests[q].user # u
      BY <2>1, <2>3, <1>4 DEF On
    <3>2. QED
      BY <3>1, RequestRows DEF Kept
  <2>4. QED
    BY <2>2, <2>3
<1>9. requests' = [q \in Requests |-> requests'[q]]
  BY <1>1
<1>10. Busy' = Busy \cup {r}
  BY <1>7 DEF Busy
<1>11. QED
  BY <1>1, <1>4, <1>6, <1>8, <1>9, <1>10 DEF RequestsTyped, Begin
\* A request that comes to the end of a transaction leaves the others where they are.
Advance(r) ==
    /\ RequestsTyped'
    /\ Busy' \subseteq Busy /\ Busy \ {r} \subseteq Busy'
    /\ \A q \in Busy' : /\ Kept(q)
                        /\ requests'[q].alone <=> requests[q].alone
                        /\ requests[q].overtaken => requests'[q].overtaken
                        /\ q # r => requests'[q].step = requests[q].step

LEMMA Continued ==
  ASSUME AccountsTypeOK, NEW r \in Busy, Continue(r)
  PROVE  /\ Advance(r)
         /\ Busy' = Busy /\ requests'[r].step = requests[r].step + 1
<1>1. \A q \in Requests : /\ q # r => requests'[q] = requests[q]
                          /\ q = r => requests'[q] = [requests[q] EXCEPT !.step = @ + 1]
  BY DEF Continue, AccountsTypeOK
<1>2. [requests[r] EXCEPT !.step = @ + 1] \in Request(requests[r].op)
  BY RequestRows DEF Request
<1>3. r \in Requests /\ requests[r].op \in Ops
  BY RequestRows DEF Busy
<1>4. requests'[r] # Nothing
  BY <1>1, <1>2, <1>3, NothingAssumption
<1>5. Busy' = Busy
  BY <1>1, <1>4 DEF Busy
<1>6. requests' = [q \in Requests |-> requests'[q]]
  BY DEF Continue, AccountsTypeOK
<1>7. \A q \in Requests : requests'[q] # Nothing => \E o \in Ops : requests'[q] \in Request(o)
  <2> TAKE q \in Requests
  <2>1. CASE q = r
    BY <2>1, <1>1, <1>2, <1>3
  <2>2. CASE q # r
    BY <2>2, <1>1 DEF AccountsTypeOK
  <2>3. QED
    BY <2>1, <2>2
<1>8. /\ Kept(r) /\ (requests'[r].alone <=> requests[r].alone)
      /\ (requests'[r].overtaken <=> requests[r].overtaken)
      /\ requests'[r].step = requests[r].step + 1
  BY <1>1, <1>3, RequestRows DEF Kept, Request
<1>9. \A q \in Busy \ {r} : requests'[q] = requests[q]
  BY <1>1 DEF Busy
<1>10. QED
  BY <1>5, <1>6, <1>7, <1>8, <1>9 DEF Advance, RequestsTyped, Kept

\* An administrator is none any more.
Fewer == Cardinality({u \in Admins : u \in DOMAIN users' /\ users'[u].role = "admin"}) < Cardinality(Admins)

LEMMA Ended ==
  ASSUME AccountsTypeOK, NEW r \in Busy, End(r)
  PROVE  /\ Advance(r)
         /\ Busy' = Busy \ {r}
         /\ Fewer => \A q \in Busy' : requests'[q].overtaken
<1>1. \A q \in Requests : /\ q = r => requests'[q] = Nothing
                          /\ q # r /\ q \in Busy /\ Fewer => requests'[q] = [requests[q] EXCEPT !.overtaken = TRUE]
                          /\ q # r /\ ~ (q \in Busy /\ Fewer) => requests'[q] = requests[q]
  BY DEF End, Fewer
<1>2. \A q \in Busy : [requests[q] EXCEPT !.overtaken = TRUE] \in Request(requests[q].op)
  BY RequestRows DEF Request
<1>3. \A q \in Busy \ {r} : /\ requests'[q] \in Request(requests[q].op)
                            /\ Kept(q) /\ (requests'[q].alone <=> requests[q].alone)
                            /\ requests'[q].step = requests[q].step
                            /\ requests[q].overtaken => requests'[q].overtaken
                            /\ Fewer => requests'[q].overtaken
  <2> TAKE q \in Busy \ {r}
  <2>1. q \in Requests /\ requests[q] \in Request(requests[q].op)
    BY RequestRows DEF Busy
  <2>2. CASE Fewer
    BY <2>1, <2>2, <1>1, <1>2, RequestRows DEF Kept, Request
  <2>3. CASE ~ Fewer
    <3>1. requests'[q] = requests[q]
      BY <2>1, <2>3, <1>1
    <3>2. QED
      BY <2>1, <2>3, <3>1 DEF Kept
  <2>4. QED
    BY <2>2, <2>3
<1>4. \A q \in Requests : q \notin Busy \ {r} => requests'[q] = Nothing
  BY <1>1 DEF Busy
<1>5. \A q \in Busy \ {r} : requests'[q] # Nothing /\ requests[q].op \in Ops
  BY <1>3, RequestRows, NothingAssumption
<1>6. Busy' = Busy \ {r}
  BY <1>4, <1>5 DEF Busy
<1>7. requests' = [q \in Requests |-> requests'[q]]
  BY DEF End
<1>8. \A q \in Requests : requests'[q] # Nothing => \E o \in Ops : requests'[q] \in Request(o)
  BY <1>3, <1>4, <1>5
<1>9. QED
  BY <1>3, <1>6, <1>7, <1>8 DEF Advance, RequestsTyped

LEMMA Abandoned ==
  ASSUME AccountsTypeOK, NEW r \in Busy, requests' = [requests EXCEPT ![r] = Nothing]
  PROVE  /\ Advance(r)
         /\ Busy' = Busy \ {r}
<1>1. \A q \in Requests : requests'[q] = IF q = r THEN Nothing ELSE requests[q]
  BY DEF AccountsTypeOK
<1>2. Busy' = Busy \ {r}
  BY <1>1 DEF Busy
<1>3. requests' = [q \in Requests |-> requests'[q]]
  BY DEF AccountsTypeOK
<1>4. \A q \in Requests : requests'[q] # Nothing => \E o \in Ops : requests'[q] \in Request(o)
  BY <1>1 DEF AccountsTypeOK
<1>5. \A q \in Busy' : requests'[q] = requests[q]
  BY <1>1, <1>2 DEF Busy
<1>6. QED
  BY <1>2, <1>3, <1>4, <1>5 DEF Advance, RequestsTyped, Kept
-----------------------------------------------------------------------------
(* A request begins                                                        *)

\* It has read what still holds, the session is its user's, and whoever loses an
\* administrator has found another one.
LEMMA BeginKeeps ==
  ASSUME Invariant, NEW op \in Ops, NEW u \in Usernames, NEW d \in Data(op), Begin(op, u, d),
         On(u) = {} =>
           /\ op = "login" \/ (op \in {"key", "cycle"} /\ d.clean)
                => u \in DOMAIN users /\ d.born = born[u]
           /\ op = "login" => d.password = users[u].password
           /\ op = "change" => u \in DOMAIN users,
         op = "change" => \A s \in DOMAIN sessions : s = d.session => sessions[s].user = u,
         op = "delete" \/ (op = "update" /\ d # "admin") => \E v \in Admins : v # u
  PROVE  Invariant'
<1> AccountsTypeOK /\ AloneIsAlone /\ FoundStillHolds /\ SessionsFollow /\ KeysFollow
    /\ SignedOut /\ KeysRevoked /\ OwnSession /\ AnotherAdmin
  BY DEF Invariant
<1>1. RequestsTyped' /\ UNCHANGED <<users, sessions, keys, born>>
  BY Began
<1>2. PICK r \in Requests \ Busy :
        /\ Busy' = Busy \cup {r}
        /\ requests'[r].op = op /\ requests'[r].user = u /\ requests'[r].data = d
        /\ requests'[r].step = 1 /\ (requests'[r].alone <=> On(u) = {})
        /\ ~ requests'[r].overtaken
        /\ \A q \in Busy : /\ Kept(q)
                           /\ requests'[q].step = requests[q].step
                           /\ requests'[q].alone <=> requests[q].alone /\ requests[q].user # u
                           /\ requests'[q].overtaken <=> requests[q].overtaken
  BY Began
<1>3. AccountsTypeOK'
  BY <1>1 DEF AccountsTypeOK, RequestsTyped
<1>4. AloneIsAlone'
  <2> SUFFICES ASSUME NEW q \in Busy', requests'[q].alone PROVE On(requests[q].user)' = {q}
    BY DEF AloneIsAlone
  <2>1. CASE q = r
    <3>1. On(u) = {}
      BY <2>1, <1>2
    <3>2. \A p \in Busy : requests'[p].user # u
      BY <3>1, <1>2 DEF On, Kept
    <3>3. QED
      BY <3>2, <2>1, <1>2 DEF On
  <2>2. CASE q # r
    <3>1. /\ q \in Busy /\ requests[q].alone /\ requests[q].user # u
          /\ requests'[q].user = requests[q].user
      BY <2>2, <1>2 DEF Kept
    <3>2. On(requests[q].user) = {q}
      BY <3>1 DEF AloneIsAlone
    <3>3. QED
      BY <3>1, <3>2, <1>2 DEF On, Kept
  <2>3. QED
    BY <2>1, <2>2
<1>5. FoundStillHolds'
  <2> SUFFICES ASSUME NEW q \in Busy', requests'[q].alone PROVE Found(q)'
    BY DEF FoundStillHolds
  <2>1. CASE q = r
    BY <2>1, <1>1, <1>2 DEF Found
  <2>2. CASE q # r
    <3>1. q \in Busy /\ requests[q].alone /\ Kept(q) /\ requests'[q].step = requests[q].step
      BY <2>2, <1>2
    <3>2. Found(q)
      BY <3>1 DEF FoundStillHolds
    <3>3. QED
      BY <3>1, <3>2, <1>1 DEF Found, Kept
  <2>3. QED
    BY <2>1, <2>2
<1>6. SessionsFollow'
  <2> SUFFICES ASSUME NEW s \in DOMAIN sessions, sessions[s].clean PROVE Follows(sessions[s])'
    BY <1>1 DEF SessionsFollow
  <2>1. Follows(sessions[s])
    BY DEF SessionsFollow
  <2>2. \A v : \A q \in On(v) : q \in On(v)' /\ requests'[q].op = requests[q].op /\ requests'[q].step = requests[q].step
    BY <1>2 DEF On, Kept
  <2>3. QED
    BY <2>1, <2>2, <1>1 DEF Follows
<1>7. KeysFollow'
  BY <1>1 DEF KeysFollow, Usable
<1>8. SignedOut' /\ KeysRevoked'
  BY <1>1, <1>2 DEF SignedOut, KeysRevoked, Kept, Usable
<1>9. OwnSession'
  BY <1>1, <1>2 DEF OwnSession, Kept
<1>10. AnotherAdmin'
  BY <1>1, <1>2 DEF AnotherAdmin, Takes, Kept, Admins
<1>11. QED
  BY <1>3, <1>4, <1>5, <1>6, <1>7, <1>8, <1>9, <1>10 DEF Invariant

-----------------------------------------------------------------------------
(* A request comes to the end of a transaction                             *)

\* A transaction writes the account of its own user.
Elsewhere(u) == \A v \in Usernames \ {u} :
    /\ v \in DOMAIN users' <=> v \in DOMAIN users
    /\ v \in DOMAIN users => users'[v] = users[v]
    /\ born'[v] = born[v]

LEMMA AdvanceAlone ==
  ASSUME AloneIsAlone, NEW r \in Busy, Advance(r)
  PROVE  AloneIsAlone'
<1> SUFFICES ASSUME NEW q \in Busy', requests'[q].alone PROVE On(requests[q].user)' = {q}
  BY DEF AloneIsAlone
<1>1. q \in Busy /\ requests[q].alone /\ requests'[q].user = requests[q].user
  BY DEF Advance, Kept
<1>2. On(requests[q].user) = {q}
  BY <1>1 DEF AloneIsAlone
<1>3. \A p \in Busy' : p \in Busy /\ requests'[p].user = requests[p].user
  BY DEF Advance, Kept
<1>4. QED
  BY <1>1, <1>2, <1>3 DEF On

LEMMA AdvanceFound ==
  ASSUME AccountsTypeOK, AloneIsAlone, FoundStillHolds, NEW r \in Busy, Advance(r),
         Elsewhere(requests[r].user),
         r \in Busy' /\ requests'[r].alone => Found(r)'
  PROVE  FoundStillHolds'
<1> SUFFICES ASSUME NEW q \in Busy', requests'[q].alone, q # r PROVE Found(q)'
  BY DEF FoundStillHolds
<1>1. q \in Busy /\ requests[q].alone /\ Kept(q) /\ requests'[q].step = requests[q].step
  BY DEF Advance
<1>2. Found(q) /\ On(requests[q].user) = {q}
  BY <1>1 DEF FoundStillHolds, AloneIsAlone
<1>3. requests[q].user \in Usernames \ {requests[r].user}
  BY <1>1, <1>2, RequestRows DEF On
<1>4. QED
  BY <1>1, <1>2, <1>3 DEF Found, Kept, Elsewhere

LEMMA AdvanceFollows ==
  ASSUME NEW r \in Busy, Advance(r), Elsewhere(requests[r].user),
         NEW c \in SessionRow, c.user # requests[r].user, Follows(c)
  PROVE  Follows(c)'
<1>1. c.user \in Usernames \ {requests[r].user}
  BY DEF SessionRow
<1>2. \A q \in On(c.user) : /\ q \in On(c.user)'
                            /\ requests'[q].op = requests[q].op
                            /\ requests'[q].step = requests[q].step
  BY DEF On, Advance, Kept
<1>3. QED
  BY <1>1, <1>2 DEF Follows, Elsewhere

\* What is clean was clean before or comes from a request that is alone.
LEMMA AdvanceSignedOut ==
  ASSUME AloneIsAlone, SignedOut, NEW r \in Busy, Advance(r),
         \A s \in DOMAIN sessions' : sessions'[s].clean =>
           \/ s \in DOMAIN sessions /\ sessions[s].clean /\ sessions'[s].user = sessions[s].user
           \/ requests[r].alone /\ sessions'[s].user = requests[r].user,
         r \in Busy' /\ requests[r].op \in {"delete", "reset"} /\ requests'[r].step >= 2 =>
           \A s \in DOMAIN sessions' : sessions'[s].user = requests[r].user => ~ sessions'[s].clean
  PROVE  SignedOut'
<1> SUFFICES ASSUME NEW q \in Busy', requests'[q].op \in {"delete", "reset"}, requests'[q].step >= 2,
                    NEW s \in DOMAIN sessions', sessions'[s].user = requests'[q].user, sessions'[s].clean
             PROVE  FALSE
  BY DEF SignedOut
<1>1. q \in Busy /\ Kept(q)
  BY DEF Advance
<1>2. CASE q = r
  BY <1>1, <1>2 DEF Kept
<1>3. CASE q # r
  <2>1. requests[q].op \in {"delete", "reset"} /\ requests[q].step >= 2
    BY <1>1, <1>3 DEF Advance, Kept
  <2>2. requests[r].alone => requests[q].user # requests[r].user
    BY <1>1, <1>3 DEF AloneIsAlone, On
  <2>3. QED
    BY <1>1, <2>1, <2>2 DEF SignedOut, Kept
<1>4. QED
  BY <1>2, <1>3

LEMMA AdvanceRevoked ==
  ASSUME AloneIsAlone, KeysRevoked, NEW r \in Busy, Advance(r),
         \A k \in DOMAIN keys' : Usable(keys'[k]) =>
           \/ k \in DOMAIN keys /\ Usable(keys[k]) /\ keys'[k].user = keys[k].user
           \/ requests[r].alone /\ keys'[k].user = requests[r].user,
         r \in Busy' /\ requests[r].op = "delete" /\ requests'[r].step >= 3 =>
           \A k \in DOMAIN keys' : keys'[k].user = requests[r].user => ~ Usable(keys'[k])
  PROVE  KeysRevoked'
<1> SUFFICES ASSUME NEW q \in Busy', requests'[q].op = "delete", requests'[q].step >= 3,
                    NEW k \in DOMAIN keys', keys'[k].user = requests'[q].user, Usable(keys'[k])
             PROVE  FALSE
  BY DEF KeysRevoked, Usable
<1>1. q \in Busy /\ Kept(q)
  BY DEF Advance
<1>2. CASE q = r
  BY <1>1, <1>2 DEF Kept
<1>3. CASE q # r
  <2>1. requests[q].op = "delete" /\ requests[q].step >= 3
    BY <1>1, <1>3 DEF Advance, Kept
  <2>2. requests[r].alone => requests[q].user # requests[r].user
    BY <1>1, <1>3 DEF AloneIsAlone, On
  <2>3. QED
    BY <1>1, <2>1, <2>2 DEF KeysRevoked, Kept
<1>4. QED
  BY <1>2, <1>3

LEMMA AdvanceOwnSession ==
  ASSUME OwnSession, NEW r \in Busy, Advance(r),
         \A s \in DOMAIN sessions' :
           \/ s \in DOMAIN sessions /\ sessions'[s].user = sessions[s].user
           \/ \A q \in Busy : requests[q].op = "change" => requests[q].data.session # s
  PROVE  OwnSession'
  BY DEF OwnSession, Advance, Kept

LEMMA AdvanceAnotherAdmin ==
  ASSUME AnotherAdmin, NEW r \in Busy, Advance(r),
         Admins \subseteq Admins' \/ \A q \in Busy' : requests'[q].overtaken
  PROVE  AnotherAdmin'
  BY DEF AnotherAdmin, Advance, Kept, Takes

LEMMA AdminsStay ==
  ASSUME AccountsTypeOK, ~ Fewer
  PROVE  Admins \subseteq Admins'
<1> DEFINE stay == {u \in Admins : u \in DOMAIN users' /\ users'[u].role = "admin"}
<1>1. IsFiniteSet(Admins)
  <2>1. Admins \in SUBSET Usernames
    BY DEF Admins, AccountsTypeOK
  <2>2. QED
    BY <2>1, SeedAssumption, FS_Subset
<1>2. stay \in SUBSET Admins
  OBVIOUS
<1>3. Cardinality(stay) <= Cardinality(Admins) /\ (Cardinality(Admins) = Cardinality(stay) => Admins = stay)
  BY <1>1, <1>2, FS_Subset
<1>4. Cardinality(stay) \in Nat /\ Cardinality(Admins) \in Nat
  BY <1>1, <1>2, FS_Subset, FS_CardinalityType
<1>5. Admins = stay
  BY <1>3, <1>4 DEF Fewer
<1>6. QED
  BY <1>5 DEF Admins
-----------------------------------------------------------------------------
(* A transaction on one table                                              *)

LEMMA SessionsWritten ==
  ASSUME Invariant, NEW r \in Busy, Advance(r), UNCHANGED <<users, keys, born>>,
         DOMAIN sessions' \subseteq SessionIds, sessions' \in [DOMAIN sessions' -> SessionRow],
         \A s \in DOMAIN sessions' :
           \/ s \in DOMAIN sessions /\ sessions'[s].user = sessions[s].user
           \/ \A q \in Busy : requests[q].op = "change" => requests[q].data.session # s,
         \A s \in DOMAIN sessions' : sessions'[s].clean =>
           /\ Follows(sessions[s])'
           /\ \/ s \in DOMAIN sessions /\ sessions[s].clean /\ sessions'[s].user = sessions[s].user
              \/ requests[r].alone /\ sessions'[s].user = requests[r].user,
         r \in Busy' =>
           /\ requests[r].op \in {"delete", "reset"} /\ requests'[r].step < 3
           /\ \A s \in DOMAIN sessions' : sessions'[s].user # requests[r].user
  PROVE  Invariant'
<1> AccountsTypeOK /\ AloneIsAlone /\ FoundStillHolds /\ SessionsFollow /\ KeysFollow
    /\ SignedOut /\ KeysRevoked /\ OwnSession /\ AnotherAdmin
  BY DEF Invariant
<1>1. AccountsTypeOK'
  BY DEF AccountsTypeOK, Advance, RequestsTyped
<1>2. AloneIsAlone'
  BY AdvanceAlone
<1>3. FoundStillHolds'
  <2>1. Elsewhere(requests[r].user)
    BY DEF Elsewhere
  <2>2. r \in Busy' => Found(r)'
    BY DEF Found, Advance, Kept
  <2>3. QED
    BY <2>1, <2>2, AdvanceFound
<1>4. SessionsFollow'
  BY DEF SessionsFollow
<1>5. KeysFollow'
  BY DEF KeysFollow, Usable
<1>6. SignedOut'
  BY AdvanceSignedOut
<1>7. KeysRevoked'
  <2>1. requests[r].op \in Ops /\ (r \in Busy' => requests'[r].step \in Nat)
    <3>1. r \in Busy' => \E o \in Ops : requests'[r] \in Request(o)
      BY DEF Advance, RequestsTyped, Busy
    <3>2. QED
      BY <3>1, RequestRows DEF Request
  <2>2. QED
    BY <2>1, AdvanceRevoked
<1>8. OwnSession'
  BY AdvanceOwnSession
<1>9. AnotherAdmin'
  <2>1. Admins \subseteq Admins'
    BY DEF Admins
  <2>2. QED
    BY <2>1, AdvanceAnotherAdmin
<1>10. QED
  BY <1>1, <1>2, <1>3, <1>4, <1>5, <1>6, <1>7, <1>8, <1>9 DEF Invariant

LEMMA KeysWritten ==
  ASSUME Invariant, NEW r \in Busy, Advance(r), UNCHANGED <<users, sessions, born>>,
         \E n \in 0..MaxKeys : DOMAIN keys' = 1..n, keys' \in [DOMAIN keys' -> KeyRow],
         requests[r].op \in {"delete", "key", "cycle"},
         \A k \in DOMAIN keys' : Usable(keys'[k]) =>
           \/ /\ k \in DOMAIN keys /\ Usable(keys[k])
              /\ keys'[k].user = keys[k].user /\ keys'[k].born = keys[k].born
           \/ /\ requests[r].alone /\ keys'[k].user = requests[r].user
              /\ keys'[k].user \in DOMAIN users /\ keys'[k].born = born[keys'[k].user],
         r \in Busy' /\ requests[r].op = "delete" =>
           /\ requests[r].step >= 2
           /\ \A k \in DOMAIN keys' : keys'[k].user = requests[r].user => ~ Usable(keys'[k])
  PROVE  Invariant'
<1> AccountsTypeOK /\ AloneIsAlone /\ FoundStillHolds /\ SessionsFollow /\ KeysFollow
    /\ SignedOut /\ KeysRevoked /\ OwnSession /\ AnotherAdmin
  BY DEF Invariant
<1>1. AccountsTypeOK'
  BY DEF AccountsTypeOK, Advance, RequestsTyped
<1>2. AloneIsAlone'
  BY AdvanceAlone
<1>3. FoundStillHolds'
  <2>1. Elsewhere(requests[r].user)
    BY DEF Elsewhere
  <2>2. requests[r].alone => Found(r)
    BY DEF FoundStillHolds
  <2>3. r \in Busy' /\ requests'[r].alone => Found(r)'
    BY <2>2 DEF Found, Advance, Kept
  <2>4. QED
    BY <2>1, <2>3, AdvanceFound
<1>4. SessionsFollow'
  <2> SUFFICES ASSUME NEW s \in DOMAIN sessions, sessions[s].clean PROVE Follows(sessions[s])'
    BY DEF SessionsFollow
  <2>1. Follows(sessions[s])
    BY DEF SessionsFollow
  <2>2. \A v : \A q \in On(v) : requests[q].op = "change" =>
                 /\ q \in On(v)'
                 /\ requests'[q].op = "change" /\ requests'[q].step = requests[q].step
    BY DEF On, Advance, Kept
  <2>3. QED
    BY <2>1, <2>2 DEF Follows
<1>5. KeysFollow'
  BY DEF KeysFollow
<1>6. SignedOut'
  <2>1. r \in Busy' /\ requests[r].op \in {"delete", "reset"} =>
          \A s \in DOMAIN sessions : sessions[s].user = requests[r].user => ~ sessions[s].clean
    BY DEF SignedOut
  <2>2. QED
    BY <2>1, AdvanceSignedOut
<1>7. KeysRevoked'
  BY AdvanceRevoked
<1>8. OwnSession'
  BY AdvanceOwnSession
<1>9. AnotherAdmin'
  <2>1. Admins \subseteq Admins'
    BY DEF Admins
  <2>2. QED
    BY <2>1, AdvanceAnotherAdmin
<1>10. QED
  BY <1>1, <1>2, <1>3, <1>4, <1>5, <1>6, <1>7, <1>8, <1>9 DEF Invariant

LEMMA UsersWritten ==
  ASSUME Invariant, NEW r \in Busy, Advance(r), UNCHANGED <<sessions, keys>>,
         DOMAIN users' \subseteq Usernames, users' \in [DOMAIN users' -> UserRow],
         born' \in [Usernames -> Nat],
         Elsewhere(requests[r].user),
         r \in Busy' => requests[r].op = "change",
         r \in Busy' /\ requests'[r].alone => Found(r)',
         \A s \in DOMAIN sessions :
           sessions[s].clean /\ sessions[s].user = requests[r].user => Follows(sessions[s])',
         \A k \in DOMAIN keys :
           Usable(keys[k]) /\ keys[k].user = requests[r].user =>
             keys[k].user \in DOMAIN users' /\ keys[k].born = born'[keys[k].user],
         Admins \subseteq Admins' \/ \A q \in Busy' : requests'[q].overtaken
  PROVE  Invariant'
<1> AccountsTypeOK /\ AloneIsAlone /\ FoundStillHolds /\ SessionsFollow /\ KeysFollow
    /\ SignedOut /\ KeysRevoked /\ OwnSession /\ AnotherAdmin
  BY DEF Invariant
<1>1. AccountsTypeOK'
  BY DEF AccountsTypeOK, Advance, RequestsTyped
<1>2. AloneIsAlone'
  BY AdvanceAlone
<1>3. FoundStillHolds'
  BY AdvanceFound
<1>4. SessionsFollow'
  <2> SUFFICES ASSUME NEW s \in DOMAIN sessions, sessions[s].clean,
                      sessions[s].user # requests[r].user
               PROVE  Follows(sessions[s])'
    BY DEF SessionsFollow
  <2>1. Follows(sessions[s]) /\ sessions[s] \in SessionRow
    BY DEF SessionsFollow, AccountsTypeOK
  <2>2. QED
    BY <2>1, AdvanceFollows
<1>5. KeysFollow'
  <2> SUFFICES ASSUME NEW k \in DOMAIN keys, Usable(keys[k]), keys[k].user # requests[r].user
               PROVE  keys[k].user \in DOMAIN users' /\ keys[k].born = born'[keys[k].user]
    BY DEF KeysFollow, Usable
  <2>1. /\ keys[k].user \in DOMAIN users /\ keys[k].born = born[keys[k].user]
        /\ keys[k].user \in Usernames
    BY DEF KeysFollow, AccountsTypeOK, KeyRow
  <2>2. QED
    BY <2>1 DEF Elsewhere
<1>6. SignedOut'
  BY AdvanceSignedOut
<1>7. KeysRevoked'
  <2>1. \A k \in DOMAIN keys : Usable(keys'[k]) <=> Usable(keys[k])
    BY DEF Usable
  <2>2. QED
    BY <2>1, AdvanceRevoked
<1>8. OwnSession'
  BY AdvanceOwnSession
<1>9. AnotherAdmin'
  BY AdvanceAnotherAdmin
<1>10. QED
  BY <1>1, <1>2, <1>3, <1>4, <1>5, <1>6, <1>7, <1>8, <1>9 DEF Invariant
-----------------------------------------------------------------------------
(* Every step                                                              *)

LEMMA DataOf ==
  /\ Data("login") = [password : Passwords, born : Nat]
  /\ Data("change") = [password : Passwords, session : SessionIds]
  /\ Data("create") = UserRow
  /\ Data("update") = Roles
  /\ Data("delete") = {Nothing}
  /\ Data("reset") = Passwords
  /\ Data("key") = [born : Nat, clean : BOOLEAN]
  /\ Data("cycle") = [key : Nat, born : Nat, clean : BOOLEAN]
  BY DEF Data

\* A request begins by reading what it will go by.
LEMMA BeginningsKeep ==
  ASSUME Invariant,
         \/ Login \/ ChangePassword \/ CreateUser \/ UpdateUser \/ DeleteUser
         \/ ResetPassword \/ CreateKey \/ CycleKey
  PROVE  Invariant'
<1> USE DEF Ops
<1>0. /\ DOMAIN users \subseteq Usernames /\ \A u \in DOMAIN users : users[u] \in UserRow
      /\ \A s \in DOMAIN sessions : s \in SessionIds /\ sessions[s] \in SessionRow
      /\ \A k \in DOMAIN keys : k \in Nat /\ keys[k] \in KeyRow
      /\ \A u \in Usernames : born[u] \in Nat
  BY BoundsAssumption DEF Invariant, AccountsTypeOK
<1>1. CASE Login
  <2>1. PICK u \in DOMAIN users : Begin("login", u, [password |-> users[u].password, born |-> born[u]])
    BY <1>1 DEF Login
  <2>2. [password |-> users[u].password, born |-> born[u]] \in Data("login")
    BY <1>0, DataOf DEF UserRow
  <2>3. QED
    BY <1>0, <2>1, <2>2, BeginKeeps
<1>2. CASE ChangePassword
  <2>1. PICK s \in DOMAIN sessions, p \in Passwords :
          /\ sessions[s].user \in DOMAIN users
          /\ Begin("change", sessions[s].user, [password |-> p, session |-> s])
    BY <1>2 DEF ChangePassword
  <2>2. [password |-> p, session |-> s] \in Data("change")
    BY <1>0, DataOf
  <2>3. QED
    BY <1>0, <2>1, <2>2, BeginKeeps
<1>3. CASE CreateUser
  <2>1. PICK u \in Usernames, role \in Roles, p \in Passwords :
          Begin("create", u, [role |-> role, password |-> p])
    BY <1>3 DEF CreateUser
  <2>2. [role |-> role, password |-> p] \in Data("create")
    BY DataOf DEF UserRow
  <2>3. QED
    BY <2>1, <2>2, BeginKeeps
<1>4. CASE UpdateUser
  <2>1. PICK by \in Usernames, u \in DOMAIN users, role \in Roles :
          /\ IsAdmin(by) /\ by # u
          /\ Begin("update", u, role)
    BY <1>4 DEF UpdateUser, Removable
  <2>2. role \in Data("update") /\ u \in Usernames /\ by \in Admins
    BY <1>0, <2>1, DataOf DEF IsAdmin
  <2>3. QED
    BY <2>1, <2>2, BeginKeeps
<1>5. CASE DeleteUser
  <2>1. PICK by \in Usernames, u \in DOMAIN users :
          /\ IsAdmin(by) /\ by # u
          /\ Begin("delete", u, Nothing)
    BY <1>5 DEF DeleteUser, Removable
  <2>2. Nothing \in Data("delete") /\ u \in Usernames /\ by \in Admins
    BY <1>0, <2>1, DataOf DEF IsAdmin
  <2>3. QED
    BY <2>1, <2>2, BeginKeeps
<1>6. CASE ResetPassword
  <2>1. PICK u \in DOMAIN users, p \in Passwords : Begin("reset", u, p)
    BY <1>6 DEF ResetPassword
  <2>2. p \in Data("reset") /\ u \in Usernames
    BY <1>0, <2>1, DataOf
  <2>3. QED
    BY <2>1, <2>2, BeginKeeps
<1>7. CASE CreateKey
  <2>1. PICK u \in DOMAIN users : Begin("key", u, [born |-> born[u], clean |-> TRUE])
    BY <1>7 DEF CreateKey
  <2>2. [born |-> born[u], clean |-> TRUE] \in Data("key") /\ u \in Usernames
    BY <1>0, <2>1, DataOf
  <2>3. QED
    BY <2>1, <2>2, BeginKeeps
<1>8. CASE CycleKey
  <2>1. PICK k \in DOMAIN keys :
          Begin("cycle", keys[k].user, [key |-> k, born |-> born[keys[k].user],
                                        clean |-> keys[k].active /\ keys[k].clean])
    BY <1>8 DEF CycleKey
  <2> DEFINE u == keys[k].user
             d == [key |-> k, born |-> born[u], clean |-> keys[k].active /\ keys[k].clean]
  <2>2. d \in Data("cycle") /\ u \in Usernames
    BY <1>0, <2>1, DataOf DEF KeyRow
  <2>3. d.clean => u \in DOMAIN users /\ d.born = born[u]
    BY <2>1 DEF Invariant, KeysFollow, Usable
  <2>4. QED
    BY <2>1, <2>2, <2>3, BeginKeeps
<1>9. QED
  BY <1>1, <1>2, <1>3, <1>4, <1>5, <1>6, <1>7, <1>8

\* What is signed out or revoked without a request in flight.
LEMMA LossesKeep ==
  ASSUME Invariant, Logout \/ RevokeKey
  PROVE  Invariant'
<1> AccountsTypeOK /\ AloneIsAlone /\ FoundStillHolds /\ SessionsFollow /\ KeysFollow
    /\ SignedOut /\ KeysRevoked /\ OwnSession /\ AnotherAdmin
  BY DEF Invariant
<1>1. CASE Logout
  <2>1. PICK t \in DOMAIN sessions : /\ sessions' = Restrict(sessions, DOMAIN sessions \ {t})
                                     /\ UNCHANGED <<users, keys, requests, born>>
    BY <1>1 DEF Logout
  <2>2. /\ DOMAIN sessions' = DOMAIN sessions \ {t}
        /\ sessions' \in [DOMAIN sessions' -> SessionRow]
        /\ \A s \in DOMAIN sessions' : sessions'[s] = sessions[s]
    BY <2>1 DEF Restrict, AccountsTypeOK
  <2>3. AccountsTypeOK'
    BY <2>1, <2>2 DEF AccountsTypeOK
  <2>4. AloneIsAlone' /\ FoundStillHolds' /\ KeysRevoked' /\ AnotherAdmin'
    BY <2>1 DEF AloneIsAlone, FoundStillHolds, Found, KeysRevoked, AnotherAdmin,
                Busy, On, Usable, Takes, Admins
  <2>5. KeysFollow'
    BY <2>1 DEF KeysFollow, Usable
  <2>6. SessionsFollow'
    <3>1. \A c : Follows(c) => Follows(c)'
      BY <2>1 DEF Follows, On, Busy
    <3>2. QED
      BY <3>1, <2>2 DEF SessionsFollow
  <2>7. SignedOut' /\ OwnSession'
    <3>1. Busy' = Busy /\ requests' = requests
      BY <2>1 DEF Busy
    <3>2. QED
      BY <3>1, <2>2 DEF SignedOut, OwnSession
  <2>8. QED
    BY <2>3, <2>4, <2>5, <2>6, <2>7 DEF Invariant
<1>2. CASE RevokeKey
  <2>1. PICK j \in DOMAIN keys : /\ keys' = [keys EXCEPT ![j].active = FALSE]
                                 /\ UNCHANGED <<users, sessions, requests, born>>
    BY <1>2 DEF RevokeKey
  <2>2. /\ DOMAIN keys' = DOMAIN keys
        /\ keys' \in [DOMAIN keys -> KeyRow]
        /\ \A k \in DOMAIN keys : /\ keys'[k].user = keys[k].user /\ keys'[k].born = keys[k].born
                                  /\ Usable(keys'[k]) => Usable(keys[k])
    BY <2>1 DEF AccountsTypeOK, KeyRow, Usable
  <2>3. AccountsTypeOK'
    BY <2>1, <2>2 DEF AccountsTypeOK
  <2>4. /\ AloneIsAlone' /\ FoundStillHolds' /\ SessionsFollow' /\ SignedOut'
        /\ OwnSession' /\ AnotherAdmin'
    BY <2>1 DEF AloneIsAlone, FoundStillHolds, Found, SessionsFollow, Follows, SignedOut,
                OwnSession, AnotherAdmin, Busy, On, Takes, Admins
  <2>5. KeysFollow'
    BY <2>1, <2>2 DEF KeysFollow
  <2>6. KeysRevoked'
    <3>1. Busy' = Busy /\ requests' = requests
      BY <2>1 DEF Busy
    <3>2. QED
      BY <3>1, <2>2 DEF KeysRevoked
  <2>7. QED
    BY <2>3, <2>4, <2>5, <2>6 DEF Invariant
<1>3. QED
  BY <1>1, <1>2
\* A session is made, or sessions go.
LEMMA SessionStepsKeep ==
  ASSUME Invariant, NEW r \in Requests,
         \/ \E s \in SessionIds : CreateSession(r, s)
         \/ ChangeSignsOut(r) \/ DeleteSignsOut(r) \/ ResetSignsOut(r) \/ Abandon(r)
  PROVE  Invariant'
<1> AccountsTypeOK /\ AloneIsAlone /\ FoundStillHolds /\ SessionsFollow /\ KeysFollow
    /\ SignedOut /\ KeysRevoked /\ OwnSession /\ AnotherAdmin
  BY DEF Invariant
<1>0. r \in Busy /\ \A s \in DOMAIN sessions : s \in SessionIds /\ sessions[s] \in SessionRow
  BY DEF CreateSession, ChangeSignsOut, DeleteSignsOut, ResetSignsOut, Abandon, At, AccountsTypeOK
<1> DEFINE u == requests[r].user
<1>1. ASSUME NEW s \in SessionIds, CreateSession(r, s) PROVE Invariant'
  <2> DEFINE new == [user |-> u, born |-> requests[r].data.born,
                     password |-> requests[r].data.password, clean |-> requests[r].alone]
  <2>1. /\ requests[r].op = "login" /\ s \in FreshSessions /\ End(r)
        /\ UNCHANGED <<users, keys, born>>
        /\ sessions' = [t \in DOMAIN sessions \cup {s} |->
                          IF t \in DOMAIN sessions THEN sessions[t] ELSE new]
    BY <1>1 DEF CreateSession, At
  <2>2. Advance(r) /\ Busy' = Busy \ {r}
    BY <1>0, <2>1, Ended
  <2>3. new \in SessionRow
    <3>1. requests[r].data \in Data(requests[r].op)
      BY <1>0, RequestRows
    <3>2. requests[r].data \in [password : Passwords, born : Nat]
      BY <2>1, <3>1, DataOf
    <3>3. requests[r].data.password \in Passwords /\ requests[r].data.born \in Nat
      BY <3>2
    <3>4. u \in Usernames /\ requests[r].alone \in BOOLEAN
      BY <1>0, RequestRows
    <3>5. QED
      BY <3>3, <3>4 DEF SessionRow
  <2>4. s \notin DOMAIN sessions /\ \A q \in Busy : requests[q].op = "change" => requests[q].data.session # s
    BY <2>1 DEF FreshSessions
  <2>5. /\ DOMAIN sessions' = DOMAIN sessions \cup {s}
        /\ \A t \in DOMAIN sessions : sessions'[t] = sessions[t]
        /\ sessions'[s] = new
    BY <2>1, <2>4
  <2>6. \A c : Follows(c) => Follows(c)'
    <3>1. \A v : \A q \in On(v) : requests[q].op = "change" =>
             /\ q \in On(v)'
             /\ requests'[q].op = "change" /\ requests'[q].step = requests[q].step
      BY <2>1, <2>2 DEF On, Advance, Kept
    <3>2. QED
      BY <2>1, <3>1 DEF Follows
  <2>7. new.clean => Follows(new)
    <3>1. requests[r].alone => Found(r)
      BY <1>0 DEF FoundStillHolds
    <3>2. QED
      BY <2>1, <3>1 DEF Found, Follows
  <2>8. QED
    <3> HIDE DEF new
    <3>1. \A t \in DOMAIN sessions' : sessions'[t].clean => Follows(sessions[t])'
      <4> SUFFICES ASSUME NEW t \in DOMAIN sessions', sessions'[t].clean PROVE Follows(sessions[t])'
        OBVIOUS
      <4>1. PICK c : c = sessions'[t]
        OBVIOUS
      <4>2. Follows(c)
        BY <2>5, <2>7, <4>1 DEF SessionsFollow
      <4>3. Follows(c)'
        BY <2>6, <4>2
      <4>4. QED
        BY <4>1, <4>3 DEF Follows
    <3>2. sessions'[s].user = u /\ (sessions'[s].clean <=> requests[r].alone)
      BY <2>5 DEF new
    <3>3. DOMAIN sessions' \subseteq SessionIds /\ sessions' \in [DOMAIN sessions' -> SessionRow]
      BY <1>0, <2>1, <2>3
    <3>4. r \notin Busy'
      BY <2>2
    <3>5. \A t \in DOMAIN sessions' :
             \/ t \in DOMAIN sessions /\ sessions'[t].user = sessions[t].user
             \/ \A q \in Busy : requests[q].op = "change" => requests[q].data.session # t
      BY <2>4, <2>5
    <3>6. \A t \in DOMAIN sessions' : sessions'[t].clean =>
             /\ Follows(sessions[t])'
             /\ \/ t \in DOMAIN sessions /\ sessions[t].clean /\ sessions'[t].user = sessions[t].user
                \/ requests[r].alone /\ sessions'[t].user = requests[r].user
      BY <2>5, <3>1, <3>2
    <3>7. QED
      BY <1>0, <2>1, <2>2, <3>3, <3>4, <3>5, <3>6, SessionsWritten
<1>2. CASE ChangeSignsOut(r)
  <2> DEFINE kept == requests[r].data.session
             left == {t \in DOMAIN sessions : sessions[t].user # u \/ t = kept}
  <2>1. /\ requests[r].op = "change" /\ requests[r].step = 2 /\ End(r)
        /\ UNCHANGED <<users, keys, born>>
        /\ sessions' = [s \in left |->
             IF s = kept THEN [sessions[s] EXCEPT !.password = requests[r].data.password,
                                                  !.clean = @ /\ requests[r].alone] ELSE sessions[s]]
    BY <1>2 DEF ChangeSignsOut, At
  <2>2. Advance(r) /\ Busy' = Busy \ {r}
    BY <1>0, <2>1, Ended
  <2>3. requests[r].data.password \in Passwords /\ requests[r].alone \in BOOLEAN /\ u \in Usernames
    <3>1. requests[r].data \in Data("change")
      BY <1>0, <2>1, RequestRows
    <3>2. requests[r].data \in [password : Passwords, session : SessionIds]
      BY <3>1, DataOf
    <3>3. QED
      BY <1>0, <3>2, RequestRows
  <2>4. /\ DOMAIN sessions' = left
        /\ \A s \in left : s # kept => sessions'[s] = sessions[s]
        /\ kept \in left => /\ sessions'[kept] \in SessionRow
                            /\ sessions'[kept].user = sessions[kept].user
                            /\ sessions'[kept].born = sessions[kept].born
                            /\ sessions'[kept].password = requests[r].data.password
                            /\ sessions'[kept].clean => sessions[kept].clean /\ requests[r].alone
    BY <1>0, <2>1, <2>3 DEF SessionRow
  <2>5. \A s \in left : s # kept => sessions[s].user # u
    OBVIOUS
  <2>6. kept \in left => sessions[kept].user = u
    BY <1>0, <2>1 DEF OwnSession
  <2> HIDE DEF left, kept
  <2>7. left \subseteq DOMAIN sessions
    BY DEF left
  <2>8. \A s \in left : sessions'[s].clean => Follows(sessions[s])'
    <3> SUFFICES ASSUME NEW s \in left, sessions'[s].clean PROVE Follows(sessions[s])'
      OBVIOUS
    <3>1. CASE s = kept
      <4>1. Found(r) /\ Follows(sessions[s])
        BY <1>0, <2>4, <2>7, <3>1 DEF FoundStillHolds, SessionsFollow
      <4>2. u \in DOMAIN users /\ requests[r].data.password = users[u].password
        BY <2>1, <4>1 DEF Found
      <4>3. sessions[s].born = born[u] /\ sessions[s].user = u
        BY <2>6, <3>1, <4>1 DEF Follows
      <4>4. /\ sessions'[s].user = u /\ sessions'[s].born = born[u]
            /\ sessions'[s].password = users[u].password
        BY <2>4, <3>1, <4>2, <4>3
      <4>5. users' = users /\ born' = born
        BY <2>1
      <4>6. QED
        BY <4>2, <4>4, <4>5 DEF Follows
    <3>2. CASE s # kept
      <4>1. /\ sessions'[s] = sessions[s] /\ Follows(sessions[s])
            /\ sessions[s].user # u /\ sessions[s] \in SessionRow
        BY <1>0, <2>4, <2>5, <2>7, <3>2 DEF SessionsFollow
      <4>2. Elsewhere(u)
        BY <2>1 DEF Elsewhere
      <4>3. \A c : c = sessions[s] => Follows(c)'
        BY <1>0, <2>2, <4>1, <4>2, AdvanceFollows
      <4>4. QED
        BY <4>1, <4>3 DEF Follows
    <3>3. QED
      BY <3>1, <3>2
  <2>9. DOMAIN sessions' \subseteq SessionIds /\ sessions' \in [DOMAIN sessions' -> SessionRow]
    <3>1. \A s \in left : sessions'[s] \in SessionRow /\ s \in SessionIds
      BY <1>0, <2>4, <2>7
    <3>2. sessions' = [s \in left |-> sessions'[s]]
      BY <2>1, <2>4
    <3>3. QED
      BY <2>4, <3>1, <3>2
  <2>10. \A s \in DOMAIN sessions' :
            /\ s \in DOMAIN sessions /\ sessions'[s].user = sessions[s].user
            /\ sessions'[s].clean => sessions[s].clean
    BY <2>4, <2>7
  <2>11. QED
    BY <1>0, <2>1, <2>2, <2>4, <2>8, <2>9, <2>10, SessionsWritten<1>3. CASE DeleteSignsOut(r) \/ ResetSignsOut(r)
  <2>1. /\ requests[r].op \in {"delete", "reset"} /\ requests[r].step = 1 /\ Continue(r)
        /\ UNCHANGED <<users, keys, born>>
        /\ sessions' = Restrict(sessions, {s \in DOMAIN sessions : sessions[s].user # u})
    BY <1>3 DEF DeleteSignsOut, ResetSignsOut, SignOut, At
  <2>2. Advance(r) /\ Busy' = Busy /\ requests'[r].step = 2
    BY <1>0, <2>1, Continued
  <2>3. /\ DOMAIN sessions' \subseteq DOMAIN sessions
        /\ sessions' \in [DOMAIN sessions' -> SessionRow]
        /\ \A s \in DOMAIN sessions' : sessions'[s] = sessions[s] /\ sessions[s].user # u
    BY <1>0, <2>1 DEF Restrict
  <2>4. \A s \in DOMAIN sessions' : sessions'[s].clean => Follows(sessions[s])'
    <3> SUFFICES ASSUME NEW s \in DOMAIN sessions', sessions'[s].clean PROVE Follows(sessions[s])'
      OBVIOUS
    <3>1. /\ sessions'[s] = sessions[s] /\ Follows(sessions[s])
          /\ sessions[s].user # u /\ sessions[s] \in SessionRow
      BY <1>0, <2>3 DEF SessionsFollow
    <3>2. Elsewhere(u)
      BY <2>1 DEF Elsewhere
    <3>3. \A c : c = sessions[s] => Follows(c)'
      BY <1>0, <2>2, <3>1, <3>2, AdvanceFollows
    <3>4. QED
      BY <3>1, <3>3 DEF Follows
  <2>5. QED
    BY <1>0, <2>1, <2>2, <2>3, <2>4, SessionsWritten
<1>4. CASE Abandon(r)
  <2> DEFINE halfway(s) == sessions[s].user = u /\ At(r, "change", 2)
  <2>1. /\ requests' = [requests EXCEPT ![r] = Nothing]
        /\ UNCHANGED <<users, keys, born>>
        /\ sessions' = [s \in DOMAIN sessions |->
             IF halfway(s) THEN [sessions[s] EXCEPT !.clean = FALSE] ELSE sessions[s]]
    BY <1>4 DEF Abandon
  <2>2. Advance(r) /\ Busy' = Busy \ {r}
    BY <1>0, <2>1, Abandoned
  <2>3. /\ DOMAIN sessions' = DOMAIN sessions
        /\ \A s \in DOMAIN sessions : /\ halfway(s) => sessions'[s] = [sessions[s] EXCEPT !.clean = FALSE]
                                      /\ ~ halfway(s) => sessions'[s] = sessions[s]
    BY <2>1
  <2>4. \A s \in DOMAIN sessions : /\ sessions'[s] \in SessionRow
                                   /\ sessions'[s].user = sessions[s].user
                                   /\ sessions'[s].clean => sessions[s].clean /\ sessions'[s] = sessions[s] /\ ~ halfway(s)
    <3> SUFFICES ASSUME NEW s \in DOMAIN sessions
                 PROVE  /\ sessions'[s] \in SessionRow
                        /\ sessions'[s].user = sessions[s].user
                        /\ sessions'[s].clean => sessions[s].clean /\ sessions'[s] = sessions[s] /\ ~ halfway(s)
      OBVIOUS
    <3> HIDE DEF halfway
    <3>1. CASE halfway(s)
      BY <1>0, <2>3, <3>1 DEF SessionRow
    <3>2. CASE ~ halfway(s)
      BY <1>0, <2>3, <3>2
    <3>3. QED
      BY <3>1, <3>2
  <2>5. \A s \in DOMAIN sessions : sessions'[s].clean => Follows(sessions[s])'
    <3> SUFFICES ASSUME NEW s \in DOMAIN sessions, sessions'[s].clean PROVE Follows(sessions[s])'
      OBVIOUS
    <3>1. sessions'[s] = sessions[s] /\ Follows(sessions[s]) /\ ~ halfway(s)
      BY <2>4 DEF SessionsFollow
    <3>2. \A q \in On(sessions[s].user) : requests[q].op = "change" /\ requests[q].step = 2 =>
            /\ q \in On(sessions[s].user)'
            /\ requests'[q].op = "change" /\ requests'[q].step = 2
      <4> SUFFICES ASSUME NEW q \in On(sessions[s].user), requests[q].op = "change", requests[q].step = 2
                   PROVE  /\ q \in On(sessions[s].user)'
                          /\ requests'[q].op = "change" /\ requests'[q].step = 2
        OBVIOUS
      <4>1. q \in Busy /\ requests[q].user = sessions[s].user
        BY DEF On
      <4>2. q # r
        BY <1>0, <3>1, <4>1 DEF At
      <4>3. q \in Busy' /\ Kept(q) /\ requests'[q].step = requests[q].step
        BY <2>2, <4>1, <4>2 DEF Advance
      <4>4. QED
        BY <3>1, <4>1, <4>3 DEF On, Kept
    <3>3. QED
      BY <2>1, <3>1, <3>2 DEF Follows
  <2> HIDE DEF halfway
  <2>6. DOMAIN sessions' \subseteq SessionIds /\ sessions' \in [DOMAIN sessions' -> SessionRow]
    <3>1. sessions' = [s \in DOMAIN sessions |-> sessions'[s]]
      BY <2>1
    <3>2. QED
      BY <1>0, <2>3, <2>4, <3>1
  <2>7. r \notin Busy'
    BY <2>2
  <2>8. \A s \in DOMAIN sessions' :
            /\ s \in DOMAIN sessions /\ sessions'[s].user = sessions[s].user
            /\ sessions'[s].clean => sessions[s].clean /\ Follows(sessions[s])'
    BY <2>3, <2>4, <2>5
  <2>9. QED
    BY <1>0, <2>1, <2>2, <2>6, <2>7, <2>8, SessionsWritten
<1>5. QED
  BY <1>1, <1>2, <1>3, <1>4
\* A key is made, or keys are revoked.
LEMMA KeyStepsKeep ==
  ASSUME Invariant, NEW r \in Requests,
         CreateKeyCommits(r) \/ CycleCreates(r) \/ CycleRevokes(r) \/ DeleteRevokes(r)
  PROVE  Invariant'
<1> AccountsTypeOK /\ FoundStillHolds /\ KeysFollow
  BY DEF Invariant
<1>0. /\ r \in Busy /\ keys \in [DOMAIN keys -> KeyRow]
      /\ \A k \in DOMAIN keys : keys[k] \in KeyRow
  BY DEF CreateKeyCommits, CycleCreates, CycleRevokes, DeleteRevokes, At, AccountsTypeOK
<1>1. CASE CreateKeyCommits(r) \/ CycleCreates(r)
  <2> DEFINE d == requests[r].data
             fresh == Cardinality(DOMAIN keys) + 1
             new == [user |-> requests[r].user, born |-> d.born, active |-> TRUE,
                     clean |-> requests[r].alone /\ d.clean]
  <2>1. /\ requests[r].op \in {"key", "cycle"} /\ DOMAIN keys # KeyIds
        /\ keys' = [k \in DOMAIN keys \cup {fresh} |-> IF k \in DOMAIN keys THEN keys[k] ELSE new]
        /\ UNCHANGED <<users, sessions, born>>
        /\ End(r) \/ Continue(r)
    BY <1>1 DEF CreateKeyCommits, CycleCreates, At, NewKey
  <2>2. Advance(r)
    BY <1>0, <2>1, Ended, Continued
  <2>3. PICK n \in 0..MaxKeys : DOMAIN keys = 1..n
    BY DEF AccountsTypeOK
  <2>4. fresh = n + 1
    <3>1. 1 \in Int /\ n \in Int /\ n >= 0
      BY BoundsAssumption
    <3>2. Cardinality(1..n) = IF 1 > n THEN 0 ELSE n - 1 + 1
      BY <3>1, FS_Interval
    <3>3. QED
      BY <2>3, <3>1, <3>2
  <2>5. n + 1 \in 0..MaxKeys /\ DOMAIN keys \cup {fresh} = 1..(n + 1) /\ fresh \notin DOMAIN keys
    BY <2>1, <2>3, <2>4, BoundsAssumption DEF KeyIds
  <2>6. d.born \in Nat /\ d.clean \in BOOLEAN
    <3>1. d \in Data(requests[r].op)
      BY <1>0, RequestRows
    <3>2. d \in [born : Nat, clean : BOOLEAN] \/ d \in [key : Nat, born : Nat, clean : BOOLEAN]
      BY <2>1, <3>1, DataOf
    <3>3. QED
      BY <3>2
  <2>7. new \in KeyRow
    BY <1>0, <2>6, RequestRows DEF KeyRow
  <2>8. new.clean => requests[r].alone /\ new.user \in DOMAIN users /\ new.born = born[new.user]
    <3>1. requests[r].alone => Found(r)
      BY <1>0 DEF FoundStillHolds
    <3>2. QED
      BY <2>1, <3>1 DEF Found
  <2>9. new.user = requests[r].user
    OBVIOUS
  <2> HIDE DEF new, fresh
  <2>10. /\ DOMAIN keys' = DOMAIN keys \cup {fresh}
         /\ \A k \in DOMAIN keys : keys'[k] = keys[k]
         /\ keys'[fresh] = new
    BY <2>1, <2>5
  <2>11. keys' \in [DOMAIN keys' -> KeyRow]
    BY <1>0, <2>1, <2>7
  <2>12. \E m \in 0..MaxKeys : DOMAIN keys' = 1..m
    BY <2>5, <2>10
  <2>13. \A k \in DOMAIN keys' : Usable(keys'[k]) =>
           \/ /\ k \in DOMAIN keys /\ Usable(keys[k])
              /\ keys'[k].user = keys[k].user /\ keys'[k].born = keys[k].born
           \/ /\ requests[r].alone /\ keys'[k].user = requests[r].user
              /\ keys'[k].user \in DOMAIN users /\ keys'[k].born = born[keys'[k].user]
    <3>1. Usable(keys'[fresh]) => new.clean
      BY <2>10 DEF Usable
    <3>2. QED
      BY <2>8, <2>9, <2>10, <3>1
  <2>14. QED
    BY <1>0, <2>1, <2>2, <2>11, <2>12, <2>13, KeysWritten
<1>2. CASE CycleRevokes(r) \/ DeleteRevokes(r)
  <2>1. /\ requests[r].op \in {"cycle", "delete"}
        /\ UNCHANGED <<users, sessions, born>>
        /\ End(r) \/ Continue(r)
    BY <1>2 DEF CycleRevokes, DeleteRevokes, At
  <2>2. Advance(r)
    BY <1>0, <2>1, Ended, Continued
  <2>3. /\ DOMAIN keys' = DOMAIN keys /\ keys' \in [DOMAIN keys -> KeyRow]
        /\ \A k \in DOMAIN keys : /\ keys'[k].user = keys[k].user /\ keys'[k].born = keys[k].born
                                  /\ Usable(keys'[k]) => Usable(keys[k])
    <3>1. CASE CycleRevokes(r)
      <4>1. keys' = [keys EXCEPT ![requests[r].data.key].active = FALSE]
        BY <3>1 DEF CycleRevokes
      <4>2. QED
        BY <1>0, <4>1 DEF KeyRow, Usable
    <3>2. CASE DeleteRevokes(r)
      <4>1. keys' = [k \in DOMAIN keys |-> IF keys[k].user = requests[r].user
                                           THEN [keys[k] EXCEPT !.active = FALSE] ELSE keys[k]]
        BY <3>2 DEF DeleteRevokes, RevokeUserKeys
      <4>2. QED
        BY <1>0, <4>1 DEF KeyRow, Usable
    <3>3. QED
      BY <1>2, <3>1, <3>2
  <2>4. r \in Busy' /\ requests[r].op = "delete" =>
          /\ requests[r].step >= 2
          /\ \A k \in DOMAIN keys' : keys'[k].user = requests[r].user => ~ Usable(keys'[k])
    <3> SUFFICES ASSUME requests[r].op = "delete"
                 PROVE  /\ requests[r].step >= 2
                        /\ \A k \in DOMAIN keys' : keys'[k].user = requests[r].user => ~ Usable(keys'[k])
      OBVIOUS
    <3>1. /\ requests[r].step = 2
          /\ keys' = [k \in DOMAIN keys |-> IF keys[k].user = requests[r].user
                                            THEN [keys[k] EXCEPT !.active = FALSE] ELSE keys[k]]
      BY <1>2 DEF CycleRevokes, DeleteRevokes, RevokeUserKeys, At
    <3>2. QED
      BY <1>0, <3>1 DEF KeyRow, Usable
  <2>5. (\E n \in 0..MaxKeys : DOMAIN keys' = 1..n) /\ keys' \in [DOMAIN keys' -> KeyRow]
    BY <2>3 DEF AccountsTypeOK
  <2>6. QED
    BY <1>0, <2>1, <2>2, <2>3, <2>4, <2>5, KeysWritten
<1>3. QED
  BY <1>1, <1>2
\* An account is made, changed or deleted.
LEMMA UserStepsKeep ==
  ASSUME Invariant, NEW r \in Requests,
         \/ ChangeStores(r) \/ CreateUserCommits(r) \/ UpdateUserCommits(r)
         \/ DeleteCommits(r) \/ ResetStores(r)
  PROVE  Invariant'
<1> AccountsTypeOK /\ SessionsFollow /\ KeysFollow /\ SignedOut /\ KeysRevoked
  BY DEF Invariant
<1> DEFINE u == requests[r].user
<1>0. /\ r \in Busy /\ u \in Usernames /\ requests[r].data \in Data(requests[r].op)
      /\ DOMAIN users \subseteq Usernames /\ users \in [DOMAIN users -> UserRow]
      /\ born \in [Usernames -> Nat]
  BY RequestRows DEF ChangeStores, CreateUserCommits, UpdateUserCommits, DeleteCommits,
     ResetStores, At, AccountsTypeOK
<1>1. \A s \in DOMAIN sessions : sessions[s].clean =>
        sessions[s].user \in DOMAIN users /\ sessions[s].born = born[sessions[s].user]
  BY DEF SessionsFollow, Follows
<1>2. CASE ChangeStores(r)
  <2>1. /\ requests[r].op = "change" /\ requests[r].step = 1
        /\ users' = [v \in DOMAIN users |-> IF v = u THEN [users[v] EXCEPT !.password = requests[r].data.password]
                                                     ELSE users[v]]
        /\ UNCHANGED <<sessions, keys, born>> /\ Continue(r)
    BY <1>2 DEF ChangeStores, SetPassword, At
  <2>2. Advance(r) /\ Busy' = Busy /\ requests'[r].step = 2
    BY <1>0, <2>1, Continued
  <2>3. requests[r].data.password \in Passwords
    <3>1. requests[r].data \in [password : Passwords, session : SessionIds]
      BY <1>0, <2>1, DataOf
    <3>2. QED
      BY <3>1
  <2>4. /\ DOMAIN users' = DOMAIN users /\ users' \in [DOMAIN users -> UserRow]
        /\ \A v \in DOMAIN users : /\ v # u => users'[v] = users[v]
                                   /\ users'[v].role = users[v].role
        /\ u \in DOMAIN users => users'[u].password = requests[r].data.password
    BY <1>0, <2>1, <2>3 DEF UserRow
  <2>5. Elsewhere(u)
    BY <2>1, <2>4 DEF Elsewhere
  <2>6. requests'[r].alone => Found(r)'
    <3>1. requests'[r].alone => Found(r)
      BY <1>0, <2>2 DEF Invariant, FoundStillHolds, Advance
    <3>2. Kept(r)
      BY <1>0, <2>2 DEF Advance
    <3>3. QED
      BY <2>1, <2>2, <2>4, <3>1, <3>2 DEF Found, Kept
  <2>7. \A s \in DOMAIN sessions : sessions[s].clean /\ sessions[s].user = u => Follows(sessions[s])'
    <3> SUFFICES ASSUME NEW s \in DOMAIN sessions, sessions[s].clean, sessions[s].user = u
                 PROVE  Follows(sessions[s])'
      OBVIOUS
    <3>1. sessions'[s] = sessions[s] /\ requests'[r].op = "change" /\ requests'[r].user = u
      BY <1>0, <2>1, <2>2 DEF Advance, Kept
    <3>2. r \in On(sessions[s].user)'
      BY <1>0, <2>2, <3>1 DEF On
    <3>3. u \in DOMAIN users' /\ sessions[s].born = born'[u]
      BY <1>1, <2>1, <2>4
    <3>4. QED
      BY <2>2, <3>1, <3>2, <3>3 DEF Follows
  <2>8. \A k \in DOMAIN keys : Usable(keys[k]) =>
           keys[k].user \in DOMAIN users' /\ keys[k].born = born'[keys[k].user]
    BY <2>1, <2>4 DEF KeysFollow
  <2>9. Admins \subseteq Admins'
    BY <2>4 DEF Admins
  <2>10. QED
    BY <1>0, <2>1, <2>2, <2>4, <2>5, <2>6, <2>7, <2>8, <2>9, UsersWritten
<1>3. ASSUME requests[r].op # "change", End(r), UNCHANGED <<sessions, keys>>,
             DOMAIN users' \subseteq Usernames, users' \in [DOMAIN users' -> UserRow],
             born' \in [Usernames -> Nat], Elsewhere(u),
             \A s \in DOMAIN sessions : sessions[s].clean /\ sessions[s].user = u =>
               /\ u \in DOMAIN users' /\ born'[u] = born[u]
               /\ users'[u].password = users[u].password,
             \A k \in DOMAIN keys : Usable(keys[k]) /\ keys[k].user = u =>
               u \in DOMAIN users' /\ born'[u] = born[u]
      PROVE  Invariant'
  <2>1. Advance(r) /\ Busy' = Busy \ {r} /\ (Fewer => \A q \in Busy' : requests'[q].overtaken)
    BY <1>0, <1>3, Ended
  <2>2. Admins \subseteq Admins' \/ \A q \in Busy' : requests'[q].overtaken
    BY <2>1, AdminsStay
  <2>3. \A s \in DOMAIN sessions : sessions[s].clean /\ sessions[s].user = u => Follows(sessions[s])'
    <3> SUFFICES ASSUME NEW s \in DOMAIN sessions, sessions[s].clean, sessions[s].user = u
                 PROVE  Follows(sessions[s])'
      OBVIOUS
    <3>1. Follows(sessions[s])
      BY DEF SessionsFollow
    <3>2. sessions'[s] = sessions[s] /\ u \in DOMAIN users' /\ born'[u] = born[u]
          /\ users'[u].password = users[u].password
      BY <1>3
    <3>3. \A q \in On(u) : requests[q].op = "change" =>
            /\ q \in On(sessions[s].user)'
            /\ requests'[q].op = "change" /\ requests'[q].step = requests[q].step
      <4> SUFFICES ASSUME NEW q \in On(u), requests[q].op = "change"
                   PROVE  /\ q \in On(sessions[s].user)'
                          /\ requests'[q].op = "change" /\ requests'[q].step = requests[q].step
        OBVIOUS
      <4>1. q \in Busy /\ q # r /\ requests[q].user = u
        BY <1>3 DEF On
      <4>2. q \in Busy' /\ Kept(q) /\ requests'[q].step = requests[q].step
        BY <2>1, <4>1 DEF Advance
      <4>3. QED
        BY <3>2, <4>1, <4>2 DEF On, Kept
    <3>4. \/ sessions[s].password = users[u].password
          \/ \E q \in On(u) : requests[q].op = "change" /\ requests[q].step = 2
      BY <3>1 DEF Follows
    <3>5. QED
      BY <3>1, <3>2, <3>3, <3>4 DEF Follows
  <2>4. \A k \in DOMAIN keys : Usable(keys[k]) /\ keys[k].user = u =>
           keys[k].user \in DOMAIN users' /\ keys[k].born = born'[keys[k].user]
    BY <1>3 DEF KeysFollow
  <2>5. r \notin Busy'
    BY <2>1
  <2>6. QED
    BY <1>0, <1>3, <2>1, <2>2, <2>3, <2>4, <2>5, UsersWritten
<1>4. CASE CreateUserCommits(r)
  <2>1. /\ requests[r].op = "create" /\ End(r) /\ UNCHANGED <<sessions, keys>>
        /\ IF u \in DOMAIN users THEN UNCHANGED <<users, born>>
           ELSE /\ users' = [v \in DOMAIN users \cup {u} |-> IF v = u THEN requests[r].data ELSE users[v]]
                /\ born' = [born EXCEPT ![u] = @ + 1]
    BY <1>4 DEF CreateUserCommits, At
  <2>2. requests[r].data \in UserRow
    BY <1>0, <2>1, DataOf
  <2>3. /\ DOMAIN users' \subseteq Usernames /\ users' \in [DOMAIN users' -> UserRow]
        /\ born' \in [Usernames -> Nat]
    BY <1>0, <2>1, <2>2
  <2>4. Elsewhere(u)
    BY <1>0, <2>1 DEF Elsewhere
  <2>5. \A k \in DOMAIN keys : Usable(keys[k]) => keys[k].user \in DOMAIN users
    BY DEF KeysFollow
  <2>6. QED
    BY <1>1, <1>3, <2>1, <2>3, <2>4, <2>5
<1>5. CASE UpdateUserCommits(r)
  <2>1. /\ requests[r].op = "update" /\ End(r) /\ UNCHANGED <<sessions, keys, born>>
        /\ users' = [v \in DOMAIN users |-> IF v = u THEN [users[v] EXCEPT !.role = requests[r].data] ELSE users[v]]
    BY <1>5 DEF UpdateUserCommits, At
  <2>2. requests[r].data \in Roles
    BY <1>0, <2>1, DataOf
  <2>3. /\ DOMAIN users' = DOMAIN users /\ users' \in [DOMAIN users -> UserRow]
        /\ \A v \in DOMAIN users : /\ v # u => users'[v] = users[v]
                                   /\ users'[v].password = users[v].password
    BY <1>0, <2>1, <2>2 DEF UserRow
  <2>4. Elsewhere(u)
    BY <2>1, <2>3 DEF Elsewhere
  <2>5. \A k \in DOMAIN keys : Usable(keys[k]) => keys[k].user \in DOMAIN users
    BY DEF KeysFollow
  <2>6. QED
    BY <1>0, <1>1, <1>3, <2>1, <2>3, <2>4, <2>5
<1>6. CASE DeleteCommits(r)
  <2>1. /\ requests[r].op = "delete" /\ requests[r].step = 3 /\ End(r) /\ UNCHANGED <<sessions, keys, born>>
        /\ users' = Restrict(users, DOMAIN users \ {u})
    BY <1>6 DEF DeleteCommits, At
  <2>2. /\ DOMAIN users' = DOMAIN users \ {u} /\ users' \in [DOMAIN users' -> UserRow]
        /\ \A v \in DOMAIN users' : users'[v] = users[v]
    BY <1>0, <2>1 DEF Restrict
  <2>3. Elsewhere(u)
    BY <2>1, <2>2 DEF Elsewhere
  <2>4. /\ \A s \in DOMAIN sessions : ~ (sessions[s].clean /\ sessions[s].user = u)
        /\ \A k \in DOMAIN keys : ~ (Usable(keys[k]) /\ keys[k].user = u)
    BY <1>0, <2>1 DEF SignedOut, KeysRevoked
  <2>5. QED
    BY <1>0, <1>3, <2>1, <2>2, <2>3, <2>4
<1>7. CASE ResetStores(r)
  <2>1. /\ requests[r].op = "reset" /\ requests[r].step = 2 /\ End(r) /\ UNCHANGED <<sessions, keys, born>>
        /\ users' = [v \in DOMAIN users |-> IF v = u THEN [users[v] EXCEPT !.password = requests[r].data] ELSE users[v]]
    BY <1>7 DEF ResetStores, SetPassword, At
  <2>2. requests[r].data \in Passwords
    BY <1>0, <2>1, DataOf
  <2>3. /\ DOMAIN users' = DOMAIN users /\ users' \in [DOMAIN users -> UserRow]
        /\ \A v \in DOMAIN users : v # u => users'[v] = users[v]
    BY <1>0, <2>1, <2>2 DEF UserRow
  <2>4. Elsewhere(u)
    BY <2>1, <2>3 DEF Elsewhere
  <2>5. \A s \in DOMAIN sessions : ~ (sessions[s].clean /\ sessions[s].user = u)
    BY <1>0, <2>1 DEF SignedOut
  <2>6. \A k \in DOMAIN keys : Usable(keys[k]) => keys[k].user \in DOMAIN users
    BY DEF KeysFollow
  <2>7. QED
    BY <1>0, <1>3, <2>1, <2>3, <2>4, <2>5, <2>6
<1>8. QED
  BY <1>2, <1>4, <1>5, <1>6, <1>7
-----------------------------------------------------------------------------
(* What holds of every behaviour                                           *)

LEMMA InitInvariant == AccountsInit => Invariant
<1> SUFFICES ASSUME AccountsInit PROVE Invariant
  OBVIOUS
<1>1. /\ users = Seed /\ sessions = <<>> /\ keys = <<>>
      /\ requests = [r \in Requests |-> Nothing]
      /\ born = [u \in Usernames |-> IF u \in DOMAIN Seed THEN 1 ELSE 0]
  BY DEF AccountsInit
<1>2. DOMAIN sessions = {} /\ DOMAIN keys = {} /\ Busy = {}
  BY <1>1 DEF Busy
<1>3. sessions \in [DOMAIN sessions -> SessionRow] /\ keys \in [DOMAIN keys -> KeyRow]
  BY <1>1
<1>4. \E n \in 0..MaxKeys : DOMAIN keys = 1..n
  <2>1. 0 \in 0..MaxKeys /\ 1..0 = {}
    BY BoundsAssumption
  <2>2. QED
    BY <1>2, <2>1
<1>5. born \in [Usernames -> Nat]
  BY <1>1
<1>6. requests = [r \in Requests |-> requests[r]] /\ \A r \in Requests : requests[r] = Nothing
  BY <1>1
<1>7. AccountsTypeOK
  BY <1>1, <1>2, <1>3, <1>4, <1>5, <1>6, SeedAssumption DEF AccountsTypeOK
<1>8. QED
  BY <1>2, <1>7 DEF Invariant, AloneIsAlone, FoundStillHolds, SessionsFollow, KeysFollow,
     SignedOut, KeysRevoked, OwnSession, AnotherAdmin

LEMMA StutterKeeps ==
  ASSUME Invariant, UNCHANGED accountVars
  PROVE  Invariant'
<1>1. UNCHANGED <<users, sessions, keys, requests, born>>
  BY DEF accountVars
<1>2. Busy' = Busy /\ Admins' = Admins /\ AccountsTypeOK'
  BY <1>1 DEF Busy, Admins, AccountsTypeOK, Invariant
<1>3. AloneIsAlone' /\ FoundStillHolds' /\ SessionsFollow' /\ KeysFollow'
  BY <1>1, <1>2 DEF Invariant, AloneIsAlone, FoundStillHolds, SessionsFollow, KeysFollow,
     Found, Follows, On
<1>4. SignedOut' /\ KeysRevoked' /\ OwnSession' /\ AnotherAdmin'
  BY <1>1, <1>2 DEF Invariant, SignedOut, KeysRevoked, OwnSession, AnotherAdmin, Takes
<1>5. QED
  BY <1>2, <1>3, <1>4 DEF Invariant

LEMMA NextKeeps == Invariant /\ [AccountsNext]_accountVars => Invariant'
<1> SUFFICES ASSUME Invariant, [AccountsNext]_accountVars PROVE Invariant'
  OBVIOUS
<1>1. CASE \/ Login \/ ChangePassword \/ CreateUser \/ UpdateUser \/ DeleteUser
           \/ ResetPassword \/ CreateKey \/ CycleKey
  BY <1>1, BeginningsKeep
<1>2. CASE Logout \/ RevokeKey
  BY <1>2, LossesKeep
<1>3. ASSUME NEW r \in Requests,
             \/ \E s \in SessionIds : CreateSession(r, s)
             \/ ChangeSignsOut(r) \/ DeleteSignsOut(r) \/ ResetSignsOut(r) \/ Abandon(r)
      PROVE  Invariant'
  BY <1>3, SessionStepsKeep
<1>4. ASSUME NEW r \in Requests,
             CreateKeyCommits(r) \/ CycleCreates(r) \/ CycleRevokes(r) \/ DeleteRevokes(r)
      PROVE  Invariant'
  BY <1>4, KeyStepsKeep
<1>5. ASSUME NEW r \in Requests,
             \/ ChangeStores(r) \/ CreateUserCommits(r) \/ UpdateUserCommits(r)
             \/ DeleteCommits(r) \/ ResetStores(r)
      PROVE  Invariant'
  BY <1>5, UserStepsKeep
<1>6. CASE UNCHANGED accountVars
  BY <1>6, StutterKeeps
<1>7. QED
  BY <1>1, <1>2, <1>3, <1>4, <1>5, <1>6 DEF AccountsNext

\* Whatever requests are in flight: what they have read, their rights and the rows they are
\* about agree as Invariant says.
THEOREM InvariantHolds == AccountsSpec => []Invariant
<1>1. QED
  BY InitInvariant, NextKeeps, PTL DEF AccountsSpec

\* Every row of users, sessions and API keys is one of the tables' rows.
THEOREM AccountsTyped == AccountsSpec => []AccountsTypeOK
<1>1. Invariant => AccountsTypeOK
  BY DEF Invariant
<1>2. QED
  BY <1>1, InvariantHolds, PTL

\* A session or a key that nothing else was in flight for is of the account that has its
\* name now, and a session is of its password, whenever no removal is under way.
THEOREM CredentialsFollow == AccountsSpec => []CredentialsMatchTheirAccount
<1>1. Invariant => CredentialsMatchTheirAccount
  <2> SUFFICES ASSUME Invariant PROVE CredentialsMatchTheirAccount
    OBVIOUS
  <2>1. ASSUME NEW s \in DOMAIN sessions, sessions[s].clean, Removals(sessions[s].user) = {}
        PROVE  /\ sessions[s].user \in DOMAIN users /\ sessions[s].born = born[sessions[s].user]
               /\ sessions[s].password = users[sessions[s].user].password
    <3>1. Follows(sessions[s])
      BY <2>1 DEF Invariant, SessionsFollow
    <3>2. \A r \in On(sessions[s].user) : requests[r].op # "change"
      BY <2>1 DEF Removals
    <3>3. QED
      BY <3>1, <3>2 DEF Follows
  <2>2. ASSUME NEW k \in DOMAIN keys, keys[k].active, keys[k].clean
        PROVE  keys[k].user \in DOMAIN users /\ keys[k].born = born[keys[k].user]
    BY <2>2 DEF Invariant, KeysFollow, Usable
  <2>3. QED
    BY <2>1, <2>2 DEF CredentialsMatchTheirAccount
<1>2. QED
  BY <1>1, InvariantHolds, PTL

\* The last administrator goes only by a request that had found another one, removed since.
THEOREM LastAdminStays == AccountsSpec => AnAdminRemains
<1> DEFINE Remains == Admins' = {} => Admins = {} \/ \E r \in Busy : requests[r].overtaken /\ requests'[r] = Nothing
<1>1. Invariant /\ [AccountsNext]_accountVars => [Remains]_accountVars
  <2> SUFFICES ASSUME Invariant, AccountsNext PROVE Remains
    OBVIOUS
  <2>1. CASE users' = users
    BY <2>1 DEF Admins
  <2>2. ASSUME NEW r \in Requests, UpdateUserCommits(r) \/ DeleteCommits(r)
        PROVE  Remains
    <3> DEFINE u == requests[r].user
    <3>1. r \in Busy /\ End(r)
      BY <2>2 DEF UpdateUserCommits, DeleteCommits, At
    <3>2. requests'[r] = Nothing
      BY <3>1 DEF End, Busy
    <3>3. \A v \in DOMAIN users : v # u => v \in DOMAIN users' /\ users'[v] = users[v]
      BY <2>2 DEF UpdateUserCommits, DeleteCommits, Restrict
    <3>4. ASSUME ~ Takes(r) PROVE Admins \subseteq Admins'
      <4>1. /\ requests[r].data = "admin"
            /\ users' = [v \in DOMAIN users |-> IF v = u THEN [users[v] EXCEPT !.role = requests[r].data] ELSE users[v]]
        BY <2>2, <3>4 DEF Takes, UpdateUserCommits, DeleteCommits, At
      <4>2. \A v \in DOMAIN users : users[v] \in UserRow
        BY DEF Invariant, AccountsTypeOK
      <4>3. QED
        BY <3>3, <4>1, <4>2 DEF Admins, UserRow
    <3>5. ASSUME Takes(r), ~ requests[r].overtaken PROVE Admins' # {}
      BY <3>1, <3>3, <3>5 DEF Invariant, AnotherAdmin, Admins
    <3>6. QED
      BY <3>1, <3>2, <3>4, <3>5
  <2>3. ASSUME NEW r \in Requests, ChangeStores(r) \/ ResetStores(r) \/ CreateUserCommits(r)
        PROVE  Admins \subseteq Admins'
    <3>1. CASE CreateUserCommits(r)
      BY <3>1 DEF CreateUserCommits, Admins
    <3>2. CASE ChangeStores(r) \/ ResetStores(r)
      <4>1. PICK u, p : SetPassword(u, p)
        BY <3>2 DEF ChangeStores, ResetStores
      <4>2. \A v \in DOMAIN users : users[v] \in UserRow
        BY DEF Invariant, AccountsTypeOK
      <4>3. QED
        BY <4>1, <4>2 DEF SetPassword, Admins, UserRow
    <3>3. QED
      BY <2>3, <3>1, <3>2
  <2>4. \/ users' = users
        \/ \E r \in Requests : UpdateUserCommits(r) \/ DeleteCommits(r)
        \/ \E r \in Requests : ChangeStores(r) \/ ResetStores(r) \/ CreateUserCommits(r)
    BY DEF AccountsNext, Login, Logout, ChangePassword, CreateUser, UpdateUser, DeleteUser,
       ResetPassword, CreateKey, CycleKey, RevokeKey, Begin, CreateSession, CreateKeyCommits,
       CycleCreates, ChangeSignsOut, DeleteSignsOut, DeleteRevokes, ResetSignsOut, CycleRevokes, Abandon
  <2>5. QED
    BY <2>1, <2>2, <2>3, <2>4
<1>2. QED
  BY <1>1, InvariantHolds, PTL DEF AccountsSpec, AnAdminRemains

-----------------------------------------------------------------------------
(* Grants: the inductive invariant                                         *)

\* What a code in the store stands for has not been issued before.
NotGivenYet == \A p \in DOMAIN origin : origin[p].consent \notin DOMAIN store.codes

\* A pair was issued for the code of its consent, or for a token that is gone.
UsedIsGone == \A p \in DOMAIN origin :
    /\ origin[p].used \notin DOMAIN store.refresh
    /\ origin[p].used \in DOMAIN origin \/ origin[p].used = origin[p].consent

\* Nobody who waits has found what a pair was issued for alone.
NobodyElse == \A p \in DOMAIN origin : origin[p].alone =>
    \A q \in Waiting : ~ Finds(asks[q], origin[p].used)

\* The time a token and a handler carry is that of the consent.
GrantedByConsent ==
    /\ \A p \in DOMAIN store.refresh : store.refresh[p].granted = origin[p].consent
    /\ \A q \in Waiting : asks[q].op = "refresh" =>
         asks[q].pair \in DOMAIN origin /\ asks[q].granted = origin[asks[q].pair].consent
AgedWereGiven == \A c \in aged : \E p \in DOMAIN origin : origin[p].consent = c

Issues == /\ NotGivenYet /\ UsedIsGone /\ NobodyElse /\ GrantedByConsent /\ AgedWereGiven
          /\ UsedOnce

\* The half minutes an answer has left and those since its key was revoked make
\* at most a minute; an answer that is awaited is not yet used.
Minute ==
    /\ \A k \in KeyIds : gone[k] > 0 => k \in DOMAIN keys /\ ~ keys[k].active
    /\ \A x \in DOMAIN cache : cache[x].left + gone[x[2]] <= 2
    /\ \A q \in Waiting : gone[asks[q].key] > 0 => asks[q].answer \notin Roles

-----------------------------------------------------------------------------
(* Stores                                                                  *)

\* g has some of f's rows.
Less(g, f) == DOMAIN g \subseteq DOMAIN f /\ g = [x \in DOMAIN g |-> f[x]]

LEMMA WithoutLess ==
  ASSUME NEW f, NEW S
  PROVE  Less(Without(f, S), f) /\ DOMAIN Without(f, S) = DOMAIN f \ S
BY DEF Less, Without, Restrict

LEMMA WithOne ==
  ASSUME NEW f, NEW x, NEW v
  PROVE  /\ DOMAIN With(f, x, v) = DOMAIN f \cup {x}
         /\ With(f, x, v)[x] = v
         /\ \A y \in DOMAIN f : y # x => With(f, x, v)[y] = f[y]
         /\ With(f, x, v) = [y \in DOMAIN f \cup {x} |-> With(f, x, v)[y]]
BY DEF With

\* Every handler that waits still waits for what it waited for.
StopWaiting(old, new) == \A q \in Asks : new[q] = old[q] \/ new[q] = Nothing

StoreShape(s) == s = [codes |-> s.codes, access |-> s.access, refresh |-> s.refresh]
LEMMA StoreChanges ==
  ASSUME NEW s, StoreShape(s), NEW x
  PROVE  /\ [s EXCEPT !.codes = x] = [codes |-> x, access |-> s.access, refresh |-> s.refresh]
         /\ [s EXCEPT !.access = x] = [codes |-> s.codes, access |-> x, refresh |-> s.refresh]
         /\ [s EXCEPT !.refresh = x] = [codes |-> s.codes, access |-> s.access, refresh |-> x]
BY DEF StoreShape

Loses(s) == /\ StoreShape(s)
            /\ Less(s.codes, store.codes) /\ Less(s.access, store.access) /\ Less(s.refresh, store.refresh)

\* Tokens, handlers and grants keep their types.
RowsOK ==
    /\ StoreShape(store)
    /\ DOMAIN store.codes \subseteq Codes /\ store.codes \in [DOMAIN store.codes -> [key : KeyIds]]
    /\ DOMAIN store.access \subseteq DOMAIN origin /\ store.access \in [DOMAIN store.access -> [key : KeyIds]]
    /\ DOMAIN store.refresh \subseteq DOMAIN origin
    /\ store.refresh \in [DOMAIN store.refresh -> [key : KeyIds, granted : Codes]]
    /\ asks \in [Asks -> Handler \cup {Nothing}]
    /\ \E n \in 0..MaxPairs : DOMAIN origin = 1..n
    /\ origin \in [DOMAIN origin -> [used : Codes \cup 1..MaxPairs, consent : Codes, alone : BOOLEAN]]
    /\ aged \subseteq Codes
CacheOK ==
    /\ DOMAIN cache \subseteq {"verify", "check"} \X KeyIds
    /\ cache \in [DOMAIN cache -> [role : Roles, left : 1..2]]
    /\ gone \in [KeyIds -> 0..2]

LEMMA TypesSplit == GrantsTypeOK <=> RowsOK /\ CacheOK
BY DEF GrantsTypeOK, RowsOK, CacheOK, StoreShape

GrantsInvariant == RowsOK /\ CacheOK /\ Issues /\ Minute

\* Rows only go, handlers only stop waiting.
LEMMA LosingKeeps ==
  ASSUME RowsOK, Issues, Loses(store'), asks' \in [Asks -> Handler \cup {Nothing}], StopWaiting(asks, asks'),
         origin' = origin, aged' \subseteq aged \cup {origin[p].consent : p \in DOMAIN origin}
  PROVE  RowsOK' /\ Issues'
<1>1. /\ DOMAIN store'.codes \subseteq DOMAIN store.codes
      /\ DOMAIN store'.access \subseteq DOMAIN store.access
      /\ DOMAIN store'.refresh \subseteq DOMAIN store.refresh
      /\ \A p \in DOMAIN store'.refresh : store'.refresh[p] = store.refresh[p]
      /\ store'.codes \in [DOMAIN store'.codes -> [key : KeyIds]]
      /\ store'.access \in [DOMAIN store'.access -> [key : KeyIds]]
      /\ store'.refresh \in [DOMAIN store'.refresh -> [key : KeyIds, granted : Codes]]
  BY DEF Loses, Less, RowsOK
<1>2. \A p \in DOMAIN origin : origin[p].consent \in Codes
  BY DEF RowsOK
<1>3. RowsOK'
  BY <1>1, <1>2 DEF RowsOK, Loses
<1>4. \A q \in Waiting' : q \in Waiting /\ asks'[q] = asks[q]
  BY DEF Waiting, StopWaiting
<1>5. NotGivenYet' /\ UsedIsGone'
  BY <1>1 DEF Issues, NotGivenYet, UsedIsGone
<1>6. NobodyElse'
  BY <1>4 DEF Issues, NobodyElse, Finds
<1>7. GrantedByConsent'
  BY <1>1, <1>4 DEF Issues, GrantedByConsent
<1>8. AgedWereGiven' /\ UsedOnce'
  BY DEF Issues, AgedWereGiven, UsedOnce
<1>9. QED
  BY <1>3, <1>5, <1>6, <1>7, <1>8 DEF Issues

\* A code comes that no consent has had.
LEMMA CodeKeeps ==
  ASSUME RowsOK, Issues, NEW c \in FreshCodes, NEW k \in KeyIds,
         store' = [store EXCEPT !.codes = With(@, c, [key |-> k])],
         asks' \in [Asks -> Handler \cup {Nothing}], StopWaiting(asks, asks'), UNCHANGED <<origin, aged>>
  PROVE  RowsOK' /\ Issues'
<1>1. /\ StoreShape(store')
      /\ store'.codes = With(store.codes, c, [key |-> k])
      /\ store'.access = store.access /\ store'.refresh = store.refresh
  BY DEF RowsOK, StoreShape
<1>2. /\ DOMAIN store'.codes = DOMAIN store.codes \cup {c}
      /\ store'.codes \in [DOMAIN store'.codes -> [key : KeyIds]]
  BY <1>1 DEF With, RowsOK
<1>3. c \in Codes /\ \A p \in DOMAIN origin : origin[p].consent # c
  BY DEF FreshCodes
<1>4. RowsOK'
  BY <1>1, <1>2, <1>3 DEF RowsOK
<1>5. \A q \in Waiting' : q \in Waiting /\ asks'[q] = asks[q]
  BY DEF Waiting, StopWaiting
<1>6. NotGivenYet' /\ UsedIsGone'
  BY <1>1, <1>2, <1>3 DEF Issues, NotGivenYet, UsedIsGone
<1>7. NobodyElse'
  BY <1>5 DEF Issues, NobodyElse, Finds
<1>8. GrantedByConsent' /\ AgedWereGiven' /\ UsedOnce'
  BY <1>1, <1>5 DEF Issues, GrantedByConsent, AgedWereGiven, UsedOnce
<1>9. QED
  BY <1>4, <1>6, <1>7, <1>8 DEF Issues
\* What the next pair of tokens is called.
LEMMA FreshPair ==
  ASSUME RowsOK, NEW p \in FreshPairs
  PROVE  /\ p \in 1..MaxPairs /\ p \notin DOMAIN origin
         /\ \E n \in 0..MaxPairs : DOMAIN origin \cup {p} = 1..n
         /\ \A e \in DOMAIN origin : e \in 1..MaxPairs
<1>1. PICK n \in 0..MaxPairs : DOMAIN origin = 1..n
  BY DEF RowsOK
<1>2. Cardinality(DOMAIN origin) = n
  <2>1. n \in Nat
    BY GrantsAssumption
  <2>2. Cardinality(1..n) = n
    BY <2>1, FS_Interval
  <2>3. QED
    BY <1>1, <2>2
<1>3. p = n + 1 /\ p \in 1..MaxPairs
  BY <1>2 DEF FreshPairs
<1>4. DOMAIN origin \cup {p} = 1..(n + 1) /\ n + 1 \in 0..MaxPairs
  BY <1>1, <1>3, GrantsAssumption
<1>5. QED
  BY <1>1, <1>3, <1>4, GrantsAssumption

\* The three stores an exchange leaves, one after the other.
LEMMA WritesAre ==
  ASSUME NEW used, NEW p, NEW k, NEW claims, NEW i \in 1..3
  PROVE  LET c == Without(store.codes, {used})
             r == Without(store.refresh, {used})
             a == With(store.access, p, [key |-> k])
         IN Writes({used}, p, k, claims)[i] \in {[codes |-> c, access |-> store.access, refresh |-> r],
                                                 [codes |-> c, access |-> a, refresh |-> r],
                                                 [codes |-> c, access |-> a, refresh |-> With(r, p, claims)]}
<1> DEFINE c == Without(store.codes, {used})
           r == Without(store.refresh, {used})
           a == With(store.access, p, [key |-> k])
           presented == [codes |-> c, access |-> store.access, refresh |-> r]
           access == [presented EXCEPT !.access = With(presented.access, p, [key |-> k])]
           all == [access EXCEPT !.refresh = With(access.refresh, p, claims)]
<1>1. Writes({used}, p, k, claims) = <<presented, access, all>>
  BY DEF Writes
<1>2. presented = [codes |-> c, access |-> store.access, refresh |-> r]
  OBVIOUS
<1>3. access = [codes |-> c, access |-> a, refresh |-> r]
  <2> HIDE DEF c, r, presented
  <2>1. StoreShape(presented) /\ presented.access = store.access /\ presented.codes = c /\ presented.refresh = r
    BY <1>2 DEF StoreShape
  <2>2. access = [codes |-> presented.codes, access |-> With(presented.access, p, [key |-> k]),
                  refresh |-> presented.refresh]
    BY <2>1, StoreChanges
  <2>3. QED
    BY <2>1, <2>2
<1>4. all = [codes |-> c, access |-> a, refresh |-> With(r, p, claims)]
  <2> HIDE DEF c, r, a, access
  <2>1. StoreShape(access) /\ access.access = a /\ access.codes = c /\ access.refresh = r
    BY <1>3 DEF StoreShape
  <2>2. all = [codes |-> access.codes, access |-> access.access, refresh |-> With(access.refresh, p, claims)]
    BY <2>1, StoreChanges
  <2>3. QED
    BY <2>1, <2>2
<1> HIDE DEF c, r, a, presented, access, all
<1>5. Writes({used}, p, k, claims)[i] \in {presented, access, all}
  BY <1>1
<1>6. QED
  BY <1>2, <1>3, <1>4, <1>5 DEF c, r, a

\* A pair is issued, for a code or for a token that nobody has been given one for alone.
LEMMA IssueKeeps ==
  ASSUME RowsOK, Issues, NEW p \in FreshPairs, NEW k \in KeyIds, NEW used \in Codes \cup DOMAIN origin,
         NEW consent \in Codes, NEW i \in 1..3,
         store' = Writes({used}, p, k, [key |-> k, granted |-> consent])[i],
         asks' \in [Asks -> Handler \cup {Nothing}], StopWaiting(asks, asks'),
         Issued(p, used, consent),
         used = consent \/ (used \in DOMAIN origin /\ consent = origin[used].consent),
         \A e \in DOMAIN origin : origin[e].used = used => ~ origin[e].alone
  PROVE  RowsOK' /\ Issues'
<1> DEFINE claims == [key |-> k, granted |-> consent]
           c == Without(store.codes, {used})
           r == Without(store.refresh, {used})
           a == With(store.access, p, [key |-> k])
<1>1. store' \in {[codes |-> c, access |-> store.access, refresh |-> r], [codes |-> c, access |-> a, refresh |-> r],
                  [codes |-> c, access |-> a, refresh |-> With(r, p, claims)]}
  BY WritesAre
<1>2. /\ p \in 1..MaxPairs /\ p \notin DOMAIN origin
      /\ \E n \in 0..MaxPairs : DOMAIN origin \cup {p} = 1..n
      /\ \A e \in DOMAIN origin : e \in 1..MaxPairs
  BY FreshPair
<1> HIDE DEF c, r, a, claims
<1>3. /\ StoreShape(store') /\ store'.codes = c
      /\ store'.access \in {store.access, a} /\ store'.refresh \in {r, With(r, p, claims)}
  BY <1>1 DEF StoreShape
<1>8. /\ DOMAIN store'.codes = DOMAIN store.codes \ {used}
      /\ store'.codes \in [DOMAIN store'.codes -> [key : KeyIds]]
  BY <1>3, ZenonT(60) DEF c, Without, Restrict, RowsOK
<1>9. /\ DOMAIN store'.access \subseteq DOMAIN store.access \cup {p}
      /\ store'.access \in [DOMAIN store'.access -> [key : KeyIds]]
  <2>1. /\ DOMAIN a = DOMAIN store.access \cup {p} /\ a \in [DOMAIN a -> [key : KeyIds]]
        /\ store.access \in [DOMAIN store.access -> [key : KeyIds]]
    BY DEF a, With, RowsOK
  <2>2. QED
    BY <1>3, <2>1
<1>10. /\ DOMAIN store'.refresh \subseteq (DOMAIN store.refresh \ {used}) \cup {p}
       /\ \A x \in DOMAIN store'.refresh : store'.refresh[x] = IF x = p THEN claims ELSE store.refresh[x]
       /\ store'.refresh \in [DOMAIN store'.refresh -> [key : KeyIds, granted : Codes]]
  <2>1. r = [x \in DOMAIN store.refresh \ {used} |-> store.refresh[x]]
    BY DEF r, Without, Restrict
  <2>2. \A x \in DOMAIN store.refresh : x # p /\ store.refresh[x] \in [key : KeyIds, granted : Codes]
    BY <1>2 DEF RowsOK
  <2>3. claims \in [key : KeyIds, granted : Codes]
    BY DEF claims
  <2>4. CASE store'.refresh = r
    BY <2>1, <2>2, <2>4
  <2>5. CASE store'.refresh = With(r, p, claims)
    BY <2>1, <2>2, <2>3, <2>5 DEF With
  <2>6. QED
    BY <2>4, <2>5, <1>3
<1>11. /\ DOMAIN origin' = DOMAIN origin \cup {p}
       /\ origin'[p].used = used /\ origin'[p].consent = consent
       /\ origin'[p].alone <=> \A q \in Asks : ~ (asks'[q] # Nothing /\ Finds(asks'[q], used))
       /\ origin'[p] \in [used : Codes \cup 1..MaxPairs, consent : Codes, alone : BOOLEAN]
       /\ \A e \in DOMAIN origin : origin'[e] = origin[e]
       /\ origin' = [e \in DOMAIN origin' |-> origin'[e]]
       /\ UNCHANGED <<aged, gone>>
  BY <1>2 DEF Issued, With
<1>12. RowsOK'
  <2>1. \A e \in DOMAIN origin' : origin'[e] \in [used : Codes \cup 1..MaxPairs, consent : Codes, alone : BOOLEAN]
    BY <1>11 DEF RowsOK
  <2>2. origin' \in [DOMAIN origin' -> [used : Codes \cup 1..MaxPairs, consent : Codes, alone : BOOLEAN]]
    BY <1>11, <2>1
  <2>3. DOMAIN store.access \subseteq DOMAIN origin /\ DOMAIN store.refresh \subseteq DOMAIN origin
        /\ DOMAIN store.codes \subseteq Codes /\ aged \subseteq Codes
    BY DEF RowsOK
  <2>4. QED
    BY <1>2, <1>3, <1>8, <1>9, <1>10, <1>11, <2>2, <2>3 DEF RowsOK
<1>13. \A q \in Waiting' : q \in Waiting /\ asks'[q] = asks[q]
  BY DEF Waiting, StopWaiting
<1>14. NotGivenYet'
  BY <1>8, <1>11 DEF Issues, NotGivenYet
<1>15. UsedIsGone'
  <2>1. \A e \in DOMAIN origin : origin[e].used \in Codes \cup 1..MaxPairs
    BY DEF RowsOK
  <2>2. \A e \in DOMAIN origin : origin[e].used # p
    <3> TAKE e \in DOMAIN origin
    <3>1. p \notin Codes /\ origin[e].consent \in Codes
      BY <1>2, GrantsAssumption DEF RowsOK
    <3>2. QED
      BY <1>2, <3>1 DEF Issues, UsedIsGone
  <2>3. used # p
    BY <1>2, GrantsAssumption
  <2>4. QED
    BY <1>10, <1>11, <2>2, <2>3, ZenonT(60) DEF Issues, UsedIsGone
<1>16. NobodyElse'
  BY <1>11, <1>13 DEF Issues, NobodyElse, Finds, Waiting
<1>17. GrantedByConsent'
  <2>1. \A x \in DOMAIN store.refresh : x \in DOMAIN origin
    BY DEF RowsOK
  <2>2. \A x \in DOMAIN store'.refresh : store'.refresh[x].granted = origin'[x].consent
    <3> TAKE x \in DOMAIN store'.refresh
    <3>1. CASE x = p
      <4>1. store'.refresh[p] = claims /\ claims.granted = consent
        BY <1>10, <3>1 DEF claims
      <4>2. QED
        BY <1>11, <3>1, <4>1
    <3>2. CASE x # p
      <4>1. x \in DOMAIN store.refresh /\ store'.refresh[x] = store.refresh[x] /\ origin'[x] = origin[x]
        BY <1>10, <1>11, <2>1, <3>2
      <4>2. QED
        BY <4>1 DEF Issues, GrantedByConsent
    <3>3. QED
      BY <3>1, <3>2
  <2>3. ASSUME NEW q \in Waiting', asks'[q].op = "refresh"
        PROVE  asks'[q].pair \in DOMAIN origin' /\ asks'[q].granted = origin'[asks'[q].pair].consent
    <3>1. asks[q].pair \in DOMAIN origin /\ asks[q].granted = origin[asks[q].pair].consent
      BY <1>13, <2>3 DEF Issues, GrantedByConsent
    <3>2. QED
      BY <1>11, <1>13, <3>1
  <2>4. QED
    BY <2>2, <2>3 DEF GrantedByConsent
<1>18. AgedWereGiven'
  BY <1>11 DEF Issues, AgedWereGiven
<1>19. UsedOnce'
  BY <1>11 DEF Issues, UsedOnce
<1>20. QED
  BY <1>12, <1>14, <1>15, <1>16, <1>17, <1>18, <1>19 DEF Issues

\* A handler asks: about a key in the table, or for a token in the store.
LEMMA AskKeeps ==
  ASSUME RowsOK, Issues, NEW a \in Handler, Ask(a), a.answer = Nothing,
         a.op = "refresh" => a.pair \in DOMAIN store.refresh /\ a.granted = store.refresh[a.pair].granted
  PROVE  RowsOK' /\ Issues' /\ (\E q \in Asks \ Waiting : asks' = [asks EXCEPT ![q] = a])
<1>1. PICK q \in Asks \ Waiting : /\ asks' = [asks EXCEPT ![q] = a]
                                  /\ UNCHANGED <<store, cache, origin, aged, gone>>
  BY DEF Ask
<1>2. asks' \in [Asks -> Handler \cup {Nothing}]
  BY <1>1 DEF RowsOK
<1>3. RowsOK'
  BY <1>1, <1>2 DEF RowsOK
<1>4. \A x \in Asks : asks'[x] = IF x = q THEN a ELSE asks[x]
  BY <1>1 DEF RowsOK
<1>5. \A e \in DOMAIN origin : ~ Finds(a, origin[e].used)
  BY DEF Finds, Issues, UsedIsGone
<1>6. NobodyElse'
  BY <1>1, <1>4, <1>5 DEF Issues, NobodyElse, Waiting, Finds
<1>7. GrantedByConsent'
  <2>1. a.op = "refresh" => a.pair \in DOMAIN origin /\ a.granted = origin[a.pair].consent
    BY DEF RowsOK, Issues, GrantedByConsent
  <2>2. QED
    BY <1>1, <1>4, <2>1 DEF Issues, GrantedByConsent, Waiting
<1>8. NotGivenYet' /\ UsedIsGone' /\ AgedWereGiven' /\ UsedOnce'
  BY <1>1 DEF Issues, NotGivenYet, UsedIsGone, AgedWereGiven, UsedOnce
<1>9. QED
  BY <1>1, <1>3, <1>6, <1>7, <1>8 DEF Issues

\* The backend answers.
LEMMA AnswerKeeps ==
  ASSUME RowsOK, Issues, AccountsTypeOK, NEW q \in Waiting, Answers(q)
  PROVE  /\ RowsOK' /\ Issues'
         /\ Waiting' = Waiting
         /\ \A x \in Waiting : asks'[x].key = asks[x].key
         /\ \A x \in Waiting \ {q} : asks'[x] = asks[x]
         /\ asks'[q].answer \in {Answer(asks[q].key), "unavailable"}
<1>1. PICK answer \in {Answer(asks[q].key), "unavailable"} : asks' = [asks EXCEPT ![q].answer = answer]
  BY DEF Answers
<1>2. UNCHANGED <<store, cache, origin, aged, gone>>
  BY DEF Answers
<1>3. answer \in Roles \cup {"unusable", "unavailable"}
  BY DEF Answer, AccountsTypeOK, UserRow
<1>4. q \in Asks /\ asks[q] \in Handler
  BY DEF RowsOK, Waiting
<1>5. /\ [asks[q] EXCEPT !.answer = answer] \in Handler
      /\ \A x \in Asks : asks'[x] = IF x = q THEN [asks[q] EXCEPT !.answer = answer] ELSE asks[x]
      /\ asks' = [x \in Asks |-> asks'[x]]
  BY <1>1, <1>3, <1>4 DEF RowsOK, Handler
<1>6. asks' \in [Asks -> Handler \cup {Nothing}]
  BY <1>5 DEF RowsOK
<1>7. RowsOK'
  BY <1>2, <1>6 DEF RowsOK
<1>8. /\ asks'[q].op = asks[q].op /\ asks'[q].pair = asks[q].pair /\ asks'[q].granted = asks[q].granted
      /\ asks'[q].key = asks[q].key /\ asks'[q].answer = answer
  BY <1>4, <1>5 DEF Handler
<1>9. asks'[q] # Nothing
  BY <1>4, <1>5, GrantsAssumption
<1>10. Waiting' = Waiting
  BY <1>4, <1>5, <1>9 DEF Waiting
<1>11. NobodyElse' /\ GrantedByConsent'
  BY <1>2, <1>4, <1>5, <1>8, <1>10 DEF Issues, NobodyElse, GrantedByConsent, Finds, Waiting
<1>12. NotGivenYet' /\ UsedIsGone' /\ AgedWereGiven' /\ UsedOnce'
  BY <1>2 DEF Issues, NotGivenYet, UsedIsGone, AgedWereGiven, UsedOnce
<1>13. QED
  BY <1>4, <1>5, <1>7, <1>8, <1>10, <1>11, <1>12 DEF Issues, Waiting
-----------------------------------------------------------------------------
(* Answers of the backend                                                  *)

LEMMA GoesKeeps ==
  ASSUME RowsOK, CacheOK, Minute, NEW a \in Handler, NEW q \in Waiting \cup {Nothing},
         q # Nothing => a = asks[q], NEW role, Goes(a, q, role), UNCHANGED <<keys, gone>>
  PROVE  /\ asks' \in [Asks -> Handler \cup {Nothing}] /\ StopWaiting(asks, asks')
         /\ CacheOK' /\ Minute'
<1>1. CASE q = Nothing /\ Hit(a) /\ UNCHANGED asks
  <2>1. UNCHANGED <<cache, asks>>
    BY <1>1 DEF Hit
  <2>2. QED
    BY <2>1 DEF RowsOK, StopWaiting, CacheOK, Minute, Waiting
<1>2. CASE /\ q # Nothing
           /\ cache' = IF role \in Roles THEN With(cache, <<a.by, a.key>>, [role |-> role, left |-> 2]) ELSE cache
           /\ asks' = [asks EXCEPT ![q] = Nothing]
  <2>1. q \in Asks /\ q \in Waiting /\ a = asks[q]
    BY <1>2 DEF Waiting
  <2>2. \A x \in Asks : asks'[x] = IF x = q THEN Nothing ELSE asks[x]
    BY <1>2 DEF RowsOK
  <2>3. asks' \in [Asks -> Handler \cup {Nothing}] /\ StopWaiting(asks, asks')
    BY <1>2, <2>2 DEF RowsOK, StopWaiting
  <2>4. \A x \in Waiting' : x \in Waiting /\ asks'[x] = asks[x]
    BY <2>2 DEF Waiting
  <2>5. role = a.answer
    BY <1>2, <2>1 DEF Goes, Told
  <2>6. <<a.by, a.key>> \in {"verify", "check"} \X KeyIds /\ a.key \in KeyIds
    BY DEF Handler
  <2>7. role \in Roles => gone[a.key] = 0
    BY <2>1, <2>5, <2>6 DEF Minute, CacheOK
  <2>8. CASE role \in Roles
    <3> DEFINE x == <<a.by, a.key>>
               new == [role |-> role, left |-> 2]
    <3>0. cache' = With(cache, x, new)
      BY <1>2, <2>8
    <3>1. new \in [role : Roles, left : 1..2] /\ new.left = 2 /\ x[2] = a.key
      BY <2>8
    <3> HIDE DEF new, x
    <3>2. /\ DOMAIN cache' = DOMAIN cache \cup {x} /\ cache'[x] = new
          /\ \A y \in DOMAIN cache : y # x => cache'[y] = cache[y]
          /\ cache' = [y \in DOMAIN cache' |-> cache'[y]]
      BY <3>0 DEF With
    <3>3. cache' \in [DOMAIN cache' -> [role : Roles, left : 1..2]]
      BY <3>1, <3>2 DEF CacheOK
    <3>4. CacheOK'
      BY <2>6, <3>2, <3>3 DEF CacheOK, x
    <3>5. \A y \in DOMAIN cache' : cache'[y].left + gone[y[2]] <= 2
      <4> TAKE y \in DOMAIN cache'
      <4>1. CASE y = x
        BY <2>7, <2>8, <3>1, <3>2, <4>1
      <4>2. CASE y # x
        BY <3>2, <4>2 DEF Minute
      <4>3. QED
        BY <4>1, <4>2
    <3>6. QED
      BY <2>3, <2>4, <3>4, <3>5 DEF Minute
  <2>9. CASE role \notin Roles
    BY <1>2, <2>3, <2>4, <2>9 DEF CacheOK, Minute
  <2>10. QED
    BY <2>8, <2>9
<1>3. QED
  BY <1>1, <1>2 DEF Goes

LEMMA RestartKeeps ==
  ASSUME RowsOK, CacheOK, Minute, Restart, UNCHANGED <<keys, gone>>
  PROVE  /\ asks' \in [Asks -> Handler \cup {Nothing}] /\ StopWaiting(asks, asks')
         /\ CacheOK' /\ Minute'
<1>1. cache' = <<>> /\ DOMAIN cache' = {} /\ asks' = [q \in Asks |-> Nothing] /\ Waiting' = {}
  BY DEF Restart, Waiting
<1>2. cache' \in [DOMAIN cache' -> [role : Roles, left : 1..2]]
  BY <1>1
<1>3. QED
  BY <1>1, <1>2 DEF CacheOK, Minute, StopWaiting

LEMMA WaitKeeps ==
  ASSUME RowsOK, CacheOK, Minute, UNCHANGED <<keys, gone, cache, asks>>
  PROVE  /\ asks' \in [Asks -> Handler \cup {Nothing}] /\ StopWaiting(asks, asks')
         /\ CacheOK' /\ Minute'
BY DEF RowsOK, StopWaiting, CacheOK, Minute, Waiting

LEMMA TickKeeps ==
  ASSUME RowsOK, CacheOK, Minute, Tick, UNCHANGED keys
  PROVE  CacheOK' /\ Minute'
<1>1. /\ Waiting = {} /\ asks' = asks
      /\ cache' = [x \in {y \in DOMAIN cache : cache[y].left > 1} |-> [cache[x] EXCEPT !.left = @ - 1]]
      /\ gone' = [k \in KeyIds |-> IF k \in DOMAIN keys /\ ~ keys[k].active /\ gone[k] < 2
                                   THEN gone[k] + 1 ELSE gone[k]]
  BY DEF Tick
<1>2. \A x \in DOMAIN cache' : /\ x \in DOMAIN cache /\ cache[x].left = 2
                               /\ cache'[x] \in [role : Roles, left : 1..2]
                               /\ cache'[x].left = 1
  <2> TAKE x \in DOMAIN cache'
  <2>1. x \in DOMAIN cache /\ cache[x].left > 1 /\ cache'[x] = [cache[x] EXCEPT !.left = @ - 1]
    BY <1>1
  <2>2. cache[x] \in [role : Roles, left : 1..2]
    BY <2>1 DEF CacheOK
  <2>3. QED
    BY <2>1, <2>2
<1>3. /\ DOMAIN cache' \subseteq DOMAIN cache
      /\ cache' \in [DOMAIN cache' -> [role : Roles, left : 1..2]]
  <2>1. cache' = [x \in DOMAIN cache' |-> cache'[x]]
    BY <1>1
  <2>2. QED
    BY <1>2, <2>1
<1>4. gone' \in [KeyIds -> 0..2] /\ \A k \in KeyIds : gone'[k] <= gone[k] + 1
  BY <1>1 DEF CacheOK
<1>5. CacheOK'
  BY <1>3, <1>4 DEF CacheOK
<1>6. \A k \in KeyIds : gone'[k] > 0 => k \in DOMAIN keys /\ ~ keys[k].active
  BY <1>1 DEF Minute, CacheOK
<1>7. \A x \in DOMAIN cache' : cache'[x].left + gone'[x[2]] <= 2
  <2> TAKE x \in DOMAIN cache'
  <2>1. x \in DOMAIN cache /\ x[2] \in KeyIds /\ cache[x].left + gone[x[2]] <= 2
    BY <1>2 DEF CacheOK, Minute
  <2>2. gone[x[2]] \in 0..2 /\ gone'[x[2]] \in 0..2
    BY <1>4, <2>1 DEF CacheOK
  <2>3. QED
    BY <1>2, <1>4, <2>1, <2>2
<1>8. Waiting' = {}
  BY <1>1 DEF Waiting
<1>9. QED
  BY <1>5, <1>6, <1>7, <1>8 DEF Minute

\* A key that was revoked stays so.
LEMMA RevokedStays ==
  ASSUME AccountsTypeOK, [AccountsNext]_accountVars, NEW k \in DOMAIN keys, ~ keys[k].active
  PROVE  k \in DOMAIN keys' /\ ~ keys'[k].active
<1>1. keys \in [DOMAIN keys -> KeyRow] /\ keys[k] \in KeyRow
  BY DEF AccountsTypeOK
<1>2. CASE keys' = keys
  BY <1>2
<1>3. ASSUME NEW r \in Requests, CreateKeyCommits(r) \/ CycleCreates(r)
      PROVE  k \in DOMAIN keys' /\ ~ keys'[k].active
  BY <1>3 DEF CreateKeyCommits, CycleCreates, NewKey
<1>4. ASSUME NEW x, keys' = [keys EXCEPT ![x].active = FALSE]
      PROVE  k \in DOMAIN keys' /\ ~ keys'[k].active
  BY <1>1, <1>4 DEF KeyRow
<1>5. ASSUME NEW u, keys' = RevokeUserKeys(u)
      PROVE  k \in DOMAIN keys' /\ ~ keys'[k].active
  BY <1>1, <1>5 DEF RevokeUserKeys, KeyRow
<1>6. \/ keys' = keys
      \/ \E r \in Requests : CreateKeyCommits(r) \/ CycleCreates(r)
      \/ \E x : keys' = [keys EXCEPT ![x].active = FALSE]
      \/ \E u : keys' = RevokeUserKeys(u)
  BY DEF AccountsNext, accountVars, Login, Logout, ChangePassword, CreateUser, UpdateUser, DeleteUser,
     ResetPassword, CreateKey, CycleKey, RevokeKey, Begin, CreateSession, ChangeStores, ChangeSignsOut,
     CreateUserCommits, UpdateUserCommits, DeleteSignsOut, DeleteRevokes, DeleteCommits, ResetSignsOut,
     ResetStores, CycleRevokes, Abandon
<1>7. QED
  BY <1>2, <1>3, <1>4, <1>5, <1>6
-----------------------------------------------------------------------------
(* The handlers                                                            *)

LEMMA HandlerRows ==
  ASSUME RowsOK, NEW q \in Waiting
  PROVE  asks[q] \in Handler /\ q \in Asks
BY DEF RowsOK, Waiting

LEMMA DroppedLoses ==
  ASSUME RowsOK, NEW k
  PROVE  Loses(Dropped(k))
<1> DEFINE c == Without(store.codes, KeyOf(store.codes, k))
           a == Without(store.access, KeyOf(store.access, k))
           r == Without(store.refresh, KeyOf(store.refresh, k))
<1>1. Less(c, store.codes) /\ Less(a, store.access) /\ Less(r, store.refresh)
  BY WithoutLess
<1>2. Dropped(k) = [codes |-> c, access |-> a, refresh |-> r]
  BY DEF Dropped
<1> HIDE DEF c, a, r
<1>3. QED
  BY <1>1, <1>2 DEF Loses, StoreShape

LEMMA SameLoses ==
  ASSUME RowsOK
  PROVE  Loses(store)
BY DEF RowsOK, Loses, Less

\* A step that issues nothing.
Quiet == GrantsInvariant' /\ origin' = origin

LEMMA ConsentKeeps ==
  ASSUME GrantsInvariant, NEW a \in Handler, NEW q \in Waiting \cup {Nothing},
         q # Nothing => a = asks[q], Consent(a, q), UNCHANGED keys
  PROVE  Quiet
<1> RowsOK /\ CacheOK /\ Issues /\ Minute
  BY DEF GrantsInvariant
<1>1. PICK role : /\ Goes(a, q, role) /\ UNCHANGED <<origin, aged, gone>>
                  /\ \/ UNCHANGED store
                     \/ \E c \in FreshCodes : store' = [store EXCEPT !.codes = With(@, c, [key |-> a.key])]
  BY DEF Consent
<1>2. /\ asks' \in [Asks -> Handler \cup {Nothing}] /\ StopWaiting(asks, asks')
      /\ CacheOK' /\ Minute'
  BY <1>1, GoesKeeps
<1>3. a.key \in KeyIds
  BY DEF Handler
<1>4. CASE UNCHANGED store
  <2>1. Loses(store')
    BY <1>4, SameLoses
  <2>2. RowsOK' /\ Issues'
    BY <1>1, <1>2, <2>1, LosingKeeps
  <2>3. QED
    BY <1>1, <1>2, <2>2 DEF Quiet, GrantsInvariant
<1>5. ASSUME NEW c \in FreshCodes, store' = [store EXCEPT !.codes = With(@, c, [key |-> a.key])]
      PROVE  Quiet
  <2>1. RowsOK' /\ Issues'
    BY <1>1, <1>2, <1>3, <1>5, CodeKeeps
  <2>2. QED
    BY <1>1, <1>2, <2>1 DEF Quiet, GrantsInvariant
<1>6. QED
  BY <1>1, <1>4, <1>5

LEMMA LoadKeeps ==
  ASSUME GrantsInvariant, NEW a \in Handler, NEW q \in Waiting \cup {Nothing},
         q # Nothing => a = asks[q], Load(a, q), UNCHANGED keys
  PROVE  Quiet
<1> RowsOK /\ CacheOK /\ Issues /\ Minute
  BY DEF GrantsInvariant
<1>1. PICK role : /\ Goes(a, q, role) /\ UNCHANGED <<origin, aged, gone>>
                  /\ store' = IF role \in Bad THEN Dropped(a.key) ELSE store
  BY DEF Load
<1>2. /\ asks' \in [Asks -> Handler \cup {Nothing}] /\ StopWaiting(asks, asks')
      /\ CacheOK' /\ Minute'
  BY <1>1, GoesKeeps
<1>3. Loses(store')
  BY <1>1, SameLoses, DroppedLoses
<1>4. RowsOK' /\ Issues'
  BY <1>1, <1>2, <1>3, LosingKeeps
<1>5. QED
  BY <1>1, <1>2, <1>4 DEF Quiet, GrantsInvariant

\* What a step issues: a consent that has not grown too old, or one its handler had found before.
InTime == \A p \in DOMAIN origin' \ DOMAIN origin :
    origin'[p].consent \in aged => \E q \in Waiting : Finds(asks[q], origin'[p].used)

LEMMA IssuedInTime ==
  ASSUME NEW p, NEW used, NEW consent, Issued(p, used, consent), p \notin DOMAIN origin,
         consent \in aged => \E q \in Waiting : Finds(asks[q], used)
  PROVE  InTime
<1>1. /\ DOMAIN origin' = DOMAIN origin \cup {p}
      /\ origin'[p].used = used /\ origin'[p].consent = consent
  BY DEF Issued, With
<1>2. QED
  BY <1>1 DEF InTime

LEMMA ExchangeKeeps ==
  ASSUME GrantsInvariant, ExchangeCode, UNCHANGED keys
  PROVE  GrantsInvariant' /\ InTime
<1> RowsOK /\ CacheOK /\ Issues /\ Minute
  BY DEF GrantsInvariant
<1>1. PICK c \in DOMAIN store.codes, p \in FreshPairs, i \in 1..3 :
        /\ store' = Writes({c}, p, store.codes[c].key, [key |-> store.codes[c].key, granted |-> c])[i]
        /\ UNCHANGED <<cache, asks>> \/ Restart
        /\ Issued(p, c, c)
  <2>1. 1 \in 1..3 /\ 2 \in 1..3 /\ 3 \in 1..3
    OBVIOUS
  <2>2. QED
    BY <2>1 DEF ExchangeCode
<1>2. /\ asks' \in [Asks -> Handler \cup {Nothing}] /\ StopWaiting(asks, asks')
      /\ CacheOK' /\ Minute'
  <2>1. gone' = gone
    BY <1>1 DEF Issued
  <2>2. QED
    BY <1>1, <2>1, RestartKeeps, WaitKeeps
<1>3. c \in Codes /\ store.codes[c].key \in KeyIds
  BY DEF RowsOK
<1>4. \A e \in DOMAIN origin : origin[e].used # c
  <2> TAKE e \in DOMAIN origin
  <2>1. origin[e].consent # c
    BY DEF Issues, NotGivenYet
  <2>2. c \notin DOMAIN origin
    <3>1. \A x \in DOMAIN origin : x \in 1..MaxPairs
      BY FreshPair
    <3>2. QED
      BY <1>3, <3>1, GrantsAssumption
  <2>3. QED
    BY <2>1, <2>2 DEF Issues, UsedIsGone
<1>5. RowsOK' /\ Issues'
  BY <1>1, <1>2, <1>3, <1>4, IssueKeeps
<1>6. c \notin aged
  BY DEF Issues, NotGivenYet, AgedWereGiven
<1>7. InTime
  <2>1. p \notin DOMAIN origin
    BY FreshPair
  <2>2. QED
    BY <1>1, <1>6, <2>1, IssuedInTime
<1>8. QED
  BY <1>2, <1>5, <1>7 DEF GrantsInvariant

LEMMA RotateKeeps ==
  ASSUME GrantsInvariant, NEW a \in Handler, NEW q \in Waiting \cup {Nothing},
         q # Nothing => a = asks[q], Rotate(a, q), UNCHANGED keys,
         a.op = "refresh", a.pair \in DOMAIN origin, a.granted = origin[a.pair].consent,
         \/ a.pair \in DOMAIN store.refresh /\ a.granted \notin aged
         \/ \E w \in Waiting : asks[w] = a
  PROVE  GrantsInvariant' /\ InTime
<1> RowsOK /\ CacheOK /\ Issues /\ Minute
  BY DEF GrantsInvariant
<1>1. ASSUME NEW role, Goes(a, q, role), store' = Dropped(a.key), UNCHANGED <<origin, aged, gone>>
      PROVE  GrantsInvariant' /\ InTime
  <2>1. /\ asks' \in [Asks -> Handler \cup {Nothing}] /\ StopWaiting(asks, asks')
        /\ CacheOK' /\ Minute'
    BY <1>1, GoesKeeps
  <2>2. RowsOK' /\ Issues'
    BY <1>1, <2>1, DroppedLoses, LosingKeeps
  <2>3. QED
    BY <1>1, <2>1, <2>2 DEF GrantsInvariant, InTime
<1>2. ASSUME NEW role, NEW p \in FreshPairs, NEW i \in 1..3,
             store' = Writes({a.pair}, p, a.key, Carried(a, p))[i],
             Goes(a, q, role) \/ Restart,
             Issued(p, a.pair, origin[a.pair].consent)
      PROVE  GrantsInvariant' /\ InTime
  <2>1. /\ asks' \in [Asks -> Handler \cup {Nothing}] /\ StopWaiting(asks, asks')
        /\ CacheOK' /\ Minute'
    <3>1. gone' = gone
      BY <1>2 DEF Issued
    <3>2. QED
      BY <1>2, <3>1, GoesKeeps, RestartKeeps
  <2>2. /\ a.key \in KeyIds /\ origin[a.pair].consent \in Codes
        /\ Carried(a, p) = [key |-> a.key, granted |-> origin[a.pair].consent]
    BY DEF Handler, RowsOK, Carried
  <2>3. \A e \in DOMAIN origin : origin[e].used = a.pair => ~ origin[e].alone
    BY DEF Issues, UsedIsGone, NobodyElse, Finds
  <2>4. RowsOK' /\ Issues'
    BY <1>2, <2>1, <2>2, <2>3, IssueKeeps
  <2>5. origin[a.pair].consent \in aged => \E w \in Waiting : Finds(asks[w], a.pair)
    BY DEF Finds
  <2>6. InTime
    <3>1. p \notin DOMAIN origin
      BY <1>2, FreshPair
    <3>2. QED
      BY <1>2, <2>5, <3>1, IssuedInTime
  <2>7. QED
    BY <2>1, <2>4, <2>6 DEF GrantsInvariant
<1>3. ASSUME NEW role, NEW p \in FreshPairs, Issued(p, a.pair, origin[a.pair].consent),
             \/ Goes(a, q, role) /\ store' = Writes({a.pair}, p, a.key, Carried(a, p))[3]
             \/ store' \in {Writes({a.pair}, p, a.key, Carried(a, p))[1],
                           Writes({a.pair}, p, a.key, Carried(a, p))[2]} /\ Restart
      PROVE  GrantsInvariant' /\ InTime
  <2>1. 1 \in 1..3 /\ 2 \in 1..3 /\ 3 \in 1..3
    OBVIOUS
  <2>2. CASE Goes(a, q, role) /\ store' = Writes({a.pair}, p, a.key, Carried(a, p))[3]
    BY <1>2, <1>3, <2>1, <2>2
  <2>3. CASE Restart /\ store' = Writes({a.pair}, p, a.key, Carried(a, p))[1]
    BY <1>2, <1>3, <2>1, <2>3
  <2>4. CASE Restart /\ store' = Writes({a.pair}, p, a.key, Carried(a, p))[2]
    BY <1>2, <1>3, <2>1, <2>4
  <2>5. QED
    BY <1>3, <2>2, <2>3, <2>4
<1>4. QED
  BY <1>1, <1>3 DEF Rotate
\* The token of a request is in the store, the key in the table.
LEMMA Wishes ==
  ASSUME RowsOK, AccountsTypeOK
  PROVE  /\ \A k \in DOMAIN keys : Wish("consent", "verify", k, Nothing, Nothing) \in Handler
         /\ \A p \in DOMAIN store.refresh :
              Wish("refresh", "check", store.refresh[p].key, p, store.refresh[p].granted) \in Handler
         /\ \A p \in DOMAIN store.access :
              Wish("use", "check", store.access[p].key, p, Nothing) \in Handler
<1>1. \A k \in DOMAIN keys : k \in KeyIds
  BY BoundsAssumption DEF AccountsTypeOK, KeyIds
<1>2. \A p \in DOMAIN origin : p \in 1..MaxPairs
  BY FreshPair, GrantsAssumption DEF RowsOK
<1>3. /\ \A p \in DOMAIN store.refresh : /\ p \in DOMAIN origin /\ store.refresh[p].key \in KeyIds
                                         /\ store.refresh[p].granted \in Codes
      /\ \A p \in DOMAIN store.access : p \in DOMAIN origin /\ store.access[p].key \in KeyIds
  BY DEF RowsOK
<1>4. QED
  BY <1>1, <1>2, <1>3 DEF Wish, Handler

LEMMA AskingKeeps ==
  ASSUME GrantsInvariant, NEW a \in Handler, Ask(a), a.answer = Nothing, UNCHANGED keys,
         a.op = "refresh" => a.pair \in DOMAIN store.refresh /\ a.granted = store.refresh[a.pair].granted
  PROVE  Quiet
<1> RowsOK /\ CacheOK /\ Issues /\ Minute
  BY DEF GrantsInvariant
<1>1. RowsOK' /\ Issues' /\ UNCHANGED <<cache, gone, origin>>
  BY AskKeeps DEF Ask
<1>2. PICK q \in Asks \ Waiting : asks' = [asks EXCEPT ![q] = a]
  BY AskKeeps
<1>3. \A x \in Asks : asks'[x] = IF x = q THEN a ELSE asks[x]
  BY <1>2 DEF RowsOK
<1>4. CacheOK'
  BY <1>1 DEF CacheOK
<1>5. \A x \in Waiting' : gone[asks'[x].key] > 0 => asks'[x].answer \notin Roles
  <2>1. Nothing \notin Roles
    BY GrantsAssumption
  <2>2. QED
    BY <1>3, <2>1 DEF Minute, Waiting
<1>6. Minute'
  BY <1>1, <1>5 DEF Minute
<1>7. QED
  BY <1>1, <1>4, <1>6 DEF Quiet, GrantsInvariant

LEMMA AnsweringKeeps ==
  ASSUME GrantsInvariant, AccountsTypeOK, NEW q \in Waiting, Answers(q), UNCHANGED keys
  PROVE  Quiet
<1> RowsOK /\ CacheOK /\ Issues /\ Minute
  BY DEF GrantsInvariant
<1>1. RowsOK' /\ Issues' /\ UNCHANGED <<cache, gone, origin>>
  BY AnswerKeeps DEF Answers
<1>2. /\ Waiting' = Waiting
      /\ \A x \in Waiting : asks'[x].key = asks[x].key
      /\ \A x \in Waiting \ {q} : asks'[x] = asks[x]
      /\ asks'[q].answer \in {Answer(asks[q].key), "unavailable"}
  BY AnswerKeeps
<1>3. CacheOK'
  BY <1>1 DEF CacheOK
<1>4. gone[asks[q].key] > 0 => asks'[q].answer \notin Roles
  <2>1. asks[q].key \in KeyIds
    BY HandlerRows DEF Handler
  <2>2. gone[asks[q].key] > 0 => Answer(asks[q].key) = "unusable"
    BY <2>1 DEF Minute, Answer
  <2>3. QED
    BY <1>2, <2>2 DEF Roles
<1>5. Minute'
  BY <1>1, <1>2, <1>4 DEF Minute
<1>6. QED
  BY <1>1, <1>3, <1>5 DEF Quiet, GrantsInvariant

\* Rows end, consents grow old, the clock ticks, the server stops.
LEMMA EndingsKeep ==
  ASSUME GrantsInvariant, TooOld \/ Ends \/ Age \/ Tick \/ Stop, UNCHANGED keys
  PROVE  Quiet
<1> RowsOK /\ CacheOK /\ Issues /\ Minute
  BY DEF GrantsInvariant
<1>1. CASE Tick
  <2>1. UNCHANGED <<store, asks, origin, aged>>
    BY <1>1 DEF Tick
  <2>2. RowsOK' /\ Issues'
    BY <2>1 DEF RowsOK, Issues, NotGivenYet, UsedIsGone, NobodyElse, GrantedByConsent, AgedWereGiven,
       UsedOnce, Waiting
  <2>3. QED
    BY <1>1, <2>1, <2>2, TickKeeps DEF Quiet, GrantsInvariant
<1>2. ASSUME Loses(store'), UNCHANGED <<cache, asks>> \/ Restart, UNCHANGED <<origin, gone>>,
             aged' \subseteq aged \cup {origin[p].consent : p \in DOMAIN origin}
      PROVE  Quiet
  <2>1. /\ asks' \in [Asks -> Handler \cup {Nothing}] /\ StopWaiting(asks, asks')
        /\ CacheOK' /\ Minute'
    BY <1>2, RestartKeeps, WaitKeeps
  <2>2. RowsOK' /\ Issues'
    BY <1>2, <2>1, LosingKeeps
  <2>3. QED
    BY <1>2, <2>1, <2>2 DEF Quiet, GrantsInvariant
<1>3. CASE TooOld
  <2>1. PICK p : /\ store' = [store EXCEPT !.refresh = Without(@, {p})]
                 /\ UNCHANGED <<cache, asks, origin, aged, gone>>
    BY <1>3 DEF TooOld
  <2>2. Loses(store')
    <3>1. store' = [codes |-> store.codes, access |-> store.access, refresh |-> Without(store.refresh, {p})]
      BY <2>1, StoreChanges DEF RowsOK
    <3>2. Less(Without(store.refresh, {p}), store.refresh)
      BY WithoutLess
    <3>3. QED
      BY <3>1, <3>2, SameLoses DEF Loses, StoreShape
  <2>3. QED
    BY <1>2, <2>1, <2>2
<1>4. CASE Ends
  <2>0. PICK kind \in DOMAIN store : /\ \E x \in DOMAIN store[kind] : store' = [store EXCEPT ![kind] = Without(@, {x})]
                                     /\ UNCHANGED <<cache, asks, origin, aged, gone>>
    BY <1>4 DEF Ends
  <2>1. PICK x \in DOMAIN store[kind] : store' = [store EXCEPT ![kind] = Without(@, {x})]
    BY <2>0
  <2>2. kind \in {"codes", "access", "refresh"}
    BY DEF RowsOK, StoreShape
  <2>3. Less(Without(store.codes, {x}), store.codes) /\ Less(Without(store.access, {x}), store.access)
        /\ Less(Without(store.refresh, {x}), store.refresh)
    BY WithoutLess
  <2>4. \/ store' = [codes |-> Without(store.codes, {x}), access |-> store.access, refresh |-> store.refresh]
        \/ store' = [codes |-> store.codes, access |-> Without(store.access, {x}), refresh |-> store.refresh]
        \/ store' = [codes |-> store.codes, access |-> store.access, refresh |-> Without(store.refresh, {x})]
    <3>1. CASE kind = "codes"
      BY <2>1, <3>1, StoreChanges DEF RowsOK
    <3>2. CASE kind = "access"
      BY <2>1, <3>2, StoreChanges DEF RowsOK
    <3>3. CASE kind = "refresh"
      BY <2>1, <3>3, StoreChanges DEF RowsOK
    <3>4. QED
      BY <2>2, <3>1, <3>2, <3>3
  <2>5. Loses(store')
    BY <2>3, <2>4, SameLoses DEF Loses, StoreShape
  <2>6. QED
    BY <1>2, <2>0, <2>5
<1>5. CASE Age
  <2>1. /\ UNCHANGED <<store, cache, asks, origin, gone>>
        /\ aged' \subseteq aged \cup {origin[p].consent : p \in DOMAIN origin}
    BY <1>5 DEF Age
  <2>2. QED
    BY <1>2, <2>1, SameLoses
<1>6. CASE Stop
  BY <1>2, <1>6, SameLoses DEF Stop
<1>7. QED
  BY <1>1, <1>3, <1>4, <1>5, <1>6

\* An account step leaves the grants alone and no revoked key is brought back.
LEMMA AccountStepKeeps ==
  ASSUME GrantsInvariant, AccountsTypeOK, [AccountsNext]_accountVars, UNCHANGED grantVars
  PROVE  Quiet
<1> RowsOK /\ CacheOK /\ Issues /\ Minute
  BY DEF GrantsInvariant
<1>1. UNCHANGED <<store, cache, asks, origin, aged, gone>>
  BY DEF grantVars
<1>2. RowsOK' /\ CacheOK' /\ Issues' /\ Waiting' = Waiting
  BY <1>1 DEF RowsOK, CacheOK, Issues, NotGivenYet, UsedIsGone, NobodyElse, GrantedByConsent, AgedWereGiven,
     UsedOnce, Waiting
<1>3. Minute'
  BY <1>1, <1>2, RevokedStays DEF Minute
<1>4. QED
  BY <1>1, <1>2, <1>3 DEF Quiet, GrantsInvariant

LEMMA GrantsStepKeeps ==
  ASSUME GrantsInvariant, AccountsTypeOK, GrantsNext, UNCHANGED keys
  PROVE  GrantsInvariant' /\ InTime
<1> RowsOK /\ CacheOK /\ Issues /\ Minute
  BY DEF GrantsInvariant
<1>0. ASSUME Quiet PROVE GrantsInvariant' /\ InTime
  BY <1>0 DEF Quiet, InTime
<1>1. CASE PasteKey
  <2>1. PICK k \in DOMAIN keys : \/ Ask(Wish("consent", "verify", k, Nothing, Nothing))
                                 \/ Consent(Wish("consent", "verify", k, Nothing, Nothing), Nothing)
    BY <1>1 DEF PasteKey
  <2> DEFINE a == Wish("consent", "verify", k, Nothing, Nothing)
  <2>2. a \in Handler /\ a.answer = Nothing /\ a.op = "consent"
    BY Wishes DEF Wish
  <2> HIDE DEF a
  <2>3. Quiet
    BY <2>1, <2>2, AskingKeeps, ConsentKeeps DEF a
  <2>4. QED
    BY <1>0, <2>3
<1>2. CASE UseToken
  <2>1. PICK p \in DOMAIN store.access : \/ Ask(Wish("use", "check", store.access[p].key, p, Nothing))
                                         \/ Load(Wish("use", "check", store.access[p].key, p, Nothing), Nothing)
    BY <1>2 DEF UseToken
  <2> DEFINE a == Wish("use", "check", store.access[p].key, p, Nothing)
  <2>2. a \in Handler /\ a.answer = Nothing /\ a.op = "use"
    BY Wishes DEF Wish
  <2>3. Quiet
    BY <2>1, <2>2, AskingKeeps, LoadKeeps
  <2>4. QED
    BY <1>0, <2>3
<1>3. CASE Refresh
  <2>1. PICK p \in DOMAIN store.refresh :
          /\ store.refresh[p].granted \notin aged
          /\ LET a == Wish("refresh", "check", store.refresh[p].key, p, store.refresh[p].granted)
             IN Ask(a) \/ Rotate(a, Nothing)
    BY <1>3 DEF Refresh
  <2> DEFINE a == Wish("refresh", "check", store.refresh[p].key, p, store.refresh[p].granted)
  <2>2. /\ a \in Handler /\ a.answer = Nothing /\ a.op = "refresh" /\ a.pair = p
        /\ a.granted = store.refresh[p].granted
    BY Wishes DEF Wish
  <2>3. p \in DOMAIN origin /\ a.granted = origin[p].consent
    BY <2>2 DEF RowsOK, Issues, GrantedByConsent
  <2>4. CASE Ask(a)
    <3>1. Quiet
      BY <2>2, <2>4, AskingKeeps
    <3>2. QED
      BY <1>0, <3>1
  <2>5. CASE Rotate(a, Nothing)
    <3> HIDE DEF a
    <3>1. QED
      BY <2>1, <2>2, <2>3, <2>5, RotateKeeps
  <2>6. QED
    BY <2>1, <2>4, <2>5
<1>4. ASSUME NEW q \in Asks, Proceeds(q) PROVE GrantsInvariant' /\ InTime
  <2>1. q \in Waiting /\ asks[q] \in Handler
    BY <1>4, HandlerRows DEF Proceeds
  <2>2. CASE asks[q].op = "consent" /\ Consent(asks[q], q)
    <3>1. Quiet
      BY <2>1, <2>2, ConsentKeeps
    <3>2. QED
      BY <1>0, <3>1
  <2>3. CASE asks[q].op = "use" /\ Load(asks[q], q)
    <3>1. Quiet
      BY <2>1, <2>3, LoadKeeps
    <3>2. QED
      BY <1>0, <3>1
  <2>4. CASE asks[q].op = "refresh" /\ Rotate(asks[q], q)
    <3>1. asks[q].pair \in DOMAIN origin /\ asks[q].granted = origin[asks[q].pair].consent
      BY <2>1, <2>4 DEF Issues, GrantedByConsent
    <3>2. QED
      BY <2>1, <2>4, <3>1, RotateKeeps
  <2>5. QED
    BY <1>4, <2>2, <2>3, <2>4 DEF Proceeds
<1>5. ASSUME NEW q \in Asks, Answers(q) PROVE GrantsInvariant' /\ InTime
  <2>1. q \in Waiting
    BY <1>5 DEF Answers
  <2>2. Quiet
    BY <1>5, <2>1, AnsweringKeeps
  <2>3. QED
    BY <1>0, <2>2
<1>6. CASE TooOld \/ Ends \/ Age \/ Tick \/ Stop
  <2>1. Quiet
    BY <1>6, EndingsKeep
  <2>2. QED
    BY <1>0, <2>1
<1>7. CASE ExchangeCode
  BY <1>7, ExchangeKeeps
<1>8. QED
  BY <1>1, <1>2, <1>3, <1>4, <1>5, <1>6, <1>7 DEF GrantsNext
-----------------------------------------------------------------------------
(* What holds of every behaviour                                           *)

LEMMA GrantsInitInvariant == Init => GrantsInvariant
<1> SUFFICES ASSUME Init PROVE GrantsInvariant
  OBVIOUS
<1>1. /\ store = [codes |-> <<>>, access |-> <<>>, refresh |-> <<>>]
      /\ cache = <<>> /\ asks = [q \in Asks |-> Nothing]
      /\ origin = <<>> /\ aged = {} /\ gone = [k \in KeyIds |-> 0]
  BY DEF Init, GrantsInit
<1>2. /\ StoreShape(store)
      /\ DOMAIN store.codes = {} /\ DOMAIN store.access = {} /\ DOMAIN store.refresh = {}
      /\ DOMAIN cache = {} /\ DOMAIN origin = {} /\ Waiting = {}
  BY <1>1 DEF StoreShape, Waiting
<1>3. /\ store.codes \in [DOMAIN store.codes -> [key : KeyIds]]
      /\ store.access \in [DOMAIN store.access -> [key : KeyIds]]
      /\ store.refresh \in [DOMAIN store.refresh -> [key : KeyIds, granted : Codes]]
  BY <1>1
<1>4. \E n \in 0..MaxPairs : DOMAIN origin = 1..n
  <2>1. 0 \in 0..MaxPairs /\ 1..0 = {}
    BY GrantsAssumption
  <2>2. QED
    BY <1>2, <2>1
<1>5. origin \in [DOMAIN origin -> [used : Codes \cup 1..MaxPairs, consent : Codes, alone : BOOLEAN]]
  BY <1>1
<1>6. cache \in [DOMAIN cache -> [role : Roles, left : 1..2]]
  BY <1>1
<1>7. asks \in [Asks -> Handler \cup {Nothing}] /\ gone \in [KeyIds -> 0..2]
  BY <1>1
<1>8. RowsOK /\ CacheOK
  BY <1>1, <1>2, <1>3, <1>4, <1>5, <1>6, <1>7 DEF RowsOK, CacheOK
<1>9. Minute
  BY <1>1, <1>2 DEF Minute
<1>10. Issues
  BY <1>1, <1>2 DEF Issues, NotGivenYet, UsedIsGone, NobodyElse, GrantedByConsent, AgedWereGiven, UsedOnce
<1>11. QED
  BY <1>8, <1>9, <1>10 DEF GrantsInvariant

\* The MCP server never steps in the accounts: it only asks about keys.
THEOREM AccountsImplemented == Spec => AccountsSpec
<1>1. Init => AccountsInit
  BY DEF Init
<1>2. [Next]_vars => [AccountsNext]_accountVars
  BY DEF Next, vars
<1>3. QED
  BY <1>1, <1>2, PTL DEF Spec, AccountsSpec

LEMMA NextKeepsGrants ==
  ASSUME AccountsTypeOK, GrantsInvariant, [Next]_vars
  PROVE  GrantsInvariant' /\ InTime
<1>1. CASE AccountsNext /\ UNCHANGED grantVars
  BY <1>1, AccountStepKeeps DEF Quiet, InTime
<1>2. CASE GrantsNext /\ UNCHANGED accountVars
  <2>1. UNCHANGED keys
    BY <1>2 DEF accountVars
  <2>2. QED
    BY <1>2, <2>1, GrantsStepKeeps
<1>3. CASE UNCHANGED vars
  <2>1. UNCHANGED accountVars /\ UNCHANGED grantVars
    BY <1>3 DEF vars
  <2>2. QED
    BY <2>1, AccountStepKeeps DEF Quiet, InTime
<1>4. QED
  BY <1>1, <1>2, <1>3 DEF Next

\* What the store holds, what was issued and what is awaited agree as GrantsInvariant says,
\* whatever becomes of accounts and keys.
THEOREM GrantsInvariantHolds == Spec => [](AccountsTypeOK /\ GrantsInvariant)
<1>1. Spec => []AccountsTypeOK
  BY AccountsImplemented, AccountsTyped, PTL
<1>2. AccountsTypeOK /\ GrantsInvariant /\ [Next]_vars => GrantsInvariant'
  BY NextKeepsGrants
<1>3. QED
  BY <1>1, <1>2, GrantsInitInvariant, PTL DEF Spec

\* Every row of the token store, every kept answer and every handler that waits is of its type.
THEOREM GrantsTyped == Spec => []GrantsTypeOK
<1>1. GrantsInvariant => GrantsTypeOK
  BY TypesSplit DEF GrantsInvariant
<1>2. QED
  BY <1>1, GrantsInvariantHolds, PTL

\* A code and a refresh token give one pair of tokens, stops of the server included, unless
\* two handlers had both found the token.
THEOREM OnePairEach == Spec => []UsedOnce
<1>1. GrantsInvariant => UsedOnce
  BY DEF GrantsInvariant, Issues
<1>2. QED
  BY <1>1, GrantsInvariantHolds, PTL

\* Nothing goes on with a good answer about a key that was revoked a minute ago.
THEOREM RevokedWithinAMinute == Spec => []HonouredForAMinute
<1>1. GrantsInvariant => HonouredForAMinute
  <2> SUFFICES ASSUME GrantsInvariant, NEW k \in KeyIds, gone[k] = 2
               PROVE  /\ \A by \in {"verify", "check"} : <<by, k>> \notin DOMAIN cache
                      /\ \A q \in Waiting : asks[q].key = k => asks[q].answer \notin Roles
    BY DEF HonouredForAMinute
  <2>1. ASSUME NEW by, <<by, k>> \in DOMAIN cache PROVE FALSE
    <3>1. cache[<<by, k>>].left \in 1..2
      BY <2>1 DEF GrantsInvariant, CacheOK
    <3>2. cache[<<by, k>>].left + gone[k] <= 2
      BY <2>1 DEF GrantsInvariant, Minute
    <3>3. QED
      BY <3>1, <3>2
  <2>2. \A q \in Waiting : asks[q].key = k => asks[q].answer \notin Roles
    BY DEF GrantsInvariant, Minute
  <2>3. QED
    BY <2>1, <2>2
<1>2. QED
  BY <1>1, GrantsInvariantHolds, PTL

\* Rotation does not make a consent last: no pair comes of one that is too old, but to a handler
\* that asked about the key before.
THEOREM ConsentsDoEnd == Spec => ConsentsEnd
<1>1. AccountsTypeOK /\ GrantsInvariant /\ [Next]_vars => InTime
  BY NextKeepsGrants
<1>2. AccountsTypeOK /\ GrantsInvariant /\ [Next]_vars =>
        [\A p \in DOMAIN origin' \ DOMAIN origin :
           origin'[p].consent \in aged => \E q \in Waiting : Finds(asks[q], origin'[p].used)]_vars
  BY <1>1 DEF InTime
<1>3. QED
  BY <1>2, GrantsInvariantHolds, PTL DEF Spec, ConsentsEnd

\* What holds of the accounts on their own holds of them beside their grants.
THEOREM CredentialsFollowBesideGrants == Spec => []CredentialsMatchTheirAccount
BY AccountsImplemented, CredentialsFollow, PTL

\* Nor do grants take the last administrator away.
THEOREM LastAdminStaysBesideGrants == Spec => AnAdminRemains
BY AccountsImplemented, LastAdminStays
=============================================================================
