------------------------------- MODULE Grants -------------------------------
(***************************************************************************)
(* The OAuth provider of the MCP server (mcp_server/oauth_provider.py,     *)
(* auth.py), beside the accounts its grants stand for. A user pastes an    *)
(* API key; the client gets a code, exchanges it for a pair of an access   *)
(* and a refresh token, and refreshes. The store is a file, rewritten at   *)
(* every write and read again at a start.                                  *)
(*                                                                         *)
(* A handler runs to its end unless it has to ask the backend about a key. *)
(***************************************************************************)
EXTENDS Accounts

CONSTANTS Codes,
          Asks,              \* handlers that wait for the backend
          MaxPairs           \* bound of the instance: pairs of tokens, which are numbered

Handler == [op : {"consent", "refresh", "use"}, by : {"verify", "check"}, key : KeyIds,
            pair : (1..MaxPairs) \cup {Nothing}, granted : Codes \cup {Nothing},
            answer : Roles \cup {"unusable", "unavailable", Nothing}]

ASSUME GrantsAssumption == /\ MaxPairs \in Nat
                           /\ Codes \cap (1..MaxPairs) = {}
                           /\ Nothing \notin Handler \cup Roles \cup Codes

VARIABLES store,    \* codes, access and refresh tokens
          cache,    \* the backend's last good answers, and how much of their minute is left
          asks,     \* the handlers that wait
          origin,   \* what each pair was issued for: the history of the grants
          aged,     \* consents older than a grant may get
          gone      \* half minutes since a key was revoked

grantVars == <<store, cache, asks, origin, aged, gone>>
vars == <<accountVars, grantVars>>

GrantsTypeOK ==
    /\ store = [codes |-> store.codes, access |-> store.access, refresh |-> store.refresh]
    /\ DOMAIN store.codes \subseteq Codes /\ store.codes \in [DOMAIN store.codes -> [key : KeyIds]]
    /\ DOMAIN store.access \subseteq DOMAIN origin /\ store.access \in [DOMAIN store.access -> [key : KeyIds]]
    /\ DOMAIN store.refresh \subseteq DOMAIN origin /\ store.refresh \in [DOMAIN store.refresh -> [key : KeyIds, granted : Codes]]
    /\ DOMAIN cache \subseteq {"verify", "check"} \X KeyIds /\ cache \in [DOMAIN cache -> [role : Roles, left : 1..2]]
    /\ asks \in [Asks -> Handler \cup {Nothing}]
    /\ \E n \in 0..MaxPairs : DOMAIN origin = 1..n
    /\ origin \in [DOMAIN origin -> [used : Codes \cup 1..MaxPairs, consent : Codes, alone : BOOLEAN]]
    /\ aged \subseteq Codes
    /\ gone \in [KeyIds -> 0..2]

GrantsInit == /\ store = [codes |-> <<>>, access |-> <<>>, refresh |-> <<>>]
              /\ cache = <<>> /\ asks = [q \in Asks |-> Nothing]
              /\ origin = <<>> /\ aged = {} /\ gone = [k \in KeyIds |-> 0]

Without(f, S) == Restrict(f, DOMAIN f \ S)
With(f, x, v) == [y \in DOMAIN f \cup {x} |-> IF y = x THEN v ELSE f[y]]
KeyOf(f, k) == {x \in DOMAIN f : f[x].key = k}

Waiting == {q \in Asks : asks[q] # Nothing}
Known(a) == <<a.by, a.key>> \in DOMAIN cache

-----------------------------------------------------------------------------
(* auth.py: what the backend says of a key                                 *)

\* Mutant: an answer that is used again starts its minute again.
HitRestarts(a) == cache' = [cache EXCEPT ![<<a.by, a.key>>].left = 2]
Hit(a) == cache' = cache

\* verify_api_key (by the key itself), check_api_key_id (by its id): asked again only once
\* the minute of a good answer is over.
Ask(a) == \E q \in Asks \ Waiting :
    /\ ~ Known(a)
    /\ asks' = [asks EXCEPT ![q] = a]
    /\ UNCHANGED <<store, cache, origin, aged, gone>>

Answers(q) == /\ q \in Waiting /\ asks[q].answer = Nothing
              /\ \E answer \in {Answer(asks[q].key), "unavailable"} : asks' = [asks EXCEPT ![q].answer = answer]
              /\ UNCHANGED <<store, cache, origin, aged, gone>>

\* A handler goes on with a known answer, or with the one it waited for as q, which it keeps.
Told(a, q, role) == IF q = Nothing THEN Known(a) /\ role = cache[<<a.by, a.key>>].role
                                   ELSE role = asks[q].answer
Goes(a, q, role) ==
    /\ Told(a, q, role)
    /\ \/ q = Nothing /\ Hit(a) /\ UNCHANGED asks
       \/ /\ q # Nothing
          /\ cache' = IF role \in Roles THEN With(cache, <<a.by, a.key>>, [role |-> role, left |-> 2]) ELSE cache
          /\ asks' = [asks EXCEPT ![q] = Nothing]

\* Half a minute, longer than any answer takes.
Tick == /\ Waiting = {}
        /\ cache' = [x \in {y \in DOMAIN cache : cache[y].left > 1} |-> [cache[x] EXCEPT !.left = @ - 1]]
        /\ gone' = [k \in KeyIds |-> IF k \in DOMAIN keys /\ ~ keys[k].active /\ gone[k] < 2 THEN gone[k] + 1 ELSE gone[k]]
        /\ UNCHANGED <<store, asks, origin, aged>>

-----------------------------------------------------------------------------
(* oauth_provider.py                                                       *)

Good == {"admin", "editor"}
Bad == {"reader", "unusable"}
Wish(op, by, k, pair, granted) ==
    [op |-> op, by |-> by, key |-> k, pair |-> pair, granted |-> granted, answer |-> Nothing]

FreshCodes == Codes \ ({origin[p].consent : p \in DOMAIN origin} \cup DOMAIN store.codes)

\* _consent_post from the key's answer on. A reader's key is refused.
Consent(a, q) == \E role \in Roles \cup {"unusable", "unavailable"} :
    /\ Goes(a, q, role)
    /\ \/ role \notin Good /\ UNCHANGED store
       \/ role \in Good /\ \E c \in FreshCodes : store' = [store EXCEPT !.codes = With(@, c, [key |-> a.key])]
    /\ UNCHANGED <<origin, aged, gone>>

PasteKey == \E k \in DOMAIN keys : LET a == Wish("consent", "verify", k, Nothing, Nothing) IN Ask(a) \/ Consent(a, Nothing)

\* The three writes of an exchange, in the store and in its file: the code or the token that is
\* presented goes, the access token and the refresh token come. Mutant: it goes last.
WritesUsedLast(used, p, k, claims) ==
    LET access == [store EXCEPT !.access = With(@, p, [key |-> k])]
        both == [access EXCEPT !.refresh = With(@, p, claims)]
    IN <<access, both, [both EXCEPT !.codes = Without(@, used), !.refresh = Without(@, used)]>>
Writes(used, p, k, claims) ==
    LET presented == [codes |-> Without(store.codes, used), access |-> store.access, refresh |-> Without(store.refresh, used)]
        access == [presented EXCEPT !.access = With(@, p, [key |-> k])]
    IN <<presented, access, [access EXCEPT !.refresh = With(@, p, claims)]>>

\* Waiting handlers and answers do not survive a stop of the server.
Restart == cache' = <<>> /\ asks' = [q \in Asks |-> Nothing]

\* A handler that has found the refresh token of this pair.
Finds(a, pair) == a.op = "refresh" /\ a.pair = pair

FreshPairs == {Cardinality(DOMAIN origin) + 1} \cap (1..MaxPairs)
\* alone: no other handler that has found the same token still waits.
Issued(p, used, consent) ==
    /\ origin' = With(origin, p, [used |-> used, consent |-> consent,
                                  alone |-> \A q \in Asks : ~ (asks'[q] # Nothing /\ Finds(asks'[q], used))])
    /\ UNCHANGED <<aged, gone>>

\* All of it, or the server stops after the first write or the second.
ExchangeCode == \E c \in DOMAIN store.codes, p \in FreshPairs :
    LET k == store.codes[c].key
        writes == Writes({c}, p, k, [key |-> k, granted |-> c])
    IN /\ \/ store' = writes[3] /\ UNCHANGED <<cache, asks>>
          \/ store' \in {writes[1], writes[2]} /\ Restart
       /\ Issued(p, c, c)

\* delete_grants_for_key: all that the key ever gave.
Dropped(k) == [codes |-> Without(store.codes, KeyOf(store.codes, k)),
               access |-> Without(store.access, KeyOf(store.access, k)),
               refresh |-> Without(store.refresh, KeyOf(store.refresh, k))]

\* Mutant: the time of a grant starts again with every refresh.
Renewed(a, new) == [key |-> a.key, granted |-> new]
Carried(a, new) == [key |-> a.key, granted |-> a.granted]

\* exchange_refresh_token from the key's answer on: whether the token is still there is not
\* asked again. While the backend cannot be reached the grant goes on.
Rotate(a, q) ==
    \/ \E role \in Bad : Goes(a, q, role)
       /\ store' = Dropped(a.key) /\ UNCHANGED <<origin, aged, gone>>
    \/ \E role \in Good \cup {"unavailable"}, new \in FreshPairs :
         LET writes == Writes({a.pair}, new, a.key, Carried(a, new)) IN
         /\ \/ Goes(a, q, role) /\ store' = writes[3]
            \/ Told(a, q, role) /\ store' \in {writes[1], writes[2]} /\ Restart
         /\ Issued(new, a.pair, origin[a.pair].consent)

TooOld == \E p \in DOMAIN store.refresh :
    /\ store.refresh[p].granted \in aged
    /\ store' = [store EXCEPT !.refresh = Without(@, {p})]
    /\ UNCHANGED <<cache, asks, origin, aged, gone>>

Refresh == \E p \in DOMAIN store.refresh :
    LET token == store.refresh[p]
        a == Wish("refresh", "check", token.key, p, token.granted)
    IN token.granted \notin aged /\ (Ask(a) \/ Rotate(a, Nothing))

\* load_access_token, and the call goes on unless the key is found unusable.
Load(a, q) == \E role \in Roles \cup {"unusable", "unavailable"} :
    /\ Goes(a, q, role)
    /\ store' = IF role \in Bad THEN Dropped(a.key) ELSE store
    /\ UNCHANGED <<origin, aged, gone>>

UseToken == \E p \in DOMAIN store.access :
    LET a == Wish("use", "check", store.access[p].key, p, Nothing) IN Ask(a) \/ Load(a, Nothing)

Proceeds(q) == /\ q \in Waiting /\ asks[q].answer # Nothing
               /\ \/ asks[q].op = "consent" /\ Consent(asks[q], q)
                  \/ asks[q].op = "refresh" /\ Rotate(asks[q], q)
                  \/ asks[q].op = "use" /\ Load(asks[q], q)

\* revoke_token, or the time of a code or a token is up.
Ends == /\ \E kind \in DOMAIN store : \E x \in DOMAIN store[kind] : store' = [store EXCEPT ![kind] = Without(@, {x})]
        /\ UNCHANGED <<cache, asks, origin, aged, gone>>

\* The longest a consent may last is over; its code does not live that long.
Age == /\ \E p \in DOMAIN origin : aged' = aged \cup {origin[p].consent}
       /\ UNCHANGED <<store, cache, asks, origin, gone>>

Stop == Restart /\ UNCHANGED <<store, origin, aged, gone>>

GrantsNext == \/ PasteKey \/ ExchangeCode \/ TooOld \/ Refresh \/ UseToken
              \/ Ends \/ Age \/ Tick \/ Stop
              \/ \E q \in Asks : Answers(q) \/ Proceeds(q)

Init == AccountsInit /\ GrantsInit
Next == \/ AccountsNext /\ UNCHANGED grantVars
        \/ GrantsNext /\ UNCHANGED accountVars
Spec == Init /\ [][Next]_vars

-----------------------------------------------------------------------------
(* Properties                                                              *)

\* auth.py, _recheck_key: nothing goes on with a key's good answer once the key was revoked a
\* minute ago, however often it is used in between.
HonouredForAMinute == \A k \in KeyIds : gone[k] = 2 =>
    /\ \A by \in {"verify", "check"} : <<by, k>> \notin DOMAIN cache
    /\ \A q \in Waiting : asks[q].key = k => asks[q].answer \notin Roles

\* exchange_authorization_code, exchange_refresh_token: a code and a refresh token give one
\* pair of tokens, a stop of the server in between included; but for two handlers that had
\* both found the token before either one rotated it.
UsedOnce == \A p, q \in DOMAIN origin :
    p # q /\ origin[p].used = origin[q].used => ~ origin[p].alone \/ ~ origin[q].alone

\* granted_at: rotation does not make a consent last longer; no pair comes of it once it is too
\* old, but to a handler that asked about the key before.
ConsentsEnd == [][\A p \in DOMAIN origin' \ DOMAIN origin :
    origin'[p].consent \in aged => \E q \in Waiting : Finds(asks[q], origin'[p].used)]_vars
=============================================================================
