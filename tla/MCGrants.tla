------------------------------ MODULE MCGrants ------------------------------
\* Two administrators, and an instance that looks at four corners of the system, not at their product.
EXTENDS Grants, TLC
CONSTANTS ann, bob
SeedUsers == (ann :> [role |-> "admin", password |-> 1]) @@ (bob :> [role |-> "admin", password |-> 1])
Symmetry == Permutations(Usernames) \cup Permutations(SessionIds) \cup Permutations(Requests) \cup Permutations(Asks)

NoGrants == store = [codes |-> <<>>, access |-> <<>>, refresh |-> <<>>] /\ Waiting = {} /\ DOMAIN origin = {}
            /\ cache = <<>> /\ \A k \in KeyIds : gone[k] = 0
OnePassword == (\A u \in DOMAIN users : users[u].password = 1) /\ \A r \in Busy : requests[r].op \notin {"reset", "change"}
BornOnce == \A u \in Usernames : born[u] = 1

Alone == Cardinality(Busy) < 2
Asked(op, role) == \E r \in Busy : requests[r].op = op /\ requests[r].data = role
Of(role) == Asked("update", role) \/ \E u \in DOMAIN users : users[u].role = role

People == NoGrants /\ OnePassword /\ Cardinality(DOMAIN sessions) + Cardinality(DOMAIN keys) < 2 /\ ~ Of("reader")
          /\ (\E u \in Usernames : born[u] = 1) /\ \A r \in Busy : requests[r].op = "create" => requests[r].data.role = "admin"
Signing == NoGrants /\ BornOnce /\ DOMAIN keys = {} /\ ~ Of("reader") /\ ~ Of("editor")
Cycling == NoGrants /\ OnePassword /\ DOMAIN sessions = {} /\ Alone
Consents == /\ OnePassword /\ BornOnce /\ DOMAIN sessions = {} /\ Cardinality(DOMAIN keys) < 2 /\ Alone /\ ~ Of("editor")
            /\ \A r \in Busy : requests[r].op = "key" \/ (requests[r].op = "update" /\ DOMAIN keys # {})
            /\ DOMAIN origin # {} => Busy = {} /\ (\A a \in DOMAIN cache : a[1] = "check")
            /\ Cardinality(Waiting) > 1 => \A q \in Waiting : asks[q].op = "refresh"

\* The corner a behaviour stays in.
VARIABLE corner
Fits == \/ corner = "people" /\ People
        \/ corner = "signing" /\ Signing
        \/ corner = "cycling" /\ Cycling
        \/ corner = "consents" /\ Consents
MCInit == Init /\ corner \in {"people", "signing", "cycling", "consents"}
MCSpec == MCInit /\ [][Next /\ UNCHANGED corner /\ Fits']_<<vars, corner>>
=============================================================================
