-------------------------- MODULE LiveUpdates_proofs --------------------------
(***************************************************************************)
(* Proofs about LiveUpdates, for any pages, writers, queries and bound.    *)
(***************************************************************************)
EXTENDS LiveUpdates, TLAPS

\* The variables of LiveUpdates keep their types; only open pages have streams.
THEOREM TypeCorrect == Spec => []TypeOK
<1> USE QueriesAssumption, BoundAssumption, OpsAssumption
<1>1. Init => TypeOK
  BY DEF Init, TypeOK
<1>2. TypeOK /\ [Next]_vars => TypeOK'
  <2> SUFFICES ASSUME TypeOK, [Next]_vars PROVE TypeOK'
    OBVIOUS
  <2>1. ASSUME NEW h \in Handlers, NEW op \in Ops, Commit(h, op) PROVE TypeOK'
    <3>1. server' \in [Queries -> 1 .. MaxVersion + 1]
      BY <2>1 DEF TypeOK, Commit
    <3> QED BY <2>1, <3>1 DEF TypeOK, Commit
  <2>2. ASSUME NEW h \in Handlers, Broadcast(h) PROVE TypeOK'
    <3>1. handler[h] \in Ops
      BY <2>2 DEF TypeOK, Broadcast
    <3>2. inbox' \in [Viewers -> Seq(Ops)]
      BY <2>2, <3>1 DEF TypeOK, Broadcast
    <3>3. missed' \in [Viewers -> SUBSET Queries]
      BY <2>2 DEF TypeOK, Broadcast, BehindOf
    <3> QED BY <2>2, <3>2, <3>3 DEF TypeOK, Broadcast
  <2>3. ASSUME NEW v \in Viewers, OpenPage(v) PROVE TypeOK'
    BY <2>3 DEF TypeOK, OpenPage
  <2>10. ASSUME NEW v \in Viewers, Subscribe(v) PROVE TypeOK'
    BY <2>10 DEF TypeOK, Subscribe
  <2>9. ASSUME NEW v \in Viewers, ClosePage(v) PROVE TypeOK'
    <3>1. <<>> \in Seq(Ops) /\ inbox' \in [Viewers -> Seq(Ops)]
      BY <2>9 DEF TypeOK, ClosePage
    <3>2. stream' \subseteq page' /\ page' \subseteq Viewers
      BY <2>9 DEF TypeOK, ClosePage
    <3>3. missed' \in [Viewers -> SUBSET Queries]
      BY <2>9 DEF TypeOK, ClosePage
    <3>4. cache' \in [Viewers -> [Queries -> Nat]] /\ answer' \in [Viewers -> [Queries -> Nat]]
      BY <2>9 DEF TypeOK, ClosePage
    <3>5. fetch' \in [Viewers -> [Queries -> {Idle, "asked", "answered"}]]
      BY <2>9 DEF TypeOK, ClosePage
    <3> QED BY <2>9, <3>1, <3>2, <3>3, <3>4, <3>5 DEF TypeOK, ClosePage, serverVars
  <2>4. ASSUME NEW v \in Viewers, Disconnect(v) PROVE TypeOK'
    BY <2>4 DEF TypeOK, Disconnect, BehindOf
  <2>5. ASSUME NEW v \in Viewers, Receive(v) PROVE TypeOK'
    <3>1. inbox' \in [Viewers -> Seq(Ops)]
      BY <2>5 DEF TypeOK, Receive
    <3>2. fetch' \in [Viewers -> [Queries -> {Idle, "asked", "answered"}]]
      BY <2>5 DEF TypeOK, Receive
    <3>3. missed' \in [Viewers -> SUBSET Queries]
      BY <2>5 DEF TypeOK, Receive, BehindOf
    <3> QED BY <2>5, <3>1, <3>2, <3>3 DEF TypeOK, Receive
  <2>6. ASSUME NEW v \in Viewers, NEW q \in Queries,
               Answer(v, q) \/ Deliver(v, q) \/ FetchFails(v, q) \/ Refetch(v, q)
        PROVE  TypeOK'
    <3>1. CASE Answer(v, q)
      <4>1. server[q] \in Nat
        BY DEF TypeOK
      <4> QED BY <3>1, <4>1 DEF TypeOK, Answer
    <3>2. CASE Deliver(v, q)
      BY <3>2 DEF TypeOK, Deliver
    <3>3. CASE FetchFails(v, q)
      BY <3>3 DEF TypeOK, FetchFails
    <3>4. CASE Refetch(v, q)
      BY <3>4 DEF TypeOK, Refetch
    <3> QED BY <2>6, <3>1, <3>2, <3>3, <3>4
  <2>7. CASE Restart
    BY <2>7 DEF TypeOK, Restart, BehindOf
  <2>8. CASE UNCHANGED vars
    BY <2>8 DEF TypeOK, vars
  <2> QED
    BY <2>1, <2>2, <2>3, <2>4, <2>5, <2>6, <2>7, <2>8, <2>9, <2>10 DEF Next, Server, Page
<1> QED BY <1>1, <1>2, PTL DEF Spec

-----------------------------------------------------------------------------
(* Nobody is silently stale.  NoSilentStaleness is inductive on its own:    *)
(* every step that makes an answer old leaves a handler that will tell of   *)
(* it, and every step that drops an event records what it concerned.        *)

LEMMA InitCurrent == Init => NoSilentStaleness
BY DEF Init, NoSilentStaleness, Behind, Held, InInbox, InHandler

\* The step of one handler.
LEMMA CommitTells ==
  ASSUME \A o \in Ops : Tells(o), TypeOK, NoSilentStaleness,
         NEW h \in Handlers, NEW op \in Ops, Commit(h, op)
  PROVE  NoSilentStaleness'
<1> SUFFICES ASSUME NEW v \in page', NEW q \in Queries, Behind(v, q)'
             PROVE  (q \in missed[v] \/ InInbox(v, q) \/ InHandler(q))'
  BY DEF NoSilentStaleness
<1>1. v \in page /\ v \in Viewers
  BY DEF Commit, TypeOK
<1>2. missed' = missed /\ (InInbox(v, q))' = InInbox(v, q)
  BY DEF Commit, InInbox
<1>3. CASE q \in Changes[op]
  <2>1. handler'[h] = op /\ op # Idle /\ q \in Told(op)
    BY <1>3, OpsAssumption DEF Commit, TypeOK, Tells
  <2> QED BY <2>1 DEF InHandler
<1>4. CASE q \notin Changes[op]
  <2>1. server'[q] = server[q]
    BY <1>4 DEF Commit, TypeOK
  <2>2. Behind(v, q)
    BY <2>1 DEF Behind, Held, Commit
  <2>3. q \in missed[v] \/ InInbox(v, q) \/ InHandler(q)
    BY <1>1, <2>2 DEF NoSilentStaleness
  <2>4. InHandler(q) => InHandler(q)'
    BY DEF InHandler, Commit, TypeOK
  <2> QED BY <1>2, <2>3, <2>4
<1> QED BY <1>3, <1>4

LEMMA BroadcastReachesOrIsMissed ==
  ASSUME TypeOK, NoSilentStaleness, NEW h \in Handlers, Broadcast(h)
  PROVE  NoSilentStaleness'
<1> SUFFICES ASSUME NEW v \in page', NEW q \in Queries, Behind(v, q)'
             PROVE  (q \in missed[v] \/ InInbox(v, q) \/ InHandler(q))'
  BY DEF NoSilentStaleness
<1>1. v \in page /\ v \in Viewers /\ handler[h] \in Ops
  BY DEF Broadcast, TypeOK
<1>2. Behind(v, q)
  BY DEF Broadcast, Behind, Held
<1>3. CASE q \in missed[v]
  BY <1>1, <1>3 DEF Broadcast
<1>4. CASE InInbox(v, q)
  <2>1. PICK i \in DOMAIN inbox[v] : q \in Told(inbox[v][i])
    BY <1>4 DEF InInbox
  <2>2. i \in DOMAIN inbox'[v] /\ inbox'[v][i] = inbox[v][i]
    BY <1>1, <2>1 DEF Broadcast, TypeOK
  <2> QED BY <2>1, <2>2 DEF InInbox
<1>5. CASE InHandler(q)
  <2>1. PICK k \in Handlers : handler[k] # Idle /\ q \in Told(handler[k])
    BY <1>5 DEF InHandler
  <2>2. CASE k # h
    <3>1. handler'[k] = handler[k]
      BY <2>2 DEF Broadcast, TypeOK
    <3> QED BY <2>1, <3>1 DEF InHandler
  <2>3. CASE k = h /\ v \in stream
    <3> DEFINE n == Len(inbox[v]) + 1
    <3>1. n \in DOMAIN inbox'[v] /\ inbox'[v][n] = handler[h]
      BY <1>1, <2>3 DEF Broadcast, TypeOK
    <3> HIDE DEF n
    <3> QED BY <2>1, <2>3, <3>1 DEF InInbox
  <2>4. CASE k = h /\ v \notin stream
    <3>1. q \in BehindOf(v, Concerns(handler[h]))
      BY <1>2, <2>1, <2>4 DEF BehindOf, Concerns
    <3> QED BY <1>1, <2>4, <3>1 DEF Broadcast
  <2> QED BY <2>2, <2>3, <2>4
<1> QED BY <1>1, <1>2, <1>3, <1>4, <1>5 DEF NoSilentStaleness

\* Dropping a queue, or every queue and handler, records what was in it.
LEMMA DisconnectRecordsLosses ==
  ASSUME TypeOK, NoSilentStaleness, NEW w \in Viewers, Disconnect(w)
  PROVE  NoSilentStaleness'
<1> SUFFICES ASSUME NEW v \in page', NEW q \in Queries, Behind(v, q)'
             PROVE  (q \in missed[v] \/ InInbox(v, q) \/ InHandler(q))'
  BY DEF NoSilentStaleness
<1>1. v \in page /\ v \in Viewers /\ Behind(v, q)
  BY DEF Disconnect, TypeOK, Behind, Held
<1>2. q \in missed[v] \/ InInbox(v, q) \/ InHandler(q)
  BY <1>1 DEF NoSilentStaleness
<1>3. InHandler(q)' = InHandler(q)
  BY DEF InHandler, Disconnect
<1>4. CASE v # w
  <2>1. missed'[v] = missed[v] /\ inbox'[v] = inbox[v]
    BY <1>1, <1>4 DEF Disconnect, TypeOK
  <2> QED BY <1>2, <1>3, <2>1 DEF InInbox
<1>5. CASE v = w /\ InInbox(v, q)
  <2>1. q \in Undelivered(v)
    BY <1>5 DEF InInbox, Undelivered, Concerns
  <2>2. q \in BehindOf(v, Undelivered(v))
    BY <1>1, <2>1 DEF BehindOf
  <2> QED BY <1>1, <1>5, <2>2 DEF Disconnect, TypeOK
<1>6. CASE v = w /\ q \in missed[v]
  BY <1>1, <1>6 DEF Disconnect, TypeOK
<1> QED BY <1>2, <1>3, <1>4, <1>5, <1>6

LEMMA RestartRecordsLosses ==
  ASSUME TypeOK, NoSilentStaleness, Restart
  PROVE  NoSilentStaleness'
<1> SUFFICES ASSUME NEW v \in page', NEW q \in Queries, Behind(v, q)'
             PROVE  q \in missed'[v]
  BY DEF NoSilentStaleness
<1>1. v \in page /\ v \in Viewers /\ Behind(v, q)
  BY DEF Restart, TypeOK, Behind, Held
<1>2. missed'[v] = missed[v] \cup BehindOf(v, Undelivered(v)) \cup BehindOf(v, Unsent)
  BY <1>1 DEF Restart
<1>3. CASE InInbox(v, q)
  <2>1. q \in Undelivered(v)
    BY <1>3 DEF InInbox, Undelivered, Concerns
  <2> QED BY <1>1, <1>2, <2>1 DEF BehindOf
<1>4. CASE InHandler(q)
  <2>1. q \in Unsent
    BY <1>4 DEF InHandler, Unsent, Concerns
  <2> QED BY <1>1, <1>2, <2>1 DEF BehindOf
<1> QED BY <1>1, <1>2, <1>3, <1>4 DEF NoSilentStaleness

\* An event a page takes from its queue restarts what it names, except a first
\* load; if that one has read old rows already, the page has missed it.
LEMMA ReceiveRestartsOrIsMissed ==
  ASSUME TypeOK, NoSilentStaleness, NEW w \in Viewers, Receive(w)
  PROVE  NoSilentStaleness'
<1> SUFFICES ASSUME NEW v \in page', NEW q \in Queries, Behind(v, q)'
             PROVE  (q \in missed[v] \/ InInbox(v, q) \/ InHandler(q))'
  BY DEF NoSilentStaleness
<1>1. v \in page /\ v \in Viewers
  BY DEF Receive, TypeOK
<1>2. InHandler(q)' = InHandler(q)
  BY DEF InHandler, Receive
<1>3. CASE v # w
  <2>1. missed'[v] = missed[v] /\ inbox'[v] = inbox[v] /\ fetch'[v] = fetch[v]
    BY <1>1, <1>3 DEF Receive, TypeOK
  <2>2. Behind(v, q)
    BY <2>1 DEF Behind, Held, Receive
  <2> QED BY <1>1, <1>2, <2>1, <2>2 DEF NoSilentStaleness, InInbox
<1>4. CASE v = w
  <2>1. q \notin Restarted(v) /\ fetch'[v][q] = fetch[v][q]
    BY <1>1, <1>4 DEF Receive, TypeOK, Behind
  <2>2. Behind(v, q)
    BY <2>1 DEF Behind, Held, Receive
  <2>3. missed'[v] = (missed[v]
           \cup {p \in BehindOf(v, Told(Head(inbox[v]))) : FirstLoad(v, p)}) \ Restarted(v)
    BY <1>1, <1>4 DEF Receive, TypeOK
  <2>4. CASE q \in Told(Head(inbox[v]))
    <3>1. FirstLoad(v, q)
      BY <2>1, <2>4 DEF Restarted
    <3> QED BY <2>1, <2>2, <2>3, <2>4, <3>1 DEF BehindOf
  <2>5. CASE q \notin Told(Head(inbox[v])) /\ InInbox(v, q)
    <3>1. PICK i \in DOMAIN inbox[v] : q \in Told(inbox[v][i])
      BY <2>5 DEF InInbox
    <3>2. inbox[v] \in Seq(Ops) /\ inbox[v] # <<>> /\ inbox'[v] = Tail(inbox[v])
      BY <1>1, <1>4 DEF Receive, TypeOK
    <3>3. i # 1
      BY <2>5, <3>1, <3>2
    <3>4. i - 1 \in DOMAIN inbox'[v] /\ inbox'[v][i - 1] = inbox[v][i]
      BY <3>1, <3>2, <3>3
    <3> QED BY <3>1, <3>4 DEF InInbox
  <2> QED BY <1>1, <1>2, <2>1, <2>2, <2>3, <2>4, <2>5 DEF NoSilentStaleness
<1> QED BY <1>3, <1>4

\* The other steps of a page.
LEMMA PageKeepsAccount ==
  ASSUME TypeOK, NoSilentStaleness, NEW w \in Viewers,
         \/ OpenPage(w) \/ ClosePage(w) \/ Subscribe(w)
         \/ \E p \in Queries : Answer(w, p) \/ Deliver(w, p) \/ FetchFails(w, p) \/ Refetch(w, p)
  PROVE  NoSilentStaleness'
<1> SUFFICES ASSUME NEW v \in page', NEW q \in Queries, Behind(v, q)'
             PROVE  (q \in missed[v] \/ InInbox(v, q) \/ InHandler(q))'
  BY DEF NoSilentStaleness
<1>1. v \in Viewers /\ InHandler(q)' = InHandler(q)
  BY DEF OpenPage, ClosePage, Subscribe, Answer, Deliver, FetchFails, Refetch,
         TypeOK, InHandler, serverVars
<1>2. CASE OpenPage(w)
  <2>1. v # w
    BY <1>2 DEF OpenPage, TypeOK, Behind
  <2>2. v \in page /\ Behind(v, q)
    BY <1>1, <1>2, <2>1 DEF OpenPage, TypeOK, Behind, Held
  <2> QED BY <1>1, <1>2, <2>2 DEF NoSilentStaleness, OpenPage, InInbox
<1>3. CASE ClosePage(w)
  <2>1. v # w /\ v \in page
    BY <1>3 DEF ClosePage
  <2>2. Behind(v, q)
    BY <1>1, <1>3, <2>1 DEF ClosePage, TypeOK, Behind, Held, serverVars
  <2>3. missed'[v] = missed[v] /\ inbox'[v] = inbox[v]
    BY <1>1, <1>3, <2>1 DEF ClosePage, TypeOK
  <2> QED BY <1>1, <2>1, <2>2, <2>3 DEF NoSilentStaleness, InInbox
<1>4. CASE Subscribe(w)
  <2>1. v \in page /\ Behind(v, q)
    BY <1>4 DEF Subscribe, Behind, Held
  <2> QED BY <1>1, <1>4, <2>1 DEF NoSilentStaleness, Subscribe, InInbox
<1>5. ASSUME NEW p \in Queries, Answer(w, p) PROVE (q \in missed[v] \/ InInbox(v, q) \/ InHandler(q))'
  <2>1. ~(v = w /\ q = p)
    BY <1>5 DEF Answer, TypeOK, Behind, Held
  <2>2. v \in page /\ Behind(v, q)
    BY <1>1, <1>5, <2>1 DEF Answer, TypeOK, Behind, Held
  <2> QED BY <1>1, <1>5, <2>2 DEF NoSilentStaleness, Answer, InInbox
<1>6. ASSUME NEW p \in Queries, Deliver(w, p) PROVE (q \in missed[v] \/ InInbox(v, q) \/ InHandler(q))'
  <2>1. v \in page /\ Behind(v, q)
    BY <1>1, <1>6 DEF Deliver, TypeOK, Behind, Held, Idle
  <2> QED BY <1>1, <1>6, <2>1 DEF NoSilentStaleness, Deliver, InInbox
<1>7. ASSUME NEW p \in Queries, FetchFails(w, p) PROVE (q \in missed[v] \/ InInbox(v, q) \/ InHandler(q))'
  <2>1. CASE v = w /\ q = p
    <3>1. cache[v][q] # server[q]
      BY <1>7, <2>1 DEF FetchFails, TypeOK, Behind, Held, Idle
    <3> QED BY <1>1, <1>7, <2>1, <3>1 DEF FetchFails, TypeOK
  <2>2. CASE ~(v = w /\ q = p)
    <3>1. v \in page /\ Behind(v, q)
      BY <1>1, <1>7, <2>2 DEF FetchFails, TypeOK, Behind, Held
    <3>2. q \in missed[v] => q \in missed'[v]
      BY <1>1, <1>7 DEF FetchFails, TypeOK
    <3> QED BY <1>1, <1>7, <3>1, <3>2 DEF NoSilentStaleness, FetchFails, InInbox
  <2> QED BY <2>1, <2>2
<1>8. ASSUME NEW p \in Queries, Refetch(w, p) PROVE (q \in missed[v] \/ InInbox(v, q) \/ InHandler(q))'
  <2>1. ~(v = w /\ q = p)
    BY <1>8 DEF Refetch, TypeOK, Behind
  <2>2. v \in page /\ Behind(v, q)
    BY <1>1, <1>8, <2>1 DEF Refetch, TypeOK, Behind, Held
  <2>3. q \in missed[v] => q \in missed'[v]
    BY <1>1, <1>8, <2>1 DEF Refetch, TypeOK
  <2> QED BY <1>1, <1>8, <2>2, <2>3 DEF NoSilentStaleness, Refetch, InInbox
<1> QED BY <1>2, <1>3, <1>4, <1>5, <1>6, <1>7, <1>8

\* When every write tells of all it changes, a page is never behind without an
\* event, a handler or a request on its way, but for events it could not hear.
THEOREM NobodyIsSilentlyStale ==
  ASSUME \A op \in Ops : Tells(op)
  PROVE  Spec => []NoSilentStaleness
<1>1. TypeOK /\ NoSilentStaleness /\ [Next]_vars => NoSilentStaleness'
  <2> SUFFICES ASSUME TypeOK, NoSilentStaleness, [Next]_vars PROVE NoSilentStaleness'
    OBVIOUS
  <2>1. CASE \E h \in Handlers : Server(h)
    BY <2>1, CommitTells, BroadcastReachesOrIsMissed DEF Server
  <2>2. CASE \E v \in Viewers : Page(v)
    BY <2>2, DisconnectRecordsLosses, ReceiveRestartsOrIsMissed, PageKeepsAccount DEF Page
  <2>3. CASE Restart
    BY <2>3, RestartRecordsLosses
  <2>4. CASE UNCHANGED vars
    BY <2>4 DEF vars, NoSilentStaleness, Behind, Held, InInbox, InHandler
  <2> QED BY <2>1, <2>2, <2>3, <2>4 DEF Next
<1> QED BY <1>1, InitCurrent, TypeCorrect, PTL DEF Spec

-----------------------------------------------------------------------------
(* The refinement of LiveView.  What a page shows and what is on its way to *)
(* it never run ahead of the server, nor is an answer older than the cache. *)

AnswersInOrder ==
  \A v \in Viewers, q \in Queries :
    /\ cache[v][q] <= server[q]
    /\ fetch[v][q] = "answered" => answer[v][q] \in cache[v][q] .. server[q]

LEMMA AnswersStayInOrder == Spec => []AnswersInOrder
<1>1. Init => AnswersInOrder
  BY DEF Init, AnswersInOrder, Idle
<1>2. TypeOK /\ TypeOK' /\ AnswersInOrder /\ [Next]_vars => AnswersInOrder'
  <2> SUFFICES ASSUME TypeOK, TypeOK', AnswersInOrder, [Next]_vars,
                      NEW v \in Viewers, NEW q \in Queries
               PROVE  /\ cache'[v][q] <= server'[q]
                      /\ fetch'[v][q] = "answered" => answer'[v][q] \in cache'[v][q] .. server'[q]
    BY DEF AnswersInOrder
  <2>1. /\ server[q] \in Nat /\ cache[v][q] \in Nat /\ answer[v][q] \in Nat
        /\ cache[v][q] <= server[q]
        /\ fetch[v][q] = "answered" => answer[v][q] \in cache[v][q] .. server[q]
    BY DEF TypeOK, AnswersInOrder
  <2>2. ASSUME NEW h \in Handlers, NEW op \in Ops, Commit(h, op)
        PROVE  server'[q] >= server[q] /\ UNCHANGED <<cache, fetch, answer>>
    BY <2>1, <2>2 DEF Commit
  <2>3. ASSUME NEW w \in Viewers, ClosePage(w)
        PROVE  /\ server' = server
               /\ \/ cache'[v][q] = 0 /\ fetch'[v][q] = Idle
                  \/ cache'[v] = cache[v] /\ fetch'[v] = fetch[v] /\ answer'[v] = answer[v]
    BY <2>3 DEF ClosePage, TypeOK, serverVars
  <2>4. ASSUME NEW w \in Viewers, OpenPage(w) \/ Receive(w)
        PROVE  UNCHANGED <<server, cache, answer>> /\ fetch'[v][q] \in {fetch[v][q], "asked"}
    <3>1. CASE OpenPage(w)
      BY <3>1 DEF OpenPage, TypeOK
    <3>2. CASE Receive(w)
      BY <3>2 DEF Receive, TypeOK
    <3> QED BY <2>4, <3>1, <3>2
  <2>5. ASSUME NEW w \in Viewers, NEW p \in Queries, Answer(w, p)
        PROVE  /\ UNCHANGED <<server, cache>>
               /\ \/ answer'[v][q] = server[q]
                  \/ answer'[v][q] = answer[v][q] /\ fetch'[v][q] = fetch[v][q]
    BY <2>5 DEF Answer, TypeOK
  <2>6. ASSUME NEW w \in Viewers, NEW p \in Queries, Deliver(w, p)
        PROVE  /\ UNCHANGED <<server, answer>>
               /\ \/ cache'[v][q] = answer[v][q] /\ fetch[v][q] = "answered" /\ fetch'[v][q] = Idle
                  \/ cache'[v][q] = cache[v][q] /\ fetch'[v][q] = fetch[v][q]
    BY <2>6 DEF Deliver, TypeOK
  <2>7. ASSUME NEW w \in Viewers, NEW p \in Queries, FetchFails(w, p) \/ Refetch(w, p)
        PROVE  UNCHANGED <<server, cache, answer>>
               /\ fetch'[v][q] \in {fetch[v][q], Idle, "asked"}
    <3>1. CASE FetchFails(w, p)
      BY <3>1 DEF FetchFails, TypeOK
    <3>2. CASE Refetch(w, p)
      BY <3>2 DEF Refetch, TypeOK
    <3> QED BY <2>7, <3>1, <3>2
  <2>8. CASE \/ \E h \in Handlers : Broadcast(h)
             \/ \E w \in Viewers : Subscribe(w) \/ Disconnect(w)
             \/ Restart \/ UNCHANGED vars
    <3>1. UNCHANGED <<server, cache, fetch, answer>>
      BY <2>8 DEF Broadcast, Subscribe, Disconnect, Restart, vars
    <3> QED BY <2>1, <3>1
  <2>9. server'[q] \in Nat /\ Idle # "answered"
    BY DEF TypeOK, Idle
  <2>10. CASE \E h \in Handlers, op \in Ops : Commit(h, op)
    BY <2>1, <2>2, <2>9, <2>10
  <2>11. CASE \E w \in Viewers : ClosePage(w) \/ OpenPage(w) \/ Receive(w)
    BY <2>1, <2>3, <2>4, <2>9, <2>11
  <2>12. CASE \E w \in Viewers, p \in Queries :
                Answer(w, p) \/ Deliver(w, p) \/ FetchFails(w, p) \/ Refetch(w, p)
    BY <2>1, <2>5, <2>6, <2>7, <2>9, <2>12
  <2> QED BY <2>8, <2>10, <2>11, <2>12 DEF Next, Server, Page
<1> QED BY <1>1, <1>2, TypeCorrect, PTL DEF Spec

\* Whatever is written, lost, failed or restarted, a page that stays open goes
\* only forward through states the server was in, and never goes blank.
THEOREM KeepsThePromise == Spec => PromiseKept
<1>1. Init => LV!Init
  BY DEF Init, LV!Init, LV!Blank
<1>2. TypeOK /\ AnswersInOrder /\ [Next]_vars => [LV!Next]_LV!vars
  <2> SUFFICES ASSUME TypeOK, AnswersInOrder, [Next]_vars PROVE LV!Next \/ UNCHANGED LV!vars
    OBVIOUS
  <2>1. ASSUME NEW h \in Handlers, NEW op \in Ops, Commit(h, op) PROVE LV!Next
    <3> DEFINE changed == Changes[op] \cap Queries
    <3>1. changed \in SUBSET Queries
      OBVIOUS
    <3>2. LV!Change(changed)
      BY <2>1 DEF Commit, LV!Change
    <3> HIDE DEF changed
    <3> QED BY <3>1, <3>2 DEF LV!Next
  <2>2. ASSUME NEW v \in Viewers, ClosePage(v) PROVE LV!Next
    BY <2>2 DEF ClosePage, LV!Next, LV!Leave, LV!Blank, serverVars
  <2>3. ASSUME NEW v \in Viewers, NEW q \in Queries, Deliver(v, q)
        PROVE  LV!Next \/ UNCHANGED LV!vars
    <3>1. /\ cache' = [cache EXCEPT ![v][q] = answer[v][q]] /\ server' = server
          /\ answer[v][q] \in cache[v][q] .. server[q]
          /\ cache[v][q] \in Nat /\ server[q] \in Nat /\ answer[v][q] \in Nat
      BY <2>3 DEF Deliver, AnswersInOrder, TypeOK
    <3>2. CASE answer[v][q] = cache[v][q]
      BY <3>1, <3>2 DEF LV!vars, TypeOK
    <3>3. CASE answer[v][q] # cache[v][q]
      <4>1. answer[v][q] \in cache[v][q] + 1 .. server[q]
        BY <3>1, <3>3
      <4>2. LV!See(v, q)
        BY <3>1, <4>1 DEF LV!See
      <4> QED BY <4>2 DEF LV!Next
    <3> QED BY <3>2, <3>3
  <2>4. CASE \/ \E h \in Handlers : Broadcast(h)
             \/ \E v \in Viewers : OpenPage(v) \/ Subscribe(v) \/ Disconnect(v) \/ Receive(v)
             \/ \E v \in Viewers, q \in Queries : Answer(v, q) \/ FetchFails(v, q) \/ Refetch(v, q)
             \/ Restart \/ UNCHANGED vars
    BY <2>4 DEF Broadcast, OpenPage, Subscribe, Disconnect, Receive, Answer, FetchFails,
                Refetch, Restart, vars, LV!vars
  <2> QED BY <2>1, <2>2, <2>3, <2>4 DEF Next, Server, Page
<1> QED BY <1>1, <1>2, TypeCorrect, AnswersStayInOrder, PTL DEF Spec, PromiseKept, LV!Spec
=============================================================================
