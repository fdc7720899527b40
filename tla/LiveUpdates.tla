----------------------------- MODULE LiveUpdates -----------------------------
(***************************************************************************)
(* Live updates of one project's board.  A handler commits, then tells     *)
(* the EventBroadcaster (backend/app/services/events.py), which puts the   *)
(* event into the queue of every open stream of the project.  Each browser *)
(* page holds a React Query cache filled by requests of its own and        *)
(* an EventSource (frontend/src/hooks/useSSE.ts) whose events invalidate   *)
(* what is cached.                                                         *)
(*                                                                         *)
(* The data is the number of times the answer of a query has changed.  The *)
(* commit and the broadcast are two steps (`await db.refresh` or a query   *)
(* lies between them); the events of one handler are put in one step, as   *)
(* Queue.put on an unbounded queue never suspends.                         *)
(***************************************************************************)
EXTENDS Naturals, Sequences

CONSTANTS
  Viewers,     \* open browser pages
  Handlers,    \* write requests that can be under way at once
  Ops,         \* the kinds of write that happen, a subset of DOMAIN Changes
  Queries,     \* the query keys the page shows
  MaxVersion   \* bound: how often the answer of one query changes

AllQueries == {"features", "pbis", "groups", "swimlines", "sprints", "pis", "states"}

ASSUME QueriesAssumption == Queries \subseteq AllQueries
ASSUME BoundAssumption == MaxVersion \in Nat

-----------------------------------------------------------------------------
(* The tables: what each write changes, which events its handler sends, and *)
(* which queries the client invalidates on each event.                      *)

\* The answers of features, swimlines, sprints and pis hold efforts summed
\* over stories: whatever regroups or re-estimates a story changes them.
Rollups == {"swimlines", "sprints", "pis"}

Changes == [
  CreateFeature   |-> {"features"},
  RenameFeature   |-> {"features"},
  MoveFeature     |-> {"features", "pbis", "groups"} \cup Rollups,
  SplitFeature    |-> {"features", "pbis", "groups"} \cup Rollups,
  DeleteFeature   |-> {"features", "pbis", "groups"} \cup Rollups,
  ClearBacklog    |-> {"features", "pbis"},
  ClearAll        |-> {"features", "pbis", "groups"} \cup Rollups,
  CreateStory     |-> {"features", "pbis"},
  UpdateStory     |-> {"features", "pbis"} \cup Rollups,
  PlaceStory      |-> {"pbis", "groups"} \cup Rollups,
  DeleteStory     |-> {"features", "pbis"} \cup Rollups,
  ChangeGroup     |-> {"pbis", "groups"} \cup Rollups,
  ChangePi        |-> {"pis"},
  DeletePi        |-> {"features", "pbis", "pis"},
  ChangeSwimline  |-> {"swimlines"},
  DeleteSwimline  |-> {"features", "pbis", "groups"} \cup Rollups,
  UpdateSprint    |-> Rollups,
  ChangeState     |-> {"states"},
  RenameState     |-> {"states", "features", "pbis"},
  ReplaceProject  |-> AllQueries]

\* The events every run of the handler sends, whatever the request.
EventsOf == [
  CreateFeature   |-> {"feature:created"},
  RenameFeature   |-> {"feature:updated"},
  MoveFeature     |-> {"feature:moved"},
  SplitFeature    |-> {"feature:created", "feature:updated", "pbi:updated"},
  DeleteFeature   |-> {"feature:deleted", "group:deleted"},
  ClearBacklog    |-> {"backlog:cleared"},
  ClearAll        |-> {"features:cleared"},
  CreateStory     |-> {"pbi:created"},
  UpdateStory     |-> {"pbi:updated"},
  PlaceStory      |-> {"group:created", "pbi:updated"},
  DeleteStory     |-> {"pbi:deleted"},
  ChangeGroup     |-> {"group:updated"},
  ChangePi        |-> {"pi:updated"},
  DeletePi        |-> {"pi:deleted"},
  ChangeSwimline  |-> {"swimline:updated"},
  DeleteSwimline  |-> {"swimline:deleted"},
  UpdateSprint    |-> {"sprint:capacity_changed"},
  ChangeState     |-> {"state:created"},
  RenameState     |-> {"state:updated"},
  ReplaceProject  |-> {"import:completed"}]

\* Mutant: group events forget the sprint columns.
InvalidatesNoSprints(e) ==
  IF e = "group:created" THEN {"groups", "pbis", "swimlines", "pis"}
  ELSE IF e = "state:updated" THEN {"states", "features", "pbis"}
  ELSE IF e = "pbi:created" THEN {"pbis", "features"}
  ELSE {"pbis"}

\* handleSSEEvent: the query keys an event invalidates.
Invalidates(e) ==
  CASE e \in {"feature:created", "feature:updated"} ->
         {"features", "groups", "swimlines", "pis"}
    [] e \in {"feature:deleted", "feature:moved", "features:cleared"} ->
         {"features", "pbis", "groups", "swimlines", "pis"}
    [] e = "backlog:cleared" -> {"features", "pbis"}
    [] e \in {"pbi:created", "pbi:updated", "pbi:deleted"} -> {"pbis", "features"}
    [] e \in {"group:created", "group:updated", "group:deleted"} ->
         {"groups", "pbis", "sprints", "swimlines", "pis"}
    [] e \in {"pi:updated", "pi:deleted"} -> {"pis"}
    [] e \in {"swimline:updated", "swimline:deleted"} -> {"swimlines"}
    [] e = "sprint:capacity_changed" -> {"sprints", "swimlines", "pis"}
    [] e = "state:created" -> {"states"}
    [] e = "state:updated" -> {"states", "features", "pbis"}
    [] e = "import:completed" -> AllQueries
    [] OTHER -> {}

Told(op) == UNION {Invalidates(e) : e \in EventsOf[op]}

\* What somebody who hears nothing of a write misses of it.
Concerns(op) == Changes[op] \cup Told(op)

\* A write tells its viewers of every answer it changes.
Tells(op) == Changes[op] \cap Queries \subseteq Told(op)

Idle == "idle"

ASSUME OpsAssumption == Ops \subseteq DOMAIN Changes /\ Idle \notin Ops

-----------------------------------------------------------------------------
VARIABLES
  server,   \* how often the answer of each query has changed
  handler,  \* the committed write each handler has yet to broadcast
  page,     \* the pages that are open
  stream,   \* the pages whose EventSource is subscribed
  inbox,    \* the writes whose events are queued or on the wire to a page
  cache,    \* the version in each page's cache, 0 before the first answer
  fetch,    \* the request each query has under way
  answer,   \* the version read for it, once the server has answered
  missed    \* history: the answers whose event a page can no longer receive

vars == <<server, handler, page, stream, inbox, cache, fetch, answer, missed>>
serverVars == <<server, handler>>

TypeOK ==
  /\ server \in [Queries -> 1 .. MaxVersion + 1]
  /\ handler \in [Handlers -> Ops \cup {Idle}]
  /\ page \subseteq Viewers
  /\ stream \subseteq page
  /\ inbox \in [Viewers -> Seq(Ops)]
  /\ cache \in [Viewers -> [Queries -> Nat]]
  /\ fetch \in [Viewers -> [Queries -> {Idle, "asked", "answered"}]]
  /\ answer \in [Viewers -> [Queries -> Nat]]
  /\ missed \in [Viewers -> SUBSET Queries]

Init ==
  /\ server = [q \in Queries |-> 1]
  /\ handler = [h \in Handlers |-> Idle]
  /\ page = {}
  /\ stream = {}
  /\ inbox = [v \in Viewers |-> <<>>]
  /\ cache = [v \in Viewers |-> [q \in Queries |-> 0]]
  /\ fetch = [v \in Viewers |-> [q \in Queries |-> Idle]]
  /\ answer = [v \in Viewers |-> [q \in Queries |-> 0]]
  /\ missed = [v \in Viewers |-> {}]

-----------------------------------------------------------------------------
(* What a page holds *)

\* The version a query shows, or will once its answer is delivered.
Held(v, q) == IF fetch[v][q] = "answered" THEN answer[v][q] ELSE cache[v][q]

\* A request that is still to be read by the server will return what is there.
Behind(v, q) == fetch[v][q] # "asked" /\ Held(v, q) # server[q]

BehindOf(v, queries) == {q \in queries \cap Queries : Behind(v, q)}

InInbox(v, q) == \E i \in DOMAIN inbox[v] : q \in Told(inbox[v][i])
InHandler(q) == \E h \in Handlers : handler[h] # Idle /\ q \in Told(handler[h])

Undelivered(v) == UNION {Concerns(inbox[v][i]) : i \in DOMAIN inbox[v]}
Unsent == UNION {Concerns(handler[h]) : h \in {k \in Handlers : handler[k] # Idle}}

-----------------------------------------------------------------------------
(* The server *)

\* A write handler up to its commit.
Commit(h, op) ==
  /\ handler[h] = Idle
  /\ \A q \in Changes[op] \cap Queries : server[q] <= MaxVersion
  /\ server' = [q \in Queries |-> server[q] + (IF q \in Changes[op] THEN 1 ELSE 0)]
  /\ handler' = [handler EXCEPT ![h] = op]
  /\ UNCHANGED <<page, stream, inbox, cache, fetch, answer, missed>>

\* EventBroadcaster.broadcast reaches the queues that exist at this moment.
Broadcast(h) ==
  /\ handler[h] # Idle
  /\ handler' = [handler EXCEPT ![h] = Idle]
  /\ inbox' = [v \in Viewers |->
       IF v \in stream THEN Append(inbox[v], handler[h]) ELSE inbox[v]]
  /\ missed' = [v \in Viewers |->
       IF v \in stream THEN missed[v]
       ELSE missed[v] \cup BehindOf(v, Concerns(handler[h]))]
  /\ UNCHANGED <<server, page, stream, cache, fetch, answer>>

\* The process restarts: handlers end after their commit, streams and queues
\* are gone.  The broadcaster lives in memory and replays nothing.
Restart ==
  /\ handler' = [h \in Handlers |-> Idle]
  /\ stream' = {}
  /\ inbox' = [v \in Viewers |-> <<>>]
  /\ missed' = [v \in Viewers |->
       missed[v] \cup BehindOf(v, Undelivered(v)) \cup BehindOf(v, Unsent)]
  /\ UNCHANGED <<server, page, cache, fetch, answer>>

\* stream() registers its queue when the response starts.  The 'connected'
\* event it sends first is one the client ignores.
Subscribe(v) ==
  /\ v \in page \ stream
  /\ stream' = stream \cup {v}
  /\ UNCHANGED <<server, handler, page, inbox, cache, fetch, answer, missed>>

\* The connection breaks; what was queued or on the wire is gone.  EventSource
\* reconnects by itself (Subscribe) and the client refetches nothing.
Disconnect(v) ==
  /\ v \in stream
  /\ stream' = stream \ {v}
  /\ inbox' = [inbox EXCEPT ![v] = <<>>]
  /\ missed' = [missed EXCEPT ![v] =
       @ \cup BehindOf(v, Undelivered(v))]
  /\ UNCHANGED <<server, handler, page, cache, fetch, answer>>

-----------------------------------------------------------------------------
(* The page: React Query and useEventStream *)

\* The board is opened: its queries and its EventSource start together.
OpenPage(v) ==
  /\ v \notin page
  /\ page' = page \cup {v}
  /\ fetch' = [fetch EXCEPT ![v] = [q \in Queries |-> "asked"]]
  /\ UNCHANGED <<server, handler, stream, inbox, cache, answer, missed>>

ClosePage(v) ==
  /\ v \in page
  /\ page' = page \ {v}
  /\ stream' = stream \ {v}
  /\ inbox' = [inbox EXCEPT ![v] = <<>>]
  /\ cache' = [cache EXCEPT ![v] = [q \in Queries |-> 0]]
  /\ fetch' = [fetch EXCEPT ![v] = [q \in Queries |-> Idle]]
  /\ answer' = [answer EXCEPT ![v] = [q \in Queries |-> 0]]
  /\ missed' = [missed EXCEPT ![v] = {}]
  /\ UNCHANGED serverVars

\* The server reads the rows for an answer.
Answer(v, q) ==
  /\ fetch[v][q] = "asked"
  /\ fetch' = [fetch EXCEPT ![v][q] = "answered"]
  /\ answer' = [answer EXCEPT ![v][q] = server[q]]
  /\ UNCHANGED <<server, handler, page, stream, inbox, cache, missed>>

Deliver(v, q) ==
  /\ fetch[v][q] = "answered"
  /\ fetch' = [fetch EXCEPT ![v][q] = Idle]
  /\ cache' = [cache EXCEPT ![v][q] = answer[v][q]]
  /\ UNCHANGED <<server, handler, page, stream, inbox, answer, missed>>

\* Mutant: a failed request empties the query.
FetchFailsToNothing(v, q) ==
  /\ fetch[v][q] # Idle
  /\ fetch' = [fetch EXCEPT ![v][q] = Idle]
  /\ cache' = [cache EXCEPT ![v][q] = 0]
  /\ missed' = [missed EXCEPT ![v] = @ \cup {q}]
  /\ UNCHANGED <<server, handler, page, stream, inbox, answer>>

\* The request and its one retry fail; the page keeps what it had.
FetchFails(v, q) ==
  /\ fetch[v][q] # Idle
  /\ fetch' = [fetch EXCEPT ![v][q] = Idle]
  /\ missed' = [missed EXCEPT ![v] =
       @ \cup (IF cache[v][q] # server[q] THEN {q} ELSE {})]
  /\ UNCHANGED <<server, handler, page, stream, inbox, cache, answer>>

\* Older than staleTime: refetched when the window regains focus.
Refetch(v, q) ==
  /\ v \in page /\ fetch[v][q] = Idle
  /\ fetch' = [fetch EXCEPT ![v][q] = "asked"]
  /\ missed' = [missed EXCEPT ![v] = @ \ {q}]
  /\ UNCHANGED <<server, handler, page, stream, inbox, cache, answer>>

\* React Query v5 restarts the request of an invalidated query, dropping the
\* one under way, except when that is the first load: this one goes on, and
\* its answer counts as fresh.
FirstLoad(v, q) == cache[v][q] = 0 /\ fetch[v][q] # Idle

\* Mutant: invalidated without cancelling what is under way (cancelRefetch off).
RestartedIfIdle(v) == {q \in Told(Head(inbox[v])) \cap Queries : fetch[v][q] = Idle}

Restarted(v) == {q \in Told(Head(inbox[v])) \cap Queries : ~FirstLoad(v, q)}

\* handleSSEEvent for the events of one write, in the order they were put.
Receive(v) ==
  /\ inbox[v] # <<>>
  /\ inbox' = [inbox EXCEPT ![v] = Tail(@)]
  /\ fetch' = [fetch EXCEPT ![v] =
       [q \in Queries |-> IF q \in Restarted(v) THEN "asked" ELSE @[q]]]
  /\ missed' = [missed EXCEPT ![v] =
       (@ \cup {q \in BehindOf(v, Told(Head(inbox[v]))) : FirstLoad(v, q)}) \ Restarted(v)]
  /\ UNCHANGED <<server, handler, page, stream, cache, answer>>

-----------------------------------------------------------------------------
Server(h) == Broadcast(h) \/ \E op \in Ops : Commit(h, op)

Page(v) ==
  \/ OpenPage(v) \/ ClosePage(v) \/ Subscribe(v) \/ Disconnect(v) \/ Receive(v)
  \/ \E q \in Queries : Answer(v, q) \/ Deliver(v, q) \/ FetchFails(v, q) \/ Refetch(v, q)

Next == (\E h \in Handlers : Server(h)) \/ (\E v \in Viewers : Page(v)) \/ Restart

Spec == Init /\ [][Next]_vars

\* The event loop runs every handler to its end, the browser reconnects, and
\* requests are answered; nobody has to write, leave, fail or refocus.
Fairness ==
  /\ \A h \in Handlers : WF_vars(Broadcast(h))
  /\ \A v \in Viewers :
       /\ WF_vars(Subscribe(v))
       /\ WF_vars(Receive(v))
       /\ \A q \in Queries : WF_vars(Answer(v, q)) /\ WF_vars(Deliver(v, q))

FairSpec == Spec /\ Fairness

-----------------------------------------------------------------------------
(* Properties *)

\* A page that shows an old answer has a reason to change it: an event on its
\* way, a handler about to send one, or a request that will read the rows
\* again.  The only other old answers are those whose event was sent while the
\* page could not receive it (services/events.py keeps no history) or while it
\* was first loading.
NoSilentStaleness ==
  \A v \in page, q \in Queries :
    Behind(v, q) => q \in missed[v] \/ InInbox(v, q) \/ InHandler(q)

\* A query that misses no event ends up showing the current rows, for as long
\* as the page is open (handleSSEEvent together with React Query's refetch).
CaughtUp ==
  \A v \in Viewers, q \in Queries :
    <>[](v \in page /\ q \notin missed[v]) => <>[](cache[v][q] = server[q])

\* The cache keeps what the viewer is promised: invalidating, refetching,
\* failing and reconnecting never blank a view or take it back in time.
LV == INSTANCE LiveView WITH view <- cache
PromiseKept == LV!Spec
=============================================================================
