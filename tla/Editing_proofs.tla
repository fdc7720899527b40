---------------------------- MODULE Editing_proofs ----------------------------
(***************************************************************************)
(* What holds of the edit lock for every set of users and clients, every   *)
(* timeout and every number of requests in flight, and of the board it     *)
(* guards for every set of ids: however many features, stories, groups,    *)
(* swimlanes and PIs there are.                                            *)
(***************************************************************************)
EXTENDS EditLock, Board, TLAPS

-----------------------------------------------------------------------------
(* THE EDIT LOCK                                                           *)


\* Every request acts for a known user, and its fields are what they say.
LEMMA RequestsAct ==
  \A r \in Requests : /\ r.client \in Clients /\ r.op \in Ops
                      /\ User(r) \in Users /\ User(r) # NoUser
  BY ClientsAssumption DEF Requests, User

-----------------------------------------------------------------------------
\* The variables keep their types; in particular the lease never goes negative
\* nor beyond the timeout.
THEOREM LockTyped == LockSpec => []LockTypeOK
<1>1. LockInit => LockTypeOK
  BY TimeoutAssumption DEF LockInit, LockTypeOK, Phases
<1>2. LockTypeOK /\ [LockNext]_lockVars => LockTypeOK'
  <2> SUFFICES ASSUME LockTypeOK, [LockNext]_lockVars PROVE LockTypeOK'
    OBVIOUS
  <2> USE RequestsAct, TimeoutAssumption DEF LockTypeOK, Phases
  <2>1. ASSUME NEW r \in Requests, Send(r) PROVE LockTypeOK'
    BY <2>1 DEF Send, rowVars, clientVars
  <2>2. ASSUME NEW r \in Requests, Read(r) PROVE LockTypeOK'
    BY <2>2 DEF Read, ReadForAcquire, ReadForWrite, ReadForRelease, ReadForKeepalive,
                Leave, MoveTo, rowVars, clientVars
  <2>3. ASSUME NEW r \in Requests, Commit(r) PROVE LockTypeOK'
    <3> USE <2>3 DEF Commit, Leave, Save, MoveTo, rowVars, clientVars
    <3>1. CASE CommitAcquire(r)
      BY <3>1 DEF CommitAcquire
    <3>2. CASE CommitRelease(r)
      BY <3>2 DEF CommitRelease
    <3>3. CASE CommitKeepalive(r)
      BY <3>3 DEF CommitKeepalive
    <3>4. CASE CommitWrite(r)
      BY <3>4 DEF CommitWrite
    <3>5. QED
      BY <3>1, <3>2, <3>3, <3>4
  <2>4. ASSUME NEW r \in Requests, Respond(r) \/ Lose(r) PROVE LockTypeOK'
    BY <2>4 DEF Respond, Lose, rowVars
  <2>5. ASSUME NEW c \in Clients, Logout(c) \/ Login(c) \/ Close(c) \/ Open(c)
        PROVE  LockTypeOK'
    BY <2>5 DEF Logout, Login, Close, Open, rowVars, requestVars
  <2>6. ASSUME NEW u \in Users, ChangeRole(u) PROVE LockTypeOK'
    BY <2>6 DEF ChangeRole, rowVars, requestVars
  <2>7. CASE Tick
    BY <2>7 DEF Tick, IsLocked, clientVars, requestVars
  <2>8. CASE UNCHANGED lockVars
    BY <2>8 DEF lockVars
  <2>9. QED
    BY <2>1, <2>2, <2>3, <2>4, <2>5, <2>6, <2>7, <2>8 DEF LockNext
<1>3. QED
  BY <1>1, <1>2, PTL DEF LockSpec

-----------------------------------------------------------------------------
\* FreshReadsHold is inductive: only a commit changes the row other than by the
\* passing of time, and a commit marks every other decided request overtaken.

\* A step that leaves the row and every request alone keeps the invariant.
LEMMA RowUntouched ==
  ASSUME FreshReadsHold, UNCHANGED <<holder, ttl, at, saw, overtaken>>
  PROVE  FreshReadsHold'
  BY DEF FreshReadsHold, HeldByOther, IsLocked

LEMMA ReadKeepsFresh ==
  ASSUME LockTypeOK, FreshReadsHold, NEW r \in Requests, Read(r)
  PROVE  FreshReadsHold'
<1> SUFFICES ASSUME NEW q \in Requests, at'[q] = "decided", q \notin overtaken'
             PROVE  /\ saw'[q] = holder'
                    /\ q.op \in {"acquire", "write"} => ~HeldByOther(User(q))'
                    /\ q.op \in {"release", "keepalive"} => holder' = User(q)
  BY DEF FreshReadsHold
<1> USE DEF Read, ReadForAcquire, ReadForWrite, ReadForRelease, ReadForKeepalive,
            Leave, MoveTo, LockTypeOK, rowVars
<1>1. UNCHANGED <<holder, ttl>>
  OBVIOUS
<1>2. CASE q = r
  BY <1>1, <1>2 DEF MayTake, HeldByOther, IsLocked
<1>3. CASE q # r
  <2>1. at[q] = "decided" /\ q \notin overtaken /\ saw'[q] = saw[q]
    BY <1>3
  <2>2. QED
    BY <1>1, <2>1 DEF FreshReadsHold, HeldByOther, IsLocked
<1>4. QED
  BY <1>2, <1>3

LEMMA CommitKeepsFresh ==
  ASSUME LockTypeOK, FreshReadsHold, NEW r \in Requests, Commit(r)
  PROVE  FreshReadsHold'
<1> SUFFICES ASSUME NEW q \in Requests, at'[q] = "decided", q \notin overtaken'
             PROVE  /\ saw'[q] = holder'
                    /\ q.op \in {"acquire", "write"} => ~HeldByOther(User(q))'
                    /\ q.op \in {"release", "keepalive"} => holder' = User(q)
  BY DEF FreshReadsHold
<1> USE DEF Commit, CommitAcquire, CommitRelease, CommitKeepalive, CommitWrite,
            Leave, Save, MoveTo, LockTypeOK, rowVars
<1>1. q # r /\ at[q] = "decided" /\ saw'[q] = saw[q]
  OBVIOUS
<1>2. CASE UNCHANGED rowVars
  <2>1. q \notin overtaken
    BY <1>1, <1>2
  <2>2. QED
    BY <1>1, <1>2, <2>1 DEF FreshReadsHold, HeldByOther, IsLocked
<1>3. CASE overtaken' = (overtaken \cup {p \in Requests : at[p] = "decided"}) \ {r}
  BY <1>1, <1>3
<1>4. QED
  BY <1>2, <1>3

LEMMA TickKeepsFresh ==
  ASSUME LockTypeOK, FreshReadsHold, Tick
  PROVE  FreshReadsHold'
  BY DEF Tick, FreshReadsHold, HeldByOther, IsLocked, LockTypeOK, requestVars

\* Requests that have not been overtaken still see the row as it is.
THEOREM FreshReads == LockSpec => []FreshReadsHold
<1>1. LockInit => FreshReadsHold
  BY DEF LockInit, FreshReadsHold
<1>2. LockTypeOK /\ FreshReadsHold /\ [LockNext]_lockVars => FreshReadsHold'
  <2> SUFFICES ASSUME LockTypeOK, FreshReadsHold, [LockNext]_lockVars PROVE FreshReadsHold'
    OBVIOUS
  <2>1. ASSUME NEW r \in Requests, Send(r) \/ Respond(r) \/ Lose(r)
        PROVE  FreshReadsHold'
    <3>1. UNCHANGED <<holder, ttl, saw, overtaken>>
      BY <2>1 DEF Send, Respond, Lose, rowVars
    <3>2. \A q \in Requests : at'[q] = "decided" => at[q] = "decided"
      BY <2>1 DEF Send, Respond, Lose, LockTypeOK
    <3>3. QED
      BY <3>1, <3>2 DEF FreshReadsHold, HeldByOther, IsLocked
  <2>2. ASSUME NEW c \in Clients, Logout(c) \/ Login(c) \/ Close(c) \/ Open(c)
        PROVE  FreshReadsHold'
    BY <2>2, RowUntouched DEF Logout, Login, Close, Open, rowVars, requestVars
  <2>3. ASSUME NEW u \in Users, ChangeRole(u) PROVE FreshReadsHold'
    BY <2>3, RowUntouched DEF ChangeRole, rowVars, requestVars
  <2>4. CASE UNCHANGED lockVars
    BY <2>4, RowUntouched DEF lockVars
  <2>5. QED
    BY <2>1, <2>2, <2>3, <2>4, ReadKeepsFresh, CommitKeepsFresh, TickKeepsFresh
    DEF LockNext
<1>3. QED
  BY <1>1, <1>2, LockTyped, PTL DEF LockSpec

-----------------------------------------------------------------------------
\* A lease that runs is somebody's: a release or a keepalive writes only the
\* expiry, and writes it to a row that exists; a row once read stays.
RowIsNamed ==
  /\ holder = NoUser => ttl = 0
  /\ \A r \in Requests :
       at[r] = "decided" /\ (saw[r] # NoUser \/ r.op \in {"release", "keepalive"})
         => holder # NoUser

LEMMA NamedRowStaysNamed ==
  ASSUME LockTypeOK, RowIsNamed, [LockNext]_lockVars
  PROVE  RowIsNamed'
<1> USE RequestsAct, ClientsAssumption DEF RowIsNamed, LockTypeOK
<1>1. ASSUME NEW r \in Requests, Send(r) \/ Respond(r) \/ Lose(r) PROVE RowIsNamed'
  BY <1>1 DEF Send, Respond, Lose, rowVars
<1>2. ASSUME NEW r \in Requests, Read(r) PROVE RowIsNamed'
  BY <1>2 DEF Read, ReadForAcquire, ReadForWrite, ReadForRelease, ReadForKeepalive,
              Leave, MoveTo, rowVars
<1>3. ASSUME NEW r \in Requests, Commit(r) PROVE RowIsNamed'
  <2> USE <1>3 DEF Commit, Leave, Save, MoveTo, rowVars
  <2>1. CASE CommitAcquire(r)
    <3>1. CASE saw[r] = NoUser /\ holder # NoUser
      BY <2>1, <3>1 DEF CommitAcquire
    <3>2. CASE ~(saw[r] = NoUser /\ holder # NoUser)
      <4>1. holder' # NoUser
        BY <2>1, <3>2 DEF CommitAcquire
      <4>2. QED
        BY <4>1
    <3>3. QED
      BY <3>1, <3>2
  <2>2. CASE CommitRelease(r) \/ CommitKeepalive(r) \/ CommitWrite(r)
    BY <2>2 DEF CommitRelease, CommitKeepalive, CommitWrite
  <2>3. QED
    BY <2>1, <2>2
<1>4. CASE UNCHANGED <<holder, at, saw>> /\ (ttl' = ttl \/ Tick)
  BY <1>4 DEF Tick, IsLocked
<1>5. QED
  BY <1>1, <1>2, <1>3, <1>4
  DEF LockNext, lockVars, Logout, Login, Close, Open, ChangeRole, Tick, rowVars, clientVars,
      requestVars

\* A project is never locked by nobody.
THEOREM LockHasHolder == LockSpec => []LockedRowNamesHolder
<1>1. LockInit => RowIsNamed
  BY DEF LockInit, RowIsNamed
<1>2. LockTypeOK /\ RowIsNamed => LockedRowNamesHolder
  BY DEF LockTypeOK, RowIsNamed, LockedRowNamesHolder, IsLocked
<1>3. QED
  BY <1>1, <1>2, LockTyped, NamedRowStaysNamed, PTL DEF LockSpec

-----------------------------------------------------------------------------
\* The read-to-commit window is the only way to interfere with another user's
\* lock, whatever the number of clients.
THEOREM NoInterference == LockSpec => OnlyOvertakenRequestsInterfere
<1>1. ASSUME LockTypeOK, FreshReadsHold, [LockNext]_lockVars, NEW r \in Requests, Interferes(r)
      PROVE  r \in overtaken
  <2>1. at[r] = "decided" /\ at'[r] # "decided"
    BY <1>1 DEF Interferes, Commits
  <2>2. Commit(r)
    <3>1. ASSUME NEW q \in Requests, q # r, Read(q) \/ Commit(q) PROVE at'[r] = at[r]
      BY <1>1, <3>1 DEF Read, ReadForAcquire, ReadForWrite, ReadForRelease,
         ReadForKeepalive, Commit, CommitAcquire, CommitRelease, CommitKeepalive,
         CommitWrite, Leave, Save, MoveTo, LockTypeOK
    <3>2. ASSUME NEW q \in Requests, Send(q) \/ Respond(q) \/ Lose(q)
          PROVE  at'[r] = at[r]
      BY <1>1, <2>1, <3>2 DEF Send, Respond, Lose, LockTypeOK
    <3>3. ~Read(r)
      BY <2>1 DEF Read
    <3>4. QED
      BY <1>1, <2>1, <3>1, <3>2, <3>3
      DEF LockNext, lockVars, Logout, Login, Close, Open, ChangeRole, Tick, requestVars
  <2>3. SUFFICES ASSUME r \notin overtaken PROVE FALSE
    OBVIOUS
  <2>4. /\ saw[r] = holder
        /\ r.op \in {"acquire", "write"} => ~HeldByOther(User(r))
        /\ r.op \in {"release", "keepalive"} => holder = User(r)
    BY <1>1, <2>1, <2>3 DEF FreshReadsHold
  <2>5. ~HeldByOther(User(r))
    BY <2>4, RequestsAct DEF HeldByOther, Ops
  <2>6. rowVars' = rowVars \/ holder' = User(r)
    BY <2>2, <2>4 DEF Commit, CommitAcquire, CommitRelease, CommitKeepalive,
                      CommitWrite, rowVars
  <2>7. QED
    BY <1>1, <2>5, <2>6 DEF Interferes, HeldByOther, IsLocked, rowVars
<1>2. LockTypeOK /\ FreshReadsHold /\ [LockNext]_lockVars
        => [\A r \in Requests : Interferes(r) => r \in overtaken]_lockVars
  BY <1>1
<1>3. QED
  BY <1>2, LockTyped, FreshReads, PTL DEF LockSpec, OnlyOvertakenRequestsInterfere

-----------------------------------------------------------------------------
(* THE BOARD                                                               *)


-----------------------------------------------------------------------------
(* Tables *)

LEMMA TableIntro ==
  ASSUME NEW ids, NEW rows, NEW live \in SUBSET ids, NEW t \in [live -> rows]
  PROVE  t \in Table(ids, rows)
  BY DEF Table

LEMMA TableElim ==
  ASSUME NEW ids, NEW rows, NEW t \in Table(ids, rows)
  PROVE  DOMAIN t \subseteq ids /\ t \in [DOMAIN t -> rows]
  BY DEF Table

LEMMA EmptyTable ==
  ASSUME NEW ids, NEW rows
  PROVE  << >> \in Table(ids, rows) /\ DOMAIN << >> = {}
<1>1. << >> \in [{} -> rows] /\ DOMAIN << >> = {}
  OBVIOUS
<1>2. QED
  BY <1>1, TableIntro

LEMMA InsertTable ==
  ASSUME NEW ids, NEW rows, NEW t \in Table(ids, rows), NEW id \in ids, NEW row \in rows
  PROVE  Insert(t, id, row) \in Table(ids, rows)
<1>1. Insert(t, id, row) \in [DOMAIN t \cup {id} -> rows]
  BY TableElim DEF Insert
<1>2. DOMAIN t \cup {id} \subseteq ids
  BY TableElim
<1>3. QED
  BY <1>1, <1>2, TableIntro

LEMMA DeleteTable ==
  ASSUME NEW ids, NEW rows, NEW t \in Table(ids, rows), NEW gone
  PROVE  Delete(t, gone) \in Table(ids, rows)
<1>1. Delete(t, gone) \in [DOMAIN t \ gone -> rows]
  BY TableElim DEF Delete, Restrict
<1>2. DOMAIN t \ gone \subseteq ids
  BY TableElim
<1>3. QED
  BY <1>1, <1>2, TableIntro

LEMMA UngroupedTable ==
  ASSUME NEW t \in Table(StoryIds, StoryRow), NEW G
  PROVE  /\ Ungrouped(t, G) \in Table(StoryIds, StoryRow)
         /\ Ungrouped(t, G) \in [DOMAIN t -> StoryRow]
<1>1. DOMAIN t \subseteq StoryIds /\ t \in [DOMAIN t -> StoryRow]
  BY TableElim
<1>2. \A row \in StoryRow : [row EXCEPT !.group = None] \in StoryRow
  BY DEF StoryRow
<1>3. Ungrouped(t, G) \in [DOMAIN t -> StoryRow]
  BY <1>1, <1>2 DEF Ungrouped
<1>4. QED
  BY <1>1, <1>3, TableIntro

LEMMA InBacklogRow ==
  ASSUME NEW row \in FeatureRow
  PROVE  InBacklog(row) \in FeatureRow
  BY DEF InBacklog, FeatureRow

LEMMA ToBacklogTable ==
  ASSUME feature \in Table(FeatureIds, FeatureRow), NEW F
  PROVE  ToBacklog(F) \in Table(FeatureIds, FeatureRow)
<1>1. ToBacklog(F) \in [DOMAIN feature -> FeatureRow]
  BY TableElim, InBacklogRow DEF ToBacklog
<1>2. QED
  BY <1>1, TableElim, TableIntro

\* What the handlers write into a feature's row.
LEMMA FeatureRows ==
  ASSUME NEW row \in FeatureRow, NEW location \in {"backlog", "pi"},
         NEW p \in PiIds \cup {None}, NEW l \in LaneIds \cup {None}
  PROVE  /\ [row EXCEPT !.pi = None] \in FeatureRow
         /\ [row EXCEPT !.location = location, !.pi = p, !.lane = l] \in FeatureRow
         /\ [row EXCEPT !.location = location, !.lane = l, !.pi = p] \in FeatureRow
  BY DEF FeatureRow

-----------------------------------------------------------------------------
\* The tables keep their types: a live id has one row, and every column holds an
\* id of its own kind or NULL where the schema allows it.
THEOREM TypeCorrect == Spec => []TypeOK
<1>1. Init => TypeOK
  BY EmptyTable DEF Init, TypeOK
<1>2. TypeOK /\ [Next]_vars => TypeOK'
  <2> SUFFICES ASSUME TypeOK, [Next]_vars PROVE TypeOK'
    OBVIOUS
  <2> USE DEF TypeOK
  <2> DEFINE F == DOMAIN feature
             S == DOMAIN story
             G == DOMAIN group
             L == DOMAIN lane
             P == DOMAIN pi
  <2>1. /\ F \subseteq FeatureIds /\ feature \in [F -> FeatureRow]
        /\ S \subseteq StoryIds /\ story \in [S -> StoryRow]
        /\ G \subseteq GroupIds /\ group \in [G -> GroupRow]
        /\ L \subseteq LaneIds /\ lane \in [L -> PiIds]
        /\ P \subseteq PiIds /\ pi \in [P -> PiStates]
    BY TableElim
  <2>2. CASE PiOrLaneStep
    <3>1. ASSUME NEW p \in New(PiIds), NEW st \in PiStates, CreatePi(p, st) PROVE TypeOK'
      BY <3>1, InsertTable DEF CreatePi, New
    <3>2. ASSUME NEW p \in P, NEW st \in PiStates, UpdatePiState(p, st) PROVE TypeOK'
      <4>1. pi' \in [P -> PiStates]
        BY <2>1, <3>2 DEF UpdatePiState
      <4>2. QED
        BY <2>1, <3>2, <4>1, TableIntro DEF UpdatePiState
    <3>3. ASSUME NEW p \in P, DeletePi(p) PROVE TypeOK'
      <4>1. feature' \in [F -> FeatureRow]
        <5>1. \A row \in FeatureRow : /\ InBacklog(row) \in FeatureRow
                                      /\ [row EXCEPT !.pi = None] \in FeatureRow
          BY InBacklogRow, FeatureRows
        <5>2. QED
          BY <2>1, <3>3, <5>1 DEF DeletePi
      <4>2. feature' \in Table(FeatureIds, FeatureRow)
        BY <2>1, <4>1, TableIntro
      <4>3. QED
        BY <3>3, <4>2, DeleteTable, UngroupedTable DEF DeletePi
    <3>4. ASSUME NEW l \in New(LaneIds), NEW p \in P, CreateSwimline(l, p) PROVE TypeOK'
      BY <2>1, <3>4, InsertTable DEF CreateSwimline, New
    <3>5. ASSUME NEW l \in L, DeleteSwimline(l) PROVE TypeOK'
      BY <3>5, ToBacklogTable, DeleteTable, UngroupedTable DEF DeleteSwimline
    <3>6. QED
      BY <2>2, <3>1, <3>2, <3>3, <3>4, <3>5 DEF PiOrLaneStep
  <2>3. CASE FeatureStep
    <3>1. ASSUME NEW f \in New(FeatureIds), CreateFeature(f) PROVE TypeOK'
      <4>1. [location |-> "backlog", pi |-> None, lane |-> None, origin |-> None] \in FeatureRow
        BY DEF FeatureRow
      <4>2. QED
        BY <3>1, <4>1, InsertTable DEF CreateFeature, New
    <3>2. ASSUME NEW f \in F, NEW l \in L, NEW p \in PiIds, MoveToSwimlane(f, l, p)
          PROVE  /\ feature' \in Table(FeatureIds, FeatureRow)
                 /\ group' \in Table(GroupIds, GroupRow)
      <4>1. feature' \in [F -> FeatureRow]
        <5>1. \A row \in FeatureRow :
                 [row EXCEPT !.location = "pi", !.lane = l, !.pi = p] \in FeatureRow
          BY <2>1, FeatureRows
        <5>2. QED
          BY <2>1, <3>2, <5>1 DEF MoveToSwimlane
      <4>2. group' \in [G -> GroupRow]
        BY <2>1, <3>2 DEF MoveToSwimlane, GroupRow
      <4>3. QED
        BY <2>1, <4>1, <4>2, TableIntro
    <3>3. ASSUME NEW f \in F, NEW l \in L, NEW p \in PiIds, UpdateToSwimlane(f, l, p)
          PROVE  TypeOK'
      BY <3>2, <3>3 DEF UpdateToSwimlane
    <3>4. ASSUME NEW f \in F, MoveToBacklog(f) PROVE TypeOK'
      BY <3>4, ToBacklogTable, DeleteTable, UngroupedTable DEF MoveToBacklog
    <3>5. ASSUME NEW f \in F, NEW p \in PiIds \cup {None}, NEW l \in LaneIds \cup {None},
                 NEW loc \in {"backlog", "pi"}, UpdateLocationFields(f, p, l, loc)
          PROVE  TypeOK'
      <4>1. \A row \in FeatureRow :
               [row EXCEPT !.location = loc, !.pi = p, !.lane = l] \in FeatureRow
        BY FeatureRows
      <4>2. feature' \in [F -> FeatureRow]
        BY <2>1, <3>5, <4>1 DEF UpdateLocationFields
      <4>3. QED
        BY <2>1, <3>5, <4>2, TableIntro DEF UpdateLocationFields
    <3>6. ASSUME NEW f \in F, NEW l \in L, NEW T \in SUBSET StoriesOf({f}),
                 NEW n \in New(FeatureIds), SplitOff(f, l, T, n)
          PROVE  TypeOK'
      <4>1. [location |-> "pi", pi |-> lane[l], lane |-> l, origin |-> f] \in FeatureRow
        BY <2>1 DEF FeatureRow
      <4>2. story' \in [S -> StoryRow]
        BY <2>1, <3>6 DEF SplitOff, New, StoryRow
      <4>3. QED
        BY <2>1, <3>6, <4>1, <4>2, TableIntro, InsertTable, DeleteTable DEF SplitOff, New
    <3>7. ASSUME NEW f \in F, NEW l \in L, SplitAll(f, l) PROVE TypeOK'
      BY <2>1, <3>2, <3>7 DEF SplitAll
    <3>8. ASSUME NEW f \in F, CancelContinuation(f) PROVE TypeOK'
      <4> DEFINE gone == Emptied(StoriesOf({f})) \cup GroupsOf({f})
      <4>1. Ungrouped(story, gone) \in [S -> StoryRow]
        BY UngroupedTable
      <4>2. [feature |-> feature[f].origin, group |-> None] \in StoryRow
        BY <2>1, <3>8 DEF CancelContinuation, StoryRow
      <4>3. story' \in [S -> StoryRow]
        BY <3>8, <4>1, <4>2 DEF CancelContinuation
      <4>4. QED
        BY <2>1, <3>8, <4>3, TableIntro, DeleteTable DEF CancelContinuation
    <3>9. ASSUME NEW f \in F, DeleteFeature(f) PROVE TypeOK'
      BY <3>9, DeleteTable, UngroupedTable DEF DeleteFeature
    <3>10. CASE ClearBacklog
      BY <3>10, DeleteTable DEF ClearBacklog
    <3>11. CASE ClearAllFeatures
      BY <3>11, DeleteTable, EmptyTable DEF ClearAllFeatures
    <3>12. QED
      BY <2>3, <3>1, <3>3, <3>4, <3>5, <3>6, <3>7, <3>8, <3>9, <3>10, <3>11 DEF FeatureStep
  <2>4. CASE StoryStep
    <3>1. ASSUME NEW s \in New(StoryIds), NEW f \in F, CreatePbi(s, f) PROVE TypeOK'
      <4>1. [feature |-> f, group |-> None] \in StoryRow
        BY <2>1 DEF StoryRow
      <4>2. QED
        BY <3>1, <4>1, InsertTable DEF CreatePbi, New
    <3>2. ASSUME NEW s \in S, NEW g \in GroupIds \cup {None}, UpdatePbiGroup(s, g)
          PROVE  TypeOK'
      <4>1. story' \in [S -> StoryRow]
        BY <2>1, <3>2 DEF UpdatePbiGroup, StoryRow
      <4>2. QED
        BY <2>1, <3>2, <4>1, TableIntro, DeleteTable DEF UpdatePbiGroup
    <3>3. ASSUME NEW s \in S, NEW g \in New(GroupIds), PlaceStoryInSprint(s, g) PROVE TypeOK'
      <4> DEFINE f == story[s].feature
      <4>1. [lane |-> feature[f].lane, feature |-> f, story |-> s] \in GroupRow
        BY <2>1, <3>3 DEF PlaceStoryInSprint, StoryRow, FeatureRow, GroupRow
      <4>2. story' \in [S -> StoryRow]
        BY <2>1, <3>3 DEF PlaceStoryInSprint, StoryRow, New
      <4>3. QED
        BY <2>1, <3>3, <4>1, <4>2, TableIntro, InsertTable DEF PlaceStoryInSprint, New
    <3>4. ASSUME NEW s \in S, UnplaceStory(s) PROVE TypeOK'
      <4> DEFINE gone == {g \in {story[s].group} \cap DOMAIN group : group[g].story # None}
      <4>1. Ungrouped(story, gone) \in [S -> StoryRow]
        BY UngroupedTable
      <4>2. story' \in [S -> StoryRow]
        BY <3>4, <4>1 DEF UnplaceStory, StoryRow
      <4>3. QED
        BY <2>1, <3>4, <4>2, TableIntro, DeleteTable DEF UnplaceStory
    <3>5. ASSUME NEW s \in S, DeletePbi(s) PROVE TypeOK'
      BY <3>5, DeleteTable DEF DeletePbi
    <3>6. QED
      BY <2>4, <3>1, <3>2, <3>3, <3>4, <3>5 DEF StoryStep
  <2>5. CASE GroupStep
    <3>1. ASSUME NEW g \in New(GroupIds), NEW f \in F, NEW T \in SUBSET StoriesOf({f}),
                 CreateGroup(g, f, T)
          PROVE  TypeOK'
      <4>1. [lane |-> feature[f].lane, feature |-> f, story |-> None] \in GroupRow
        BY <2>1, <3>1 DEF CreateGroup, FeatureRow, GroupRow
      <4>2. story' \in [S -> StoryRow]
        BY <2>1, <3>1 DEF CreateGroup, StoryRow, New
      <4>3. QED
        BY <2>1, <3>1, <4>1, <4>2, TableIntro, InsertTable DEF CreateGroup, New
    <3>2. ASSUME NEW g \in G, RenameGroup(g) PROVE TypeOK'
      <4>1. group' \in [G -> GroupRow]
        BY <2>1, <3>2 DEF RenameGroup, GroupRow
      <4>2. QED
        BY <2>1, <3>2, <4>1, TableIntro DEF RenameGroup
    <3>3. ASSUME NEW g \in G, DeleteGroup(g) PROVE TypeOK'
      BY <3>3, DeleteTable, UngroupedTable DEF DeleteGroup
    <3>4. QED
      BY <2>5, <3>1, <3>2, <3>3 DEF GroupStep
  <2>6. CASE ImportStep
    <3>1. ASSUME NEW f \in F, NEW p \in P, NEW l \in LaneIds, PlaceFeature(f, p, l)
          PROVE  TypeOK'
      <4>1. feature' \in [F -> FeatureRow]
        <5>1. \A row \in FeatureRow :
                 [row EXCEPT !.location = "pi", !.lane = l, !.pi = p] \in FeatureRow
          BY <2>1, FeatureRows
        <5>2. QED
          BY <2>1, <3>1, <5>1 DEF PlaceFeature
      <4>2. feature' \in Table(FeatureIds, FeatureRow)
        BY <2>1, <4>1, TableIntro
      <4>3. lane' \in Table(LaneIds, PiIds)
        BY <2>1, <3>1, InsertTable DEF PlaceFeature, Landing, New
      <4>4. /\ story' \in Table(StoryIds, StoryRow)
            /\ group' \in Table(GroupIds, GroupRow)
        BY <3>1, DeleteTable, UngroupedTable DEF PlaceFeature, UnplaceFeatureStories
      <4>5. QED
        BY <3>1, <4>2, <4>3, <4>4 DEF PlaceFeature
    <3>2. ASSUME NEW s \in S, NEW p \in P, NEW g \in New(GroupIds), PlaceStory(s, p, g)
          PROVE  TypeOK'
      <4> DEFINE f == story[s].feature
      <4>1. [lane |-> feature[f].lane, feature |-> f, story |-> s] \in GroupRow
        BY <2>1, <3>2 DEF PlaceStory, PlacedIn, StoryRow, FeatureRow, GroupRow
      <4>2. story' \in [S -> StoryRow]
        BY <2>1, <3>2 DEF PlaceStory, StoryRow, New
      <4>3. QED
        BY <2>1, <3>2, <4>1, <4>2, TableIntro, InsertTable DEF PlaceStory, New
    <3>3. ASSUME NEW s \in S, NEW p \in P, PlaceStoryOutside(s, p) PROVE TypeOK'
      <4>1. story' \in [S -> StoryRow]
        BY <2>1, <3>3 DEF PlaceStoryOutside, StoryRow
      <4>2. QED
        BY <2>1, <3>3, <4>1, TableIntro, DeleteTable DEF PlaceStoryOutside
    <3>4. ASSUME NEW s \in S, NEW f \in F, Reparent(s, f) PROVE TypeOK'
      <4>1. [feature |-> f, group |-> None] \in StoryRow
        BY <2>1 DEF StoryRow
      <4>2. story' \in [S -> StoryRow]
        BY <2>1, <3>4, <4>1 DEF Reparent
      <4>3. QED
        BY <2>1, <3>4, <4>2, TableIntro, DeleteTable DEF Reparent
    <3>5. QED
      BY <2>6, <3>1, <3>2, <3>3, <3>4 DEF ImportStep
  <2>7. CASE UNCHANGED vars
    BY <2>7 DEF vars
  <2>8. QED
    BY <2>2, <2>3, <2>4, <2>5, <2>6, <2>7 DEF Next
<1>3. QED
  BY <1>1, <1>2, PTL DEF Spec

-----------------------------------------------------------------------------
\* What every request of the shipped clients preserves.
Consistent ==
  /\ ReferencesResolve
  /\ PlacementAgrees
  /\ GroupsFollowTheirFeature
  /\ GroupsHoldOwnStories
  /\ ImplicitGroupsHoldOnlyTheirStory

LEMMA NoneIsNoId ==
  /\ None \notin FeatureIds /\ None \notin StoryIds /\ None \notin GroupIds
  /\ None \notin LaneIds /\ None \notin PiIds
  BY IdsAssumption DEF Ids

\* The rows of the tables, column by column.
LEMMA Columns ==
  ASSUME TypeOK
  PROVE  /\ \A f \in DOMAIN feature : /\ f \in FeatureIds
                                       /\ feature[f] \in FeatureRow
         /\ \A s \in DOMAIN story : s \in StoryIds /\ story[s] \in StoryRow
         /\ \A g \in DOMAIN group : g \in GroupIds /\ group[g] \in GroupRow
         /\ \A l \in DOMAIN lane : l \in LaneIds /\ lane[l] \in PiIds
         /\ \A p \in DOMAIN pi : p \in PiIds
         /\ feature = [f \in DOMAIN feature |-> feature[f]]
         /\ story = [s \in DOMAIN story |-> story[s]]
         /\ group = [g \in DOMAIN group |-> group[g]]
         /\ lane = [l \in DOMAIN lane |-> lane[l]]
         /\ pi = [p \in DOMAIN pi |-> pi[p]]
  BY TableElim DEF TypeOK

LEMMA UngroupedRows ==
  ASSUME TypeOK, NEW G
  PROVE  /\ DOMAIN Ungrouped(story, G) = DOMAIN story
         /\ \A s \in DOMAIN story :
              /\ Ungrouped(story, G)[s].feature = story[s].feature
              /\ Ungrouped(story, G)[s].group
                   = IF story[s].group \in G THEN None ELSE story[s].group
  BY Columns DEF Ungrouped, StoryRow

LEMMA BacklogRows ==
  ASSUME NEW row \in FeatureRow
  PROVE  /\ InBacklog(row).location = "backlog"
         /\ InBacklog(row).lane = None
         /\ InBacklog(row).pi = None
  BY DEF InBacklog, FeatureRow

LEMMA PlacedRow ==
  ASSUME TypeOK, NEW f \in DOMAIN feature, NEW p, NEW l, PlaceFeature(f, p, l)
  PROVE  /\ DOMAIN feature' = DOMAIN feature
         /\ feature'[f].location = "pi"
         /\ feature'[f].lane = l
         /\ feature'[f].pi = p
         /\ \A n \in DOMAIN feature \ {f} : feature'[n] = feature[n]
<1>1. feature' = [feature EXCEPT ![f] = [@ EXCEPT !.location = "pi", !.lane = l, !.pi = p]]
  BY DEF PlaceFeature
<1>2. feature[f] \in FeatureRow /\ feature = [n \in DOMAIN feature |-> feature[n]]
  BY Columns
<1>3. QED
  BY <1>1, <1>2 DEF FeatureRow

LEMMA LandingLane ==
  ASSUME NEW f \in DOMAIN feature, NEW p, NEW l, PlaceFeature(f, p, l)
  PROVE  /\ DOMAIN lane' = DOMAIN lane \cup {l}
         /\ lane'[l] = p
         /\ \A k \in DOMAIN lane : lane'[k] = lane[k]
         /\ pi' = pi
<1>1. Landing(p, l) /\ pi' = pi
  BY DEF PlaceFeature
<1>2. l \in New(LaneIds) => l \notin DOMAIN lane
  BY DEF New, InUse
<1>3. QED
  BY <1>1, <1>2 DEF Landing, Insert

\* Deleting groups and ungrouping their stories leaves the other groups alone.
LEMMA GroupsGone ==
  ASSUME TypeOK, NEW gone,
         DOMAIN story' = DOMAIN story,
         \A s \in DOMAIN story :
           /\ story'[s].feature = story[s].feature
           /\ story'[s].group = IF story[s].group \in gone THEN None ELSE story[s].group,
         DOMAIN group' = DOMAIN group \ gone,
         \A g \in DOMAIN group' : group'[g] = group[g]
  PROVE  /\ GroupsHoldOwnStories => GroupsHoldOwnStories'
         /\ ImplicitGroupsHoldOnlyTheirStory => ImplicitGroupsHoldOnlyTheirStory'
<1>1. \A s \in DOMAIN story, g \in DOMAIN group' :
        story'[s].group = g => story[s].group = g
  BY NoneIsNoId, Columns
<1>2. GroupsHoldOwnStories => GroupsHoldOwnStories'
  BY <1>1 DEF GroupsHoldOwnStories
<1>3. ASSUME ImplicitGroupsHoldOnlyTheirStory PROVE ImplicitGroupsHoldOnlyTheirStory'
  <2>1. \A g \in DOMAIN group' : StoriesIn({g})' \subseteq StoriesIn({g})
    BY <1>1 DEF StoriesIn
  <2>2. QED
    BY <1>3, <2>1 DEF ImplicitGroupsHoldOnlyTheirStory
<1>4. QED
  BY <1>2, <1>3

\* Stories and groups of their feature, their groups, one lane and one PI: on a
\* board that only the web client and the MCP tools write to, no sequence of
\* requests breaks a reference or makes two copies of a placement disagree.
THEOREM BoardStaysConsistent ==
  ASSUME ~AnyBody
  PROVE  Spec => [](/\ ReferencesResolve
                    /\ PlacementAgrees
                    /\ GroupsFollowTheirFeature
                    /\ GroupsHoldOwnStories
                    /\ ImplicitGroupsHoldOnlyTheirStory)
<1> USE DEF Consistent
<1>1. Init => Consistent
  BY DEF Init, ReferencesResolve, PlacementAgrees, GroupsFollowTheirFeature,
         GroupsHoldOwnStories, ImplicitGroupsHoldOnlyTheirStory
<1>2. TypeOK /\ Consistent /\ [Next]_vars => Consistent'
  <2> SUFFICES ASSUME TypeOK, Consistent, [Next]_vars PROVE Consistent'
    OBVIOUS
  <2> USE NoneIsNoId, Columns
  <2> USE DEF Consistent, ReferencesResolve, PlacementAgrees, GroupsFollowTheirFeature,
              GroupsHoldOwnStories, ImplicitGroupsHoldOnlyTheirStory, StoriesIn
  <2>1. CASE PiOrLaneStep
    <3>1. ASSUME NEW p \in New(PiIds), NEW st \in PiStates,
                 CreatePi(p, st)
          PROVE  Consistent'
      BY <3>1 DEF CreatePi, Insert
    <3>2. ASSUME NEW p \in DOMAIN pi, NEW st \in PiStates,
                 UpdatePiState(p, st)
          PROVE  Consistent'
      BY <3>2 DEF UpdatePiState
    <3>3. ASSUME NEW p \in DOMAIN pi, DeletePi(p) PROVE Consistent'
      <4> DEFINE gone == GroupsOn({l \in DOMAIN lane : lane[l] = p})
      <4>1. /\ DOMAIN story' = DOMAIN story
            /\ \A s \in DOMAIN story :
                 /\ story'[s].feature = story[s].feature
                 /\ story'[s].group = IF story[s].group \in gone THEN None ELSE story[s].group
        BY <3>3, UngroupedRows DEF DeletePi
      <4>2. /\ DOMAIN group' = DOMAIN group \ gone
            /\ \A g \in DOMAIN group' : group'[g] = group[g]
        BY <3>3 DEF DeletePi, Delete, Restrict
      <4>3. /\ DOMAIN feature' = DOMAIN feature
            /\ \A f \in DOMAIN feature :
                 IF feature[f].lane \in {l \in DOMAIN lane : lane[l] = p}
                 THEN /\ feature'[f].location = "backlog"
                      /\ feature'[f].lane = None
                      /\ feature'[f].pi = None
                 ELSE feature[f].pi # p /\ feature'[f] = feature[f]
        BY <3>3, BacklogRows DEF DeletePi
      <4>4. /\ DOMAIN lane' = {l \in DOMAIN lane : lane[l] # p}
            /\ \A l \in DOMAIN lane' : lane'[l] = lane[l]
            /\ DOMAIN pi' = DOMAIN pi \ {p}
        BY <3>3 DEF DeletePi, Delete, Restrict
      <4>5. ReferencesResolve'
        BY <4>1, <4>2, <4>3, <4>4 DEF GroupsOn
      <4>6. PlacementAgrees'
        BY <4>3, <4>4
      <4>7. GroupsFollowTheirFeature'
        BY <4>2, <4>3, <4>4 DEF GroupsOn
      <4>8. GroupsHoldOwnStories' /\ ImplicitGroupsHoldOnlyTheirStory'
        BY <4>1, <4>2, GroupsGone
      <4>9. QED
        BY <4>5, <4>6, <4>7, <4>8
    <3>4. ASSUME NEW l \in New(LaneIds), NEW p \in DOMAIN pi,
                 CreateSwimline(l, p)
          PROVE  Consistent'
      BY <3>4 DEF CreateSwimline, Insert, New, InUse
    <3>5. ASSUME NEW l \in DOMAIN lane, DeleteSwimline(l) PROVE Consistent'
      <4> DEFINE gone == GroupsOn({l})
      <4>1. /\ DOMAIN story' = DOMAIN story
            /\ \A s \in DOMAIN story :
                 /\ story'[s].feature = story[s].feature
                 /\ story'[s].group = IF story[s].group \in gone THEN None ELSE story[s].group
        BY <3>5, UngroupedRows DEF DeleteSwimline
      <4>2. /\ DOMAIN group' = DOMAIN group \ gone
            /\ \A g \in DOMAIN group' : group'[g] = group[g]
        BY <3>5 DEF DeleteSwimline, Delete, Restrict
      <4>3. /\ DOMAIN feature' = DOMAIN feature
            /\ \A f \in DOMAIN feature :
                 IF feature[f].lane = l
                 THEN /\ feature'[f].location = "backlog"
                      /\ feature'[f].lane = None
                      /\ feature'[f].pi = None
                 ELSE feature'[f] = feature[f]
        BY <3>5, BacklogRows DEF DeleteSwimline, ToBacklog, FeaturesOn
      <4>4. /\ DOMAIN lane' = DOMAIN lane \ {l}
            /\ \A k \in DOMAIN lane' : lane'[k] = lane[k]
            /\ pi' = pi
        BY <3>5 DEF DeleteSwimline, Delete, Restrict
      <4>5. ReferencesResolve'
        BY <4>1, <4>2, <4>3, <4>4 DEF GroupsOn
      <4>6. PlacementAgrees'
        BY <4>3, <4>4
      <4>7. GroupsFollowTheirFeature'
        BY <4>2, <4>3, <4>4 DEF GroupsOn
      <4>8. GroupsHoldOwnStories' /\ ImplicitGroupsHoldOnlyTheirStory'
        BY <4>1, <4>2, GroupsGone
      <4>9. QED
        BY <4>5, <4>6, <4>7, <4>8
    <3>6. QED
      BY <2>1, <3>1, <3>2, <3>3, <3>4, <3>5 DEF PiOrLaneStep
  <2>2. CASE FeatureStep
    <3>1. ASSUME NEW f \in New(FeatureIds), CreateFeature(f) PROVE Consistent'
      BY <3>1 DEF CreateFeature, Insert, New, InUse
    <3>2. ASSUME NEW f \in DOMAIN feature, NEW l \in DOMAIN lane, NEW p \in PiIds,
                 UpdateToSwimlane(f, l, p)
          PROVE  Consistent'
      BY <3>2 DEF UpdateToSwimlane, MoveToSwimlane, FeatureRow, GroupRow
    <3>3. ASSUME NEW f \in DOMAIN feature, MoveToBacklog(f) PROVE Consistent'
      <4> DEFINE gone == GroupsOf({f})
      <4>1. /\ DOMAIN story' = DOMAIN story
            /\ \A s \in DOMAIN story :
                 /\ story'[s].feature = story[s].feature
                 /\ story'[s].group = IF story[s].group \in gone THEN None ELSE story[s].group
        BY <3>3, UngroupedRows DEF MoveToBacklog
      <4>2. /\ DOMAIN group' = DOMAIN group \ gone
            /\ \A g \in DOMAIN group' : group'[g] = group[g]
        BY <3>3 DEF MoveToBacklog, Delete, Restrict
      <4>3. /\ DOMAIN feature' = DOMAIN feature
            /\ feature'[f].location = "backlog"
            /\ feature'[f].lane = None
            /\ feature'[f].pi = None
            /\ \A n \in DOMAIN feature \ {f} : feature'[n] = feature[n]
        BY <3>3, BacklogRows DEF MoveToBacklog, ToBacklog
      <4>4. lane' = lane /\ pi' = pi
        BY <3>3 DEF MoveToBacklog
      <4>5. PlacementAgrees'
        BY <4>3, <4>4
      <4>6. ReferencesResolve'
        BY <4>1, <4>2, <4>3, <4>4
      <4>7. GroupsFollowTheirFeature'
        BY <4>2, <4>3 DEF GroupsOf
      <4>8. GroupsHoldOwnStories' /\ ImplicitGroupsHoldOnlyTheirStory'
        BY <4>1, <4>2, GroupsGone
      <4>9. QED
        BY <4>5, <4>6, <4>7, <4>8
    <3>4. ASSUME NEW f \in DOMAIN feature, NEW l \in DOMAIN lane, NEW T \in SUBSET StoriesOf({f}),
                 NEW n \in New(FeatureIds),
                 SplitOff(f, l, T, n)
          PROVE  Consistent'
      BY <3>4 DEF SplitOff, Insert, New, InUse, Emptied, Delete, Restrict, StoriesOf
    <3>5. ASSUME NEW f \in DOMAIN feature, NEW l \in DOMAIN lane,
                 SplitAll(f, l)
          PROVE  Consistent'
      BY <3>5 DEF SplitAll, MoveToSwimlane, FeatureRow, GroupRow
    <3>6. ASSUME NEW f \in DOMAIN feature, CancelContinuation(f) PROVE Consistent'
      BY <3>6, SMTT(30) DEF CancelContinuation, Emptied, StoriesOf, GroupsOf, Delete, Restrict,
                  Ungrouped, StoryRow
    <3>7. ASSUME NEW f \in DOMAIN feature, DeleteFeature(f) PROVE Consistent'
      <4> DEFINE line == Lineage(f)
                 gone == GroupsOf(line)
      <4> HIDE DEF line
      <4>1. /\ DOMAIN story' = {s \in DOMAIN story : story[s].feature \notin line}
            /\ \A s \in DOMAIN story' :
                 /\ story'[s].feature = story[s].feature
                 /\ story'[s].group = IF story[s].group \in gone THEN None ELSE story[s].group
        BY <3>7, UngroupedRows DEF DeleteFeature, Delete, Restrict, StoriesOf, line
      <4>2. /\ DOMAIN group' = DOMAIN group \ gone
            /\ \A g \in DOMAIN group' : group'[g] = group[g]
        BY <3>7 DEF DeleteFeature, Delete, Restrict, line
      <4>3. /\ DOMAIN feature' = DOMAIN feature \ line
            /\ \A n \in DOMAIN feature' : feature'[n] = feature[n]
            /\ lane' = lane /\ pi' = pi
        BY <3>7 DEF DeleteFeature, Delete, Restrict, line
      <4>4. ReferencesResolve'
        BY <4>1, <4>2, <4>3 DEF GroupsOf
      <4>5. PlacementAgrees'
        BY <4>3
      <4>6. GroupsFollowTheirFeature'
        BY <4>2, <4>3 DEF GroupsOf
      <4>7. GroupsHoldOwnStories' /\ ImplicitGroupsHoldOnlyTheirStory'
        BY <4>1, <4>2 DEF GroupsOf
      <4>8. QED
        BY <4>4, <4>5, <4>6, <4>7
    <3>8. CASE ClearBacklog
      BY <3>8 DEF ClearBacklog, StoriesOf, Delete, Restrict, GroupRow
    <3>9. CASE ClearAllFeatures
      BY <3>9 DEF ClearAllFeatures, GroupsOf, Delete, Restrict
    <3>10. QED
      BY <2>2, <3>1, <3>2, <3>3, <3>4, <3>5, <3>6, <3>7, <3>8, <3>9
      DEF FeatureStep, UpdateLocationFields
  <2>3. CASE StoryStep
    <3>1. ASSUME NEW s \in New(StoryIds), NEW f \in DOMAIN feature,
                 CreatePbi(s, f)
          PROVE  Consistent'
      BY <3>1 DEF CreatePbi, Insert, New, InUse
    <3>2. ASSUME NEW s \in DOMAIN story, NEW g \in New(GroupIds),
                 PlaceStoryInSprint(s, g)
          PROVE  Consistent'
      BY <3>2 DEF PlaceStoryInSprint, Insert, New, InUse, StoryRow
    <3>3. ASSUME NEW s \in DOMAIN story, UnplaceStory(s) PROVE Consistent'
      <4> DEFINE gone == {g \in {story[s].group} \cap DOMAIN group : group[g].story # None}
      <4>1. /\ DOMAIN story' = DOMAIN story
            /\ \A t \in DOMAIN story :
                 /\ story'[t].feature = story[t].feature
                 /\ story'[t].group = IF t = s \/ story[t].group \in gone
                                      THEN None ELSE story[t].group
        <5>1. \A row \in StoryRow : /\ [row EXCEPT !.group = None].feature = row.feature
                                    /\ [row EXCEPT !.group = None].group = None
          BY DEF StoryRow
        <5>2. Ungrouped(story, gone) \in [DOMAIN story -> StoryRow]
          BY UngroupedTable DEF TypeOK
        <5>3. story' = [Ungrouped(story, gone) EXCEPT ![s].group = None]
          BY <3>3 DEF UnplaceStory
        <5>4. QED
          BY <5>1, <5>2, <5>3, UngroupedRows
      <4>2. /\ DOMAIN group' = DOMAIN group \ gone
            /\ \A g \in DOMAIN group' : group'[g] = group[g]
        BY <3>3 DEF UnplaceStory, Delete, Restrict
      <4>3. feature' = feature /\ lane' = lane /\ pi' = pi
        BY <3>3 DEF UnplaceStory
      <4>4. ReferencesResolve' /\ PlacementAgrees' /\ GroupsFollowTheirFeature'
        BY <4>1, <4>2, <4>3
      <4>5. GroupsHoldOwnStories' /\ ImplicitGroupsHoldOnlyTheirStory'
        BY <4>1, <4>2, GroupsGone
      <4>6. QED
        BY <4>4, <4>5
    <3>4. ASSUME NEW s \in DOMAIN story, DeletePbi(s) PROVE Consistent'
      BY <3>4 DEF DeletePbi, Delete, Restrict
    <3>5. QED
      BY <2>3, <3>1, <3>2, <3>3, <3>4 DEF StoryStep, UpdatePbiGroup
  <2>4. CASE GroupStep
    <3>1. ASSUME NEW g \in New(GroupIds), NEW f \in DOMAIN feature, NEW T \in SUBSET StoriesOf({f}),
                 CreateGroup(g, f, T)
          PROVE  Consistent'
      BY <3>1 DEF CreateGroup, Insert, New, InUse, StoriesOf, StoryRow
    <3>2. ASSUME NEW g \in DOMAIN group, RenameGroup(g) PROVE Consistent'
      BY <3>2 DEF RenameGroup, GroupRow
    <3>3. ASSUME NEW g \in DOMAIN group, DeleteGroup(g) PROVE Consistent'
      BY <3>3 DEF DeleteGroup, Delete, Restrict, Ungrouped, StoryRow
    <3>4. QED
      BY <2>4, <3>1, <3>2, <3>3 DEF GroupStep
  <2>5. CASE ImportStep
    <3>1. ASSUME NEW f \in DOMAIN feature, NEW p \in DOMAIN pi, NEW l \in LaneIds,
                 PlaceFeature(f, p, l)
          PROVE  Consistent'
      <4> DEFINE gone == GroupsOf({f})
      <4>1. /\ DOMAIN story' = DOMAIN story
            /\ \A s \in DOMAIN story :
                 /\ story'[s].feature = story[s].feature
                 /\ story'[s].group = IF story[s].group \in gone THEN None ELSE story[s].group
            /\ DOMAIN group' = DOMAIN group \ gone
            /\ \A g \in DOMAIN group' : group'[g] = group[g]
        <5>1. CASE UnplaceFeatureStories(f)
          BY <5>1, UngroupedRows DEF UnplaceFeatureStories, Delete, Restrict
        <5>2. CASE /\ feature[f].location # "pi" \/ feature[f].pi \notin DOMAIN pi
                   /\ UNCHANGED <<story, group>>
          <6>1. gone = {}
            BY <5>2 DEF GroupsOf
          <6>2. QED
            BY <5>2, <6>1
        <5>3. QED
          BY <3>1, <5>1, <5>2 DEF PlaceFeature
      <4>2. /\ DOMAIN feature' = DOMAIN feature
            /\ feature'[f].location = "pi"
            /\ feature'[f].lane = l
            /\ feature'[f].pi = p
            /\ \A n \in DOMAIN feature \ {f} : feature'[n] = feature[n]
        BY <3>1, PlacedRow
      <4>3. /\ DOMAIN lane' = DOMAIN lane \cup {l}
            /\ lane'[l] = p
            /\ \A k \in DOMAIN lane : lane'[k] = lane[k]
            /\ pi' = pi
        BY <3>1, LandingLane
      <4>4. ReferencesResolve'
        <5>1. \A s \in DOMAIN story' : /\ story'[s].feature \in DOMAIN feature'
                                       /\ story'[s].group \in DOMAIN group' \cup {None}
          BY <4>1, <4>2
        <5>2. \A g \in DOMAIN group' : /\ group'[g].lane \in DOMAIN lane'
                                       /\ group'[g].feature \in DOMAIN feature'
          BY <4>1, <4>2, <4>3
        <5>3. \A n \in DOMAIN feature' : /\ feature'[n].lane \in DOMAIN lane' \cup {None}
                                         /\ feature'[n].pi \in DOMAIN pi' \cup {None}
          BY <4>2, <4>3
        <5>4. \A k \in DOMAIN lane' : lane'[k] \in DOMAIN pi'
          BY <4>3
        <5>5. QED
          BY <5>1, <5>2, <5>3, <5>4
      <4>5. PlacementAgrees'
        BY <4>2, <4>3
      <4>6. GroupsFollowTheirFeature'
        BY <4>1, <4>2 DEF GroupsOf
      <4>7. GroupsHoldOwnStories' /\ ImplicitGroupsHoldOnlyTheirStory'
        BY <4>1, GroupsGone
      <4>8. QED
        BY <4>4, <4>5, <4>6, <4>7
    <3>2. ASSUME NEW s \in DOMAIN story, NEW p \in DOMAIN pi, NEW g \in New(GroupIds),
                 PlaceStory(s, p, g)
          PROVE  Consistent'
      BY <3>2 DEF PlaceStory, PlacedIn, Insert, New, InUse, StoryRow
    <3>3. ASSUME NEW s \in DOMAIN story, NEW p \in DOMAIN pi, PlaceStoryOutside(s, p)
          PROVE  Consistent'
      BY <3>3 DEF PlaceStoryOutside, Emptied, Delete, Restrict, StoryRow
    <3>4. ASSUME NEW s \in DOMAIN story, NEW f \in DOMAIN feature, Reparent(s, f)
          PROVE  Consistent'
      BY <3>4 DEF Reparent, Emptied, Delete, Restrict, StoryRow
    <3>5. QED
      BY <2>5, <3>1, <3>2, <3>3, <3>4 DEF ImportStep
  <2>6. CASE UNCHANGED vars
    BY <2>6 DEF vars
  <2>7. QED
    BY <2>1, <2>2, <2>3, <2>4, <2>5, <2>6 DEF Next
<1>3. QED
  BY <1>1, <1>2, TypeCorrect, PTL DEF Spec

\* The copies of a feature's placement agree on a board written by the clients.
THEOREM PlacementsAgree == ASSUME ~AnyBody PROVE Spec => []PlacementAgrees
<1>1. Spec => [](/\ ReferencesResolve
                 /\ PlacementAgrees
                 /\ GroupsFollowTheirFeature
                 /\ GroupsHoldOwnStories
                 /\ ImplicitGroupsHoldOnlyTheirStory)
  BY BoardStaysConsistent
<1>2. QED
  BY <1>1, PTL

\* A group stays a part of one card, whatever sequence of requests the clients send.
THEOREM GroupsStayWhole == ASSUME ~AnyBody PROVE Spec => []GroupsAreWhole
<1>1. Spec => [](/\ ReferencesResolve
                 /\ PlacementAgrees
                 /\ GroupsFollowTheirFeature
                 /\ GroupsHoldOwnStories
                 /\ ImplicitGroupsHoldOnlyTheirStory)
  BY BoardStaysConsistent
<1>2. /\ GroupsFollowTheirFeature
      /\ GroupsHoldOwnStories
      /\ ImplicitGroupsHoldOnlyTheirStory
      => GroupsAreWhole
  BY DEF GroupsAreWhole
<1>3. QED
  BY <1>1, <1>2, PTL

-----------------------------------------------------------------------------
\* Whatever the request body, a story disappears only on its own deletion or
\* with its feature; regrouping, moving, splitting and removing lanes or PIs
\* keep it.
THEOREM WorkSurvives == Spec => WorkIsNotLost
<1> DEFINE Kept == \A s \in DOMAIN story \ DOMAIN story' :
                     \/ DOMAIN story \ DOMAIN story' = {s} /\ feature' = feature
                     \/ story[s].feature \notin DOMAIN feature'
<1>1. [Next]_vars => Kept
  <2> SUFFICES ASSUME [Next]_vars PROVE Kept
    OBVIOUS
  <2> USE DEF Insert, Delete, Restrict, Ungrouped
  <2>1. CASE PiOrLaneStep
    BY <2>1 DEF PiOrLaneStep, CreatePi, UpdatePiState, DeletePi, CreateSwimline, DeleteSwimline
  <2>2. CASE FeatureStep
    <3>1. ASSUME NEW f \in DOMAIN feature, DeleteFeature(f) PROVE Kept
      BY <3>1 DEF DeleteFeature, StoriesOf
    <3>2. CASE ClearBacklog
      BY <3>2 DEF ClearBacklog, StoriesOf
    <3>3. CASE ClearAllFeatures
      BY <3>3 DEF ClearAllFeatures
    <3>4. ASSUME NEW f \in DOMAIN feature, CancelContinuation(f) PROVE Kept
      BY <3>4 DEF CancelContinuation
    <3>5. QED
      BY <2>2, <3>1, <3>2, <3>3, <3>4 DEF FeatureStep, CreateFeature, UpdateToSwimlane,
         MoveToBacklog, UpdateLocationFields, SplitOff, SplitAll
  <2>3. CASE StoryStep
    <3>1. ASSUME NEW s \in DOMAIN story, DeletePbi(s) PROVE Kept
      BY <3>1 DEF DeletePbi
    <3>2. ASSUME NEW s \in DOMAIN story, UnplaceStory(s) PROVE Kept
      BY <3>2 DEF UnplaceStory
    <3>3. QED
      BY <2>3, <3>1, <3>2 DEF StoryStep, CreatePbi, UpdatePbiGroup, PlaceStoryInSprint
  <2>4. CASE GroupStep
    BY <2>4 DEF GroupStep, CreateGroup, RenameGroup, DeleteGroup
  <2>5. CASE ImportStep
    BY <2>5 DEF ImportStep, PlaceFeature, UnplaceFeatureStories, PlaceStory,
                PlaceStoryOutside, Reparent
  <2>6. CASE UNCHANGED vars
    BY <2>6 DEF vars
  <2>7. QED
    BY <2>1, <2>2, <2>3, <2>4, <2>5, <2>6 DEF Next
<1>2. [Next]_vars => [Kept]_vars
  BY <1>1
<1>3. QED
  BY <1>2, PTL DEF Spec, WorkIsNotLost
-----------------------------------------------------------------------------
\* What continues a feature of a lineage belongs to the lineage.
LEMMA LineageIsClosed ==
  ASSUME NEW f, NEW n \in DOMAIN feature, feature[n].origin \in Lineage(f)
  PROVE  n \in Lineage(f)
<1>1. CASE feature[n].origin = f
  <2>1. /\ n \in {n} /\ {n} \in SUBSET DOMAIN feature
        /\ \A x \in {n} : feature[x].origin \in {n} \cup {f}
    BY <1>1
  <2>2. Descends(n, f)
    BY <2>1 DEF Descends
  <2>3. QED
    BY <2>2 DEF Lineage
<1>2. CASE feature[n].origin # f
  <2>1. PICK chain \in SUBSET DOMAIN feature :
          /\ feature[n].origin \in chain
          /\ \A x \in chain : feature[x].origin \in chain \cup {f}
    BY <1>2 DEF Lineage, Descends
  <2>2. /\ n \in chain \cup {n} /\ chain \cup {n} \in SUBSET DOMAIN feature
        /\ \A x \in chain \cup {n} : feature[x].origin \in (chain \cup {n}) \cup {f}
    BY <2>1
  <2>3. Descends(n, f)
    BY <2>2 DEF Descends
  <2>4. QED
    BY <2>3 DEF Lineage
<1>3. QED
  BY <1>1, <1>2

\* Whatever the request body, no step but a clearing of the backlog leaves a
\* continuation behind without its origin.
THEOREM OnlyClearingOrphans == Spec => OnlyClearBacklogOrphans
<1> DEFINE Orphaned(f) == feature'[f].origin \in DOMAIN feature \ DOMAIN feature'
           Followed == \A f \in DOMAIN feature' :
                         Orphaned(f) => feature[feature'[f].origin].location = "backlog" /\ feature[f].location = "pi"
<1>1. TypeOK /\ [Next]_vars => Followed
  <2> SUFFICES ASSUME TypeOK, [Next]_vars PROVE Followed
    OBVIOUS
  <2>1. CASE DOMAIN feature \subseteq DOMAIN feature'
    BY <2>1
  <2> USE DEF Insert, Delete, Restrict
  <2>2. CASE PiOrLaneStep
    BY <2>1, <2>2 DEF PiOrLaneStep, CreatePi, UpdatePiState, DeletePi, CreateSwimline, DeleteSwimline, ToBacklog
  <2>3. CASE FeatureStep
    <3>1. ASSUME NEW f \in DOMAIN feature, DeleteFeature(f) PROVE Followed
      <4>1. /\ DOMAIN feature' = DOMAIN feature \ Lineage(f)
            /\ \A n \in DOMAIN feature' : feature'[n] = feature[n]
        BY <3>1 DEF DeleteFeature
      <4>2. QED
        BY <4>1, LineageIsClosed
    <3>2. CASE ClearBacklog
      <4>1. /\ DOMAIN feature' = DOMAIN feature \ {f \in DOMAIN feature : feature[f].location = "backlog"}
            /\ \A f \in DOMAIN feature' : feature'[f] = feature[f]
        BY <3>2 DEF ClearBacklog
      <4>2. \A f \in DOMAIN feature : feature[f].location \in {"backlog", "pi"}
        <5>1. feature \in [DOMAIN feature -> FeatureRow]
          BY TableElim DEF TypeOK
        <5>2. QED
          BY <5>1 DEF FeatureRow
      <4>3. QED
        BY <4>1, <4>2
    <3>3. CASE ClearAllFeatures
      BY <3>3 DEF ClearAllFeatures
    <3>4. ASSUME NEW f \in DOMAIN feature, CancelContinuation(f) PROVE Followed
      BY <3>4 DEF CancelContinuation
    <3>5. QED
      BY <2>1, <2>3, <3>1, <3>2, <3>3, <3>4 DEF FeatureStep, CreateFeature, UpdateToSwimlane, MoveToSwimlane,
         MoveToBacklog, ToBacklog, UpdateLocationFields, SplitOff, SplitAll
  <2>4. CASE StoryStep
    BY <2>1, <2>4 DEF StoryStep, CreatePbi, UpdatePbiGroup, PlaceStoryInSprint, UnplaceStory, DeletePbi
  <2>5. CASE GroupStep
    BY <2>1, <2>5 DEF GroupStep, CreateGroup, RenameGroup, DeleteGroup
  <2>6. CASE ImportStep
    BY <2>1, <2>6 DEF ImportStep, PlaceFeature, PlaceStory, PlaceStoryOutside, Reparent
  <2>7. CASE UNCHANGED vars
    BY <2>1, <2>7 DEF vars
  <2>8. QED
    BY <2>2, <2>3, <2>4, <2>5, <2>6, <2>7 DEF Next
<1>2. TypeOK /\ [Next]_vars => [Followed]_vars
  BY <1>1
<1>3. QED
  BY <1>2, TypeCorrect, PTL DEF Spec, OnlyClearBacklogOrphans
=============================================================================
