-------------------------- MODULE Capacity_proofs --------------------------
(***************************************************************************)
(* How a team's capacity reaches its sprints (TeamPush), for any number of *)
(* requests, projects, sprints and levels, and what the pages show of it   *)
(* (TeamFigures), for any teams that satisfy the schemas (TeamsAssumption),*)
(* any windows and any number of sprints, members, projects and rules.     *)
(***************************************************************************)
EXTENDS TeamPush, TeamFigures, FiniteSetTheorems, TLAPS

-----------------------------------------------------------------------------
(* THE PUSH                                                                *)
(*                                                                         *)
(* The inductive invariant says what a request that nobody overtook still  *)
(* knows: the rows it loaded and the conditions it found.                  *)


\* Sources, locks, level and rows are still what a fresh push found.
PushIsFresh ==
  \A c \in Clients :
    request[c].op = "push" /\ ~request[c].overtaken =>
      /\ \A p \in request[c].factor : source[p] = "factor"
      /\ request[c].at # "between" =>
           /\ request[c].project \in request[c].factor
           /\ request[c].project \notin locked
           /\ request[c].by = level
           /\ request[c].moved = Moved(request[c].project)
      /\ request[c].at = "loaded" => request[c].was = value[request[c].first]

\* The sprint is still what a fresh hand-typed value is about to replace.
TypingIsFresh ==
  \A c \in Clients :
    request[c].op = "type" /\ ~request[c].overtaken =>
      /\ request[c].was = value[request[c].sprint]
      /\ request[c].stamped <=> request[c].sprint \in pushed

IInv == TypeOK /\ PushIsFresh /\ TypingIsFresh

-----------------------------------------------------------------------------
(* The fields a request has, by its kind. *)
LEMMA RequestKinds ==
  ASSUME NEW r \in Requests
  PROVE  /\ r.op \in {"idle", "push", "type"}
         /\ r.op = "idle" <=> r = Idle
         /\ r.op = "type" <=> r \in Typing
         /\ r.op = "push" => /\ r.at \in {"between", "computed", "loaded"}
                             /\ r.at = "between" <=> r \in Between
                             /\ r.at = "computed" <=> r \in Computed
                             /\ r.at = "loaded" <=> r \in Loaded
BY DEF Requests, Idle, Between, Computed, Loaded, Typing

LEMMA OnlyOneKind ==
  /\ (Between \cup Computed) \cap (Loaded \cup Typing) = {}
  /\ Loaded \cap Typing = {}
BY DEF Between, Computed, Loaded, Typing

(* What a request is does not change by being overtaken. *)
LEMMA OvertakeKeeps ==
  ASSUME NEW r \in Requests
  PROVE  /\ Overtake(r) \in Requests
         /\ Overtake(r).op = r.op
         /\ r.op # "idle" => Overtake(r).overtaken
         /\ r \in Loaded => Overtake(r) \in Loaded
         /\ r \in Typing => Overtake(r) \in Typing
<1>1. CASE r = Idle
  BY <1>1 DEF Overtake, Idle, Requests, Loaded, Typing
<1>2. CASE r \in Between
  <2> DEFINE o == [r EXCEPT !.overtaken = TRUE]
  <2>1. r.op = "push" /\ r # Idle
    BY <1>2 DEF Between, Idle
  <2>2. o \in Between /\ o.op = r.op /\ o.overtaken
    BY <1>2 DEF Between
  <2>3. Overtake(r) = o
    BY <2>1 DEF Overtake
  <2> HIDE DEF o
  <2> QED BY <1>2, <2>1, <2>2, <2>3, OnlyOneKind DEF Requests
<1>3. CASE r \in Computed
  <2> DEFINE o == [r EXCEPT !.overtaken = TRUE]
  <2>1. r.op = "push" /\ r # Idle
    BY <1>3 DEF Computed, Idle
  <2>2. o \in Computed /\ o.op = r.op /\ o.overtaken
    BY <1>3 DEF Computed
  <2>3. Overtake(r) = o
    BY <2>1 DEF Overtake
  <2> HIDE DEF o
  <2> QED BY <1>3, <2>1, <2>2, <2>3, OnlyOneKind DEF Requests
<1>4. CASE r \in Loaded
  <2> DEFINE o == [r EXCEPT !.overtaken = TRUE]
  <2>1. r.op = "push" /\ r # Idle
    BY <1>4 DEF Loaded, Idle
  <2>2. o \in Loaded /\ o.op = r.op /\ o.overtaken
    BY <1>4 DEF Loaded
  <2>3. Overtake(r) = o
    BY <2>1 DEF Overtake
  <2> HIDE DEF o
  <2> QED BY <1>4, <2>1, <2>2, <2>3, OnlyOneKind DEF Requests
<1>5. CASE r \in Typing
  <2> DEFINE o == [r EXCEPT !.overtaken = TRUE]
  <2>1. r.op = "type" /\ r # Idle
    BY <1>5 DEF Typing, Idle
  <2>2. o \in Typing /\ o.op = r.op /\ o.overtaken
    BY <1>5 DEF Typing
  <2>3. Overtake(r) = o
    BY <2>1 DEF Overtake
  <2> HIDE DEF o
  <2> QED BY <1>5, <2>1, <2>2, <2>3, OnlyOneKind DEF Requests
<1> QED BY <1>1, <1>2, <1>3, <1>4, <1>5 DEF Requests

LEMMA RestKind ==
  ASSUME NEW todo \in SUBSET Projects, NEW factor \in SUBSET Projects,
         NEW overtaken \in BOOLEAN
  PROVE  /\ Rest(todo, factor, overtaken) \in {Idle} \cup Between
         /\ Rest(todo, factor, overtaken) \in Requests
         /\ Rest(todo, factor, overtaken).op = "push" =>
              /\ Rest(todo, factor, overtaken).at = "between"
              /\ Rest(todo, factor, overtaken).factor = factor
              /\ Rest(todo, factor, overtaken).overtaken = overtaken
BY DEF Rest, Requests, Idle, Between

(* Idle requests and overtaken ones claim nothing. *)
LEMMA NothingClaimed ==
  ASSUME request' \in [Clients -> Requests],
         \A c \in Clients : request'[c].op # "idle" => request'[c].overtaken
  PROVE  PushIsFresh' /\ TypingIsFresh'
BY RequestKinds DEF PushIsFresh, TypingIsFresh

(* A step that reads: one request changes and nothing else. *)
LEMMA ReadStep ==
  ASSUME IInv, UNCHANGED <<rowVars, outside>>, NEW c \in Clients, NEW r \in Requests,
         GoesOn(c, r),
         r.op = "push" /\ ~r.overtaken =>
           /\ \A p \in r.factor : source[p] = "factor"
           /\ r.at # "between" =>
                /\ r.project \in r.factor
                /\ r.project \notin locked
                /\ r.by = level
                /\ r.moved = Moved(r.project)
           /\ r.at = "loaded" => r.was = value[r.first],
         r.op = "type" /\ ~r.overtaken =>
           /\ r.was = value[r.sprint]
           /\ r.stamped <=> r.sprint \in pushed
  PROVE  IInv'
<1> USE DEF IInv, rowVars, outside
<1>1. request' \in [Clients -> Requests]
  BY DEF GoesOn, TypeOK
<1>2. TypeOK'
  BY <1>1 DEF TypeOK
<1>3. \A d \in Clients : request'[d] = IF d = c THEN r ELSE request[d]
  BY DEF GoesOn, TypeOK
<1>4. \A p : Moved(p)' = Moved(p)
  BY DEF Moved
<1>5. PushIsFresh'
  BY <1>3, <1>4 DEF PushIsFresh
<1>6. TypingIsFresh'
  BY <1>3 DEF TypingIsFresh
<1> QED BY <1>2, <1>5, <1>6

(* A step that writes: everybody else is overtaken. *)
LEMMA WriteStep ==
  ASSUME TypeOK, NEW c \in Clients, NEW r \in {Idle} \cup Between, Written(c, r),
         r.op # "idle" => r.factor = request[c].factor /\ r.overtaken = request[c].overtaken,
         r.op # "idle" => request[c].op = "push",
         UNCHANGED outside, PushIsFresh
  PROVE  /\ request' \in [Clients -> Requests]
         /\ PushIsFresh' /\ TypingIsFresh'
         /\ \A d \in Clients : request[d] \in Loaded \cup Typing /\ d # c
                                 => request'[d] \in Loaded \cup Typing
<1>1. r \in Requests
  BY DEF Requests
<1>2. \A d \in Clients : request'[d] = IF d = c THEN r ELSE Overtake(request[d])
  BY DEF Written
<1>3. \A d \in Clients : request[d] \in Requests
  BY DEF TypeOK
<1>4. request' \in [Clients -> Requests]
  BY <1>1, <1>2, <1>3, OvertakeKeeps DEF Written
<1>5. \A d \in Clients : d # c /\ request'[d].op # "idle" => request'[d].overtaken
  BY <1>2, <1>3, OvertakeKeeps
<1>6. r.op # "type" /\ (r.op # "idle" => r.op = "push" /\ r.at = "between")
  BY DEF Idle, Between
<1>7. PushIsFresh'
  <2> SUFFICES ASSUME NEW d \in Clients, request'[d].op = "push", ~request'[d].overtaken
               PROVE  /\ \A p \in request'[d].factor : source'[p] = "factor"
                      /\ request'[d].at = "between"
    BY DEF PushIsFresh
  <2>1. d = c /\ request'[d] = r
    BY <1>2, <1>5
  <2> QED BY <2>1, <1>6 DEF PushIsFresh, outside
<1>8. TypingIsFresh'
  BY <1>2, <1>5, <1>6, <1>4, RequestKinds DEF TypingIsFresh
<1>9. \A d \in Clients : request[d] \in Loaded \cup Typing /\ d # c
                           => request'[d] \in Loaded \cup Typing
  BY <1>2, <1>3, OvertakeKeeps
<1> QED BY <1>4, <1>7, <1>8, <1>9

-----------------------------------------------------------------------------
(* The steps. *)
LEMMA ComputeRequest ==
  ASSUME IInv, NEW todo \in SUBSET Projects, NEW factor \in SUBSET Projects,
         NEW overtaken \in BOOLEAN, NEW p \in Projects
  PROVE  [op |-> "push", at |-> "computed", todo |-> todo, factor |-> factor,
          overtaken |-> overtaken, project |-> p, moved |-> Moved(p), by |-> level]
           \in Requests
<1>1. Moved(p) \subseteq Sprints
  BY DatedSprintsAssumption DEF Moved
<1> QED BY <1>1 DEF IInv, TypeOK, Requests, Computed

LEMMA ApplyComputeStep ==
  ASSUME IInv, NEW c \in Clients, NEW p \in Projects, ApplyCompute(c, p)
  PROVE  IInv'
<1> DEFINE r == [op |-> "push", at |-> "computed", todo |-> {}, factor |-> {p},
                 overtaken |-> FALSE, project |-> p, moved |-> Moved(p), by |-> level]
<1>1. r \in Requests
  BY ComputeRequest
<1>2. /\ \A q \in r.factor : source[q] = "factor"
      /\ r.project \in r.factor /\ r.project \notin locked
      /\ r.by = level /\ r.moved = Moved(r.project)
      /\ r.at = "computed" /\ r.op = "push"
  BY DEF ApplyCompute
<1>3. GoesOn(c, r) /\ UNCHANGED <<rowVars, outside>>
  BY DEF ApplyCompute
<1> HIDE DEF r
<1> QED BY <1>1, <1>2, <1>3, ReadStep

LEMMA PushTeamStep ==
  ASSUME IInv, NEW c \in Clients, PushTeam(c)
  PROVE  IInv'
<1> DEFINE served == {p \in Projects : source[p] # "none"}
           factor == {p \in served : source[p] = "factor"}
           r == Rest(served, factor, FALSE)
<1>1. GoesOn(c, r) /\ UNCHANGED <<rowVars, outside>>
  BY DEF PushTeam
<1>2. /\ served \in SUBSET Projects /\ factor \in SUBSET Projects /\ FALSE \in BOOLEAN
      /\ \A q \in factor : source[q] = "factor"
  OBVIOUS
<1> HIDE DEF served, factor
<1>3. r \in Requests
  BY <1>2, RestKind
<1>4. r.op = "push" => r.at = "between" /\ \A q \in r.factor : source[q] = "factor"
  BY <1>2, RestKind
<1>5. r \in {Idle} \cup Between
  BY <1>2, RestKind
<1> HIDE DEF r
<1>6. r.op # "type"
  BY <1>5 DEF Idle, Between
<1> QED BY <1>1, <1>3, <1>4, <1>6, ReadStep

LEMMA PushOneComputeStep ==
  ASSUME IInv, NEW c \in Clients, NEW p \in Projects, PushOneCompute(c, p)
  PROVE  IInv'
<1> DEFINE q == request[c]
           todo == q.todo \ {p}
           r == [op |-> "push", at |-> "computed", todo |-> todo, factor |-> q.factor,
                 overtaken |-> q.overtaken, project |-> p, moved |-> Moved(p), by |-> level]
           s == Rest(todo, q.factor, q.overtaken)
<1>1. q \in Between
  BY RequestKinds DEF PushOneCompute, IInv, TypeOK
<1>2. todo \in SUBSET Projects /\ q.factor \in SUBSET Projects /\ q.overtaken \in BOOLEAN
  BY <1>1 DEF Between
<1>3. ~q.overtaken => \A x \in q.factor : source[x] = "factor"
  BY DEF PushOneCompute, IInv, PushIsFresh
<1>4. UNCHANGED <<rowVars, outside>>
  BY DEF PushOneCompute
<1>5. CASE Pushable(q, p) /\ GoesOn(c, r)
  <2>1. r \in Requests
    BY <1>2, ComputeRequest
  <2>2. /\ ~r.overtaken => \A x \in r.factor : source[x] = "factor"
        /\ r.project \in r.factor /\ r.project \notin locked
        /\ r.by = level /\ r.moved = Moved(r.project)
        /\ r.at = "computed" /\ r.op = "push"
    BY <1>3, <1>5 DEF Pushable
  <2> HIDE DEF r
  <2> QED BY <1>4, <1>5, <2>1, <2>2, ReadStep
<1>6. CASE GoesOn(c, s)
  <2> HIDE DEF todo
  <2>1. s \in Requests
    BY <1>2, RestKind
  <2>2. s.op = "push" =>
          s.at = "between" /\ (~s.overtaken => \A x \in s.factor : source[x] = "factor")
    BY <1>2, <1>3, RestKind
  <2>3. s.op # "type"
    BY <1>2, RestKind DEF Idle, Between
  <2> HIDE DEF s
  <2> QED BY <1>4, <1>6, <2>1, <2>2, <2>3, ReadStep
<1> QED BY <1>5, <1>6 DEF PushOneCompute

LEMMA ApplyLoadStep ==
  ASSUME IInv, NEW c \in Clients, NEW s \in Sprints, ApplyLoad(c, s)
  PROVE  IInv'
<1> DEFINE q == request[c]
           r == [op |-> "push", at |-> "loaded", todo |-> q.todo, factor |-> q.factor,
                 overtaken |-> q.overtaken, project |-> q.project, moved |-> q.moved,
                 by |-> q.by, first |-> s, was |-> value[s]]
<1>1. q \in Computed /\ q.op = "push" /\ q.at = "computed"
  BY RequestKinds DEF ApplyLoad, IInv, TypeOK
<1>2. r \in Requests
  BY <1>1 DEF Computed, Loaded, Requests, IInv, TypeOK
<1>3. ~q.overtaken => /\ \A x \in q.factor : source[x] = "factor"
                      /\ q.project \in q.factor /\ q.project \notin locked
                      /\ q.by = level /\ q.moved = Moved(q.project)
  BY <1>1 DEF IInv, PushIsFresh
<1>4. GoesOn(c, r) /\ UNCHANGED <<rowVars, outside>>
  BY DEF ApplyLoad
<1>5. /\ r.op = "push" /\ r.overtaken = q.overtaken /\ r.factor = q.factor
      /\ r.project = q.project /\ r.by = q.by /\ r.moved = q.moved
      /\ r.was = value[r.first]
  OBVIOUS
<1> HIDE DEF r, q
<1> QED BY <1>2, <1>3, <1>4, <1>5, ReadStep

LEMMA TypeLoadStep ==
  ASSUME IInv, NEW c \in Clients, NEW s \in Sprints, NEW v \in Typed, TypeLoad(c, s, v)
  PROVE  IInv'
<1> DEFINE r == [op |-> "type", sprint |-> s, to |-> v, was |-> value[s],
                 stamped |-> s \in pushed, overtaken |-> FALSE]
<1>1. r \in Requests
  BY DEF Requests, Typing, IInv, TypeOK
<1>2. /\ r.op = "type" /\ r.was = value[r.sprint]
      /\ r.stamped <=> r.sprint \in pushed
  OBVIOUS
<1>3. GoesOn(c, r) /\ UNCHANGED <<rowVars, outside>>
  BY DEF TypeLoad
<1> HIDE DEF r
<1> QED BY <1>1, <1>2, <1>3, ReadStep

LEMMA ApplyCommitStep ==
  ASSUME IInv, NEW c \in Clients, ApplyCommit(c)
  PROVE  IInv'
<1> DEFINE q == request[c]
           r == Rest(q.todo, q.factor, q.overtaken)
<1>1. q \in Loaded
  BY RequestKinds DEF ApplyCommit, IInv, TypeOK
<1>2. q.todo \in SUBSET Projects /\ q.factor \in SUBSET Projects /\ q.overtaken \in BOOLEAN
  BY <1>1 DEF Loaded
<1>3. \A s \in q.moved : Applied(q, s) \in Values
  BY <1>1 DEF Applied, Loaded, Values, IInv, TypeOK
<1>4. value' \in [Sprints -> Values] /\ pushed' \subseteq Sprints
  BY <1>1, <1>3 DEF ApplyCommit, Loaded, IInv, TypeOK
<1>5. r \in {Idle} \cup Between
  BY <1>2, RestKind
<1>6. r.op # "idle" => r.factor = q.factor /\ r.overtaken = q.overtaken
  BY <1>2, RestKind DEF Idle, Between
<1>7. Written(c, r) /\ UNCHANGED outside /\ q.op = "push"
  BY DEF ApplyCommit
<1>8. request' \in [Clients -> Requests] /\ PushIsFresh' /\ TypingIsFresh'
  BY <1>5, <1>6, <1>7, WriteStep DEF IInv
<1> QED BY <1>4, <1>7, <1>8 DEF IInv, TypeOK, outside

LEMMA TypeCommitStep ==
  ASSUME IInv, NEW c \in Clients, TypeCommit(c)
  PROVE  IInv'
<1> DEFINE q == request[c]
<1>1. q \in Typing
  BY RequestKinds DEF TypeCommit, IInv, TypeOK
<1>2. value' \in [Sprints -> Values] /\ pushed' \subseteq Sprints
  BY <1>1 DEF TypeCommit, Typing, Values, IInv, TypeOK
<1>3. request' \in [Clients -> Requests] /\ PushIsFresh' /\ TypingIsFresh'
  BY WriteStep DEF TypeCommit, IInv, Idle
<1> QED BY <1>2, <1>3 DEF IInv, TypeOK, outside, TypeCommit

LEMMA ChangeStep ==
  ASSUME IInv, Change
  PROVE  /\ UNCHANGED rowVars
         /\ changes' \in 0..MaxChanges
         /\ request' \in [Clients -> Requests]
         /\ PushIsFresh' /\ TypingIsFresh'
<1>1. \A d \in Clients : request'[d] = Overtake(request[d]) /\ request[d] \in Requests
  BY DEF Change, IInv, TypeOK
<1>2. request' \in [Clients -> Requests]
  BY <1>1, OvertakeKeeps DEF Change
<1>3. \A d \in Clients : request'[d].op # "idle" => request'[d].overtaken
  BY <1>1, OvertakeKeeps
<1>4. changes' \in 0..MaxChanges
  BY MaxChangesAssumption DEF Change, IInv, TypeOK
<1> QED BY <1>2, <1>3, <1>4, NothingClaimed DEF Change

LEMMA OutsideStep ==
  ASSUME IInv,
         \/ \E p \in Projects : SetLock(p) \/ \E v \in Sources : SetSource(p, v)
         \/ \E i \in Pis : SetState(i)
         \/ \E l \in Levels : EditTeam(l)
  PROVE  IInv'
<1>1. Change
  BY DEF SetLock, SetSource, SetState, EditTeam
<1>2. CASE \E p \in Projects : SetLock(p)
  BY <1>1, <1>2, ChangeStep DEF SetLock, IInv, TypeOK, rowVars
<1>3. CASE \E p \in Projects, v \in Sources : SetSource(p, v)
  BY <1>1, <1>3, ChangeStep DEF SetSource, IInv, TypeOK, rowVars
<1>4. CASE \E i \in Pis : SetState(i)
  BY <1>1, <1>4, ChangeStep DEF SetState, IInv, TypeOK, rowVars
<1>5. CASE \E l \in Levels : EditTeam(l)
  BY <1>1, <1>5, ChangeStep DEF EditTeam, IInv, TypeOK, rowVars
<1> QED BY <1>2, <1>3, <1>4, <1>5

LEMMA StopStep ==
  ASSUME IInv, Stop
  PROVE  IInv'
<1>1. request' \in [Clients -> Requests]
  BY DEF Stop, Requests
<1>2. \A d \in Clients : request'[d].op = "idle"
  BY DEF Stop, Idle
<1>3. PushIsFresh' /\ TypingIsFresh'
  BY <1>1, <1>2, NothingClaimed
<1> QED BY <1>1, <1>3 DEF Stop, IInv, TypeOK, rowVars, outside

-----------------------------------------------------------------------------
LEMMA InitInv == PushInit => IInv
<1> SUFFICES ASSUME PushInit PROVE IInv
  OBVIOUS
<1>1. \A c \in Clients : request[c].op = "idle"
  BY DEF PushInit, Idle
<1>2. PushIsFresh /\ TypingIsFresh
  BY <1>1 DEF PushIsFresh, TypingIsFresh
<1>3. TypeOK
  BY MaxChangesAssumption DEF PushInit, TypeOK, Sources, Values, Requests
<1> QED BY <1>2, <1>3 DEF IInv

LEMMA NextInv == IInv /\ [PushNext]_pushVars => IInv'
<1> SUFFICES ASSUME IInv, [PushNext]_pushVars PROVE IInv'
  OBVIOUS
<1>1. CASE UNCHANGED pushVars
  <2>1. \A p : Moved(p)' = Moved(p)
    BY <1>1 DEF pushVars, rowVars, outside, Moved
  <2>2. TypeOK'
    BY <1>1 DEF IInv, pushVars, rowVars, outside, TypeOK
  <2>3. PushIsFresh'
    BY <1>1, <2>1 DEF IInv, pushVars, rowVars, outside, PushIsFresh
  <2>4. TypingIsFresh'
    BY <1>1 DEF IInv, pushVars, rowVars, outside, TypingIsFresh
  <2> QED BY <2>2, <2>3, <2>4 DEF IInv
<1>2. CASE PushNext
  BY <1>2, ApplyComputeStep, PushOneComputeStep, PushTeamStep, ApplyLoadStep,
     ApplyCommitStep, TypeLoadStep, TypeCommitStep, OutsideStep, StopStep DEF PushNext
<1> QED BY <1>1, <1>2

LEMMA Inductive == PushSpec => []IInv
BY InitInv, NextInv, PTL DEF PushSpec

(* Rows, requests and what surrounds them keep their types, whatever is    *)
(* under way (update_sprint, push_one, apply_rows).                        *)
THEOREM TypeCorrect == PushSpec => []TypeOK
<1>1. IInv => TypeOK
  BY DEF IInv
<1> QED BY <1>1, Inductive, PTL

-----------------------------------------------------------------------------
(* Only the commit of a push or of a hand-typed value writes rows, and the *)
(* request that is done with its rows is the one that wrote them.          *)
LEMMA WhoCommits ==
  ASSUME IInv, [PushNext]_pushVars, NEW c \in Clients, Commits(c)
  PROVE  ApplyCommit(c) \/ TypeCommit(c)
<1>1. \E d \in Clients : ApplyCommit(d) \/ TypeCommit(d)
  BY DEF PushNext, pushVars, Commits, ApplyCompute, PushOneCompute, PushTeam, ApplyLoad, TypeLoad,
         SetLock, SetSource, SetState, EditTeam, Stop, Change
<1>2. PICK d \in Clients : ApplyCommit(d) \/ TypeCommit(d)
  BY <1>1
<1>3. \A e \in Clients : e # d => request'[e] = Overtake(request[e]) /\ request[e] \in Requests
  BY <1>2 DEF ApplyCommit, TypeCommit, Written, IInv, TypeOK
<1>4. c = d
  BY <1>3, OvertakeKeeps DEF Commits
<1> QED BY <1>2, <1>4

(* What the commit of a push that nobody overtook leaves behind. *)
LEMMA FreshPushWrites ==
  ASSUME IInv, NEW c \in Clients, ApplyCommit(c), ~request[c].overtaken
  PROVE  /\ request[c].project \in Projects
         /\ request[c].project \notin locked
         /\ source[request[c].project] = "factor"
         /\ \A s \in Sprints :
              value'[s] = IF s \in Moved(request[c].project) THEN Worth[s][level] ELSE value[s]
         /\ pushed' = pushed \cup Moved(request[c].project)
<1> DEFINE q == request[c]
<1>1. q \in Loaded
  BY RequestKinds DEF ApplyCommit, IInv, TypeOK
<1>2. /\ q.moved = Moved(q.project) /\ q.by = level /\ q.was = value[q.first]
      /\ q.project \notin locked /\ source[q.project] = "factor"
  BY DEF ApplyCommit, IInv, PushIsFresh
<1>3. \A s \in q.moved : Applied(q, s) = Worth[s][level]
  BY <1>2 DEF Applied, Moved
<1>4. q.project \in Projects
  BY <1>1 DEF Loaded
<1> QED BY <1>2, <1>3, <1>4 DEF ApplyCommit

(* A push that nobody overtook leaves no sprint of its project that        *)
(* status_for would count as different from the team.                      *)
THEOREM NothingStale == PushSpec => PushLeavesNothingStale
<1>1. ASSUME IInv, [PushNext]_pushVars, NEW c \in Clients, NEW p \in Projects,
             Commits(c), request[c].op = "push", ~request[c].overtaken,
             request[c].project = p
      PROVE  Moved(p)' = {}
  <2>1. ApplyCommit(c)
    BY <1>1, WhoCommits DEF TypeCommit
  <2>2. \A s \in Sprints : value'[s] = IF s \in Moved(p) THEN Worth[s][level] ELSE value[s]
    BY <1>1, <2>1, FreshPushWrites
  <2>3. level' = level /\ closed' = closed
    BY <2>1 DEF ApplyCommit, outside
  <2> QED BY <2>2, <2>3, DatedSprintsAssumption DEF Moved
<1>2. IInv /\ [PushNext]_pushVars =>
        \A c \in Clients, p \in Projects :
          Commits(c) /\ request[c].op = "push" /\ ~request[c].overtaken
            => (request[c].project = p => Moved(p)' = {})
  BY <1>1
<1> QED BY <1>2, Inductive, PTL DEF PushSpec, PushLeavesNothingStale

(* A push that nobody overtook writes sprints of open PIs of projects that *)
(* derive their values and that nobody else is editing.                    *)
THEOREM WritesOnlyWhatItMay == PushSpec => PushWritesOnlyWhatItMay
<1>1. ASSUME IInv, [PushNext]_pushVars, NEW c \in Clients,
             Commits(c), request[c].op = "push", ~request[c].overtaken,
             NEW s \in Sprints, value'[s] # value[s]
      PROVE  /\ source[ProjectOf(s)] = "factor"
             /\ PiOf[s] \notin closed
             /\ ProjectOf(s) \notin locked
  <2>1. ApplyCommit(c)
    BY <1>1, WhoCommits DEF TypeCommit
  <2>2. s \in Moved(request[c].project)
    BY <1>1, <2>1, FreshPushWrites
  <2> QED BY <1>1, <2>1, <2>2, FreshPushWrites DEF Moved
<1>2. IInv /\ [PushNext]_pushVars =>
        \A c \in Clients :
          Commits(c) /\ request[c].op = "push" /\ ~request[c].overtaken
            => \A s \in Sprints :
                 value'[s] # value[s]
                   => /\ source[ProjectOf(s)] = "factor"
                      /\ PiOf[s] \notin closed
                      /\ ProjectOf(s) \notin locked
  BY <1>1
<1> QED BY <1>2, Inductive, PTL DEF PushSpec, PushWritesOnlyWhatItMay

(* While nobody is overtaken, the stamp of a sprint tells a derived value  *)
(* from a hand-typed one after every step.                                 *)
THEOREM StampsStayTrue == PushSpec => OnlyOvertakenRequestsMisstamp
<1>1. ASSUME IInv, [PushNext]_pushVars, StampTellsTheSource,
             ~\E c \in Clients : Commits(c) /\ request[c].overtaken
      PROVE  StampTellsTheSource'
  <2>1. CASE UNCHANGED rowVars
    BY <1>1, <2>1 DEF StampTellsTheSource, rowVars
  <2>2. ASSUME NEW c \in Clients, ApplyCommit(c), ~request[c].overtaken
        PROVE  StampTellsTheSource'
    <3>1. \A s \in Sprints : Worth[s][level] \notin Typed
      BY <1>1, TypedAssumption DEF IInv, TypeOK
    <3> QED BY <1>1, <2>2, <3>1, FreshPushWrites DEF StampTellsTheSource
  <2>3. ASSUME NEW c \in Clients, TypeCommit(c), ~request[c].overtaken
        PROVE  StampTellsTheSource'
    <3> DEFINE q == request[c]
    <3>1. q \in Typing
      BY <1>1, <2>3, RequestKinds DEF TypeCommit, IInv, TypeOK
    <3>2. q.was = value[q.sprint] /\ (q.stamped <=> q.sprint \in pushed)
      BY <1>1, <2>3 DEF TypeCommit, IInv, TypingIsFresh
    <3>3. /\ q.sprint \in Sprints /\ q.to \in Typed
          /\ value' = [value EXCEPT ![q.sprint] = q.to]
      BY <1>1, <2>3, <3>1, <3>2 DEF TypeCommit, Typing, IInv, TypeOK
    <3>4. pushed' = pushed \ {q.sprint}
      BY <2>3, <3>2 DEF TypeCommit
    <3> HIDE DEF q
    <3> QED BY <1>1, <3>3, <3>4 DEF StampTellsTheSource, IInv, TypeOK
  <2>4. CASE ~UNCHANGED rowVars
    <3>1. PICK c \in Clients : ApplyCommit(c) \/ TypeCommit(c)
      BY <1>1, <2>4 DEF PushNext, pushVars, ApplyCompute, PushOneCompute, PushTeam, ApplyLoad,
         TypeLoad, SetLock, SetSource, SetState, EditTeam, Stop, Change
    <3>2. request[c] \in Loaded \cup Typing
      BY <1>1, <3>1, RequestKinds DEF ApplyCommit, TypeCommit, IInv, TypeOK
    <3>3. request'[c] \in {Idle} \cup Between
      <4>1. CASE ApplyCommit(c)
        <5>1. request[c] \in Loaded
          BY <1>1, <4>1, RequestKinds DEF ApplyCommit, IInv, TypeOK
        <5> QED BY <4>1, <5>1, RestKind DEF ApplyCommit, Written, Loaded
      <4>2. CASE TypeCommit(c)
        BY <4>2 DEF TypeCommit, Written
      <4> QED BY <3>1, <4>1, <4>2
    <3>4. Commits(c)
      BY <2>4, <3>2, <3>3, OnlyOneKind DEF Commits, Idle, Loaded, Typing
    <3> QED BY <1>1, <2>2, <2>3, <3>1, <3>4
  <2> QED BY <2>1, <2>4
<1>2. IInv /\ [PushNext]_pushVars =>
        (StampTellsTheSource =>
           \/ StampTellsTheSource'
           \/ \E c \in Clients : Commits(c) /\ request[c].overtaken)
  BY <1>1
<1> QED BY <1>2, Inductive, PTL DEF PushSpec, OnlyOvertakenRequestsMisstamp

-----------------------------------------------------------------------------
(* THE FIGURES                                                             *)
(*                                                                         *)
(* A sum over a finite set is a fold, of which the provers know nothing.   *)
(* Its values are naturals here, so it is the cardinality of the set of    *)
(* their units (SumCounts), and the laws of sums follow from those of      *)
(* finite sets; where induction is needed it is over the subsets of a      *)
(* finite set (SubsetInduction). The recurring days, the figures of a day  *)
(* and the shares of a version are compared one by one with their          *)
(* definitions, and the sums then agree.                                   *)


\* Among the subsets of a finite set that a family holds, one has no smaller member of it
\* by one element.
LEMMA LeastSubset ==
  ASSUME NEW S, IsFiniteSet(S), NEW B, B \subseteq SUBSET S, B # {}
  PROVE  \E T \in B : \A x \in T : T \ {x} \notin B
<1> DEFINE R == StrictSubsetOrdering(S)
<1>1. FiniteSubsetsOf(S) = SUBSET S
  BY FS_FiniteSubsetsOfFinite
<1>2. IsWellFoundedOn(R, SUBSET S)
  BY <1>1, FS_StrictSubsetOrderingWellFounded
<1> HIDE DEF R
<1>3. \E T \in B : \A U \in B : ~ (<<U, T>> \in R)
  BY <1>2, WFMin
<1>4. PICK T \in B : \A U \in B : ~ (<<U, T>> \in R)
  BY <1>3
<1>5. ASSUME NEW x \in T, T \ {x} \in B
      PROVE  FALSE
  <2>1. <<T \ {x}, T>> \in R
    BY <1>5 DEF R, StrictSubsetOrdering
  <2> QED  BY <2>1, <1>4, <1>5
<1> QED  BY <1>4, <1>5

\* Induction over the subsets of a finite set.
LEMMA SubsetInduction ==
  ASSUME NEW S, IsFiniteSet(S), NEW G, {} \in G,
         \A T \in SUBSET S : \A x \in T : T \ {x} \in G => T \in G
  PROVE  S \in G
<1> DEFINE B == (SUBSET S) \ G
<1> SUFFICES ASSUME S \notin G PROVE FALSE
  OBVIOUS
<1>1. S \in B
  OBVIOUS
<1> HIDE DEF B
<1>2. B \subseteq SUBSET S
  BY DEF B
<1>3. PICK T \in B : \A x \in T : T \ {x} \notin B
  BY <1>1, <1>2, LeastSubset
<1>4. CASE T = {}
  BY <1>4, <1>3 DEF B
<1>5. CASE \E x \in T : TRUE
  <2>1. PICK x \in T : TRUE
    BY <1>5
  <2>2. T \ {x} \notin B /\ T \ {x} \in SUBSET S
    BY <1>3, <2>1, <1>2
  <2> QED  BY <2>1, <2>2, <1>2, <1>3 DEF B
<1> QED  BY <1>4, <1>5

\* A value's units, one token each.
Tokens(f, S) == {p \in S \X Nat : p[2] \in 1 .. f[p[1]]}

\* A value has as many units as it says.
LEMMA TokensOfOne ==
  ASSUME NEW x, NEW n \in Nat
  PROVE  IsFiniteSet({x} \X (1..n)) /\ Cardinality({x} \X (1..n)) = n
<1> DEFINE g == [k \in 1..n |-> <<x, k>>]
<1>1. g \in Bijection(1..n, {x} \X (1..n))
  <2>1. g \in [1..n -> {x} \X (1..n)]
    OBVIOUS
  <2>2. \A t \in {x} \X (1..n) : \E k \in 1..n : g[k] = t
    OBVIOUS
  <2>3. IsInjective(g)
    BY DEF IsInjective
  <2> QED  BY <2>1, <2>2, <2>3 DEF Bijection, Injection, Surjection
<1>2. ExistsBijection(1..n, {x} \X (1..n))
  BY <1>1 DEF ExistsBijection
<1> QED  BY <1>2, FS_CountingElements, FS_NatBijection

\* One more summand brings its own units.
LEMMA TokensOfMore ==
  ASSUME NEW f, NEW S, NEW x \in S, f[x] \in Nat, IsFiniteSet(Tokens(f, S \ {x}))
  PROVE  /\ IsFiniteSet(Tokens(f, S))
         /\ Cardinality(Tokens(f, S)) = f[x] + Cardinality(Tokens(f, S \ {x}))
<1> DEFINE A == {x} \X (1..f[x])
           C == Tokens(f, S \ {x})
<1>1. Tokens(f, S) = A \cup C /\ A \cap C = {}
  <2>1. ASSUME NEW p
        PROVE  p \in Tokens(f, S) <=> p \in A \cup C
    BY DEF Tokens
  <2>2. A \cap C = {}
    BY DEF Tokens
  <2> QED  BY <2>1, <2>2
<1>2. IsFiniteSet(A) /\ Cardinality(A) = f[x]
  BY TokensOfOne
<1> HIDE DEF A, C
<1>3. IsFiniteSet(C)
  BY DEF C
<1>4. IsFiniteSet(A \cup C) /\ Cardinality(A \cup C) = Cardinality(A) + Cardinality(C) - Cardinality(A \cap C)
  BY <1>2, <1>3, FS_Union
<1>5. Cardinality(A \cap C) = 0
  BY <1>1, FS_EmptySet
<1>6. Cardinality(C) \in Nat
  BY <1>3, FS_CardinalityType
<1> QED  BY <1>1, <1>2, <1>4, <1>5, <1>6 DEF C

\* Finitely many naturals have finitely many units.
LEMMA TokensAreFinite ==
  ASSUME NEW S, IsFiniteSet(S), NEW f, \A x \in S : f[x] \in Nat
  PROVE  IsFiniteSet(Tokens(f, S))
<1> DEFINE G == {T \in SUBSET S : IsFiniteSet(Tokens(f, T))}
<1>1. {} \in G
  <2>1. Tokens(f, {}) = {}
    BY DEF Tokens
  <2> QED  BY <2>1, FS_EmptySet
<1>2. ASSUME NEW T \in SUBSET S, NEW x \in T, T \ {x} \in G
      PROVE  T \in G
  BY <1>2, TokensOfMore
<1> HIDE DEF G
<1>3. S \in G
  BY <1>1, <1>2, SubsetInduction
<1> QED  BY <1>3 DEF G

Falls(f, S, h) == h = [s \in SUBSET S |-> IF s = {} THEN 0 ELSE f[CHOOSE x \in s : TRUE] + h[s \ {CHOOSE x \in s : TRUE}]]

\* The fold of the library, with its recursive function named.
LEMMA SumUnfolds ==
  ASSUME NEW f, NEW S
  PROVE  SumFunctionOnSet(f, S) = (CHOOSE h : Falls(f, S, h))[S]
BY DEF SumFunctionOnSet, FoldFunctionOnSet, MapThenFoldSet, Falls

\* A sum of naturals counts their units.
LEMMA SumCounts ==
  ASSUME NEW S, IsFiniteSet(S), NEW f, \A x \in S : f[x] \in Nat
  PROVE  SumFunctionOnSet(f, S) = Cardinality(Tokens(f, S))
<1> DEFINE g == [s \in SUBSET S |-> Cardinality(Tokens(f, s))]
           h == CHOOSE h : Falls(f, S, h)
<1>0. Tokens(f, {}) = {}
  BY DEF Tokens
<1>1. ASSUME NEW s \in SUBSET S, s # {}
      PROVE  g[s] = f[CHOOSE x \in s : TRUE] + g[s \ {CHOOSE x \in s : TRUE}]
  <2> DEFINE x == CHOOSE x \in s : TRUE
  <2>1. x \in s
    BY <1>1
  <2> HIDE DEF x
  <2>2. IsFiniteSet(s \ {x}) /\ \A y \in s \ {x} : f[y] \in Nat
    BY FS_Subset
  <2>3. IsFiniteSet(Tokens(f, s \ {x})) /\ f[x] \in Nat
    BY <2>1, <2>2, TokensAreFinite
  <2>4. Cardinality(Tokens(f, s)) = f[x] + Cardinality(Tokens(f, s \ {x}))
    BY <2>1, <2>3, TokensOfMore
  <2>5. g[s] = f[x] + g[s \ {x}]
    BY <2>4
  <2> QED  BY <2>5 DEF x
<1>2. g[{}] = 0
  BY <1>0, FS_EmptySet
<1> DEFINE F(k) == [s \in SUBSET S |-> IF s = {} THEN 0 ELSE f[CHOOSE x \in s : TRUE] + k[s \ {CHOOSE x \in s : TRUE}]]
<1>3. g = F(g)
  <2>1. \A s \in SUBSET S : g[s] = F(g)[s]
    BY <1>1, <1>2
  <2>2. g = [s \in SUBSET S |-> g[s]] /\ F(g) = [s \in SUBSET S |-> F(g)[s]]
    OBVIOUS
  <2> HIDE DEF g, F
  <2> QED  BY <2>1, <2>2
<1>4. Falls(f, S, g)
  BY <1>3 DEF Falls
<1> HIDE DEF g
<1>5. Falls(f, S, h)
  BY <1>4
<1> HIDE DEF h, F
<1>6. ASSUME NEW s \in SUBSET S
      PROVE  h[s] = IF s = {} THEN 0 ELSE f[CHOOSE x \in s : TRUE] + h[s \ {CHOOSE x \in s : TRUE}]
  BY <1>5 DEF Falls
<1> DEFINE G == {s \in SUBSET S : h[s] = g[s]}
           B == (SUBSET S) \ G
<1>7. S \in G
  <2> SUFFICES ASSUME S \notin G PROVE FALSE
    OBVIOUS
  <2>1. S \in B
    OBVIOUS
  <2>2. B \subseteq SUBSET S
    OBVIOUS
  <2> HIDE DEF B, G
  <2>3. PICK T \in B : \A x \in T : T \ {x} \notin B
    BY <2>1, <2>2, LeastSubset
  <2>4. T # {}
    BY <1>2, <1>6, <2>3 DEF B, G
  <2> DEFINE x == CHOOSE x \in T : TRUE
  <2>5. x \in T
    BY <2>4
  <2>6. T \in SUBSET S /\ T \ {x} \in SUBSET S
    BY <2>2
  <2>7. h[T] = f[x] + h[T \ {x}] /\ g[T] = f[x] + g[T \ {x}]
    BY <1>1, <1>6, <2>4, <2>6
  <2> HIDE DEF x
  <2>8. h[T \ {x}] = g[T \ {x}]
    BY <2>3, <2>5, <2>6 DEF B, G
  <2> QED  BY <2>3, <2>6, <2>7, <2>8 DEF B, G
<1> QED  BY <1>7, SumUnfolds DEF h, g, G

\* Nothing adds up to nothing.
LEMMA SumNone ==
  ASSUME NEW f
  PROVE  SumFunctionOnSet(f, {}) = 0
<1>1. Tokens(f, {}) = {}
  BY DEF Tokens
<1> QED  BY <1>1, SumCounts, FS_EmptySet

\* Naturals add up to a natural.
LEMMA SumIsNat ==
  ASSUME NEW S, IsFiniteSet(S), NEW f, \A x \in S : f[x] \in Nat
  PROVE  SumFunctionOnSet(f, S) \in Nat
BY SumCounts, TokensAreFinite, FS_CardinalityType

\* One more summand.
LEMMA SumMore ==
  ASSUME NEW S, IsFiniteSet(S), NEW f, \A x \in S : f[x] \in Nat, NEW x \in S
  PROVE  SumFunctionOnSet(f, S) = f[x] + SumFunctionOnSet(f, S \ {x})
<1>1. IsFiniteSet(S \ {x}) /\ \A y \in S \ {x} : f[y] \in Nat
  BY FS_Subset
<1>2. IsFiniteSet(Tokens(f, S \ {x}))
  BY <1>1, TokensAreFinite
<1> QED  BY <1>1, <1>2, SumCounts, TokensOfMore

\* Only the summands matter.
LEMMA SumSame ==
  ASSUME NEW S, IsFiniteSet(S), NEW f, NEW g, \A x \in S : f[x] \in Nat /\ g[x] = f[x]
  PROVE  SumFunctionOnSet(g, S) = SumFunctionOnSet(f, S)
<1>1. Tokens(g, S) = Tokens(f, S)
  BY DEF Tokens
<1> QED  BY <1>1, SumCounts

\* What adds nothing may be left out.
LEMMA SumOverSome ==
  ASSUME NEW S, IsFiniteSet(S), NEW T \in SUBSET S, NEW f, \A x \in S : f[x] \in Nat,
         \A x \in S \ T : f[x] = 0
  PROVE  SumFunctionOnSet(f, S) = SumFunctionOnSet(f, T)
<1>1. Tokens(f, S) = Tokens(f, T)
  BY DEF Tokens
<1>2. IsFiniteSet(T) /\ \A x \in T : f[x] \in Nat
  BY FS_Subset
<1> QED  BY <1>1, <1>2, SumCounts

\* A sum of naturals is nothing exactly when every summand is.
LEMMA SumIsPositive ==
  ASSUME NEW S, IsFiniteSet(S), NEW f, \A x \in S : f[x] \in Nat
  PROVE  SumFunctionOnSet(f, S) > 0 <=> \E x \in S : f[x] > 0
<1>1. ASSUME NEW x \in S, f[x] > 0
      PROVE  SumFunctionOnSet(f, S) > 0
  <2>1. IsFiniteSet(S \ {x}) /\ \A y \in S \ {x} : f[y] \in Nat
    BY FS_Subset
  <2>2. SumFunctionOnSet(f, S) = f[x] + SumFunctionOnSet(f, S \ {x})
    BY SumMore
  <2>3. SumFunctionOnSet(f, S \ {x}) \in Nat
    BY <2>1, SumIsNat
  <2> QED  BY <1>1, <2>2, <2>3
<1>2. ASSUME \A x \in S : ~ (f[x] > 0)
      PROVE  SumFunctionOnSet(f, S) = 0
  <2>1. \A x \in S \ {} : f[x] = 0
    BY <1>2
  <2>2. SumFunctionOnSet(f, S) = SumFunctionOnSet(f, {})
    BY <2>1, SumOverSome
  <2> QED  BY <2>2, SumNone
<1> QED  BY <1>1, <1>2

\* Smaller summands, smaller sum.
LEMMA SumAtMost ==
  ASSUME NEW S, IsFiniteSet(S), NEW f, NEW g, \A x \in S : f[x] \in Nat /\ g[x] \in Nat /\ f[x] <= g[x]
  PROVE  SumFunctionOnSet(f, S) <= SumFunctionOnSet(g, S)
<1>1. Tokens(f, S) \subseteq Tokens(g, S)
  BY DEF Tokens
<1>2. IsFiniteSet(Tokens(g, S))
  BY TokensAreFinite
<1> QED  BY <1>1, <1>2, SumCounts, FS_Subset

\* The sum over two sets that share nothing.
LEMMA SumOfTwo ==
  ASSUME NEW S, IsFiniteSet(S), NEW T, IsFiniteSet(T), S \cap T = {},
         NEW f, \A x \in S \cup T : f[x] \in Nat
  PROVE  SumFunctionOnSet(f, S \cup T) = SumFunctionOnSet(f, S) + SumFunctionOnSet(f, T)
<1>1. Tokens(f, S \cup T) = Tokens(f, S) \cup Tokens(f, T)
  <2>1. ASSUME NEW p
        PROVE  p \in Tokens(f, S \cup T) <=> p \in Tokens(f, S) \cup Tokens(f, T)
    BY DEF Tokens
  <2> QED  BY <2>1
<1>2. Tokens(f, S) \cap Tokens(f, T) = {}
  BY DEF Tokens
<1>3. IsFiniteSet(Tokens(f, S)) /\ IsFiniteSet(Tokens(f, T)) /\ IsFiniteSet(S \cup T)
  BY TokensAreFinite, FS_Union
<1> DEFINE A == Tokens(f, S)
           C == Tokens(f, T)
<1>4. IsFiniteSet(A) /\ IsFiniteSet(C) /\ A \cap C = {}
  BY <1>2, <1>3
<1> HIDE DEF A, C
<1>5. Cardinality(A \cup C) = Cardinality(A) + Cardinality(C) - Cardinality(A \cap C)
  BY <1>4, FS_Union
<1>6. Cardinality(A \cap C) = 0 /\ Cardinality(A) \in Nat /\ Cardinality(C) \in Nat
  BY <1>4, FS_EmptySet, FS_CardinalityType
<1>7. SumFunctionOnSet(f, S) = Cardinality(A)
  BY SumCounts DEF A
<1>8. SumFunctionOnSet(f, T) = Cardinality(C)
  BY SumCounts DEF C
<1>9. SumFunctionOnSet(f, S \cup T) = Cardinality(A \cup C)
  BY <1>1, <1>3, SumCounts DEF A, C
<1> QED  BY <1>5, <1>6, <1>7, <1>8, <1>9

\* Adding up class by class.
LEMMA SumByClass ==
  ASSUME NEW S, IsFiniteSet(S), NEW f, \A x \in S : f[x] \in Nat,
         NEW C, IsFiniteSet(C), NEW c, \A x \in S : c[x] \in C
  PROVE  SumFunctionOnSet([k \in C |-> SumFunctionOnSet(f, {x \in S : c[x] = k})], C) = SumFunctionOnSet(f, S)
<1> DEFINE of(k) == {x \in S : c[x] = k}
           in(D) == {x \in S : c[x] \in D}
           g == [k \in C |-> SumFunctionOnSet(f, of(k))]
           G == {D \in SUBSET C : SumFunctionOnSet(g, D) = SumFunctionOnSet(f, in(D))}
<1>1. {} \in G
  <2>1. in({}) = {}
    OBVIOUS
  <2> QED  BY <2>1, SumNone
<1>2. \A D : in(D) \subseteq S /\ IsFiniteSet(in(D)) /\ \A x \in in(D) : f[x] \in Nat
  BY FS_Subset
<1>3. \A k : of(k) \subseteq S /\ IsFiniteSet(of(k)) /\ \A x \in of(k) : f[x] \in Nat
  BY FS_Subset
<1>4. \A k \in C : g[k] \in Nat /\ g[k] = SumFunctionOnSet(f, of(k))
  BY <1>3, SumIsNat
<1>5. ASSUME NEW D \in SUBSET C, NEW k \in D, D \ {k} \in G
      PROVE  D \in G
  <2>1. in(D) = of(k) \cup in(D \ {k}) /\ of(k) \cap in(D \ {k}) = {}
    OBVIOUS
  <2>2. SumFunctionOnSet(g, D \ {k}) = SumFunctionOnSet(f, in(D \ {k}))
    BY <1>5
  <2>3. IsFiniteSet(D) /\ \A d \in D : g[d] \in Nat
    BY <1>4, FS_Subset
  <2>4. g[k] = SumFunctionOnSet(f, of(k))
    BY <1>4
  <2>5. \A x \in of(k) \cup in(D \ {k}) : f[x] \in Nat
    OBVIOUS
  <2>6. IsFiniteSet(of(k)) /\ IsFiniteSet(in(D \ {k}))
    BY <1>2, <1>3
  <2> HIDE DEF g, of, in, G
  <2>7. SumFunctionOnSet(g, D) = g[k] + SumFunctionOnSet(g, D \ {k})
    BY <2>3, SumMore
  <2>8. SumFunctionOnSet(f, of(k) \cup in(D \ {k})) = SumFunctionOnSet(f, of(k)) + SumFunctionOnSet(f, in(D \ {k}))
    BY <2>1, <2>5, <2>6, SumOfTwo
  <2> QED  BY <2>1, <2>2, <2>4, <2>7, <2>8 DEF G
<1>6. in(C) = S
  OBVIOUS
<1> HIDE DEF g, in, G
<1>7. C \in G
  BY <1>1, <1>5, SubsetInduction
<1> QED  BY <1>6, <1>7 DEF g, G

\* A common factor comes out of the sum.
LEMMA SumTimes ==
  ASSUME NEW S, IsFiniteSet(S), NEW f, \A x \in S : f[x] \in Nat, NEW n \in Nat,
         NEW g, \A x \in S : g[x] = n * f[x]
  PROVE  SumFunctionOnSet(g, S) = n * SumFunctionOnSet(f, S)
<1> DEFINE G == {D \in SUBSET S : SumFunctionOnSet(g, D) = n * SumFunctionOnSet(f, D)}
<1>1. {} \in G
  BY SumNone
<1>2. ASSUME NEW D \in SUBSET S, NEW k \in D, D \ {k} \in G
      PROVE  D \in G
  <2>1. IsFiniteSet(D) /\ IsFiniteSet(D \ {k})
    BY FS_Subset
  <2>2. \A x \in S : g[x] \in Nat
    OBVIOUS
  <2>3. SumFunctionOnSet(g, D) = g[k] + SumFunctionOnSet(g, D \ {k})
    BY <2>1, <2>2, SumMore
  <2>4. SumFunctionOnSet(f, D) = f[k] + SumFunctionOnSet(f, D \ {k})
    BY <2>1, SumMore
  <2>5. SumFunctionOnSet(f, D \ {k}) \in Nat
    BY <2>1, SumIsNat
  <2>6. SumFunctionOnSet(g, D \ {k}) = n * SumFunctionOnSet(f, D \ {k})
    BY <1>2
  <2>7. f[k] \in Nat /\ g[k] = n * f[k]
    OBVIOUS
  <2>8. SumFunctionOnSet(g, D) = n * SumFunctionOnSet(f, D)
    BY <2>3, <2>4, <2>5, <2>6, <2>7
  <2> QED  BY <2>8
<1> HIDE DEF G
<1>3. S \in G
  BY <1>1, <1>2, SubsetInduction
<1> QED  BY <1>3 DEF G

\* The sum of the sums is the sum of both.
LEMMA SumPlus ==
  ASSUME NEW S, IsFiniteSet(S), NEW f, NEW h, \A x \in S : f[x] \in Nat /\ h[x] \in Nat,
         NEW g, \A x \in S : g[x] = f[x] + h[x]
  PROVE  SumFunctionOnSet(g, S) = SumFunctionOnSet(f, S) + SumFunctionOnSet(h, S)
<1> DEFINE G == {D \in SUBSET S : SumFunctionOnSet(g, D) = SumFunctionOnSet(f, D) + SumFunctionOnSet(h, D)}
<1>1. {} \in G
  BY SumNone
<1>2. ASSUME NEW D \in SUBSET S, NEW k \in D, D \ {k} \in G
      PROVE  D \in G
  <2>1. IsFiniteSet(D) /\ IsFiniteSet(D \ {k})
    BY FS_Subset
  <2>2. \A x \in S : g[x] \in Nat
    OBVIOUS
  <2>3. SumFunctionOnSet(g, D) = g[k] + SumFunctionOnSet(g, D \ {k})
    BY <2>1, <2>2, SumMore
  <2>4. SumFunctionOnSet(f, D) = f[k] + SumFunctionOnSet(f, D \ {k})
    BY <2>1, SumMore
  <2>5. SumFunctionOnSet(h, D) = h[k] + SumFunctionOnSet(h, D \ {k})
    BY <2>1, SumMore
  <2>6. SumFunctionOnSet(f, D \ {k}) \in Nat /\ SumFunctionOnSet(h, D \ {k}) \in Nat
    BY <2>1, SumIsNat
  <2>7. SumFunctionOnSet(g, D \ {k}) = SumFunctionOnSet(f, D \ {k}) + SumFunctionOnSet(h, D \ {k})
    BY <1>2
  <2>8. f[k] \in Nat /\ h[k] \in Nat /\ g[k] = f[k] + h[k]
    OBVIOUS
  <2>9. SumFunctionOnSet(g, D) = SumFunctionOnSet(f, D) + SumFunctionOnSet(h, D)
    BY <2>3, <2>4, <2>5, <2>6, <2>7, <2>8
  <2> QED  BY <2>9
<1> HIDE DEF G
<1>3. S \in G
  BY <1>1, <1>2, SubsetInduction
<1> QED  BY <1>3 DEF G

\* Rows then columns, or columns then rows.
LEMMA SumSwap ==
  ASSUME NEW A, IsFiniteSet(A), NEW B, IsFiniteSet(B), NEW F,
         \A a \in A, b \in B : F[a][b] \in Nat
  PROVE  SumFunctionOnSet([a \in A |-> SumFunctionOnSet([b \in B |-> F[a][b]], B)], A)
       = SumFunctionOnSet([b \in B |-> SumFunctionOnSet([a \in A |-> F[a][b]], A)], B)
<1> DEFINE row(a) == [b \in B |-> F[a][b]]
           col(b) == [a \in A |-> F[a][b]]
           r == [a \in A |-> SumFunctionOnSet(row(a), B)]
           c(D) == [b \in B |-> SumFunctionOnSet(col(b), D)]
           G == {D \in SUBSET A : SumFunctionOnSet(r, D) = SumFunctionOnSet(c(D), B)}
<1>1. \A a \in A : r[a] \in Nat
  <2>1. \A a \in A : \A b \in B : row(a)[b] \in Nat
    OBVIOUS
  <2>2. \A a \in A : SumFunctionOnSet(row(a), B) \in Nat
    BY <2>1, SumIsNat
  <2> QED  BY <2>2
<1>2. \A D \in SUBSET A : IsFiniteSet(D) /\ \A b \in B : \A a \in D : col(b)[a] \in Nat
  BY FS_Subset
<1>3. \A D \in SUBSET A : \A b \in B : c(D)[b] \in Nat
  <2>1. \A D \in SUBSET A : \A b \in B : SumFunctionOnSet(col(b), D) \in Nat
    BY <1>2, SumIsNat
  <2> QED  BY <2>1
<1>4. {} \in G
  <2> DEFINE z == [b \in B |-> 0]
  <2>1. SumFunctionOnSet(z, B) = 0 * SumFunctionOnSet(z, B)
    BY SumTimes
  <2>2. SumFunctionOnSet(z, B) \in Nat
    BY SumIsNat
  <2>3. c({}) = z
    BY SumNone
  <2> HIDE DEF z, c
  <2>4. SumFunctionOnSet(c({}), B) = 0
    BY <2>1, <2>2, <2>3
  <2> QED  BY <2>4, SumNone DEF c
<1>5. ASSUME NEW D \in SUBSET A, NEW k \in D, D \ {k} \in G
      PROVE  D \in G
  <2>1. \A b \in B : col(b)[k] \in Nat /\ col(b)[k] = row(k)[b] /\ row(k)[b] \in Nat
    OBVIOUS
  <2>2. \A b \in B : SumFunctionOnSet(col(b), D) = col(b)[k] + SumFunctionOnSet(col(b), D \ {k})
    BY <1>2, SumMore
  <2>3. \A b \in B : c(D)[b] = row(k)[b] + c(D \ {k})[b]
    BY <2>1, <2>2
  <2>4. SumFunctionOnSet(r, D \ {k}) = SumFunctionOnSet(c(D \ {k}), B)
    BY <1>5
  <2>5. r[k] = SumFunctionOnSet(row(k), B)
    OBVIOUS
  <2>6. IsFiniteSet(D) /\ \A a \in D : r[a] \in Nat
    BY <1>1, <1>2
  <2>7. \A b \in B : c(D \ {k})[b] \in Nat
    BY <1>3
  <2> HIDE DEF r, c, row, col, G
  <2>8. SumFunctionOnSet(r, D) = r[k] + SumFunctionOnSet(r, D \ {k})
    BY <2>6, SumMore
  <2>9. SumFunctionOnSet(c(D), B) = SumFunctionOnSet(row(k), B) + SumFunctionOnSet(c(D \ {k}), B)
    BY <2>1, <2>3, <2>7, SumPlus
  <2> QED  BY <2>4, <2>5, <2>8, <2>9 DEF G
<1> HIDE DEF G
<1>6. A \in G
  BY <1>4, <1>5, SubsetInduction
<1> QED  BY <1>6 DEF G

\* A finite set has a member whose number is least.
LEMMA LeastMember ==
  ASSUME NEW S, IsFiniteSet(S), S # {}, NEW f, \A x \in S : f[x] \in Int
  PROVE  \E x \in S : \A y \in S : f[x] <= f[y]
<1> DEFINE G == {T \in SUBSET S : T = {} \/ \E x \in T : \A y \in T : f[x] <= f[y]}
<1>1. ASSUME NEW T \in SUBSET S, NEW z \in T, T \ {z} \in G
      PROVE  T \in G
  <2>1. CASE T = {z}
    BY <2>1
  <2>2. CASE \E x \in T \ {z} : \A y \in T \ {z} : f[x] <= f[y]
    <3>1. PICK x \in T \ {z} : \A y \in T \ {z} : f[x] <= f[y]
      BY <2>2
    <3>2. CASE f[x] <= f[z]
      BY <3>1, <3>2
    <3>3. CASE f[z] <= f[x]
      <4>1. \A y \in T : f[z] <= f[y]
        BY <3>1, <3>3
      <4> QED  BY <4>1
    <3> QED  BY <3>2, <3>3
  <2> QED  BY <1>1, <2>1, <2>2
<1>2. {} \in G
  OBVIOUS
<1> HIDE DEF G
<1>3. S \in G
  BY <1>1, <1>2, SubsetInduction
<1> QED  BY <1>3 DEF G

-----------------------------------------------------------------------------
(* Sprints and completions                                                 *)

AllColumns == DatedColumns(NoWindow)
Holds(c, day) == team.sprints[c].start <= day /\ day <= team.sprints[c].end
Before(b, c) == \/ team.sprints[b].start < team.sprints[c].start
                \/ team.sprints[b].start = team.sprints[c].start /\ b < c

\* Min finds the least of finitely many numbers.
LEMMA LeastNumber ==
  ASSUME NEW S, IsFiniteSet(S), S # {}, S \subseteq Int
  PROVE  Min(S) \in S /\ \A x \in S : Min(S) <= x
<1>1. \E x \in S : \A y \in S : x <= y
  <2> DEFINE f == [x \in S |-> x]
  <2>1. \E x \in S : \A y \in S : f[x] <= f[y]
    <3>1. \A x \in S : f[x] \in Int
      OBVIOUS
    <3> HIDE DEF f
    <3> QED  BY <3>1, LeastMember
  <2> QED  BY <2>1
<1> QED  BY <1>1 DEF Min

\* The positions and items of a sequence of sprints or completions.
LEMMA ItemsOfASequence ==
  ASSUME NEW T, NEW s \in Seq(T)
  PROVE  /\ DOMAIN s = 1 .. Len(s) /\ IsFiniteSet(DOMAIN s) /\ DOMAIN s \subseteq Nat
         /\ \A i \in DOMAIN s : s[i] \in T
<1>1. DOMAIN s = 1 .. Len(s) /\ Len(s) \in Nat
  OBVIOUS
<1>2. \A i \in 1 .. Len(s) : s[i] \in T
  OBVIOUS
<1> QED  BY <1>1, <1>2, FS_Interval, SMTT(30)

\* The columns of a page: finitely many of the dated sprints.
LEMMA ColumnsAreDated ==
  ASSUME team \in Teams, NEW w
  PROVE  /\ DatedColumns(w) \subseteq AllColumns
         /\ AllColumns = {i \in DOMAIN team.sprints : Dated(team.sprints[i])}
         /\ IsFiniteSet(AllColumns) /\ AllColumns \subseteq Nat /\ None \notin AllColumns
         /\ \A i \in AllColumns : team.sprints[i].start \in Int /\ team.sprints[i].end \in Int
<1>1. team.sprints \in Seq([start : Days, end : Days, closed : BOOLEAN])
  BY TeamsAssumption DEF IsTeam
<1>2. AllColumns = {i \in DOMAIN team.sprints : Dated(team.sprints[i])}
  BY DEF AllColumns, DatedColumns, Columns, InWindow
<1>3. DatedColumns(w) \subseteq AllColumns
  BY <1>2 DEF DatedColumns, Columns
<1>5. /\ IsFiniteSet(DOMAIN team.sprints) /\ DOMAIN team.sprints \subseteq Nat
      /\ \A i \in DOMAIN team.sprints : team.sprints[i] \in [start : Days, end : Days, closed : BOOLEAN]
  BY <1>1, ItemsOfASequence
<1>6. IsFiniteSet(AllColumns) /\ AllColumns \subseteq Nat
  BY <1>2, <1>5, FS_Subset
<1>7. ASSUME NEW i \in AllColumns
      PROVE  team.sprints[i].start \in Int /\ team.sprints[i].end \in Int
  <2>1. team.sprints[i] \in [start : Days, end : Days, closed : BOOLEAN]
    BY <1>2, <1>5
  <2>2. team.sprints[i].start # NoDay /\ team.sprints[i].end # NoDay
    BY <1>2 DEF Dated
  <2> QED  BY <2>1, <2>2 DEF Days
<1> QED  BY <1>2, <1>3, <1>6, <1>7, NothingAssumption

\* Attribute picks the earliest-starting sprint that holds the day, and of those the first.
LEMMA AttributedToTheFirst ==
  ASSUME team \in Teams, NEW day \in Int
  PROVE  /\ Attribute(day, AllColumns) \in AllColumns \cup {None}
         /\ \A c \in AllColumns : Attribute(day, AllColumns) = c
              <=> Holds(c, day) /\ \A b \in AllColumns : Holds(b, day) => ~ Before(b, c)
<1> DEFINE holds == {i \in AllColumns : Holds(i, day)}
           earliest == {i \in holds : \A j \in holds : team.sprints[i].start <= team.sprints[j].start}
           start == [i \in holds |-> team.sprints[i].start]
<1>1. Attribute(day, AllColumns) = IF holds = {} THEN None ELSE Min(earliest)
  BY DEF Attribute, Holds
<1>2. IsFiniteSet(AllColumns) /\ AllColumns \subseteq Nat /\ None \notin AllColumns
      /\ \A i \in AllColumns : team.sprints[i].start \in Int /\ team.sprints[i].end \in Int
  BY ColumnsAreDated
<1>3. CASE holds = {}
  BY <1>1, <1>2, <1>3
<1>4. CASE holds # {}
  <2>1. IsFiniteSet(holds) /\ IsFiniteSet(earliest) /\ earliest \subseteq Nat
    BY <1>2, FS_Subset
  <2>2. \A i \in holds : start[i] \in Int
    BY <1>2
  <2>3. \E i \in holds : \A j \in holds : start[i] <= start[j]
    <3> HIDE DEF start, holds
    <3> QED  BY <1>4, <2>1, <2>2, LeastMember
  <2>4. earliest # {}
    BY <2>3
  <2>5. Min(earliest) \in earliest /\ \A i \in earliest : Min(earliest) <= i
    <3>1. earliest \subseteq Int
      BY <2>1
    <3> HIDE DEF earliest
    <3> QED  BY <2>1, <2>4, <3>1, LeastNumber
  <2> DEFINE m == Min(earliest)
  <2> HIDE DEF m
  <2>6. m \in earliest /\ \A i \in earliest : m <= i
    BY <2>5 DEF m
  <2>7. Attribute(day, AllColumns) = m
    BY <1>1, <1>4 DEF m
  <2>8. ASSUME NEW b \in AllColumns, Holds(b, day)
        PROVE  ~ Before(b, m)
    BY <1>2, <2>6, <2>8 DEF Before
  <2>9. ASSUME NEW c \in AllColumns, Holds(c, day), \A b \in AllColumns : Holds(b, day) => ~ Before(b, c)
        PROVE  m = c
    <3>1. ~ Before(m, c) /\ ~ Before(c, m)
      BY <2>6, <2>8, <2>9
    <3> QED  BY <1>2, <2>6, <3>1 DEF Before
  <2> QED  BY <2>6, <2>7, <2>8, <2>9
<1> QED  BY <1>3, <1>4

\* PointsLandOnce, of an answer.
PointsOf(answer) ==
    LET dated == {i \in DOMAIN team.items : team.items[i].on # NoDay}
        holds(c, i) == Dated(team.sprints[c]) /\ team.sprints[c].start <= team.items[i].on /\ team.items[i].on <= team.sprints[c].end
        before(b, c) == team.sprints[b].start < team.sprints[c].start \/ (team.sprints[b].start = team.sprints[c].start /\ b < c)
        mine(c) == {i \in dated : holds(c, i) /\ \A b \in DOMAIN team.sprints : holds(b, i) => ~ before(b, c)}
        points(S) == Sum([i \in S |-> team.items[i].effort])
    IN /\ \A c \in DOMAIN answer.figures.achieved : answer.figures.achieved[c] = points(mine(c))
       /\ answer.window = NoWindow =>
            answer.figures.outside + Sum([c \in DOMAIN answer.figures.achieved |-> answer.figures.achieved[c]]) = points(dated)

\* The property is that of the answer on screen.
LEMMA PointsRestated == PointsLandOnce <=> (shown.page = "achievement" => PointsOf(shown))
BY DEF PointsLandOnce, PointsOf

\* The achievement grid counts every dated completion once, whatever its window.
LEMMA AchievementLandsOnce ==
  ASSUME team \in Teams, NEW w
  PROVE  PointsOf(Answer("achievement", w, Achievement(w)))
<1> DEFINE dated == {i \in DOMAIN team.items : team.items[i].on # NoDay}
           cell == [i \in dated |-> Attribute(team.items[i].on, AllColumns)]
           holds(c, i) == Dated(team.sprints[c]) /\ team.sprints[c].start <= team.items[i].on /\ team.items[i].on <= team.sprints[c].end
           before(b, c) == team.sprints[b].start < team.sprints[c].start \/ (team.sprints[b].start = team.sprints[c].start /\ b < c)
           mine(c) == {i \in dated : holds(c, i) /\ \A b \in DOMAIN team.sprints : holds(b, i) => ~ before(b, c)}
           of(c) == {i \in dated : cell[i] = c}
           effort(S) == [i \in S |-> team.items[i].effort]
           columns == DatedColumns(w)
           achieved == [c \in columns |-> Sum(effort(of(c)))]
           rest == Sum(effort(of(None)))
<1>1. /\ Achievement(w).achieved = achieved
      /\ Achievement(w).outside = rest
  BY DEF Achievement, AllColumns
<1>2. /\ IsFiniteSet(dated)
      /\ \A i \in dated : team.items[i].on \in Int /\ team.items[i].effort \in Nat
  <2>1. team.items \in Seq([on : Days, effort : Nat])
    BY TeamsAssumption DEF IsTeam
  <2>3. IsFiniteSet(DOMAIN team.items) /\ \A i \in DOMAIN team.items : team.items[i] \in [on : Days, effort : Nat]
    BY <2>1, ItemsOfASequence
  <2>4. ASSUME NEW i \in dated
        PROVE  team.items[i].on \in Int /\ team.items[i].effort \in Nat
    <3>1. team.items[i] \in [on : Days, effort : Nat]
      BY <2>3
    <3> QED  BY <3>1 DEF Days
  <2> QED  BY <2>3, <2>4, FS_Subset
<1>3. /\ AllColumns = {i \in DOMAIN team.sprints : Dated(team.sprints[i])}
      /\ columns \subseteq AllColumns /\ None \notin AllColumns
      /\ IsFiniteSet(AllColumns)
  BY ColumnsAreDated
<1>4. ASSUME NEW c \in AllColumns
      PROVE  of(c) = mine(c)
  <2>1. ASSUME NEW i \in dated
        PROVE  cell[i] = c <=> holds(c, i) /\ \A b \in DOMAIN team.sprints : holds(b, i) => ~ before(b, c)
    <3>1. cell[i] = c <=> Holds(c, team.items[i].on) /\ \A b \in AllColumns : Holds(b, team.items[i].on) => ~ Before(b, c)
      BY <1>2, AttributedToTheFirst
    <3> QED  BY <1>3, <3>1 DEF Holds, Before
  <2> QED  BY <2>1
<1>5. \A i \in dated : cell[i] \in AllColumns \cup {None}
  BY <1>2, AttributedToTheFirst
<1> HIDE DEF cell, mine, holds, before
<1>6. ASSUME NEW c \in columns
      PROVE  achieved[c] = Sum(effort(mine(c)))
  BY <1>3, <1>4
<1>7. ASSUME w = NoWindow
      PROVE  rest + Sum([c \in columns |-> achieved[c]]) = Sum(effort(dated))
  <2> DEFINE f == effort(dated)
             C == AllColumns \cup {None}
             g == [c \in C |-> SumFunctionOnSet(f, of(c))]
  <2>1. \A i \in dated : f[i] \in Nat
    BY <1>2
  <2>2. IsFiniteSet(C)
    BY <1>3, FS_AddElement
  <2>3. SumFunctionOnSet(g, C) = SumFunctionOnSet(f, dated)
    <3>1. /\ IsFiniteSet(dated) /\ IsFiniteSet(C)
          /\ \A i \in dated : f[i] \in Nat
          /\ \A i \in dated : cell[i] \in C
      BY <1>2, <1>5, <2>1, <2>2
    <3>2. SumFunctionOnSet([c \in C |-> SumFunctionOnSet(f, {i \in dated : cell[i] = c})], C) = SumFunctionOnSet(f, dated)
      <4> HIDE DEF f, C, dated
      <4> QED  BY <3>1, SumByClass
    <3> QED  BY <3>2
  <2>4. \A c : SumFunctionOnSet(f, of(c)) = Sum(effort(of(c)))
    <3>1. ASSUME NEW c
          PROVE  SumFunctionOnSet(f, of(c)) = SumFunctionOnSet(effort(of(c)), of(c))
      <4>1. IsFiniteSet(of(c)) /\ \A i \in of(c) : effort(of(c))[i] \in Nat /\ f[i] = effort(of(c))[i]
        BY <1>2, FS_Subset
      <4> HIDE DEF f, of, effort
      <4> QED  BY <4>1, SumSame
    <3> QED  BY <3>1 DEF Sum, SumFunction
  <2>5. \A c \in C : g[c] \in Nat
    <3>1. \A c : IsFiniteSet(of(c)) /\ \A i \in of(c) : f[i] \in Nat
      BY <1>2, <2>1, FS_Subset
    <3>2. \A c : SumFunctionOnSet(f, of(c)) \in Nat
      BY <3>1, SumIsNat
    <3> QED  BY <3>2
  <2>6. SumFunctionOnSet(g, C) = g[None] + SumFunctionOnSet(g, C \ {None})
    <3>1. None \in C
      OBVIOUS
    <3> HIDE DEF g, C
    <3> QED  BY <2>2, <2>5, <3>1, SumMore
  <2>7. C \ {None} = AllColumns /\ columns = AllColumns
    BY <1>3, <1>7 DEF AllColumns
  <2>8. g[None] = rest /\ \A c \in columns : g[c] = achieved[c]
    BY <2>4, <2>7
  <2> DEFINE shownf == [c \in columns |-> achieved[c]]
  <2>9. \A c \in columns : g[c] \in Nat /\ shownf[c] = g[c]
    BY <2>5, <2>7, <2>8
  <2>10. SumFunctionOnSet(shownf, columns) = SumFunctionOnSet(g, columns)
    <3> HIDE DEF shownf, g, columns
    <3> QED  BY <1>3, <2>7, <2>9, SumSame
  <2>11. Sum(shownf) = SumFunctionOnSet(shownf, columns)
    BY DEF Sum, SumFunction
  <2>12. Sum(effort(dated)) = SumFunctionOnSet(f, dated)
    BY DEF Sum, SumFunction
  <2> HIDE DEF shownf, g, columns, f, effort, rest, C
  <2>13. rest + Sum(shownf) = Sum(effort(dated))
    BY <2>3, <2>6, <2>7, <2>8, <2>10, <2>11, <2>12
  <2> QED  BY <2>13 DEF shownf
<1> DEFINE answer == Answer("achievement", w, Achievement(w))
<1>8. answer.window = w /\ answer.figures = Achievement(w)
  BY DEF Answer
<1>9. DOMAIN achieved = columns
  OBVIOUS
<1>10. \A c \in DOMAIN answer.figures.achieved : answer.figures.achieved[c] = Sum(effort(mine(c)))
  BY <1>1, <1>6, <1>8, <1>9
<1>11. answer.window = NoWindow =>
         answer.figures.outside + Sum([c \in DOMAIN answer.figures.achieved |-> answer.figures.achieved[c]]) = Sum(effort(dated))
  BY <1>1, <1>7, <1>8, <1>9
<1> QED  BY <1>10, <1>11 DEF PointsOf, mine, holds, before

-----------------------------------------------------------------------------
(* Schedules                                                               *)

\* The least n that q goes into x.
LEMMA Quotients ==
  ASSUME NEW x \in Int, NEW q \in Nat \ {0}, NEW n \in Int
  PROVE  x \div q \in Int /\ (n <= x \div q <=> n * q <= x)
<1>1. x \div q \in Int /\ q * (x \div q) <= x /\ x < q * (x \div q) + q
  OBVIOUS
<1> DEFINE y == x \div q
<1>2. y \in Int /\ q * y <= x /\ x < q * y + q
  BY <1>1
<1> HIDE DEF y
<1>3. ASSUME n <= y PROVE n * q <= x
  <2>1. n * q <= y * q
    BY <1>2, <1>3
  <2> QED  BY <1>2, <2>1
<1>4. ASSUME n > y PROVE n * q > x
  <2>1. n * q >= (y + 1) * q
    BY <1>2, <1>4
  <2>2. (y + 1) * q = q * y + q
    BY <1>2
  <2>3. n * q \in Int /\ q * y \in Int
    BY <1>2
  <2> QED  BY <1>2, <2>1, <2>2, <2>3
<1> QED  BY <1>2, <1>3, <1>4 DEF y

Anchor(rule) == rule.start + ((rule.weekday - Weekday(rule.start)) % 7)


\* The first day of a recurring rule is the first of its weekday from its start.
LEMMA AnchorIsTheFirst ==
  ASSUME NEW rule, rule.start \in Int, rule.weekday \in 0 .. 6
  PROVE  /\ Anchor(rule) \in rule.start .. rule.start + 6
         /\ \A first \in rule.start .. rule.start + 6 : Weekday(first) = rule.weekday <=> first = Anchor(rule)
<1>1. \A a \in Int, k \in 0 .. 6 : a + ((k - (a % 7)) % 7) \in a .. a + 6
  OBVIOUS
<1>2. \A a \in Int, k \in 0 .. 6, f \in Int : f \in a .. a + 6 => (f % 7 = k <=> f = a + ((k - (a % 7)) % 7))
  OBVIOUS
<1> DEFINE a == rule.start
           k == rule.weekday
<1>3. a \in Int /\ k \in 0 .. 6
  OBVIOUS
<1>4. Anchor(rule) = a + ((k - (a % 7)) % 7)
  BY DEF Anchor, Weekday
<1> HIDE DEF a, k
<1>5. Anchor(rule) \in a .. a + 6 /\ \A f \in a .. a + 6 : f % 7 = k <=> f = Anchor(rule)
  BY <1>1, <1>2, <1>3, <1>4
<1> QED  BY <1>5 DEF a, k, Weekday

\* The days of a rule inside a window are its days, whatever the window.
LEMMA RecurringDaysAreItsDays ==
  ASSUME NEW rule, IsSchedule(rule), rule.kind \notin {"range", "sprint"},
         NEW w, w[1] \in Int, w[2] \in Int, NEW d \in Int, w[1] <= d, d <= w[2]
  PROVE  d \in RecurringDays(rule, w) <=> OnDay(rule, d)
<1> DEFINE q == Step(rule)
           a == Anchor(rule)
           x == -(w[1] - a)
           k == -(x \div q)
           stop == IF rule.end = NoDay THEN w[2] ELSE Smaller(w[2], rule.end)
           within == rule.end # NoDay => d <= rule.end
           day == IF w[1] > a THEN a + k * q ELSE a
<1>1. q \in Nat \ {0} /\ q >= 7
  BY DEF Step, IsSchedule
<1>2. a \in Int /\ a >= rule.start /\ rule.start \in Int /\ rule.end \in Days
      /\ a \in rule.start .. rule.start + 6
      /\ \A first \in rule.start .. rule.start + 6 : Weekday(first) = rule.weekday <=> first = a
  BY AnchorIsTheFirst DEF IsSchedule
<1>3. stop \in Int /\ (d <= stop <=> within)
  BY <1>2 DEF Days, Smaller
<1>4. RecurringDays(rule, w) = {day + n * q : n \in 0 .. (stop - day) \div q}
  BY DEF RecurringDays, Anchor
<1> HIDE DEF q, a, stop, within
<1>5. OnDay(rule, d) <=> within /\ \E j \in Nat : d = a + j * q
  <2>1. OnDay(rule, d) <=> \E n \in 0 .. d - rule.start : d = a + n * q /\ within
    BY <1>2 DEF OnDay, q, within
  <2>2. ASSUME NEW j \in Nat, d = a + j * q
        PROVE  j \in 0 .. d - rule.start
    <3>1. j * q >= j
      BY <1>1
    <3>2. j * q \in Int
      BY <1>1
    <3> QED  BY <1>2, <2>2, <3>1, <3>2
  <2> QED  BY <1>2, <2>1, <2>2
<1>6. x \in Int /\ k \in Int /\ \A j \in Int : j >= k <=> j * q >= w[1] - a
  <2>1. x \in Int
    BY <1>2
  <2> HIDE DEF x
  <2>2. x \div q \in Int
    BY <1>1, <2>1, Quotients
  <2>3. ASSUME NEW j \in Int
        PROVE  j >= k <=> j * q >= w[1] - a
    <3>1. -j <= x \div q <=> (-j) * q <= x
      BY <1>1, <2>1, Quotients
    <3>2. (-j) * q = -(j * q) /\ j * q \in Int
      BY <1>1
    <3> QED  BY <1>2, <2>2, <3>1, <3>2 DEF x
  <2> QED  BY <2>1, <2>2, <2>3
<1>7. day \in Int
  BY <1>1, <1>2, <1>6
<1>8. \E i \in Nat : /\ day = a + i * q
                     /\ \A j \in Nat : d = a + j * q => j >= i
  <2>1. CASE w[1] > a
    <3>1. k >= 0
      <4>1. ~ (-1 >= k)
        <5>1. (-1) * q = -q
          BY <1>1
        <5> QED  BY <1>1, <1>2, <1>6, <2>1, <5>1
      <4> QED  BY <1>6, <4>1
    <3>2. ASSUME NEW j \in Nat, d = a + j * q
          PROVE  j >= k
      <4>1. j * q >= w[1] - a
        <5>1. j * q \in Int
          BY <1>1
        <5> QED  BY <1>2, <3>2, <5>1
      <4> QED  BY <1>6, <4>1
    <3> QED  BY <1>6, <2>1, <3>1, <3>2
  <2>2. CASE ~ (w[1] > a)
    <3>1. day = a + 0 * q
      BY <1>1, <1>2, <2>2
    <3> QED  BY <3>1
  <2> QED  BY <2>1, <2>2
<1>9. PICK i \in Nat : day = a + i * q /\ \A j \in Nat : d = a + j * q => j >= i
  BY <1>8
<1> HIDE DEF day
<1>10. ASSUME NEW n \in Int
       PROVE  day + n * q = a + (n + i) * q /\ n * q \in Int
  <2>1. (n + i) * q = n * q + i * q /\ n * q \in Int /\ i * q \in Int
    BY <1>1
  <2> QED  BY <1>2, <1>9, <2>1
<1>11. ASSUME NEW n \in 0 .. (stop - day) \div q, d = day + n * q
       PROVE  within /\ \E j \in Nat : d = a + j * q
  <2>1. (stop - day) \div q \in Int /\ (n <= (stop - day) \div q <=> n * q <= stop - day)
    BY <1>1, <1>3, <1>7, Quotients
  <2>2. n \in Nat /\ n * q \in Int /\ d = a + (n + i) * q
    BY <1>10, <1>11, <2>1
  <2>3. d <= stop
    BY <1>3, <1>7, <1>11, <2>1, <2>2
  <2> QED  BY <1>3, <1>9, <2>2, <2>3
<1>12. ASSUME within, NEW j \in Nat, d = a + j * q
       PROVE  \E n \in 0 .. (stop - day) \div q : d = day + n * q
  <2> DEFINE n == j - i
  <2>1. n \in Nat
    BY <1>9, <1>12
  <2>2. d = day + n * q /\ n * q \in Int
    <3>1. n + i = j
      BY <1>9
    <3> QED  BY <1>10, <1>12, <2>1, <3>1
  <2>3. (stop - day) \div q \in Int /\ (n <= (stop - day) \div q <=> n * q <= stop - day)
    <3>1. stop - day \in Int
      BY <1>3, <1>7
    <3> HIDE DEF n
    <3> QED  BY <1>1, <2>1, <3>1, Quotients
  <2>4. n * q <= stop - day
    BY <1>3, <1>7, <1>12, <2>2
  <2> HIDE DEF n
  <2> QED  BY <2>1, <2>2, <2>3, <2>4
<1> QED  BY <1>4, <1>5, <1>11, <1>12

Inside(d, w) == w[1] \in Int /\ w[2] \in Int /\ w[1] <= d /\ d <= w[2]

\* A schedule expanded in a window that holds the day finds the day exactly when it is one of its own.
LEMMA OccurrencesAreDays ==
  ASSUME NEW rule, IsSchedule(rule), rule.kind # "sprint", NEW w, NEW d \in Int, Inside(d, w)
  PROVE  d \in OccurrenceDays(rule, w) <=> OnDay(rule, d)
<1>1. ~ (w[2] < w[1])
  BY DEF Inside
<1>2. CASE rule.kind = "range"
  <2>1. rule.start \in Int /\ LastDay(rule) \in Int
    BY DEF IsSchedule, LastDay, Days
  <2>2. d \in RangeDays(rule, w) <=> OnDay(rule, d)
    BY <1>2, <2>1 DEF RangeDays, OnDay, Larger, Smaller, Inside
  <2> QED  BY <1>1, <1>2, <2>2 DEF OccurrenceDays
<1>3. CASE rule.kind # "range"
  BY <1>1, <1>3, RecurringDaysAreItsDays DEF OccurrenceDays, Inside
<1> QED  BY <1>2, <1>3

\* The same of half-days: where a range opens and closes.
LEMMA HalfDaysAreCovered ==
  ASSUME NEW rule, IsRule(rule), NEW w, NEW d \in Int, Inside(d, w), NEW h \in Halves
  PROVE  <<d, h>> \in HalfDays(rule, w) <=> Covers(rule, d, h)
<1>1. IsSchedule(rule) /\ rule.kind # "sprint"
  BY DEF IsRule
<1>2. d \in OccurrenceDays(rule, w) <=> OnDay(rule, d)
  BY <1>1, OccurrencesAreDays
<1>3. CASE rule.kind # "range"
  BY <1>2, <1>3 DEF HalfDays, Covers
<1>4. CASE rule.kind = "range"
  <2>1. rule.start \in Int /\ LastDay(rule) \in Int
    BY <1>1 DEF IsSchedule, LastDay, Days
  <2>2. <<d, h>> \in HalfDays(rule, w) <=>
          /\ OnDay(rule, d)
          /\ IF d = rule.start /\ rule.startHalf = "pm" THEN h = "pm"
             ELSE d = LastDay(rule) /\ rule.endHalf = "am" => h = "am"
    BY <1>2, <1>4 DEF HalfDays
  <2>3. /\ rule.startHalf \in {"am", "pm"} /\ rule.endHalf \in {"am", "pm"} /\ h \in {"am", "pm"}
        /\ rule.start = LastDay(rule) => ~ (rule.startHalf = "pm" /\ rule.endHalf = "am")
    BY <1>4 DEF IsRule, Halves
  <2> QED  BY <1>4, <2>1, <2>2, <2>3 DEF Covers, OnDay
<1> QED  BY <1>3, <1>4

\* A day of the window off work by what the window was expanded into, or by the records.
LEMMA OffWorkInTheWindow ==
  ASSUME team \in Teams, NEW m, NEW w, NEW d \in Int, Inside(d, w), NEW h \in Halves
  PROVE  OffWork(m, d, h) <=> OnHoliday(m, d, h, w) \/ Absent(m, d, h, w)
<1>1. /\ \A a \in team.absences : IsRule(a.rule)
      /\ \A e \in team.holidays : IsRule(e.rule) /\ e.rule.kind = "range" /\ e.rule.end \in Int
  BY TeamsAssumption DEF IsTeam
<1>2. Absent(m, d, h, w) <=> \E a \in team.absences : a.member = m /\ Covers(a.rule, d, h)
  BY <1>1, HalfDaysAreCovered DEF Absent
<1>3. ASSUME NEW e \in team.holidays, Covers(e.rule, d, h)
      PROVE  e.rule.start <= w[2] /\ e.rule.end >= w[1]
  <2>1. e.rule.start \in Int /\ LastDay(e.rule) = e.rule.end
    BY <1>1, NothingAssumption DEF IsRule, IsSchedule, LastDay
  <2>2. e.rule.start <= d /\ d <= e.rule.end
    BY <1>1, <1>3, <2>1 DEF Covers
  <2> QED  BY <1>1, <2>1, <2>2 DEF Inside
<1>4. OnHoliday(m, d, h, w) <=> \E e \in team.holidays : e.enabled /\ Covers(e.rule, d, h) /\ ~ Works(m, e, d)
  BY <1>1, <1>3, HalfDaysAreCovered DEF OnHoliday, TeamHolidays
<1> QED  BY <1>2, <1>4 DEF OffWork

\* The same of meetings, those counted in working days of a sprint included.
LEMMA MeetingsHeldInTheWindow ==
  ASSUME team \in Teams, NEW k \in team.meetings, NEW w, NEW d \in Int, Inside(d, w)
  PROVE  Held(k, d) <=> d \in OccurrencesOf(k, w)
<1>1. IsSchedule(k)
  BY TeamsAssumption DEF IsTeam
<1>2. CASE k.kind = "sprint"
  <2> DEFINE always == <<k.start, IF k.end = NoDay THEN d ELSE k.end>>
  <2>1. k.start \in Int /\ k.end \in Days
    BY <1>1 DEF IsSchedule
  <2>2. d \in RuleDays(k, w) <=> d \in SprintDays(k.edge, k.offset) /\ k.start <= d /\ (k.end # NoDay => d <= k.end)
    BY <1>2, <2>1 DEF RuleDays, Larger, Smaller, Inside, Days
  <2>3. d \in RuleDays(k, always) <=> d \in SprintDays(k.edge, k.offset) /\ k.start <= d /\ (k.end # NoDay => d <= k.end)
    BY <1>2, <2>1 DEF RuleDays, Larger, Smaller, Days
  <2> QED  BY <1>2, <2>2, <2>3 DEF Held, OccurrencesOf
<1>3. CASE k.kind # "sprint"
  BY <1>1, <1>3, OccurrencesAreDays DEF Held, OccurrencesOf, RuleDays
<1> QED  BY <1>2, <1>3

-----------------------------------------------------------------------------
(* A member's minutes                                                      *)

\* What the schemas say of a team's members, projects and meetings.
LEMMA TheTeamsRecords ==
  ASSUME team \in Teams
  PROVE  /\ IsFiniteSet(Members) /\ IsFiniteSet(Counting) /\ Counting \subseteq Members
         /\ IsFiniteSet(DOMAIN team.projects) /\ IsFiniteSet(team.meetings)
         /\ \A k \in team.meetings : k.minutes \in Nat
         /\ \A m \in Members :
              /\ IsFiniteSet(Versions(m)) /\ Versions(m) # {}
              /\ \A v \in Versions(m) : v.from \in Int /\ v.halfDay \in Nat /\ v.focus \in Nat /\ IsFiniteSet(v.worked)
<1>1. IsTeam(team)
  BY TeamsAssumption
<1>2. IsFiniteSet(Members) /\ Counting \subseteq Members
  BY <1>1 DEF IsTeam, Members, Counting
<1>3. IsFiniteSet(Counting)
  BY <1>2, FS_Subset
<1> QED  BY <1>1, <1>2, <1>3 DEF IsTeam, Members, Versions

\* The version of a day is one of the member's.
LEMMA ResolvedVersionIsOwn ==
  ASSUME team \in Teams, NEW m \in Members, NEW d \in Int
  PROVE  ResolveVersion(m, d) \in Versions(m)
<1> DEFINE begun == {v \in Versions(m) : v.from <= d}
           f == [v \in Versions(m) |-> v.from]
           g == [v \in begun |-> -v.from]
<1>1. /\ IsFiniteSet(Versions(m)) /\ Versions(m) # {}
      /\ \A v \in Versions(m) : v.from \in Int
  BY TheTeamsRecords
<1>2. CASE begun = {}
  <2>1. \A v \in Versions(m) : f[v] \in Int
    BY <1>1
  <2>2. \E v \in Versions(m) : \A u \in Versions(m) : f[v] <= f[u]
    <3> HIDE DEF f
    <3> QED  BY <1>1, <2>1, LeastMember
  <2>3. \E v \in Versions(m) : \A u \in Versions(m) : v.from <= u.from
    BY <2>2
  <2> QED  BY <1>2, <2>3 DEF ResolveVersion
<1>3. CASE begun # {}
  <2>1. IsFiniteSet(begun) /\ \A v \in begun : g[v] \in Int
    BY <1>1, FS_Subset
  <2>2. \E v \in begun : \A u \in begun : g[v] <= g[u]
    <3> HIDE DEF g, begun
    <3> QED  BY <1>3, <2>1, LeastMember
  <2>3. \E v \in begun : \A u \in begun : u.from <= v.from
    <3>1. PICK v \in begun : \A u \in begun : g[v] <= g[u]
      BY <2>2
    <3>2. \A u \in begun : u.from \in Int /\ g[u] = -u.from
      BY <1>1
    <3> HIDE DEF g, begun
    <3>3. \A u \in begun : u.from <= v.from
      BY <3>1, <3>2
    <3> QED  BY <3>3
  <2>4. (CHOOSE v \in begun : \A u \in begun : u.from <= v.from) \in begun
    BY <2>3
  <2> QED  BY <1>3, <2>4 DEF ResolveVersion
<1> QED  BY <1>2, <1>3

\* The minutes booked in a half are a natural.
LEMMA MeetingMinutes ==
  ASSUME team \in Teams, NEW m, NEW d, NEW w, NEW h \in Halves
  PROVE  MeetingsOn(m, d, w)[h] \in Nat
<1> DEFINE K == {k \in team.meetings : k.half = h /\ m \in k.attendees /\ d \in OccurrencesOf(k, w)}
           f == [k \in K |-> k.minutes]
<1>1. IsFiniteSet(K) /\ \A k \in K : f[k] \in Nat
  BY TheTeamsRecords, FS_Subset
<1>2. MeetingsOn(m, d, w)[h] = SumFunctionOnSet(f, K)
  BY DEF MeetingsOn, Sum, SumFunction
<1> HIDE DEF f, K
<1> QED  BY <1>1, <1>2, SumIsNat

\* A charge takes no half below nothing.
LEMMA ChargesStayNatural ==
  ASSUME NEW room \in [Halves -> Nat], NEW minutes \in Nat, NEW h \in Halves
  PROVE  Charge(room, minutes, h) \in [Halves -> Nat]
<1> DEFINE here == Smaller(room[h], minutes)
           there == Smaller(room[OtherHalf(h)], minutes - here)
<1>1. OtherHalf(h) \in Halves /\ OtherHalf(h) # h
  BY DEF Halves, OtherHalf
<1>2. room[h] \in Nat /\ room[OtherHalf(h)] \in Nat
  BY <1>1
<1>3. here \in Nat /\ room[h] - here \in Nat /\ minutes - here \in Nat
  BY <1>2 DEF Smaller
<1>4. there \in Nat /\ room[OtherHalf(h)] - there \in Nat
  BY <1>2, <1>3 DEF Smaller
<1>5. Charge(room, minutes, h) = [room EXCEPT ![h] = @ - here, ![OtherHalf(h)] = @ - there]
  BY DEF Charge
<1> HIDE DEF here, there
<1> QED  BY <1>1, <1>3, <1>4, <1>5

\* What is left of a day is a natural, under the day's version.
LEMMA DayFiguresAreNatural ==
  ASSUME NEW version, version.halfDay \in Nat, version.focus \in Nat, NEW owed, NEW holiday, NEW absent,
         NEW starts, \A h \in Halves : starts[h] \in Nat
  PROVE  /\ DayFigures(version, owed, holiday, absent, starts).net \in Nat
         /\ DayFigures(version, owed, holiday, absent, starts).version = version
<1> DEFINE present == owed \ (holiday \cup absent)
           room == [h \in Halves |-> IF h \in present THEN version.halfDay ELSE 0]
           one == IF "am" \in present THEN Charge(room, starts["am"], "am") ELSE room
           left == AfterMeetings(room, present, starts, "am")
<1>1. room \in [Halves -> Nat] /\ starts["am"] \in Nat /\ starts["pm"] \in Nat /\ "am" \in Halves /\ "pm" \in Halves
  BY DEF Halves
<1> HIDE DEF room
<1>2. one \in [Halves -> Nat]
  BY <1>1, ChargesStayNatural
<1>3. left = IF "pm" \in present THEN Charge(one, starts["pm"], "pm") ELSE one
  BY DEF AfterMeetings, OtherHalf
<1> HIDE DEF one, left
<1>4. left \in [Halves -> Nat]
  BY <1>1, <1>2, <1>3, ChargesStayNatural
<1>5. left["am"] \in Nat /\ left["pm"] \in Nat
  BY <1>1, <1>4
<1>6. (left["am"] + left["pm"]) * version.focus \in Nat
  BY <1>5
<1>7. /\ DayFigures(version, owed, holiday, absent, starts).net = (left["am"] + left["pm"]) * version.focus
      /\ DayFigures(version, owed, holiday, absent, starts).version = version
  BY DEF DayFigures, left, room
<1> QED  BY <1>6, <1>7

\* A member's minutes of a sprint are those of her versions together.
LEMMA MinutesByVersion ==
  ASSUME team \in Teams, NEW m \in Members, NEW s, s.start \in Int, s.end \in Int, NEW w
  PROVE  LET c == MemberCapacity(m, s, w) IN
         /\ c.net \in Nat /\ \A v \in Versions(m) : c.byVersion[v] \in Nat
         /\ c.byVersion = [v \in Versions(m) |-> c.byVersion[v]]
         /\ c.net = SumFunctionOnSet(c.byVersion, Versions(m))
<1> DEFINE D == {e \in s.start .. s.end : ActiveOn(m, e)}
           of == [d \in D |-> DayCapacity(m, d, w)]
           net == [d \in D |-> of[d].net]
           version == [d \in D |-> of[d].version]
           on(v) == {d \in D : version[d] = v}
           c == MemberCapacity(m, s, w)
<1>1. IsFiniteSet(D) /\ D \subseteq Int
  <2>1. IsFiniteSet(s.start .. s.end)
    BY FS_Interval
  <2>2. D \in SUBSET (s.start .. s.end) /\ D \subseteq Int
    OBVIOUS
  <2> QED  BY <2>1, <2>2, FS_Subset
<1>2. ASSUME NEW d \in D
      PROVE  net[d] \in Nat /\ version[d] \in Versions(m)
  <2>1. ResolveVersion(m, d) \in Versions(m)
    BY <1>1, ResolvedVersionIsOwn
  <2>2. ResolveVersion(m, d).halfDay \in Nat /\ ResolveVersion(m, d).focus \in Nat
    BY <2>1, TheTeamsRecords
  <2>3. \A h \in Halves : MeetingsOn(m, d, w)[h] \in Nat
    BY MeetingMinutes
  <2>4. DayCapacity(m, d, w).net \in Nat /\ DayCapacity(m, d, w).version = ResolveVersion(m, d)
    BY <2>2, <2>3, DayFiguresAreNatural DEF DayCapacity
  <2> QED  BY <2>1, <2>4
<1>3. /\ c.net = Sum([d \in D |-> of[d].net])
      /\ c.byVersion = [v \in Versions(m) |-> Sum([d \in {d \in D : of[d].version = v} |-> of[d].net])]
  BY DEF MemberCapacity, Totals
<1> HIDE DEF D, c
<1>4. c.net = SumFunctionOnSet(net, D)
  BY <1>3 DEF Sum, SumFunction
<1>5. ASSUME NEW v \in Versions(m)
      PROVE  c.byVersion[v] = SumFunctionOnSet(net, on(v)) /\ c.byVersion[v] \in Nat
  <2> DEFINE part == [d \in on(v) |-> of[d].net]
  <2>1. {d \in D : of[d].version = v} = on(v)
    OBVIOUS
  <2>2. c.byVersion[v] = SumFunctionOnSet(part, on(v))
    BY <1>3, <2>1 DEF Sum, SumFunction
  <2>3. IsFiniteSet(on(v)) /\ \A d \in on(v) : net[d] \in Nat /\ part[d] = net[d]
    BY <1>1, <1>2, FS_Subset
  <2> HIDE DEF on, part, net
  <2>4. SumFunctionOnSet(part, on(v)) = SumFunctionOnSet(net, on(v)) /\ SumFunctionOnSet(net, on(v)) \in Nat
    BY <2>3, SumSame, SumIsNat
  <2> QED  BY <2>2, <2>4
<1>6. c.byVersion = [v \in Versions(m) |-> SumFunctionOnSet(net, on(v))]
  BY <1>3, <1>5
<1>7. IsFiniteSet(Versions(m))
  BY TheTeamsRecords
<1> DEFINE C == Versions(m)
<1>8. SumFunctionOnSet([v \in C |-> SumFunctionOnSet(net, {d \in D : version[d] = v})], C) = SumFunctionOnSet(net, D)
  <2>1. /\ \A d \in D : net[d] \in Nat
        /\ \A d \in D : version[d] \in C
        /\ IsFiniteSet(D) /\ IsFiniteSet(C)
    BY <1>1, <1>2, <1>7
  <2> HIDE DEF net, version, C
  <2> QED  BY <2>1, SumByClass
<1>9. c.net \in Nat
  BY <1>1, <1>2, <1>4, SumIsNat
<1> QED  BY <1>4, <1>5, <1>6, <1>8, <1>9 DEF c

-----------------------------------------------------------------------------
(* What the projects share out                                             *)

\* The hundredths of a version's hours that a project takes of a member, if it counts him.
Part(p, m, v) == IF CountsFor(p, m) THEN Weight(p, m, v) ELSE 0

Booked(m, v) == Sum([q \in Fixed(m) |-> WeightOf(FixedShare(q, m), v)])

\* What a share takes is a natural.
LEMMA WeightsAreNatural ==
  ASSUME team \in Teams, NEW p \in DOMAIN team.projects, NEW m, NEW v, IsFiniteSet(v.worked)
  PROVE  WeightOf(FixedShare(p, m), v) \in Nat
<1> DEFINE share == FixedShare(p, m)
           halves == Cardinality(v.worked)
<1>1. IsShare(share)
  <2>1. /\ IsShare(team.projects[p].share)
        /\ \A n \in DOMAIN team.projects[p].listed :
             team.projects[p].listed[n] = None \/ IsShare(team.projects[p].listed[n])
    BY TeamsAssumption DEF IsTeam
  <2> QED  BY <2>1 DEF FixedShare
<1>2. halves \in Nat
  BY FS_CardinalityType
<1> HIDE DEF share, halves
<1>3. share.n \in Nat
  BY <1>1 DEF IsShare
<1>4. CASE share.unit = "pct"
  BY <1>3, <1>4 DEF WeightOf, share
<1>5. CASE share.unit # "pct" /\ halves = 0
  BY <1>5 DEF WeightOf, share, halves
<1>6. CASE share.unit # "pct" /\ halves # 0
  <2>1. WeightOf(share, v) = Smaller(100, (200 * share.n) \div halves)
    BY <1>6 DEF WeightOf, halves
  <2>2. 200 * share.n \in Nat
    BY <1>3
  <2> DEFINE total == 200 * share.n
  <2> HIDE DEF total
  <2>3. total \div halves \in Nat
    BY <1>2, <1>6, <2>2 DEF total
  <2> QED  BY <2>1, <2>3 DEF Smaller, total, share
<1> QED  BY <1>4, <1>5, <1>6

\* What the other projects take is a natural, and so is every part.
LEMMA BookedIsNatural ==
  ASSUME team \in Teams, NEW m, NEW v, IsFiniteSet(v.worked)
  PROVE  /\ IsFiniteSet(Fixed(m)) /\ Fixed(m) \subseteq DOMAIN team.projects
         /\ Booked(m, v) \in Nat
         /\ \A p \in DOMAIN team.projects : Part(p, m, v) \in Nat
<1> DEFINE f == [q \in Fixed(m) |-> WeightOf(FixedShare(q, m), v)]
<1>1. IsFiniteSet(Fixed(m)) /\ Fixed(m) \subseteq DOMAIN team.projects
  <2>1. Fixed(m) \subseteq DOMAIN team.projects
    BY DEF Fixed
  <2> QED  BY <2>1, TheTeamsRecords, FS_Subset
<1>2. \A q \in Fixed(m) : f[q] \in Nat
  BY <1>1, WeightsAreNatural
<1>3. Booked(m, v) = SumFunctionOnSet(f, Fixed(m))
  BY DEF Booked, Sum, SumFunction
<1>4. Booked(m, v) \in Nat
  <2> HIDE DEF f
  <2> QED  BY <1>1, <1>2, <1>3, SumIsNat
<1>5. ASSUME NEW p \in DOMAIN team.projects
      PROVE  Part(p, m, v) \in Nat
  <2>1. Weight(p, m, v) = IF team.projects[p].remaining THEN Larger(0, 100 - Booked(m, v))
                          ELSE WeightOf(FixedShare(p, m), v)
    BY DEF Weight, Booked
  <2>2. Larger(0, 100 - Booked(m, v)) \in Nat
    BY <1>4 DEF Larger
  <2>3. WeightOf(FixedShare(p, m), v) \in Nat
    BY WeightsAreNatural
  <2> QED  BY <2>1, <2>2, <2>3 DEF Part
<1> QED  BY <1>1, <1>4, <1>5

\* With a remaining project, the parts of a member add up to the whole, or to what is booked.
LEMMA PartsAddUp ==
  ASSUME team \in Teams, NEW r \in DOMAIN team.projects, team.projects[r].remaining,
         NEW m, NEW v, IsFiniteSet(v.worked)
  PROVE  LET all == SumFunctionOnSet([p \in DOMAIN team.projects |-> Part(p, m, v)], DOMAIN team.projects)
         IN all \in Nat /\ all >= 100 /\ (Booked(m, v) <= 100 => all = 100)
<1> DEFINE P == DOMAIN team.projects
           part == [p \in P |-> Part(p, m, v)]
           rest == P \ {r}
           fixed == [q \in Fixed(m) |-> WeightOf(FixedShare(q, m), v)]
<1>1. /\ IsFiniteSet(P) /\ \A p \in P : part[p] \in Nat
      /\ Booked(m, v) \in Nat /\ IsFiniteSet(Fixed(m)) /\ Fixed(m) \subseteq P
  BY TheTeamsRecords, BookedIsNatural
<1>2. team.projects[r].all /\ \A q \in P : team.projects[q].remaining => q = r
  BY TeamsAssumption DEF IsTeam
<1>3. part[r] = Larger(0, 100 - Booked(m, v))
  BY <1>2 DEF Part, CountsFor, Weight, Booked
<1>4. Fixed(m) = {q \in rest : CountsFor(q, m)}
  BY <1>2 DEF Fixed
<1>5. \A q \in Fixed(m) : part[q] = fixed[q] /\ part[q] \in Nat
  BY <1>1, <1>4 DEF Part, Weight, Fixed
<1>6. \A q \in rest \ Fixed(m) : part[q] = 0
  BY <1>4 DEF Part
<1>7. Booked(m, v) = SumFunctionOnSet(fixed, Fixed(m))
  BY DEF Booked, Sum, SumFunction
<1>8. IsFiniteSet(rest)
  BY <1>1, FS_Subset
<1> HIDE DEF part, fixed, P
<1>9. SumFunctionOnSet(fixed, Fixed(m)) = SumFunctionOnSet(part, Fixed(m))
  BY <1>1, <1>5, SumSame
<1>10. SumFunctionOnSet(part, rest) = SumFunctionOnSet(part, Fixed(m))
  BY <1>1, <1>4, <1>6, <1>8, SumOverSome
<1>11. SumFunctionOnSet(part, P) = part[r] + SumFunctionOnSet(part, rest)
  <2>1. r \in P
    BY DEF P
  <2> QED  BY <1>1, <2>1, SumMore
<1>12. SumFunctionOnSet(part, P) = Larger(0, 100 - Booked(m, v)) + Booked(m, v)
  BY <1>3, <1>7, <1>9, <1>10, <1>11
<1>13. SumFunctionOnSet(part, P) \in Nat /\ SumFunctionOnSet(part, P) >= 100
       /\ (Booked(m, v) <= 100 => SumFunctionOnSet(part, P) = 100)
  BY <1>1, <1>12 DEF Larger
<1> QED  BY <1>13 DEF part, P

\* A member's minutes of each version, with every version of hers present.
Kept(m, c) ==
  /\ c.net \in Nat /\ \A v \in Versions(m) : c.byVersion[v] \in Nat
  /\ c.net = SumFunctionOnSet(c.byVersion, Versions(m))

Some(p) == {m \in Counting : CountsFor(p, m)}

\* A project counts finitely many members, with finitely many versions.
LEMMA SomeAreFinite ==
  ASSUME team \in Teams, NEW p
  PROVE  /\ IsFiniteSet(Counting) /\ IsFiniteSet(Some(p)) /\ Some(p) \subseteq Counting
         /\ \A m \in Counting : m \in Members /\ IsFiniteSet(Versions(m)) /\ \A v \in Versions(m) : IsFiniteSet(v.worked)
<1>1. Some(p) \in SUBSET Counting
  BY DEF Some
<1> QED  BY <1>1, TheTeamsRecords, FS_Subset

\* What a project takes of a member: by its weight of every version.
LEMMA SharedIsNatural ==
  ASSUME team \in Teams, NEW p \in DOMAIN team.projects, NEW m \in Some(p), NEW c, Kept(m, c)
  PROVE  /\ SharedMinutes(p, m, c) \in Nat
         /\ SharedMinutes(p, m, c) = SumFunctionOnSet([v \in Versions(m) |-> c.byVersion[v] * Part(p, m, v)], Versions(m))
         /\ \A v \in Versions(m) : Weight(p, m, v) \in Nat
<1> DEFINE g == [v \in Versions(m) |-> c.byVersion[v] * Weight(p, m, v)]
<1>1. m \in Counting /\ CountsFor(p, m)
  BY DEF Some
<1>2. IsFiniteSet(Versions(m)) /\ \A v \in Versions(m) : IsFiniteSet(v.worked)
  BY <1>1, SomeAreFinite
<1>3. \A v \in Versions(m) : Part(p, m, v) = Weight(p, m, v) /\ Part(p, m, v) \in Nat
  BY <1>1, <1>2, BookedIsNatural DEF Part
<1>4. g = [v \in Versions(m) |-> c.byVersion[v] * Part(p, m, v)]
  BY <1>3
<1>5. SharedMinutes(p, m, c) = SumFunctionOnSet(g, Versions(m))
  BY DEF SharedMinutes, Sum, SumFunction
<1>6. \A v \in Versions(m) : g[v] \in Nat
  BY <1>3 DEF Kept
<1> HIDE DEF g
<1>7. SumFunctionOnSet(g, Versions(m)) \in Nat
  BY <1>2, <1>6, SumIsNat
<1> QED  BY <1>3, <1>4, <1>5, <1>7

\* Either way of adding up a project's members comes to the same.
LEMMA ProjectMinutesByMember ==
  ASSUME team \in Teams, NEW p \in DOMAIN team.projects,
         NEW capacities, \A m \in Some(p) : Kept(m, capacities[m])
  PROVE  ProjectMinutes(p, capacities) = SumFunctionOnSet([m \in Some(p) |-> SharedMinutes(p, m, capacities[m])], Some(p))
<1> DEFINE some == Some(p)
           part(m) == [v \in Versions(m) |-> capacities[m].byVersion[v] * Part(p, m, v)]
           shared == [m \in some |-> SharedMinutes(p, m, capacities[m])]
           net == [m \in some |-> capacities[m].net]
           n == team.projects[p].share.n
<1>1. /\ IsFiniteSet(some) /\ some \subseteq Counting
      /\ \A m \in some : IsFiniteSet(Versions(m)) /\ CountsFor(p, m)
  BY SomeAreFinite DEF Some
<1>2. CASE ~ Uniform(p)
  BY <1>2 DEF ProjectMinutes, Sum, SumFunction, Some
<1>3. CASE Uniform(p)
  <2>1. ProjectMinutes(p, capacities) = n * SumFunctionOnSet(net, some)
    BY <1>3 DEF ProjectMinutes, Sum, SumFunction, Some
  <2>2. n \in Nat
    BY TeamsAssumption DEF IsTeam, IsShare
  <2>3. ASSUME NEW m \in some
        PROVE  shared[m] = n * net[m]
    <3>1. Kept(m, capacities[m])
      OBVIOUS
    <3>2. \A v \in Versions(m) : part(m)[v] = n * capacities[m].byVersion[v] /\ capacities[m].byVersion[v] \in Nat
      <4>1. \A v \in Versions(m) : Part(p, m, v) = n
        BY <1>1, <1>3 DEF Part, Weight, WeightOf, FixedShare, Uniform
      <4> QED  BY <2>2, <3>1, <4>1 DEF Kept
    <3>3. IsFiniteSet(Versions(m))
      BY <1>1
    <3>4. SumFunctionOnSet(part(m), Versions(m)) = n * SumFunctionOnSet(capacities[m].byVersion, Versions(m))
      <4> DEFINE by == capacities[m].byVersion
                 V == Versions(m)
                 g == part(m)
      <4>1. IsFiniteSet(V) /\ \A v \in V : by[v] \in Nat /\ g[v] = n * by[v]
        BY <3>2, <3>3
      <4> HIDE DEF by, V, g, n
      <4>2. SumFunctionOnSet(g, V) = n * SumFunctionOnSet(by, V)
        BY <2>2, <4>1, SumTimes
      <4> QED  BY <4>2 DEF by, V, g
    <3>5. capacities[m].net = SumFunctionOnSet(capacities[m].byVersion, Versions(m))
      BY <3>1 DEF Kept
    <3>6. SharedMinutes(p, m, capacities[m]) = SumFunctionOnSet(part(m), Versions(m))
      BY <3>1, SharedIsNatural
    <3> QED  BY <3>4, <3>5, <3>6
  <2>4. \A m \in some : net[m] \in Nat
    BY DEF Kept
  <2> HIDE DEF shared, some, net, n
  <2>5. SumFunctionOnSet(shared, some) = n * SumFunctionOnSet(net, some)
    BY <1>1, <2>2, <2>3, <2>4, SumTimes
  <2> QED  BY <2>1, <2>5 DEF shared, some
<1> QED  BY <1>2, <1>3

\* A project takes its part of every version of every member, and nothing of whom it does not count.
LEMMA ProjectMinutesInParts ==
  ASSUME team \in Teams, NEW p \in DOMAIN team.projects,
         NEW capacities, \A m \in Counting : Kept(m, capacities[m])
  PROVE  ProjectMinutes(p, capacities) =
           SumFunctionOnSet([m \in Counting |->
             SumFunctionOnSet([v \in Versions(m) |-> capacities[m].byVersion[v] * Part(p, m, v)], Versions(m))], Counting)
<1> DEFINE part(m) == [v \in Versions(m) |-> capacities[m].byVersion[v] * Part(p, m, v)]
           parts == [m \in Counting |-> SumFunctionOnSet(part(m), Versions(m))]
           shared == [m \in Some(p) |-> SharedMinutes(p, m, capacities[m])]
<1>1. /\ IsFiniteSet(Counting) /\ IsFiniteSet(Some(p)) /\ Some(p) \subseteq Counting
      /\ \A m \in Counting : IsFiniteSet(Versions(m))
  BY SomeAreFinite
<1>2. \A m \in Some(p) : shared[m] = parts[m] /\ shared[m] \in Nat
  BY <1>1, SharedIsNatural
<1>3. ASSUME NEW m \in Counting \ Some(p)
      PROVE  parts[m] = 0
  <2> DEFINE zero == [v \in Versions(m) |-> 0]
  <2>1. part(m) = [v \in Versions(m) |-> capacities[m].byVersion[v] * 0]
    BY DEF Part, Some
  <2>2. part(m) = zero
    BY <2>1 DEF Kept
  <2>3. \A v \in Versions(m) : zero[v] \in Nat /\ zero[v] = 0 * zero[v]
    OBVIOUS
  <2>4. parts[m] = SumFunctionOnSet(zero, Versions(m)) /\ IsFiniteSet(Versions(m))
    BY <1>1, <2>2
  <2> HIDE DEF zero, parts
  <2>5. SumFunctionOnSet(zero, Versions(m)) = 0 * SumFunctionOnSet(zero, Versions(m)) /\ SumFunctionOnSet(zero, Versions(m)) \in Nat
    BY <2>3, <2>4, SumTimes, SumIsNat
  <2> QED  BY <2>4, <2>5
<1> HIDE DEF parts, shared
<1>4. SumFunctionOnSet(parts, Counting) = SumFunctionOnSet(parts, Some(p))
  BY <1>1, <1>2, <1>3, SumOverSome
<1>5. SumFunctionOnSet(parts, Some(p)) = SumFunctionOnSet(shared, Some(p))
  BY <1>1, <1>2, SumSame
<1>6. ProjectMinutes(p, capacities) = SumFunctionOnSet(shared, Some(p))
  BY <1>1, ProjectMinutesByMember DEF shared
<1> QED  BY <1>4, <1>5, <1>6 DEF parts

\* What the projects take of one member together.
LEMMA MemberIsSharedOut ==
  ASSUME team \in Teams, NEW r \in DOMAIN team.projects, team.projects[r].remaining,
         NEW m \in Members, NEW c, Kept(m, c)
  PROVE  LET P == DOMAIN team.projects
             V == Versions(m)
             out == SumFunctionOnSet([p \in P |-> SumFunctionOnSet([v \in V |-> c.byVersion[v] * Part(p, m, v)], V)], P)
         IN /\ out \in Nat /\ out >= 100 * c.net
            /\ (\A v \in V : Booked(m, v) <= 100) => out = 100 * c.net
<1> DEFINE P == DOMAIN team.projects
           V == Versions(m)
           by == c.byVersion
           F == [p \in P |-> [v \in V |-> by[v] * Part(p, m, v)]]
           part(v) == [p \in P |-> Part(p, m, v)]
           column(v) == [p \in P |-> by[v] * Part(p, m, v)]
           whole(v) == SumFunctionOnSet(part(v), P)
           g == [v \in V |-> by[v] * whole(v)]
           h == [v \in V |-> 100 * by[v]]
           out == SumFunctionOnSet([p \in P |-> SumFunctionOnSet([v \in V |-> by[v] * Part(p, m, v)], V)], P)
<1>1. /\ IsFiniteSet(P) /\ IsFiniteSet(V)
      /\ \A v \in V : by[v] \in Nat /\ IsFiniteSet(v.worked)
  BY TheTeamsRecords DEF Kept
<1>2. \A v \in V : \A p \in P : Part(p, m, v) \in Nat
  BY <1>1, BookedIsNatural
<1>3. \A v \in V : whole(v) \in Nat /\ whole(v) >= 100 /\ (Booked(m, v) <= 100 => whole(v) = 100)
  BY <1>1, PartsAddUp
<1>4. \A p \in P, v \in V : by[v] * Part(p, m, v) \in Nat
  BY <1>1, <1>2
<1>5. out = SumFunctionOnSet([v \in V |-> SumFunctionOnSet(column(v), P)], V)
  <2>1. \A p \in P, v \in V : F[p][v] \in Nat
    BY <1>4
  <2>2. SumFunctionOnSet([p \in P |-> SumFunctionOnSet([v \in V |-> F[p][v]], V)], P)
          = SumFunctionOnSet([v \in V |-> SumFunctionOnSet([p \in P |-> F[p][v]], P)], V)
    <3> HIDE DEF F, P, V
    <3> QED  BY <1>1, <2>1, SumSwap
  <2>3. \A p \in P : [v \in V |-> F[p][v]] = [v \in V |-> by[v] * Part(p, m, v)]
    OBVIOUS
  <2>4. \A v \in V : [p \in P |-> F[p][v]] = column(v)
    OBVIOUS
  <2> HIDE DEF F, P, V, column
  <2>5. [p \in P |-> SumFunctionOnSet([v \in V |-> F[p][v]], V)] = [p \in P |-> SumFunctionOnSet([v \in V |-> by[v] * Part(p, m, v)], V)]
    BY <2>3
  <2>6. [v \in V |-> SumFunctionOnSet([p \in P |-> F[p][v]], P)] = [v \in V |-> SumFunctionOnSet(column(v), P)]
    BY <2>4
  <2> QED  BY <2>2, <2>5, <2>6
<1>6. ASSUME NEW v \in V
      PROVE  SumFunctionOnSet(column(v), P) = by[v] * whole(v)
  <2> DEFINE x == by[v]
             f == part(v)
             col == column(v)
  <2>1. \A p \in P : f[p] \in Nat /\ col[p] = x * f[p]
    BY <1>2
  <2>2. x \in Nat
    BY <1>1
  <2> HIDE DEF x, f, col, P
  <2>3. SumFunctionOnSet(col, P) = x * SumFunctionOnSet(f, P)
    BY <1>1, <2>1, <2>2, SumTimes
  <2> QED  BY <2>3 DEF x, f, col
<1>7. out = SumFunctionOnSet(g, V)
  <2>1. [v \in V |-> SumFunctionOnSet(column(v), P)] = g
    BY <1>6
  <2> QED  BY <1>5, <2>1
<1>8. \A v \in V : /\ g[v] \in Nat /\ h[v] \in Nat /\ h[v] <= g[v] /\ h[v] = 100 * by[v]
                   /\ Booked(m, v) <= 100 => g[v] = h[v]
  <2>1. ASSUME NEW v \in V
        PROVE  /\ by[v] * whole(v) \in Nat /\ 100 * by[v] \in Nat /\ 100 * by[v] <= by[v] * whole(v)
               /\ Booked(m, v) <= 100 => by[v] * whole(v) = 100 * by[v]
    <3> DEFINE x == by[v]
               y == whole(v)
    <3>1. x \in Nat /\ y \in Nat /\ y >= 100 /\ (Booked(m, v) <= 100 => y = 100)
      BY <1>1, <1>3
    <3> HIDE DEF x, y
    <3>2. x * y \in Nat /\ 100 * x \in Nat /\ 100 * x <= x * y
      BY <3>1
    <3>3. y = 100 => x * y = 100 * x
      BY <3>1
    <3> QED  BY <3>1, <3>2, <3>3 DEF x, y
  <2> QED  BY <2>1
<1>9. c.net = SumFunctionOnSet(by, V) /\ c.net \in Nat
  BY DEF Kept
<1> HIDE DEF P, V, by, g, h, out
<1>10. SumFunctionOnSet(h, V) = 100 * c.net
  BY <1>1, <1>8, <1>9, SumTimes
<1>11. out \in Nat /\ SumFunctionOnSet(h, V) <= out
  BY <1>1, <1>7, <1>8, SumAtMost, SumIsNat
<1>12. (\A v \in V : Booked(m, v) <= 100) => SumFunctionOnSet(g, V) = SumFunctionOnSet(h, V)
  BY <1>1, <1>8, SumSame
<1> QED  BY <1>7, <1>10, <1>11, <1>12 DEF out, P, V, by

\* The property, of a report rather than of the page that shows it.
Fits == \A m \in Counting, v \in UNION {Versions(n) : n \in Members} : Booked(m, v) <= 100

SharedOut(P, who, fits, figures) == \A i \in DOMAIN figures.cells :
    LET out == Sum([p \in P |-> figures.projects[p][i]])
        all == 100 * Sum([m \in who |-> figures.cells[i][m].net])
    IN out >= all /\ (fits => out = all)

RemainderOf(figures) == (\E p \in DOMAIN team.projects : team.projects[p].remaining)
                          => SharedOut(DOMAIN team.projects, Counting, Fits, figures)

\* The property is that of the report on screen.
LEMMA RemainderRestated == RemainderTakesTheRest <=> (shown.page = "capacity" => RemainderOf(shown.figures))
BY DEF RemainderTakesTheRest, RemainderOf, SharedOut, Fits, Booked

\* With a remaining project, a report shares out what it counts, in every column.
LEMMA ReportSharesOut ==
  ASSUME team \in Teams, NEW w
  PROVE  RemainderOf(BuildReport(w))
<1> DEFINE P == DOMAIN team.projects
           columns == DatedColumns(w)
           figures == BuildReport(w)
<1> SUFFICES ASSUME NEW r \in P, team.projects[r].remaining, NEW i \in DOMAIN figures.cells
             PROVE  LET out == Sum([p \in P |-> figures.projects[p][i]])
                        all == 100 * Sum([m \in Counting |-> figures.cells[i][m].net])
                    IN out >= all /\ (Fits => out = all)
  BY DEF RemainderOf, SharedOut
<1> DEFINE cell == figures.cells[i]
           V(m) == Versions(m)
           part(p, m) == SumFunctionOnSet([v \in V(m) |-> cell[m].byVersion[v] * Part(p, m, v)], V(m))
           F == [p \in P |-> [m \in Counting |-> part(p, m)]]
           given == [p \in P |-> figures.projects[p][i]]
           of(m) == SumFunctionOnSet([p \in P |-> part(p, m)], P)
           taken == [m \in Counting |-> of(m)]
           net == [m \in Counting |-> cell[m].net]
           due == [m \in Counting |-> 100 * net[m]]
<1>1. /\ DOMAIN figures.cells = columns
      /\ cell = [m \in Members |-> MemberCapacity(m, team.sprints[i], Span(columns))]
      /\ \A p \in P : figures.projects[p][i] = ProjectMinutes(p, cell)
  <2>1. figures.cells = [j \in columns |-> [m \in Members |-> MemberCapacity(m, team.sprints[j], Span(columns))]]
    BY DEF BuildReport, Report, Cells
  <2>2. figures.projects = [p \in P |-> [j \in columns |-> ProjectMinutes(p, figures.cells[j])]]
    BY <2>1 DEF BuildReport, Report, Shares, Cells
  <2> HIDE DEF figures, columns
  <2> QED  BY <2>1, <2>2
<1>2. /\ IsFiniteSet(P) /\ IsFiniteSet(Counting) /\ Counting \subseteq Members
      /\ \A m \in Members : IsFiniteSet(Versions(m)) /\ \A v \in Versions(m) : IsFiniteSet(v.worked)
  BY TheTeamsRecords
<1>3. team.sprints[i].start \in Int /\ team.sprints[i].end \in Int
  BY <1>1, ColumnsAreDated
<1> HIDE DEF cell, figures
<1>4. ASSUME NEW m \in Members
      PROVE  Kept(m, cell[m])
  <2>1. cell[m] = MemberCapacity(m, team.sprints[i], Span(columns))
    BY <1>1
  <2> DEFINE s == team.sprints[i]
  <2>2. s.start \in Int /\ s.end \in Int
    BY <1>3
  <2> HIDE DEF s, columns
  <2>3. Kept(m, MemberCapacity(m, s, Span(columns)))
    BY <2>2, MinutesByVersion DEF Kept
  <2> QED  BY <2>1, <2>3 DEF s
<1>5. ASSUME NEW p \in P, NEW m \in Counting
      PROVE  part(p, m) \in Nat
  <2> DEFINE g == [v \in V(m) |-> cell[m].byVersion[v] * Part(p, m, v)]
  <2>1. ASSUME NEW v \in V(m)
        PROVE  g[v] \in Nat
    <3>1. cell[m].byVersion[v] \in Nat /\ Part(p, m, v) \in Nat
      BY <1>2, <1>4, BookedIsNatural DEF Kept
    <3> QED  BY <3>1
  <2>2. IsFiniteSet(V(m))
    BY <1>2
  <2> HIDE DEF g, V
  <2>3. SumFunctionOnSet(g, V(m)) \in Nat
    BY <2>1, <2>2, SumIsNat
  <2> QED  BY <2>3 DEF g
<1>6. ASSUME NEW p \in P
      PROVE  given[p] = SumFunctionOnSet([m \in Counting |-> part(p, m)], Counting)
  BY <1>1, <1>2, <1>4, ProjectMinutesInParts
<1>7. \A p \in P, m \in Counting : F[p][m] = part(p, m) /\ F[p][m] \in Nat
  BY <1>5
<1>8. ASSUME NEW m \in Counting
      PROVE  /\ of(m) \in Nat /\ net[m] \in Nat /\ of(m) >= 100 * net[m]
             /\ Fits => of(m) = 100 * net[m]
  <2>1. Kept(m, cell[m]) /\ m \in Members
    BY <1>2, <1>4
  <2>2. Fits => \A v \in Versions(m) : Booked(m, v) <= 100
    BY <2>1 DEF Fits
  <2>3. /\ of(m) \in Nat /\ of(m) >= 100 * cell[m].net
        /\ (\A v \in Versions(m) : Booked(m, v) <= 100) => of(m) = 100 * cell[m].net
    BY <2>1, MemberIsSharedOut
  <2> HIDE DEF of
  <2> QED  BY <2>1, <2>2, <2>3 DEF Kept
<1> HIDE DEF part
<1>9. SumFunctionOnSet(given, P) = SumFunctionOnSet(taken, Counting)
  <2>1. SumFunctionOnSet([p \in P |-> SumFunctionOnSet([m \in Counting |-> F[p][m]], Counting)], P)
          = SumFunctionOnSet([m \in Counting |-> SumFunctionOnSet([p \in P |-> F[p][m]], P)], Counting)
    <3> HIDE DEF F, P
    <3> QED  BY <1>2, <1>7, SumSwap
  <2>2. \A p \in P : [m \in Counting |-> F[p][m]] = [m \in Counting |-> part(p, m)]
    OBVIOUS
  <2>3. \A m \in Counting : [p \in P |-> F[p][m]] = [p \in P |-> part(p, m)]
    OBVIOUS
  <2> HIDE DEF F, P
  <2>4. [p \in P |-> SumFunctionOnSet([m \in Counting |-> F[p][m]], Counting)] = given
    BY <1>6, <2>2
  <2>5. [m \in Counting |-> SumFunctionOnSet([p \in P |-> F[p][m]], P)] = taken
    BY <2>3
  <2> QED  BY <2>1, <2>4, <2>5
<1>10. \A m \in Counting : /\ taken[m] \in Nat /\ net[m] \in Nat /\ due[m] = 100 * net[m]
                           /\ due[m] \in Nat /\ due[m] <= taken[m] /\ (Fits => taken[m] = due[m])
  <2>1. \A m \in Counting : taken[m] = of(m) /\ due[m] = 100 * net[m]
    OBVIOUS
  <2> HIDE DEF of, taken, due, net
  <2> QED  BY <1>8, <2>1
<1> HIDE DEF taken, due, net, given, P
<1>11. SumFunctionOnSet(due, Counting) = 100 * SumFunctionOnSet(net, Counting)
  BY <1>2, <1>10, SumTimes
<1>12. SumFunctionOnSet(due, Counting) <= SumFunctionOnSet(taken, Counting)
  BY <1>2, <1>10, SumAtMost
<1>13. Fits => SumFunctionOnSet(taken, Counting) = SumFunctionOnSet(due, Counting)
  BY <1>2, <1>10, SumSame
<1>14. SumFunctionOnSet(due, Counting) \in Nat
  BY <1>2, <1>10, SumIsNat
<1>15. Sum(given) = SumFunctionOnSet(given, P) /\ Sum(net) = SumFunctionOnSet(net, Counting)
  BY DEF Sum, SumFunction, given, net
<1>16. Sum(given) >= 100 * Sum(net) /\ (Fits => Sum(given) = 100 * Sum(net))
  BY <1>9, <1>11, <1>12, <1>13, <1>14, <1>15
<1> QED  BY <1>16 DEF given, net, cell

-----------------------------------------------------------------------------
(* Day by day                                                              *)

\* A charge takes its minutes from the day, or all that is left.
LEMMA ChargeTakes ==
  ASSUME NEW room \in [Halves -> Nat], NEW minutes \in Nat, NEW h \in Halves
  PROVE  Charge(room, minutes, h)["am"] + Charge(room, minutes, h)["pm"] = Larger(0, room["am"] + room["pm"] - minutes)
<1> DEFINE here == Smaller(room[h], minutes)
           there == Smaller(room[OtherHalf(h)], minutes - here)
           x == room[h]
           y == room[OtherHalf(h)]
           after == Charge(room, minutes, h)
<1>1. OtherHalf(h) \in Halves /\ OtherHalf(h) # h
  BY DEF Halves, OtherHalf
<1>2. x \in Nat /\ y \in Nat
  BY <1>1
<1>3. after = [room EXCEPT ![h] = @ - here, ![OtherHalf(h)] = @ - there]
  BY DEF Charge
<1>4. after[h] = x - here /\ after[OtherHalf(h)] = y - there
  BY <1>1, <1>3
<1>5. (x - here) + (y - there) = Larger(0, x + y - minutes)
  BY <1>2 DEF Smaller, Larger
<1>6. CASE h = "am"
  <2>1. x = room["am"] /\ y = room["pm"] /\ after["am"] = x - here /\ after["pm"] = y - there
    BY <1>4, <1>6 DEF OtherHalf
  <2> QED  BY <1>5, <2>1
<1>7. CASE h = "pm"
  <2>1. x = room["pm"] /\ y = room["am"] /\ after["pm"] = x - here /\ after["am"] = y - there
    BY <1>4, <1>7 DEF OtherHalf
  <2>2. x - here \in Int /\ y - there \in Int
    BY <1>2 DEF Smaller
  <2> HIDE DEF x, y, here, there, after
  <2>3. after["am"] + after["pm"] = Larger(0, x + y - minutes)
    BY <1>5, <2>1, <2>2
  <2>4. Larger(0, x + y - minutes) = Larger(0, y + x - minutes)
    BY <1>2 DEF Larger
  <2>5. room["am"] = y /\ room["pm"] = x
    BY <2>1
  <2>6. after["am"] + after["pm"] = Larger(0, room["am"] + room["pm"] - minutes)
    BY <2>3, <2>4, <2>5
  <2> QED  BY <2>6 DEF after
<1> QED  BY <1>6, <1>7 DEF Halves

\* The minutes that start in the halves somebody is there.
Started(there, starts) == (IF "am" \in there THEN starts["am"] ELSE 0) + (IF "pm" \in there THEN starts["pm"] ELSE 0)

\* A day has two halves.
LEMMA BothHalves == IsFiniteSet(Halves) /\ Cardinality(Halves) = 2
<1>1. IsFiniteSet({"am"}) /\ Cardinality({"am"}) = 1
  BY FS_Singleton
<1> DEFINE A == {"am"}
           x == "pm"
<1>2. x \notin A /\ Halves = A \cup {x} /\ IsFiniteSet(A) /\ Cardinality(A) = 1
  BY <1>1 DEF Halves
<1> HIDE DEF A, x
<1> QED  BY <1>2, FS_AddElement

\* What meetings leave of a day is the rest of it after all that start in a half at work.
LEMMA MeetingsTake ==
  ASSUME NEW n \in Nat, NEW present \in SUBSET Halves, NEW starts, \A h \in Halves : starts[h] \in Nat
  PROVE  LET room == [h \in Halves |-> IF h \in present THEN n ELSE 0]
             left == AfterMeetings(room, present, starts, "am")
         IN left["am"] + left["pm"] = Larger(0, Cardinality(present) * n - Started(present, starts))
<1> DEFINE room == [h \in Halves |-> IF h \in present THEN n ELSE 0]
           one == IF "am" \in present THEN Charge(room, starts["am"], "am") ELSE room
           left == AfterMeetings(room, present, starts, "am")
           a == IF "am" \in present THEN starts["am"] ELSE 0
           b == IF "pm" \in present THEN starts["pm"] ELSE 0
           total == Cardinality(present) * n
<1>1. room \in [Halves -> Nat] /\ "am" \in Halves /\ "pm" \in Halves /\ a \in Nat /\ b \in Nat
  BY DEF Halves
<1>2. room["am"] + room["pm"] = total /\ total \in Nat
  <2>1. room["am"] = (IF "am" \in present THEN n ELSE 0) /\ room["pm"] = (IF "pm" \in present THEN n ELSE 0)
    BY <1>1
  <2>2. CASE present = {}
    BY <2>1, <2>2, FS_EmptySet
  <2>3. CASE present = {"am"}
    <3>1. Cardinality(present) = 1
      BY <2>3, FS_Singleton
    <3> QED  BY <2>1, <2>3, <3>1
  <2>4. CASE present = {"pm"}
    <3>1. Cardinality(present) = 1
      BY <2>4, FS_Singleton
    <3> QED  BY <2>1, <2>4, <3>1
  <2>5. CASE present = {"am", "pm"}
    <3>1. Cardinality(present) = 2
      BY <2>5, BothHalves DEF Halves
    <3> QED  BY <2>1, <2>5, <3>1
  <2> QED  BY <2>2, <2>3, <2>4, <2>5 DEF Halves
<1>3. one \in [Halves -> Nat] /\ one["am"] + one["pm"] = Larger(0, total - a)
  <2> HIDE DEF room, total
  <2>1. CASE "am" \in present
    <3>1. one = Charge(room, starts["am"], "am") /\ a = starts["am"] /\ starts["am"] \in Nat
      BY <1>1, <2>1
    <3> HIDE DEF one, a
    <3>2. one \in [Halves -> Nat]
      BY <1>1, <3>1, ChargesStayNatural
    <3>3. one["am"] + one["pm"] = Larger(0, room["am"] + room["pm"] - a)
      BY <1>1, <3>1, ChargeTakes
    <3>4. room["am"] \in Nat /\ room["pm"] \in Nat
      BY <1>1
    <3>5. room["am"] + room["pm"] - a = total - a
      BY <1>1, <1>2, <3>4
    <3> QED  BY <3>2, <3>3, <3>5
  <2>2. CASE "am" \notin present
    BY <1>1, <1>2, <2>2 DEF Larger
  <2> QED  BY <2>1, <2>2
<1>4. left = IF "pm" \in present THEN Charge(one, starts["pm"], "pm") ELSE one
  BY DEF AfterMeetings, OtherHalf
<1> HIDE DEF one, total
<1>5. left["am"] + left["pm"] = Larger(0, Larger(0, total - a) - b)
  <2> HIDE DEF left
  <2>1. CASE "pm" \in present
    BY <1>1, <1>3, <1>4, <2>1, ChargeTakes
  <2>2. CASE "pm" \notin present
    BY <1>1, <1>2, <1>3, <1>4, <2>2 DEF Larger
  <2> QED  BY <2>1, <2>2
<1>6. Larger(0, Larger(0, total - a) - b) = Larger(0, total - (a + b))
  <2> HIDE DEF a, b
  <2> QED  BY <1>1, <1>2 DEF Larger
<1> QED  BY <1>5, <1>6 DEF Started, total

There(m, d) == {h \in Halves : ActiveOn(m, d) /\ Owes(m, d, h) /\ ~ OffWork(m, d, h)}

\* The minutes booked of a day are those the window's expansion starts in the halves there.
LEMMA BookedOfTheDay ==
  ASSUME team \in Teams, NEW m, NEW w, NEW d \in Int, Inside(d, w), NEW there \in SUBSET Halves
  PROVE  Sum([k \in {k \in team.meetings : m \in k.attendees /\ k.half \in there /\ Held(k, d)} |-> k.minutes])
           = Started(there, MeetingsOn(m, d, w))
<1> DEFINE minutes == [k \in team.meetings |-> k.minutes]
           all == {k \in team.meetings : m \in k.attendees /\ k.half \in there /\ Held(k, d)}
           on(h) == {k \in team.meetings : k.half = h /\ m \in k.attendees /\ d \in OccurrencesOf(k, w)}
           in(h) == IF h \in there THEN on(h) ELSE {}
           f == [k \in all |-> k.minutes]
           g(h) == [k \in on(h) |-> k.minutes]
<1>1. IsFiniteSet(team.meetings) /\ \A k \in team.meetings : minutes[k] \in Nat /\ k.half \in {"am", "pm"}
  BY TeamsAssumption DEF IsTeam, Halves
<1>2. all \subseteq team.meetings /\ IsFiniteSet(all) /\ \A h : on(h) \subseteq team.meetings /\ IsFiniteSet(on(h)) /\ IsFiniteSet(in(h))
  BY <1>1, FS_Subset, FS_EmptySet
<1>3. all = in("am") \cup in("pm") /\ in("am") \cap in("pm") = {}
  BY <1>1, MeetingsHeldInTheWindow
<1>4. Sum(f) = SumFunctionOnSet(minutes, all)
  <2>1. \A k \in all : minutes[k] \in Nat /\ f[k] = minutes[k]
    BY <1>1
  <2>2. Sum(f) = SumFunctionOnSet(f, all)
    BY DEF Sum, SumFunction
  <2> HIDE DEF f, minutes, all
  <2> QED  BY <1>2, <2>1, <2>2, SumSame
<1>5. ASSUME NEW h \in Halves
      PROVE  SumFunctionOnSet(minutes, in(h)) = IF h \in there THEN MeetingsOn(m, d, w)[h] ELSE 0
  <2>1. \A k \in on(h) : minutes[k] \in Nat /\ g(h)[k] = minutes[k]
    BY <1>1
  <2>2. MeetingsOn(m, d, w)[h] = SumFunctionOnSet(g(h), on(h))
    BY DEF MeetingsOn, Sum, SumFunction
  <2> HIDE DEF g, minutes, on
  <2>3. SumFunctionOnSet(minutes, on(h)) = MeetingsOn(m, d, w)[h]
    BY <1>2, <2>1, <2>2, SumSame
  <2> QED  BY <2>3, SumNone
<1>6. SumFunctionOnSet(minutes, all) = SumFunctionOnSet(minutes, in("am")) + SumFunctionOnSet(minutes, in("pm"))
  <2>1. \A k \in in("am") \cup in("pm") : minutes[k] \in Nat
    BY <1>1, <1>2, <1>3
  <2> HIDE DEF minutes, all, in
  <2> QED  BY <1>2, <1>3, <2>1, SumOfTwo
<1> HIDE DEF f, minutes, all, in
<1>7. Sum(f) = Started(there, MeetingsOn(m, d, w))
  BY <1>4, <1>5, <1>6 DEF Started, Halves
<1> QED  BY <1>7 DEF f, all

\* The figures of a day expanded in a window are what the records say of it.
LEMMA NetDayByDay ==
  ASSUME team \in Teams, NEW m \in Members, NEW w, NEW d \in Int, Inside(d, w)
  PROVE  /\ NetOf(m, d) \in Nat
         /\ IF ActiveOn(m, d) THEN DayCapacity(m, d, w).net = NetOf(m, d) ELSE NetOf(m, d) = 0
         /\ DayCapacity(m, d, w).version = ResolveVersion(m, d)
<1> DEFINE v == ResolveVersion(m, d)
           there == There(m, d)
           starts == MeetingsOn(m, d, w)
           booked == Sum([k \in {k \in team.meetings : m \in k.attendees /\ k.half \in there /\ Held(k, d)} |-> k.minutes])
<1>1. v.halfDay \in Nat /\ v.focus \in Nat
  BY ResolvedVersionIsOwn, TheTeamsRecords
<1>2. \A h \in Halves : starts[h] \in Nat
  BY MeetingMinutes
<1>3. there \in SUBSET Halves /\ IsFiniteSet(there) /\ Cardinality(there) \in Nat
  <2>1. IsFiniteSet(Halves)
    BY BothHalves
  <2>2. there \in SUBSET Halves
    BY DEF There
  <2> QED  BY <2>1, <2>2, FS_Subset, FS_CardinalityType
<1>4. booked = Started(there, starts)
  BY <1>3, BookedOfTheDay
<1>5. NetOf(m, d) = Larger(0, Cardinality(there) * v.halfDay - booked) * v.focus
  BY DEF NetOf, There
<1>6. Started(there, starts) \in Nat
  BY <1>2 DEF Started, Halves
<1>7. NetOf(m, d) \in Nat
  <2> DEFINE x == Cardinality(there) * v.halfDay
             y == v.focus
             n == Larger(0, x - Started(there, starts))
  <2>1. x \in Nat /\ y \in Nat
    BY <1>1, <1>3
  <2> HIDE DEF x, y
  <2>2. n \in Nat
    BY <1>6, <2>1 DEF Larger
  <2>3. NetOf(m, d) = n * y
    BY <1>4, <1>5 DEF x, y
  <2> HIDE DEF n
  <2> QED  BY <2>1, <2>2, <2>3
<1>8. DayCapacity(m, d, w).version = v
  BY DEF DayCapacity, DayFigures
<1>9. ASSUME ActiveOn(m, d)
      PROVE  DayCapacity(m, d, w).net = NetOf(m, d)
  <2> DEFINE owed == {h \in Halves : Owes(m, d, h)}
             present == owed \ ({h \in owed : OnHoliday(m, d, h, w)} \cup {h \in owed : Absent(m, d, h, w)})
             room == [h \in Halves |-> IF h \in present THEN v.halfDay ELSE 0]
             left == AfterMeetings(room, present, starts, "am")
  <2>1. DayCapacity(m, d, w).net = (left["am"] + left["pm"]) * v.focus
    BY DEF DayCapacity, DayFigures
  <2>2. present = there
    BY <1>9, OffWorkInTheWindow DEF There
  <2>3. present \in SUBSET Halves
    OBVIOUS
  <2> HIDE DEF starts, v, present, there
  <2>4. left["am"] + left["pm"] = Larger(0, Cardinality(present) * v.halfDay - Started(present, starts))
    BY <1>1, <1>2, <2>3, MeetingsTake
  <2> QED  BY <1>4, <1>5, <2>1, <2>2, <2>4
<1>10. ASSUME ~ ActiveOn(m, d)
       PROVE  NetOf(m, d) = 0
  <2>1. there = {}
    BY <1>10 DEF There
  <2>2. Cardinality(there) = 0 /\ Started(there, starts) = 0
    BY <2>1, FS_EmptySet DEF Started
  <2> HIDE DEF v, there, starts, booked
  <2>3. Larger(0, Cardinality(there) * v.halfDay - booked) = 0
    BY <1>1, <1>4, <2>2 DEF Larger
  <2> QED  BY <1>1, <1>5, <2>3
<1> QED  BY <1>7, <1>8, <1>9, <1>10

\* Every day of every column is inside the span the columns cover together.
LEMMA SpanCovers ==
  ASSUME team \in Teams, NEW cols \in SUBSET AllColumns, NEW i \in cols
  PROVE  \A d \in team.sprints[i].start .. team.sprints[i].end : d \in Int /\ Inside(d, Span(cols))
<1> DEFINE start == [j \in cols |-> team.sprints[j].start]
           back == [j \in cols |-> -team.sprints[j].end]
           S == {team.sprints[j].start : j \in cols}
           E == {team.sprints[j].end : j \in cols}
<1>1. IsFiniteSet(cols) /\ cols # {} /\ \A j \in cols : team.sprints[j].start \in Int /\ team.sprints[j].end \in Int
  BY ColumnsAreDated, FS_Subset
<1>2. (\A j \in cols : start[j] \in Int) /\ (\A j \in cols : back[j] \in Int)
  BY <1>1
<1>3. \E j \in cols : \A k \in cols : start[j] <= start[k]
  <2> HIDE DEF start
  <2> QED  BY <1>1, <1>2, LeastMember
<1>4. \E j \in cols : \A k \in cols : back[j] <= back[k]
  <2> HIDE DEF back
  <2> QED  BY <1>1, <1>2, LeastMember
<1>5. Min(S) \in Int /\ Min(S) <= team.sprints[i].start
  <2>1. \E x \in S : \A y \in S : x <= y
    BY <1>3
  <2>2. Min(S) \in S /\ \A y \in S : Min(S) <= y
    BY <2>1 DEF Min
  <2> QED  BY <1>1, <2>2
<1>6. Max(E) \in Int /\ Max(E) >= team.sprints[i].end
  <2>1. \E x \in E : \A y \in E : x >= y
    <3>1. PICK j \in cols : \A k \in cols : back[j] <= back[k]
      BY <1>4
    <3>2. \A k \in cols : team.sprints[j].end >= team.sprints[k].end
      BY <1>1, <3>1
    <3> QED  BY <3>2
  <2>2. Max(E) \in E /\ \A y \in E : Max(E) >= y
    BY <2>1 DEF Max
  <2> QED  BY <1>1, <2>2
<1>7. Span(cols)[1] = Min(S) /\ Span(cols)[2] = Max(E)
  BY DEF Span
<1> HIDE DEF S, E
<1> QED  BY <1>1, <1>5, <1>6, <1>7 DEF Inside

\* A member's minutes of a sprint are those of its days, and so is what a project takes of them.
LEMMA CapacityDayByDay ==
  ASSUME team \in Teams, NEW m \in Members, NEW s, s.start \in Int, s.end \in Int,
         NEW w, \A d \in s.start .. s.end : Inside(d, w)
  PROVE  /\ MemberCapacity(m, s, w).net = Sum([d \in s.start .. s.end |-> NetOf(m, d)])
         /\ \A p \in DOMAIN team.projects : m \in Some(p) =>
              SharedMinutes(p, m, MemberCapacity(m, s, w))
                = Sum([d \in s.start .. s.end |-> NetOf(m, d) * Weight(p, m, ResolveVersion(m, d))])
<1> DEFINE I == s.start .. s.end
           D == {e \in I : ActiveOn(m, e)}
           of == [d \in D |-> DayCapacity(m, d, w)]
           net == [d \in D |-> of[d].net]
           version == [d \in D |-> of[d].version]
           each == [d \in I |-> NetOf(m, d)]
           c == MemberCapacity(m, s, w)
           V == Versions(m)
<1>1. IsFiniteSet(I) /\ I \subseteq Int /\ D \in SUBSET I /\ IsFiniteSet(D)
  <2>1. IsFiniteSet(I) /\ I \subseteq Int /\ D \in SUBSET I
    BY FS_Interval
  <2> HIDE DEF I
  <2> QED  BY <2>1, FS_Subset
<1>2. ASSUME NEW d \in I
      PROVE  /\ each[d] \in Nat
             /\ d \in D => net[d] = each[d] /\ net[d] \in Nat /\ version[d] = ResolveVersion(m, d) /\ version[d] \in V
             /\ d \notin D => each[d] = 0
  <2>1. ResolveVersion(m, d) \in V
    BY <1>1, ResolvedVersionIsOwn
  <2>2. /\ NetOf(m, d) \in Nat
        /\ IF ActiveOn(m, d) THEN DayCapacity(m, d, w).net = NetOf(m, d) ELSE NetOf(m, d) = 0
        /\ DayCapacity(m, d, w).version = ResolveVersion(m, d)
    BY <1>1, NetDayByDay
  <2>3. each[d] = NetOf(m, d)
    OBVIOUS
  <2>4. d \in D => ActiveOn(m, d) /\ net[d] = DayCapacity(m, d, w).net /\ version[d] = DayCapacity(m, d, w).version
    OBVIOUS
  <2>5. d \notin D => ~ ActiveOn(m, d)
    OBVIOUS
  <2> HIDE DEF net, each, D, version
  <2> QED  BY <2>1, <2>2, <2>3, <2>4, <2>5
<1>3. /\ c.net = Sum([d \in D |-> of[d].net])
      /\ c.byVersion = [v \in V |-> Sum([d \in {d \in D : of[d].version = v} |-> of[d].net])]
  BY DEF MemberCapacity, Totals
<1>4. c.net = SumFunctionOnSet(net, D)
  BY <1>3 DEF Sum, SumFunction
<1> HIDE DEF I, D, c
<1>5. c.net = Sum(each)
  <2>1. Sum(each) = SumFunctionOnSet(each, I)
    BY DEF Sum, SumFunction
  <2>2. (\A d \in I : each[d] \in Nat) /\ (\A d \in I \ D : each[d] = 0) /\ \A d \in D : each[d] \in Nat /\ net[d] = each[d]
    BY <1>1, <1>2
  <2> HIDE DEF net, each
  <2>3. SumFunctionOnSet(each, I) = SumFunctionOnSet(each, D)
    BY <1>1, <2>2, SumOverSome
  <2>4. SumFunctionOnSet(net, D) = SumFunctionOnSet(each, D)
    BY <1>1, <2>2, SumSame
  <2> QED  BY <1>4, <2>1, <2>3, <2>4
<1>6. ASSUME NEW p \in DOMAIN team.projects, m \in Some(p)
      PROVE  SharedMinutes(p, m, c) = Sum([d \in I |-> NetOf(m, d) * Weight(p, m, ResolveVersion(m, d))])
  <2> DEFINE weight == [v \in V |-> Weight(p, m, v)]
             on(v) == {d \in D : version[d] = v}
             g == [d \in I |-> NetOf(m, d) * Weight(p, m, ResolveVersion(m, d))]
             shared == [v \in V |-> c.byVersion[v] * Weight(p, m, v)]
             classes == [v \in V |-> SumFunctionOnSet(g, on(v))]
  <2>1. IsFiniteSet(V) /\ \A v \in V : weight[v] \in Nat
    <3>1. Kept(m, c)
      BY MinutesByVersion DEF Kept, c
    <3> QED  BY <1>6, <3>1, SharedIsNatural, TheTeamsRecords
  <2>2. ASSUME NEW d \in I
        PROVE  g[d] \in Nat /\ (d \in D => g[d] = weight[version[d]] * net[d]) /\ (d \notin D => g[d] = 0)
    <3>1. g[d] = each[d] * Weight(p, m, ResolveVersion(m, d)) /\ ResolveVersion(m, d) \in V
      BY <1>1, ResolvedVersionIsOwn
    <3>2. Weight(p, m, ResolveVersion(m, d)) \in Nat /\ Weight(p, m, ResolveVersion(m, d)) = weight[ResolveVersion(m, d)]
      BY <2>1, <3>1
    <3> DEFINE x == Weight(p, m, ResolveVersion(m, d))
    <3>3. x \in Nat /\ g[d] = each[d] * x /\ (d \in D => weight[version[d]] = x)
      BY <1>2, <3>1, <3>2
    <3> HIDE DEF x, g, each, weight, net, version
    <3> QED  BY <1>2, <3>3
  <2>3. ASSUME NEW v \in V
        PROVE  shared[v] = classes[v]
    <3> DEFINE part == [d \in on(v) |-> of[d].net]
    <3>1. c.byVersion[v] = SumFunctionOnSet(part, on(v))
      <4>1. {d \in D : of[d].version = v} = on(v)
        OBVIOUS
      <4> QED  BY <1>3, <4>1 DEF Sum, SumFunction
    <3>2. IsFiniteSet(on(v)) /\ \A d \in on(v) : part[d] \in Nat /\ g[d] = weight[v] * part[d]
      <4>1. on(v) \in SUBSET D
        OBVIOUS
      <4>2. \A d \in on(v) : part[d] = net[d] /\ version[d] = v
        OBVIOUS
      <4>3. IsFiniteSet(on(v))
        BY <1>1, <4>1, FS_Subset
      <4> HIDE DEF on, part, net, g, version, weight
      <4> QED  BY <1>1, <1>2, <2>2, <4>1, <4>2, <4>3
    <3>3. shared[v] = c.byVersion[v] * weight[v] /\ classes[v] = SumFunctionOnSet(g, on(v)) /\ weight[v] \in Nat
      BY <2>1
    <3> HIDE DEF on, part, g, weight, shared, classes
    <3>4. SumFunctionOnSet(g, on(v)) = weight[v] * SumFunctionOnSet(part, on(v)) /\ SumFunctionOnSet(part, on(v)) \in Nat
      BY <3>2, <3>3, SumTimes, SumIsNat
    <3> QED  BY <3>1, <3>3, <3>4
  <2>4. SharedMinutes(p, m, c) = SumFunctionOnSet(shared, V)
    BY DEF SharedMinutes, Sum, SumFunction
  <2>5. shared = classes
    <3>1. shared = [v \in V |-> shared[v]] /\ classes = [v \in V |-> classes[v]]
      OBVIOUS
    <3> HIDE DEF shared, classes
    <3> QED  BY <2>3, <3>1
  <2>6. SumFunctionOnSet(classes, V) = SumFunctionOnSet(g, D)
    <3>1. /\ \A d \in D : g[d] \in Nat
          /\ \A d \in D : version[d] \in V
          /\ IsFiniteSet(D) /\ IsFiniteSet(V)
      BY <1>1, <1>2, <2>1, <2>2
    <3>2. SumFunctionOnSet([v \in V |-> SumFunctionOnSet(g, {d \in D : version[d] = v})], V) = SumFunctionOnSet(g, D)
      <4> HIDE DEF g, version, V
      <4> QED  BY <3>1, SumByClass
    <3> QED  BY <3>2
  <2>7. SumFunctionOnSet(g, I) = SumFunctionOnSet(g, D)
    <3>1. (\A d \in I : g[d] \in Nat) /\ \A d \in I \ D : g[d] = 0
      BY <2>2
    <3> HIDE DEF g
    <3> QED  BY <1>1, <3>1, SumOverSome
  <2>8. Sum(g) = SumFunctionOnSet(g, I)
    BY DEF Sum, SumFunction
  <2> QED  BY <2>4, <2>5, <2>6, <2>7, <2>8
<1> QED  BY <1>5, <1>6 DEF I, c

\* What a project is given of a sprint is what its days say, member by member.
LEMMA GivenDayByDay ==
  ASSUME team \in Teams, NEW p \in DOMAIN team.projects, NEW s, s.start \in Int, s.end \in Int,
         NEW w, \A d \in s.start .. s.end : Inside(d, w),
         NEW capacities, \A m \in Some(p) : capacities[m] = MemberCapacity(m, s, w)
  PROVE  ProjectMinutes(p, capacities) = Given(p, s)
<1> DEFINE shared == [m \in Some(p) |-> SharedMinutes(p, m, capacities[m])]
           given == [m \in Some(p) |-> Sum([d \in s.start .. s.end |-> NetOf(m, d) * Weight(p, m, ResolveVersion(m, d))])]
<1>1. \A m \in Some(p) : m \in Members
  BY SomeAreFinite
<1>2. ASSUME NEW m \in Some(p)
      PROVE  Kept(m, capacities[m]) /\ shared[m] = given[m]
  <2>1. Kept(m, MemberCapacity(m, s, w))
    BY <1>1, MinutesByVersion DEF Kept
  <2> DEFINE each == Sum([d \in s.start .. s.end |-> NetOf(m, d) * Weight(p, m, ResolveVersion(m, d))])
  <2>2. m \in Members
    BY <1>1
  <2>3. SharedMinutes(p, m, MemberCapacity(m, s, w)) = each
    BY <2>2, CapacityDayByDay, ZenonT(60)
  <2>4. given[m] = each /\ shared[m] = SharedMinutes(p, m, capacities[m]) /\ capacities[m] = MemberCapacity(m, s, w)
    OBVIOUS
  <2> HIDE DEF each, given, shared
  <2> QED  BY <2>1, <2>3, <2>4
<1>3. shared = given
  BY <1>2
<1>4. ProjectMinutes(p, capacities) = SumFunctionOnSet(shared, Some(p))
  BY <1>2, ProjectMinutesByMember
<1>5. Given(p, s) = SumFunctionOnSet(given, Some(p))
  BY DEF Given, Some, Sum, SumFunction
<1> QED  BY <1>3, <1>4, <1>5

\* The three properties of the pages of capacity, of the records they were computed from.
ReportAgrees(figures) == \A i \in DOMAIN figures.cells :
    /\ \A m \in Members : figures.cells[i][m].net = Sum([d \in team.sprints[i].start .. team.sprints[i].end |-> NetOf(m, d)])
    /\ \A p \in DOMAIN team.projects : figures.projects[p][i] = Given(p, team.sprints[i])

RowsAgree(p, rows) == \A i \in DOMAIN rows : rows[i] = Given(p, team.sprints[i])

HeadersAgree(figures) == \A i \in DOMAIN figures : LET s == team.sprints[i] IN
    figures[i] # {} <=> \E m \in Counting : MemberCapacity(m, s, <<s.start, s.end>>).holiday > 0

\* The property is that of the answer on screen, page by page.
LEMMA PagesRestated == PagesAgree <=> /\ shown.page = "capacity" => ReportAgrees(shown.figures)
                                      /\ shown.page = "push" => RowsAgree(shown.figures.project, shown.figures.rows)
                                      /\ shown.page = "headers" => HeadersAgree(shown.figures)
BY DEF PagesAgree, ReportAgrees, RowsAgree, HeadersAgree

\* A cell of the columns, and a project's minutes of it.
LEMMA CellsAgree ==
  ASSUME team \in Teams, NEW cols \in SUBSET AllColumns, NEW i \in cols, NEW who \in SUBSET Members
  PROVE  LET cell == Cells(cols, who)
             s == team.sprints[i]
         IN /\ \A m \in who : cell[i][m].net = Sum([d \in s.start .. s.end |-> NetOf(m, d)])
            /\ \A p \in DOMAIN team.projects : Some(p) \subseteq who => Shares(p, cell)[i] = Given(p, s)
<1> DEFINE s == team.sprints[i]
           w == Span(cols)
           cell == Cells(cols, who)
<1>1. s.start \in Int /\ s.end \in Int
  BY ColumnsAreDated
<1>2. \A d \in s.start .. s.end : Inside(d, w)
  BY SpanCovers
<1>3. cell[i] = [m \in who |-> MemberCapacity(m, s, w)] /\ DOMAIN cell = cols
  BY DEF Cells
<1> HIDE DEF s, w, cell
<1>4. ASSUME NEW m \in who
      PROVE  cell[i][m].net = Sum([d \in s.start .. s.end |-> NetOf(m, d)])
  <2>1. MemberCapacity(m, s, w).net = Sum([d \in s.start .. s.end |-> NetOf(m, d)])
    BY <1>1, <1>2, CapacityDayByDay
  <2> QED  BY <1>3, <2>1
<1>5. ASSUME NEW p \in DOMAIN team.projects, Some(p) \subseteq who
      PROVE  Shares(p, cell)[i] = Given(p, s)
  <2>1. Shares(p, cell)[i] = ProjectMinutes(p, cell[i])
    BY <1>3 DEF Shares
  <2>2. \A m \in Some(p) : cell[i][m] = MemberCapacity(m, s, w)
    BY <1>3, <1>5
  <2>3. ProjectMinutes(p, cell[i]) = Given(p, s)
    BY <1>1, <1>2, <2>2, GivenDayByDay
  <2> QED  BY <2>1, <2>3
<1> QED  BY <1>4, <1>5 DEF cell, s

\* The capacity view agrees with the days, whatever its window.
LEMMA ReportsAgree ==
  ASSUME team \in Teams, NEW w
  PROVE  ReportAgrees(BuildReport(w))
<1> DEFINE cols == DatedColumns(w)
           cell == Cells(cols, Members)
           P == DOMAIN team.projects
<1>1. cols \in SUBSET AllColumns /\ DOMAIN cell = cols
  BY ColumnsAreDated DEF Cells
<1>2. BuildReport(w).cells = cell /\ BuildReport(w).projects = [p \in P |-> Shares(p, cell)]
  BY DEF BuildReport, Report
<1>3. \A p \in P : Some(p) \subseteq Members
  BY DEF Some, Counting
<1> SUFFICES ASSUME NEW i \in cols
             PROVE  /\ \A m \in Members : cell[i][m].net = Sum([d \in team.sprints[i].start .. team.sprints[i].end |-> NetOf(m, d)])
                    /\ \A p \in P : Shares(p, cell)[i] = Given(p, team.sprints[i])
  BY <1>1, <1>2 DEF ReportAgrees
<1> QED  BY <1>1, <1>3, CellsAgree, ZenonT(60)

\* So does the preview of a push, which leaves out closed sprints and whom the project does not count.
LEMMA PreviewsAgree ==
  ASSUME team \in Teams, NEW p \in DOMAIN team.projects, NEW w
  PROVE  RowsAgree(p, ComputeRows(p, w))
<1> DEFINE cols == {i \in DatedColumns(w) : ~ team.sprints[i].closed}
           who == {n \in Members : CountsFor(p, n)}
           cell == Cells(cols, who)
<1>1. cols \in SUBSET AllColumns /\ DOMAIN cell = cols
  BY ColumnsAreDated DEF Cells
<1>2. ComputeRows(p, w) = Shares(p, cell) /\ DOMAIN Shares(p, cell) = DOMAIN cell
  BY DEF ComputeRows, Shares
<1>3. Some(p) \subseteq who /\ who \in SUBSET Members
  BY DEF Some, Counting
<1> SUFFICES ASSUME NEW i \in cols
             PROVE  Shares(p, cell)[i] = Given(p, team.sprints[i])
  BY <1>1, <1>2 DEF RowsAgree
<1> QED  BY <1>1, <1>3, CellsAgree

\* The half-days of holiday a member is owed work on, one by one.
LEMMA HolidayOfTheSprint ==
  ASSUME team \in Teams, NEW m, NEW s, s.start \in Int, s.end \in Int, NEW w
  PROVE  MemberCapacity(m, s, w).holiday > 0
           <=> \E d \in s.start .. s.end, h \in Halves : ActiveOn(m, d) /\ Owes(m, d, h) /\ OnHoliday(m, d, h, w)
<1> DEFINE D == {e \in s.start .. s.end : ActiveOn(m, e)}
           of == [d \in D |-> DayCapacity(m, d, w)]
           off(d) == {h \in {h \in Halves : Owes(m, d, h)} : OnHoliday(m, d, h, w)}
           f == [d \in D |-> of[d].holiday]
<1>1. IsFiniteSet(D)
  <2>1. IsFiniteSet(s.start .. s.end) /\ D \in SUBSET (s.start .. s.end)
    BY FS_Interval
  <2> QED  BY <2>1, FS_Subset
<1>2. MemberCapacity(m, s, w).holiday = SumFunctionOnSet(f, D)
  BY DEF MemberCapacity, Totals, Sum, SumFunction
<1>3. ASSUME NEW d \in D
      PROVE  f[d] \in Nat /\ (f[d] > 0 <=> \E h \in Halves : Owes(m, d, h) /\ OnHoliday(m, d, h, w))
  <2>1. f[d] = Cardinality(off(d))
    BY DEF DayCapacity, DayFigures
  <2>2. IsFiniteSet(off(d)) /\ Cardinality(off(d)) \in Nat
    BY BothHalves, FS_Subset, FS_CardinalityType
  <2>3. Cardinality(off(d)) = 0 <=> off(d) = {}
    BY <2>2, FS_EmptySet
  <2> QED  BY <2>1, <2>2, <2>3
<1> HIDE DEF f
<1>4. SumFunctionOnSet(f, D) > 0 <=> \E d \in D : f[d] > 0
  BY <1>1, <1>3, SumIsPositive
<1> QED  BY <1>2, <1>3, <1>4

\* A sprint's header names a holiday exactly when it costs somebody contracted time.
LEMMA HeadersAgreeWithTheDays ==
  ASSUME team \in Teams
  PROVE  HeadersAgree(PiHolidays)
<1> DEFINE cols == AllColumns
           span == Span(cols)
<1>1. PiHolidays = [i \in cols |-> {e \in TeamHolidays(span) : CostsTime(e, team.sprints[i], span)}]
  BY DEF PiHolidays, AllColumns
<1> SUFFICES ASSUME NEW i \in cols
             PROVE  LET s == team.sprints[i] IN
                    (\E e \in TeamHolidays(span) : CostsTime(e, s, span))
                      <=> \E m \in Counting : MemberCapacity(m, s, <<s.start, s.end>>).holiday > 0
  BY <1>1 DEF HeadersAgree
<1> DEFINE s == team.sprints[i]
           w == <<s.start, s.end>>
<1>2. s.start \in Int /\ s.end \in Int
  BY ColumnsAreDated
<1>3. \A d \in s.start .. s.end : d \in Int /\ Inside(d, span) /\ Inside(d, w)
  BY <1>2, SpanCovers DEF Inside
<1>4. \A e \in team.holidays : IsRule(e.rule) /\ e.rule.kind = "range" /\ e.rule.end \in Int
                               /\ e.rule.start \in Int /\ LastDay(e.rule) = e.rule.end
  BY TeamsAssumption, NothingAssumption DEF IsTeam, IsRule, IsSchedule, LastDay
<1> HIDE DEF s, span, cols
<1>5. ASSUME NEW e \in team.holidays, NEW x \in HalfDays(e.rule, w)
      PROVE  x[1] \in s.start .. s.end /\ x[2] \in Halves /\ x = <<x[1], x[2]>>
  <2>1. x \in OccurrenceDays(e.rule, w) \X Halves
    BY <1>4 DEF HalfDays
  <2>2. OccurrenceDays(e.rule, w) \subseteq s.start .. s.end
    BY <1>2, <1>4 DEF OccurrenceDays, RangeDays, Larger, Smaller
  <2> QED  BY <2>1, <2>2
<1>6. ASSUME NEW e \in team.holidays, NEW d \in s.start .. s.end, NEW h \in Halves,
             NEW u, NEW v, Inside(d, u), Inside(d, v), <<d, h>> \in HalfDays(e.rule, u), e.enabled
      PROVE  <<d, h>> \in HalfDays(e.rule, v) /\ e \in TeamHolidays(v)
  <2>1. Covers(e.rule, d, h)
    BY <1>3, <1>4, <1>6, HalfDaysAreCovered
  <2>2. <<d, h>> \in HalfDays(e.rule, v)
    BY <1>3, <1>4, <1>6, <2>1, HalfDaysAreCovered
  <2>3. e.rule.start <= d /\ d <= e.rule.end
    BY <1>3, <1>4, <2>1 DEF Covers, IsRule, Halves
  <2>4. e.rule.start <= v[2] /\ e.rule.end >= v[1]
    BY <1>3, <1>4, <1>6, <2>3 DEF Inside
  <2> QED  BY <1>6, <2>2, <2>4 DEF TeamHolidays
<1>7. ASSUME NEW e \in TeamHolidays(span), CostsTime(e, s, span)
      PROVE  \E m \in Counting : MemberCapacity(m, s, w).holiday > 0
  <2>1. PICK x \in HalfDays(e.rule, w), m \in Counting : ActiveOn(m, x[1]) /\ ~ Works(m, e, x[1]) /\ Owes(m, x[1], x[2])
    BY <1>7 DEF CostsTime
  <2>2. e \in team.holidays /\ e.enabled
    BY DEF TeamHolidays
  <2>3. x[1] \in s.start .. s.end /\ x[2] \in Halves /\ x = <<x[1], x[2]>>
    BY <1>5, <2>2
  <2> DEFINE d == x[1]
             h == x[2]
  <2>4. d \in s.start .. s.end /\ h \in Halves /\ <<d, h>> \in HalfDays(e.rule, w)
    BY <2>3
  <2>5. ActiveOn(m, d) /\ ~ Works(m, e, d) /\ Owes(m, d, h)
    BY <2>1
  <2> HIDE DEF d, h
  <2>6. e \in TeamHolidays(w)
    BY <1>3, <1>6, <2>2, <2>4
  <2>7. OnHoliday(m, d, h, w)
    BY <2>4, <2>5, <2>6 DEF OnHoliday
  <2> QED  BY <1>2, <2>4, <2>5, <2>7, HolidayOfTheSprint
<1>8. ASSUME NEW m \in Counting, MemberCapacity(m, s, w).holiday > 0
      PROVE  \E e \in TeamHolidays(span) : CostsTime(e, s, span)
  <2>1. PICK d \in s.start .. s.end, h \in Halves : ActiveOn(m, d) /\ Owes(m, d, h) /\ OnHoliday(m, d, h, w)
    BY <1>2, <1>8, HolidayOfTheSprint
  <2>2. PICK e \in TeamHolidays(w) : <<d, h>> \in HalfDays(e.rule, w) /\ ~ Works(m, e, d)
    BY <2>1 DEF OnHoliday
  <2>3. e \in team.holidays /\ e.enabled
    BY DEF TeamHolidays
  <2>4. e \in TeamHolidays(span)
    BY <1>3, <1>6, <2>2, <2>3
  <2>5. CostsTime(e, s, span)
    BY <2>1, <2>2 DEF CostsTime
  <2> QED  BY <2>4, <2>5
<1> QED  BY <1>7, <1>8 DEF s

-----------------------------------------------------------------------------
(* The pages on screen                                                     *)

\* A page's figures depend on the records alone.
LEMMA FiguresStay ==
  ASSUME team' = team
  PROVE  /\ \A w : BuildReport(w)' = BuildReport(w) /\ Achievement(w)' = Achievement(w)
         /\ \A p, w : ComputeRows(p, w)' = ComputeRows(p, w)
         /\ PiHolidays' = PiHolidays
<1>1. Calendar' = Calendar
  BY DEF Calendar
<1>2. \A edge, offset : SprintDays(edge, offset)' = SprintDays(edge, offset)
  BY <1>1 DEF SprintDays
<1>3. \A skip : BoundaryDays(skip)' = BoundaryDays(skip)
  BY <1>2 DEF BoundaryDays
<1>4. \A k, w : RuleDays(k, w)' = RuleDays(k, w)
  BY <1>2 DEF RuleDays
<1>5. \A k, w : OccurrencesOf(k, w)' = OccurrencesOf(k, w)
  BY <1>3, <1>4 DEF OccurrencesOf
<1>6. \A m, d, w : MeetingsOn(m, d, w)' = MeetingsOn(m, d, w)
  BY <1>5 DEF MeetingsOn
<1>7. \A m, d, h, w : Absent(m, d, h, w)' = Absent(m, d, h, w)
  BY DEF Absent
<1>8. \A w : TeamHolidays(w)' = TeamHolidays(w)
  BY DEF TeamHolidays
<1>9. \A m, d, h, w : OnHoliday(m, d, h, w)' = OnHoliday(m, d, h, w)
  BY <1>8 DEF OnHoliday
<1>10. \A m : Versions(m)' = Versions(m)
  BY DEF Versions
<1>11. \A m, d : ResolveVersion(m, d)' = ResolveVersion(m, d)
  BY DEF ResolveVersion, Versions
<1>12. \A m, d, h : Owes(m, d, h)' = Owes(m, d, h)
  BY <1>11 DEF Owes
<1>13. \A m, d : ActiveOn(m, d)' = ActiveOn(m, d)
  BY DEF ActiveOn
<1>14. \A m, d, w : DayCapacity(m, d, w)' = DayCapacity(m, d, w)
  BY <1>6, <1>7, <1>9, <1>11, <1>12 DEF DayCapacity
<1>15. \A m, of : Totals(m, of)' = Totals(m, of)
  BY <1>10 DEF Totals
<1>16. \A m, s, w : MemberCapacity(m, s, w)' = MemberCapacity(m, s, w)
  BY <1>13, <1>14, <1>15 DEF MemberCapacity
<1>17. Members' = Members /\ Counting' = Counting
  BY DEF Members, Counting
<1>18. \A p, m : CountsFor(p, m)' = CountsFor(p, m) /\ FixedShare(p, m)' = FixedShare(p, m)
  BY DEF CountsFor, FixedShare
<1>19. \A m : Fixed(m)' = Fixed(m)
  BY <1>18 DEF Fixed
<1>20. \A p, m, v : Weight(p, m, v)' = Weight(p, m, v)
  BY <1>18, <1>19 DEF Weight
<1>21. \A p, m, c : SharedMinutes(p, m, c)' = SharedMinutes(p, m, c)
  BY <1>10, <1>20 DEF SharedMinutes
<1>22. \A p : Uniform(p)' = Uniform(p)
  BY DEF Uniform
<1>23. \A p, cs : ProjectMinutes(p, cs)' = ProjectMinutes(p, cs)
  BY <1>17, <1>18, <1>21, <1>22 DEF ProjectMinutes
<1>24. \A w : DatedColumns(w)' = DatedColumns(w)
  BY DEF DatedColumns, Columns
<1>25. \A cols : Span(cols)' = Span(cols)
  BY DEF Span
<1>26. \A cols, who : Cells(cols, who)' = Cells(cols, who)
  BY <1>16, <1>25 DEF Cells
<1>27. \A p, cell : Shares(p, cell)' = Shares(p, cell)
  BY <1>23 DEF Shares
<1>28. \A cell : Report(cell)' = Report(cell)
  BY <1>27 DEF Report
<1>29. \A w : BuildReport(w)' = BuildReport(w)
  BY <1>17, <1>24, <1>26, <1>28 DEF BuildReport
<1>30. \A p, w : ComputeRows(p, w)' = ComputeRows(p, w)
  BY <1>17, <1>18, <1>24, <1>26, <1>27 DEF ComputeRows
<1>31. \A e, s, w : CostsTime(e, s, w)' = CostsTime(e, s, w)
  BY <1>12, <1>13, <1>17 DEF CostsTime
<1>32. PiHolidays' = PiHolidays
  BY <1>8, <1>24, <1>25, <1>31 DEF PiHolidays
<1>33. \A day, cols : Attribute(day, cols)' = Attribute(day, cols)
  BY DEF Attribute
<1>34. \A w : Achievement(w)' = Achievement(w)
  BY <1>24, <1>33 DEF Achievement
<1> QED  BY <1>29, <1>30, <1>32, <1>34

\* The inductive invariant: what is on screen is what its page computes from the records.
Answered ==
    \/ shown.page \in {"none", "velocity"}
    \/ \E w \in Windows : shown = Answer("capacity", w, BuildReport(w))
    \/ \E p \in DOMAIN team.projects, w \in Windows : shown = Answer("push", w, [project |-> p, rows |-> ComputeRows(p, w)])
    \/ shown = Answer("headers", NoWindow, PiHolidays)
    \/ \E w \in Windows : shown = Answer("achievement", w, Achievement(w))

\* It holds in every state: a page shows what it computed, and the records stay.
LEMMA AnsweredFromTheRecords == Spec => [](team \in Teams /\ Answered)
<1> DEFINE Inv == team \in Teams /\ Answered
<1>1. Init => Inv
  BY DEF Init, Nothing, Answer, Answered
<1>2. ASSUME Inv, [Next]_vars
      PROVE  Inv'
  <2> USE DEF Show
  <2>1. ASSUME team' = team, shown' = shown
        PROVE  Answered'
    BY <1>2, <2>1, FiguresStay DEF Answered
  <2>2. CASE GetCapacity
    <3>1. PICK w \in Windows : team' = team /\ shown' = Answer("capacity", w, BuildReport(w))
      BY <2>2 DEF GetCapacity
    <3>2. shown' = Answer("capacity", w, BuildReport(w)')
      BY <3>1, FiguresStay
    <3> QED  BY <1>2, <3>1, <3>2 DEF Answered, Answer
  <2>3. CASE PreviewPush
    <3>1. PICK p \in DOMAIN team.projects, w \in Windows :
             team' = team /\ shown' = Answer("push", w, [project |-> p, rows |-> ComputeRows(p, w)])
      BY <2>3 DEF PreviewPush
    <3>2. shown' = Answer("push", w, [project |-> p, rows |-> ComputeRows(p, w)'])
      BY <3>1, FiguresStay
    <3> QED  BY <1>2, <3>1, <3>2 DEF Answered, Answer
  <2>4. CASE GetPiHolidays
    <3>1. team' = team /\ shown' = Answer("headers", NoWindow, PiHolidays)
      BY <2>4 DEF GetPiHolidays
    <3>2. shown' = Answer("headers", NoWindow, PiHolidays')
      BY <3>1, FiguresStay
    <3> QED  BY <1>2, <3>1, <3>2 DEF Answered, Answer
  <2>5. CASE GetTeamAchievement
    <3>1. PICK w \in Windows : team' = team /\ shown' = Answer("achievement", w, Achievement(w))
      BY <2>5 DEF GetTeamAchievement
    <3>2. shown' = Answer("achievement", w, Achievement(w)')
      BY <3>1, FiguresStay
    <3> QED  BY <1>2, <3>1, <3>2 DEF Answered, Answer
  <2>6. CASE GetProjectVelocity
    BY <1>2, <2>6 DEF GetProjectVelocity, Answered, Answer
  <2>7. CASE Leave
    BY <1>2, <2>7 DEF Leave, Nothing, Answered, Answer
  <2>8. CASE UNCHANGED vars
    BY <1>2, <2>1, <2>8 DEF vars
  <2> QED  BY <1>2, <2>2, <2>3, <2>4, <2>5, <2>6, <2>7, <2>8 DEF Next
<1> QED  BY <1>1, <1>2, PTL DEF Spec

\* services/achievement.py: every dated completion counts in one sprint or outside the
\* calendar, and a window moves no point, for any team and any window.
THEOREM PointsAlwaysLandOnce == Spec => []PointsLandOnce
<1>1. ASSUME team \in Teams, Answered, shown.page = "achievement"
      PROVE  PointsOf(shown)
  <2>1. PICK w \in Windows : shown = Answer("achievement", w, Achievement(w))
    BY <1>1 DEF Answered, Answer
  <2> QED  BY <1>1, <2>1, AchievementLandsOnce
<1>2. team \in Teams /\ Answered => PointsLandOnce
  BY <1>1, PointsRestated
<1> QED  BY <1>2, AnsweredFromTheRecords, PTL

\* assignment_scope.py: with a remaining project, the projects share out all of every
\* member's time, and no more unless the others alone are booked past it, for any team.
THEOREM RemainderAlwaysTakesTheRest == Spec => []RemainderTakesTheRest
<1>1. ASSUME team \in Teams, Answered, shown.page = "capacity"
      PROVE  RemainderOf(shown.figures)
  <2>1. PICK w \in Windows : shown = Answer("capacity", w, BuildReport(w))
    BY <1>1 DEF Answered, Answer
  <2>2. shown.figures = BuildReport(w)
    BY <2>1 DEF Answer
  <2> QED  BY <1>1, <2>2, ReportSharesOut
<1>2. team \in Teams /\ Answered => RemainderTakesTheRest
  BY <1>1, RemainderRestated
<1> QED  BY <1>2, AnsweredFromTheRecords, PTL

\* services/occurrences.py, team_capacity.py, assignment_scope.py: whatever the window, the
\* capacity view and the preview of a push give a sprint what its days say one by one, and
\* a header names a holiday exactly when it costs somebody contracted time, for any team.
THEOREM PagesAlwaysAgree == Spec => []PagesAgree
<1>1. ASSUME team \in Teams, Answered, shown.page = "capacity"
      PROVE  ReportAgrees(shown.figures)
  <2>1. PICK w \in Windows : shown = Answer("capacity", w, BuildReport(w))
    BY <1>1 DEF Answered, Answer
  <2>2. shown.figures = BuildReport(w)
    BY <2>1 DEF Answer
  <2> QED  BY <1>1, <2>2, ReportsAgree
<1>2. ASSUME team \in Teams, Answered, shown.page = "push"
      PROVE  RowsAgree(shown.figures.project, shown.figures.rows)
  <2>1. PICK p \in DOMAIN team.projects, w \in Windows :
           shown = Answer("push", w, [project |-> p, rows |-> ComputeRows(p, w)])
    BY <1>2 DEF Answered, Answer
  <2>2. shown.figures.project = p /\ shown.figures.rows = ComputeRows(p, w)
    BY <2>1 DEF Answer
  <2> QED  BY <1>2, <2>2, PreviewsAgree
<1>3. ASSUME team \in Teams, Answered, shown.page = "headers"
      PROVE  HeadersAgree(shown.figures)
  <2>1. shown = Answer("headers", NoWindow, PiHolidays)
    BY <1>3 DEF Answered, Answer
  <2>2. shown.figures = PiHolidays
    BY <2>1 DEF Answer
  <2> QED  BY <1>3, <2>2, HeadersAgreeWithTheDays
<1>4. team \in Teams /\ Answered => PagesAgree
  BY <1>1, <1>2, <1>3, PagesRestated
<1> QED  BY <1>4, AnsweredFromTheRecords, PTL
=============================================================================
