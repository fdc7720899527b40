------------------------------ MODULE TeamPush ------------------------------
(***************************************************************************)
(* How a team's capacity reaches the sprints of its projects, beside the   *)
(* values typed by hand (backend/app/services/team_push.py,                *)
(* routes/team_push.py, routes/sprints.py).                                *)
(*                                                                         *)
(* A push computes its rows from plain SELECTs, loads the rows it means to *)
(* change, and writes them in one transaction; the assignment, the PI's    *)
(* state and the edit lock are not looked at again.  The push of a team    *)
(* does so project by project, with the assignments as they were loaded    *)
(* at its start.  An UPDATE sets only the columns whose new value differs  *)
(* from the loaded one.                                                    *)
(***************************************************************************)
EXTENDS Naturals

CONSTANTS
  Clients,     \* requests that can be under way at once
  Projects,
  Pis,
  Owner,       \* the project of each PI
  Sprints,
  PiOf,
  DatedSprints,       \* the sprints that have dates; the others propose nothing
  Levels,      \* what members, absences, meetings, holidays and shares can be
  Worth,       \* the whole number each of them makes of each sprint
  Typed,       \* values typed by hand, told apart from what a team makes
  MaxChanges   \* bounds the changes from outside in a behaviour

ASSUME OwnerAssumption == Owner \in [Pis -> Projects]
ASSUME PiOfAssumption == PiOf \in [Sprints -> Pis]
ASSUME DatedSprintsAssumption == DatedSprints \subseteq Sprints
ASSUME WorthAssumption == Worth \in [Sprints -> [Levels -> Nat]]
ASSUME TypedAssumption ==
  /\ Typed \subseteq Nat
  /\ \A s \in Sprints, l \in Levels : Worth[s][l] \notin Typed
ASSUME MaxChangesAssumption == MaxChanges \in Nat

VARIABLES
  source,    \* available_source of the project's assignment, or "none"
  closed,    \* the PIs that are closed
  locked,    \* projects whose edit lock another user holds
  level,     \* what the capacity engine reads
  value,     \* available of each sprint
  pushed,    \* sprints whose available_pushed_at is set
  changes,
  request

rowVars == <<value, pushed>>
outside == <<source, closed, locked, level, changes>>
pushVars == <<rowVars, outside, request>>

Sources == {"none", "manual", "factor"}
Values == Typed \cup {Worth[s][l] : s \in Sprints, l \in Levels}

Idle == [op |-> "idle"]

\* `overtaken` is history: something has been written since the request began.
\* A push keeps the projects it still has to do, which of all it found on
\* `factor`, and for the one it is doing what it computed and, once it has
\* loaded the first of the rows, the value that had.
Between == [op : {"push"}, at : {"between"}, todo : SUBSET Projects,
            factor : SUBSET Projects, overtaken : BOOLEAN]
Computed == [op : {"push"}, at : {"computed"}, todo : SUBSET Projects,
             factor : SUBSET Projects, overtaken : BOOLEAN,
             project : Projects, moved : SUBSET Sprints, by : Levels]
Loaded == [op : {"push"}, at : {"loaded"}, todo : SUBSET Projects,
           factor : SUBSET Projects, overtaken : BOOLEAN,
           project : Projects, moved : SUBSET Sprints, by : Levels,
           first : Sprints, was : Values]
Typing == [op : {"type"}, sprint : Sprints, to : Typed, was : Values,
           stamped : BOOLEAN, overtaken : BOOLEAN]
Requests == {Idle} \cup Between \cup Computed \cup Loaded \cup Typing

TypeOK ==
  /\ source \in [Projects -> Sources]
  /\ closed \subseteq Pis
  /\ locked \subseteq Projects
  /\ level \in Levels
  /\ value \in [Sprints -> Values]
  /\ pushed \subseteq Sprints
  /\ changes \in 0..MaxChanges
  /\ request \in [Clients -> Requests]

PushInit ==
  /\ source \in [Projects -> {"manual", "factor"}]
  /\ closed = {}
  /\ locked = {}
  /\ level \in Levels
  /\ value \in [Sprints -> Typed]
  /\ pushed = {}
  /\ changes = 0
  /\ request = [c \in Clients |-> Idle]

-----------------------------------------------------------------------------
\* What request c, done with its step, and the others are from now on.
GoesOn(c, r) == request' = [request EXCEPT ![c] = r]

Overtake(r) == IF r = Idle THEN r ELSE [r EXCEPT !.overtaken = TRUE]

Written(c, r) ==
  request' = [d \in Clients |-> IF d = c THEN r ELSE Overtake(request[d])]

\* A push that has done all its projects is answered.
Rest(todo, factor, overtaken) ==
  IF todo = {} THEN Idle
  ELSE [op |-> "push", at |-> "between", todo |-> todo, factor |-> factor,
        overtaken |-> overtaken]

ProjectOf(s) == Owner[PiOf[s]]

\* compute_rows and changed: the pushable sprints whose number would change.
Moved(p) ==
  {s \in DatedSprints : ProjectOf(s) = p /\ PiOf[s] \notin closed /\ Worth[s][level] # value[s]}

\* POST /projects/{id}/team-capacity/apply up to compute_rows.  One that has
\* nothing to change is answered without having done anything.
ApplyCompute(c, p) ==
  /\ request[c] = Idle
  /\ p \notin locked
  /\ source[p] = "factor"
  /\ Moved(p) # {}
  /\ GoesOn(c, [op |-> "push", at |-> "computed", todo |-> {}, factor |-> {p},
              overtaken |-> FALSE, project |-> p, moved |-> Moved(p), by |-> level])
  /\ UNCHANGED <<rowVars, outside>>

\* POST /teams/{id}/push: the assignments are loaded.
PushTeam(c) ==
  LET served == {p \in Projects : source[p] # "none"} IN
  /\ request[c] = Idle
  /\ served # {}
  /\ GoesOn(c, Rest(served, {p \in served : source[p] = "factor"}, FALSE))
  /\ UNCHANGED <<rowVars, outside>>

\* Mutant: the lock of the project is not asked for.
PushableUnasked(r, p) == source[p] # "none" /\ p \in r.factor

\* The join still finds the assignment; its source is the one first loaded;
\* blocking_lock finds nobody else.
Pushable(r, p) == source[p] # "none" /\ p \in r.factor /\ p \notin locked

\* push_one up to compute_rows, for the next project of a team; one that is
\* manual, locked or unchanged is reported and passed over.
PushOneCompute(c, p) ==
  LET r == request[c]
      todo == r.todo \ {p}
  IN
  /\ r.op = "push"
  /\ r.at = "between"
  /\ p \in r.todo
  /\ \/ /\ Pushable(r, p) /\ Moved(p) # {}
        /\ GoesOn(c, [op |-> "push", at |-> "computed", todo |-> todo, factor |-> r.factor,
                    overtaken |-> r.overtaken, project |-> p, moved |-> Moved(p),
                    by |-> level])
     \/ /\ ~(Pushable(r, p) /\ Moved(p) # {})
        /\ GoesOn(c, Rest(todo, r.factor, r.overtaken))
  /\ UNCHANGED <<rowVars, outside>>

\* apply_rows: the first of the rows is loaded, its write still to come.  The
\* later ones are loaded in the transaction the first one's write opens.
ApplyLoad(c, s) ==
  LET r == request[c] IN
  /\ r.op = "push"
  /\ r.at = "computed"
  /\ s \in r.moved
  /\ GoesOn(c, [op |-> "push", at |-> "loaded", todo |-> r.todo, factor |-> r.factor,
              overtaken |-> r.overtaken, project |-> r.project, moved |-> r.moved,
              by |-> r.by, first |-> s, was |-> value[s]])
  /\ UNCHANGED <<rowVars, outside>>

\* Mutant: a push never lowers a value.
AppliedIfHigher(r, s) ==
  IF Worth[s][r.by] > value[s] THEN Worth[s][r.by] ELSE value[s]

\* What the UPDATE of a row leaves in it.
Applied(r, s) ==
  IF s = r.first /\ r.was = Worth[s][r.by] THEN value[s] ELSE Worth[s][r.by]

\* apply_rows commits, and a push of a team goes on to its next project.
ApplyCommit(c) ==
  LET r == request[c] IN
  /\ r.op = "push"
  /\ r.at = "loaded"
  /\ value' = [s \in Sprints |-> IF s \in r.moved THEN Applied(r, s) ELSE value[s]]
  /\ pushed' = pushed \cup r.moved
  /\ Written(c, Rest(r.todo, r.factor, r.overtaken))
  /\ UNCHANGED outside

-----------------------------------------------------------------------------
\* PATCH /sprints/{id} with an available value, up to _refuse_derived_available.
TypeLoad(c, s, v) ==
  /\ request[c] = Idle
  /\ ProjectOf(s) \notin locked
  /\ PiOf[s] \notin closed
  /\ source[ProjectOf(s)] # "factor"
  /\ GoesOn(c, [op |-> "type", sprint |-> s, to |-> v, was |-> value[s],
              stamped |-> s \in pushed, overtaken |-> FALSE])
  /\ UNCHANGED <<rowVars, outside>>

\* Mutant: the stamp is left alone.
TypeCommitOverStamp(c) ==
  LET r == request[c] IN
  /\ r.op = "type"
  /\ value' = [value EXCEPT ![r.sprint] = IF r.to = r.was THEN @ ELSE r.to]
  /\ UNCHANGED <<pushed, outside>>
  /\ Written(c, Idle)

\* Its commit: of value and stamp, only what differs from what was loaded.
TypeCommit(c) ==
  LET r == request[c] IN
  /\ r.op = "type"
  /\ value' = [value EXCEPT ![r.sprint] = IF r.to = r.was THEN @ ELSE r.to]
  /\ pushed' = IF r.stamped THEN pushed \ {r.sprint} ELSE pushed
  /\ Written(c, Idle)
  /\ UNCHANGED outside

-----------------------------------------------------------------------------
\* One more change by somebody else, whoever is half-way through a request.
Change ==
  /\ changes < MaxChanges
  /\ changes' = changes + 1
  /\ request' = [d \in Clients |-> Overtake(request[d])]
  /\ UNCHANGED rowVars

\* Assigning a project, choosing the source of its values, unassigning it:
\* the sprints keep value and stamp.
SetSource(p, v) ==
  /\ source[p] # v
  /\ source' = [source EXCEPT ![p] = v]
  /\ Change
  /\ UNCHANGED <<closed, locked, level>>

\* PATCH /pis/{id} with a state: closed, or opened by a request that had
\* loaded the PI before another closed it.
SetState(i) ==
  /\ closed' = IF i \in closed THEN closed \ {i} ELSE closed \cup {i}
  /\ Change
  /\ UNCHANGED <<source, locked, level>>

\* Another user enters edit mode, or leaves it.
SetLock(p) ==
  /\ locked' = IF p \in locked THEN locked \ {p} ELSE locked \cup {p}
  /\ Change
  /\ UNCHANGED <<source, closed, level>>

\* A member, an absence, a meeting, a holiday or a share is edited.
EditTeam(l) ==
  /\ level # l
  /\ level' = l
  /\ Change
  /\ UNCHANGED <<source, closed, locked>>

\* The server stops: what was committed stays.
Stop ==
  /\ request' = [c \in Clients |-> Idle]
  /\ UNCHANGED <<rowVars, outside>>

PushNext ==
  \/ \E c \in Clients :
       \/ \E p \in Projects : ApplyCompute(c, p) \/ PushOneCompute(c, p)
       \/ PushTeam(c)
       \/ \E s \in Sprints : ApplyLoad(c, s)
       \/ ApplyCommit(c)
       \/ \E s \in Sprints, v \in Typed : TypeLoad(c, s, v)
       \/ TypeCommit(c)
  \/ \E p \in Projects :
       \/ \E v \in Sources : SetSource(p, v)
       \/ SetLock(p)
  \/ \E i \in Pis : SetState(i)
  \/ \E l \in Levels : EditTeam(l)
  \/ Stop

PushSpec == PushInit /\ [][PushNext]_pushVars

-----------------------------------------------------------------------------
(* What the planners rely on. *)

\* Request c writes rows and is done with them.
Commits(c) ==
  /\ rowVars' # rowVars
  /\ request[c] \in Loaded \cup Typing
  /\ request'[c] \notin Loaded \cup Typing

\* A push that nobody overtook leaves its project up to date with the team:
\* the badge that counts the sprints that differ shows none for it.
PushLeavesNothingStale ==
  [][\A c \in Clients, p \in Projects :
       Commits(c) /\ request[c].op = "push" /\ ~request[c].overtaken
         => (request[c].project = p => Moved(p)' = {})]_pushVars

\* Values typed by hand, closed PIs and projects somebody is editing are safe
\* from a push that nobody overtook, and so are projects it was not asked for.
PushWritesOnlyWhatItMay ==
  [][\A c \in Clients :
       Commits(c) /\ request[c].op = "push" /\ ~request[c].overtaken
         => \A s \in Sprints :
              value'[s] # value[s]
                => /\ source[ProjectOf(s)] = "factor"
                   /\ PiOf[s] \notin closed
                   /\ ProjectOf(s) \notin locked]_pushVars

\* The stamp says where the value comes from: it is set exactly on the sprints
\* whose value a team's capacity made.
StampTellsTheSource ==
  \A s \in Sprints : s \in pushed <=> value[s] \notin Typed

\* Only a request that was overtaken makes a stamp lie.
OnlyOvertakenRequestsMisstamp ==
  [][StampTellsTheSource =>
       \/ StampTellsTheSource'
       \/ \E c \in Clients : Commits(c) /\ request[c].overtaken]_pushVars

=============================================================================
