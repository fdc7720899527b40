-------------------------------- MODULE Plans --------------------------------
(***************************************************************************)
(* The plan of one project under everything that writes it: its State      *)
(* Lists, features, stories, PIs and iteration paths, a CSV import, and    *)
(* the snapshots it is restored from (routes/project_states.py,            *)
(* features.py, pbis.py, pis.py, sprints.py, csv_import.py,                *)
(* project_snapshots.py, projects.py).                                     *)
(*                                                                         *)
(* A handler reads and decides, then writes and commits; SQLite locks at   *)
(* the first write.  At most one request is held between the two, and      *)
(* another is served in one go while it is: one of the same editor's other *)
(* tab or tool, or a restore, which needs no edit lock.                    *)
(***************************************************************************)
EXTENDS Backlog

CONSTANTS Ids,        \* system ids, numbers
          Seeds,      \* the plans to start from
          Files,      \* CSV files
          MaxCopies   \* bound of the instance

\* An id is a UUID: there are finitely many.
ASSUME IdsAreNumbers == Ids \subseteq Nat /\ IsFiniteSet(Ids)
ASSUME NothingIsNoItem == Nothing \notin {"feature", "story"} \X Ids

-----------------------------------------------------------------------------
(* The tables                                                              *)

Tables == {"feature", "story", "list", "pi", "path"}
PiStates == {"draft", "in_progress", "closed"}
Kinds == {"story", "bug"}
BusinessIds == UserIds \cup {Nothing}
Refs == Ids \cup {Nothing}

FeatureRows == [uid : BusinessIds, state : Refs, origin : Refs, pi : Refs, unassigned : BOOLEAN]
StoryRows == [feature : Ids, uid : BusinessIds, kind : Kinds, state : Refs, date : {Nothing, "today", "given"}]
StateRows == [type : ItemTypes, value : Values, position : Nat, done : BOOLEAN]
PiRows == [state : PiStates]
PathRows == [path : Paths \cup {Nothing}]
FileRows == [kind : ItemTypes, uid : BusinessIds, state : Values \cup {Nothing}, parent : BusinessIds, dated : BOOLEAN,
             path : Paths \cup {Nothing}]

IsTable(rows, ids, Rows) == DOMAIN rows \subseteq ids /\ rows \in [DOMAIN rows -> Rows]
\* Among any features one is continued by none of them: no feature continues itself, however far.
NoLoops(p) == \A S \in SUBSET DOMAIN p.feature : S # {} => \E f \in S : \A n \in S : p.feature[n].origin # f

IsPlan(p) ==
    /\ p = [table \in Tables |-> p[table]]
    /\ IsTable(p.feature, Ids, FeatureRows) /\ IsTable(p.story, Ids, StoryRows) /\ IsTable(p.list, Ids, StateRows)
    /\ IsTable(p.pi, Ids, PiRows) /\ IsTable(p.path, Ids \X ({0} \cup Sprints), PathRows)
    /\ NoLoops(p)

ASSUME SeedsAssumption == \A p \in Seeds : IsPlan(p)
ASSUME FilesAssumption == \A file \in Files : file.rows \in Seq(FileRows)

-----------------------------------------------------------------------------
(* The state                                                               *)

VARIABLES plan,     \* the project's tables
          copies,   \* its snapshots by number
          held      \* the request between its reads and its commit

vars == <<plan, copies, held>>

\* No request is held.
Idle == [op |-> "none"]

Init == plan \in Seeds /\ copies = <<>> /\ held = Idle

-----------------------------------------------------------------------------
(* A request and its transaction                                           *)

\* Ids that a row has or names: none is given out again.
Mentions(p, table) ==
    DOMAIN p[table] \cup
    CASE table = "feature" -> {p.story[s].feature : s \in DOMAIN p.story} \cup {p.feature[f].origin : f \in DOMAIN p.feature}
      [] table = "list" -> {p.story[s].state : s \in DOMAIN p.story} \cup {p.feature[f].state : f \in DOMAIN p.feature}
      [] table = "pi" -> {p.feature[f].pi : f \in DOMAIN p.feature}
      [] OTHER -> {}
Lowest(S) == {x \in S : \A y \in S : x <= y}
Known == {plan} \cup Range(copies) \cup (IF held = Idle THEN {} ELSE {held.was, held.is})
Spare == [table \in Tables \ {"path"} |-> Ids \ UNION {Mentions(p, table) : p \in Known}]
Fresh(table) == Lowest(Ids \ UNION {Mentions(p, table) : p \in Known})

\* The unique constraints of features, pbis and project_states.
UniqueKeys(p) ==
    /\ \A table \in {"feature", "story"} : \A x, y \in DOMAIN p[table] :
         p[table][x].uid = p[table][y].uid /\ p[table][x].uid # Nothing => x = y
    /\ \A d, e \in DOMAIN p.list : p.list[d].type = p.list[e].type /\ p.list[d].value = p.list[e].value => d = e

\* A flush writes the columns that changed of the rows as they were read, inserts and deletes.
Merged(now, was, is) ==
    IF \E c \in DOMAIN is : is[c] # was[c] THEN [c \in DOMAIN now |-> IF is[c] # was[c] THEN is[c] ELSE now[c]] ELSE now
Flushed(now, was, is) ==
    [table \in Tables |->
       [id \in (DOMAIN now[table] \ (DOMAIN was[table] \ DOMAIN is[table])) \cup (DOMAIN is[table] \ DOMAIN was[table]) |->
          IF id \notin DOMAIN is[table] THEN now[table][id]
          ELSE IF id \notin DOMAIN was[table] THEN is[table][id]
          ELSE Merged(now[table][id], was[table][id], is[table][id])]]
\* An UPDATE that finds no row fails.
RowsAreThere(now, was, is) ==
    \A table \in Tables : \A id \in DOMAIN was[table] \cap DOMAIN is[table] :
        was[table][id] # is[table][id] => id \in DOMAIN now[table]

NoFile == [rows |-> <<>>, removals |-> {}]
Hold(op, is, file) ==
    /\ held = Idle
    /\ held' = [op |-> op, was |-> plan, is |-> is, file |-> file, overtaken |-> FALSE]
    /\ UNCHANGED <<plan, copies>>
Beside == /\ held # Idle => ~ held.overtaken
          /\ held' = IF held = Idle THEN held ELSE [held EXCEPT !.overtaken = TRUE]

AtOnce(is) == is # plan /\ UniqueKeys(is) /\ plan' = is /\ Beside /\ UNCHANGED copies
Serve(is) == AtOnce(is) \/ (is # plan /\ Hold("write", is, NoFile))

Commit == /\ held # Idle /\ held.op = "write"
          /\ RowsAreThere(plan, held.was, held.is)
          /\ plan' = Flushed(plan, held.was, held.is)
          /\ UniqueKeys(plan')
          /\ held' = Idle /\ UNCHANGED copies

\* Refused by the database, or the server stops.
Fail == held # Idle /\ held' = Idle /\ UNCHANGED <<plan, copies>>

-----------------------------------------------------------------------------
(* routes/project_states.py                                                *)

CreateState == \E type \in ItemTypes, value \in Values, done \in BOOLEAN, d \in Fresh("list") :
    /\ FindState(plan, type, value) = {}
    /\ Serve(Put(plan, "list", d, NewState(plan, type, value, done)))

RenameState == \E d \in DOMAIN plan.list, value \in Values, done \in BOOLEAN :
    /\ FindState(plan, plan.list[d].type, value) \subseteq {d}
    /\ Serve([plan EXCEPT !.list[d].value = value, !.list[d].done = done])

DeleteState == \E d \in DOMAIN plan.list :
    StateUsage(plan, d) = {} /\ Serve(Drop(plan, "list", {d}))

\* The whole list, once each.
ReorderStates == \E type \in ItemTypes :
    \E order \in Bijection(ListOf(plan, type), 0 .. Cardinality(ListOf(plan, type)) - 1) :
        Serve([plan EXCEPT !.list = [d \in DOMAIN @ |->
            IF @[d].type = type THEN [@[d] EXCEPT !.position = order[d]] ELSE @[d]]])

-----------------------------------------------------------------------------
(* routes/features.py                                                      *)

StatesFor(type) == {Nothing} \cup ListOf(plan, type)

CreateFeature == \E uid \in BusinessIds, state \in StatesFor("feature"), f \in Fresh("feature") :
    /\ uid # Nothing => IsUserIdAvailable(plan, uid, Nothing)
    /\ Serve(Put(plan, "feature", f, NewFeature(uid, state)))

\* _apply_metadata_fields
UpdateFeature == \E f \in DOMAIN plan.feature, uid \in BusinessIds : \E state \in StatesFor("feature") \cup {plan.feature[f].state} :
    /\ uid \notin {Nothing, plan.feature[f].uid} => IsUserIdAvailable(plan, uid, <<"feature", f>>)
    /\ Serve([plan EXCEPT !.feature[f].uid = uid, !.feature[f].state = state])

\* To a lane of a PI, or back.
MoveFeature == \E f \in DOMAIN plan.feature, pi \in DOMAIN plan.pi \cup {Nothing} :
    Serve([plan EXCEPT !.feature[f].pi = pi])

\* Some of the stories go on in a continuation; all of them, and the feature moves.
SplitFeature == \E f \in DOMAIN plan.feature, pi \in DOMAIN plan.pi, n \in Fresh("feature") :
    /\ plan.feature[f].pi # Nothing
    /\ \E S \in SUBSET StoriesUnder(plan, {f}) \ {{}} :
         IF S = StoriesUnder(plan, {f}) THEN AtOnce([plan EXCEPT !.feature[f].pi = pi])
         ELSE AtOnce([Put(plan, "feature", n, [plan.feature[f] EXCEPT !.uid = Nothing, !.pi = pi, !.origin = f])
                        EXCEPT !.story = [s \in DOMAIN @ |-> IF s \in S THEN [@[s] EXCEPT !.feature = n] ELSE @[s]]])

CancelContinuation == \E f \in DOMAIN plan.feature :
    /\ plan.feature[f].origin \in DOMAIN plan.feature
    /\ \A n \in DOMAIN plan.feature : plan.feature[n].origin # f
    /\ AtOnce([Drop(plan, "feature", {f}) EXCEPT !.story = [s \in DOMAIN @ |->
            IF @[s].feature = f THEN [@[s] EXCEPT !.feature = plan.feature[f].origin] ELSE @[s]]])

DeleteFeature == \E f \in DOMAIN plan.feature : AtOnce(DeleteFeatures(plan, {f}))

\* The features of the backlog and their stories, and no continuation.
ClearBacklog ==
    LET gone == {f \in DOMAIN plan.feature : plan.feature[f].pi = Nothing}
    IN AtOnce(Drop(Drop(plan, "story", StoriesUnder(plan, gone)), "feature", gone))

ClearAllFeatures == AtOnce([plan EXCEPT !.feature = <<>>, !.story = <<>>])

-----------------------------------------------------------------------------
(* routes/pbis.py                                                          *)

CreatePbi == \E f \in DOMAIN plan.feature, uid \in BusinessIds, kind \in Kinds, s \in Fresh("story") : \E state \in StatesFor(kind) :
    /\ uid # Nothing => IsUserIdAvailable(plan, uid, Nothing)
    /\ Serve(Put(plan, "story", s, [NewStory(f, uid, kind, state) EXCEPT !.date = Completed(plan, @, Nothing, state, Nothing)]))

\* _apply_state_change: the State it has, where the body names none; a switched kind clears it.
KeptState(story, kind) == IF kind = story.kind THEN story.state ELSE Nothing

UpdatePbi == \E s \in DOMAIN plan.story, uid \in BusinessIds, kind \in Kinds, given \in {Nothing, "given"} :
    \E state \in StatesFor(kind) \cup {KeptState(plan.story[s], kind)} :
        /\ uid \notin {Nothing, plan.story[s].uid} => IsUserIdAvailable(plan, uid, <<"story", s>>)
        /\ given # Nothing => IsDone(plan, state)
        /\ Serve([plan EXCEPT !.story[s] = [plan.story[s] EXCEPT !.uid = uid, !.kind = kind, !.state = state,
                                              !.date = Completed(plan, @, plan.story[s].state, state, given)]])

DeletePbi == \E s \in DOMAIN plan.story : AtOnce(Drop(plan, "story", {s}))

-----------------------------------------------------------------------------
(* routes/pis.py, sprints.py                                               *)

InProgress(p) == {x \in DOMAIN p.pi : p.pi[x].state = "in_progress"}
SlotsOf(pi) == {pi} \X ({0} \cup Sprints)
MayStart(pi, state) == state = "in_progress" => InProgress(plan) \subseteq {pi}

CreatePi == \E pi \in Fresh("pi"), state \in PiStates, path \in Paths \cup {Nothing} :
    /\ MayStart(pi, state)
    /\ ~ IterationPathTaken(plan, path, <<pi, 0>>)
    /\ Serve([Put(plan, "pi", pi, [state |-> state]) EXCEPT !.path =
            [x \in DOMAIN @ \cup SlotsOf(pi) |-> IF x \in DOMAIN @ THEN @[x] ELSE [path |-> IF x[2] = 0 THEN path ELSE Nothing]]])

UpdatePi == \E pi \in DOMAIN plan.pi, state \in PiStates, path \in Paths \cup {Nothing} :
    /\ ~ Closed(plan, pi) /\ MayStart(pi, state)
    /\ path # plan.path[<<pi, 0>>].path => ~ IterationPathTaken(plan, path, <<pi, 0>>)
    /\ Serve([plan EXCEPT !.pi[pi].state = state, !.path[<<pi, 0>>].path = path])

\* first_conflicting_path: the set that the PI and its sprints are to have.
FirstConflictingPath(pi, paths) ==
    \/ \E x, y \in SlotsOf(pi) : x # y /\ paths[x] = paths[y] /\ paths[x] # Nothing
    \/ Range(paths) \cap PathsBut(plan, SlotsOf(pi)) # {}

SetIterationPaths == \E pi \in DOMAIN plan.pi : \E paths \in [SlotsOf(pi) -> Paths \cup {Nothing}] :
    /\ ~ Closed(plan, pi) /\ ~ FirstConflictingPath(pi, paths)
    /\ Serve([plan EXCEPT !.path = [x \in DOMAIN @ |-> IF x[1] = pi THEN [path |-> paths[x]] ELSE @[x]]])

UpdateSprint == \E x \in DOMAIN plan.path, path \in Paths \cup {Nothing} :
    /\ x[2] # 0 /\ ~ Closed(plan, x[1]) /\ ~ IterationPathTaken(plan, path, x)
    /\ Serve([plan EXCEPT !.path[x].path = path])

\* The features in the lanes of the PI; a feature's lane and its PI are one here (Board).
DeletePi == \E pi \in DOMAIN plan.pi :
    Serve(Drop([Drop(plan, "path", SlotsOf(pi)) EXCEPT !.feature = [f \in DOMAIN @ |->
            IF @[f].pi = pi THEN [@[f] EXCEPT !.pi = Nothing] ELSE @[f]]], "pi", {pi}))

-----------------------------------------------------------------------------
(* routes/csv_import.py                                                    *)

\* Of two newest leaves, either: their time of creation is not modelled.
Continuations == {f \in DOMAIN plan.feature : plan.feature[f].origin # Nothing}
\* Bound of the instance: ids for all that a file may create.
Enough(file) == \A table \in {"feature", "story", "list"} : Cardinality(Spare[table]) > Len(file.rows)

ImportCsv == \E file \in Files :
    /\ ValidRows(file.rows) /\ Enough(file)
    /\ \/ \E preferred \in Continuations \cup {Nothing} : AtOnce(ExecuteImport(plan, file, Spare, preferred))
       \/ file.removals = {} /\ Hold("import", plan, file)

\* The ids were read before the first write, the rest is read when nobody else writes.
FinishImport == /\ held # Idle /\ held.op = "import" /\ Enough(held.file)
                /\ ~ CrossEntityErrors(plan, held.file, FetchExisting(held.was))
                /\ \E preferred \in Continuations \cup {Nothing} :
                     plan' = ImportRows(plan, held.file, FetchExisting(held.was), Spare, preferred)
                /\ UniqueKeys(plan')
                /\ held' = Idle /\ UNCHANGED copies

-----------------------------------------------------------------------------
(* routes/project_snapshots.py, projects.py                                *)

FreeCopies == {n \in 1 .. MaxCopies : n \notin DOMAIN copies /\ \A m \in 1 .. n - 1 : m \in DOMAIN copies}

\* serialize_project: one query after the other, n of them before another request's commit.
\* The paths of the sprints come last, those of the PIs with the PIs.
Serialized(was, now, n) ==
    LET at(k) == IF n >= k THEN was ELSE now
    IN [feature |-> at(1).feature, story |-> at(2).story, pi |-> at(3).pi, list |-> at(4).list,
        path |-> [x \in {y \in DOMAIN at(3).path : y[2] = 0 \/ y \in DOMAIN at(5).path} |->
                    IF x[2] = 0 THEN at(3).path[x] ELSE at(5).path[x]]]

BeginSnapshot == FreeCopies # {} /\ Hold("snapshot", plan, NoFile)
BeginRestore == FreeCopies # {} /\ \E n \in DOMAIN copies : Hold("restore", copies[n], NoFile)
BeginExport == Hold("export", plan, NoFile)

DeleteSnapshot == \E n \in DOMAIN copies : copies' = Without(copies, {n}) /\ Beside /\ UNCHANGED plan

\* What a request has read by the time it writes.
Copies == {Serialized(held.was, plan, n) : n \in IF held.overtaken THEN 0 .. 5 ELSE {5}}

FinishSnapshot == /\ held # Idle /\ held.op = "snapshot"
                  /\ \E copy \in Copies, n \in FreeCopies : copies' = With(copies, n, copy)
                  /\ held' = Idle /\ UNCHANGED plan

FinishRestore == /\ held # Idle /\ held.op = "restore"
                 /\ \E copy \in Copies, n \in FreeCopies : copies' = With(copies, n, copy)
                 /\ plan' = Rebuilt(held.is)
                 /\ held' = Idle

\* The project that is imported from the file takes the place of this one.
ImportProject == /\ held # Idle /\ held.op = "export"
                 /\ \E copy \in Copies : Importable(copy) /\ plan' = Remapped(Rebuilt(copy))
                 /\ copies' = <<>> /\ held' = Idle

StateSteps == CreateState \/ RenameState \/ DeleteState \/ ReorderStates
FeatureSteps == CreateFeature \/ UpdateFeature
BoardSteps == MoveFeature \/ SplitFeature \/ CancelContinuation \/ DeleteFeature \/ ClearBacklog \/ ClearAllFeatures
StorySteps == CreatePbi \/ UpdatePbi \/ DeletePbi
PiSteps == CreatePi \/ UpdatePi \/ SetIterationPaths \/ UpdateSprint \/ DeletePi
ImportSteps == ImportCsv \/ FinishImport
CopySteps == BeginSnapshot \/ BeginRestore \/ BeginExport \/ DeleteSnapshot \/ FinishSnapshot \/ FinishRestore \/ ImportProject
Ends == Commit \/ Fail

Next == StateSteps \/ FeatureSteps \/ BoardSteps \/ StorySteps \/ PiSteps \/ ImportSteps \/ CopySteps \/ Ends

Spec == Init /\ [][Next]_vars

-----------------------------------------------------------------------------
(* Properties                                                              *)

\* The step that ends a request beside which another was served.
Overtaken == held # Idle /\ held.overtaken /\ held' = Idle

\* No business id, no place in a State List, no iteration path twice, one PI in progress.
Distinct(p) ==
    /\ \A x, y \in ({"feature"} \X DOMAIN p.feature) \cup ({"story"} \X DOMAIN p.story) :
         p[x[1]][x[2]].uid = p[y[1]][y[2]].uid /\ p[x[1]][x[2]].uid # Nothing => x = y
    /\ \A d, e \in DOMAIN p.list :
         p.list[d].type = p.list[e].type /\ p.list[d].position = p.list[e].position => d = e
    /\ \A x, y \in DOMAIN p.path : p.path[x] = p.path[y] /\ p.path[x].path # Nothing => x = y
    /\ Cardinality(InProgress(p)) <= 1

\* Nothing in the database keeps a feature and a story from one business id, two States of a list
\* from one place, two PIs from being in progress, or a PI and a sprint from one iteration path:
\* the handlers look first.  So only a request overtaken by another one makes a double; an edit, an
\* import that promotes, demotes and moves, a restore never does.
DoublesOnlyByRaces ==
    [][(\A p \in {plan} \cup Range(copies) : Distinct(p)) => Distinct(plan') \/ Overtaken]_vars

Stands(p) ==
    /\ \A s \in DOMAIN p.story : p.story[s].feature \in DOMAIN p.feature /\ IsStateFor(p, p.story[s].kind, p.story[s].state)
    /\ \A f \in DOMAIN p.feature : IsStateFor(p, "feature", p.feature[f].state) /\ p.feature[f].pi \in DOMAIN p.pi \cup {Nothing}

\* No foreign key is enforced: that a story has its feature, an item a State of its own kind's list
\* and a feature on a board its PI is left to the handlers, and only a race breaks it (a State found
\* unused and deleted while an item takes it).  What a feature continues is not part of it: clearing
\* the backlog may leave a continuation whose origin is gone.
ItemsStandOnLiveRows ==
    [][(\A p \in {plan} \cup Range(copies) : Stands(p)) => Stands(plan') \/ Overtaken]_vars

\* The stories that are done are those with a completion date.
Dated(p) == \A s \in DOMAIN p.story : IsDone(p, p.story[s].state) <=> p.story[s].date # Nothing
StatesKeepTheirDone == \A d \in DOMAIN plan.list \cap DOMAIN plan'.list : plan.list[d].done = plan'.list[d].done

\* A date is stamped on the edge into done and cleared on the edge out of it, by everything that
\* writes a State: the item's form, a switch between story and bug, an import with or without a State
\* column.  Only marking a State as done, or as not done, leaves the dates as they are.
DatesFollowTheStates ==
    [][(\A p \in {plan} \cup Range(copies) : Dated(p) /\ Stands(p)) /\ (copies' = copies => StatesKeepTheirDone)
         => Dated(plan') \/ Overtaken]_vars

\* A restore can be undone: the copy taken for safety is the plan it replaces, what it brings back is
\* a copy that was there, and a project imported from its own export is the project again.
CopiesAreWhole ==
    [][held # Idle /\ ~ held.overtaken /\ held' = Idle =>
         /\ held.op \in {"snapshot", "restore"} /\ copies' # copies => plan \in Range(copies')
         /\ held.op = "restore" /\ copies' # copies => plan' \in Range(copies)
         /\ held.op = "export" /\ Stands(plan) /\ (\A f \in DOMAIN plan.feature : plan.feature[f].origin \in DOMAIN plan.feature \cup {Nothing})
              => plan' = plan]_vars

\* A file in which every row has an ID may be imported again: the second time it changes nothing,
\* whatever it creates, promotes, moves, places and dates the first time.
ImportSettles == held # Idle /\ held.op = "import" /\ ~ held.overtaken =>
    LET twice(spare, once) == ExecuteImport(once, held.file, [t \in DOMAIN spare |-> spare[t] \ DOMAIN once[t]], Nothing) = once
    IN Indices(held.file.rows) = DOMAIN held.file.rows /\ Distinct(plan) /\ Stands(plan)
         => twice(Spare, ExecuteImport(plan, held.file, Spare, Nothing))
=============================================================================
