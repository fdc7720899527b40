------------------------------- MODULE Backlog -------------------------------
(***************************************************************************)
(* The plan of one project as its tables hold it, and what the services    *)
(* work out from it: business ids (services/validation.py), the State      *)
(* Lists (project_state.py), completion dates (completion.py), lineages    *)
(* (continuation.py), iteration paths (iteration_placement.py), the import *)
(* of a CSV file (csv_import.py) and the copies of snapshot.py.            *)
(*                                                                         *)
(* Where a story stands in its PI is Board's.  Titles, efforts, effort     *)
(* units and the Azure DevOps fields are left out, and so are the counts   *)
(* and the list of changes an import reports.                              *)
(***************************************************************************)
EXTENDS Integers, FiniteSets, Functions, SequencesExt

CONSTANTS UserIds,   \* business ids
          Values,    \* of states, trimmed and in lower case
          Paths,     \* iteration paths, normalised
          Sprints,   \* of a PI: its slots but 0, which is the PI itself
          Nothing    \* NULL, None, a blank cell

ASSUME NothingIsNothing ==
    Nothing \notin UserIds \cup Values \cup Paths \cup {"today", "given"} /\ Nothing \notin Nat
ASSUME SprintsAreNumbered == Sprints \subseteq Nat \ {0}

ItemTypes == {"feature", "story", "bug"}

\* A feature with a PI is on its board; unassigned: it is called "Unassigned".
NewFeature(uid, state) ==
    [uid |-> uid, state |-> state, origin |-> Nothing, pi |-> Nothing, unassigned |-> FALSE]
NewStory(feature, uid, kind, state) ==
    [feature |-> feature, uid |-> uid, kind |-> kind, state |-> state, date |-> Nothing]

With(f, x, v) == [y \in DOMAIN f \cup {x} |-> IF y = x THEN v ELSE f[y]]
Without(f, S) == Restrict(f, DOMAIN f \ S)
\* A row of a table is inserted or replaced; rows are deleted.
Put(p, table, id, row) == [p EXCEPT ![table] = With(@, id, row)]
Drop(p, table, S) == [p EXCEPT ![table] = Without(@, S)]

UidsOf(rows) == {rows[x].uid : x \in DOMAIN rows} \ {Nothing}
\* is_user_id_available, the item itself left out.
IsUserIdAvailable(p, uid, id) ==
    /\ \A f \in DOMAIN p.feature : p.feature[f].uid = uid => <<"feature", f>> = id
    /\ \A s \in DOMAIN p.story : p.story[s].uid = uid => <<"story", s>> = id

-----------------------------------------------------------------------------
(* State Lists                                                             *)

ListOf(p, type) == {d \in DOMAIN p.list : p.list[d].type = type}
FindState(p, type, value) == {d \in ListOf(p, type) : p.list[d].value = value}
NextPosition(p, type) ==
    LET taken == {p.list[d].position : d \in ListOf(p, type)}
    IN CHOOSE n \in {0} \cup {x + 1 : x \in taken} : n \notin taken /\ \A x \in taken : x < n

NewState(p, type, value, done) ==
    [type |-> type, value |-> value, position |-> NextPosition(p, type), done |-> done]

\* validate_state_id
IsStateFor(p, type, state) == state = Nothing \/ state \in ListOf(p, type)

StateUsage(p, d) == {f \in DOMAIN p.feature : p.feature[f].state = d}
               \cup {s \in DOMAIN p.story : p.story[s].state = d}

-----------------------------------------------------------------------------
(* Completion dates                                                        *)

\* load_state: a State that is gone loads as none.
LoadState(p, state) == IF state \in DOMAIN p.list THEN state ELSE Nothing
IsDone(p, state) == state \in DOMAIN p.list /\ p.list[state].done

\* apply_completion: was and is are the States before and after the write.
Completed(p, date, was, is, explicit) ==
    IF ~ IsDone(p, is)
    THEN IF LoadState(p, was) = LoadState(p, is) THEN date ELSE Nothing
    ELSE IF explicit # Nothing THEN explicit
    ELSE IF ~ IsDone(p, was) /\ date = Nothing THEN "today" ELSE date

-----------------------------------------------------------------------------
(* Lineages                                                                *)

\* The features that continue one of S, transitively.
Descendants(p, S) ==
    LET continued == {f \in DOMAIN p.feature : p.feature[f].origin # Nothing}
    IN (UNION {chain \in SUBSET continued : \A f \in chain : p.feature[f].origin \in chain \cup S}) \ S
Root(p, f) == CHOOSE r \in DOMAIN p.feature :
    /\ f \in {r} \cup Descendants(p, {r})
    /\ p.feature[r].origin \notin DOMAIN p.feature
LineageMembers(p, f) == {Root(p, f)} \cup Descendants(p, {Root(p, f)})

Leaves(p, f) == {l \in {f} \cup Descendants(p, {f}) : \A n \in DOMAIN p.feature : p.feature[n].origin # l}
\* newest_leaf, when the order in which features were created prefers one.
NewestLeaf(p, f, preferred) ==
    IF preferred \in Leaves(p, f) THEN preferred ELSE CHOOSE l \in Leaves(p, f) : TRUE

StoriesUnder(p, S) == {s \in DOMAIN p.story : p.story[s].feature \in S}
\* delete_features: the continuations and the stories go too.
DeleteFeatures(p, S) ==
    LET gone == S \cup Descendants(p, S)
    IN Drop(Drop(p, "story", StoriesUnder(p, gone)), "feature", gone)

-----------------------------------------------------------------------------
(* Iteration paths                                                         *)

PathsBut(p, slots) == {p.path[x].path : x \in DOMAIN p.path \ slots} \ {Nothing}
IterationPathTaken(p, path, slot) == path # Nothing /\ path \in PathsBut(p, {slot})

\* IterationIndex.resolve
Targets(p, path) == {x \in DOMAIN p.path : x[1] \in DOMAIN p.pi /\ path # Nothing /\ p.path[x].path = path}

Closed(p, pi) == pi \in DOMAIN p.pi /\ p.pi[pi].state = "closed"

\* place_feature: a split feature stays, and one whose old or new PI is closed.
PlaceFeature(p, f, pi) ==
    IF LineageMembers(p, f) # {f} \/ Closed(p, pi) \/ Closed(p, p.feature[f].pi) THEN p
    ELSE [p EXCEPT !.feature[f].pi = pi]

-----------------------------------------------------------------------------
(* The import of a CSV file                                                *)

IsFeature(row) == row.kind = "feature"
IsStory(row) == row.kind # "feature"
Indices(rows) == {i \in DOMAIN rows : rows[i].uid # Nothing}

\* _validate_rows
ValidRows(rows) == \A i, j \in Indices(rows) : rows[i].uid = rows[j].uid => i = j

\* _fetch_existing: ids by business id.
IdsByUid(rows) ==
    [uid \in UidsOf(rows) |-> CHOOSE x \in DOMAIN rows : rows[x].uid = uid]
FetchExisting(p) == [feature |-> IdsByUid(p.feature), story |-> IdsByUid(p.story)]

\* _detect_type_changes
Promotes(row, maps) == IsFeature(row) /\ row.uid \in DOMAIN maps.story
Demotes(row, maps) == IsStory(row) /\ row.uid \in DOMAIN maps.feature

\* A row whose type change is not applied is not imported.
Imported(file, maps) ==
    {row \in Range(file.rows) : ~ Demotes(row, maps) /\ (Promotes(row, maps) => file.retype)}

\* Mutant: the story stays beside the feature it becomes.
PromotionsKeepStories(p, file, maps) == p
\* _apply_promotions: the stories' ids are free for the features.
Promotions(p, file, maps) ==
    Drop(p, "story", {maps.story[row.uid] : row \in {r \in Range(file.rows) : Promotes(r, maps) /\ file.retype}})

\* _cross_entity_errors: a story to be promoted that is gone refuses the file.
CrossEntityErrors(p, file, maps) == \E row \in Imported(file, maps) :
    Promotes(row, maps) /\ maps.story[row.uid] \notin DOMAIN p.story

\* What a row of the file is worked into: the plan so far, where its features landed,
\* and the ids that rows still to come may get.
Least(S) == CHOOSE x \in S : \A y \in S : x <= y
Insert(acc, table, row) ==
    [acc EXCEPT !.plan = Put(@, table, Least(acc.spare[table]), row),
                !.spare[table] = @ \ {Least(acc.spare[table])}]

\* get_or_create_state, by a row: a blank cell names none.
WithState(acc, file, type, value) ==
    IF ~ file.stateColumn \/ value = Nothing \/ FindState(acc.plan, type, value) # {} THEN acc
    ELSE Insert(acc, "list", NewState(acc.plan, type, value, FALSE))
Named(p, type, value) == IF value = Nothing THEN Nothing ELSE CHOOSE d \in FindState(p, type, value) : TRUE
\* _resolve_row_state, where old is what a file without a State column leaves.
RowState(acc, file, type, value, old) == IF file.stateColumn THEN Named(acc.plan, type, value) ELSE old

\* _upsert_one_feature: the whole lineage is kept in step.
Updated(acc, file, row, f) ==
    IF f \notin DOMAIN acc.plan.feature THEN acc
    ELSE [acc EXCEPT !.plan.feature = [m \in DOMAIN acc.plan.feature |->
            IF m \in LineageMembers(acc.plan, f)
            THEN [acc.plan.feature[m] EXCEPT !.unassigned = FALSE, !.state = RowState(acc, file, "feature", row.state, @)]
            ELSE acc.plan.feature[m]]]
Lands(acc, row, f) == [acc EXCEPT !.landed = Append(@, <<row, f>>)]
UpsertFeature(acc, file, row, maps) ==
    IF row.uid \in DOMAIN maps.feature
    THEN Updated(Lands(acc, row, maps.feature[row.uid]), file, row, maps.feature[row.uid])
    ELSE Insert(Lands(acc, row, Least(acc.spare.feature)),
                "feature", NewFeature(row.uid, RowState(acc, file, "feature", row.state, Nothing)))
FeatureOfRow(acc, file, row, maps) ==
    IF IsFeature(row) /\ row \in Imported(file, maps)
    THEN UpsertFeature(WithState(acc, file, "feature", row.state), file, row, maps) ELSE acc
UpsertFeatures(acc, file, maps) ==
    LET upTo[k \in 0 .. Len(file.rows)] ==
            IF k = 0 THEN acc ELSE FeatureOfRow(upTo[k - 1], file, file.rows[k], maps)
    IN upTo[Len(file.rows)]

\* _place_from_iterations: a path that names no PI places nothing.
Placed(acc, landed) ==
    IF Targets(acc.plan, landed[1].path) = {} \/ landed[2] \notin DOMAIN acc.plan.feature THEN acc
    ELSE [acc EXCEPT !.plan = PlaceFeature(@, landed[2], (CHOOSE x \in Targets(@, landed[1].path) : TRUE)[1])]
PlaceFromIterations(acc, file) ==
    LET upTo[k \in 0 .. Len(acc.landed)] == IF k = 0 THEN acc ELSE Placed(upTo[k - 1], acc.landed[k])
    IN IF file.places THEN upTo[Len(acc.landed)] ELSE acc

\* The features a Parent may name. Mutant: only those the project held before.
ParentsInProject(acc, maps) == maps.feature
FeatureOfFile(acc, uid) == {landed[2] : landed \in {l \in Range(acc.landed) : l[1].uid = uid}}
ParentLookup(acc, maps) ==
    [uid \in (DOMAIN maps.feature \cup {landed[1].uid : landed \in Range(acc.landed)}) \ {Nothing} |->
       IF FeatureOfFile(acc, uid) # {} THEN CHOOSE f \in FeatureOfFile(acc, uid) : TRUE ELSE maps.feature[uid]]

\* _get_or_create_unassigned: the placeholder of the backlog, for orphans that are new.
Landing(p) == {f \in DOMAIN p.feature :
    p.feature[f].unassigned /\ p.feature[f].uid = Nothing /\ p.feature[f].pi = Nothing}
NeedsLanding(rows, maps, parents) == \E row \in rows :
    IsStory(row) /\ row.parent \notin DOMAIN parents /\ row.uid \notin DOMAIN maps.story
WithLanding(acc, rows, maps, parents) ==
    IF NeedsLanding(rows, maps, parents) /\ Landing(acc.plan) = {}
    THEN Insert(acc, "feature", [NewFeature(Nothing, Nothing) EXCEPT !.unassigned = TRUE]) ELSE acc

\* _parent_targets: where a new story joins, and the lineage a known one has not left.
Target(p, f, preferred) == IF f \in DOMAIN p.feature THEN NewestLeaf(p, f, preferred) ELSE f
Members(p, f) == {f} \cup Descendants(p, {f})

\* CompletionTally.apply: the file's date, where the file has dates and the item is done.
\* Mutant: the import writes the state and leaves the date.
NoTally(acc, file, row, story, was) == story
Tally(acc, file, row, story, was) ==
    [story EXCEPT !.date = Completed(acc.plan, @, was, story.state, IF file.dates /\ row.dated THEN "given" ELSE Nothing)]

\* A State belongs to one kind of item: switching it clears the State.
\* Mutant: a file without a State column leaves it.
SwitchedKeeping(acc, file, row, story) ==
    [story EXCEPT !.kind = row.kind, !.state = RowState(acc, file, row.kind, row.state, @)]
Switched(acc, file, row, story) ==
    [story EXCEPT !.kind = row.kind,
                  !.state = RowState(acc, file, row.kind, row.state, IF row.kind = story.kind THEN @ ELSE Nothing)]

\* _reparent, if the file moved the story out of its lineage and the caller wants it.
Reparented(acc, file, row, parents, story, preferred) ==
    LET f == parents[row.parent] IN
    IF ~ file.reparent \/ row.parent \notin DOMAIN parents THEN story
    ELSE IF story.feature \in Members(acc.plan, f) \/ Target(acc.plan, f, preferred) \notin DOMAIN acc.plan.feature THEN story
    ELSE [story EXCEPT !.feature = Target(acc.plan, f, preferred)]

\* _upsert_one_story
UpdateStory(acc, file, row, parents, s, preferred) ==
    LET story == acc.plan.story[s]
        written == Tally(acc, file, row, Switched(acc, file, row, story), story.state)
    IN IF s \notin DOMAIN acc.plan.story THEN acc
       ELSE [acc EXCEPT !.plan.story[s] = Reparented(acc, file, row, parents, written, preferred)]
CreateStory(acc, file, row, parents, preferred) ==
    LET home == IF row.parent \in DOMAIN parents THEN Target(acc.plan, parents[row.parent], preferred)
                ELSE CHOOSE f \in Landing(acc.plan) : TRUE
        state == RowState(acc, file, row.kind, row.state, Nothing)
    IN Insert(acc, "story", Tally(acc, file, row, NewStory(home, row.uid, row.kind, state), Nothing))
UpsertStory(acc, file, row, maps, parents, preferred) ==
    IF row.uid \in DOMAIN maps.story
    THEN UpdateStory(acc, file, row, parents, maps.story[row.uid], preferred)
    ELSE CreateStory(acc, file, row, parents, preferred)
StoryOfRow(acc, file, rows, row, maps, parents, preferred) ==
    IF IsStory(row) /\ row \in rows
    THEN UpsertStory(WithState(acc, file, row.kind, row.state), file, row, maps, parents, preferred) ELSE acc
UpsertStories(acc, file, rows, maps, parents, preferred) ==
    LET upTo[k \in 0 .. Len(file.rows)] ==
            IF k = 0 THEN WithLanding(acc, rows, maps, parents)
            ELSE StoryOfRow(upTo[k - 1], file, rows, file.rows[k], maps, parents, preferred)
    IN upTo[Len(file.rows)]

\* _apply_removals: features with all that is theirs, then the stories left of the list.
Removed(p, removals) ==
    LET rest == DeleteFeatures(p, {f \in DOMAIN p.feature : <<"feature", f>> \in removals})
    IN Drop(rest, "story", {s \in DOMAIN p.story : <<"story", s>> \in removals})

\* execute_import from the maps on.
ImportRows(p, file, maps, spare, preferred) ==
    LET rows == Imported(file, maps)
        features == UpsertFeatures([plan |-> Promotions(p, file, maps), landed |-> <<>>, spare |-> spare], file, maps)
        placed == PlaceFromIterations(features, file)
        known == [maps EXCEPT !.story = Without(@, {row.uid : row \in {r \in rows : IsFeature(r)}})]
    IN UpsertStories(placed, file, rows, known, ParentLookup(placed, maps), preferred).plan

ExecuteImport(p, file, spare, preferred) ==
    ImportRows(Removed(p, file.removals), file, FetchExisting(Removed(p, file.removals)), spare, preferred)

-----------------------------------------------------------------------------
(* Copies                                                                  *)

\* restore_features leaves out what continues what, a second pass links it.
Unlinked(p) == [p EXCEPT !.feature = [f \in DOMAIN @ |-> [@[f] EXCEPT !.origin = Nothing]]]
\* Mutant: there is no second pass.
RebuiltUnlinked(copy) == Unlinked(copy)
Rebuilt(copy) ==
    [Unlinked(copy) EXCEPT !.feature = [f \in DOMAIN @ |-> [@[f] EXCEPT !.origin = copy.feature[f].origin]]]

\* import_project under new ids: a reference to what the file does not hold is dropped,
\* but a story needs its feature.
Remap(x, known) == IF x \in known THEN x ELSE Nothing
Importable(copy) == \A s \in DOMAIN copy.story : copy.story[s].feature \in DOMAIN copy.feature
Remapped(copy) ==
    [copy EXCEPT
       !.feature = [f \in DOMAIN copy.feature |->
                      [copy.feature[f] EXCEPT !.state = Remap(@, DOMAIN copy.list),
                                              !.pi = Remap(@, DOMAIN copy.pi),
                                              !.origin = Remap(@, DOMAIN copy.feature)]],
       !.story = [s \in DOMAIN copy.story |-> [copy.story[s] EXCEPT !.state = Remap(@, DOMAIN copy.list)]]]
=============================================================================
