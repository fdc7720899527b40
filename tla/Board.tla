--------------------------------- MODULE Board ---------------------------------
(***************************************************************************)
(* The planning board of one project: features, their stories (PBIs),      *)
(* the groups that put stories into sprints, swimlanes and PIs, and every  *)
(* endpoint that creates, moves, splits or deletes one of them             *)
(* (backend/app/routes/features.py, pbis.py, groups.py, swimlines.py,      *)
(* pis.py; services/csv_import.py, iteration_placement.py).                *)
(*                                                                         *)
(* SQLite runs without PRAGMA foreign_keys, so nothing but these handlers  *)
(* keeps the rows' references consistent.  A handler is one step here: it  *)
(* commits once, and the edit lock serialises writers as far as EditLock   *)
(* says.  A refused request changes nothing and is no step.  Names,        *)
(* efforts and order indexes are left out; a name already taken refuses a  *)
(* request.                                                                *)
(***************************************************************************)
EXTENDS FiniteSets, Functions

CONSTANTS
  FeatureIds, StoryIds, GroupIds, LaneIds, PiIds,
  None,     \* SQL NULL
  AnyBody   \* TRUE: any request body the schemas accept arrives; FALSE: those
            \* the web client and the MCP tools send

Ids == FeatureIds \cup StoryIds \cup GroupIds \cup LaneIds \cup PiIds

ASSUME IdsAssumption == None \notin Ids

ASSUME AnyBodyAssumption == AnyBody \in BOOLEAN

PiStates == {"draft", "in_progress", "closed"}

FeatureRow == [location : {"backlog", "pi"}, pi : PiIds \cup {None},
               lane : LaneIds \cup {None}, origin : FeatureIds \cup {None}]

StoryRow == [feature : FeatureIds, group : GroupIds \cup {None}]

\* story is story_system_id: the story an implicit group was made for, None in
\* an explicit group.
GroupRow == [lane : LaneIds, feature : FeatureIds, story : StoryIds \cup {None}]

VARIABLES
  feature, story, group,  \* the tables: functions from the live ids to rows
  lane,                   \* swimlines: live ids to the PI
  pi                      \* live ids to the state

vars == <<feature, story, group, lane, pi>>

Table(ids, rows) == UNION {[live -> rows] : live \in SUBSET ids}

TypeOK ==
  /\ feature \in Table(FeatureIds, FeatureRow)
  /\ story \in Table(StoryIds, StoryRow)
  /\ group \in Table(GroupIds, GroupRow)
  /\ lane \in Table(LaneIds, PiIds)
  /\ pi \in Table(PiIds, PiStates)

Init ==
  /\ feature = << >>
  /\ story = << >>
  /\ group = << >>
  /\ lane = << >>
  /\ pi = << >>

-----------------------------------------------------------------------------
(* Rows *)

Insert(table, id, row) ==
  [x \in DOMAIN table \cup {id} |-> IF x = id THEN row ELSE table[x]]

Delete(table, ids) == Restrict(table, DOMAIN table \ ids)

InUse ==
  UNION {DOMAIN feature, DOMAIN story, DOMAIN group, DOMAIN lane, DOMAIN pi}
    \cup UNION {{r.pi, r.lane, r.origin} : r \in Range(feature)}
    \cup UNION {{r.feature, r.group} : r \in Range(story)}
    \cup UNION {{r.lane, r.feature, r.story} : r \in Range(group)}
    \cup Range(lane)

\* Ids are UUIDs.  One that no row has or mentions any more stands for a new one.
New(ids) == ids \ InUse

StoriesOf(F) == {s \in DOMAIN story : story[s].feature \in F}
StoriesIn(G) == {s \in DOMAIN story : story[s].group \in G}
GroupsOf(F) == {g \in DOMAIN group : group[g].feature \in F}
GroupsOn(L) == {g \in DOMAIN group : group[g].lane \in L}
FeaturesOn(L) == {f \in DOMAIN feature : feature[f].lane \in L}

\* Deleting groups through the session empties their pbis collection first.
Ungrouped(table, G) ==
  [s \in DOMAIN table |->
     IF table[s].group \in G THEN [table[s] EXCEPT !.group = None] ELSE table[s]]

InBacklog(row) == [row EXCEPT !.location = "backlog", !.pi = None, !.lane = None]

ToBacklog(F) ==
  [f \in DOMAIN feature |-> IF f \in F THEN InBacklog(feature[f]) ELSE feature[f]]

-----------------------------------------------------------------------------
(* PIs *)

NoOtherActive(p) == \A q \in DOMAIN pi \ {p} : pi[q] # "in_progress"

CreatePi(p, state) ==
  /\ state = "in_progress" => NoOtherActive(p)
  /\ pi' = Insert(pi, p, state)
  /\ UNCHANGED <<feature, story, group, lane>>

UpdatePiState(p, state) ==
  /\ pi[p] # "closed"
  /\ state = "in_progress" => NoOtherActive(p)
  /\ pi' = [pi EXCEPT ![p] = state]
  /\ UNCHANGED <<feature, story, group, lane>>

\* The features on its lanes go back to the backlog; its lanes and their groups
\* are deleted with it.  A feature that names the PI without being on one of
\* its lanes only loses the PI.
DeletePi(p) ==
  LET lanes == {l \in DOMAIN lane : lane[l] = p}
      gone == GroupsOn(lanes)
  IN /\ feature' = [f \in DOMAIN feature |->
                      IF feature[f].lane \in lanes THEN InBacklog(feature[f])
                      ELSE IF feature[f].pi = p
                           THEN [feature[f] EXCEPT !.pi = None]
                      ELSE feature[f]]
     /\ group' = Delete(group, gone)
     /\ story' = Ungrouped(story, gone)
     /\ lane' = Delete(lane, lanes)
     /\ pi' = Delete(pi, {p})

-----------------------------------------------------------------------------
(* Swimlanes *)

CreateSwimline(l, p) ==
  /\ lane' = Insert(lane, l, p)
  /\ UNCHANGED <<feature, story, group, pi>>

\* Mutant: the groups are left to a cascade that SQLite does not perform.
DeleteSwimlineOnly(l) ==
  /\ feature' = ToBacklog(FeaturesOn({l}))
  /\ lane' = Delete(lane, {l})
  /\ UNCHANGED <<story, group, pi>>

DeleteSwimline(l) ==
  LET gone == GroupsOn({l})
  IN /\ feature' = ToBacklog(FeaturesOn({l}))
     /\ group' = Delete(group, gone)
     /\ story' = Ungrouped(story, gone)
     /\ lane' = Delete(lane, {l})
     /\ UNCHANGED <<pi>>

-----------------------------------------------------------------------------
(* Features *)

CreateFeature(f) ==
  /\ feature' = Insert(feature, f,
       [location |-> "backlog", pi |-> None, lane |-> None, origin |-> None])
  /\ UNCHANGED <<story, group, lane, pi>>

\* Mutant: the feature keeps the PI it has.
MoveToSwimlaneKeepingPi(f, l, p) ==
  /\ ~AnyBody => p = lane[l]
  /\ feature' = [feature EXCEPT ![f] = [@ EXCEPT !.location = "pi", !.lane = l]]
  /\ group' = [g \in DOMAIN group |->
                 IF group[g].feature = f THEN [group[g] EXCEPT !.lane = l] ELSE group[g]]

\* _apply_move_to_swimlane: the groups come along.  The clients leave pi_id
\* out, and the feature takes the lane's; a given one is not checked.
MoveToSwimlane(f, l, p) ==
  /\ ~AnyBody => p = lane[l]
  /\ feature' = [feature EXCEPT ![f] = [@ EXCEPT !.location = "pi", !.lane = l, !.pi = p]]
  /\ group' = [g \in DOMAIN group |->
                 IF group[g].feature = f THEN [group[g] EXCEPT !.lane = l] ELSE group[g]]

UpdateToSwimlane(f, l, p) ==
  MoveToSwimlane(f, l, p) /\ UNCHANGED <<story, lane, pi>>

\* Mutant: deleting the groups cascades to their stories.
MoveToBacklogCascading(f) ==
  /\ feature' = ToBacklog({f})
  /\ group' = Delete(group, GroupsOf({f}))
  /\ story' = Delete(story, StoriesIn(GroupsOf({f})))
  /\ UNCHANGED <<lane, pi>>

\* _apply_move_to_backlog: the groups are deleted, their stories ungrouped.
MoveToBacklog(f) ==
  /\ feature' = ToBacklog({f})
  /\ group' = Delete(group, GroupsOf({f}))
  /\ story' = Ungrouped(story, GroupsOf({f}))
  /\ UNCHANGED <<lane, pi>>

\* _apply_generic_location_fields: any PI, no lane, perhaps location "pi",
\* unchecked.
UpdateLocationFields(f, p, l, location) ==
  /\ AnyBody
  /\ l \in {None, feature[f].lane}
  /\ location \in {feature[f].location, "pi"}
  /\ feature' = [feature EXCEPT ![f] =
                   [@ EXCEPT !.location = location, !.pi = p, !.lane = l]]
  /\ UNCHANGED <<story, group, lane, pi>>

\* detach_pbi_from_group for each of S: an implicit group they leave empty goes.
Emptied(S) ==
  {g \in DOMAIN group : /\ group[g].story # None
                        /\ StoriesIn({g}) # {}
                        /\ StoriesIn({g}) \subseteq S}

\* Mutant: the stories take their groups along.
SplitOffGrouped(f, l, S, n) ==
  /\ feature[f].location = "pi"
  /\ S # {} /\ S # StoriesOf({f})
  /\ feature' = Insert(feature, n,
       [location |-> "pi", pi |-> lane[l], lane |-> l, origin |-> f])
  /\ story' = [s \in DOMAIN story |->
                 IF s \in S THEN [story[s] EXCEPT !.feature = n] ELSE story[s]]
  /\ UNCHANGED <<group, lane, pi>>

\* Part of the stories go on in a new feature on a lane of some PI, out of
\* their groups.
SplitOff(f, l, S, n) ==
  /\ feature[f].location = "pi"
  /\ S # {} /\ S # StoriesOf({f})
  /\ feature' = Insert(feature, n,
       [location |-> "pi", pi |-> lane[l], lane |-> l, origin |-> f])
  /\ story' = [s \in DOMAIN story |->
                 IF s \in S THEN [feature |-> n, group |-> None] ELSE story[s]]
  /\ group' = Delete(group, Emptied(S))
  /\ UNCHANGED <<lane, pi>>

\* All of them: the feature itself moves.
SplitAll(f, l) ==
  /\ feature[f].location = "pi"
  /\ StoriesOf({f}) # {}
  /\ MoveToSwimlane(f, l, lane[l])
  /\ UNCHANGED <<story, lane, pi>>

\* Mutant: the later continuations do not stop it.
CancelContinuationMidway(f) ==
  /\ feature[f].origin \in DOMAIN feature
  /\ LET gone == Emptied(StoriesOf({f})) \cup GroupsOf({f})
     IN /\ story' = [s \in DOMAIN story |->
                       IF story[s].feature = f
                       THEN [feature |-> feature[f].origin, group |-> None]
                       ELSE Ungrouped(story, gone)[s]]
        /\ group' = Delete(group, gone)
  /\ feature' = Delete(feature, {f})
  /\ UNCHANGED <<lane, pi>>

\* The stories return to the origin, out of their groups, and the continuation
\* is deleted with the groups it has left.
CancelContinuation(f) ==
  /\ feature[f].origin \in DOMAIN feature
  /\ \A n \in DOMAIN feature : feature[n].origin # f
  /\ LET gone == Emptied(StoriesOf({f})) \cup GroupsOf({f})
     IN /\ story' = [s \in DOMAIN story |->
                       IF story[s].feature = f
                       THEN [feature |-> feature[f].origin, group |-> None]
                       ELSE Ungrouped(story, gone)[s]]
        /\ group' = Delete(group, gone)
  /\ feature' = Delete(feature, {f})
  /\ UNCHANGED <<lane, pi>>

\* descendant_ids: the continuations, transitively.
Descends(n, f) ==
  \E chain \in SUBSET DOMAIN feature :
    /\ n \in chain
    /\ \A x \in chain : feature[x].origin \in chain \cup {f}
Lineage(f) == {f} \cup {n \in DOMAIN feature : Descends(n, f)}

\* delete_features: the lineage with its stories and groups.
DeleteFeature(f) ==
  LET gone == Lineage(f)
  IN /\ feature' = Delete(feature, gone)
     /\ story' = Delete(Ungrouped(story, GroupsOf(gone)), StoriesOf(gone))
     /\ group' = Delete(group, GroupsOf(gone))
     /\ UNCHANGED <<lane, pi>>

\* DELETE FROM pbis and features where the feature is in the backlog.
ClearBacklog ==
  LET gone == {f \in DOMAIN feature : feature[f].location = "backlog"}
  IN /\ gone # {}
     /\ feature' = Delete(feature, gone)
     /\ story' = Delete(story, StoriesOf(gone))
     /\ UNCHANGED <<group, lane, pi>>

ClearAllFeatures ==
  /\ feature' = << >>
  /\ story' = << >>
  /\ group' = Delete(group, GroupsOf(DOMAIN feature))
  /\ UNCHANGED <<lane, pi>>

-----------------------------------------------------------------------------
(* Stories *)

CreatePbi(s, f) ==
  /\ story' = Insert(story, s, [feature |-> f, group |-> None])
  /\ UNCHANGED <<feature, group, lane, pi>>

\* update_pbi with a group_id, which no shipped client sends: the new group is
\* not looked up; an implicit group left empty goes.
UpdatePbiGroup(s, g) ==
  /\ AnyBody
  /\ g # story[s].group
  /\ story' = [story EXCEPT ![s].group = g]
  /\ group' = Delete(group, Emptied({s}))
  /\ UNCHANGED <<feature, lane, pi>>

\* The story gets an implicit group of its own; story_system_id is unique among
\* implicit groups.
PlaceStoryInSprint(s, g) ==
  LET f == story[s].feature
  IN /\ story[s].group = None
     /\ f \in DOMAIN feature
     /\ feature[f].location = "pi"
     /\ feature[f].lane # None
     /\ \A h \in DOMAIN group : group[h].story # s
     /\ group' = Insert(group, g, [lane |-> feature[f].lane, feature |-> f, story |-> s])
     /\ story' = [story EXCEPT ![s].group = g]
     /\ UNCHANGED <<feature, lane, pi>>

\* An implicit group goes whatever else it holds.
UnplaceStory(s) ==
  LET gone == {g \in {story[s].group} \cap DOMAIN group : group[g].story # None}
  IN /\ story[s].group # None
     /\ story' = [Ungrouped(story, gone) EXCEPT ![s].group = None]
     /\ group' = Delete(group, gone)
     /\ UNCHANGED <<feature, lane, pi>>

\* delete_pbi_and_empty_group: a group of either kind goes when it is emptied.
DeletePbi(s) ==
  /\ story' = Delete(story, {s})
  /\ group' = Delete(group, {g \in DOMAIN group : StoriesIn({g}) = {s}})
  /\ UNCHANGED <<feature, lane, pi>>

-----------------------------------------------------------------------------
(* Groups *)

\* A story taken from another group, which the web client never does and an MCP
\* tool can, leaves that group as it is, even when it was implicit.
CreateGroup(g, f, S) ==
  /\ feature[f].lane # None
  /\ group' = Insert(group, g, [lane |-> feature[f].lane, feature |-> f, story |-> None])
  /\ story' = [s \in DOMAIN story |->
                 IF s \in S THEN [story[s] EXCEPT !.group = g] ELSE story[s]]
  /\ UNCHANGED <<feature, lane, pi>>

\* Renaming an implicit group makes it an explicit one.
RenameGroup(g) ==
  /\ group[g].story # None
  /\ group' = [group EXCEPT ![g].story = None]
  /\ UNCHANGED <<feature, story, lane, pi>>

DeleteGroup(g) ==
  /\ story' = Ungrouped(story, {g})
  /\ group' = Delete(group, {g})
  /\ UNCHANGED <<feature, lane, pi>>

-----------------------------------------------------------------------------
(* The CSV import *)

\* execute_import writes what its rows say one after the other and commits once;
\* each row's write is a step here.  A row that creates, promotes or removes an
\* item writes as CreateFeature, CreatePbi, DeletePbi or DeleteFeature do.

Unsplit(f) ==
  /\ feature[f].origin \notin DOMAIN feature
  /\ \A n \in DOMAIN feature : feature[n].origin # f

SameLineage(n, f) == \E root \in DOMAIN feature : {n, f} \subseteq Lineage(root)

\* The lane of the name the feature's lane had, or "Needs Swimlane", perhaps a
\* new one; names are left out.
Landing(p, l) ==
  \/ l \in DOMAIN lane /\ lane[l] = p /\ UNCHANGED lane
  \/ l \in New(LaneIds) /\ lane' = Insert(lane, l, p)

\* Every group of the feature goes, named ones included.
UnplaceFeatureStories(f) ==
  /\ group' = Delete(group, GroupsOf({f}))
  /\ story' = Ungrouped(story, GroupsOf({f}))

\* An iteration path moves an unsplit feature to a PI that is not closed, unless
\* the one it stands in is.
PlaceFeature(f, p, l) ==
  LET from == IF feature[f].location = "pi" THEN feature[f].pi ELSE None
  IN /\ from # p
     /\ Unsplit(f)
     /\ pi[p] # "closed"
     /\ \/ from \in DOMAIN pi /\ pi[from] # "closed" /\ UnplaceFeatureStories(f)
        \/ from \notin DOMAIN pi /\ UNCHANGED <<story, group>>
     /\ Landing(p, l)
     /\ feature' = [feature EXCEPT ![f] = [@ EXCEPT !.location = "pi", !.lane = l, !.pi = p]]
     /\ UNCHANGED <<pi>>

\* A story follows its feature and is placed within that feature's PI only.
PlacedIn(f, p) ==
  /\ f \in DOMAIN feature
  /\ feature[f].location = "pi" /\ feature[f].pi = p /\ feature[f].lane # None
  /\ pi[p] # "closed"

\* The path of a sprint groups an ungrouped story; a named group is left alone,
\* and an implicit one only changes its sprint.
PlaceStory(s, p, g) ==
  LET f == story[s].feature
  IN /\ PlacedIn(f, p)
     /\ story[s].group \notin DOMAIN group
     /\ \A h \in DOMAIN group : group[h].story # s
     /\ group' = Insert(group, g, [lane |-> feature[f].lane, feature |-> f, story |-> s])
     /\ story' = [story EXCEPT ![s].group = g]
     /\ UNCHANGED <<feature, lane, pi>>

\* The path of the PI itself takes a story out of an implicit group.
PlaceStoryOutside(s, p) ==
  /\ PlacedIn(story[s].feature, p)
  /\ \E g \in DOMAIN group : story[s].group = g /\ group[g].story # None
  /\ story' = [story EXCEPT ![s].group = None]
  /\ group' = Delete(group, Emptied({s}))
  /\ UNCHANGED <<feature, lane, pi>>

\* The file names a parent of another lineage; the story goes to its newest leaf.
Reparent(s, f) ==
  /\ \A n \in DOMAIN feature : feature[n].origin # f
  /\ ~SameLineage(story[s].feature, f)
  /\ story' = [story EXCEPT ![s] = [feature |-> f, group |-> None]]
  /\ group' = Delete(group, Emptied({s}))
  /\ UNCHANGED <<feature, lane, pi>>

-----------------------------------------------------------------------------
PiOrLaneStep ==
  \/ \E p \in New(PiIds), st \in PiStates : CreatePi(p, st)
  \/ \E p \in DOMAIN pi, st \in PiStates : UpdatePiState(p, st)
  \/ \E p \in DOMAIN pi : DeletePi(p)
  \/ \E l \in New(LaneIds), p \in DOMAIN pi : CreateSwimline(l, p)
  \/ \E l \in DOMAIN lane : DeleteSwimline(l)

FeatureStep ==
  \/ \E f \in New(FeatureIds) : CreateFeature(f)
  \/ \E f \in DOMAIN feature :
       \/ \E l \in DOMAIN lane, p \in PiIds : UpdateToSwimlane(f, l, p)
       \/ MoveToBacklog(f)
       \/ \E p \in PiIds \cup {None}, l \in LaneIds \cup {None}, loc \in {"backlog", "pi"} :
            UpdateLocationFields(f, p, l, loc)
       \/ \E l \in DOMAIN lane, S \in SUBSET StoriesOf({f}), n \in New(FeatureIds) :
            SplitOff(f, l, S, n)
       \/ \E l \in DOMAIN lane : SplitAll(f, l)
       \/ CancelContinuation(f)
       \/ DeleteFeature(f)
  \/ ClearBacklog
  \/ ClearAllFeatures

StoryStep ==
  \/ \E s \in New(StoryIds), f \in DOMAIN feature : CreatePbi(s, f)
  \/ \E s \in DOMAIN story :
       \/ \E g \in GroupIds \cup {None} : UpdatePbiGroup(s, g)
       \/ \E g \in New(GroupIds) : PlaceStoryInSprint(s, g)
       \/ UnplaceStory(s)
       \/ DeletePbi(s)

GroupStep ==
  \/ \E g \in New(GroupIds), f \in DOMAIN feature :
       \E S \in SUBSET StoriesOf({f}) : CreateGroup(g, f, S)
  \/ \E g \in DOMAIN group : RenameGroup(g) \/ DeleteGroup(g)

ImportStep ==
  \/ \E f \in DOMAIN feature, p \in DOMAIN pi, l \in LaneIds : PlaceFeature(f, p, l)
  \/ \E s \in DOMAIN story :
       \/ \E p \in DOMAIN pi, g \in New(GroupIds) : PlaceStory(s, p, g)
       \/ \E p \in DOMAIN pi : PlaceStoryOutside(s, p)
       \/ \E f \in DOMAIN feature : Reparent(s, f)

Next == PiOrLaneStep \/ FeatureStep \/ StoryStep \/ GroupStep \/ ImportStep

Spec == Init /\ [][Next]_vars

-----------------------------------------------------------------------------
(* What holds *)

\* No row names a row that is gone: a story its feature and group, a group its
\* lane and feature, a feature its lane and PI, a lane its PI.
ReferencesResolve ==
  /\ \A s \in DOMAIN story : /\ story[s].feature \in DOMAIN feature
                             /\ story[s].group \in DOMAIN group \cup {None}
  /\ \A g \in DOMAIN group : /\ group[g].lane \in DOMAIN lane
                             /\ group[g].feature \in DOMAIN feature
  /\ \A f \in DOMAIN feature : /\ feature[f].lane \in DOMAIN lane \cup {None}
                               /\ feature[f].pi \in DOMAIN pi \cup {None}
  /\ \A l \in DOMAIN lane : lane[l] \in DOMAIN pi

\* location, swimlane_id and pi_id say the same of a feature: on a board it is
\* on a lane of that PI, in the backlog on neither.
PlacementAgrees ==
  \A f \in DOMAIN feature :
    IF feature[f].location = "pi"
    THEN feature[f].lane \in DOMAIN lane /\ feature[f].pi = lane[feature[f].lane]
    ELSE feature[f].lane = None /\ feature[f].pi = None

\* A group is drawn on its feature's lane, so a backlog feature has none.
GroupsFollowTheirFeature ==
  \A g \in DOMAIN group :
    group[g].feature \in DOMAIN feature /\ group[g].lane = feature[group[g].feature].lane

\* specification.md 2.3: "Groups contain PBIs from one Feature only", the
\* group's own, on which delete_features relies.
GroupsHoldOwnStories ==
  \A s \in DOMAIN story :
    story[s].group \in DOMAIN group => group[story[s].group].feature = story[s].feature

\* An implicit group, drawn as the card of its story, never holds another one.
ImplicitGroupsHoldOnlyTheirStory ==
  \A g \in DOMAIN group :
    group[g].story # None => StoriesIn({g}) \subseteq {group[g].story}

\* However a story is grouped, split off, re-parented or deleted and its feature
\* moved, a group stays a part of one card: on its feature's lane, holding that
\* feature's stories only, an implicit one none but its own.  delete_features and
\* the unplace button of an implicit group take this for granted.
GroupsAreWhole ==
  GroupsFollowTheirFeature /\ GroupsHoldOwnStories /\ ImplicitGroupsHoldOnlyTheirStory

\* Splits, moves and removed groups, lanes or PIs regroup work and never destroy
\* it: a story disappears only on its own deletion, alone, or with its feature.
WorkIsNotLost ==
  [][\A s \in DOMAIN story \ DOMAIN story' :
       \/ DOMAIN story \ DOMAIN story' = {s} /\ feature' = feature
       \/ story[s].feature \notin DOMAIN feature']_vars

\* Cancelling, deleting and clearing everything leave no continuation without
\* its origin: that takes a clearing of the backlog with the origin in it.
OnlyClearBacklogOrphans ==
  [][\A f \in DOMAIN feature' :
       LET origin == feature'[f].origin
       IN origin \in DOMAIN feature \ DOMAIN feature'
            => feature[origin].location = "backlog" /\ feature[f].location = "pi"]_vars

-----------------------------------------------------------------------------
(* What the documentation says and the code does not do *)

\* ADR 0004: a feature and its continuations are one work item; deleting one
\* never leaves a continuation whose origin is gone.
LineageResolves ==
  \A f \in DOMAIN feature : feature[f].origin \in DOMAIN feature \cup {None}

=============================================================================
