------------------------------ MODULE MCPlans ------------------------------
\* An instance that looks at six corners of a plan, not at their product.
EXTENDS Plans, TLC
CONSTANTS u1, u2, u3, x1, x2

Feature(uid, state, origin, pi) == [NewFeature(uid, state) EXCEPT !.origin = origin, !.pi = pi]
Story(f, uid, kind, state, date) == [NewStory(f, uid, kind, state) EXCEPT !.date = date]
State(type, value, position, done) == [type |-> type, value |-> value, position |-> position, done |-> done]
PathsOf(pis, paths) == [x \in pis \X {0, 1} |-> [path |-> IF x \in DOMAIN paths THEN paths[x] ELSE Nothing]]

Empty == [feature |-> <<>>, story |-> <<>>, list |-> <<>>, pi |-> <<>>, path |-> <<>>]
OneFeature == [Empty EXCEPT !.feature = <<NewFeature(Nothing, Nothing)>>]
OnePi == [OneFeature EXCEPT !.pi = <<[state |-> "draft"]>>, !.path = PathsOf({1}, <<>>)]
TwoPis == [OneFeature EXCEPT !.pi = (1 :> [state |-> "draft"]) @@ (2 :> [state |-> "draft"]), !.path = PathsOf({1, 2}, <<>>)]
\* A story that is done, one that is not, a list for each kind, a PI and its sprint with paths.
Small == [feature |-> (1 :> Feature(u1, 1, Nothing, Nothing)),
          story |-> (1 :> Story(1, u2, "story", 2, "today")),
          list |-> (1 :> State("feature", "new", 0, FALSE)) @@ (2 :> State("story", "done", 0, TRUE)) @@ (3 :> State("bug", "done", 0, TRUE)),
          pi |-> (1 :> [state |-> "draft"]),
          path |-> PathsOf({1}, (<<1, 0>> :> x1) @@ (<<1, 1>> :> x2))]
\* A feature that is split, and another one; the story of the continuation is open.
Split == [Small EXCEPT !.feature = (1 :> Feature(u1, Nothing, Nothing, 1)) @@ (2 :> Feature(Nothing, Nothing, 1, 1)) @@ (3 :> Feature(u3, Nothing, Nothing, Nothing)),
                       !.story = (1 :> Story(2, u2, "story", Nothing, Nothing))]
SomeSeeds == {Empty, OneFeature, OnePi, TwoPis, Small, Split}

-----------------------------------------------------------------------------
F(uid, state, path) == [kind |-> "feature", uid |-> uid, state |-> state, parent |-> Nothing, dated |-> FALSE, path |-> path]
S(kind, uid, state, parent, dated) == [kind |-> kind, uid |-> uid, state |-> state, parent |-> parent, dated |-> dated, path |-> Nothing]
SomeRows == {
    <<F(u1, "done", x2)>>, <<F(u2, Nothing, Nothing)>>, <<F(Nothing, "new", x1)>>,
    <<S("story", u1, "done", Nothing, FALSE)>>, <<S("bug", u2, "done", u3, TRUE)>>, <<S("story", u2, Nothing, u1, FALSE)>>,
    <<S("story", u3, "done", u2, TRUE)>>, <<S("story", Nothing, "done", u1, FALSE)>>,
    <<F(u2, "new", x1), S("story", u3, "done", u2, FALSE)>>,
    <<S("story", u2, "new", u3, FALSE), F(u3, "new", x1)>>,
    <<S("bug", u2, Nothing, u1, FALSE), F(u1, "new", x1)>>,
    <<F(u1, "new", x1), F(u1, "new", Nothing)>>}
Options == [stateColumn : BOOLEAN, dates : BOOLEAN, reparent : BOOLEAN, retype : BOOLEAN, places : BOOLEAN]
\* Everything on, or all but one.
SomeOptions == {c \in Options : Cardinality({k \in DOMAIN c : ~ c[k]}) <= 1}
File(rows, removals, c) ==
    [rows |-> rows, removals |-> removals, stateColumn |-> c.stateColumn, dates |-> c.dates, reparent |-> c.reparent,
     retype |-> c.retype, places |-> c.places]
SomeFiles == {File(rows, {}, c) : rows \in SomeRows, c \in SomeOptions}
        \cup {File(rows, removals, [k \in {"stateColumn", "dates", "reparent", "retype", "places"} |-> TRUE]) :
                rows \in SomeRows, removals \in {{<<"feature", 1>>}, {<<"story", 1>>}}}

-----------------------------------------------------------------------------
AtMost(features, stories, lists) ==
    /\ Cardinality(DOMAIN plan.feature) <= features /\ Cardinality(DOMAIN plan.story) <= stories
    /\ Cardinality(DOMAIN plan.list) <= lists
NoIds == UidsOf(plan.feature) \cup UidsOf(plan.story) = {}
Draft(pi) == pi \in DOMAIN plan.pi => plan.pi[pi].state # "closed"

ListOfStories == \A d \in DOMAIN plan.list : 
    plan.list[d].type = "story" /\ plan.list[d].position < 2 /\ (plan.list[d].done => plan.list[d].value = "done")
AboutAList == /\ Cardinality(DOMAIN held.was.list) <= 1 /\ Dated(held.was)
              /\ held.overtaken => held.was.list # held.is.list \/ held.was.list # plan.list
NoBugs == \A s \in DOMAIN plan.story : plan.story[s].kind = "story"

\* The corner a behaviour stays in: where it starts, which requests are served, where the plan may go.
VARIABLE corner
StartsFrom == [states |-> {OneFeature}, ids |-> {Empty}, pis |-> {TwoPis}, lineage |-> {OnePi},
               import |-> {Empty, Small, Split}, copies |-> {Small, Split}]
Goes == \/ corner \in {"states", "import", "copies"} /\ StateSteps
        \/ corner \in {"ids", "import"} /\ FeatureSteps
        \/ corner \in {"lineage", "copies"} /\ BoardSteps
        \/ corner \in {"pis"} /\ MoveFeature
        \/ corner \in {"states", "ids", "import"} /\ StorySteps
        \/ corner = "lineage" /\ CreatePbi
        \/ corner \in {"pis"} /\ PiSteps
        \/ corner = "import" /\ held = Idle /\ ImportCsv
        \/ corner = "import" /\ FinishImport
        \/ corner = "copies" /\ CopySteps
        \/ Ends
Fits == \/ corner = "states" /\ AtMost(1, 1, 2) /\ NoIds /\ ListOfStories /\ (held # Idle => AboutAList)
        \/ corner = "ids" /\ AtMost(1, 2, 0) /\ NoBugs /\ u3 \notin UidsOf(plan.feature) \cup UidsOf(plan.story)
        \/ corner = "pis" /\ DOMAIN plan.pi \subseteq {1, 2} /\ Draft(2) /\ x2 \notin PathsBut(plan, {})
        \/ corner = "lineage" /\ DOMAIN plan.feature \cup DOMAIN plan.story \subseteq {1, 2, 3} /\ NoBugs /\ NoIds /\ held = Idle
        \/ corner = "import" /\ (held # Idle => held.op = "import")
        \/ corner = "copies" /\ (held # Idle => held.op # "write" /\ (held.overtaken => held.was \in SomeSeeds))
\* One import into a seed; copies of a seed, and of what one request makes of it.
Begins == \/ corner \notin {"import", "copies"} \/ held # Idle \/ plan \in SomeSeeds
          \/ corner = "copies" /\ held' # Idle
MCInit == Init /\ \E c \in DOMAIN StartsFrom : corner = c /\ plan \in StartsFrom[c]
MCSpec == MCInit /\ [][Goes /\ Begins /\ UNCHANGED corner /\ Fits']_<<vars, corner>>
=============================================================================
