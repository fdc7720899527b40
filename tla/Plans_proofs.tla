----------------------------- MODULE Plans_proofs -----------------------------
(***************************************************************************)
(* Proofs about Plans: what every request, commit, import and restore does *)
(* to the plan of a project, for any ids, files, seeds and sprints.        *)
(*                                                                         *)
(* A request keeps three things of the plan it was worked out from: items  *)
(* stand on rows that are there, completion dates follow the States, and   *)
(* nothing is double (Sound).  The same is shown of a CSV file row by row  *)
(* (Works), of copies, and of the flush at a commit.  The invariant IInv   *)
(* says of a request that is held what it needs when it commits.           *)
(***************************************************************************)
EXTENDS Plans, FiniteSetTheorems, TLAPS

-----------------------------------------------------------------------------
(* Finite sets                                                             *)

\* Among the subsets of a finite set that a family holds, one has no smaller member of it
\* by one element.
LEMMA LeastSubset ==
  ASSUME NEW S, IsFiniteSet(S), NEW B, B \subseteq SUBSET S, B # {}
  PROVE  \E T \in B : \A x \in T : T \ {x} \notin B
<1> DEFINE R == StrictSubsetOrdering(S)
<1>1. FiniteSubsetsOf(S) = SUBSET S
  BY FS_FiniteSubsetsOfFinite
<1>2. IsWellFoundedOn(R, SUBSET S)
  BY <1>1, FS_StrictSubsetOrderingWellFounded
<1> HIDE DEF R
<1>3. \E T \in B : \A U \in B : ~ (<<U, T>> \in R)
  BY <1>2, WFMin
<1>4. PICK T \in B : \A U \in B : ~ (<<U, T>> \in R)
  BY <1>3
<1>5. ASSUME NEW x \in T, T \ {x} \in B
      PROVE  FALSE
  <2>1. <<T \ {x}, T>> \in R
    BY <1>5 DEF R, StrictSubsetOrdering
  <2> QED  BY <2>1, <1>4, <1>5
<1> QED  BY <1>4, <1>5

\* Induction over the subsets of a finite set.
LEMMA SubsetInduction ==
  ASSUME NEW S, IsFiniteSet(S), NEW G, {} \in G,
         \A T \in SUBSET S : \A x \in T : T \ {x} \in G => T \in G
  PROVE  S \in G
<1> DEFINE B == (SUBSET S) \ G
<1> SUFFICES ASSUME S \notin G PROVE FALSE
  OBVIOUS
<1>1. S \in B
  OBVIOUS
<1> HIDE DEF B
<1>2. B \subseteq SUBSET S
  BY DEF B
<1>3. PICK T \in B : \A x \in T : T \ {x} \notin B
  BY <1>1, <1>2, LeastSubset
<1>4. CASE T = {}
  BY <1>4, <1>3 DEF B
<1>5. CASE \E x \in T : TRUE
  <2>1. PICK x \in T : TRUE
    BY <1>5
  <2>2. T \ {x} \notin B /\ T \ {x} \in SUBSET S
    BY <1>3, <2>1, <1>2
  <2> QED  BY <2>1, <2>2, <1>2, <1>3 DEF B
<1> QED  BY <1>4, <1>5

\* Of finitely many one is the least by a measure.
LEMMA LeastMember ==
  ASSUME NEW S, IsFiniteSet(S), S # {}, NEW f, \A x \in S : f[x] \in Int
  PROVE  \E x \in S : \A y \in S : f[x] <= f[y]
<1> DEFINE G == {T \in SUBSET S : T = {} \/ \E x \in T : \A y \in T : f[x] <= f[y]}
<1>1. ASSUME NEW T \in SUBSET S, NEW z \in T, T \ {z} \in G
      PROVE  T \in G
  <2>1. CASE T = {z}
    BY <2>1
  <2>2. CASE \E x \in T \ {z} : \A y \in T \ {z} : f[x] <= f[y]
    <3>1. PICK x \in T \ {z} : \A y \in T \ {z} : f[x] <= f[y]
      BY <2>2
    <3>2. CASE f[x] <= f[z]
      BY <3>1, <3>2
    <3>3. CASE f[z] <= f[x]
      <4>1. \A y \in T : f[z] <= f[y]
        BY <3>1, <3>3
      <4> QED  BY <4>1
    <3> QED  BY <3>2, <3>3
  <2> QED  BY <1>1, <2>1, <2>2
<1>2. {} \in G
  OBVIOUS
<1> HIDE DEF G
<1>3. S \in G
  BY <1>1, <1>2, SubsetInduction
<1> QED  BY <1>3 DEF G

\* Induction up to a number.
LEMMA InductionUpTo ==
  ASSUME NEW n \in Nat, NEW G, 0 \in G, \A k \in 1 .. n : k - 1 \in G => k \in G
  PROVE  n \in G
<1> DEFINE B == (0 .. n) \ G
           f == [k \in B |-> k]
<1> SUFFICES ASSUME n \notin G PROVE FALSE
  OBVIOUS
<1>1. IsFiniteSet(B) /\ B # {} /\ \A k \in B : f[k] \in Int
  <2>1. IsFiniteSet(0 .. n)
    BY FS_Interval
  <2> QED  BY <2>1, FS_Subset
<1>2. PICK k \in B : \A j \in B : f[k] <= f[j]
  <2> HIDE DEF B, f
  <2> QED  BY <1>1, LeastMember
<1>3. k # 0 /\ k - 1 \in 0 .. n
  OBVIOUS
<1>4. k - 1 \in G
  BY <1>2, <1>3
<1> QED  BY <1>3, <1>4

-----------------------------------------------------------------------------
(* Tables                                                                  *)

\* A row is inserted or replaced, the others stay.
LEMMA RowsPut ==
  ASSUME NEW rows, NEW ids, NEW Rows, IsTable(rows, ids, Rows), NEW id \in ids, NEW row \in Rows
  PROVE  /\ IsTable(With(rows, id, row), ids, Rows)
         /\ DOMAIN With(rows, id, row) = DOMAIN rows \cup {id}
         /\ With(rows, id, row)[id] = row /\ \A x \in DOMAIN rows \ {id} : With(rows, id, row)[x] = rows[x]
BY DEF IsTable, With

\* Rows are deleted, the others stay.
LEMMA RowsDropped ==
  ASSUME NEW rows, NEW ids, NEW Rows, IsTable(rows, ids, Rows), NEW S
  PROVE  /\ IsTable(Without(rows, S), ids, Rows)
         /\ DOMAIN Without(rows, S) = DOMAIN rows \ S
         /\ \A x \in DOMAIN rows \ S : Without(rows, S)[x] = rows[x]
BY DEF IsTable, Without, Restrict

\* The tables of a plan and their rows.
LEMMA PlanTables ==
  ASSUME NEW p, IsPlan(p)
  PROVE  /\ IsTable(p.feature, Ids, FeatureRows) /\ IsTable(p.story, Ids, StoryRows) /\ IsTable(p.list, Ids, StateRows)
         /\ IsTable(p.pi, Ids, PiRows) /\ IsTable(p.path, Ids \X ({0} \cup Sprints), PathRows)
         /\ \A f \in DOMAIN p.feature : f \in Ids /\ p.feature[f] \in FeatureRows
         /\ \A s \in DOMAIN p.story : s \in Ids /\ p.story[s] \in StoryRows
         /\ \A d \in DOMAIN p.list : d \in Ids /\ p.list[d] \in StateRows
         /\ \A x \in DOMAIN p.pi : x \in Ids /\ p.pi[x] \in PiRows
         /\ \A x \in DOMAIN p.path : x \in Ids \X ({0} \cup Sprints) /\ p.path[x] \in PathRows
BY DEF IsPlan, IsTable

\* NULL is no id.
LEMMA NothingIsNoId == Nothing \notin Ids
BY NothingIsNothing, IdsAreNumbers

\* A row put or dropped changes one table.
LEMMA PutOneTable ==
  ASSUME NEW p, p = [table \in Tables |-> p[table]], NEW id, NEW row, NEW S
  PROVE  /\ Put(p, "feature", id, row) = [p EXCEPT !.feature = With(@, id, row)]
         /\ Put(p, "story", id, row) = [p EXCEPT !.story = With(@, id, row)]
         /\ Put(p, "list", id, row) = [p EXCEPT !.list = With(@, id, row)]
         /\ Put(p, "pi", id, row) = [p EXCEPT !.pi = With(@, id, row)]
         /\ Drop(p, "feature", S) = [p EXCEPT !.feature = Without(@, S)]
         /\ Drop(p, "story", S) = [p EXCEPT !.story = Without(@, S)]
         /\ Drop(p, "list", S) = [p EXCEPT !.list = Without(@, S)]
         /\ Drop(p, "pi", S) = [p EXCEPT !.pi = Without(@, S)]
         /\ Drop(p, "path", S) = [p EXCEPT !.path = Without(@, S)]
BY DEF Put, Drop, Tables

\* What a table is put into another one's place does to the plan.
LEMMA OneTable ==
  ASSUME NEW p, p = [table \in Tables |-> p[table]], NEW rows
  PROVE  /\ LET q == [p EXCEPT !.feature = rows]
            IN q = [table \in Tables |-> q[table]] /\ q.feature = rows /\ q.story = p.story /\ q.list = p.list /\ q.pi = p.pi /\ q.path = p.path
         /\ LET q == [p EXCEPT !.story = rows]
            IN q = [table \in Tables |-> q[table]] /\ q.feature = p.feature /\ q.story = rows /\ q.list = p.list /\ q.pi = p.pi /\ q.path = p.path
         /\ LET q == [p EXCEPT !.list = rows]
            IN q = [table \in Tables |-> q[table]] /\ q.feature = p.feature /\ q.story = p.story /\ q.list = rows /\ q.pi = p.pi /\ q.path = p.path
         /\ LET q == [p EXCEPT !.pi = rows]
            IN q = [table \in Tables |-> q[table]] /\ q.feature = p.feature /\ q.story = p.story /\ q.list = p.list /\ q.pi = rows /\ q.path = p.path
         /\ LET q == [p EXCEPT !.path = rows]
            IN q = [table \in Tables |-> q[table]] /\ q.feature = p.feature /\ q.story = p.story /\ q.list = p.list /\ q.pi = p.pi /\ q.path = rows
BY DEF Tables

-----------------------------------------------------------------------------
(* What an edit keeps                                                      *)

DoneKept(p, q) == \A d \in DOMAIN p.list \cap DOMAIN q.list : p.list[d].done = q.list[d].done

Unlooped(p, q) == \A f \in DOMAIN q.feature :
    q.feature[f].origin = Nothing \/ (f \in DOMAIN p.feature /\ q.feature[f].origin = p.feature[f].origin)

Sound(p, q) ==
    /\ Stands(p) => Stands(q)
    /\ Stands(p) /\ Dated(p) /\ DoneKept(p, q) => Dated(q)
    /\ Distinct(p) /\ UniqueKeys(q) => Distinct(q)

\* New continuations of what was there, and links cut, make no loop.
LEMMA UnloopedHasNoLoops ==
  ASSUME NEW p, IsPlan(p), NEW q, DOMAIN q.feature \subseteq Ids, Unlooped(p, q)
  PROVE  NoLoops(q)
<1> SUFFICES ASSUME NEW S \in SUBSET DOMAIN q.feature, S # {}
             PROVE  \E f \in S : \A n \in S : q.feature[n].origin # f
  BY DEF NoLoops
<1> DEFINE T == {f \in S : q.feature[f].origin # Nothing}
<1>1. Nothing \notin S
  BY NothingIsNoId
<1>2. \A f \in T : f \in DOMAIN p.feature /\ q.feature[f].origin = p.feature[f].origin
  BY DEF Unlooped
<1>3. CASE T = {}
  BY <1>1, <1>3
<1>4. CASE T # {}
  <2>1. PICK f \in T : \A n \in T : p.feature[n].origin # f
    BY <1>2, <1>4 DEF IsPlan, NoLoops
  <2> QED  BY <1>1, <1>2, <2>1
<1> QED  BY <1>3, <1>4

\* A plan is one by its tables.
LEMMA PlanFromTables ==
  ASSUME NEW p, IsPlan(p), NEW q, q = [table \in Tables |-> q[table]],
         IsTable(q.feature, Ids, FeatureRows), IsTable(q.story, Ids, StoryRows), IsTable(q.list, Ids, StateRows),
         IsTable(q.pi, Ids, PiRows), IsTable(q.path, Ids \X ({0} \cup Sprints), PathRows),
         Unlooped(p, q)
  PROVE  IsPlan(q)
<1>1. NoLoops(q)
  BY UnloopedHasNoLoops DEF IsTable
<1> QED  BY <1>1 DEF IsPlan

-----------------------------------------------------------------------------
(* Doubles                                                                 *)

UidsApart(p) == \A f \in DOMAIN p.feature, s \in DOMAIN p.story :
    p.feature[f].uid = p.story[s].uid => p.feature[f].uid = Nothing
PlacesOnce(p) == \A d, e \in DOMAIN p.list :
    p.list[d].type = p.list[e].type /\ p.list[d].position = p.list[e].position => d = e
PathsOnce(p) == \A x, y \in DOMAIN p.path : p.path[x] = p.path[y] /\ p.path[x].path # Nothing => x = y
OneStarted(p) == \A x, y \in InProgress(p) : x = y

\* Of finitely many at most one: any two are the same.
LEMMA AtMostOne ==
  ASSUME NEW S, IsFiniteSet(S)
  PROVE  Cardinality(S) <= 1 <=> \A x, y \in S : x = y
<1>1. ASSUME NEW x \in S, NEW y \in S, x # y
      PROVE  ~ (Cardinality(S) <= 1)
  <2>1. IsFiniteSet({x}) /\ Cardinality({x}) = 1
    BY FS_Singleton
  <2>2. IsFiniteSet({x} \cup {y}) /\ Cardinality({x} \cup {y}) = 2
    <3>1. y \notin {x}
      BY <1>1
    <3>2. IsFiniteSet({x} \cup {y}) /\ Cardinality({x} \cup {y}) = Cardinality({x}) + 1
      BY <2>1, <3>1, FS_AddElement, Zenon
    <3> QED  BY <2>1, <3>2
  <2>3. 2 <= Cardinality(S)
    BY <2>2, FS_Subset
  <2> QED  BY <2>3, FS_CardinalityType
<1>2. ASSUME \A x, y \in S : x = y
      PROVE  Cardinality(S) <= 1
  <2>1. CASE S = {}
    BY <2>1, FS_EmptySet
  <2>2. CASE S # {}
    <3>1. PICK x \in S : TRUE
      BY <2>2
    <3>2. S = {x}
      BY <1>2
    <3> QED  BY <3>2, FS_Singleton
  <2> QED  BY <2>1, <2>2
<1> QED  BY <1>1, <1>2

\* One PI in progress, counted or compared.
LEMMA StartedIsFinite ==
  ASSUME NEW p, IsPlan(p)
  PROVE  Cardinality(InProgress(p)) <= 1 <=> OneStarted(p)
<1>1. IsFiniteSet(InProgress(p))
  BY IdsAreNumbers, PlanTables, FS_Subset DEF InProgress
<1> QED  BY <1>1, AtMostOne DEF OneStarted

\* The parts of Distinct.
LEMMA DistinctHas ==
  ASSUME NEW p, IsPlan(p), Distinct(p)
  PROVE  /\ UidsApart(p) /\ PlacesOnce(p) /\ PathsOnce(p) /\ OneStarted(p)
         /\ \A f, g \in DOMAIN p.feature : p.feature[f].uid = p.feature[g].uid /\ p.feature[f].uid # Nothing => f = g
         /\ \A s, t \in DOMAIN p.story : p.story[s].uid = p.story[t].uid /\ p.story[s].uid # Nothing => s = t
<1> DEFINE items == ({"feature"} \X DOMAIN p.feature) \cup ({"story"} \X DOMAIN p.story)
<1>1. \A x, y \in items : p[x[1]][x[2]].uid = p[y[1]][y[2]].uid /\ p[x[1]][x[2]].uid # Nothing => x = y
  BY DEF Distinct
<1>2. \A f \in DOMAIN p.feature : <<"feature", f>> \in items /\ <<"feature", f>>[1] = "feature" /\ <<"feature", f>>[2] = f
  OBVIOUS
<1>3. \A s \in DOMAIN p.story : <<"story", s>> \in items /\ <<"story", s>>[1] = "story" /\ <<"story", s>>[2] = s
  OBVIOUS
<1> HIDE DEF items
<1>4. UidsApart(p)
  <2> SUFFICES ASSUME NEW f \in DOMAIN p.feature, NEW s \in DOMAIN p.story,
                      p.feature[f].uid = p.story[s].uid, p.feature[f].uid # Nothing
               PROVE  FALSE
    BY DEF UidsApart
  <2> DEFINE x == <<"feature", f>>
             y == <<"story", s>>
  <2>1. x \in items /\ y \in items /\ x[1] = "feature" /\ x[2] = f /\ y[1] = "story" /\ y[2] = s /\ x # y
    BY <1>2, <1>3
  <2> HIDE DEF x, y
  <2>2. p[x[1]] = p.feature /\ p[y[1]] = p.story
    BY <2>1
  <2>3. p[x[1]][x[2]].uid = p[y[1]][y[2]].uid /\ p[x[1]][x[2]].uid # Nothing
    BY <2>1, <2>2
  <2> QED  BY <1>1, <2>1, <2>3
<1>5. \A f, g \in DOMAIN p.feature : p.feature[f].uid = p.feature[g].uid /\ p.feature[f].uid # Nothing => f = g
  <2> SUFFICES ASSUME NEW f \in DOMAIN p.feature, NEW g \in DOMAIN p.feature,
                      p.feature[f].uid = p.feature[g].uid, p.feature[f].uid # Nothing
               PROVE  f = g
    OBVIOUS
  <2>1. <<"feature", f>> = <<"feature", g>>
    BY <1>1, <1>2
  <2> QED  BY <2>1
<1>6. \A s, t \in DOMAIN p.story : p.story[s].uid = p.story[t].uid /\ p.story[s].uid # Nothing => s = t
  <2> SUFFICES ASSUME NEW s \in DOMAIN p.story, NEW t \in DOMAIN p.story,
                      p.story[s].uid = p.story[t].uid, p.story[s].uid # Nothing
               PROVE  s = t
    OBVIOUS
  <2>1. <<"story", s>> = <<"story", t>>
    BY <1>1, <1>3
  <2> QED  BY <2>1
<1>7. PlacesOnce(p) /\ PathsOnce(p) /\ OneStarted(p)
  BY StartedIsFinite DEF Distinct, PlacesOnce, PathsOnce
<1> QED  BY <1>4, <1>5, <1>6, <1>7

\* With the database's unique keys, the parts make Distinct.
LEMMA DistinctFrom ==
  ASSUME NEW p, IsPlan(p), UniqueKeys(p), UidsApart(p), PlacesOnce(p), PathsOnce(p), OneStarted(p)
  PROVE  Distinct(p)
<1> DEFINE items == ({"feature"} \X DOMAIN p.feature) \cup ({"story"} \X DOMAIN p.story)
<1>1. ASSUME NEW x \in items, NEW y \in items, p[x[1]][x[2]].uid = p[y[1]][y[2]].uid, p[x[1]][x[2]].uid # Nothing
      PROVE  x = y
  <2>1. /\ \A f, g \in DOMAIN p.feature : p.feature[f].uid = p.feature[g].uid /\ p.feature[f].uid # Nothing => f = g
        /\ \A s, t \in DOMAIN p.story : p.story[s].uid = p.story[t].uid /\ p.story[s].uid # Nothing => s = t
    BY DEF UniqueKeys
  <2>2. CASE x \in {"feature"} \X DOMAIN p.feature /\ y \in {"feature"} \X DOMAIN p.feature
    BY <1>1, <2>1, <2>2
  <2>3. CASE x \in {"story"} \X DOMAIN p.story /\ y \in {"story"} \X DOMAIN p.story
    BY <1>1, <2>1, <2>3
  <2>4. CASE x \in {"feature"} \X DOMAIN p.feature /\ y \in {"story"} \X DOMAIN p.story
    BY <1>1, <2>4 DEF UidsApart
  <2>5. CASE x \in {"story"} \X DOMAIN p.story /\ y \in {"feature"} \X DOMAIN p.feature
    BY <1>1, <2>5 DEF UidsApart
  <2> QED  BY <2>2, <2>3, <2>4, <2>5
<1> QED  BY <1>1, StartedIsFinite DEF Distinct, PlacesOnce, PathsOnce

-----------------------------------------------------------------------------
(* Edits                                                                   *)

Edit == \E is : IsPlan(is) /\ Unlooped(plan, is) /\ Sound(plan, is) /\ Serve(is)
Rewrite == \E is : IsPlan(is) /\ Sound(plan, is) /\ AtOnce(is)

\* A new id is no row's and no row names it.
LEMMA FreshIds ==
  /\ \A f \in Fresh("feature") : /\ f \in Ids \ DOMAIN plan.feature
                                 /\ \A s \in DOMAIN plan.story : plan.story[s].feature # f
                                 /\ \A n \in DOMAIN plan.feature : plan.feature[n].origin # f
  /\ \A s \in Fresh("story") : s \in Ids \ DOMAIN plan.story
  /\ \A d \in Fresh("list") : d \in Ids \ DOMAIN plan.list /\ StateUsage(plan, d) = {}
  /\ \A x \in Fresh("pi") : x \in Ids \ DOMAIN plan.pi /\ \A f \in DOMAIN plan.feature : plan.feature[f].pi # x
<1>1. \A table : \A x \in Fresh(table) : x \in Ids \ Mentions(plan, table)
  BY DEF Fresh, Lowest, Known
<1>2. Mentions(plan, "feature") = DOMAIN plan.feature \cup
        ({plan.story[s].feature : s \in DOMAIN plan.story} \cup {plan.feature[f].origin : f \in DOMAIN plan.feature})
  BY DEF Mentions
<1>3. Mentions(plan, "list") = DOMAIN plan.list \cup
        ({plan.story[s].state : s \in DOMAIN plan.story} \cup {plan.feature[f].state : f \in DOMAIN plan.feature})
  BY DEF Mentions
<1>4. Mentions(plan, "pi") = DOMAIN plan.pi \cup {plan.feature[f].pi : f \in DOMAIN plan.feature}
  BY DEF Mentions
<1>5. DOMAIN plan.story \subseteq Mentions(plan, "story")
  BY DEF Mentions
<1> QED  BY <1>1, <1>2, <1>3, <1>4, <1>5 DEF StateUsage

\* What Sound asks, part by part.
LEMMA SoundFrom ==
  ASSUME NEW p, IsPlan(p), NEW q, IsPlan(q),
         Stands(p) => Stands(q), Stands(p) /\ Dated(p) /\ DoneKept(p, q) => Dated(q),
         UidsApart(p) => UidsApart(q), PlacesOnce(p) => PlacesOnce(q),
         PathsOnce(p) => PathsOnce(q), OneStarted(p) => OneStarted(q)
  PROVE  Sound(p, q)
BY DistinctHas, DistinctFrom DEF Sound

\* Only a State List changes: the States that items have keep their kind.
LEMMA ListEdited ==
  ASSUME NEW p, IsPlan(p), NEW q, q = [table \in Tables |-> q[table]],
         q.feature = p.feature, q.story = p.story, q.pi = p.pi, q.path = p.path, IsTable(q.list, Ids, StateRows),
         \A d \in DOMAIN p.list : StateUsage(p, d) # {} => d \in DOMAIN q.list /\ q.list[d].type = p.list[d].type,
         PlacesOnce(p) => PlacesOnce(q)
  PROVE  IsPlan(q) /\ Unlooped(p, q) /\ Sound(p, q)
<1>1. IsPlan(q) /\ Unlooped(p, q)
  BY PlanTables, PlanFromTables DEF Unlooped
<1>2. \A type, state : IsStateFor(p, type, state) /\ StateUsage(p, state) # {} => IsStateFor(q, type, state)
  BY DEF IsStateFor, ListOf
<1>3. \A f \in DOMAIN p.feature : StateUsage(p, p.feature[f].state) # {}
  BY DEF StateUsage
<1>4. \A s \in DOMAIN p.story : StateUsage(p, p.story[s].state) # {}
  BY DEF StateUsage
<1>5. Stands(p) => Stands(q)
  BY <1>2, <1>3, <1>4 DEF Stands
<1>6. ASSUME Stands(p), DoneKept(p, q), NEW s \in DOMAIN p.story
      PROVE  IsDone(q, p.story[s].state) = IsDone(p, p.story[s].state)
  <2>1. p.story[s].state = Nothing \/ (p.story[s].state \in DOMAIN p.list /\ p.story[s].state \in DOMAIN q.list)
    BY <1>4, <1>6 DEF Stands, IsStateFor, ListOf
  <2>2. Nothing \notin DOMAIN p.list /\ Nothing \notin DOMAIN q.list
    BY <1>1, NothingIsNoId, PlanTables
  <2> QED  BY <1>6, <2>1, <2>2 DEF IsDone, DoneKept
<1>7. Stands(p) /\ Dated(p) /\ DoneKept(p, q) => Dated(q)
  BY <1>6 DEF Dated
<1> QED  BY <1>1, <1>5, <1>7, SoundFrom DEF UidsApart, PathsOnce, OneStarted, InProgress

\* Only features and stories change.
LEMMA ItemsEdited ==
  ASSUME NEW p, IsPlan(p), NEW q, IsPlan(q), q.list = p.list, q.pi = p.pi, q.path = p.path,
         Stands(p) => Stands(q), Stands(p) /\ Dated(p) => Dated(q), UidsApart(p) => UidsApart(q)
  PROVE  Sound(p, q)
BY SoundFrom DEF PlacesOnce, PathsOnce, OneStarted, InProgress

\* Only PIs and paths change.
LEMMA PisEdited ==
  ASSUME NEW p, IsPlan(p), NEW q, q = [table \in Tables |-> q[table]],
         q.feature = p.feature, q.story = p.story, q.list = p.list, DOMAIN p.pi \subseteq DOMAIN q.pi,
         IsTable(q.pi, Ids, PiRows), IsTable(q.path, Ids \X ({0} \cup Sprints), PathRows),
         PathsOnce(p) => PathsOnce(q), OneStarted(p) => OneStarted(q)
  PROVE  IsPlan(q) /\ Unlooped(p, q) /\ Sound(p, q)
<1>1. IsPlan(q) /\ Unlooped(p, q)
  BY PlanTables, PlanFromTables DEF Unlooped
<1>2. Stands(p) => Stands(q)
  BY DEF Stands, IsStateFor, ListOf
<1>3. Dated(p) => Dated(q)
  BY DEF Dated, IsDone
<1> QED  BY <1>1, <1>2, <1>3, SoundFrom DEF UidsApart, PlacesOnce

-----------------------------------------------------------------------------
(* The State Lists                                                         *)

\* next_position: after the last of the list.
LEMMA NextPositionIsFree ==
  ASSUME NEW p, IsPlan(p), NEW type
  PROVE  NextPosition(p, type) \in Nat /\ \A d \in ListOf(p, type) : p.list[d].position < NextPosition(p, type)
<1> DEFINE own == ListOf(p, type)
           taken == {p.list[d].position : d \in own}
<1>1. IsFiniteSet(own) /\ \A d \in own : p.list[d].position \in Nat
  BY IdsAreNumbers, PlanTables, FS_Subset DEF ListOf, StateRows
<1>2. \E n \in {0} \cup {x + 1 : x \in taken} : n \notin taken /\ \A x \in taken : x < n
  <2>1. CASE own = {}
    BY <2>1
  <2>2. CASE own # {}
    <3> DEFINE f == [d \in own |-> 0 - p.list[d].position]
    <3>1. \A d \in own : f[d] \in Int
      BY <1>1
    <3>2. PICK d \in own : \A e \in own : f[d] <= f[e]
      <4> HIDE DEF own, f
      <4> QED  BY <1>1, <2>2, <3>1, LeastMember
    <3>3. \A e \in own : p.list[e].position <= p.list[d].position
      BY <1>1, <3>2
    <3>4. \A x \in taken : x < p.list[d].position + 1
      BY <1>1, <3>3
    <3>5. p.list[d].position \in taken /\ p.list[d].position \in Nat
      BY <1>1
    <3>6. p.list[d].position + 1 \in {x + 1 : x \in taken} /\ p.list[d].position + 1 \notin taken
      <4> HIDE DEF taken
      <4>1. p.list[d].position + 1 \notin taken
        BY <3>4, <3>5
      <4> QED  BY <3>5, <4>1
    <3> QED  BY <3>4, <3>6
  <2> QED  BY <2>1, <2>2
<1> DEFINE n == NextPosition(p, type)
<1>3. n \in {0} \cup {x + 1 : x \in taken} /\ \A x \in taken : x < n
  BY <1>2 DEF NextPosition
<1> HIDE DEF n
<1>4. n \in Nat /\ \A d \in ListOf(p, type) : p.list[d].position < n
  BY <1>1, <1>3
<1> QED  BY <1>4 DEF n

\* A State that is added is the last of its list.
LEMMA StateAdded ==
  ASSUME NEW p, IsPlan(p), NEW d \in Ids \ DOMAIN p.list, NEW type \in ItemTypes, NEW value \in Values, NEW done \in BOOLEAN
  PROVE  LET rows == With(p.list, d, NewState(p, type, value, done))
         IN IsTable(rows, Ids, StateRows) /\ (PlacesOnce(p) => PlacesOnce([p EXCEPT !.list = rows]))
<1> DEFINE row == NewState(p, type, value, done)
           rows == With(p.list, d, row)
           q == [p EXCEPT !.list = rows]
<1>1. row \in StateRows /\ row.type = type /\ row.position = NextPosition(p, type)
  BY NextPositionIsFree DEF NewState, StateRows
<1>2. \A e \in DOMAIN p.list : p.list[e].type = type => p.list[e].position < row.position
  BY <1>1, NextPositionIsFree DEF ListOf
<1>3. /\ IsTable(rows, Ids, StateRows)
      /\ DOMAIN rows = DOMAIN p.list \cup {d}
      /\ rows[d] = row /\ \A x \in DOMAIN p.list : rows[x] = p.list[x]
  <2>1. IsTable(p.list, Ids, StateRows) /\ d \in Ids /\ row \in StateRows
    BY <1>1, PlanTables
  <2> HIDE DEF row
  <2> QED  BY <2>1, RowsPut
<1>4. q.list = rows
  BY OneTable DEF IsPlan
<1>5. \A e \in DOMAIN p.list : p.list[e].position \in Nat
  BY PlanTables DEF StateRows
<1> HIDE DEF row, rows, q
<1>6. ASSUME PlacesOnce(p) PROVE PlacesOnce(q)
  <2>1. ASSUME NEW x \in DOMAIN p.list, rows[x].type = rows[d].type, rows[x].position = rows[d].position
        PROVE  FALSE
    BY <1>1, <1>2, <1>3, <1>5, <2>1
  <2> QED  BY <1>3, <1>4, <1>6, <2>1 DEF PlacesOnce
<1> QED  BY <1>3, <1>6 DEF row, rows, q

\* create_state makes a plan that is sound.
LEMMA CreateStateEdits ==
  ASSUME IsPlan(plan), CreateState
  PROVE  Edit
<1>1. PICK type \in ItemTypes, value \in Values, done \in BOOLEAN, d \in Fresh("list") :
          Serve(Put(plan, "list", d, NewState(plan, type, value, done)))
  BY DEF CreateState
<1> DEFINE row == NewState(plan, type, value, done)
           rows == With(plan.list, d, row)
           q == [plan EXCEPT !.list = rows]
<1>2. d \in Ids \ DOMAIN plan.list
  BY FreshIds
<1>3. IsTable(rows, Ids, StateRows) /\ (PlacesOnce(plan) => PlacesOnce(q))
  BY <1>2, StateAdded
<1> HIDE DEF row
<1>4. Put(plan, "list", d, row) = q
  BY DEF Put, IsPlan, Tables
<1>5. DOMAIN plan.list \subseteq DOMAIN rows /\ \A e \in DOMAIN plan.list : rows[e] = plan.list[e]
  BY <1>2 DEF With
<1>6. q = [table \in Tables |-> q[table]] /\ q.feature = plan.feature /\ q.story = plan.story /\ q.list = rows /\ q.pi = plan.pi /\ q.path = plan.path
  BY OneTable DEF IsPlan
<1> HIDE DEF rows, q
<1>7. IsPlan(q) /\ Unlooped(plan, q) /\ Sound(plan, q)
  BY <1>3, <1>5, <1>6, ListEdited
<1> QED  BY <1>1, <1>4, <1>7 DEF Edit, row

\* A list whose States keep their kind, each at a place of its own.
LEMMA StatesChanged ==
  ASSUME IsPlan(plan), NEW rows, DOMAIN rows = DOMAIN plan.list, IsTable(rows, Ids, StateRows),
         \A d \in DOMAIN rows : rows[d].type = plan.list[d].type,
         PlacesOnce(plan) => \A d, e \in DOMAIN rows : rows[d].type = rows[e].type /\ rows[d].position = rows[e].position => d = e
  PROVE  LET q == [plan EXCEPT !.list = rows] IN IsPlan(q) /\ Unlooped(plan, q) /\ Sound(plan, q)
<1> DEFINE q == [plan EXCEPT !.list = rows]
<1>1. q = [table \in Tables |-> q[table]] /\ q.feature = plan.feature /\ q.story = plan.story /\ q.list = rows /\ q.pi = plan.pi /\ q.path = plan.path
  BY OneTable DEF IsPlan
<1> HIDE DEF q
<1>2. PlacesOnce(plan) => PlacesOnce(q)
  BY <1>1 DEF PlacesOnce
<1>3. IsPlan(q) /\ Unlooped(plan, q) /\ Sound(plan, q)
  BY <1>1, <1>2, ListEdited
<1> QED  BY <1>3 DEF q

\* So does update_state, a new name or a new done flag,
LEMMA RenameStateEdits ==
  ASSUME IsPlan(plan), RenameState
  PROVE  Edit
<1>1. PICK d \in DOMAIN plan.list, value \in Values, done \in BOOLEAN :
          Serve([plan EXCEPT !.list[d].value = value, !.list[d].done = done])
  BY DEF RenameState
<1> DEFINE rows == [plan.list EXCEPT ![d] = [[@ EXCEPT !.value = value] EXCEPT !.done = done]]
           q == [plan EXCEPT !.list = rows]
<1>2. [plan EXCEPT !.list[d].value = value, !.list[d].done = done] = q
  BY DEF IsPlan, Tables
<1>3. IsTable(rows, Ids, StateRows) /\ DOMAIN rows = DOMAIN plan.list
      /\ \A e \in DOMAIN rows : rows[e].type = plan.list[e].type /\ rows[e].position = plan.list[e].position
  <2>1. \A e \in DOMAIN plan.list : plan.list[e] \in StateRows
    BY PlanTables
  <2>2. DOMAIN plan.list \subseteq Ids
    BY PlanTables
  <2> QED  BY <2>1, <2>2 DEF IsTable, StateRows
<1> HIDE DEF rows
<1>4. IsPlan(q) /\ Unlooped(plan, q) /\ Sound(plan, q)
  BY <1>3, StatesChanged DEF PlacesOnce
<1> QED  BY <1>1, <1>2, <1>4 DEF Edit

\* reorder_states, a permutation of the whole list,
LEMMA ReorderStatesEdits ==
  ASSUME IsPlan(plan), ReorderStates
  PROVE  Edit
<1>1. PICK type \in ItemTypes : \E order \in Bijection(ListOf(plan, type), 0 .. Cardinality(ListOf(plan, type)) - 1) :
        Serve([plan EXCEPT !.list = [d \in DOMAIN @ |-> IF @[d].type = type THEN [@[d] EXCEPT !.position = order[d]] ELSE @[d]]])
  BY DEF ReorderStates
<1>2. PICK order \in Bijection(ListOf(plan, type), 0 .. Cardinality(ListOf(plan, type)) - 1) :
        Serve([plan EXCEPT !.list = [d \in DOMAIN @ |-> IF @[d].type = type THEN [@[d] EXCEPT !.position = order[d]] ELSE @[d]]])
  BY <1>1
<1> DEFINE rows == [d \in DOMAIN plan.list |-> IF plan.list[d].type = type THEN [plan.list[d] EXCEPT !.position = order[d]] ELSE plan.list[d]]
           q == [plan EXCEPT !.list = rows]
<1>3. /\ \A d \in ListOf(plan, type) : order[d] \in Nat
      /\ \A d, e \in ListOf(plan, type) : order[d] = order[e] => d = e
  BY DEF Bijection, Injection, Surjection, IsInjective
<1>4. \A e \in DOMAIN plan.list : plan.list[e] \in StateRows /\ e \in Ids
  BY PlanTables
<1>5. \A e \in DOMAIN plan.list : /\ rows[e] \in StateRows /\ rows[e].type = plan.list[e].type
                                  /\ rows[e].position = IF plan.list[e].type = type THEN order[e] ELSE plan.list[e].position
  BY <1>3, <1>4 DEF StateRows, ListOf
<1>6. IsTable(rows, Ids, StateRows) /\ DOMAIN rows = DOMAIN plan.list
  BY <1>4, <1>5 DEF IsTable
<1> HIDE DEF rows
<1>7. PlacesOnce(plan) => \A d, e \in DOMAIN rows : rows[d].type = rows[e].type /\ rows[d].position = rows[e].position => d = e
  BY <1>3, <1>5, <1>6 DEF PlacesOnce, ListOf
<1>8. IsPlan(q) /\ Unlooped(plan, q) /\ Sound(plan, q)
  BY <1>5, <1>6, <1>7, StatesChanged
<1> QED  BY <1>2, <1>8 DEF Edit, rows

\* and delete_state, of a State that no item has.
LEMMA DeleteStateEdits ==
  ASSUME IsPlan(plan), DeleteState
  PROVE  Edit
<1>1. PICK d \in DOMAIN plan.list : StateUsage(plan, d) = {} /\ Serve(Drop(plan, "list", {d}))
  BY DEF DeleteState
<1> DEFINE rows == Without(plan.list, {d})
           q == [plan EXCEPT !.list = rows]
<1>2. Drop(plan, "list", {d}) = q
  BY PutOneTable DEF IsPlan
<1>3. /\ IsTable(rows, Ids, StateRows)
      /\ DOMAIN rows = DOMAIN plan.list \ {d}
      /\ \A x \in DOMAIN plan.list \ {d} : rows[x] = plan.list[x]
  BY PlanTables, RowsDropped
<1>4. q = [table \in Tables |-> q[table]] /\ q.feature = plan.feature /\ q.story = plan.story /\ q.list = rows /\ q.pi = plan.pi /\ q.path = plan.path
  BY OneTable DEF IsPlan
<1> HIDE DEF rows, q
<1>5. PlacesOnce(plan) => PlacesOnce(q)
  BY <1>3, <1>4 DEF PlacesOnce
<1>6. IsPlan(q) /\ Unlooped(plan, q) /\ Sound(plan, q)
  BY <1>1, <1>3, <1>4, <1>5, ListEdited
<1> QED  BY <1>1, <1>2, <1>6 DEF Edit

-----------------------------------------------------------------------------
(* Features                                                                *)

\* Features that stay, and new ones.
LEMMA FeaturesChanged ==
  ASSUME NEW p, IsPlan(p), NEW rows, IsTable(rows, Ids, FeatureRows), DOMAIN p.feature \subseteq DOMAIN rows,
         \A f \in DOMAIN rows : rows[f].origin = Nothing \/ (f \in DOMAIN p.feature /\ rows[f].origin = p.feature[f].origin),
         Stands(p) => \A f \in DOMAIN rows : IsStateFor(p, "feature", rows[f].state) /\ rows[f].pi \in DOMAIN p.pi \cup {Nothing},
         UidsApart(p) => \A f \in DOMAIN rows, s \in DOMAIN p.story : rows[f].uid = p.story[s].uid => rows[f].uid = Nothing
  PROVE  LET q == [p EXCEPT !.feature = rows] IN IsPlan(q) /\ Unlooped(p, q) /\ Sound(p, q)
<1> DEFINE q == [p EXCEPT !.feature = rows]
<1>1. q = [table \in Tables |-> q[table]] /\ q.feature = rows /\ q.story = p.story /\ q.list = p.list /\ q.pi = p.pi /\ q.path = p.path
  BY OneTable DEF IsPlan
<1> HIDE DEF q
<1>2. Unlooped(p, q)
  BY <1>1 DEF Unlooped
<1>3. IsPlan(q)
  BY <1>1, <1>2, PlanTables, PlanFromTables
<1>4. Stands(p) => Stands(q)
  BY <1>1 DEF Stands, IsStateFor, ListOf
<1>5. Dated(p) => Dated(q)
  BY <1>1 DEF Dated, IsDone
<1>6. UidsApart(p) => UidsApart(q)
  BY <1>1 DEF UidsApart
<1>7. IsPlan(q) /\ Unlooped(p, q) /\ Sound(p, q)
  BY <1>1, <1>2, <1>3, <1>4, <1>5, <1>6, ItemsEdited
<1> QED  BY <1>7 DEF q

\* A State that a form may choose is one of the kind's list, or none.
LEMMA StateForItem ==
  ASSUME NEW type, NEW state \in StatesFor(type)
  PROVE  IsStateFor(plan, type, state) /\ (IsPlan(plan) => state \in Refs)
BY PlanTables DEF StatesFor, IsStateFor, ListOf, Refs

\* create_feature, with a business id that is free.
LEMMA CreateFeatureEdits ==
  ASSUME IsPlan(plan), CreateFeature
  PROVE  Edit
<1>1. PICK uid \in BusinessIds, state \in StatesFor("feature"), f \in Fresh("feature") :
        /\ uid # Nothing => IsUserIdAvailable(plan, uid, Nothing)
        /\ Serve(Put(plan, "feature", f, NewFeature(uid, state)))
  BY DEF CreateFeature
<1> DEFINE row == NewFeature(uid, state)
           rows == With(plan.feature, f, row)
           q == [plan EXCEPT !.feature = rows]
<1>2. f \in Ids \ DOMAIN plan.feature
  BY FreshIds
<1>3. row \in FeatureRows /\ row.uid = uid /\ row.state = state /\ row.origin = Nothing /\ row.pi = Nothing
  BY StateForItem DEF NewFeature, FeatureRows, Refs
<1>4. IsStateFor(plan, "feature", state)
  BY StateForItem
<1>5. uid # Nothing => \A s \in DOMAIN plan.story : plan.story[s].uid # uid
  <2>1. \A s \in DOMAIN plan.story : <<"story", s>> # Nothing
    BY NothingIsNoItem, PlanTables
  <2> QED  BY <1>1, <2>1 DEF IsUserIdAvailable
<1> HIDE DEF row
<1>6. Put(plan, "feature", f, row) = q
  BY DEF Put, IsPlan, Tables
<1>7. IsTable(rows, Ids, FeatureRows) /\ DOMAIN rows = DOMAIN plan.feature \cup {f}
      /\ rows[f] = row /\ \A x \in DOMAIN plan.feature : rows[x] = plan.feature[x]
  <2>1. IsTable(plan.feature, Ids, FeatureRows) /\ f \in Ids /\ f \notin DOMAIN plan.feature /\ row \in FeatureRows
    BY <1>2, <1>3, PlanTables
  <2> QED  BY <2>1, RowsPut
<1> HIDE DEF rows
<1>8. IsPlan(q) /\ Unlooped(plan, q) /\ Sound(plan, q)
  <2>1. \A x \in DOMAIN rows : rows[x].origin = Nothing \/ (x \in DOMAIN plan.feature /\ rows[x].origin = plan.feature[x].origin)
    BY <1>3, <1>7
  <2>2. Stands(plan) => \A x \in DOMAIN rows : IsStateFor(plan, "feature", rows[x].state) /\ rows[x].pi \in DOMAIN plan.pi \cup {Nothing}
    BY <1>3, <1>4, <1>7 DEF Stands
  <2>3. UidsApart(plan) => \A x \in DOMAIN rows, s \in DOMAIN plan.story : rows[x].uid = plan.story[s].uid => rows[x].uid = Nothing
    BY <1>3, <1>5, <1>7 DEF UidsApart
  <2> QED  BY <1>7, <2>1, <2>2, <2>3, FeaturesChanged
<1> QED  BY <1>1, <1>6, <1>8 DEF Edit, row

\* update_feature: an id that is free or its own, a State of the list or its own.
LEMMA UpdateFeatureEdits ==
  ASSUME IsPlan(plan), UpdateFeature
  PROVE  Edit
<1>1. PICK f \in DOMAIN plan.feature, uid \in BusinessIds : \E state \in StatesFor("feature") \cup {plan.feature[f].state} :
        /\ uid \notin {Nothing, plan.feature[f].uid} => IsUserIdAvailable(plan, uid, <<"feature", f>>)
        /\ Serve([plan EXCEPT !.feature[f].uid = uid, !.feature[f].state = state])
  BY DEF UpdateFeature
<1>2. PICK state \in StatesFor("feature") \cup {plan.feature[f].state} :
        /\ uid \notin {Nothing, plan.feature[f].uid} => IsUserIdAvailable(plan, uid, <<"feature", f>>)
        /\ Serve([plan EXCEPT !.feature[f].uid = uid, !.feature[f].state = state])
  BY <1>1
<1> DEFINE rows == [plan.feature EXCEPT ![f] = [[@ EXCEPT !.uid = uid] EXCEPT !.state = state]]
           q == [plan EXCEPT !.feature = rows]
<1>3. [plan EXCEPT !.feature[f].uid = uid, !.feature[f].state = state] = q
  BY DEF IsPlan, Tables
<1>4. state \in Refs /\ (Stands(plan) => IsStateFor(plan, "feature", state))
  BY StateForItem, PlanTables DEF FeatureRows, Stands
<1>5. uid \notin {Nothing, plan.feature[f].uid} => \A s \in DOMAIN plan.story : plan.story[s].uid # uid
  <2>1. \A s \in DOMAIN plan.story : <<"story", s>> # <<"feature", f>>
    OBVIOUS
  <2> QED  BY <1>2, <2>1 DEF IsUserIdAvailable
<1>6. \A x \in DOMAIN plan.feature : plan.feature[x] \in FeatureRows /\ x \in Ids
  BY PlanTables
<1>7. /\ DOMAIN rows = DOMAIN plan.feature
      /\ \A x \in DOMAIN rows : /\ rows[x] \in FeatureRows
                                /\ rows[x].origin = plan.feature[x].origin /\ rows[x].pi = plan.feature[x].pi
                                /\ x # f => rows[x] = plan.feature[x]
      /\ rows[f].uid = uid /\ rows[f].state = state
  BY <1>4, <1>6 DEF FeatureRows
<1>8. IsTable(rows, Ids, FeatureRows)
  BY <1>6, <1>7 DEF IsTable
<1> HIDE DEF rows
<1>9. IsPlan(q) /\ Unlooped(plan, q) /\ Sound(plan, q)
  <2>2. Stands(plan) => \A x \in DOMAIN rows : IsStateFor(plan, "feature", rows[x].state) /\ rows[x].pi \in DOMAIN plan.pi \cup {Nothing}
    BY <1>4, <1>7 DEF Stands
  <2>3. UidsApart(plan) => \A x \in DOMAIN rows, s \in DOMAIN plan.story : rows[x].uid = plan.story[s].uid => rows[x].uid = Nothing
    BY <1>5, <1>7 DEF UidsApart
  <2> QED  BY <1>7, <1>8, <2>2, <2>3, FeaturesChanged
<1> QED  BY <1>2, <1>3, <1>9 DEF Edit

\* A feature changes boards, or leaves them.
LEMMA FeatureMoved ==
  ASSUME NEW p, IsPlan(p), NEW f \in DOMAIN p.feature, NEW pi \in DOMAIN p.pi \cup {Nothing}
  PROVE  LET q == [p EXCEPT !.feature[f].pi = pi]
         IN /\ IsPlan(q) /\ Unlooped(p, q) /\ Sound(p, q)
            /\ q.story = p.story /\ q.list = p.list /\ q.pi = p.pi /\ q.path = p.path /\ DOMAIN q.feature = DOMAIN p.feature
            /\ \A x \in DOMAIN p.feature : q.feature[x].uid = p.feature[x].uid
<1> DEFINE rows == [p.feature EXCEPT ![f].pi = pi]
           q == [p EXCEPT !.feature = rows]
<1>2. [p EXCEPT !.feature[f].pi = pi] = q
  BY DEF IsPlan, Tables
<1>3. \A x \in DOMAIN p.feature : p.feature[x] \in FeatureRows /\ x \in Ids
  BY PlanTables
<1>4. pi \in Refs
  BY PlanTables DEF Refs
<1>5. /\ DOMAIN rows = DOMAIN p.feature
      /\ \A x \in DOMAIN rows : /\ rows[x] \in FeatureRows
                                /\ rows[x].origin = p.feature[x].origin /\ rows[x].state = p.feature[x].state /\ rows[x].uid = p.feature[x].uid
                                /\ x # f => rows[x] = p.feature[x]
      /\ rows[f].pi = pi
  BY <1>3, <1>4 DEF FeatureRows
<1>6. IsTable(rows, Ids, FeatureRows)
  BY <1>3, <1>5 DEF IsTable
<1> HIDE DEF rows
<1>7. IsPlan(q) /\ Unlooped(p, q) /\ Sound(p, q)
  <2>2. Stands(p) => \A x \in DOMAIN rows : IsStateFor(p, "feature", rows[x].state) /\ rows[x].pi \in DOMAIN p.pi \cup {Nothing}
    BY <1>5 DEF Stands
  <2>3. UidsApart(p) => \A x \in DOMAIN rows, s \in DOMAIN p.story : rows[x].uid = p.story[s].uid => rows[x].uid = Nothing
    BY <1>5 DEF UidsApart
  <2> QED  BY <1>5, <1>6, <2>2, <2>3, FeaturesChanged
<1>8. q.feature = rows /\ q.story = p.story /\ q.list = p.list /\ q.pi = p.pi /\ q.path = p.path
  BY OneTable DEF IsPlan
<1> HIDE DEF q
<1> QED  BY <1>2, <1>5, <1>7, <1>8

\* move_feature, to a PI of the project or back to the backlog.
LEMMA MoveFeatureEdits ==
  ASSUME IsPlan(plan), MoveFeature
  PROVE  Edit
BY FeatureMoved DEF MoveFeature, Edit

\* Features are moved, continued or deleted, and their stories with them.
LEMMA BoardChanged ==
  ASSUME NEW p, IsPlan(p), NEW q, q = [table \in Tables |-> q[table]], q.list = p.list, q.pi = p.pi, q.path = p.path,
         IsTable(q.feature, Ids, FeatureRows), IsTable(q.story, Ids, StoryRows), NoLoops(q),
         \A f \in DOMAIN q.feature : \E e \in DOMAIN p.feature :
            /\ q.feature[f].state = p.feature[e].state /\ q.feature[f].uid \in {p.feature[e].uid, Nothing}
            /\ q.feature[f].pi \in DOMAIN p.pi \cup {p.feature[e].pi, Nothing},
         \A s \in DOMAIN q.story :
            /\ s \in DOMAIN p.story /\ q.story[s].kind = p.story[s].kind /\ q.story[s].state = p.story[s].state
            /\ q.story[s].date = p.story[s].date /\ q.story[s].uid = p.story[s].uid
            /\ Stands(p) => q.story[s].feature \in DOMAIN q.feature
  PROVE  IsPlan(q) /\ Sound(p, q)
<1>1. IsPlan(q)
  BY PlanTables DEF IsPlan
<1>2. Stands(p) => Stands(q)
  BY SMTT(30) DEF Stands, IsStateFor, ListOf
<1>3. Dated(p) => Dated(q)
  BY DEF Dated, IsDone
<1>4. UidsApart(p) => UidsApart(q)
  BY DEF UidsApart
<1> QED  BY <1>1, <1>2, <1>3, <1>4, ItemsEdited

\* Features are deleted with the stories under them.
LEMMA DeleteFeaturesSound ==
  ASSUME NEW p, IsPlan(p), NEW gone
  PROVE  LET q == Drop(Drop(p, "story", StoriesUnder(p, gone)), "feature", gone)
         IN /\ IsPlan(q) /\ Sound(p, q) /\ Unlooped(p, q)
            /\ DOMAIN q.feature = DOMAIN p.feature \ gone /\ q.list = p.list /\ q.pi = p.pi /\ q.path = p.path
            /\ DOMAIN q.story = DOMAIN p.story \ StoriesUnder(p, gone)
<1> DEFINE left == Without(p.story, StoriesUnder(p, gone))
           kept == Without(p.feature, gone)
           r == Drop(p, "story", StoriesUnder(p, gone))
           q == Drop(r, "feature", gone)
<1>1. r = [p EXCEPT !.story = left]
  BY PutOneTable DEF IsPlan
<1> HIDE DEF r, left
<1>2. r = [table \in Tables |-> r[table]] /\ r.feature = p.feature /\ r.story = left /\ r.list = p.list /\ r.pi = p.pi /\ r.path = p.path
  BY <1>1, OneTable DEF IsPlan
<1> USE DEF left
<1>3. q = [r EXCEPT !.feature = kept]
  <2>1. Drop(r, "feature", gone) = [r EXCEPT !.feature = Without(r.feature, gone)]
    BY <1>2, PutOneTable
  <2>2. r.feature = p.feature
    BY <1>2
  <2> QED  BY <2>1, <2>2
<1> HIDE DEF q, kept, left
<1>4. q = [table \in Tables |-> q[table]] /\ q.feature = kept /\ q.story = left /\ q.list = p.list /\ q.pi = p.pi /\ q.path = p.path
  BY <1>2, <1>3, OneTable
<1> USE DEF left, kept
<1>5. /\ IsTable(left, Ids, StoryRows) /\ DOMAIN left = DOMAIN p.story \ StoriesUnder(p, gone)
      /\ \A s \in DOMAIN p.story \ StoriesUnder(p, gone) : left[s] = p.story[s]
  <2>1. IsTable(p.story, Ids, StoryRows)
    BY PlanTables
  <2> QED  BY <2>1, RowsDropped
<1>6. /\ IsTable(kept, Ids, FeatureRows) /\ DOMAIN kept = DOMAIN p.feature \ gone
      /\ \A f \in DOMAIN p.feature \ gone : kept[f] = p.feature[f]
  <2>1. IsTable(p.feature, Ids, FeatureRows)
    BY PlanTables
  <2> QED  BY <2>1, RowsDropped
<1> HIDE DEF q, left, kept
<1>7. Unlooped(p, q)
  BY <1>4, <1>6 DEF Unlooped
<1>8. NoLoops(q)
  BY <1>4, <1>6, <1>7, UnloopedHasNoLoops, PlanTables DEF IsTable
<1>9. \A s \in DOMAIN left : s \in DOMAIN p.story /\ left[s] = p.story[s] /\ (Stands(p) => p.story[s].feature \in DOMAIN kept)
  BY <1>5, <1>6 DEF StoriesUnder, Stands
<1>10. IsPlan(q) /\ Sound(p, q)
  BY <1>4, <1>5, <1>6, <1>8, <1>9, BoardChanged
<1> QED  BY <1>4, <1>5, <1>6, <1>7, <1>10 DEF q, r

\* delete_feature: the continuations go too.
LEMMA DeleteFeatureRewrites ==
  ASSUME IsPlan(plan), DeleteFeature
  PROVE  Rewrite
<1>1. PICK f \in DOMAIN plan.feature : AtOnce(DeleteFeatures(plan, {f}))
  BY DEF DeleteFeature
<1> QED  BY <1>1, DeleteFeaturesSound DEF Rewrite, DeleteFeatures

\* clear_backlog: they do not.
LEMMA ClearBacklogRewrites ==
  ASSUME IsPlan(plan), ClearBacklog
  PROVE  Rewrite
BY DeleteFeaturesSound DEF Rewrite, ClearBacklog

\* clear_all_features leaves no item.
LEMMA ClearAllFeaturesRewrites ==
  ASSUME IsPlan(plan), ClearAllFeatures
  PROVE  Rewrite
<1> DEFINE r == [plan EXCEPT !.feature = <<>>]
           q == [r EXCEPT !.story = <<>>]
<1>1. AtOnce(q)
  BY DEF ClearAllFeatures
<1>2. r = [table \in Tables |-> r[table]] /\ r.feature = <<>> /\ r.list = plan.list /\ r.pi = plan.pi /\ r.path = plan.path
  BY OneTable DEF IsPlan
<1> HIDE DEF r
<1>3. q = [table \in Tables |-> q[table]] /\ q.feature = <<>> /\ q.story = <<>> /\ q.list = plan.list /\ q.pi = plan.pi /\ q.path = plan.path
  BY <1>2, OneTable
<1> HIDE DEF q
<1>4. DOMAIN <<>> = {} /\ <<>> \in [{} -> FeatureRows] /\ <<>> \in [{} -> StoryRows]
  OBVIOUS
<1>5. IsTable(<<>>, Ids, FeatureRows) /\ IsTable(<<>>, Ids, StoryRows)
  BY <1>4 DEF IsTable
<1>6. NoLoops(q)
  BY <1>3, <1>4 DEF NoLoops
<1>7. IsPlan(q) /\ Sound(plan, q)
  BY <1>3, <1>4, <1>5, <1>6, BoardChanged
<1> QED  BY <1>1, <1>7 DEF Rewrite

\* A split part continues the feature it was split from, and nobody continues it yet.
LEMMA SplitFeatureRewrites ==
  ASSUME IsPlan(plan), SplitFeature
  PROVE  Rewrite
<1>1. PICK f \in DOMAIN plan.feature, pi \in DOMAIN plan.pi, n \in Fresh("feature") :
        \E S \in SUBSET StoriesUnder(plan, {f}) \ {{}} :
         IF S = StoriesUnder(plan, {f}) THEN AtOnce([plan EXCEPT !.feature[f].pi = pi])
         ELSE AtOnce([Put(plan, "feature", n, [plan.feature[f] EXCEPT !.uid = Nothing, !.pi = pi, !.origin = f])
                        EXCEPT !.story = [s \in DOMAIN @ |-> IF s \in S THEN [@[s] EXCEPT !.feature = n] ELSE @[s]]])
  BY DEF SplitFeature
<1>2. PICK S \in SUBSET StoriesUnder(plan, {f}) \ {{}} :
         IF S = StoriesUnder(plan, {f}) THEN AtOnce([plan EXCEPT !.feature[f].pi = pi])
         ELSE AtOnce([Put(plan, "feature", n, [plan.feature[f] EXCEPT !.uid = Nothing, !.pi = pi, !.origin = f])
                        EXCEPT !.story = [s \in DOMAIN @ |-> IF s \in S THEN [@[s] EXCEPT !.feature = n] ELSE @[s]]])
  BY <1>1
<1>3. CASE AtOnce([plan EXCEPT !.feature[f].pi = pi])
  BY <1>3, FeatureMoved DEF Rewrite
<1> DEFINE row == [plan.feature[f] EXCEPT !.uid = Nothing, !.pi = pi, !.origin = f]
           rows == With(plan.feature, n, row)
           r == [plan EXCEPT !.feature = rows]
           stories == [s \in DOMAIN plan.story |-> IF s \in S THEN [plan.story[s] EXCEPT !.feature = n] ELSE plan.story[s]]
           q == [r EXCEPT !.story = stories]
<1>4. CASE AtOnce([Put(plan, "feature", n, row) EXCEPT !.story = [s \in DOMAIN @ |-> IF s \in S THEN [@[s] EXCEPT !.feature = n] ELSE @[s]]])
  <2>1. n \in Ids \ DOMAIN plan.feature /\ \A x \in DOMAIN plan.feature : plan.feature[x].origin # n
    BY FreshIds
  <2>2. plan.feature[f] \in FeatureRows /\ f \in Ids /\ pi \in Ids
    BY PlanTables
  <2>3. row \in FeatureRows /\ row.uid = Nothing /\ row.pi = pi /\ row.origin = f /\ row.state = plan.feature[f].state
    BY <2>2 DEF FeatureRows, BusinessIds, Refs
  <2>4. \A s \in DOMAIN plan.story : plan.story[s] \in StoryRows /\ s \in Ids
    BY PlanTables
  <2>5. /\ DOMAIN stories = DOMAIN plan.story
        /\ \A s \in DOMAIN stories : /\ stories[s] \in StoryRows /\ stories[s].kind = plan.story[s].kind
                                     /\ stories[s].state = plan.story[s].state /\ stories[s].date = plan.story[s].date
                                     /\ stories[s].uid = plan.story[s].uid /\ stories[s].feature \in {n, plan.story[s].feature}
    BY <2>1, <2>4 DEF StoryRows
  <2>6. IsTable(stories, Ids, StoryRows)
    BY <2>4, <2>5 DEF IsTable
  <2> HIDE DEF row
  <2>7. Put(plan, "feature", n, row) = r
    BY DEF Put, IsPlan, Tables
  <2>8. IsTable(rows, Ids, FeatureRows) /\ DOMAIN rows = DOMAIN plan.feature \cup {n}
        /\ rows[n] = row /\ \A x \in DOMAIN plan.feature : rows[x] = plan.feature[x]
    <3>1. IsTable(plan.feature, Ids, FeatureRows) /\ n \in Ids /\ n \notin DOMAIN plan.feature /\ row \in FeatureRows
      BY <2>1, <2>3, PlanTables
    <3> QED  BY <3>1, RowsPut
  <2> HIDE DEF rows
  <2>9. r = [table \in Tables |-> r[table]] /\ r.feature = rows /\ r.story = plan.story /\ r.list = plan.list /\ r.pi = plan.pi /\ r.path = plan.path
    BY OneTable DEF IsPlan
  <2>10. AtOnce(q)
    BY <1>4, <2>7, <2>9
  <2> HIDE DEF r, stories
  <2>11. q = [table \in Tables |-> q[table]] /\ q.feature = rows /\ q.story = stories /\ q.list = plan.list /\ q.pi = plan.pi /\ q.path = plan.path
    BY <2>9, OneTable
  <2> HIDE DEF q
  <2>12. NoLoops(q)
    <3> SUFFICES ASSUME NEW T \in SUBSET DOMAIN rows, T # {}
                 PROVE  \E x \in T : \A y \in T : rows[y].origin # x
      BY <2>11 DEF NoLoops
    <3>1. CASE n \in T
      BY <3>1, <2>1, <2>3, <2>8
    <3>2. CASE n \notin T
      <4>1. \E x \in T : \A y \in T : plan.feature[y].origin # x
        BY <3>2, <2>8 DEF IsPlan, NoLoops
      <4> QED  BY <4>1, <3>2, <2>8
    <3> QED  BY <3>1, <3>2
  <2>13. \A x \in DOMAIN rows : \E e \in DOMAIN plan.feature :
            /\ rows[x].state = plan.feature[e].state /\ rows[x].uid \in {plan.feature[e].uid, Nothing}
            /\ rows[x].pi \in DOMAIN plan.pi \cup {plan.feature[e].pi, Nothing}
    BY <2>3, <2>8
  <2>14. \A s \in DOMAIN stories : Stands(plan) => stories[s].feature \in DOMAIN rows
    BY <2>5, <2>8 DEF Stands
  <2>15. IsPlan(q) /\ Sound(plan, q)
    BY <2>5, <2>6, <2>8, <2>11, <2>12, <2>13, <2>14, BoardChanged
  <2> QED  BY <2>10, <2>15 DEF Rewrite
<1> QED  BY <1>2, <1>3, <1>4

\* A continuation that is cancelled gives its stories back to what it continued.
LEMMA CancelContinuationRewrites ==
  ASSUME IsPlan(plan), CancelContinuation
  PROVE  Rewrite
<1>1. PICK f \in DOMAIN plan.feature :
        /\ plan.feature[f].origin \in DOMAIN plan.feature
        /\ AtOnce([Drop(plan, "feature", {f}) EXCEPT !.story = [s \in DOMAIN @ |->
            IF @[s].feature = f THEN [@[s] EXCEPT !.feature = plan.feature[f].origin] ELSE @[s]]])
  BY DEF CancelContinuation
<1> DEFINE rows == Without(plan.feature, {f})
           r == [plan EXCEPT !.feature = rows]
           stories == [s \in DOMAIN plan.story |->
             IF plan.story[s].feature = f THEN [plan.story[s] EXCEPT !.feature = plan.feature[f].origin] ELSE plan.story[s]]
           q == [r EXCEPT !.story = stories]
<1>2. plan.feature[f].origin \in Ids /\ plan.feature[f].origin # f
  <2>1. {f} \in SUBSET DOMAIN plan.feature
    OBVIOUS
  <2> QED  BY <1>1, <2>1, PlanTables DEF IsPlan, NoLoops
<1>4. \A s \in DOMAIN plan.story : plan.story[s] \in StoryRows /\ s \in Ids
  BY PlanTables
<1>5. /\ DOMAIN stories = DOMAIN plan.story
      /\ \A s \in DOMAIN stories : /\ stories[s] \in StoryRows /\ stories[s].kind = plan.story[s].kind
                                   /\ stories[s].state = plan.story[s].state /\ stories[s].date = plan.story[s].date
                                   /\ stories[s].uid = plan.story[s].uid /\ stories[s].feature # f
                                   /\ stories[s].feature \in {plan.feature[f].origin, plan.story[s].feature}
  BY <1>2, <1>4 DEF StoryRows
<1>6. IsTable(stories, Ids, StoryRows)
  BY <1>4, <1>5 DEF IsTable
<1>7. Drop(plan, "feature", {f}) = r
  BY PutOneTable DEF IsPlan
<1>8. /\ IsTable(rows, Ids, FeatureRows) /\ DOMAIN rows = DOMAIN plan.feature \ {f}
      /\ \A x \in DOMAIN plan.feature \ {f} : rows[x] = plan.feature[x]
  <2>1. IsTable(plan.feature, Ids, FeatureRows)
    BY PlanTables
  <2> QED  BY <2>1, RowsDropped
<1> HIDE DEF rows
<1>9. r = [table \in Tables |-> r[table]] /\ r.feature = rows /\ r.story = plan.story /\ r.list = plan.list /\ r.pi = plan.pi /\ r.path = plan.path
  BY OneTable DEF IsPlan
<1>10. AtOnce(q)
  BY <1>1, <1>7, <1>9
<1> HIDE DEF r, stories
<1>11. q = [table \in Tables |-> q[table]] /\ q.feature = rows /\ q.story = stories /\ q.list = plan.list /\ q.pi = plan.pi /\ q.path = plan.path
  BY <1>9, OneTable
<1> HIDE DEF q
<1>12. NoLoops(q)
  <2>1. Unlooped(plan, q) /\ DOMAIN q.feature \subseteq Ids
    BY <1>8, <1>11 DEF Unlooped, IsTable
  <2> QED  BY <2>1, UnloopedHasNoLoops
<1>13. \A x \in DOMAIN rows : \E e \in DOMAIN plan.feature :
            /\ rows[x].state = plan.feature[e].state /\ rows[x].uid \in {plan.feature[e].uid, Nothing}
            /\ rows[x].pi \in DOMAIN plan.pi \cup {plan.feature[e].pi, Nothing}
  BY <1>8
<1>14. \A s \in DOMAIN stories : Stands(plan) => stories[s].feature \in DOMAIN rows
  BY <1>1, <1>2, <1>5, <1>8 DEF Stands
<1>15. IsPlan(q) /\ Sound(plan, q)
  BY <1>5, <1>6, <1>8, <1>11, <1>12, <1>13, <1>14, BoardChanged
<1> QED  BY <1>10, <1>15 DEF Rewrite

-----------------------------------------------------------------------------
(* Stories                                                                 *)

\* A date that follows the State an item had follows the one it gets.
LEMMA CompletedFollows ==
  ASSUME NEW p, IsPlan(p), NEW date \in {Nothing, "today", "given"}, NEW was, NEW is, NEW explicit \in {Nothing, "given"}
  PROVE  /\ Completed(p, date, was, is, explicit) \in {Nothing, "today", "given"}
         /\ (IsDone(p, was) <=> date # Nothing) => (IsDone(p, is) <=> Completed(p, date, was, is, explicit) # Nothing)
<1>1. Nothing \notin DOMAIN p.list
  BY NothingIsNoId, PlanTables
<1>2. Nothing # "today" /\ Nothing # "given"
  BY NothingIsNothing
<1>3. LoadState(p, was) = LoadState(p, is) => IsDone(p, was) = IsDone(p, is)
  BY <1>1 DEF LoadState, IsDone
<1> QED  BY <1>2, <1>3 DEF Completed

\* No State is not a done one.
LEMMA NothingIsNotDone ==
  ASSUME NEW p, IsPlan(p)
  PROVE  ~ IsDone(p, Nothing)
BY NothingIsNoId, PlanTables DEF IsDone

\* Stories whose features and States are there, with their dates.
LEMMA StoriesChanged ==
  ASSUME NEW p, IsPlan(p), NEW rows, IsTable(rows, Ids, StoryRows),
         Stands(p) => \A s \in DOMAIN rows : rows[s].feature \in DOMAIN p.feature /\ IsStateFor(p, rows[s].kind, rows[s].state),
         Stands(p) /\ Dated(p) => \A s \in DOMAIN rows : IsDone(p, rows[s].state) <=> rows[s].date # Nothing,
         UidsApart(p) => \A f \in DOMAIN p.feature, s \in DOMAIN rows : p.feature[f].uid = rows[s].uid => p.feature[f].uid = Nothing
  PROVE  LET q == [p EXCEPT !.story = rows] IN IsPlan(q) /\ Unlooped(p, q) /\ Sound(p, q)
<1> DEFINE q == [p EXCEPT !.story = rows]
<1>1. q = [table \in Tables |-> q[table]] /\ q.feature = p.feature /\ q.story = rows /\ q.list = p.list /\ q.pi = p.pi /\ q.path = p.path
  BY OneTable DEF IsPlan
<1> HIDE DEF q
<1>2. Unlooped(p, q)
  BY <1>1 DEF Unlooped
<1>3. IsPlan(q)
  BY <1>1, <1>2, PlanTables, PlanFromTables
<1>4. Stands(p) => Stands(q)
  BY <1>1 DEF Stands, IsStateFor, ListOf
<1>5. Stands(p) /\ Dated(p) => Dated(q)
  BY <1>1 DEF Dated, IsDone
<1>6. UidsApart(p) => UidsApart(q)
  BY <1>1 DEF UidsApart
<1>7. IsPlan(q) /\ Unlooped(p, q) /\ Sound(p, q)
  BY <1>1, <1>2, <1>3, <1>4, <1>5, <1>6, ItemsEdited
<1> QED  BY <1>7 DEF q

\* create_pbi stamps the date of a story that is born done.
LEMMA CreatePbiEdits ==
  ASSUME IsPlan(plan), CreatePbi
  PROVE  Edit
<1>1. PICK f \in DOMAIN plan.feature, uid \in BusinessIds, kind \in Kinds, s \in Fresh("story") : \E state \in StatesFor(kind) :
    /\ uid # Nothing => IsUserIdAvailable(plan, uid, Nothing)
    /\ Serve(Put(plan, "story", s, [NewStory(f, uid, kind, state) EXCEPT !.date = Completed(plan, @, Nothing, state, Nothing)]))
  BY DEF CreatePbi
<1>2. PICK state \in StatesFor(kind) :
    /\ uid # Nothing => IsUserIdAvailable(plan, uid, Nothing)
    /\ Serve(Put(plan, "story", s, [NewStory(f, uid, kind, state) EXCEPT !.date = Completed(plan, @, Nothing, state, Nothing)]))
  BY <1>1
<1> DEFINE row == [NewStory(f, uid, kind, state) EXCEPT !.date = Completed(plan, @, Nothing, state, Nothing)]
           rows == With(plan.story, s, row)
           q == [plan EXCEPT !.story = rows]
<1>3. s \in Ids \ DOMAIN plan.story /\ f \in Ids
  BY FreshIds, PlanTables
<1>4. state \in Refs /\ IsStateFor(plan, kind, state)
  BY StateForItem
<1>5. LET date == Completed(plan, Nothing, Nothing, state, Nothing)
      IN date \in {Nothing, "today", "given"} /\ (IsDone(plan, state) <=> date # Nothing)
  BY CompletedFollows, NothingIsNotDone
<1>6. /\ row.feature = f /\ row.uid = uid /\ row.kind = kind /\ row.state = state
      /\ row \in StoryRows /\ (IsDone(plan, row.state) <=> row.date # Nothing)
  <2> DEFINE date == Completed(plan, Nothing, Nothing, state, Nothing)
  <2>1. row = [feature |-> f, uid |-> uid, kind |-> kind, state |-> state, date |-> date]
    BY DEF NewStory
  <2> HIDE DEF date, row
  <2>2. date \in {Nothing, "today", "given"} /\ (IsDone(plan, state) <=> date # Nothing)
    BY <1>5 DEF date
  <2> QED  BY <1>3, <1>4, <2>1, <2>2 DEF StoryRows
<1>7. uid # Nothing => \A x \in DOMAIN plan.feature : plan.feature[x].uid # uid
  <2>1. \A x \in DOMAIN plan.feature : <<"feature", x>> # Nothing
    BY NothingIsNoItem, PlanTables
  <2> QED  BY <1>2, <2>1 DEF IsUserIdAvailable
<1> HIDE DEF row
<1>8. Put(plan, "story", s, row) = q
  BY DEF Put, IsPlan, Tables
<1>9. IsTable(rows, Ids, StoryRows) /\ DOMAIN rows = DOMAIN plan.story \cup {s}
      /\ rows[s] = row /\ \A x \in DOMAIN plan.story : rows[x] = plan.story[x]
  <2>1. IsTable(plan.story, Ids, StoryRows) /\ s \in Ids /\ s \notin DOMAIN plan.story /\ row \in StoryRows
    BY <1>3, <1>6, PlanTables
  <2> QED  BY <2>1, RowsPut
<1> HIDE DEF rows
<1>10. IsPlan(q) /\ Unlooped(plan, q) /\ Sound(plan, q)
  <2>1. Stands(plan) => \A x \in DOMAIN rows : rows[x].feature \in DOMAIN plan.feature /\ IsStateFor(plan, rows[x].kind, rows[x].state)
    BY <1>4, <1>6, <1>9 DEF Stands
  <2>2. Stands(plan) /\ Dated(plan) => \A x \in DOMAIN rows : IsDone(plan, rows[x].state) <=> rows[x].date # Nothing
    BY <1>6, <1>9 DEF Dated
  <2>3. UidsApart(plan) => \A g \in DOMAIN plan.feature, x \in DOMAIN rows : plan.feature[g].uid = rows[x].uid => plan.feature[g].uid = Nothing
    BY <1>6, <1>7, <1>9 DEF UidsApart
  <2> QED  BY <1>9, <2>1, <2>2, <2>3, StoriesChanged
<1> QED  BY <1>2, <1>8, <1>10 DEF Edit, row

\* update_pbi: kind, State and date follow each other.
LEMMA UpdatePbiEdits ==
  ASSUME IsPlan(plan), UpdatePbi
  PROVE  Edit
<1>1. PICK s \in DOMAIN plan.story, uid \in BusinessIds, kind \in Kinds, given \in {Nothing, "given"} :
    \E state \in StatesFor(kind) \cup {KeptState(plan.story[s], kind)} :
        /\ uid \notin {Nothing, plan.story[s].uid} => IsUserIdAvailable(plan, uid, <<"story", s>>)
        /\ Serve([plan EXCEPT !.story[s] = [plan.story[s] EXCEPT !.uid = uid, !.kind = kind, !.state = state,
                                              !.date = Completed(plan, @, plan.story[s].state, state, given)]])
  BY ZenonT(90) DEF UpdatePbi
<1>2. PICK state \in StatesFor(kind) \cup {KeptState(plan.story[s], kind)} :
        /\ uid \notin {Nothing, plan.story[s].uid} => IsUserIdAvailable(plan, uid, <<"story", s>>)
        /\ Serve([plan EXCEPT !.story[s] = [plan.story[s] EXCEPT !.uid = uid, !.kind = kind, !.state = state,
                                              !.date = Completed(plan, @, plan.story[s].state, state, given)]])
  BY <1>1
<1> DEFINE row == [plan.story[s] EXCEPT !.uid = uid, !.kind = kind, !.state = state,
                                        !.date = Completed(plan, @, plan.story[s].state, state, given)]
           rows == [plan.story EXCEPT ![s] = row]
           q == [plan EXCEPT !.story = rows]
<1>3. \A x \in DOMAIN plan.story : plan.story[x] \in StoryRows /\ x \in Ids
  BY PlanTables
<1>4. state \in Refs /\ (Stands(plan) => IsStateFor(plan, kind, state))
  BY <1>3, StateForItem DEF KeptState, Stands, StoryRows, Refs, IsStateFor
<1>5. LET date == Completed(plan, plan.story[s].date, plan.story[s].state, state, given)
      IN date \in {Nothing, "today", "given"} /\ (Dated(plan) => (IsDone(plan, state) <=> date # Nothing))
  <2>1. plan.story[s].date \in {Nothing, "today", "given"}
    BY <1>3 DEF StoryRows
  <2> QED  BY <2>1, CompletedFollows DEF Dated
<1>6. /\ row.feature = plan.story[s].feature /\ row.uid = uid /\ row.kind = kind /\ row.state = state
      /\ row \in StoryRows /\ (Dated(plan) => (IsDone(plan, row.state) <=> row.date # Nothing))
  <2> DEFINE date == Completed(plan, plan.story[s].date, plan.story[s].state, state, given)
  <2>1. row = [plan.story[s] EXCEPT !.uid = uid, !.kind = kind, !.state = state, !.date = date]
    BY DEF StoryRows
  <2> HIDE DEF date, row
  <2>2. date \in {Nothing, "today", "given"} /\ (Dated(plan) => (IsDone(plan, state) <=> date # Nothing))
    BY <1>5 DEF date
  <2>3. plan.story[s] \in StoryRows
    BY <1>3
  <2> QED  BY <1>4, <2>1, <2>2, <2>3 DEF StoryRows
<1>7. uid \notin {Nothing, plan.story[s].uid} => \A x \in DOMAIN plan.feature : plan.feature[x].uid # uid
  <2>1. \A x \in DOMAIN plan.feature : <<"feature", x>> # <<"story", s>>
    OBVIOUS
  <2> QED  BY <1>2, <2>1 DEF IsUserIdAvailable
<1>8. Serve(q)
  <2>1. Serve([plan EXCEPT !.story[s] = row])
    BY <1>2
  <2> HIDE DEF row
  <2>2. [plan EXCEPT !.story[s] = row] = q
    BY DEF IsPlan, Tables
  <2> QED  BY <2>1, <2>2
<1> HIDE DEF row
<1>9. DOMAIN rows = DOMAIN plan.story /\ rows[s] = row /\ \A x \in DOMAIN rows : x # s => rows[x] = plan.story[x]
  OBVIOUS
<1> HIDE DEF rows
<1>10. IsTable(rows, Ids, StoryRows)
  <2>1. \A x \in DOMAIN rows : rows[x] \in StoryRows /\ x \in Ids
    BY <1>3, <1>6, <1>9
  <2>2. rows = [x \in DOMAIN rows |-> rows[x]]
    BY DEF rows
  <2> QED  BY <2>1, <2>2 DEF IsTable
<1>11. IsPlan(q) /\ Unlooped(plan, q) /\ Sound(plan, q)
  <2>1. Stands(plan) => \A x \in DOMAIN rows : rows[x].feature \in DOMAIN plan.feature /\ IsStateFor(plan, rows[x].kind, rows[x].state)
    BY <1>4, <1>6, <1>9 DEF Stands
  <2>2. Stands(plan) /\ Dated(plan) => \A x \in DOMAIN rows : IsDone(plan, rows[x].state) <=> rows[x].date # Nothing
    BY <1>6, <1>9 DEF Dated
  <2>3. UidsApart(plan) => \A g \in DOMAIN plan.feature, x \in DOMAIN rows : plan.feature[g].uid = rows[x].uid => plan.feature[g].uid = Nothing
    BY <1>6, <1>7, <1>9 DEF UidsApart
  <2> QED  BY <1>10, <2>1, <2>2, <2>3, StoriesChanged
<1> QED  BY <1>8, <1>11 DEF Edit

\* Stories are deleted.
LEMMA StoriesDropped ==
  ASSUME NEW p, IsPlan(p), NEW S
  PROVE  LET q == Drop(p, "story", S)
         IN /\ IsPlan(q) /\ Unlooped(p, q) /\ Sound(p, q) /\ q.feature = p.feature /\ q.list = p.list /\ q.pi = p.pi /\ q.path = p.path
            /\ DOMAIN q.story = DOMAIN p.story \ S /\ \A s \in DOMAIN p.story \ S : q.story[s] = p.story[s]
<1> DEFINE rows == Without(p.story, S)
           q == [p EXCEPT !.story = rows]
<1>1. Drop(p, "story", S) = q
  BY PutOneTable DEF IsPlan
<1>2. /\ IsTable(rows, Ids, StoryRows) /\ DOMAIN rows = DOMAIN p.story \ S
      /\ \A s \in DOMAIN p.story \ S : rows[s] = p.story[s]
  <2>1. IsTable(p.story, Ids, StoryRows)
    BY PlanTables
  <2> QED  BY <2>1, RowsDropped
<1> HIDE DEF rows
<1>3. q.feature = p.feature /\ q.story = rows /\ q.list = p.list /\ q.pi = p.pi /\ q.path = p.path
  BY OneTable DEF IsPlan
<1>4. IsPlan(q) /\ Unlooped(p, q) /\ Sound(p, q)
  <2>1. Stands(p) => \A s \in DOMAIN rows : rows[s].feature \in DOMAIN p.feature /\ IsStateFor(p, rows[s].kind, rows[s].state)
    BY <1>2 DEF Stands
  <2>2. Dated(p) => \A s \in DOMAIN rows : IsDone(p, rows[s].state) <=> rows[s].date # Nothing
    BY <1>2 DEF Dated
  <2>3. UidsApart(p) => \A f \in DOMAIN p.feature, s \in DOMAIN rows : p.feature[f].uid = rows[s].uid => p.feature[f].uid = Nothing
    BY <1>2 DEF UidsApart
  <2> QED  BY <1>2, <2>1, <2>2, <2>3, StoriesChanged
<1> HIDE DEF q
<1> QED  BY <1>1, <1>2, <1>3, <1>4

\* delete_pbi.
LEMMA DeletePbiRewrites ==
  ASSUME IsPlan(plan), DeletePbi
  PROVE  Rewrite
BY StoriesDropped DEF DeletePbi, Rewrite

-----------------------------------------------------------------------------
(* PIs, sprints and their paths                                            *)

\* create_pi: one PI in progress, a path that is free, and slots without one.
LEMMA CreatePiEdits ==
  ASSUME IsPlan(plan), CreatePi
  PROVE  Edit
<1>1. PICK pi \in Fresh("pi"), state \in PiStates, path \in Paths \cup {Nothing} :
    /\ MayStart(pi, state)
    /\ ~ IterationPathTaken(plan, path, <<pi, 0>>)
    /\ Serve([Put(plan, "pi", pi, [state |-> state]) EXCEPT !.path =
            [x \in DOMAIN @ \cup SlotsOf(pi) |-> IF x \in DOMAIN @ THEN @[x] ELSE [path |-> IF x[2] = 0 THEN path ELSE Nothing]]])
  BY DEF CreatePi
<1> DEFINE row == [state |-> state]
           rows == With(plan.pi, pi, row)
           r == [plan EXCEPT !.pi = rows]
           paths == [x \in DOMAIN plan.path \cup SlotsOf(pi) |->
                       IF x \in DOMAIN plan.path THEN plan.path[x] ELSE [path |-> IF x[2] = 0 THEN path ELSE Nothing]]
           q == [r EXCEPT !.path = paths]
<1>2. pi \in Ids \ DOMAIN plan.pi
  BY FreshIds
<1>3. row \in PiRows /\ row.state = state
  BY DEF PiRows
<1> HIDE DEF row
<1>4. Put(plan, "pi", pi, row) = r
  BY DEF Put, IsPlan, Tables
<1>5. IsTable(rows, Ids, PiRows) /\ DOMAIN rows = DOMAIN plan.pi \cup {pi}
      /\ rows[pi] = row /\ \A x \in DOMAIN plan.pi : rows[x] = plan.pi[x]
  <2>1. IsTable(plan.pi, Ids, PiRows) /\ pi \in Ids /\ pi \notin DOMAIN plan.pi /\ row \in PiRows
    BY <1>2, <1>3, PlanTables
  <2> QED  BY <2>1, RowsPut
<1> HIDE DEF rows
<1>6. r = [table \in Tables |-> r[table]] /\ r.feature = plan.feature /\ r.story = plan.story /\ r.list = plan.list /\ r.pi = rows /\ r.path = plan.path
  BY OneTable DEF IsPlan
<1>7. Serve(q)
  BY <1>1, <1>4, <1>6 DEF row
<1> HIDE DEF r
<1>8. \A x \in DOMAIN plan.path : x \in Ids \X ({0} \cup Sprints) /\ plan.path[x] \in PathRows
  BY PlanTables
<1>9. \A x \in SlotsOf(pi) : x \in Ids \X ({0} \cup Sprints) /\ x[1] = pi
  BY <1>2 DEF SlotsOf
<1>10. /\ DOMAIN paths = DOMAIN plan.path \cup SlotsOf(pi)
       /\ \A x \in DOMAIN plan.path : paths[x] = plan.path[x]
       /\ \A x \in DOMAIN paths \ DOMAIN plan.path :
            /\ paths[x] \in PathRows /\ (paths[x].path # Nothing => paths[x].path = path /\ x = <<pi, 0>>)
  BY <1>9 DEF PathRows, SlotsOf
<1>11. IsTable(paths, Ids \X ({0} \cup Sprints), PathRows)
  BY <1>8, <1>9, <1>10 DEF IsTable
<1> HIDE DEF paths
<1>12. q = [table \in Tables |-> q[table]] /\ q.feature = plan.feature /\ q.story = plan.story /\ q.list = plan.list /\ q.pi = rows /\ q.path = paths
  BY <1>6, OneTable
<1> HIDE DEF q
<1>13. PathsOnce(plan) => PathsOnce(q)
  <2>1. path # Nothing => \A x \in DOMAIN plan.path : x # <<pi, 0>> => plan.path[x].path # path
    BY <1>1 DEF IterationPathTaken, PathsBut
  <2> QED  BY <1>10, <1>12, <2>1 DEF PathsOnce
<1>14. OneStarted(plan) => OneStarted(q)
  BY <1>1, <1>2, <1>3, <1>5, <1>12 DEF OneStarted, InProgress, MayStart
<1>15. IsPlan(q) /\ Unlooped(plan, q) /\ Sound(plan, q)
  BY <1>5, <1>11, <1>12, <1>13, <1>14, PisEdited
<1> QED  BY <1>7, <1>15 DEF Edit

\* update_pi: the same of a PI that is not closed.
LEMMA UpdatePiEdits ==
  ASSUME IsPlan(plan), UpdatePi
  PROVE  Edit
<1>1. PICK pi \in DOMAIN plan.pi, state \in PiStates, path \in Paths \cup {Nothing} :
    /\ MayStart(pi, state)
    /\ path # plan.path[<<pi, 0>>].path => ~ IterationPathTaken(plan, path, <<pi, 0>>)
    /\ Serve([plan EXCEPT !.pi[pi].state = state, !.path[<<pi, 0>>].path = path])
  BY DEF UpdatePi
<1> DEFINE rows == [plan.pi EXCEPT ![pi].state = state]
           r == [plan EXCEPT !.pi = rows]
           paths == [plan.path EXCEPT ![<<pi, 0>>].path = path]
           q == [r EXCEPT !.path = paths]
<1>2. Serve(q)
  <2>1. [plan EXCEPT !.pi[pi].state = state, !.path[<<pi, 0>>].path = path] = q
    BY DEF IsPlan, Tables
  <2> QED  BY <1>1, <2>1
<1>3. /\ \A x \in DOMAIN plan.path : x \in Ids \X ({0} \cup Sprints) /\ plan.path[x] \in PathRows
      /\ \A x \in DOMAIN plan.pi : x \in Ids /\ plan.pi[x] \in PiRows
  BY PlanTables
<1>4. /\ DOMAIN rows = DOMAIN plan.pi /\ rows[pi].state = state
      /\ \A x \in DOMAIN rows : rows[x] \in PiRows /\ (x # pi => rows[x] = plan.pi[x])
  BY <1>3 DEF PiRows
<1>5. IsTable(rows, Ids, PiRows)
  BY <1>3, <1>4 DEF IsTable
<1>6. /\ DOMAIN paths = DOMAIN plan.path
      /\ \A x \in DOMAIN paths : /\ paths[x] \in PathRows /\ (x # <<pi, 0>> => paths[x] = plan.path[x])
                                 /\ x = <<pi, 0>> => paths[x].path = path
  BY <1>3 DEF PathRows
<1>7. IsTable(paths, Ids \X ({0} \cup Sprints), PathRows)
  BY <1>3, <1>6 DEF IsTable
<1> HIDE DEF rows, paths
<1>8. r = [table \in Tables |-> r[table]] /\ r.feature = plan.feature /\ r.story = plan.story /\ r.list = plan.list /\ r.pi = rows /\ r.path = plan.path
  BY OneTable DEF IsPlan
<1> HIDE DEF r
<1>9. q = [table \in Tables |-> q[table]] /\ q.feature = plan.feature /\ q.story = plan.story /\ q.list = plan.list /\ q.pi = rows /\ q.path = paths
  BY <1>8, OneTable
<1> HIDE DEF q
<1>10. PathsOnce(plan) => PathsOnce(q)
  <2>1. \A x \in DOMAIN plan.path : \A y \in DOMAIN plan.path : x = y \/ plan.path[x].path # plan.path[y].path \/ plan.path[x].path = Nothing \/ ~ PathsOnce(plan)
    BY <1>3 DEF PathsOnce, PathRows
  <2>2. <<pi, 0>> \in DOMAIN plan.path /\ path # Nothing =>
          path = plan.path[<<pi, 0>>].path \/ \A x \in DOMAIN plan.path : x # <<pi, 0>> => plan.path[x].path # path
    BY <1>1 DEF IterationPathTaken, PathsBut
  <2> QED  BY <1>6, <1>9, <2>1, <2>2 DEF PathsOnce
<1>11. OneStarted(plan) => OneStarted(q)
  BY <1>1, <1>4, <1>9 DEF OneStarted, InProgress, MayStart
<1>12. IsPlan(q) /\ Unlooped(plan, q) /\ Sound(plan, q)
  BY <1>4, <1>5, <1>7, <1>9, <1>10, <1>11, PisEdited
<1> QED  BY <1>2, <1>12 DEF Edit

\* A path table whose rows stay one to a path.
LEMMA PathsChanged ==
  ASSUME IsPlan(plan), NEW paths, DOMAIN paths = DOMAIN plan.path, IsTable(paths, Ids \X ({0} \cup Sprints), PathRows),
         PathsOnce(plan) => \A x, y \in DOMAIN paths : paths[x].path = paths[y].path /\ paths[x].path # Nothing => x = y
  PROVE  LET q == [plan EXCEPT !.path = paths] IN IsPlan(q) /\ Unlooped(plan, q) /\ Sound(plan, q)
<1> DEFINE q == [plan EXCEPT !.path = paths]
<1>1. q = [table \in Tables |-> q[table]] /\ q.feature = plan.feature /\ q.story = plan.story /\ q.list = plan.list /\ q.pi = plan.pi /\ q.path = paths
  BY OneTable DEF IsPlan
<1> HIDE DEF q
<1>2. PathsOnce(plan) => PathsOnce(q)
  BY <1>1 DEF PathsOnce
<1>3. IsPlan(q) /\ Unlooped(plan, q) /\ Sound(plan, q)
  BY <1>1, <1>2, PlanTables, PisEdited DEF OneStarted, InProgress
<1> QED  BY <1>3 DEF q

\* set_iteration_paths: the set has no double and nobody else's path.
LEMMA SetIterationPathsEdits ==
  ASSUME IsPlan(plan), SetIterationPaths
  PROVE  Edit
<1>1. PICK pi \in DOMAIN plan.pi : \E paths \in [SlotsOf(pi) -> Paths \cup {Nothing}] :
    /\ ~ FirstConflictingPath(pi, paths)
    /\ Serve([plan EXCEPT !.path = [x \in DOMAIN @ |-> IF x[1] = pi THEN [path |-> paths[x]] ELSE @[x]]])
  BY DEF SetIterationPaths
<1>2. PICK paths \in [SlotsOf(pi) -> Paths \cup {Nothing}] :
    /\ ~ FirstConflictingPath(pi, paths)
    /\ Serve([plan EXCEPT !.path = [x \in DOMAIN @ |-> IF x[1] = pi THEN [path |-> paths[x]] ELSE @[x]]])
  BY <1>1
<1> DEFINE rows == [x \in DOMAIN plan.path |-> IF x[1] = pi THEN [path |-> paths[x]] ELSE plan.path[x]]
           q == [plan EXCEPT !.path = rows]
<1>3. Serve(q)
  BY <1>2
<1>4. \A x \in DOMAIN plan.path : x \in Ids \X ({0} \cup Sprints) /\ plan.path[x] \in PathRows
  BY PlanTables
<1>5. \A x \in DOMAIN plan.path : x[1] = pi <=> x \in SlotsOf(pi)
  BY <1>4 DEF SlotsOf
<1>6. /\ DOMAIN rows = DOMAIN plan.path
      /\ \A x \in DOMAIN rows : /\ rows[x] \in PathRows /\ (x \notin SlotsOf(pi) => rows[x] = plan.path[x])
                                /\ x \in SlotsOf(pi) => rows[x].path = paths[x]
  BY <1>4, <1>5 DEF PathRows
<1>7. IsTable(rows, Ids \X ({0} \cup Sprints), PathRows)
  BY <1>4, <1>6 DEF IsTable
<1> HIDE DEF rows
<1>8. ASSUME PathsOnce(plan), NEW x \in DOMAIN rows, NEW y \in DOMAIN rows, rows[x].path = rows[y].path, rows[x].path # Nothing
      PROVE  x = y
  <2>1. CASE x \notin SlotsOf(pi) /\ y \notin SlotsOf(pi)
    BY <1>4, <1>6, <1>8, <2>1 DEF PathsOnce, PathRows
  <2>2. CASE x \in SlotsOf(pi) /\ y \in SlotsOf(pi)
    BY <1>2, <1>6, <1>8, <2>2 DEF FirstConflictingPath
  <2>3. \A a \in SlotsOf(pi), b \in DOMAIN plan.path \ SlotsOf(pi) : paths[a] # Nothing => paths[a] # plan.path[b].path
    <3>1. \A a \in SlotsOf(pi) : paths[a] \in Range(paths)
      BY DEF Range
    <3>2. Range(paths) \cap PathsBut(plan, SlotsOf(pi)) = {}
      BY <1>2 DEF FirstConflictingPath
    <3> QED  BY <3>1, <3>2 DEF PathsBut
  <2>4. CASE x \in SlotsOf(pi) /\ y \notin SlotsOf(pi)
    BY <1>6, <1>8, <2>3, <2>4
  <2>5. CASE x \notin SlotsOf(pi) /\ y \in SlotsOf(pi)
    BY <1>6, <1>8, <2>3, <2>5
  <2> QED  BY <2>1, <2>2, <2>4, <2>5
<1>9. IsPlan(q) /\ Unlooped(plan, q) /\ Sound(plan, q)
  BY <1>6, <1>7, <1>8, PathsChanged
<1> QED  BY <1>3, <1>9 DEF Edit

\* update_sprint: a path that is free.
LEMMA UpdateSprintEdits ==
  ASSUME IsPlan(plan), UpdateSprint
  PROVE  Edit
<1>1. PICK x \in DOMAIN plan.path, path \in Paths \cup {Nothing} :
        ~ IterationPathTaken(plan, path, x) /\ Serve([plan EXCEPT !.path[x].path = path])
  BY DEF UpdateSprint
<1> DEFINE rows == [plan.path EXCEPT ![x].path = path]
           q == [plan EXCEPT !.path = rows]
<1>2. Serve(q)
  <2>1. [plan EXCEPT !.path[x].path = path] = q
    BY DEF IsPlan, Tables
  <2> QED  BY <1>1, <2>1
<1>3. \A y \in DOMAIN plan.path : y \in Ids \X ({0} \cup Sprints) /\ plan.path[y] \in PathRows
  BY PlanTables
<1>4. /\ DOMAIN rows = DOMAIN plan.path /\ rows[x].path = path
      /\ \A y \in DOMAIN rows : rows[y] \in PathRows /\ (y # x => rows[y] = plan.path[y])
  BY <1>3 DEF PathRows
<1>5. IsTable(rows, Ids \X ({0} \cup Sprints), PathRows)
  BY <1>3, <1>4 DEF IsTable
<1> HIDE DEF rows
<1>6. PathsOnce(plan) => \A y, z \in DOMAIN rows : rows[y].path = rows[z].path /\ rows[y].path # Nothing => y = z
  <2>1. path # Nothing => \A y \in DOMAIN plan.path : y # x => plan.path[y].path # path
    BY <1>1 DEF IterationPathTaken, PathsBut
  <2> QED  BY <1>3, <1>4, <2>1 DEF PathsOnce, PathRows
<1>7. IsPlan(q) /\ Unlooped(plan, q) /\ Sound(plan, q)
  BY <1>4, <1>5, <1>6, PathsChanged
<1> QED  BY <1>2, <1>7 DEF Edit

\* A PI that is deleted gives its features back to the backlog.
LEMMA DeletePiEdits ==
  ASSUME IsPlan(plan), DeletePi
  PROVE  Edit
<1>1. PICK pi \in DOMAIN plan.pi : Serve(Drop([Drop(plan, "path", SlotsOf(pi)) EXCEPT !.feature = [f \in DOMAIN @ |->
            IF @[f].pi = pi THEN [@[f] EXCEPT !.pi = Nothing] ELSE @[f]]], "pi", {pi}))
  BY DEF DeletePi
<1> DEFINE paths == Without(plan.path, SlotsOf(pi))
           r1 == [plan EXCEPT !.path = paths]
           rows == [f \in DOMAIN plan.feature |-> IF plan.feature[f].pi = pi THEN [plan.feature[f] EXCEPT !.pi = Nothing] ELSE plan.feature[f]]
           r2 == [r1 EXCEPT !.feature = rows]
           pis == Without(plan.pi, {pi})
           q == [r2 EXCEPT !.pi = pis]
<1>2. \A f \in DOMAIN plan.feature : plan.feature[f] \in FeatureRows /\ f \in Ids
  BY PlanTables
<1>3. /\ DOMAIN rows = DOMAIN plan.feature
      /\ \A f \in DOMAIN rows : /\ rows[f] \in FeatureRows /\ rows[f].state = plan.feature[f].state /\ rows[f].uid = plan.feature[f].uid
                                /\ rows[f].origin = plan.feature[f].origin
                                /\ rows[f].pi = Nothing \/ (rows[f].pi = plan.feature[f].pi /\ rows[f].pi # pi)
  BY <1>2 DEF FeatureRows, Refs
<1>4. IsTable(rows, Ids, FeatureRows)
  BY <1>2, <1>3 DEF IsTable
<1>5. Drop(plan, "path", SlotsOf(pi)) = r1
  BY PutOneTable DEF IsPlan
<1>6. /\ IsTable(paths, Ids \X ({0} \cup Sprints), PathRows) /\ DOMAIN paths = DOMAIN plan.path \ SlotsOf(pi)
      /\ \A x \in DOMAIN plan.path \ SlotsOf(pi) : paths[x] = plan.path[x]
  <2>1. IsTable(plan.path, Ids \X ({0} \cup Sprints), PathRows)
    BY PlanTables
  <2> QED  BY <2>1, RowsDropped
<1>7. /\ IsTable(pis, Ids, PiRows) /\ DOMAIN pis = DOMAIN plan.pi \ {pi}
      /\ \A x \in DOMAIN plan.pi \ {pi} : pis[x] = plan.pi[x]
  <2>1. IsTable(plan.pi, Ids, PiRows)
    BY PlanTables
  <2> QED  BY <2>1, RowsDropped
<1> HIDE DEF paths
<1>8. r1 = [table \in Tables |-> r1[table]] /\ r1.feature = plan.feature /\ r1.story = plan.story /\ r1.list = plan.list /\ r1.pi = plan.pi /\ r1.path = paths
  BY OneTable DEF IsPlan
<1>9. [r1 EXCEPT !.feature = [f \in DOMAIN @ |-> IF @[f].pi = pi THEN [@[f] EXCEPT !.pi = Nothing] ELSE @[f]]] = r2
  BY <1>8
<1> HIDE DEF r1, rows
<1>10. r2 = [table \in Tables |-> r2[table]] /\ r2.feature = rows /\ r2.story = plan.story /\ r2.list = plan.list /\ r2.pi = plan.pi /\ r2.path = paths
  BY <1>8, OneTable
<1> HIDE DEF r2
<1>11. Drop(r2, "pi", {pi}) = q
  <2>1. Drop(r2, "pi", {pi}) = [r2 EXCEPT !.pi = Without(r2.pi, {pi})]
    BY <1>10, PutOneTable
  <2> QED  BY <1>10, <2>1
<1>12. Serve(q)
  BY <1>1, <1>5, <1>9, <1>11
<1> HIDE DEF pis
<1>13. q = [table \in Tables |-> q[table]] /\ q.feature = rows /\ q.story = plan.story /\ q.list = plan.list /\ q.pi = pis /\ q.path = paths
  BY <1>10, OneTable
<1> HIDE DEF q
<1>14. Unlooped(plan, q)
  BY <1>3, <1>13 DEF Unlooped
<1>15. IsPlan(q)
  BY <1>4, <1>6, <1>7, <1>13, <1>14, PlanTables, PlanFromTables
<1>16. Stands(plan) => Stands(q)
  BY <1>3, <1>7, <1>13 DEF Stands, IsStateFor, ListOf
<1>17. Dated(plan) => Dated(q)
  BY <1>13 DEF Dated, IsDone
<1>18. UidsApart(plan) => UidsApart(q)
  BY <1>3, <1>13 DEF UidsApart
<1>19. PlacesOnce(plan) => PlacesOnce(q)
  BY <1>13 DEF PlacesOnce
<1>20. PathsOnce(plan) => PathsOnce(q)
  BY <1>6, <1>13 DEF PathsOnce
<1>21. OneStarted(plan) => OneStarted(q)
  BY <1>7, <1>13 DEF OneStarted, InProgress
<1> QED  BY <1>12, <1>14, <1>15, <1>16, <1>17, <1>18, <1>19, <1>20, <1>21, SoundFrom DEF Edit

-----------------------------------------------------------------------------
(* Requests and their commit                                               *)

\* Every request but an import edits the plan or rewrites it.
LEMMA RequestsAreSound ==
  ASSUME IsPlan(plan), StateSteps \/ FeatureSteps \/ BoardSteps \/ StorySteps \/ PiSteps
  PROVE  Edit \/ Rewrite
BY CreateStateEdits, RenameStateEdits, DeleteStateEdits, ReorderStatesEdits, CreateFeatureEdits, UpdateFeatureEdits,
   MoveFeatureEdits, SplitFeatureRewrites, CancelContinuationRewrites, DeleteFeatureRewrites, ClearBacklogRewrites,
   ClearAllFeaturesRewrites, CreatePbiEdits, UpdatePbiEdits, DeletePbiRewrites, CreatePiEdits, UpdatePiEdits,
   SetIterationPathsEdits, UpdateSprintEdits, DeletePiEdits
   DEF StateSteps, FeatureSteps, BoardSteps, StorySteps, PiSteps

FlushedTable(now, was, is) ==
    [id \in (DOMAIN now \ (DOMAIN was \ DOMAIN is)) \cup (DOMAIN is \ DOMAIN was) |->
       IF id \notin DOMAIN is THEN now[id]
       ELSE IF id \notin DOMAIN was THEN is[id]
       ELSE Merged(now[id], was[id], is[id])]

\* The columns of a row are those of its table, and written onto what was read they are the row.
LEMMA RowsMerge ==
  ASSUME NEW Rows \in {FeatureRows, StoryRows, StateRows, PiRows, PathRows}, NEW now \in Rows, NEW was \in Rows, NEW is \in Rows
  PROVE  Merged(now, was, is) \in Rows /\ Merged(was, was, is) = is
<1>1. CASE Rows = FeatureRows
  BY <1>1 DEF Merged, FeatureRows
<1>2. CASE Rows = StoryRows
  BY <1>2 DEF Merged, StoryRows
<1>3. CASE Rows = StateRows
  BY <1>3 DEF Merged, StateRows
<1>4. CASE Rows = PiRows
  BY <1>4 DEF Merged, PiRows
<1>5. CASE Rows = PathRows
  BY <1>5 DEF Merged, PathRows
<1> QED  BY <1>1, <1>2, <1>3, <1>4, <1>5

\* A flush leaves a table of the schema, and the rows it was worked out from become the new ones.
LEMMA TableFlushed ==
  ASSUME NEW Rows \in {FeatureRows, StoryRows, StateRows, PiRows, PathRows}, NEW ids,
         NEW now, IsTable(now, ids, Rows), NEW was, IsTable(was, ids, Rows), NEW is, IsTable(is, ids, Rows)
  PROVE  IsTable(FlushedTable(now, was, is), ids, Rows) /\ FlushedTable(was, was, is) = is
<1>1. \A a, b, c \in Rows : Merged(a, b, c) \in Rows /\ Merged(b, b, c) = c
  BY RowsMerge
<1>2. IsTable(FlushedTable(now, was, is), ids, Rows)
  BY <1>1 DEF IsTable, FlushedTable
<1>3. FlushedTable(was, was, is) = is
  BY <1>1 DEF IsTable, FlushedTable
<1> QED  BY <1>2, <1>3

\* The same of the plan: with nothing committed in between, what a request worked out is what it writes.
LEMMA PlanFlushed ==
  ASSUME NEW now, IsPlan(now), NEW was, IsPlan(was), NEW is, IsPlan(is), Unlooped(was, is)
  PROVE  IsPlan(Flushed(now, was, is)) /\ Flushed(was, was, is) = is
<1> DEFINE q == Flushed(now, was, is)
<1>1. \A a, b, c : Flushed(a, b, c) = [table \in Tables |-> FlushedTable(a[table], b[table], c[table])]
  BY DEF Flushed, FlushedTable
<1>2. Flushed(was, was, is) = is
  <2>1. \A table \in Tables : FlushedTable(was[table], was[table], is[table]) = is[table]
    BY PlanTables, TableFlushed DEF Tables
  <2> QED  BY <1>1, <2>1 DEF IsPlan
<1>3. /\ q = [table \in Tables |-> q[table]]
      /\ q.feature = FlushedTable(now.feature, was.feature, is.feature)
      /\ q.story = FlushedTable(now.story, was.story, is.story)
      /\ q.list = FlushedTable(now.list, was.list, is.list)
      /\ q.pi = FlushedTable(now.pi, was.pi, is.pi)
      /\ q.path = FlushedTable(now.path, was.path, is.path)
  BY <1>1 DEF Tables
<1> HIDE DEF q
<1>4. /\ IsTable(q.feature, Ids, FeatureRows) /\ IsTable(q.story, Ids, StoryRows) /\ IsTable(q.list, Ids, StateRows)
      /\ IsTable(q.pi, Ids, PiRows) /\ IsTable(q.path, Ids \X ({0} \cup Sprints), PathRows)
  <2>1. IsTable(FlushedTable(now.feature, was.feature, is.feature), Ids, FeatureRows)
    BY PlanTables, TableFlushed
  <2>2. IsTable(FlushedTable(now.story, was.story, is.story), Ids, StoryRows)
    BY PlanTables, TableFlushed
  <2>3. IsTable(FlushedTable(now.list, was.list, is.list), Ids, StateRows)
    BY PlanTables, TableFlushed
  <2>4. IsTable(FlushedTable(now.pi, was.pi, is.pi), Ids, PiRows)
    BY PlanTables, TableFlushed
  <2>5. IsTable(FlushedTable(now.path, was.path, is.path), Ids \X ({0} \cup Sprints), PathRows)
    BY PlanTables, TableFlushed
  <2> QED  BY <1>3, <2>1, <2>2, <2>3, <2>4, <2>5
<1>5. Unlooped(now, q)
  <2> SUFFICES ASSUME NEW f \in DOMAIN q.feature
               PROVE  q.feature[f].origin = Nothing \/ (f \in DOMAIN now.feature /\ q.feature[f].origin = now.feature[f].origin)
    BY DEF Unlooped
  <2>1. CASE f \notin DOMAIN is.feature
    BY <1>3, <2>1 DEF FlushedTable
  <2>2. CASE f \in DOMAIN is.feature /\ f \notin DOMAIN was.feature
    BY <1>3, <2>2 DEF FlushedTable, Unlooped
  <2>3. CASE f \in DOMAIN is.feature /\ f \in DOMAIN was.feature
    <3>1. f \in DOMAIN now.feature /\ q.feature[f] = Merged(now.feature[f], was.feature[f], is.feature[f])
      BY <1>3, <2>3 DEF FlushedTable
    <3>2. is.feature[f] \in FeatureRows /\ was.feature[f] \in FeatureRows /\ now.feature[f] \in FeatureRows
      BY <2>3, <3>1, PlanTables
    <3>3. is.feature[f].origin = Nothing \/ is.feature[f].origin = was.feature[f].origin
      BY <2>3 DEF Unlooped
    <3>4. q.feature[f].origin = IF is.feature[f].origin # was.feature[f].origin THEN is.feature[f].origin ELSE now.feature[f].origin
      BY <3>1, <3>2 DEF Merged, FeatureRows
    <3> QED  BY <3>1, <3>3, <3>4
  <2> QED  BY <2>1, <2>2, <2>3
<1>6. IsPlan(q)
  BY <1>3, <1>4, <1>5, PlanFromTables
<1> QED  BY <1>2, <1>6 DEF q

-----------------------------------------------------------------------------
(* Copies                                                                  *)

\* What serialize_project reads is a plan, whichever queries come after another commit; all before it, and it is the plan of then.
LEMMA CopySerialized ==
  ASSUME NEW was, IsPlan(was), NEW now, IsPlan(now), NEW n \in 0 .. 5
  PROVE  IsPlan(Serialized(was, now, n)) /\ Serialized(was, now, 5) = was
<1> DEFINE features == IF n >= 1 THEN was ELSE now
           stories == IF n >= 2 THEN was ELSE now
           pis == IF n >= 3 THEN was ELSE now
           lists == IF n >= 4 THEN was ELSE now
           sprints == IF n >= 5 THEN was ELSE now
           q == Serialized(was, now, n)
<1>1. IsPlan(features) /\ IsPlan(stories) /\ IsPlan(pis) /\ IsPlan(lists) /\ IsPlan(sprints)
  OBVIOUS
<1>2. /\ q = [table \in Tables |-> q[table]]
      /\ q.feature = features.feature /\ q.story = stories.story /\ q.pi = pis.pi /\ q.list = lists.list
      /\ q.path = [x \in {y \in DOMAIN pis.path : y[2] = 0 \/ y \in DOMAIN sprints.path} |->
                    IF x[2] = 0 THEN pis.path[x] ELSE sprints.path[x]]
  BY DEF Serialized, Tables
<1> HIDE DEF q, features, stories, pis, lists, sprints
<1>3. IsTable(q.path, Ids \X ({0} \cup Sprints), PathRows)
  <2>1. IsTable(pis.path, Ids \X ({0} \cup Sprints), PathRows) /\ IsTable(sprints.path, Ids \X ({0} \cup Sprints), PathRows)
    BY <1>1, PlanTables
  <2> QED  BY <1>2, <2>1 DEF IsTable
<1>4. NoLoops(q)
  <2>1. NoLoops(features)
    BY <1>1 DEF IsPlan
  <2> QED  BY <1>2, <2>1 DEF NoLoops
<1>5. IsPlan(q)
  <2>1. IsTable(features.feature, Ids, FeatureRows) /\ IsTable(stories.story, Ids, StoryRows)
        /\ IsTable(lists.list, Ids, StateRows) /\ IsTable(pis.pi, Ids, PiRows)
    BY <1>1, PlanTables
  <2> QED  BY <1>2, <1>3, <1>4, <2>1 DEF IsPlan
<1>6. Serialized(was, now, 5) = was
  <2>1. was.path = [x \in {y \in DOMAIN was.path : y[2] = 0 \/ y \in DOMAIN was.path} |-> IF x[2] = 0 THEN was.path[x] ELSE was.path[x]]
    BY DEF IsPlan, IsTable
  <2>2. was = [feature |-> was.feature, story |-> was.story, pi |-> was.pi, list |-> was.list, path |-> was.path]
    BY DEF IsPlan, Tables
  <2> QED  BY <2>1, <2>2 DEF Serialized
<1> QED  BY <1>5, <1>6 DEF q

\* Taken apart and linked again, features continue what they continued.
LEMMA CopyRebuilt ==
  ASSUME NEW copy, IsPlan(copy)
  PROVE  Rebuilt(copy) = copy
<1> DEFINE bare == [f \in DOMAIN copy.feature |-> [copy.feature[f] EXCEPT !.origin = Nothing]]
           q == [copy EXCEPT !.feature = bare]
           linked == [f \in DOMAIN bare |-> [bare[f] EXCEPT !.origin = copy.feature[f].origin]]
<1>1. linked = copy.feature
  <2>1. \A f \in DOMAIN copy.feature : copy.feature[f] \in FeatureRows
    BY PlanTables
  <2>2. copy.feature = [f \in DOMAIN copy.feature |-> copy.feature[f]]
    BY DEF IsPlan, IsTable
  <2>3. \A f \in DOMAIN copy.feature : [[copy.feature[f] EXCEPT !.origin = Nothing] EXCEPT !.origin = copy.feature[f].origin] = copy.feature[f]
    BY <2>1 DEF FeatureRows
  <2> QED  BY <2>2, <2>3
<1>2. Unlinked(copy) = q
  BY DEF Unlinked
<1> HIDE DEF bare
<1>3. q = [table \in Tables |-> q[table]] /\ q.feature = bare /\ q.story = copy.story /\ q.list = copy.list /\ q.pi = copy.pi /\ q.path = copy.path
  BY OneTable DEF IsPlan
<1>4. Rebuilt(copy) = [q EXCEPT !.feature = linked]
  BY <1>2, <1>3 DEF Rebuilt
<1> HIDE DEF linked, q
<1>5. [q EXCEPT !.feature = linked] = copy
  BY <1>1, <1>3 DEF IsPlan, Tables
<1> QED  BY <1>4, <1>5

\* An export that is whole comes back as it was.
LEMMA CopyRemapped ==
  ASSUME NEW copy, IsPlan(copy)
  PROVE  /\ IsPlan(Remapped(copy))
         /\ Stands(copy) /\ (\A f \in DOMAIN copy.feature : copy.feature[f].origin \in DOMAIN copy.feature \cup {Nothing})
              => Remapped(copy) = copy
<1> DEFINE features == [f \in DOMAIN copy.feature |->
                      [copy.feature[f] EXCEPT !.state = Remap(@, DOMAIN copy.list),
                                              !.pi = Remap(@, DOMAIN copy.pi),
                                              !.origin = Remap(@, DOMAIN copy.feature)]]
           stories == [s \in DOMAIN copy.story |-> [copy.story[s] EXCEPT !.state = Remap(@, DOMAIN copy.list)]]
           q == Remapped(copy)
<1>1. \A f \in DOMAIN copy.feature : f \in Ids /\ copy.feature[f] \in FeatureRows
  BY PlanTables
<1>2. \A s \in DOMAIN copy.story : s \in Ids /\ copy.story[s] \in StoryRows
  BY PlanTables
<1>3. \A x, S : Remap(x, S) \in {x, Nothing}
  BY DEF Remap
<1>4. IsTable(features, Ids, FeatureRows) /\ \A f \in DOMAIN features : f \in DOMAIN copy.feature /\ features[f].origin \in {copy.feature[f].origin, Nothing}
  <2>1. ASSUME NEW f \in DOMAIN copy.feature
        PROVE  features[f] \in FeatureRows /\ features[f].origin \in {copy.feature[f].origin, Nothing}
    <3>2. copy.feature[f].state \in Refs /\ copy.feature[f].pi \in Refs /\ copy.feature[f].origin \in Refs /\ Nothing \in Refs
      BY <1>1 DEF FeatureRows, Refs
    <3> DEFINE a == Remap(copy.feature[f].state, DOMAIN copy.list)
               b == Remap(copy.feature[f].pi, DOMAIN copy.pi)
               c == Remap(copy.feature[f].origin, DOMAIN copy.feature)
    <3>3. a \in Refs /\ b \in Refs /\ c \in Refs /\ c \in {copy.feature[f].origin, Nothing}
      BY <1>3, <3>2
    <3>4. features[f] = [copy.feature[f] EXCEPT !.state = a, !.pi = b, !.origin = c]
      OBVIOUS
    <3> HIDE DEF a, b, c, features
    <3>5. features[f] \in FeatureRows /\ features[f].origin = c
      BY <1>1, <3>3, <3>4 DEF FeatureRows
    <3> QED  BY <3>3, <3>5
  <2> QED  BY <1>1, <2>1 DEF IsTable
<1>5. IsTable(stories, Ids, StoryRows)
  BY <1>2, <1>3 DEF IsTable, StoryRows, Refs
<1>6. ASSUME Stands(copy), \A f \in DOMAIN copy.feature : copy.feature[f].origin \in DOMAIN copy.feature \cup {Nothing}
      PROVE  features = copy.feature /\ stories = copy.story
  <2>1. \A f \in DOMAIN copy.feature :
          /\ Remap(copy.feature[f].state, DOMAIN copy.list) = copy.feature[f].state
          /\ Remap(copy.feature[f].pi, DOMAIN copy.pi) = copy.feature[f].pi
          /\ Remap(copy.feature[f].origin, DOMAIN copy.feature) = copy.feature[f].origin
    BY <1>6 DEF Stands, IsStateFor, ListOf, Remap
  <2>2. \A s \in DOMAIN copy.story : Remap(copy.story[s].state, DOMAIN copy.list) = copy.story[s].state
    BY <1>6 DEF Stands, IsStateFor, ListOf, Remap
  <2>3. copy.feature = [f \in DOMAIN copy.feature |-> copy.feature[f]] /\ copy.story = [s \in DOMAIN copy.story |-> copy.story[s]]
    BY DEF IsPlan, IsTable
  <2>4. \A f \in DOMAIN features : features[f] = copy.feature[f]
    BY <1>1, <2>1 DEF FeatureRows
  <2>5. \A s \in DOMAIN stories : stories[s] = copy.story[s]
    BY <1>2, <2>2 DEF StoryRows
  <2> QED  BY <2>3, <2>4, <2>5
<1>7. /\ q = [table \in Tables |-> q[table]] /\ q.feature = features /\ q.story = stories
      /\ q.list = copy.list /\ q.pi = copy.pi /\ q.path = copy.path
  BY DEF Remapped, IsPlan, Tables
<1> HIDE DEF q, features, stories
<1>8. Unlooped(copy, q)
  BY <1>4, <1>7 DEF Unlooped
<1>9. IsPlan(q)
  BY <1>4, <1>5, <1>7, <1>8, PlanTables, PlanFromTables
<1>10. features = copy.feature /\ stories = copy.story => q = copy
  BY <1>7 DEF IsPlan, Tables
<1> QED  BY <1>6, <1>9, <1>10 DEF q

-----------------------------------------------------------------------------
(* The import: what a row works into                                       *)

IsAcc(acc) ==
    /\ acc = [plan |-> acc.plan, landed |-> acc.landed, spare |-> acc.spare]
    /\ acc.spare = [table \in Tables \ {"path"} |-> acc.spare[table]]
    /\ IsPlan(acc.plan)

\* Ids are left for the rows R of the file that are still to come.
Room(acc, R) == \A table \in {"feature", "story", "list"} :
    /\ acc.spare[table] \subseteq Ids /\ acc.spare[table] \cap DOMAIN acc.plan[table] = {}
    /\ Cardinality(R) <= Cardinality(acc.spare[table])
HasSpare(acc, table) ==
    acc.spare[table] \subseteq Ids /\ acc.spare[table] \cap DOMAIN acc.plan[table] = {} /\ acc.spare[table] # {}

\* From p a file makes q: its business ids are F and S; gone are features that were read and deleted since.
Works(p, q, F, S, gone) ==
    /\ q.pi = p.pi /\ q.path = p.path /\ DOMAIN p.feature \subseteq DOMAIN q.feature
    /\ \A d \in DOMAIN p.list : d \in DOMAIN q.list /\ q.list[d] = p.list[d]
    /\ Stands(p) /\ gone = {} => Stands(q)
    /\ Stands(p) /\ Dated(p) /\ gone = {} => Dated(q)
    /\ PlacesOnce(p) => PlacesOnce(q)
    /\ UidsOf(q.feature) \subseteq UidsOf(p.feature) \cup F
    /\ UidsOf(q.story) \subseteq UidsOf(p.story) \cup S

\* A row that changes nothing.
LEMMA WorksOnItself ==
  ASSUME NEW p, NEW F, NEW S, NEW gone
  PROVE  Works(p, p, F, S, gone)
BY DEF Works

\* One row after the other.
LEMMA WorksOn ==
  ASSUME NEW p, NEW q, NEW r, NEW F, NEW S, NEW gone, Works(p, q, F, S, gone), Works(q, r, F, S, gone)
  PROVE  Works(p, r, F, S, gone)
<1>1. r.pi = p.pi /\ r.path = p.path /\ DOMAIN p.feature \subseteq DOMAIN r.feature
  BY DEF Works
<1>2. \A d \in DOMAIN p.list : d \in DOMAIN r.list /\ r.list[d] = p.list[d]
  BY DEF Works
<1>3. Stands(p) /\ gone = {} => Stands(r)
  BY DEF Works
<1>4. Stands(p) /\ Dated(p) /\ gone = {} => Dated(r)
  BY DEF Works
<1>5. PlacesOnce(p) => PlacesOnce(r)
  BY DEF Works
<1>6. UidsOf(r.feature) \subseteq UidsOf(p.feature) \cup F /\ UidsOf(r.story) \subseteq UidsOf(p.story) \cup S
  BY DEF Works
<1> QED  BY <1>1, <1>2, <1>3, <1>4, <1>5, <1>6 DEF Works

\* The least of some ids is one of them.
LEMMA LeastIsOne ==
  ASSUME NEW S \in SUBSET Ids, S # {}
  PROVE  Least(S) \in S
<1> DEFINE f == [x \in S |-> x]
<1>0. S \subseteq Ids /\ \A x \in S : x \in Int
  BY IdsAreNumbers
<1>1. IsFiniteSet(S) /\ \A x \in S : f[x] \in Int
  BY <1>0, IdsAreNumbers, FS_Subset
<1> HIDE DEF f
<1>2. \E x \in S : \A y \in S : f[x] <= f[y]
  BY <1>1, LeastMember
<1>3. \E x \in S : \A y \in S : x <= y
  BY <1>2 DEF f
<1> QED  BY <1>3 DEF Least

\* While a row is to come an id is left for it.
LEMMA RoomHasSpare ==
  ASSUME NEW acc, NEW R, IsFiniteSet(R), R # {}, Room(acc, R), NEW table \in {"feature", "story", "list"}
  PROVE  HasSpare(acc, table)
<1>1. Cardinality({}) = 0 /\ Cardinality(R) \in Nat /\ Cardinality(R) # 0
  BY FS_EmptySet, FS_CardinalityType
<1>2. Cardinality(R) <= Cardinality(acc.spare[table])
  BY DEF Room
<1>3. acc.spare[table] # {}
  BY <1>1, <1>2
<1> QED  BY <1>3 DEF Room, HasSpare

\* A row takes the least spare id of its table.
LEMMA RowInserted ==
  ASSUME NEW acc, IsAcc(acc), NEW table \in {"feature", "story", "list"}, HasSpare(acc, table), NEW row
  PROVE  LET id == Least(acc.spare[table])
             new == Insert(acc, table, row)
         IN /\ id \in Ids \ DOMAIN acc.plan[table]
            /\ new = [plan |-> new.plan, landed |-> new.landed, spare |-> new.spare]
            /\ new.plan = Put(acc.plan, table, id, row)
            /\ new.landed = acc.landed
            /\ new.spare = [t \in Tables \ {"path"} |-> new.spare[t]]
            /\ new.spare[table] = acc.spare[table] \ {id}
            /\ \A t \in {"feature", "story", "list"} \ {table} : new.spare[t] = acc.spare[t]
<1> DEFINE id == Least(acc.spare[table])
           new == Insert(acc, table, row)
           put == Put(acc.plan, table, id, row)
<1>1. id \in acc.spare[table]
  BY LeastIsOne DEF HasSpare
<1>2. id \in Ids \ DOMAIN acc.plan[table]
  BY <1>1 DEF HasSpare
<1>3. table \in Tables \ {"path"}
  BY DEF Tables
<1>4. new = [plan |-> put, landed |-> acc.landed, spare |-> [acc.spare EXCEPT ![table] = @ \ {id}]]
  <2>1. acc = [plan |-> acc.plan, landed |-> acc.landed, spare |-> acc.spare]
    BY DEF IsAcc
  <2>2. new = [acc EXCEPT !.plan = put, !.spare = [acc.spare EXCEPT ![table] = @ \ {id}]]
    BY DEF Insert
  <2> HIDE DEF id, put, new
  <2> QED  BY <2>1, <2>2
<1> HIDE DEF id, put, new
<1>5. /\ [acc.spare EXCEPT ![table] = @ \ {id}] = [t \in Tables \ {"path"} |-> IF t = table THEN acc.spare[t] \ {id} ELSE acc.spare[t]]
  BY <1>3 DEF IsAcc
<1>6. new.spare = [t \in Tables \ {"path"} |-> IF t = table THEN acc.spare[t] \ {id} ELSE acc.spare[t]]
  BY <1>4, <1>5
<1>7. new.spare[table] = acc.spare[table] \ {id} /\ \A t \in {"feature", "story", "list"} \ {table} : new.spare[t] = acc.spare[t]
  BY <1>3, <1>6 DEF Tables
<1>8. new.spare = [t \in Tables \ {"path"} |-> new.spare[t]]
  BY <1>6
<1> QED  BY <1>2, <1>4, <1>7, <1>8 DEF id, put, new

Took(acc, new, table) ==
    \/ new.spare[table] = acc.spare[table] /\ DOMAIN new.plan[table] = DOMAIN acc.plan[table]
    \/ \E id : new.spare[table] = acc.spare[table] \ {id} /\ DOMAIN new.plan[table] = DOMAIN acc.plan[table] \cup {id}

\* A row takes at most one id of a table: there is room for the others.
LEMMA RoomLeft ==
  ASSUME NEW acc, NEW R, IsFiniteSet(R), Room(acc, R), NEW k \in R, NEW new,
         \A table \in {"feature", "story", "list"} : Took(acc, new, table)
  PROVE  Room(new, R \ {k})
<1> SUFFICES ASSUME NEW table \in {"feature", "story", "list"}
             PROVE  /\ new.spare[table] \subseteq Ids /\ new.spare[table] \cap DOMAIN new.plan[table] = {}
                    /\ Cardinality(R \ {k}) <= Cardinality(new.spare[table])
  BY DEF Room
<1> DEFINE S == acc.spare[table]
<1>1. S \subseteq Ids /\ S \cap DOMAIN acc.plan[table] = {} /\ Cardinality(R) <= Cardinality(S)
  BY DEF Room
<1> HIDE DEF S
<1>2. IsFiniteSet(S)
  BY <1>1, IdsAreNumbers, FS_Subset
<1>3. Cardinality(R \ {k}) = Cardinality(R) - 1 /\ Cardinality(R) \in Nat /\ Cardinality(S) \in Nat
  BY <1>2, FS_RemoveElement, FS_CardinalityType
<1>4. CASE new.spare[table] = S /\ DOMAIN new.plan[table] = DOMAIN acc.plan[table]
  BY <1>1, <1>3, <1>4
<1>5. ASSUME NEW id, new.spare[table] = S \ {id}, DOMAIN new.plan[table] = DOMAIN acc.plan[table] \cup {id}
      PROVE  /\ new.spare[table] \subseteq Ids /\ new.spare[table] \cap DOMAIN new.plan[table] = {}
             /\ Cardinality(R \ {k}) <= Cardinality(new.spare[table])
  <2>1. CASE id \in S
    <3>1. Cardinality(S \ {id}) = Cardinality(S) - 1
      BY <1>2, <2>1, FS_RemoveElement
    <3> QED  BY <1>1, <1>3, <1>5, <3>1
  <2>2. CASE id \notin S
    <3>1. S \ {id} = S
      BY <2>2
    <3>2. new.spare[table] = S /\ S \cap (DOMAIN acc.plan[table] \cup {id}) = {}
      BY <1>1, <1>5, <2>2, <3>1
    <3>3. Cardinality(R \ {k}) <= Cardinality(S)
      BY <1>1, <1>3
    <3> QED  BY <1>1, <1>5, <3>2, <3>3
  <2> QED  BY <2>1, <2>2
<1> QED  BY <1>4, <1>5 DEF S, Took

\* Features that a file brings, or writes to.
LEMMA FeaturesWorked ==
  ASSUME NEW p, IsPlan(p), NEW F, NEW S, NEW gone,
         NEW rows, IsTable(rows, Ids, FeatureRows), DOMAIN p.feature \subseteq DOMAIN rows,
         \A f \in DOMAIN rows : rows[f].origin = Nothing \/ (f \in DOMAIN p.feature /\ rows[f].origin = p.feature[f].origin),
         Stands(p) => \A f \in DOMAIN rows : IsStateFor(p, "feature", rows[f].state) /\ rows[f].pi \in DOMAIN p.pi \cup {Nothing},
         \A f \in DOMAIN rows : rows[f].uid \in UidsOf(p.feature) \cup F \cup {Nothing}
  PROVE  LET q == [p EXCEPT !.feature = rows]
         IN IsPlan(q) /\ Works(p, q, F, S, gone) /\ q.feature = rows /\ q.story = p.story /\ q.list = p.list
<1> DEFINE q == [p EXCEPT !.feature = rows]
<1>1. q = [table \in Tables |-> q[table]] /\ q.feature = rows /\ q.story = p.story /\ q.list = p.list /\ q.pi = p.pi /\ q.path = p.path
  BY OneTable DEF IsPlan
<1> HIDE DEF q
<1>2. IsPlan(q)
  <2>1. Unlooped(p, q)
    BY <1>1 DEF Unlooped
  <2> QED  BY <1>1, <2>1, PlanTables, PlanFromTables
<1>3. Stands(p) => Stands(q)
  BY <1>1 DEF Stands, IsStateFor, ListOf
<1>4. Dated(p) => Dated(q)
  BY <1>1 DEF Dated, IsDone
<1>5. PlacesOnce(p) => PlacesOnce(q)
  BY <1>1 DEF PlacesOnce
<1>6. UidsOf(q.feature) \subseteq UidsOf(p.feature) \cup F /\ UidsOf(q.story) = UidsOf(p.story)
  BY <1>1 DEF UidsOf
<1>7. Works(p, q, F, S, gone)
  BY <1>1, <1>3, <1>4, <1>5, <1>6 DEF Works
<1> QED  BY <1>1, <1>2, <1>7 DEF q

\* Stories that a file brings, or writes to.
LEMMA StoriesWorked ==
  ASSUME NEW p, IsPlan(p), NEW F, NEW S, NEW gone,
         NEW rows, IsTable(rows, Ids, StoryRows),
         Stands(p) /\ gone = {} =>
            \A s \in DOMAIN rows : rows[s].feature \in DOMAIN p.feature /\ IsStateFor(p, rows[s].kind, rows[s].state),
         Dated(p) => \A s \in DOMAIN rows : IsDone(p, rows[s].state) <=> rows[s].date # Nothing,
         \A s \in DOMAIN rows : rows[s].uid \in UidsOf(p.story) \cup S \cup {Nothing}
  PROVE  LET q == [p EXCEPT !.story = rows]
         IN IsPlan(q) /\ Works(p, q, F, S, gone) /\ q.feature = p.feature /\ q.story = rows /\ q.list = p.list
<1> DEFINE q == [p EXCEPT !.story = rows]
<1>1. q = [table \in Tables |-> q[table]] /\ q.feature = p.feature /\ q.story = rows /\ q.list = p.list /\ q.pi = p.pi /\ q.path = p.path
  BY OneTable DEF IsPlan
<1> HIDE DEF q
<1>2. IsPlan(q)
  <2>1. Unlooped(p, q)
    BY <1>1 DEF Unlooped
  <2> QED  BY <1>1, <2>1, PlanTables, PlanFromTables
<1>3. Stands(p) /\ gone = {} => Stands(q)
  BY <1>1 DEF Stands, IsStateFor, ListOf
<1>4. Dated(p) => Dated(q)
  BY <1>1 DEF Dated, IsDone
<1>5. PlacesOnce(p) => PlacesOnce(q)
  BY <1>1 DEF PlacesOnce
<1>6. UidsOf(q.feature) = UidsOf(p.feature) /\ UidsOf(q.story) \subseteq UidsOf(p.story) \cup S
  BY <1>1 DEF UidsOf
<1>7. Works(p, q, F, S, gone)
  BY <1>1, <1>3, <1>4, <1>5, <1>6 DEF Works
<1> QED  BY <1>1, <1>2, <1>7 DEF q

\* The State that a cell names is there.
Found(p, file, type, value) == file.stateColumn /\ value # Nothing => FindState(p, type, value) # {}

\* A State that a cell names is there afterwards.
LEMMA StateIsThere ==
  ASSUME NEW acc, IsAcc(acc), HasSpare(acc, "list"), NEW file,
         NEW type \in ItemTypes, NEW value \in Values \cup {Nothing}, NEW F, NEW S, NEW gone
  PROVE  LET new == WithState(acc, file, type, value)
         IN /\ IsAcc(new) /\ Works(acc.plan, new.plan, F, S, gone) /\ new.landed = acc.landed
            /\ new.plan.feature = acc.plan.feature /\ new.plan.story = acc.plan.story
            /\ new.spare.feature = acc.spare.feature /\ new.spare.story = acc.spare.story
            /\ Took(acc, new, "list")
            /\ Found(new.plan, file, type, value)
<1> DEFINE new == WithState(acc, file, type, value)
<1>1. CASE ~ file.stateColumn \/ value = Nothing \/ FindState(acc.plan, type, value) # {}
  <2>1. new = acc
    BY <1>1 DEF WithState
  <2> QED  BY <1>1, <2>1, WorksOnItself DEF Took, Found
<1>2. CASE file.stateColumn /\ value # Nothing /\ FindState(acc.plan, type, value) = {}
  <2> DEFINE id == Least(acc.spare["list"])
             row == NewState(acc.plan, type, value, FALSE)
             rows == With(acc.plan.list, id, row)
             q == [acc.plan EXCEPT !.list = rows]
  <2>0. IsPlan(acc.plan)
    BY DEF IsAcc
  <2>1. new = Insert(acc, "list", row)
    BY <1>2 DEF WithState
  <2>2. /\ id \in Ids \ DOMAIN acc.plan.list
        /\ new = [plan |-> new.plan, landed |-> new.landed, spare |-> new.spare]
        /\ new.plan = Put(acc.plan, "list", id, row)
        /\ new.landed = acc.landed
        /\ new.spare = [t \in Tables \ {"path"} |-> new.spare[t]]
        /\ new.spare.list = acc.spare.list \ {id}
        /\ new.spare.feature = acc.spare.feature /\ new.spare.story = acc.spare.story
    <3> HIDE DEF row, new
    <3> QED  BY <2>1, RowInserted
  <2> HIDE DEF new
  <2>3. IsTable(rows, Ids, StateRows) /\ (PlacesOnce(acc.plan) => PlacesOnce(q))
    <3>1. FALSE \in BOOLEAN /\ value \in Values
      BY <1>2
    <3> QED  BY <2>0, <2>2, <3>1, StateAdded
  <2>4. row.type = type /\ row.value = value
    BY DEF NewState
  <2> HIDE DEF row
  <2>5. DOMAIN rows = DOMAIN acc.plan.list \cup {id} /\ rows[id] = row /\ \A d \in DOMAIN acc.plan.list : rows[d] = acc.plan.list[d]
    BY <2>2 DEF With
  <2>6. new.plan = q
    <3>1. acc.plan = [table \in Tables |-> acc.plan[table]]
      BY <2>0 DEF IsPlan
    <3>2. Put(acc.plan, "list", id, row) = q
      BY <3>1 DEF Put, Tables
    <3> HIDE DEF q
    <3> QED  BY <2>2, <3>2
  <2> HIDE DEF rows
  <2>7. q = [table \in Tables |-> q[table]] /\ q.feature = acc.plan.feature /\ q.story = acc.plan.story /\ q.list = rows /\ q.pi = acc.plan.pi /\ q.path = acc.plan.path
    BY <2>0, OneTable DEF IsPlan
  <2> HIDE DEF q, id
  <2>8. IsPlan(q) /\ Sound(acc.plan, q)
    BY <2>0, <2>3, <2>5, <2>7, ListEdited
  <2>9. Works(acc.plan, q, F, S, gone)
    <3>1. DoneKept(acc.plan, q)
      BY <2>5, <2>7 DEF DoneKept
    <3> QED  BY <2>3, <2>5, <2>7, <2>8, <3>1 DEF Works, Sound
  <2>10. Found(q, file, type, value)
    BY <2>4, <2>5, <2>7 DEF Found, FindState, ListOf
  <2>11. IsAcc(new)
    BY <2>2, <2>6, <2>8 DEF IsAcc
  <2>12. Took(acc, new, "list")
    BY <2>2, <2>5, <2>6, <2>7 DEF Took
  <2> QED  BY <2>2, <2>6, <2>7, <2>9, <2>10, <2>11, <2>12 DEF new
<1> QED  BY <1>1, <1>2

\* The State of a row is one of its kind's list, or what the file leaves.
LEMMA RowStateStands ==
  ASSUME NEW acc, IsAcc(acc), NEW file, NEW type \in ItemTypes, NEW value, NEW old \in Refs,
         Found(acc.plan, file, type, value)
  PROVE  /\ RowState(acc, file, type, value, old) \in Refs
         /\ IsStateFor(acc.plan, type, old) => IsStateFor(acc.plan, type, RowState(acc, file, type, value, old))
<1>1. CASE ~ file.stateColumn
  BY <1>1 DEF RowState
<1>2. CASE file.stateColumn /\ value = Nothing
  BY <1>2 DEF RowState, Named, IsStateFor, Refs
<1>3. CASE file.stateColumn /\ value # Nothing
  <2> DEFINE d == CHOOSE d \in FindState(acc.plan, type, value) : TRUE
  <2>1. d \in FindState(acc.plan, type, value)
    BY <1>3 DEF Found
  <2>2. RowState(acc, file, type, value, old) = d
    BY <1>3 DEF RowState, Named
  <2> HIDE DEF d
  <2> QED  BY <2>1, <2>2, PlanTables DEF FindState, ListOf, IsStateFor, Refs, IsAcc
<1> QED  BY <1>1, <1>2, <1>3

\* Every feature has a leaf: none continues itself, however far.
LEMMA LeafIsThere ==
  ASSUME NEW p, IsPlan(p), NEW f \in DOMAIN p.feature, NEW preferred
  PROVE  NewestLeaf(p, f, preferred) \in DOMAIN p.feature /\ NewestLeaf(p, f, preferred) \in Members(p, f)
<1> DEFINE continued == {g \in DOMAIN p.feature : p.feature[g].origin # Nothing}
           chains == {chain \in SUBSET continued : \A g \in chain : p.feature[g].origin \in chain \cup {f}}
           D == {f} \cup Descendants(p, {f})
<1>0. Nothing \notin DOMAIN p.feature
  BY NothingIsNoId, PlanTables
<1>1. Descendants(p, {f}) = (UNION chains) \ {f}
  BY DEF Descendants
<1>2. D \subseteq DOMAIN p.feature /\ D # {}
  BY <1>1
<1>3. PICK l \in D : \A n \in D : p.feature[n].origin # l
  BY <1>2 DEF IsPlan, NoLoops
<1>4. ASSUME NEW n \in DOMAIN p.feature, p.feature[n].origin = l
      PROVE  FALSE
  <2>1. n \notin D /\ n \in continued
    BY <1>0, <1>2, <1>3, <1>4
  <2>2. PICK chain \in SUBSET continued : (\A g \in chain : p.feature[g].origin \in chain \cup {f}) /\ l \in chain \cup {f}
    <3>1. CASE l = f
      <4>1. {} \in SUBSET continued /\ \A g \in {} : p.feature[g].origin \in {} \cup {f}
        OBVIOUS
      <4> QED  BY <3>1, <4>1
    <3>2. CASE l \in UNION chains
      BY <3>2
    <3> QED  BY <1>1, <3>1, <3>2
  <2>3. chain \cup {n} \in chains
    BY <1>4, <2>1, <2>2
  <2>4. n \in UNION chains /\ n # f
    BY <2>1, <2>3
  <2> QED  BY <1>1, <2>1, <2>4
<1>5. l \in Leaves(p, f)
  BY <1>3, <1>4 DEF Leaves
<1>6. NewestLeaf(p, f, preferred) \in Leaves(p, f)
  BY <1>5 DEF NewestLeaf
<1> QED  BY <1>2, <1>6 DEF Leaves, Members

\* Features of the file that landed, and those it was matched with.
Landed(acc, gone) ==
    /\ acc.landed \in Seq(FileRows \X Ids)
    /\ gone = {} => \A i \in DOMAIN acc.landed : acc.landed[i][2] \in DOMAIN acc.plan.feature
Matched(p, maps, gone) == \A uid \in DOMAIN maps.feature :
    maps.feature[uid] \in Ids /\ (gone = {} => maps.feature[uid] \in DOMAIN p.feature)

\* One more feature of the file is noted as landed.
LEMMA LandsMore ==
  ASSUME NEW acc, IsAcc(acc), NEW gone, Landed(acc, gone), NEW row \in FileRows, NEW f \in Ids
  PROVE  LET new == Lands(acc, row, f)
         IN /\ IsAcc(new) /\ new.plan = acc.plan /\ new.spare = acc.spare
            /\ new.landed \in Seq(FileRows \X Ids)
            /\ \A i \in DOMAIN new.landed : new.landed[i][2] = f \/ \E j \in DOMAIN acc.landed : new.landed[i] = acc.landed[j]
<1> DEFINE more == Append(acc.landed, <<row, f>>)
           new == Lands(acc, row, f)
<1>1. new = [plan |-> acc.plan, landed |-> more, spare |-> acc.spare]
  <2>1. acc = [plan |-> acc.plan, landed |-> acc.landed, spare |-> acc.spare]
    BY DEF IsAcc
  <2>2. new = [acc EXCEPT !.landed = more]
    BY DEF Lands
  <2> HIDE DEF more, new
  <2> QED  BY <2>1, <2>2
<1>2. IsAcc(new) /\ new.plan = acc.plan /\ new.spare = acc.spare /\ new.landed = more
  <2> HIDE DEF new, more
  <2>1. new.plan = acc.plan /\ new.spare = acc.spare /\ new.landed = more /\ new = [plan |-> new.plan, landed |-> new.landed, spare |-> new.spare]
    BY <1>1
  <2> QED  BY <2>1 DEF IsAcc
<1>3. acc.landed \in Seq(FileRows \X Ids)
  BY DEF Landed
<1>4. more \in Seq(FileRows \X Ids)
  BY <1>3
<1>5. \A i \in DOMAIN more : more[i] = <<row, f>> \/ (i \in DOMAIN acc.landed /\ more[i] = acc.landed[i])
  BY <1>3
<1>6. \A i \in DOMAIN more : more[i][2] = f \/ \E j \in DOMAIN acc.landed : more[i] = acc.landed[j]
  <2> HIDE DEF more
  <2> QED  BY <1>5
<1> HIDE DEF new, more
<1> QED  BY <1>2, <1>4, <1>6 DEF new

\* A feature of the file is inserted, on no board and continuing none.
LEMMA FeatureInserted ==
  ASSUME NEW acc, IsAcc(acc), HasSpare(acc, "feature"), NEW F, NEW S, NEW gone,
         NEW row \in FeatureRows, row.uid \in F \cup {Nothing}, row.origin = Nothing, row.pi = Nothing,
         IsStateFor(acc.plan, "feature", row.state)
  PROVE  LET new == Insert(acc, "feature", row)
             id == Least(acc.spare.feature)
         IN /\ IsAcc(new) /\ Works(acc.plan, new.plan, F, S, gone) /\ new.landed = acc.landed
            /\ new.plan.story = acc.plan.story /\ new.plan.list = acc.plan.list
            /\ new.spare.story = acc.spare.story /\ new.spare.list = acc.spare.list
            /\ Took(acc, new, "feature")
            /\ id \in Ids /\ id \in DOMAIN new.plan.feature /\ new.plan.feature[id] = row
<1> DEFINE new == Insert(acc, "feature", row)
           id == Least(acc.spare["feature"])
           rows == With(acc.plan.feature, id, row)
           q == [acc.plan EXCEPT !.feature = rows]
<1>0. IsPlan(acc.plan)
  BY DEF IsAcc
<1>1. acc.plan = [table \in Tables |-> acc.plan[table]]
  BY <1>0 DEF IsPlan
<1>2. /\ id \in Ids \ DOMAIN acc.plan.feature
      /\ new = [plan |-> new.plan, landed |-> new.landed, spare |-> new.spare]
      /\ new.plan = Put(acc.plan, "feature", id, row)
      /\ new.landed = acc.landed
      /\ new.spare = [t \in Tables \ {"path"} |-> new.spare[t]]
      /\ new.spare.feature = acc.spare.feature \ {id}
      /\ new.spare.list = acc.spare.list /\ new.spare.story = acc.spare.story
  <2> HIDE DEF new
  <2> QED  BY RowInserted DEF new
<1> HIDE DEF new
<1>3. new.plan = q
  <2>1. Put(acc.plan, "feature", id, row) = q
    BY <1>1 DEF Put, Tables
  <2> QED  BY <1>2, <2>1
<1> HIDE DEF id
<1>4. IsTable(rows, Ids, FeatureRows) /\ DOMAIN rows = DOMAIN acc.plan.feature \cup {id}
      /\ rows[id] = row /\ \A x \in DOMAIN acc.plan.feature : rows[x] = acc.plan.feature[x]
  <2>1. IsTable(acc.plan.feature, Ids, FeatureRows) /\ id \in Ids /\ id \notin DOMAIN acc.plan.feature /\ row \in FeatureRows
    BY <1>0, <1>2, PlanTables
  <2> DEFINE old == acc.plan.feature
  <2>4. IsTable(old, Ids, FeatureRows) /\ id \in Ids /\ row \in FeatureRows /\ rows = With(old, id, row)
    BY <2>1
  <2> HIDE DEF old, rows
  <2>5. IsTable(With(old, id, row), Ids, FeatureRows) /\ DOMAIN With(old, id, row) = DOMAIN old \cup {id}
    BY <2>4 DEF IsTable, With
  <2>2. IsTable(rows, Ids, FeatureRows) /\ DOMAIN rows = DOMAIN acc.plan.feature \cup {id}
    BY <2>4, <2>5 DEF old
  <2> USE DEF rows
  <2>3. rows[id] = row /\ \A x \in DOMAIN acc.plan.feature : rows[x] = acc.plan.feature[x]
    BY <2>1 DEF With
  <2> QED  BY <2>2, <2>3
<1> HIDE DEF rows
<1>5. IsPlan(q) /\ Works(acc.plan, q, F, S, gone) /\ q.feature = rows /\ q.story = acc.plan.story /\ q.list = acc.plan.list
  <2>1. \A f \in DOMAIN rows : rows[f].origin = Nothing \/ (f \in DOMAIN acc.plan.feature /\ rows[f].origin = acc.plan.feature[f].origin)
    BY <1>4
  <2>2. Stands(acc.plan) => \A f \in DOMAIN rows : IsStateFor(acc.plan, "feature", rows[f].state) /\ rows[f].pi \in DOMAIN acc.plan.pi \cup {Nothing}
    BY <1>4 DEF Stands
  <2>3. \A f \in DOMAIN rows : rows[f].uid \in UidsOf(acc.plan.feature) \cup F \cup {Nothing}
    BY <1>4 DEF UidsOf
  <2>4. DOMAIN acc.plan.feature \subseteq DOMAIN rows
    BY <1>4
  <2> HIDE DEF q
  <2> QED  BY <1>0, <1>4, <2>1, <2>2, <2>3, <2>4, FeaturesWorked DEF q
<1> HIDE DEF q
<1>6. IsAcc(new)
  BY <1>2, <1>3, <1>5 DEF IsAcc
<1>7. Took(acc, new, "feature")
  BY <1>2, <1>3, <1>4, <1>5 DEF Took
<1> QED  BY <1>2, <1>3, <1>4, <1>5, <1>6, <1>7 DEF new, id

\* What is so of the plan when a feature came in.
FeatureIn(acc, new, F, S, gone) ==
    /\ IsAcc(new) /\ Works(acc.plan, new.plan, F, S, gone) /\ new.landed = acc.landed
    /\ new.plan.story = acc.plan.story /\ new.plan.list = acc.plan.list
    /\ new.spare.story = acc.spare.story /\ new.spare.list = acc.spare.list
    /\ Took(acc, new, "feature")
    /\ Least(acc.spare.feature) \in DOMAIN new.plan.feature

\* The same, as one fact.
LEMMA FeatureComesIn ==
  ASSUME NEW acc, IsAcc(acc), HasSpare(acc, "feature"), NEW F, NEW S, NEW gone,
         NEW row \in FeatureRows, row.uid \in F \cup {Nothing}, row.origin = Nothing, row.pi = Nothing,
         IsStateFor(acc.plan, "feature", row.state)
  PROVE  FeatureIn(acc, Insert(acc, "feature", row), F, S, gone)
<1> DEFINE new == Insert(acc, "feature", row)
<1>1. /\ IsAcc(new) /\ Works(acc.plan, new.plan, F, S, gone) /\ new.landed = acc.landed
      /\ new.plan.story = acc.plan.story /\ new.plan.list = acc.plan.list
      /\ new.spare.story = acc.spare.story /\ new.spare.list = acc.spare.list
      /\ Took(acc, new, "feature")
      /\ Least(acc.spare.feature) \in DOMAIN new.plan.feature
  BY FeatureInserted
<1> HIDE DEF new
<1>2. FeatureIn(acc, new, F, S, gone)
  BY <1>1 DEF FeatureIn
<1> QED  BY <1>2 DEF new

\* What writing to features that are there leaves as it is.
SameButFeatures(acc, new) ==
    /\ new.landed = acc.landed /\ new.spare = acc.spare
    /\ DOMAIN new.plan.feature = DOMAIN acc.plan.feature /\ new.plan.story = acc.plan.story /\ new.plan.list = acc.plan.list

\* A feature of the file is written to, with its lineage: States and the placeholder's flag only.
LEMMA FeatureUpdated ==
  ASSUME NEW acc, IsAcc(acc), NEW file, NEW row \in FileRows, NEW f, NEW F, NEW S, NEW gone,
         Found(acc.plan, file, "feature", row.state)
  PROVE  LET new == Updated(acc, file, row, f)
         IN IsAcc(new) /\ Works(acc.plan, new.plan, F, S, gone) /\ SameButFeatures(acc, new)
<1> DEFINE p == acc.plan
           members == LineageMembers(acc.plan, f)
           rows == [m \in DOMAIN p.feature |->
                      IF m \in members THEN [p.feature[m] EXCEPT !.unassigned = FALSE, !.state = RowState(acc, file, "feature", row.state, @)]
                      ELSE p.feature[m]]
           q == [p EXCEPT !.feature = rows]
           new == Updated(acc, file, row, f)
<1>1. CASE f \notin DOMAIN acc.plan.feature
  BY <1>1, WorksOnItself DEF Updated, SameButFeatures
<1>2. CASE f \in DOMAIN acc.plan.feature
  <2>0. IsPlan(p)
    BY DEF IsAcc
  <2>1. new = [acc EXCEPT !.plan = q]
    <3>1. new = [acc EXCEPT !.plan.feature = rows]
      BY <1>2 DEF Updated
    <3> HIDE DEF rows, new
    <3>2. acc = [plan |-> acc.plan, landed |-> acc.landed, spare |-> acc.spare]
      BY DEF IsAcc
    <3> QED  BY <3>1, <3>2
  <2>2. \A m \in DOMAIN p.feature : m \in Ids /\ p.feature[m] \in FeatureRows
    BY <2>0, PlanTables
  <2>3. ASSUME NEW m \in DOMAIN p.feature
        PROVE  /\ rows[m] \in FeatureRows /\ rows[m].origin = p.feature[m].origin /\ rows[m].uid = p.feature[m].uid /\ rows[m].pi = p.feature[m].pi
               /\ IsStateFor(p, "feature", p.feature[m].state) => IsStateFor(p, "feature", rows[m].state)
    <3> DEFINE state == RowState(acc, file, "feature", row.state, p.feature[m].state)
    <3>1. p.feature[m] \in FeatureRows /\ p.feature[m].state \in Refs
      BY <2>2 DEF FeatureRows
    <3>2. "feature" \in ItemTypes
      BY DEF ItemTypes
    <3>3. state \in Refs /\ (IsStateFor(p, "feature", p.feature[m].state) => IsStateFor(p, "feature", state))
      BY <3>1, <3>2, RowStateStands
    <3>4. rows[m] = p.feature[m] \/ rows[m] = [p.feature[m] EXCEPT !.unassigned = FALSE, !.state = state]
      OBVIOUS
    <3> HIDE DEF state, rows, p
    <3>5. CASE rows[m] = p.feature[m]
      BY <3>1, <3>5
    <3>6. CASE rows[m] = [p.feature[m] EXCEPT !.unassigned = FALSE, !.state = state]
      <4>1. /\ rows[m] \in FeatureRows /\ rows[m].origin = p.feature[m].origin /\ rows[m].uid = p.feature[m].uid
            /\ rows[m].pi = p.feature[m].pi /\ rows[m].state = state
        BY <3>1, <3>3, <3>6 DEF FeatureRows
      <4> QED  BY <3>3, <4>1
    <3> QED  BY <3>4, <3>5, <3>6
  <2>4. DOMAIN rows = DOMAIN p.feature /\ IsTable(rows, Ids, FeatureRows)
    <3>1. DOMAIN rows = DOMAIN p.feature /\ rows = [m \in DOMAIN rows |-> rows[m]]
      OBVIOUS
    <3> HIDE DEF rows, p
    <3> QED  BY <2>2, <2>3, <3>1 DEF IsTable
  <2> HIDE DEF rows, p
  <2>5. IsPlan(q) /\ Works(p, q, F, S, gone) /\ q.feature = rows /\ q.story = p.story /\ q.list = p.list
    <3>1. \A m \in DOMAIN rows : rows[m].uid \in UidsOf(p.feature) \cup F \cup {Nothing}
      BY <2>3, <2>4 DEF UidsOf
    <3>2. Stands(p) => \A m \in DOMAIN rows : IsStateFor(p, "feature", rows[m].state) /\ rows[m].pi \in DOMAIN p.pi \cup {Nothing}
      BY <2>3, <2>4 DEF Stands
    <3>3. \A m \in DOMAIN rows : rows[m].origin = Nothing \/ (m \in DOMAIN p.feature /\ rows[m].origin = p.feature[m].origin)
      BY <2>3, <2>4
    <3>4. DOMAIN p.feature \subseteq DOMAIN rows
      BY <2>4
    <3> HIDE DEF q
    <3> QED  BY <2>0, <2>4, <3>1, <3>2, <3>3, <3>4, FeaturesWorked DEF q
  <2> HIDE DEF q, new
  <2>6. new.plan = q /\ new.landed = acc.landed /\ new.spare = acc.spare /\ IsAcc(new)
    <3>1. new = [plan |-> q, landed |-> acc.landed, spare |-> acc.spare]
      BY <2>1 DEF IsAcc
    <3> QED  BY <2>5, <3>1 DEF IsAcc
  <2>7. SameButFeatures(acc, new)
    BY <2>4, <2>5, <2>6 DEF SameButFeatures, p
  <2> QED  BY <2>5, <2>6, <2>7 DEF new, p
<1> QED  BY <1>1, <1>2

\* What a step of the import's loops keeps.
Goes(p, acc, maps, R, F, S, gone) ==
    IsAcc(acc) /\ Room(acc, R) /\ Landed(acc, gone) /\ Matched(acc.plan, maps, gone) /\ Works(p, acc.plan, F, S, gone)

\* No row of a file deletes a feature: those matched and those landed stay.
LEMMA MatchedStays ==
  ASSUME NEW p, NEW q, NEW maps, NEW gone, NEW F, NEW S, Matched(p, maps, gone), Works(p, q, F, S, gone)
  PROVE  Matched(q, maps, gone)
BY DEF Matched, Works

\* And those that landed.
LEMMA LandedStays ==
  ASSUME NEW acc, NEW new, NEW gone, NEW F, NEW S, Landed(acc, gone), new.landed = acc.landed, Works(acc.plan, new.plan, F, S, gone)
  PROVE  Landed(new, gone)
BY DEF Landed, Works

\* _upsert_one_feature, after its State was found or made.
LEMMA FeatureRowGoes ==
  ASSUME NEW p, NEW acc, NEW maps, NEW R, IsFiniteSet(R), NEW F, NEW S, NEW gone, Goes(p, acc, maps, R, F, S, gone),
         NEW k \in R, NEW file, NEW row \in FileRows, row.uid \in F \cup {Nothing}
  PROVE  Goes(p, UpsertFeature(WithState(acc, file, "feature", row.state), file, row, maps), maps, R \ {k}, F, S, gone)
<1> DEFINE mid == WithState(acc, file, "feature", row.state)
           new == UpsertFeature(mid, file, row, maps)
<1>1. IsAcc(acc) /\ Room(acc, R) /\ Landed(acc, gone) /\ Matched(acc.plan, maps, gone) /\ Works(p, acc.plan, F, S, gone)
  BY DEF Goes
<1>0. HasSpare(acc, "list") /\ HasSpare(acc, "feature")
  BY <1>1, RoomHasSpare
<1>2. row.uid \in BusinessIds /\ row.state \in Values \cup {Nothing} /\ "feature" \in ItemTypes
  BY DEF FileRows, ItemTypes
<1>3. /\ IsAcc(mid) /\ Works(acc.plan, mid.plan, F, S, gone) /\ mid.landed = acc.landed
      /\ mid.plan.feature = acc.plan.feature /\ mid.plan.story = acc.plan.story
      /\ mid.spare.feature = acc.spare.feature /\ mid.spare.story = acc.spare.story
      /\ Took(acc, mid, "list")
      /\ Found(mid.plan, file, "feature", row.state)
  BY <1>0, <1>1, <1>2, StateIsThere
<1> HIDE DEF mid
<1>4. Landed(mid, gone) /\ Matched(mid.plan, maps, gone)
  BY <1>1, <1>3, LandedStays, MatchedStays
<1>5. IsFiniteSet(R \ {k}) /\ Room(mid, R \ {k})
  <2>1. \A table \in {"feature", "story", "list"} : Took(acc, mid, table)
    BY <1>3 DEF Took
  <2> QED  BY <1>1, <2>1, RoomLeft, FS_RemoveElement
<1>6. CASE row.uid \in DOMAIN maps.feature
  <2> DEFINE f == maps.feature[row.uid]
             more == Lands(mid, row, f)
  <2>1. f \in Ids /\ (gone = {} => f \in DOMAIN mid.plan.feature)
    BY <1>4, <1>6 DEF Matched
  <2>2. new = Updated(more, file, row, f)
    BY <1>6 DEF UpsertFeature
  <2> HIDE DEF f, new
  <2>3. /\ IsAcc(more) /\ more.plan = mid.plan /\ more.spare = mid.spare /\ more.landed \in Seq(FileRows \X Ids)
        /\ \A i \in DOMAIN more.landed : more.landed[i][2] = f \/ \E j \in DOMAIN mid.landed : more.landed[i] = mid.landed[j]
    BY <1>3, <1>4, <2>1, LandsMore
  <2> HIDE DEF more
  <2>4. Landed(more, gone)
    BY <1>4, <2>1, <2>3 DEF Landed
  <2>5. /\ IsAcc(new) /\ Works(mid.plan, new.plan, F, S, gone) /\ new.landed = more.landed /\ new.spare = mid.spare
        /\ DOMAIN new.plan.feature = DOMAIN mid.plan.feature /\ new.plan.story = mid.plan.story /\ new.plan.list = mid.plan.list
    <3>1. Found(more.plan, file, "feature", row.state)
      BY <1>3, <2>3
    <3>2. IsAcc(more)
      BY <2>3
    <3>3. /\ IsAcc(new) /\ Works(more.plan, new.plan, F, S, gone) /\ new.landed = more.landed /\ new.spare = more.spare
          /\ DOMAIN new.plan.feature = DOMAIN more.plan.feature /\ new.plan.story = more.plan.story /\ new.plan.list = more.plan.list
      <4>0. row \in FileRows /\ Found(more.plan, file, "feature", row.state) /\ IsAcc(more)
        BY <3>1, <3>2
      <4>1. IsAcc(Updated(more, file, row, f))
        BY <4>0, FeatureUpdated
      <4>2. Works(more.plan, Updated(more, file, row, f).plan, F, S, gone)
        BY <4>0, FeatureUpdated
      <4>3. SameButFeatures(more, Updated(more, file, row, f))
        BY <4>0, FeatureUpdated
      <4> QED  BY <2>2, <4>1, <4>2, <4>3 DEF SameButFeatures
    <3> QED  BY <2>3, <3>3
  <2>6. Room(new, R \ {k})
    BY <1>5, <2>5 DEF Room
  <2>7. Landed(new, gone)
    BY <2>3, <2>4, <2>5, LandedStays
  <2>8. Works(p, new.plan, F, S, gone) /\ Matched(new.plan, maps, gone)
    <3>1. Works(p, mid.plan, F, S, gone)
      BY <1>1, <1>3, WorksOn
    <3> QED  BY <1>4, <2>5, <3>1, WorksOn, MatchedStays
  <2>9. Goes(p, new, maps, R \ {k}, F, S, gone)
    BY <2>5, <2>6, <2>7, <2>8 DEF Goes
  <2> QED  BY <2>9 DEF new, mid
<1>7. CASE row.uid \notin DOMAIN maps.feature
  <2> DEFINE id == Least(mid.spare.feature)
             more == Lands(mid, row, id)
             state == RowState(mid, file, "feature", row.state, Nothing)
             feature == NewFeature(row.uid, state)
  <2>1. new = Insert(more, "feature", feature)
    BY <1>7 DEF UpsertFeature
  <2> HIDE DEF new
  <2>2. state \in Refs /\ IsStateFor(mid.plan, "feature", state)
    <3>1. Nothing \in Refs /\ IsStateFor(mid.plan, "feature", Nothing)
      BY DEF Refs, IsStateFor
    <3> QED  BY <1>2, <1>3, <3>1, RowStateStands
  <2> HIDE DEF state
  <2>3. feature \in FeatureRows /\ feature.uid = row.uid /\ feature.origin = Nothing /\ feature.pi = Nothing /\ feature.state = state
    BY <1>2, <2>2 DEF NewFeature, FeatureRows, Refs
  <2> HIDE DEF feature
  <2>4. id \in Ids
    <3>1. mid.spare.feature \in SUBSET Ids /\ mid.spare.feature # {}
      BY <1>0, <1>3 DEF HasSpare
    <3> QED  BY <3>1, LeastIsOne
  <2> HIDE DEF id
  <2>5. /\ IsAcc(more) /\ more.plan = mid.plan /\ more.spare = mid.spare /\ more.landed \in Seq(FileRows \X Ids)
        /\ \A i \in DOMAIN more.landed : more.landed[i][2] = id \/ \E j \in DOMAIN mid.landed : more.landed[i] = mid.landed[j]
    BY <1>3, <1>4, <2>4, LandsMore
  <2> HIDE DEF more
  <2>6. HasSpare(more, "feature")
    BY <1>0, <1>3, <2>5 DEF HasSpare
  <2>7. /\ IsAcc(new) /\ Works(mid.plan, new.plan, F, S, gone) /\ new.landed = more.landed
        /\ new.plan.story = mid.plan.story /\ new.plan.list = mid.plan.list
        /\ new.spare.story = mid.spare.story /\ new.spare.list = mid.spare.list
        /\ Took(more, new, "feature")
        /\ Least(more.spare.feature) \in DOMAIN new.plan.feature
    <3>1. /\ IsAcc(more) /\ HasSpare(more, "feature") /\ feature \in FeatureRows /\ feature.uid \in F \cup {Nothing}
          /\ feature.origin = Nothing /\ feature.pi = Nothing /\ IsStateFor(more.plan, "feature", feature.state)
      BY <2>2, <2>3, <2>5, <2>6
    <3>2. /\ IsAcc(new) /\ Works(more.plan, new.plan, F, S, gone) /\ new.landed = more.landed
          /\ new.plan.story = more.plan.story /\ new.plan.list = more.plan.list
          /\ new.spare.story = more.spare.story /\ new.spare.list = more.spare.list
          /\ Took(more, new, "feature")
          /\ Least(more.spare.feature) \in DOMAIN new.plan.feature
      <4>1. FeatureIn(more, new, F, S, gone)
        BY <2>1, <3>1, FeatureComesIn
      <4> QED  BY <4>1 DEF FeatureIn
    <3> QED  BY <2>5, <3>2
  <2>8. id \in DOMAIN new.plan.feature
    BY <2>5, <2>7 DEF id
  <2>9. Room(new, R \ {k})
    <3>1. Took(acc, new, "story")
      BY <1>3, <2>5, <2>7 DEF Took
    <3>2. Took(acc, new, "list")
      BY <1>3, <2>5, <2>7 DEF Took
    <3>3. Took(acc, new, "feature")
      <4>1. acc.spare["feature"] = more.spare["feature"] /\ acc.plan["feature"] = more.plan["feature"]
        BY <1>3, <2>5
      <4>2. Took(more, new, "feature")
        BY <2>7
      <4> QED  BY <4>1, <4>2 DEF Took
    <3>4. \A table \in {"feature", "story", "list"} : Took(acc, new, table)
      BY <3>1, <3>2, <3>3
    <3> QED  BY <1>1, <3>4, RoomLeft
  <2>10. Landed(new, gone)
    BY <1>4, <2>5, <2>7, <2>8 DEF Landed, Works
  <2>11. Works(p, new.plan, F, S, gone) /\ Matched(new.plan, maps, gone)
    <3>1. Works(p, mid.plan, F, S, gone)
      BY <1>1, <1>3, WorksOn
    <3> QED  BY <1>4, <2>7, <3>1, WorksOn, MatchedStays
  <2>12. Goes(p, new, maps, R \ {k}, F, S, gone)
    BY <2>7, <2>9, <2>10, <2>11 DEF Goes
  <2> QED  BY <2>12 DEF new, mid
<1> QED  BY <1>6, <1>7

\* place_feature: to a PI of the project, or nowhere.
LEMMA FeaturePlaced ==
  ASSUME NEW p, IsPlan(p), NEW f \in DOMAIN p.feature, NEW pi \in DOMAIN p.pi, NEW F, NEW S, NEW gone
  PROVE  LET q == PlaceFeature(p, f, pi)
         IN IsPlan(q) /\ Works(p, q, F, S, gone) /\ DOMAIN q.feature = DOMAIN p.feature /\ q.story = p.story /\ q.list = p.list
<1> DEFINE q == [p EXCEPT !.feature[f].pi = pi]
<1>1. /\ IsPlan(q) /\ Unlooped(p, q) /\ Sound(p, q)
      /\ q.story = p.story /\ q.list = p.list /\ q.pi = p.pi /\ q.path = p.path /\ DOMAIN q.feature = DOMAIN p.feature
      /\ \A x \in DOMAIN p.feature : q.feature[x].uid = p.feature[x].uid
  BY FeatureMoved
<1>2. PlaceFeature(p, f, pi) = p \/ PlaceFeature(p, f, pi) = q
  BY DEF PlaceFeature
<1> HIDE DEF q
<1>3. Works(p, q, F, S, gone)
  <2>1. UidsOf(q.feature) = UidsOf(p.feature) /\ UidsOf(q.story) = UidsOf(p.story)
    BY <1>1 DEF UidsOf
  <2>2. DoneKept(p, q) /\ (PlacesOnce(p) => PlacesOnce(q))
    BY <1>1 DEF DoneKept, PlacesOnce
  <2> QED  BY <1>1, <2>1, <2>2 DEF Works, Sound
<1>4. Works(p, p, F, S, gone)
  BY WorksOnItself
<1> QED  BY <1>1, <1>2, <1>3, <1>4

\* One landed feature is placed by its path.
LEMMA RowPlaced ==
  ASSUME NEW p, NEW acc, NEW maps, NEW R, NEW F, NEW S, NEW gone, Goes(p, acc, maps, R, F, S, gone), NEW landed
  PROVE  Goes(p, Placed(acc, landed), maps, R, F, S, gone) /\ Placed(acc, landed).landed = acc.landed
<1> DEFINE f == landed[2]
           targets == Targets(acc.plan, landed[1].path)
           x == CHOOSE x \in targets : TRUE
           q == PlaceFeature(acc.plan, f, x[1])
           new == Placed(acc, landed)
<1>0. IsAcc(acc) /\ IsPlan(acc.plan) /\ Room(acc, R) /\ Landed(acc, gone) /\ Matched(acc.plan, maps, gone) /\ Works(p, acc.plan, F, S, gone)
  BY DEF Goes, IsAcc
<1>1. CASE targets = {} \/ f \notin DOMAIN acc.plan.feature
  BY <1>1 DEF Placed
<1>2. CASE targets # {} /\ f \in DOMAIN acc.plan.feature
  <2>1. x[1] \in DOMAIN acc.plan.pi
    <3>1. x \in targets
      BY <1>2
    <3> HIDE DEF x
    <3> QED  BY <3>1 DEF Targets
  <2>2. new = [acc EXCEPT !.plan = q]
    BY <1>2 DEF Placed
  <2> HIDE DEF x, q, new
  <2>3. IsPlan(q) /\ Works(acc.plan, q, F, S, gone) /\ DOMAIN q.feature = DOMAIN acc.plan.feature /\ q.story = acc.plan.story /\ q.list = acc.plan.list
    BY <1>0, <1>2, <2>1, FeaturePlaced DEF q
  <2>4. new.plan = q /\ new.landed = acc.landed /\ new.spare = acc.spare /\ IsAcc(new)
    <3>1. acc = [plan |-> acc.plan, landed |-> acc.landed, spare |-> acc.spare]
      BY <1>0 DEF IsAcc
    <3>2. new.plan = q /\ new.landed = acc.landed /\ new.spare = acc.spare /\ new = [plan |-> new.plan, landed |-> new.landed, spare |-> new.spare]
      BY <2>2, <3>1
    <3> QED  BY <1>0, <2>3, <3>2 DEF IsAcc
  <2>5. Room(new, R)
    BY <1>0, <2>3, <2>4 DEF Room
  <2>6. Landed(new, gone)
    BY <1>0, <2>3, <2>4, LandedStays
  <2>7. Matched(new.plan, maps, gone) /\ Works(p, new.plan, F, S, gone)
    BY <1>0, <2>3, <2>4, MatchedStays, WorksOn
  <2>8. Goes(p, new, maps, R, F, S, gone)
    BY <2>4, <2>5, <2>6, <2>7 DEF Goes
  <2> QED  BY <2>4, <2>8 DEF new
<1> QED  BY <1>1, <1>2

\* What has room for rows has room for some of them.
LEMMA GoesWithFewer ==
  ASSUME NEW p, NEW acc, NEW maps, NEW R, IsFiniteSet(R), NEW T \in SUBSET R, NEW F, NEW S, NEW gone,
         Goes(p, acc, maps, R, F, S, gone)
  PROVE  Goes(p, acc, maps, T, F, S, gone)
<1>1. IsFiniteSet(T) /\ Cardinality(T) <= Cardinality(R) /\ Cardinality(T) \in Nat /\ Cardinality(R) \in Nat
  BY FS_Subset, FS_CardinalityType
<1>2. Room(acc, R)
  BY DEF Goes
<1>3. Room(acc, T)
  <2> SUFFICES ASSUME NEW table \in {"feature", "story", "list"}
               PROVE  /\ acc.spare[table] \subseteq Ids /\ acc.spare[table] \cap DOMAIN acc.plan[table] = {}
                      /\ Cardinality(T) <= Cardinality(acc.spare[table])
    BY DEF Room
  <2>1. /\ acc.spare[table] \subseteq Ids /\ acc.spare[table] \cap DOMAIN acc.plan[table] = {}
        /\ Cardinality(R) <= Cardinality(acc.spare[table])
    BY <1>2 DEF Room
  <2>2. Cardinality(acc.spare[table]) \in Nat
    BY <2>1, IdsAreNumbers, FS_Subset, FS_CardinalityType
  <2> QED  BY <1>1, <2>1, <2>2
<1> QED  BY <1>3 DEF Goes

\* The loops of the import, row by row: g[k] is what the first k rows make.
FeatureRun(g, acc, file, maps) ==
    g[0] = acc /\ \A k \in 1 .. Len(file.rows) : g[k] = FeatureOfRow(g[k - 1], file, file.rows[k], maps)
PlacementRun(g, acc) ==
    g[0] = acc /\ \A k \in 1 .. Len(acc.landed) : g[k] = Placed(g[k - 1], acc.landed[k])
StoryRun(g, acc, file, rows, maps, parents, preferred) ==
    /\ g[0] = WithLanding(acc, rows, maps, parents)
    /\ \A k \in 1 .. Len(file.rows) : g[k] = StoryOfRow(g[k - 1], file, rows, file.rows[k], maps, parents, preferred)

\* The loop over the features of a file runs.
LEMMA FeaturesRun ==
  ASSUME NEW acc, NEW file, file.rows \in Seq(FileRows), NEW maps
  PROVE  \E g : FeatureRun(g, acc, file, maps) /\ UpsertFeatures(acc, file, maps) = g[Len(file.rows)]
<1> DEFINE n == Len(file.rows)
           first == acc
           Step(a, k) == FeatureOfRow(a, file, file.rows[k], maps)
           Is(g, m) == g = [k \in 0 .. m |-> IF k = 0 THEN first ELSE Step(g[k - 1], k)]
           upTo == CHOOSE g : Is(g, n)
<1>0. n \in Nat
  OBVIOUS
<1> HIDE DEF n, first, Step
<1>1. \E g : Is(g, n)
  <2> DEFINE G == {m \in 0 .. n : \E g : Is(g, m)}
  <2>1. 0 \in G
    <3> DEFINE g == [k \in 0 .. 0 |-> first]
    <3>1. Is(g, 0)
      OBVIOUS
    <3> HIDE DEF g, Is
    <3> QED  BY <1>0, <3>1
  <2>2. ASSUME NEW m \in 1 .. n, m - 1 \in G
        PROVE  m \in G
    <3>1. PICK g : Is(g, m - 1)
      BY <2>2
    <3> DEFINE h == [k \in 0 .. m |-> IF k = m THEN Step(g[m - 1], m) ELSE g[k]]
    <3>2. \A k \in 0 .. m - 1 : g[k] = (IF k = 0 THEN first ELSE Step(g[k - 1], k))
      BY <3>1
    <3>3. \A k \in 0 .. m : h[k] = (IF k = 0 THEN first ELSE Step(h[k - 1], k))
      BY <1>0, <3>2
    <3>4. Is(h, m)
      BY <3>3
    <3> HIDE DEF Is, h
    <3> QED  BY <1>0, <3>4
  <2> HIDE DEF G
  <2>3. n \in G
    BY <1>0, <2>1, <2>2, InductionUpTo
  <2> QED  BY <2>3 DEF G
<1>2. Is(upTo, n)
  BY <1>1
<1>3. UpsertFeatures(acc, file, maps) = upTo[n]
  BY DEF UpsertFeatures, n, first, Step
<1> HIDE DEF upTo
<1>4. upTo[0] = first /\ \A k \in 1 .. n : upTo[k] = Step(upTo[k - 1], k)
  BY <1>0, <1>2
<1>5. FeatureRun(upTo, acc, file, maps)
  BY <1>4 DEF FeatureRun, n, first, Step
<1> QED  BY <1>3, <1>5 DEF n

\* The loop over the features that landed runs.
LEMMA PlacementRuns ==
  ASSUME NEW acc, Len(acc.landed) \in Nat, NEW file, file.places
  PROVE  \E g : PlacementRun(g, acc) /\ PlaceFromIterations(acc, file) = g[Len(acc.landed)]
<1> DEFINE n == Len(acc.landed)
           first == acc
           Step(a, k) == Placed(a, acc.landed[k])
           Is(g, m) == g = [k \in 0 .. m |-> IF k = 0 THEN first ELSE Step(g[k - 1], k)]
           upTo == CHOOSE g : Is(g, n)
<1>0. n \in Nat
  OBVIOUS
<1> HIDE DEF n, first, Step
<1>1. \E g : Is(g, n)
  <2> DEFINE G == {m \in 0 .. n : \E g : Is(g, m)}
  <2>1. 0 \in G
    <3> DEFINE g == [k \in 0 .. 0 |-> first]
    <3>1. Is(g, 0)
      OBVIOUS
    <3> HIDE DEF g, Is
    <3> QED  BY <1>0, <3>1
  <2>2. ASSUME NEW m \in 1 .. n, m - 1 \in G
        PROVE  m \in G
    <3>1. PICK g : Is(g, m - 1)
      BY <2>2
    <3> DEFINE h == [k \in 0 .. m |-> IF k = m THEN Step(g[m - 1], m) ELSE g[k]]
    <3>2. \A k \in 0 .. m - 1 : g[k] = (IF k = 0 THEN first ELSE Step(g[k - 1], k))
      BY <3>1
    <3>3. \A k \in 0 .. m : h[k] = (IF k = 0 THEN first ELSE Step(h[k - 1], k))
      BY <1>0, <3>2
    <3>4. Is(h, m)
      BY <3>3
    <3> HIDE DEF Is, h
    <3> QED  BY <1>0, <3>4
  <2> HIDE DEF G
  <2>3. n \in G
    BY <1>0, <2>1, <2>2, InductionUpTo
  <2> QED  BY <2>3 DEF G
<1>2. Is(upTo, n)
  BY <1>1
<1>3. PlaceFromIterations(acc, file) = upTo[n]
  BY DEF PlaceFromIterations, n, first, Step
<1> HIDE DEF upTo
<1>4. upTo[0] = first /\ \A k \in 1 .. n : upTo[k] = Step(upTo[k - 1], k)
  BY <1>0, <1>2
<1>5. PlacementRun(upTo, acc)
  BY <1>4 DEF PlacementRun, n, first, Step
<1> QED  BY <1>3, <1>5 DEF n

\* The loop over the stories of a file runs.
LEMMA StoriesRun ==
  ASSUME NEW acc, NEW file, file.rows \in Seq(FileRows), NEW rows, NEW maps, NEW parents, NEW preferred
  PROVE  \E g : StoryRun(g, acc, file, rows, maps, parents, preferred) /\ UpsertStories(acc, file, rows, maps, parents, preferred) = g[Len(file.rows)]
<1> DEFINE n == Len(file.rows)
           first == WithLanding(acc, rows, maps, parents)
           Step(a, k) == StoryOfRow(a, file, rows, file.rows[k], maps, parents, preferred)
           Is(g, m) == g = [k \in 0 .. m |-> IF k = 0 THEN first ELSE Step(g[k - 1], k)]
           upTo == CHOOSE g : Is(g, n)
<1>0. n \in Nat
  OBVIOUS
<1> HIDE DEF n, first, Step
<1>1. \E g : Is(g, n)
  <2> DEFINE G == {m \in 0 .. n : \E g : Is(g, m)}
  <2>1. 0 \in G
    <3> DEFINE g == [k \in 0 .. 0 |-> first]
    <3>1. Is(g, 0)
      OBVIOUS
    <3> HIDE DEF g, Is
    <3> QED  BY <1>0, <3>1
  <2>2. ASSUME NEW m \in 1 .. n, m - 1 \in G
        PROVE  m \in G
    <3>1. PICK g : Is(g, m - 1)
      BY <2>2
    <3> DEFINE h == [k \in 0 .. m |-> IF k = m THEN Step(g[m - 1], m) ELSE g[k]]
    <3>2. \A k \in 0 .. m - 1 : g[k] = (IF k = 0 THEN first ELSE Step(g[k - 1], k))
      BY <3>1
    <3>3. \A k \in 0 .. m : h[k] = (IF k = 0 THEN first ELSE Step(h[k - 1], k))
      BY <1>0, <3>2
    <3>4. Is(h, m)
      BY <3>3
    <3> HIDE DEF Is, h
    <3> QED  BY <1>0, <3>4
  <2> HIDE DEF G
  <2>3. n \in G
    BY <1>0, <2>1, <2>2, InductionUpTo
  <2> QED  BY <2>3 DEF G
<1>2. Is(upTo, n)
  BY <1>1
<1>3. UpsertStories(acc, file, rows, maps, parents, preferred) = upTo[n]
  BY DEF UpsertStories, n, first, Step
<1> HIDE DEF upTo
<1>4. upTo[0] = first /\ \A k \in 1 .. n : upTo[k] = Step(upTo[k - 1], k)
  BY <1>0, <1>2
<1>5. StoryRun(upTo, acc, file, rows, maps, parents, preferred)
  BY <1>4 DEF StoryRun, n, first, Step
<1> QED  BY <1>3, <1>5 DEF n

\* The rows still to come when the features of the first k are in; 0 is for the placeholder.
RowsLeft(rows, k) == {i \in 0 .. Len(rows) : i = 0 \/ i > k \/ IsStory(rows[i])}

\* The loop over the features of the file.
LEMMA FeaturesGo ==
  ASSUME NEW p, NEW acc, NEW maps, NEW file, file.rows \in Seq(FileRows), NEW F, NEW S, NEW gone,
         Goes(p, acc, maps, 0 .. Len(file.rows), F, S, gone),
         \A row \in Imported(file, maps) : IsFeature(row) => row.uid \in F \cup {Nothing},
         NEW upTo, FeatureRun(upTo, acc, file, maps)
  PROVE  \A k \in 0 .. Len(file.rows) : Goes(p, upTo[k], maps, RowsLeft(file.rows, k), F, S, gone)
<1> DEFINE n == Len(file.rows)
           Step(a, k) == FeatureOfRow(a, file, file.rows[k], maps)
<1>0. n \in Nat /\ \A k \in 1 .. n : file.rows[k] \in FileRows
  OBVIOUS
<1>4. upTo[0] = acc /\ \A k \in 1 .. n : upTo[k] = Step(upTo[k - 1], k)
  BY DEF FeatureRun
<1> HIDE DEF n, Step
<1> DEFINE Left(k) == RowsLeft(file.rows, k)
           H == {k \in 0 .. n : Goes(p, upTo[k], maps, Left(k), F, S, gone)}
<1>5. IsFiniteSet(0 .. n) /\ \A k \in 0 .. n : Left(k) \subseteq 0 .. n /\ IsFiniteSet(Left(k))
  <2>1. IsFiniteSet(0 .. n)
    BY <1>0, FS_Interval
  <2>2. \A k \in 0 .. n : Left(k) \subseteq 0 .. n
    BY DEF RowsLeft, n
  <2> QED  BY <2>1, <2>2, FS_Subset
<1>6. 0 \in H
  <2>1. Goes(p, acc, maps, Left(0), F, S, gone)
    BY <1>0, <1>5, GoesWithFewer DEF n
  <2> QED  BY <1>0, <1>4, <2>1
<1>7. ASSUME NEW k \in 1 .. n, k - 1 \in H
      PROVE  k \in H
  <2> DEFINE row == file.rows[k]
             a == upTo[k - 1]
  <2>1. Goes(p, a, maps, Left(k - 1), F, S, gone) /\ row \in FileRows /\ upTo[k] = Step(a, k) /\ IsFiniteSet(Left(k - 1))
    BY <1>0, <1>4, <1>5, <1>7
  <2>2. Left(k) \subseteq Left(k - 1) /\ (IsFeature(row) => k \in Left(k - 1) /\ Left(k) = Left(k - 1) \ {k})
    BY <1>0 DEF RowsLeft, IsStory, IsFeature, n
  <2>3. Step(a, k) = IF IsFeature(row) /\ row \in Imported(file, maps)
                     THEN UpsertFeature(WithState(a, file, "feature", row.state), file, row, maps) ELSE a
    BY DEF Step, FeatureOfRow
  <2> HIDE DEF row, a, Left
  <2>4. CASE IsFeature(row) /\ row \in Imported(file, maps)
    <3>1. row.uid \in F \cup {Nothing}
      BY <2>4
    <3>2. Goes(p, UpsertFeature(WithState(a, file, "feature", row.state), file, row, maps), maps, Left(k - 1) \ {k}, F, S, gone)
      BY <2>1, <2>2, <2>4, <3>1, FeatureRowGoes
    <3>3. Goes(p, upTo[k], maps, Left(k), F, S, gone)
      BY <2>1, <2>2, <2>3, <2>4, <3>2
    <3> QED  BY <1>0, <3>3
  <2>5. CASE ~ (IsFeature(row) /\ row \in Imported(file, maps))
    <3>1. Goes(p, a, maps, Left(k), F, S, gone)
      BY <2>1, <2>2, GoesWithFewer
    <3>2. upTo[k] = a
      BY <2>1, <2>3, <2>5
    <3> QED  BY <1>0, <3>1, <3>2
  <2> QED  BY <2>4, <2>5
<1>8. ASSUME NEW m \in 0 .. n
      PROVE  m \in H
  <2> HIDE DEF H
  <2>1. m \in Nat /\ \A k \in 1 .. m : k - 1 \in H => k \in H
    BY <1>0, <1>7
  <2> QED  BY <1>6, <2>1, InductionUpTo
<1> QED  BY <1>8 DEF n

\* The loop over the features that landed.
LEMMA PlacementGoes ==
  ASSUME NEW p, NEW acc, NEW maps, NEW R, NEW F, NEW S, NEW gone, Goes(p, acc, maps, R, F, S, gone),
         NEW upTo, PlacementRun(upTo, acc)
  PROVE  \A k \in 0 .. Len(acc.landed) : Goes(p, upTo[k], maps, R, F, S, gone) /\ upTo[k].landed = acc.landed
<1> DEFINE n == Len(acc.landed)
           H == {k \in 0 .. n : Goes(p, upTo[k], maps, R, F, S, gone) /\ upTo[k].landed = acc.landed}
<1>0. n \in Nat
  BY DEF Goes, Landed
<1>4. upTo[0] = acc /\ \A k \in 1 .. n : upTo[k] = Placed(upTo[k - 1], acc.landed[k])
  BY DEF PlacementRun
<1> HIDE DEF n
<1>5. 0 \in H
  BY <1>0, <1>4
<1>6. ASSUME NEW k \in 1 .. n, k - 1 \in H
      PROVE  k \in H
  <2> DEFINE a == upTo[k - 1]
             landed == acc.landed[k]
  <2>1. Goes(p, a, maps, R, F, S, gone) /\ a.landed = acc.landed /\ upTo[k] = Placed(a, landed)
    BY <1>0, <1>4, <1>6
  <2> HIDE DEF a, landed
  <2>2. Goes(p, Placed(a, landed), maps, R, F, S, gone) /\ Placed(a, landed).landed = a.landed
    BY <2>1, RowPlaced
  <2>3. Goes(p, upTo[k], maps, R, F, S, gone) /\ upTo[k].landed = acc.landed
    BY <2>1, <2>2
  <2> QED  BY <1>0, <2>3
<1>7. ASSUME NEW m \in 0 .. n
      PROVE  m \in H
  <2> HIDE DEF H
  <2>1. m \in Nat /\ \A k \in 1 .. m : k - 1 \in H => k \in H
    BY <1>0, <1>6
  <2> QED  BY <1>5, <2>1, InductionUpTo
<1> QED  BY <1>7 DEF n

\* As a whole.
LEMMA PlacementWorks ==
  ASSUME NEW p, NEW acc, NEW maps, NEW file, NEW R, NEW F, NEW S, NEW gone, Goes(p, acc, maps, R, F, S, gone)
  PROVE  Goes(p, PlaceFromIterations(acc, file), maps, R, F, S, gone) /\ PlaceFromIterations(acc, file).landed = acc.landed
<1>1. CASE file.places
  <2>1. Len(acc.landed) \in Nat
    BY DEF Goes, Landed
  <2>2. PICK g : PlacementRun(g, acc) /\ PlaceFromIterations(acc, file) = g[Len(acc.landed)]
    BY <1>1, <2>1, PlacementRuns
  <2>3. \A k \in 0 .. Len(acc.landed) : Goes(p, g[k], maps, R, F, S, gone) /\ g[k].landed = acc.landed
    BY <2>2, PlacementGoes
  <2> QED  BY <2>1, <2>2, <2>3
<1>2. CASE ~ file.places
  BY <1>2 DEF PlaceFromIterations
<1> QED  BY <1>1, <1>2

\* A Parent names a feature of the file or one that was matched.
LEMMA ParentsAreFeatures ==
  ASSUME NEW acc, IsAcc(acc), NEW maps, NEW gone, Landed(acc, gone), Matched(acc.plan, maps, gone)
  PROVE  \A uid \in DOMAIN ParentLookup(acc, maps) :
            /\ ParentLookup(acc, maps)[uid] \in Ids
            /\ gone = {} => ParentLookup(acc, maps)[uid] \in DOMAIN acc.plan.feature
<1> DEFINE known == (DOMAIN maps.feature \cup {landed[1].uid : landed \in Range(acc.landed)}) \ {Nothing}
           Home(uid) == CHOOSE f \in FeatureOfFile(acc, uid) : TRUE
<1>1. ParentLookup(acc, maps) = [uid \in known |-> IF FeatureOfFile(acc, uid) # {} THEN Home(uid) ELSE maps.feature[uid]]
  BY DEF ParentLookup
<1>2. \A l \in Range(acc.landed) : \E i \in DOMAIN acc.landed : l = acc.landed[i]
  BY DEF Range
<1>3. \A i \in DOMAIN acc.landed : acc.landed[i] \in FileRows \X Ids
  BY DEF Landed
<1>4. \A uid : \A f \in FeatureOfFile(acc, uid) : f \in Ids /\ (gone = {} => f \in DOMAIN acc.plan.feature)
  <2> SUFFICES ASSUME NEW uid, NEW f \in FeatureOfFile(acc, uid)
               PROVE  f \in Ids /\ (gone = {} => f \in DOMAIN acc.plan.feature)
    OBVIOUS
  <2>1. PICK l \in Range(acc.landed) : f = l[2]
    BY DEF FeatureOfFile
  <2>2. PICK i \in DOMAIN acc.landed : f = acc.landed[i][2]
    BY <1>2, <2>1
  <2> QED  BY <1>3, <2>2 DEF Landed
<1> SUFFICES ASSUME NEW uid \in known
             PROVE  /\ ParentLookup(acc, maps)[uid] \in Ids
                    /\ gone = {} => ParentLookup(acc, maps)[uid] \in DOMAIN acc.plan.feature
  <2> HIDE DEF known, Home
  <2> QED  BY <1>1
<1>5. CASE FeatureOfFile(acc, uid) # {}
  <2>1. Home(uid) \in FeatureOfFile(acc, uid)
    BY <1>5
  <2> HIDE DEF Home, known
  <2> QED  BY <1>1, <1>4, <1>5, <2>1
<1>6. CASE FeatureOfFile(acc, uid) = {}
  <2>1. \A l \in Range(acc.landed) : l[1].uid # uid
    BY <1>6 DEF FeatureOfFile
  <2>2. uid \in DOMAIN maps.feature
    BY <2>1
  <2> HIDE DEF Home, known
  <2> QED  BY <1>1, <1>6, <2>2 DEF Matched
<1> QED  BY <1>5, <1>6

\* What writing to stories that are there leaves as it is.
SameButStories(acc, new) ==
    /\ new.landed = acc.landed /\ new.spare = acc.spare
    /\ DOMAIN new.plan.story = DOMAIN acc.plan.story /\ new.plan.feature = acc.plan.feature /\ new.plan.list = acc.plan.list

\* Features that a Parent names.
ArePars(p, parents, gone) == \A uid \in DOMAIN parents :
    parents[uid] \in Ids /\ (gone = {} => parents[uid] \in DOMAIN p.feature)

\* The file's date, or today's.
LEMMA Tallied ==
  ASSUME NEW acc, IsAcc(acc), NEW file, NEW row, NEW story \in StoryRows, NEW was
  PROVE  LET new == Tally(acc, file, row, story, was)
         IN /\ new \in StoryRows /\ new.feature = story.feature /\ new.uid = story.uid /\ new.kind = story.kind /\ new.state = story.state
            /\ (IsDone(acc.plan, was) <=> story.date # Nothing) => (IsDone(acc.plan, story.state) <=> new.date # Nothing)
<1> DEFINE explicit == IF file.dates /\ row.dated THEN "given" ELSE Nothing
           date == Completed(acc.plan, story.date, was, story.state, explicit)
           new == Tally(acc, file, row, story, was)
<1>1. new = [story EXCEPT !.date = date]
  BY DEF Tally
<1>2. explicit \in {Nothing, "given"} /\ IsPlan(acc.plan) /\ story.date \in {Nothing, "today", "given"}
  BY DEF IsAcc, StoryRows
<1> HIDE DEF explicit
<1>3. /\ date \in {Nothing, "today", "given"}
      /\ (IsDone(acc.plan, was) <=> story.date # Nothing) => (IsDone(acc.plan, story.state) <=> date # Nothing)
  BY <1>2, CompletedFollows
<1> HIDE DEF date, new
<1>4. new \in StoryRows /\ new.feature = story.feature /\ new.uid = story.uid /\ new.kind = story.kind /\ new.state = story.state /\ new.date = date
  BY <1>1, <1>3 DEF StoryRows
<1> QED  BY <1>3, <1>4 DEF new

\* The State after a row is one of the list of the row's kind.
LEMMA StorySwitched ==
  ASSUME NEW acc, IsAcc(acc), NEW file, NEW row \in FileRows, IsStory(row), Found(acc.plan, file, row.kind, row.state),
         NEW story \in StoryRows
  PROVE  LET new == Switched(acc, file, row, story)
         IN /\ new \in StoryRows /\ new.feature = story.feature /\ new.uid = story.uid /\ new.kind = row.kind /\ new.date = story.date
            /\ IsStateFor(acc.plan, story.kind, story.state) => IsStateFor(acc.plan, row.kind, new.state)
<1> DEFINE old == IF row.kind = story.kind THEN story.state ELSE Nothing
           state == RowState(acc, file, row.kind, row.state, old)
           new == Switched(acc, file, row, story)
<1>1. new = [story EXCEPT !.kind = row.kind, !.state = state]
  BY DEF Switched
<1>2. row.kind \in Kinds /\ row.kind \in ItemTypes
  BY DEF IsStory, FileRows, ItemTypes, Kinds
<1>3. old \in Refs /\ (IsStateFor(acc.plan, story.kind, story.state) => IsStateFor(acc.plan, row.kind, old))
  BY DEF StoryRows, Refs, IsStateFor
<1> HIDE DEF old
<1>4. state \in Refs /\ (IsStateFor(acc.plan, row.kind, old) => IsStateFor(acc.plan, row.kind, state))
  BY <1>2, <1>3, RowStateStands
<1> HIDE DEF state, new
<1>5. new \in StoryRows /\ new.feature = story.feature /\ new.uid = story.uid /\ new.kind = row.kind /\ new.date = story.date /\ new.state = state
  BY <1>1, <1>2, <1>4 DEF StoryRows
<1> QED  BY <1>3, <1>4, <1>5 DEF new

\* A story joins a feature that is there.
LEMMA TargetIsThere ==
  ASSUME NEW p, IsPlan(p), NEW parents, NEW gone, ArePars(p, parents, gone), NEW uid \in DOMAIN parents, NEW preferred
  PROVE  Target(p, parents[uid], preferred) \in Ids /\ (gone = {} => Target(p, parents[uid], preferred) \in DOMAIN p.feature)
<1>1. CASE parents[uid] \in DOMAIN p.feature
  <2>1. NewestLeaf(p, parents[uid], preferred) \in DOMAIN p.feature
    BY <1>1, LeafIsThere
  <2>2. Target(p, parents[uid], preferred) = NewestLeaf(p, parents[uid], preferred)
    BY <1>1 DEF Target
  <2> QED  BY <2>1, <2>2, PlanTables
<1>2. CASE parents[uid] \notin DOMAIN p.feature
  BY <1>2 DEF Target, ArePars
<1> QED  BY <1>1, <1>2

\* A story moves to a feature that is there, or stays.
LEMMA StoryReparented ==
  ASSUME NEW acc, IsAcc(acc), NEW file, NEW row, NEW parents, NEW story \in StoryRows, NEW preferred
  PROVE  LET new == Reparented(acc, file, row, parents, story, preferred)
         IN /\ new \in StoryRows /\ new.uid = story.uid /\ new.kind = story.kind /\ new.state = story.state /\ new.date = story.date
            /\ new.feature = story.feature \/ new.feature \in DOMAIN acc.plan.feature
<1> DEFINE f == Target(acc.plan, parents[row.parent], preferred)
           new == Reparented(acc, file, row, parents, story, preferred)
<1>1. new = story \/ (f \in DOMAIN acc.plan.feature /\ new = [story EXCEPT !.feature = f])
  BY DEF Reparented
<1> HIDE DEF new, f
<1>2. \A x \in DOMAIN acc.plan.feature : x \in Ids
  BY PlanTables DEF IsAcc
<1>3. CASE new = story
  BY <1>3 DEF new
<1>4. CASE f \in DOMAIN acc.plan.feature /\ new = [story EXCEPT !.feature = f]
  <2>1. new \in StoryRows /\ new.uid = story.uid /\ new.kind = story.kind /\ new.state = story.state /\ new.date = story.date /\ new.feature = f
    BY <1>2, <1>4 DEF StoryRows
  <2> QED  BY <1>4, <2>1 DEF new
<1> QED  BY <1>1, <1>3, <1>4

\* _upsert_one_story, of a story that is known: State, date and feature fit afterwards.
LEMMA StoryUpdated ==
  ASSUME NEW acc, IsAcc(acc), NEW file, NEW row \in FileRows, IsStory(row), Found(acc.plan, file, row.kind, row.state),
         NEW parents, NEW s, NEW preferred, NEW F, NEW S, NEW gone
  PROVE  LET new == UpdateStory(acc, file, row, parents, s, preferred)
         IN IsAcc(new) /\ Works(acc.plan, new.plan, F, S, gone) /\ SameButStories(acc, new)
<1> DEFINE p == acc.plan
           story == acc.plan.story[s]
           switched == Switched(acc, file, row, story)
           written == Tally(acc, file, row, switched, story.state)
           final == Reparented(acc, file, row, parents, written, preferred)
           rows == [p.story EXCEPT ![s] = final]
           q == [p EXCEPT !.story = rows]
           new == UpdateStory(acc, file, row, parents, s, preferred)
<1>1. CASE s \notin DOMAIN acc.plan.story
  BY <1>1, WorksOnItself DEF UpdateStory, SameButStories
<1>2. CASE s \in DOMAIN acc.plan.story
  <2>0. IsPlan(p) /\ IsTable(p.story, Ids, StoryRows) /\ story \in StoryRows
    BY <1>2, PlanTables DEF IsAcc
  <2>1. new = [acc EXCEPT !.plan.story[s] = final]
    BY <1>2 DEF UpdateStory
  <2>2. new = [acc EXCEPT !.plan = q]
    <3> HIDE DEF final, new
    <3>1. acc = [plan |-> acc.plan, landed |-> acc.landed, spare |-> acc.spare]
      BY DEF IsAcc
    <3>2. acc.plan = [table \in Tables |-> acc.plan[table]]
      BY <2>0 DEF IsPlan
    <3> QED  BY <2>1, <3>1, <3>2
  <2> HIDE DEF story, new
  <2>3. /\ switched \in StoryRows /\ switched.feature = story.feature /\ switched.uid = story.uid
        /\ switched.kind = row.kind /\ switched.date = story.date
        /\ IsStateFor(acc.plan, story.kind, story.state) => IsStateFor(acc.plan, row.kind, switched.state)
    BY <2>0, StorySwitched
  <2> HIDE DEF switched
  <2>4. /\ written \in StoryRows /\ written.feature = switched.feature /\ written.uid = switched.uid
        /\ written.kind = switched.kind /\ written.state = switched.state
        /\ (IsDone(acc.plan, story.state) <=> switched.date # Nothing) => (IsDone(acc.plan, switched.state) <=> written.date # Nothing)
    BY <2>3, Tallied
  <2> HIDE DEF written
  <2>5. /\ final \in StoryRows /\ final.uid = written.uid /\ final.kind = written.kind /\ final.state = written.state /\ final.date = written.date
        /\ final.feature = written.feature \/ final.feature \in DOMAIN acc.plan.feature
    BY <2>4, StoryReparented
  <2> HIDE DEF final, p
  <2>6. DOMAIN rows = DOMAIN p.story /\ rows[s] = final /\ \A t \in DOMAIN p.story : t # s => rows[t] = p.story[t]
    BY <1>2 DEF p
  <2>7. IsTable(rows, Ids, StoryRows)
    BY <2>0, <2>5 DEF IsTable
  <2> HIDE DEF rows
  <2>8. IsPlan(q) /\ Works(p, q, F, S, gone) /\ q.feature = p.feature /\ q.story = rows /\ q.list = p.list
    <3>1. Stands(p) => \A t \in DOMAIN rows : rows[t].feature \in DOMAIN p.feature /\ IsStateFor(p, rows[t].kind, rows[t].state)
      <4> SUFFICES ASSUME Stands(p), NEW t \in DOMAIN rows
                   PROVE  rows[t].feature \in DOMAIN p.feature /\ IsStateFor(p, rows[t].kind, rows[t].state)
        OBVIOUS
      <4>1. p.story[t].feature \in DOMAIN p.feature /\ IsStateFor(p, p.story[t].kind, p.story[t].state)
        BY <2>6 DEF Stands
      <4>2. CASE t # s
        BY <2>6, <4>1, <4>2
      <4>3. CASE t = s
        BY <2>3, <2>4, <2>5, <2>6, <4>1, <4>3 DEF p, story
      <4> QED  BY <4>2, <4>3
    <3>2. Dated(p) => \A t \in DOMAIN rows : IsDone(p, rows[t].state) <=> rows[t].date # Nothing
      <4> SUFFICES ASSUME Dated(p), NEW t \in DOMAIN rows
                   PROVE  IsDone(p, rows[t].state) <=> rows[t].date # Nothing
        OBVIOUS
      <4>1. IsDone(p, p.story[t].state) <=> p.story[t].date # Nothing
        BY <2>6 DEF Dated
      <4>2. CASE t # s
        BY <2>6, <4>1, <4>2
      <4>3. CASE t = s
        BY <2>3, <2>4, <2>5, <2>6, <4>1, <4>3 DEF p, story
      <4> QED  BY <4>2, <4>3
    <3>3. \A t \in DOMAIN rows : rows[t].uid \in UidsOf(p.story) \cup S \cup {Nothing}
      <4> SUFFICES ASSUME NEW t \in DOMAIN rows
                   PROVE  rows[t].uid \in UidsOf(p.story) \cup S \cup {Nothing}
        OBVIOUS
      <4>1. p.story[t].uid \in UidsOf(p.story) \cup {Nothing}
        BY <2>6 DEF UidsOf
      <4> QED  BY <2>3, <2>4, <2>5, <2>6, <4>1 DEF p, story
    <3> HIDE DEF q
    <3> QED  BY <2>0, <2>7, <3>1, <3>2, <3>3, StoriesWorked DEF q
  <2> HIDE DEF q
  <2>9. new.plan = q /\ new.landed = acc.landed /\ new.spare = acc.spare /\ IsAcc(new)
    <3>1. new = [plan |-> q, landed |-> acc.landed, spare |-> acc.spare]
      BY <2>2 DEF IsAcc
    <3> QED  BY <2>8, <3>1 DEF IsAcc
  <2>10. SameButStories(acc, new)
    BY <2>6, <2>8, <2>9 DEF SameButStories, p
  <2> QED  BY <2>8, <2>9, <2>10 DEF new, p
<1> QED  BY <1>1, <1>2

\* A story of the file is inserted.
LEMMA StoryInserted ==
  ASSUME NEW acc, IsAcc(acc), HasSpare(acc, "story"), NEW F, NEW S, NEW gone,
         NEW row \in StoryRows, row.uid \in S \cup {Nothing},
         gone = {} => row.feature \in DOMAIN acc.plan.feature, IsStateFor(acc.plan, row.kind, row.state),
         IsDone(acc.plan, row.state) <=> row.date # Nothing
  PROVE  LET new == Insert(acc, "story", row)
         IN /\ IsAcc(new) /\ Works(acc.plan, new.plan, F, S, gone) /\ new.landed = acc.landed
            /\ new.plan.feature = acc.plan.feature /\ new.plan.list = acc.plan.list
            /\ new.spare.feature = acc.spare.feature /\ new.spare.list = acc.spare.list
            /\ Took(acc, new, "story")
<1> DEFINE new == Insert(acc, "story", row)
           id == Least(acc.spare["story"])
           rows == With(acc.plan.story, id, row)
           q == [acc.plan EXCEPT !.story = rows]
<1>0. IsPlan(acc.plan)
  BY DEF IsAcc
<1>1. acc.plan = [table \in Tables |-> acc.plan[table]]
  BY <1>0 DEF IsPlan
<1>2. /\ id \in Ids \ DOMAIN acc.plan.story
      /\ new = [plan |-> new.plan, landed |-> new.landed, spare |-> new.spare]
      /\ new.plan = Put(acc.plan, "story", id, row)
      /\ new.landed = acc.landed
      /\ new.spare = [t \in Tables \ {"path"} |-> new.spare[t]]
      /\ new.spare.story = acc.spare.story \ {id}
      /\ new.spare.list = acc.spare.list /\ new.spare.feature = acc.spare.feature
  <2> HIDE DEF new
  <2> QED  BY RowInserted DEF new
<1> HIDE DEF new
<1>3. new.plan = q
  <2>1. Put(acc.plan, "story", id, row) = q
    BY <1>1 DEF Put, Tables
  <2> QED  BY <1>2, <2>1
<1> HIDE DEF id
<1>4. IsTable(rows, Ids, StoryRows) /\ DOMAIN rows = DOMAIN acc.plan.story \cup {id}
      /\ rows[id] = row /\ \A x \in DOMAIN acc.plan.story : rows[x] = acc.plan.story[x]
  <2>1. IsTable(acc.plan.story, Ids, StoryRows) /\ id \in Ids /\ id \notin DOMAIN acc.plan.story /\ row \in StoryRows
    BY <1>0, <1>2, PlanTables
  <2> DEFINE old == acc.plan.story
  <2>4. IsTable(old, Ids, StoryRows) /\ id \in Ids /\ row \in StoryRows /\ rows = With(old, id, row)
    BY <2>1
  <2> HIDE DEF old, rows
  <2>5. IsTable(With(old, id, row), Ids, StoryRows) /\ DOMAIN With(old, id, row) = DOMAIN old \cup {id}
    BY <2>4 DEF IsTable, With
  <2>2. IsTable(rows, Ids, StoryRows) /\ DOMAIN rows = DOMAIN acc.plan.story \cup {id}
    BY <2>4, <2>5 DEF old
  <2> USE DEF rows
  <2>3. rows[id] = row /\ \A x \in DOMAIN acc.plan.story : rows[x] = acc.plan.story[x]
    BY <2>1 DEF With
  <2> QED  BY <2>2, <2>3
<1> HIDE DEF rows
<1>5. IsPlan(q) /\ Works(acc.plan, q, F, S, gone) /\ q.feature = acc.plan.feature /\ q.story = rows /\ q.list = acc.plan.list
  <2>1. Stands(acc.plan) /\ gone = {} =>
            \A s \in DOMAIN rows : rows[s].feature \in DOMAIN acc.plan.feature /\ IsStateFor(acc.plan, rows[s].kind, rows[s].state)
    BY <1>4 DEF Stands
  <2>2. Dated(acc.plan) => \A s \in DOMAIN rows : IsDone(acc.plan, rows[s].state) <=> rows[s].date # Nothing
    BY <1>4 DEF Dated
  <2>3. \A s \in DOMAIN rows : rows[s].uid \in UidsOf(acc.plan.story) \cup S \cup {Nothing}
    BY <1>4 DEF UidsOf
  <2> DEFINE p == acc.plan
  <2>4. /\ IsPlan(p) /\ IsTable(rows, Ids, StoryRows)
        /\ Stands(p) /\ gone = {} =>
            \A s \in DOMAIN rows : rows[s].feature \in DOMAIN p.feature /\ IsStateFor(p, rows[s].kind, rows[s].state)
        /\ Dated(p) => \A s \in DOMAIN rows : IsDone(p, rows[s].state) <=> rows[s].date # Nothing
        /\ \A s \in DOMAIN rows : rows[s].uid \in UidsOf(p.story) \cup S \cup {Nothing}
    BY <1>0, <1>4, <2>1, <2>2, <2>3
  <2> HIDE DEF q, p
  <2>5. IsPlan(q) /\ Works(p, q, F, S, gone) /\ q.feature = p.feature /\ q.story = rows /\ q.list = p.list
    BY <2>4, StoriesWorked DEF q, p
  <2> QED  BY <2>5 DEF p
<1> HIDE DEF q
<1>6. IsAcc(new)
  BY <1>2, <1>3, <1>5 DEF IsAcc
<1>7. Took(acc, new, "story")
  BY <1>2, <1>3, <1>4, <1>5 DEF Took
<1> QED  BY <1>2, <1>3, <1>4, <1>5, <1>6, <1>7 DEF new, id

\* What a step of the loop over the stories keeps.
GoesOn(p, acc, maps, R, F, S, gone, parents, needed) ==
    Goes(p, acc, maps, R, F, S, gone) /\ ArePars(acc.plan, parents, gone) /\ (needed => Landing(acc.plan) # {})

\* _upsert_one_story, known or new: an orphan finds the placeholder.
LEMMA StoryRowGoes ==
  ASSUME NEW p, NEW acc, NEW maps, NEW R, IsFiniteSet(R), NEW F, NEW S, NEW gone, NEW parents, NEW needed,
         GoesOn(p, acc, maps, R, F, S, gone, parents, needed),
         NEW k \in R, NEW file, NEW row \in FileRows, IsStory(row), row.uid \in S \cup {Nothing}, NEW known, NEW preferred,
         row.uid \notin DOMAIN known.story /\ row.parent \notin DOMAIN parents => needed
  PROVE  GoesOn(p, UpsertStory(WithState(acc, file, row.kind, row.state), file, row, known, parents, preferred),
                maps, R \ {k}, F, S, gone, parents, needed)
<1> DEFINE mid == WithState(acc, file, row.kind, row.state)
           new == UpsertStory(mid, file, row, known, parents, preferred)
<1>1. /\ IsAcc(acc) /\ Room(acc, R) /\ Landed(acc, gone) /\ Matched(acc.plan, maps, gone) /\ Works(p, acc.plan, F, S, gone)
      /\ ArePars(acc.plan, parents, gone) /\ (needed => Landing(acc.plan) # {})
  BY DEF Goes, GoesOn
<1>0. HasSpare(acc, "list") /\ HasSpare(acc, "story")
  BY <1>1, RoomHasSpare
<1>2. row.uid \in BusinessIds /\ row.state \in Values \cup {Nothing} /\ row.kind \in ItemTypes /\ row.kind \in Kinds
  BY DEF FileRows, ItemTypes, IsStory, Kinds
<1>3. /\ IsAcc(mid) /\ Works(acc.plan, mid.plan, F, S, gone) /\ mid.landed = acc.landed
      /\ mid.plan.feature = acc.plan.feature /\ mid.plan.story = acc.plan.story
      /\ mid.spare.feature = acc.spare.feature /\ mid.spare.story = acc.spare.story
      /\ Took(acc, mid, "list")
      /\ Found(mid.plan, file, row.kind, row.state)
  BY <1>0, <1>1, <1>2, StateIsThere
<1> HIDE DEF mid
<1>4. /\ Landed(mid, gone) /\ Matched(mid.plan, maps, gone) /\ ArePars(mid.plan, parents, gone)
      /\ needed => Landing(mid.plan) # {}
  BY <1>1, <1>3, LandedStays, MatchedStays DEF ArePars, Landing
<1>5. Works(p, mid.plan, F, S, gone)
  BY <1>1, <1>3, WorksOn
<1>6. ASSUME IsAcc(new), Works(mid.plan, new.plan, F, S, gone), new.landed = mid.landed, new.plan.feature = mid.plan.feature,
             Took(acc, new, "feature"), Took(acc, new, "story"), Took(acc, new, "list")
      PROVE  GoesOn(p, new, maps, R \ {k}, F, S, gone, parents, needed)
  <2> HIDE DEF new
  <2>1. Room(new, R \ {k})
    <3>1. \A table \in {"feature", "story", "list"} : Took(acc, new, table)
      BY <1>6
    <3> QED  BY <1>1, <3>1, RoomLeft
  <2>2. Landed(new, gone) /\ Matched(new.plan, maps, gone) /\ Works(p, new.plan, F, S, gone)
    BY <1>4, <1>5, <1>6, LandedStays, MatchedStays, WorksOn
  <2>3. ArePars(new.plan, parents, gone) /\ (needed => Landing(new.plan) # {})
    BY <1>4, <1>6 DEF ArePars, Landing
  <2> QED  BY <1>6, <2>1, <2>2, <2>3 DEF Goes, GoesOn
<1>7. CASE row.uid \in DOMAIN known.story
  <2> DEFINE s == known.story[row.uid]
  <2>1. new = UpdateStory(mid, file, row, parents, s, preferred)
    BY <1>7 DEF UpsertStory
  <2> HIDE DEF s, new
  <2>2. IsAcc(new) /\ Works(mid.plan, new.plan, F, S, gone) /\ SameButStories(mid, new)
    BY <1>3, <2>1, StoryUpdated
  <2>3. Took(acc, new, "feature") /\ Took(acc, new, "story") /\ Took(acc, new, "list")
    BY <1>3, <2>2 DEF Took, SameButStories
  <2>4. new.landed = mid.landed /\ new.plan.feature = mid.plan.feature
    BY <2>2 DEF SameButStories
  <2> USE DEF new
  <2> QED  BY <1>6, <2>2, <2>3, <2>4 DEF mid
<1>8. CASE row.uid \notin DOMAIN known.story
  <2> DEFINE home == IF row.parent \in DOMAIN parents THEN Target(mid.plan, parents[row.parent], preferred)
                     ELSE CHOOSE f \in Landing(mid.plan) : TRUE
             state == RowState(mid, file, row.kind, row.state, Nothing)
             bare == NewStory(home, row.uid, row.kind, state)
             story == Tally(mid, file, row, bare, Nothing)
  <2>0. IsPlan(mid.plan)
    BY <1>3 DEF IsAcc
  <2>1. new = Insert(mid, "story", story)
    BY <1>8 DEF UpsertStory, CreateStory
  <2>2. home \in Ids /\ (gone = {} => home \in DOMAIN mid.plan.feature)
    <3>1. CASE row.parent \in DOMAIN parents
      BY <1>4, <2>0, <3>1, TargetIsThere
    <3>2. CASE row.parent \notin DOMAIN parents
      <4>1. Landing(mid.plan) # {}
        BY <1>4, <1>8, <3>2
      <4>2. home \in Landing(mid.plan)
        BY <3>2, <4>1
      <4> HIDE DEF home
      <4> QED  BY <2>0, <4>2, PlanTables DEF Landing
    <3> QED  BY <3>1, <3>2
  <2> HIDE DEF home, new
  <2>3. state \in Refs /\ IsStateFor(mid.plan, row.kind, state)
    <3>1. Nothing \in Refs /\ IsStateFor(mid.plan, row.kind, Nothing)
      BY DEF Refs, IsStateFor
    <3> QED  BY <1>2, <1>3, <3>1, RowStateStands
  <2> HIDE DEF state
  <2>4. /\ bare \in StoryRows /\ bare.feature = home /\ bare.uid = row.uid /\ bare.kind = row.kind
        /\ bare.state = state /\ bare.date = Nothing
    BY <1>2, <2>2, <2>3 DEF NewStory, StoryRows
  <2> HIDE DEF bare
  <2>5. /\ story \in StoryRows /\ story.feature = bare.feature /\ story.uid = bare.uid /\ story.kind = bare.kind /\ story.state = bare.state
        /\ (IsDone(mid.plan, Nothing) <=> bare.date # Nothing) => (IsDone(mid.plan, bare.state) <=> story.date # Nothing)
    BY <1>3, <2>4, Tallied
  <2>6. ~ IsDone(mid.plan, Nothing)
    BY <2>0, NothingIsNotDone
  <2> HIDE DEF story
  <2>7. HasSpare(mid, "story")
    BY <1>0, <1>3 DEF HasSpare
  <2>8. /\ story.uid \in S \cup {Nothing} /\ (gone = {} => story.feature \in DOMAIN mid.plan.feature)
        /\ IsStateFor(mid.plan, story.kind, story.state) /\ (IsDone(mid.plan, story.state) <=> story.date # Nothing)
    BY <2>2, <2>3, <2>4, <2>5, <2>6
  <2>9. /\ IsAcc(new) /\ Works(mid.plan, new.plan, F, S, gone) /\ new.landed = mid.landed
        /\ new.plan.feature = mid.plan.feature /\ new.plan.list = mid.plan.list
        /\ new.spare.feature = mid.spare.feature /\ new.spare.list = mid.spare.list
        /\ Took(mid, new, "story")
    <3>1. /\ IsAcc(mid) /\ HasSpare(mid, "story") /\ story \in StoryRows /\ story.uid \in S \cup {Nothing}
          /\ (gone = {} => story.feature \in DOMAIN mid.plan.feature)
          /\ IsStateFor(mid.plan, story.kind, story.state) /\ (IsDone(mid.plan, story.state) <=> story.date # Nothing)
      BY <1>3, <2>5, <2>7, <2>8
    <3> DEFINE next == Insert(mid, "story", story)
    <3>2. new = next
      BY <2>1
    <3> HIDE DEF new
    <3>3. /\ IsAcc(next) /\ Works(mid.plan, next.plan, F, S, gone) /\ next.landed = mid.landed
          /\ next.plan.feature = mid.plan.feature /\ next.plan.list = mid.plan.list
          /\ next.spare.feature = mid.spare.feature /\ next.spare.list = mid.spare.list
          /\ Took(mid, next, "story")
      <4> HIDE DEF mid
      <4> QED  BY <3>1, StoryInserted
    <3> HIDE DEF next
    <3> QED  BY <3>2, <3>3
  <2>10. Took(acc, new, "feature") /\ Took(acc, new, "story") /\ Took(acc, new, "list")
    BY <1>3, <2>9 DEF Took
  <2> USE DEF new
  <2> QED  BY <1>6, <2>9, <2>10 DEF mid
<1> QED  BY <1>7, <1>8 DEF mid

\* The placeholder is there when a story will need it.
LEMMA LandingGoes ==
  ASSUME NEW p, NEW acc, NEW maps, NEW R, IsFiniteSet(R), NEW F, NEW S, NEW gone, NEW parents,
         Goes(p, acc, maps, R, F, S, gone), ArePars(acc.plan, parents, gone), NEW k \in R, NEW rows, NEW known
  PROVE  GoesOn(p, WithLanding(acc, rows, known, parents), maps, R \ {k}, F, S, gone, parents, NeedsLanding(rows, known, parents))
<1> DEFINE new == WithLanding(acc, rows, known, parents)
           needed == NeedsLanding(rows, known, parents)
           row == [NewFeature(Nothing, Nothing) EXCEPT !.unassigned = TRUE]
<1>1. IsAcc(acc) /\ Room(acc, R) /\ Landed(acc, gone) /\ Matched(acc.plan, maps, gone) /\ Works(p, acc.plan, F, S, gone)
  BY DEF Goes
<1>2. HasSpare(acc, "feature")
  BY <1>1, RoomHasSpare
<1>3. CASE needed /\ Landing(acc.plan) = {}
  <2>1. new = Insert(acc, "feature", row)
    BY <1>3 DEF WithLanding
  <2>2. /\ row \in FeatureRows /\ row.uid = Nothing /\ row.origin = Nothing /\ row.pi = Nothing /\ row.unassigned
        /\ IsStateFor(acc.plan, "feature", row.state)
    BY DEF NewFeature, FeatureRows, BusinessIds, Refs, IsStateFor
  <2> HIDE DEF row, new, needed
  <2> DEFINE id == Least(acc.spare.feature)
  <2>3. /\ IsAcc(new) /\ Works(acc.plan, new.plan, F, S, gone) /\ new.landed = acc.landed
        /\ new.plan.story = acc.plan.story /\ new.plan.list = acc.plan.list
        /\ new.spare.story = acc.spare.story /\ new.spare.list = acc.spare.list
        /\ Took(acc, new, "feature")
        /\ id \in DOMAIN new.plan.feature /\ new.plan.feature[id] = row
    BY <1>1, <1>2, <2>1, <2>2, FeatureInserted
  <2> HIDE DEF id
  <2>4. Room(new, R \ {k})
    <3>1. Took(acc, new, "story") /\ Took(acc, new, "list")
      BY <2>3 DEF Took
    <3>2. \A table \in {"feature", "story", "list"} : Took(acc, new, table)
      BY <2>3, <3>1
    <3> QED  BY <1>1, <3>2, RoomLeft
  <2>5. Landed(new, gone) /\ Matched(new.plan, maps, gone) /\ Works(p, new.plan, F, S, gone)
    BY <1>1, <2>3, LandedStays, MatchedStays, WorksOn
  <2>6. ArePars(new.plan, parents, gone)
    BY <2>3 DEF ArePars, Works
  <2>7. Landing(new.plan) # {}
    BY <2>2, <2>3 DEF Landing
  <2>8. GoesOn(p, new, maps, R \ {k}, F, S, gone, parents, needed)
    BY <2>3, <2>4, <2>5, <2>6, <2>7 DEF Goes, GoesOn
  <2> QED  BY <2>8 DEF new, needed
<1>4. CASE ~ (needed /\ Landing(acc.plan) = {})
  <2>1. new = acc
    BY <1>4 DEF WithLanding
  <2>2. Goes(p, acc, maps, R \ {k}, F, S, gone)
    BY GoesWithFewer
  <2> HIDE DEF needed, new
  <2>3. GoesOn(p, new, maps, R \ {k}, F, S, gone, parents, needed)
    BY <1>4, <2>1, <2>2 DEF GoesOn
  <2> QED  BY <2>3 DEF new, needed
<1> QED  BY <1>3, <1>4

\* The stories still to come when those of the first k rows are in.
StoriesLeft(rows, k) == {i \in 1 .. Len(rows) : i > k /\ IsStory(rows[i])}

\* The loop over the stories of the file, after the placeholder was made if one will need it.
LEMMA StoriesGo ==
  ASSUME NEW p, NEW acc, NEW maps, NEW file, file.rows \in Seq(FileRows), NEW F, NEW S, NEW gone, NEW rows, NEW known,
         NEW parents, NEW preferred,
         Goes(p, acc, maps, RowsLeft(file.rows, Len(file.rows)), F, S, gone), ArePars(acc.plan, parents, gone),
         \A row \in rows : IsStory(row) => row.uid \in S \cup {Nothing},
         NEW upTo, StoryRun(upTo, acc, file, rows, known, parents, preferred)
  PROVE  \A k \in 0 .. Len(file.rows) :
            GoesOn(p, upTo[k], maps, StoriesLeft(file.rows, k), F, S, gone, parents, NeedsLanding(rows, known, parents))
<1> DEFINE n == Len(file.rows)
           needed == NeedsLanding(rows, known, parents)
           first == WithLanding(acc, rows, known, parents)
           Step(a, k) == StoryOfRow(a, file, rows, file.rows[k], known, parents, preferred)
           Left(k) == StoriesLeft(file.rows, k)
<1>0. n \in Nat /\ \A k \in 1 .. n : file.rows[k] \in FileRows
  OBVIOUS
<1>1. GoesOn(p, first, maps, Left(0), F, S, gone, parents, needed)
  <2>1. 0 \in RowsLeft(file.rows, n) /\ RowsLeft(file.rows, n) \ {0} = Left(0)
    BY <1>0 DEF RowsLeft, StoriesLeft
  <2>2. IsFiniteSet(RowsLeft(file.rows, n))
    <3>1. IsFiniteSet(0 .. n) /\ RowsLeft(file.rows, n) \subseteq 0 .. n
      BY <1>0, FS_Interval DEF RowsLeft
    <3> QED  BY <3>1, FS_Subset
  <2>3. GoesOn(p, first, maps, RowsLeft(file.rows, n) \ {0}, F, S, gone, parents, needed)
    BY <2>1, <2>2, LandingGoes
  <2> HIDE DEF first, needed, Left
  <2> QED  BY <2>1, <2>3
<1>5. upTo[0] = first /\ \A k \in 1 .. n : upTo[k] = Step(upTo[k - 1], k)
  BY DEF StoryRun
<1> HIDE DEF n, Step, first, needed, Left
<1> DEFINE H == {k \in 0 .. n : GoesOn(p, upTo[k], maps, Left(k), F, S, gone, parents, needed)}
<1>6. \A k \in 0 .. n : IsFiniteSet(Left(k))
  <2>1. IsFiniteSet(1 .. n) /\ \A k \in 0 .. n : Left(k) \subseteq 1 .. n
    BY <1>0, FS_Interval DEF Left, StoriesLeft, n
  <2> QED  BY <2>1, FS_Subset
<1>7. 0 \in H
  BY <1>0, <1>1, <1>5
<1>8. ASSUME NEW k \in 1 .. n, k - 1 \in H
      PROVE  k \in H
  <2> DEFINE row == file.rows[k]
             a == upTo[k - 1]
  <2>1. /\ GoesOn(p, a, maps, Left(k - 1), F, S, gone, parents, needed) /\ row \in FileRows
        /\ upTo[k] = Step(a, k) /\ IsFiniteSet(Left(k - 1))
    BY <1>0, <1>5, <1>6, <1>8
  <2>2. (IsStory(row) => k \in Left(k - 1) /\ Left(k) = Left(k - 1) \ {k}) /\ (~ IsStory(row) => Left(k) = Left(k - 1)) /\ Left(k) \subseteq Left(k - 1)
    BY <1>0 DEF Left, StoriesLeft, n
  <2>3. Step(a, k) = IF IsStory(row) /\ row \in rows
                     THEN UpsertStory(WithState(a, file, row.kind, row.state), file, row, known, parents, preferred) ELSE a
    BY DEF Step, StoryOfRow
  <2> HIDE DEF row, a
  <2>4. CASE IsStory(row) /\ row \in rows
    <3>1. row.uid \in S \cup {Nothing}
      BY <2>4
    <3>2. row.uid \notin DOMAIN known.story /\ row.parent \notin DOMAIN parents => needed
      BY <2>4 DEF needed, NeedsLanding
    <3>3. k \in Left(k - 1)
      BY <2>2, <2>4
    <3>4. GoesOn(p, UpsertStory(WithState(a, file, row.kind, row.state), file, row, known, parents, preferred),
                 maps, Left(k - 1) \ {k}, F, S, gone, parents, needed)
      BY <2>1, <2>4, <3>1, <3>2, <3>3, StoryRowGoes
    <3>5. GoesOn(p, upTo[k], maps, Left(k), F, S, gone, parents, needed)
      BY <2>1, <2>2, <2>3, <2>4, <3>4
    <3> QED  BY <1>0, <3>5
  <2>5. CASE ~ (IsStory(row) /\ row \in rows)
    <3>1. Goes(p, a, maps, Left(k), F, S, gone)
      BY <2>1, <2>2, GoesWithFewer DEF GoesOn
    <3>2. GoesOn(p, a, maps, Left(k), F, S, gone, parents, needed)
      BY <2>1, <3>1 DEF GoesOn
    <3>3. upTo[k] = a
      BY <2>1, <2>3, <2>5
    <3> QED  BY <1>0, <3>2, <3>3
  <2> QED  BY <2>4, <2>5
<1>9. ASSUME NEW m \in 0 .. n
      PROVE  m \in H
  <2> HIDE DEF H
  <2>1. m \in Nat /\ \A k \in 1 .. m : k - 1 \in H => k \in H
    BY <1>0, <1>8
  <2> QED  BY <1>7, <2>1, InductionUpTo
<1> QED  BY <1>9 DEF n, Left, needed

-----------------------------------------------------------------------------
(* The import as a whole                                                   *)

\* Some features and stories fewer.
Shrunk(p, q) ==
    /\ q.list = p.list /\ q.path = p.path /\ q.pi = p.pi
    /\ \A f \in DOMAIN q.feature : f \in DOMAIN p.feature /\ q.feature[f] = p.feature[f]
    /\ \A s \in DOMAIN q.story : s \in DOMAIN p.story /\ q.story[s] = p.story[s]

\* Fewer items make no double.
LEMMA DistinctShrinks ==
  ASSUME NEW p, NEW q, Shrunk(p, q), Distinct(p)
  PROVE  Distinct(q)
<1>1. ASSUME NEW x \in ({"feature"} \X DOMAIN q.feature) \cup ({"story"} \X DOMAIN q.story)
      PROVE  /\ x \in ({"feature"} \X DOMAIN p.feature) \cup ({"story"} \X DOMAIN p.story)
             /\ q[x[1]][x[2]].uid = p[x[1]][x[2]].uid
  BY DEF Shrunk
<1>2. InProgress(q) = InProgress(p)
  BY DEF Shrunk, InProgress
<1>3. \A x, y \in ({"feature"} \X DOMAIN q.feature) \cup ({"story"} \X DOMAIN q.story) :
         q[x[1]][x[2]].uid = q[y[1]][y[2]].uid /\ q[x[1]][x[2]].uid # Nothing => x = y
  <2> SUFFICES ASSUME NEW x \in ({"feature"} \X DOMAIN q.feature) \cup ({"story"} \X DOMAIN q.story),
                      NEW y \in ({"feature"} \X DOMAIN q.feature) \cup ({"story"} \X DOMAIN q.story),
                      q[x[1]][x[2]].uid = q[y[1]][y[2]].uid, q[x[1]][x[2]].uid # Nothing
               PROVE  x = y
    OBVIOUS
  <2>1. p[x[1]][x[2]].uid = p[y[1]][y[2]].uid /\ p[x[1]][x[2]].uid # Nothing
    BY <1>1
  <2>2. /\ x \in ({"feature"} \X DOMAIN p.feature) \cup ({"story"} \X DOMAIN p.story)
        /\ y \in ({"feature"} \X DOMAIN p.feature) \cup ({"story"} \X DOMAIN p.story)
    BY <1>1
  <2> QED  BY <2>1, <2>2 DEF Distinct
<1> QED  BY <1>2, <1>3 DEF Distinct, Shrunk

\* Fewer, and fewer again.
LEMMA ShrunkOn ==
  ASSUME NEW p, NEW q, NEW r, Shrunk(p, q), Shrunk(q, r)
  PROVE  Shrunk(p, r)
BY DEF Shrunk

\* Stories dropped.
LEMMA StoriesShrunk ==
  ASSUME NEW p, IsPlan(p), NEW T
  PROVE  Shrunk(p, Drop(p, "story", T))
<1> DEFINE q == Drop(p, "story", T)
<1>1. /\ q.feature = p.feature /\ q.list = p.list /\ q.pi = p.pi /\ q.path = p.path
      /\ DOMAIN q.story = DOMAIN p.story \ T /\ \A s \in DOMAIN p.story \ T : q.story[s] = p.story[s]
  BY StoriesDropped
<1> HIDE DEF q
<1> QED  BY <1>1 DEF Shrunk, q

\* Features dropped.
LEMMA FeaturesShrunk ==
  ASSUME NEW p, IsPlan(p), NEW gone
  PROVE  Shrunk(p, Drop(p, "feature", gone))
<1> DEFINE rows == Without(p.feature, gone)
           q == [p EXCEPT !.feature = rows]
<1>1. p = [table \in Tables |-> p[table]] /\ IsTable(p.feature, Ids, FeatureRows)
  BY PlanTables DEF IsPlan
<1>2. Drop(p, "feature", gone) = q
  BY <1>1, PutOneTable
<1>3. DOMAIN rows = DOMAIN p.feature \ gone /\ \A f \in DOMAIN p.feature \ gone : rows[f] = p.feature[f]
  BY <1>1, RowsDropped
<1> HIDE DEF rows
<1>4. q.feature = rows /\ q.story = p.story /\ q.list = p.list /\ q.pi = p.pi /\ q.path = p.path
  BY <1>1, OneTable
<1> HIDE DEF q
<1> QED  BY <1>2, <1>3, <1>4 DEF Shrunk

\* _apply_removals
LEMMA RemovedSound ==
  ASSUME NEW p, IsPlan(p), NEW removals
  PROVE  LET q == Removed(p, removals)
         IN IsPlan(q) /\ Shrunk(p, q) /\ (Stands(p) => Stands(q)) /\ (Stands(p) /\ Dated(p) => Dated(q))
<1> DEFINE F == {f \in DOMAIN p.feature : <<"feature", f>> \in removals}
           gone == F \cup Descendants(p, F)
           bare == Drop(p, "story", StoriesUnder(p, gone))
           rest == Drop(bare, "feature", gone)
           T == {s \in DOMAIN p.story : <<"story", s>> \in removals}
           q == Drop(rest, "story", T)
<1>1. Removed(p, removals) = q
  BY DEF Removed, DeleteFeatures
<1> HIDE DEF gone, T
<1>2. IsPlan(bare)
  BY StoriesDropped
<1>3. Shrunk(p, bare)
  BY StoriesShrunk
<1>4. IsPlan(rest) /\ Sound(p, rest)
  BY DeleteFeaturesSound
<1>5. Shrunk(bare, rest)
  <2> HIDE DEF bare
  <2> QED  BY <1>2, FeaturesShrunk
<1> HIDE DEF bare, rest
<1>6. IsPlan(q) /\ Sound(rest, q) /\ Shrunk(rest, q)
  BY <1>4, StoriesDropped, StoriesShrunk
<1> HIDE DEF q
<1>7. Shrunk(p, rest) /\ Shrunk(p, q)
  BY <1>3, <1>5, <1>6, ShrunkOn
<1>8. DoneKept(p, rest) /\ DoneKept(rest, q)
  BY <1>6, <1>7 DEF DoneKept, Shrunk
<1> QED  BY <1>1, <1>4, <1>6, <1>7, <1>8 DEF Sound

FeatureUids(file, maps) == {row.uid : row \in {r \in Imported(file, maps) : IsFeature(r)}}
StoryUids(file, maps) == {row.uid : row \in {r \in Imported(file, maps) : IsStory(r)}}

\* The ids that an import of the file may give out.
Spares(p, spare, file) ==
    /\ spare = [table \in Tables \ {"path"} |-> spare[table]]
    /\ \A table \in {"feature", "story", "list"} :
         spare[table] \subseteq Ids /\ spare[table] \cap DOMAIN p[table] = {} /\ Cardinality(spare[table]) > Len(file.rows)

\* The stories that rows may name when the features of the file are in.
KnownAfter(file, maps) ==
    [maps EXCEPT !.story = Without(@, {row.uid : row \in {r \in Imported(file, maps) : IsFeature(r)}})]

\* The import in its parts: the features row by row, their places, the stories row by row.
ImportRun(p, file, maps, spare, preferred, g, placed, h) ==
    /\ FeatureRun(g, [plan |-> Promotions(p, file, maps), landed |-> <<>>, spare |-> spare], file, maps)
    /\ placed = PlaceFromIterations(g[Len(file.rows)], file)
    /\ StoryRun(h, placed, file, Imported(file, maps), KnownAfter(file, maps), ParentLookup(placed, maps), preferred)
    /\ ImportRows(p, file, maps, spare, preferred) = h[Len(file.rows)].plan

\* Every import runs so.
LEMMA ImportRuns ==
  ASSUME NEW p, NEW file, file.rows \in Seq(FileRows), NEW maps, NEW spare, NEW preferred
  PROVE  \E g, placed, h : ImportRun(p, file, maps, spare, preferred, g, placed, h)
<1> DEFINE acc == [plan |-> Promotions(p, file, maps), landed |-> <<>>, spare |-> spare]
           features == UpsertFeatures(acc, file, maps)
           placed == PlaceFromIterations(features, file)
           rows == Imported(file, maps)
           known == KnownAfter(file, maps)
           parents == ParentLookup(placed, maps)
           n == Len(file.rows)
<1>1. ImportRows(p, file, maps, spare, preferred) = UpsertStories(placed, file, rows, known, parents, preferred).plan
  BY DEF ImportRows, KnownAfter
<1> HIDE DEF acc, rows, known, n
<1>2. PICK g : FeatureRun(g, acc, file, maps) /\ features = g[n]
  BY FeaturesRun DEF n
<1> HIDE DEF features
<1>3. placed = PlaceFromIterations(g[n], file)
  BY <1>2
<1> HIDE DEF placed, parents
<1>4. PICK h : StoryRun(h, placed, file, rows, known, parents, preferred) /\ UpsertStories(placed, file, rows, known, parents, preferred) = h[n]
  BY StoriesRun DEF n
<1>5. ImportRows(p, file, maps, spare, preferred) = h[n].plan
  BY <1>1, <1>4
<1>6. ImportRun(p, file, maps, spare, preferred, g, placed, h)
  BY <1>2, <1>3, <1>4, <1>5 DEF ImportRun, acc, rows, known, parents, n
<1> QED  BY <1>6

\* The stories that are promoted leave, the rest of the plan stays.
LEMMA PromotionsLeave ==
  ASSUME NEW p, IsPlan(p), NEW file, NEW maps
  PROVE  LET base == Promotions(p, file, maps)
             T == {maps.story[row.uid] : row \in {r \in Range(file.rows) : Promotes(r, maps) /\ file.retype}}
         IN /\ IsPlan(base) /\ base.feature = p.feature /\ base.list = p.list /\ base.pi = p.pi /\ base.path = p.path
            /\ DOMAIN base.story = DOMAIN p.story \ T /\ (\A s \in DOMAIN p.story \ T : base.story[s] = p.story[s])
            /\ Stands(p) => Stands(base)
<1> DEFINE T == {maps.story[row.uid] : row \in {r \in Range(file.rows) : Promotes(r, maps) /\ file.retype}}
<1>1. Promotions(p, file, maps) = Drop(p, "story", T)
  BY DEF Promotions
<1> DEFINE base == Promotions(p, file, maps)
<1> HIDE DEF T, base
<1>2. base = Drop(p, "story", T)
  BY <1>1 DEF base
<1>3. LET q == Drop(p, "story", T)
      IN /\ IsPlan(q) /\ Unlooped(p, q) /\ Sound(p, q) /\ q.feature = p.feature /\ q.list = p.list /\ q.pi = p.pi /\ q.path = p.path
         /\ DOMAIN q.story = DOMAIN p.story \ T /\ \A s \in DOMAIN p.story \ T : q.story[s] = p.story[s]
  BY StoriesDropped
<1>4. /\ IsPlan(base) /\ base.feature = p.feature /\ base.list = p.list /\ base.pi = p.pi /\ base.path = p.path
      /\ DOMAIN base.story = DOMAIN p.story \ T /\ (\A s \in DOMAIN p.story \ T : base.story[s] = p.story[s])
      /\ Stands(p) => Stands(base)
  BY <1>2, <1>3 DEF Sound
<1> QED  BY <1>4 DEF base, T

\* What every part of the import keeps.
PartsGo(base, file, maps, gone, g, placed, h) ==
    LET F == FeatureUids(file, maps)
        S == StoryUids(file, maps)
        parents == ParentLookup(placed, maps)
    IN /\ \A k \in 0 .. Len(file.rows) : Goes(base, g[k], maps, RowsLeft(file.rows, k), F, S, gone)
       /\ Goes(base, placed, maps, RowsLeft(file.rows, Len(file.rows)), F, S, gone)
       /\ \A k \in 0 .. Len(file.rows) :
            GoesOn(base, h[k], maps, StoriesLeft(file.rows, k), F, S, gone, parents,
                   NeedsLanding(Imported(file, maps), KnownAfter(file, maps), parents))

\* Each of the three loops keeps them.
LEMMA ImportGoes ==
  ASSUME NEW p, IsPlan(p), NEW file, file.rows \in Seq(FileRows), NEW maps, NEW spare, Spares(p, spare, file), NEW preferred, NEW gone,
         Matched(p, maps, gone), NEW g, NEW placed, NEW h, ImportRun(p, file, maps, spare, preferred, g, placed, h)
  PROVE  PartsGo(Promotions(p, file, maps), file, maps, gone, g, placed, h)
<1> DEFINE F == FeatureUids(file, maps)
           S == StoryUids(file, maps)
           base == Promotions(p, file, maps)
           acc == [plan |-> base, landed |-> <<>>, spare |-> spare]
           rows == Imported(file, maps)
           known == KnownAfter(file, maps)
           parents == ParentLookup(placed, maps)
           n == Len(file.rows)
           left == RowsLeft(file.rows, n)
<1>0. n \in Nat
  OBVIOUS
<1>1. IsPlan(base) /\ base.feature = p.feature /\ base.list = p.list /\ DOMAIN base.story \subseteq DOMAIN p.story
  <2> HIDE DEF base
  <2> QED  BY PromotionsLeave DEF base
<1> HIDE DEF base
<1>2. /\ FeatureRun(g, acc, file, maps) /\ placed = PlaceFromIterations(g[n], file)
      /\ StoryRun(h, placed, file, rows, known, parents, preferred)
  BY DEF ImportRun, base
<1>3. Goes(base, acc, maps, 0 .. n, F, S, gone)
  <2>0. acc.plan = base /\ acc.spare = spare /\ acc.landed = <<>> /\ acc = [plan |-> acc.plan, landed |-> acc.landed, spare |-> acc.spare]
    OBVIOUS
  <2> HIDE DEF acc, F, S
  <2>1. IsAcc(acc)
    BY <1>1, <2>0 DEF IsAcc, Spares
  <2>2. Cardinality(0 .. n) = n + 1
    BY <1>0, FS_Interval
  <2>3. Room(acc, 0 .. n)
    <3> SUFFICES ASSUME NEW table \in {"feature", "story", "list"}
                 PROVE  /\ acc.spare[table] \subseteq Ids /\ acc.spare[table] \cap DOMAIN acc.plan[table] = {}
                        /\ Cardinality(0 .. n) <= Cardinality(acc.spare[table])
      BY DEF Room
    <3>1. spare[table] \subseteq Ids /\ spare[table] \cap DOMAIN p[table] = {} /\ Cardinality(spare[table]) > n
      BY DEF Spares
    <3>2. Cardinality(spare[table]) \in Nat
      BY <3>1, IdsAreNumbers, FS_Subset, FS_CardinalityType
    <3>3. Cardinality(0 .. n) <= Cardinality(spare[table])
      BY <1>0, <2>2, <3>1, <3>2
    <3>4. DOMAIN base[table] \subseteq DOMAIN p[table]
      BY <1>1
    <3> HIDE DEF n
    <3> QED  BY <2>0, <3>1, <3>3, <3>4
  <2>4. Landed(acc, gone)
    BY <2>0 DEF Landed
  <2>5. Matched(base, maps, gone)
    BY <1>1 DEF Matched
  <2> QED  BY <2>0, <2>1, <2>3, <2>4, <2>5, WorksOnItself DEF Goes
<1> HIDE DEF acc
<1>4. \A k \in 0 .. n : Goes(base, g[k], maps, RowsLeft(file.rows, k), F, S, gone)
  <2>1. \A row \in Imported(file, maps) : IsFeature(row) => row.uid \in F \cup {Nothing}
    BY DEF FeatureUids
  <2> HIDE DEF F, S, n
  <2> QED  BY <1>2, <1>3, <2>1, FeaturesGo DEF n
<1>5. Goes(base, placed, maps, left, F, S, gone)
  <2> HIDE DEF F, S, n, rows, known, parents
  <2>1. Goes(base, g[n], maps, left, F, S, gone)
    BY <1>0, <1>4
  <2> HIDE DEF left
  <2> QED  BY <1>2, <2>1, PlacementWorks
<1>6. ArePars(placed.plan, parents, gone)
  <2>1. IsAcc(placed) /\ Landed(placed, gone) /\ Matched(placed.plan, maps, gone)
    BY <1>5 DEF Goes
  <2>2. \A uid \in DOMAIN parents : parents[uid] \in Ids /\ (gone = {} => parents[uid] \in DOMAIN placed.plan.feature)
    BY <2>1, ParentsAreFeatures
  <2> HIDE DEF parents
  <2> QED  BY <2>2 DEF ArePars
<1> HIDE DEF parents, known
<1>7. \A row \in rows : IsStory(row) => row.uid \in S \cup {Nothing}
  BY DEF StoryUids
<1> HIDE DEF rows, F, S
<1>8. \A k \in 0 .. n : GoesOn(base, h[k], maps, StoriesLeft(file.rows, k), F, S, gone, parents, NeedsLanding(rows, known, parents))
  <2>1. Goes(base, placed, maps, RowsLeft(file.rows, Len(file.rows)), F, S, gone)
    BY <1>5
  <2>2. StoryRun(h, placed, file, rows, known, parents, preferred)
    BY <1>2
  <2> HIDE DEF left
  <2> QED  BY <1>6, <1>7, <2>1, <2>2, StoriesGo
<1>9. PartsGo(base, file, maps, gone, g, placed, h)
  BY <1>4, <1>5, <1>8 DEF PartsGo, F, S, parents, rows, known
<1> QED  BY <1>9 DEF base

\* The three loops, one after the other, from the plan without the promoted stories.
LEMMA RowsWork ==
  ASSUME NEW p, IsPlan(p), NEW file, file.rows \in Seq(FileRows), NEW maps, NEW spare, Spares(p, spare, file), NEW preferred, NEW gone,
         Matched(p, maps, gone)
  PROVE  LET q == ImportRows(p, file, maps, spare, preferred)
         IN /\ IsPlan(q) /\ IsPlan(Promotions(p, file, maps))
            /\ Works(Promotions(p, file, maps), q, FeatureUids(file, maps), StoryUids(file, maps), gone)
<1> DEFINE n == Len(file.rows)
           base == Promotions(p, file, maps)
           parents(placed) == ParentLookup(placed, maps)
<1>0. n \in 0 .. n /\ IsPlan(base)
  <2>1. n \in Nat
    OBVIOUS
  <2> HIDE DEF base, n
  <2> QED  BY <2>1, PromotionsLeave DEF base
<1>1. PICK g, placed, h : ImportRun(p, file, maps, spare, preferred, g, placed, h)
  BY ImportRuns
<1> HIDE DEF base, n, parents
<1>2. PartsGo(base, file, maps, gone, g, placed, h)
  BY <1>1, ImportGoes DEF base
<1>3. GoesOn(base, h[n], maps, StoriesLeft(file.rows, n), FeatureUids(file, maps), StoryUids(file, maps), gone, parents(placed),
             NeedsLanding(Imported(file, maps), KnownAfter(file, maps), parents(placed)))
  BY <1>0, <1>2 DEF PartsGo, n, parents
<1>4. IsPlan(h[n].plan) /\ Works(base, h[n].plan, FeatureUids(file, maps), StoryUids(file, maps), gone)
  BY <1>3 DEF GoesOn, Goes, IsAcc
<1>5. ImportRows(p, file, maps, spare, preferred) = h[n].plan
  BY <1>1 DEF ImportRun, n
<1> QED  BY <1>0, <1>4, <1>5 DEF base

\* The ids that business ids stand for.
LEMMA ExistingMatched ==
  ASSUME NEW p, IsPlan(p)
  PROVE  /\ Matched(p, FetchExisting(p), {})
         /\ DOMAIN FetchExisting(p).feature = UidsOf(p.feature) /\ DOMAIN FetchExisting(p).story = UidsOf(p.story)
         /\ \A uid \in UidsOf(p.story) : FetchExisting(p).story[uid] \in DOMAIN p.story /\ p.story[FetchExisting(p).story[uid]].uid = uid
<1>1. ASSUME NEW rows, NEW uid \in UidsOf(rows)
      PROVE  IdsByUid(rows)[uid] \in DOMAIN rows /\ rows[IdsByUid(rows)[uid]].uid = uid
  <2> DEFINE x == CHOOSE x \in DOMAIN rows : rows[x].uid = uid
  <2>1. \E y \in DOMAIN rows : rows[y].uid = uid
    BY DEF UidsOf
  <2>2. x \in DOMAIN rows /\ rows[x].uid = uid
    BY <2>1
  <2>3. IdsByUid(rows)[uid] = x
    BY DEF IdsByUid
  <2> HIDE DEF x
  <2> QED  BY <2>2, <2>3
<1>2. \A rows : DOMAIN IdsByUid(rows) = UidsOf(rows)
  BY DEF IdsByUid
<1>3. FetchExisting(p).feature = IdsByUid(p.feature) /\ FetchExisting(p).story = IdsByUid(p.story)
  BY DEF FetchExisting
<1>4. \A uid \in UidsOf(p.feature) : IdsByUid(p.feature)[uid] \in DOMAIN p.feature
  BY <1>1
<1>5. \A f \in DOMAIN p.feature : f \in Ids
  BY PlanTables
<1> QED  BY <1>1, <1>2, <1>3, <1>4, <1>5 DEF Matched

\* A file whose rows are told apart does not give a feature and a story one business id.
LEMMA ImportKeepsUidsApart ==
  ASSUME NEW p, IsPlan(p), Distinct(p), NEW file, file.rows \in Seq(FileRows), ValidRows(file.rows),
         NEW maps, maps = FetchExisting(p), NEW q, NEW gone,
         Works(Promotions(p, file, maps), q, FeatureUids(file, maps), StoryUids(file, maps), gone)
  PROVE  UidsApart(q)
<1> DEFINE base == Promotions(p, file, maps)
           T == {maps.story[row.uid] : row \in {r \in Range(file.rows) : Promotes(r, maps) /\ file.retype}}
           F == FeatureUids(file, maps)
           S == StoryUids(file, maps)
<1>1. base.feature = p.feature /\ DOMAIN base.story = DOMAIN p.story \ T /\ \A s \in DOMAIN p.story \ T : base.story[s] = p.story[s]
  <2>1. base = Drop(p, "story", T)
    BY DEF Promotions
  <2> HIDE DEF base, T
  <2> QED  BY <2>1, StoriesDropped
<1>2. UidsApart(p) /\ \A s, t \in DOMAIN p.story : p.story[s].uid = p.story[t].uid /\ p.story[s].uid # Nothing => s = t
  BY DistinctHas
<1>3. /\ DOMAIN maps.feature = UidsOf(p.feature) /\ DOMAIN maps.story = UidsOf(p.story)
      /\ \A uid \in UidsOf(p.story) : maps.story[uid] \in DOMAIN p.story /\ p.story[maps.story[uid]].uid = uid
  BY ExistingMatched
<1>4. /\ \A uid \in F : \E row \in Imported(file, maps) : IsFeature(row) /\ row.uid = uid
      /\ \A uid \in S : \E row \in Imported(file, maps) : IsStory(row) /\ row.uid = uid
  BY DEF FeatureUids, StoryUids
<1>5. \A row \in Imported(file, maps) : row \in Range(file.rows) /\ ~ Demotes(row, maps) /\ (Promotes(row, maps) => file.retype)
  BY DEF Imported
<1>6. UidsOf(q.feature) \subseteq UidsOf(base.feature) \cup F /\ UidsOf(q.story) \subseteq UidsOf(base.story) \cup S
  BY DEF Works
<1> HIDE DEF base, F, S
<1>7. UidsOf(base.story) \subseteq UidsOf(p.story)
  BY <1>1 DEF UidsOf
<1>8. ASSUME NEW uid \in UidsOf(q.feature) \cap UidsOf(q.story)
      PROVE  FALSE
  <2>0. uid # Nothing
    BY DEF UidsOf
  <2>1. CASE uid \in UidsOf(p.feature) /\ uid \in UidsOf(p.story)
    BY <1>2, <2>1 DEF UidsOf, UidsApart
  <2>2. CASE uid \in UidsOf(p.feature) /\ uid \in S
    BY <1>3, <1>4, <1>5, <2>2 DEF Demotes
  <2>3. CASE uid \in F /\ uid \in UidsOf(base.story)
    <3>1. PICK row \in Imported(file, maps) : IsFeature(row) /\ row.uid = uid
      BY <1>4, <2>3
    <3>2. Promotes(row, maps) /\ row \in Range(file.rows) /\ file.retype
      BY <1>3, <1>5, <1>7, <2>3, <3>1 DEF Promotes
    <3>3. maps.story[uid] \in T
      BY <3>1, <3>2
    <3> HIDE DEF T
    <3>4. PICK s \in DOMAIN p.story \ T : p.story[s].uid = uid
      BY <1>1, <2>3 DEF UidsOf
    <3>5. s = maps.story[uid]
      BY <1>2, <1>3, <1>7, <2>0, <2>3, <3>4
    <3> QED  BY <3>3, <3>4, <3>5
  <2>4. CASE uid \in F /\ uid \in S
    <3>1. PICK row \in Imported(file, maps) : IsFeature(row) /\ row.uid = uid
      BY <1>4, <2>4
    <3>2. PICK other \in Imported(file, maps) : IsStory(other) /\ other.uid = uid
      BY <1>4, <2>4
    <3>3. PICK i \in DOMAIN file.rows : file.rows[i] = row
      BY <1>5 DEF Range
    <3>4. PICK j \in DOMAIN file.rows : file.rows[j] = other
      BY <1>5 DEF Range
    <3>5. i \in Indices(file.rows) /\ j \in Indices(file.rows)
      BY <2>0, <3>1, <3>2, <3>3, <3>4 DEF Indices
    <3>6. i = j
      BY <3>1, <3>2, <3>3, <3>4, <3>5 DEF ValidRows
    <3> QED  BY <3>1, <3>2, <3>3, <3>4, <3>6 DEF IsFeature, IsStory
  <2> QED  BY <1>1, <1>6, <1>7, <2>1, <2>2, <2>3, <2>4
<1> QED  BY <1>8 DEF UidsOf, UidsApart

\* What an import keeps of the plan it starts from.
ImportKeeps(p, q) ==
    /\ IsPlan(q)
    /\ Stands(p) => Stands(q)
    /\ Stands(p) /\ Dated(p) => Dated(q)
    /\ Distinct(p) /\ UniqueKeys(q) => Distinct(q)

\* execute_import from the maps on, when these are of the plan it writes to.
LEMMA ImportRowsSound ==
  ASSUME NEW p, IsPlan(p), NEW file, file.rows \in Seq(FileRows), ValidRows(file.rows),
         NEW spare, Spares(p, spare, file), NEW preferred
  PROVE  ImportKeeps(p, ImportRows(p, file, FetchExisting(p), spare, preferred))
<1> DEFINE maps == FetchExisting(p)
           base == Promotions(p, file, maps)
           q == ImportRows(p, file, maps, spare, preferred)
           F == FeatureUids(file, maps)
           S == StoryUids(file, maps)
           T == {maps.story[row.uid] : row \in {r \in Range(file.rows) : Promotes(r, maps) /\ file.retype}}
<1>1. Matched(p, maps, {})
  BY ExistingMatched
<1>2. IsPlan(q) /\ Works(base, q, F, S, {})
  <2> HIDE DEF maps, F, S
  <2> QED  BY <1>1, RowsWork DEF F, S
<1>3. IsPlan(base) /\ Sound(p, base) /\ base.list = p.list /\ base.pi = p.pi /\ base.path = p.path
  <2>1. base = Drop(p, "story", T)
    BY DEF Promotions
  <2> HIDE DEF base, T
  <2> QED  BY <2>1, StoriesDropped
<1>4. Distinct(p) => UidsApart(q)
  <2> HIDE DEF q, maps
  <2> QED  BY <1>2, ImportKeepsUidsApart DEF maps
<1> HIDE DEF base, q, F, S
<1>5. (Stands(p) => Stands(q)) /\ (Stands(p) /\ Dated(p) => Dated(q))
  <2>1. DoneKept(p, base)
    BY <1>3 DEF DoneKept
  <2> QED  BY <1>2, <1>3, <2>1 DEF Works, Sound
<1>6. ASSUME Distinct(p), UniqueKeys(q)
      PROVE  Distinct(q)
  <2>1. PlacesOnce(p) /\ PathsOnce(p) /\ OneStarted(p)
    BY <1>6, DistinctHas
  <2>2. q.pi = p.pi /\ q.path = p.path /\ (PlacesOnce(base) => PlacesOnce(q))
    BY <1>2, <1>3 DEF Works
  <2>3. PlacesOnce(q) /\ PathsOnce(q) /\ OneStarted(q)
    BY <1>3, <2>1, <2>2 DEF PlacesOnce, PathsOnce, OneStarted, InProgress
  <2> QED  BY <1>2, <1>4, <1>6, <2>3, DistinctFrom
<1> QED  BY <1>2, <1>5, <1>6 DEF ImportKeeps, q, maps

\* An import in one go, with what it removes.
LEMMA ExecuteImportSound ==
  ASSUME NEW p, IsPlan(p), NEW file, file.rows \in Seq(FileRows), ValidRows(file.rows),
         NEW spare, Spares(p, spare, file), NEW preferred
  PROVE  ImportKeeps(p, ExecuteImport(p, file, spare, preferred))
<1> DEFINE r == Removed(p, file.removals)
           q == ImportRows(r, file, FetchExisting(r), spare, preferred)
<1>1. IsPlan(r) /\ Shrunk(p, r) /\ (Stands(p) => Stands(r)) /\ (Stands(p) /\ Dated(p) => Dated(r))
  BY RemovedSound
<1>2. ExecuteImport(p, file, spare, preferred) = q
  BY DEF ExecuteImport
<1> HIDE DEF r
<1>3. Spares(r, spare, file)
  <2>1. DOMAIN r.feature \subseteq DOMAIN p.feature /\ DOMAIN r.story \subseteq DOMAIN p.story /\ r.list = p.list
    BY <1>1 DEF Shrunk
  <2>2. \A table \in {"feature", "story", "list"} : DOMAIN r[table] \subseteq DOMAIN p[table]
    BY <2>1
  <2> QED  BY <2>2 DEF Spares
<1>4. ImportKeeps(r, q)
  BY <1>1, <1>3, ImportRowsSound
<1>5. Distinct(p) => Distinct(r)
  BY <1>1, DistinctShrinks
<1> HIDE DEF q
<1> QED  BY <1>1, <1>2, <1>4, <1>5 DEF ImportKeeps

-----------------------------------------------------------------------------
(* A file imported again                                                   *)

\* Features that continue one another, and none from outside, are none.
LEMMA NoClosedChain ==
  ASSUME NEW p, IsPlan(p), NEW chain \in SUBSET DOMAIN p.feature, \A f \in chain : p.feature[f].origin \in chain
  PROVE  chain = {}
<1> SUFFICES ASSUME chain # {} PROVE FALSE
  OBVIOUS
<1> DEFINE B == {S \in SUBSET chain : S # {} /\ \A f \in S : p.feature[f].origin \in S}
<1>1. IsFiniteSet(chain) /\ chain \in B
  BY IdsAreNumbers, PlanTables, FS_Subset DEF IsTable
<1> HIDE DEF B
<1>2. B \subseteq SUBSET chain /\ B # {}
  BY <1>1 DEF B
<1>3. PICK S \in B : \A x \in S : S \ {x} \notin B
  BY <1>1, <1>2, LeastSubset
<1>4. S \in SUBSET chain /\ S # {} /\ \A f \in S : p.feature[f].origin \in S
  BY <1>3 DEF B
<1>5. PICK f \in S : \A n \in S : p.feature[n].origin # f
  BY <1>4 DEF IsPlan, NoLoops
<1>6. S \ {f} \in B
  BY <1>4, <1>5 DEF B
<1> QED  BY <1>3, <1>5, <1>6

\* The features of p are among those of q, which adds some that continue none and none continues.
FeaturesExtend(p, q) ==
    /\ \A f \in DOMAIN p.feature :
         /\ f \in DOMAIN q.feature /\ q.feature[f].uid = p.feature[f].uid /\ q.feature[f].origin = p.feature[f].origin
         /\ p.feature[f].unassigned = FALSE => q.feature[f].unassigned = FALSE
    /\ \A f \in DOMAIN q.feature \ DOMAIN p.feature :
         q.feature[f].origin = Nothing /\ \A g \in DOMAIN q.feature : q.feature[g].origin # f

\* What continues what is then the same.
LEMMA SameDescendants ==
  ASSUME NEW p, NEW q, FeaturesExtend(p, q), NEW S
  PROVE  Descendants(q, S) = Descendants(p, S)
<1> DEFINE C(r) == {f \in DOMAIN r.feature : r.feature[f].origin # Nothing}
           chains(r) == {chain \in SUBSET C(r) : \A f \in chain : r.feature[f].origin \in chain \cup S}
<1>1. C(q) = C(p)
  BY DEF FeaturesExtend
<1>2. \A f \in C(p) : q.feature[f].origin = p.feature[f].origin
  BY DEF FeaturesExtend
<1>3. chains(q) = chains(p)
  <2> HIDE DEF C
  <2> QED  BY <1>1, <1>2
<1>4. Descendants(q, S) = (UNION chains(q)) \ S /\ Descendants(p, S) = (UNION chains(p)) \ S
  BY DEF Descendants
<1> HIDE DEF chains
<1> QED  BY <1>3, <1>4

\* A feature that continues none and that none continues is a lineage of its own.
LEMMA AloneInLineage ==
  ASSUME NEW p, IsPlan(p), NEW r \in DOMAIN p.feature, p.feature[r].origin = Nothing, \A g \in DOMAIN p.feature : p.feature[g].origin # r
  PROVE  /\ Descendants(p, {r}) = {} /\ \A S : r \notin Descendants(p, S)
         /\ LineageMembers(p, r) = {r}
<1> DEFINE C == {f \in DOMAIN p.feature : p.feature[f].origin # Nothing}
           chains(S) == {chain \in SUBSET C : \A f \in chain : p.feature[f].origin \in chain \cup S}
<1>1. \A S : Descendants(p, S) = (UNION chains(S)) \ S
  BY DEF Descendants
<1>2. \A S : r \notin Descendants(p, S)
  <2>1. r \notin C
    OBVIOUS
  <2>2. \A S : \A chain \in chains(S) : chain \subseteq C
    OBVIOUS
  <2> HIDE DEF C, chains
  <2> QED  BY <1>1, <2>1, <2>2
<1>3. \A chain \in chains({r}) : chain = {}
  <2> SUFFICES ASSUME NEW chain \in chains({r}) PROVE chain = {}
    OBVIOUS
  <2>1. chain \in SUBSET DOMAIN p.feature /\ \A f \in chain : p.feature[f].origin \in chain
    OBVIOUS
  <2> QED  BY <2>1, NoClosedChain
<1>4. Descendants(p, {r}) = {}
  <2> HIDE DEF chains
  <2> QED  BY <1>1, <1>3
<1>5. Root(p, r) = r
  <2>1. p.feature[r].origin \notin DOMAIN p.feature
    BY NothingIsNoId, PlanTables
  <2>2. \A x : (x \in DOMAIN p.feature /\ r \in {x} \cup Descendants(p, {x}) /\ p.feature[x].origin \notin DOMAIN p.feature) <=> x = r
    BY <1>2, <2>1
  <2> QED  BY <2>2 DEF Root
<1> QED  BY <1>2, <1>4, <1>5 DEF LineageMembers

\* Lineages, and their newest leaves, are the same.
LEMMA SameLineages ==
  ASSUME NEW p, IsPlan(p), NEW q, IsPlan(q), FeaturesExtend(p, q)
  PROVE  /\ \A f \in DOMAIN p.feature : LineageMembers(q, f) = LineageMembers(p, f)
         /\ \A f \in DOMAIN q.feature \ DOMAIN p.feature : LineageMembers(q, f) = {f}
<1>1. \A S : Descendants(q, S) = Descendants(p, S)
  BY SameDescendants
<1>2. \A f \in DOMAIN q.feature \ DOMAIN p.feature : LineageMembers(q, f) = {f} /\ Descendants(q, {f}) = {}
  BY AloneInLineage DEF FeaturesExtend
<1>3. ASSUME NEW f \in DOMAIN p.feature
      PROVE  LineageMembers(q, f) = LineageMembers(p, f)
  <2>1. ASSUME NEW r
        PROVE  (r \in DOMAIN q.feature /\ f \in {r} \cup Descendants(q, {r}) /\ q.feature[r].origin \notin DOMAIN q.feature)
                 <=> (r \in DOMAIN p.feature /\ f \in {r} \cup Descendants(p, {r}) /\ p.feature[r].origin \notin DOMAIN p.feature)
    BY <1>1, <1>2 DEF FeaturesExtend
  <2>2. Root(q, f) = Root(p, f)
    <3> HIDE DEF Descendants
    <3> QED  BY <2>1, Zenon DEF Root
  <2> QED  BY <1>1, <2>2 DEF LineageMembers
<1> QED  BY <1>2, <1>3

\* A feature has a root: its lineage is of features that are there.
LEMMA LineageIsThere ==
  ASSUME NEW p, IsPlan(p), NEW f \in DOMAIN p.feature
  PROVE  LineageMembers(p, f) \subseteq DOMAIN p.feature
<1> DEFINE C == {g \in DOMAIN p.feature : p.feature[g].origin # Nothing}
           chains(S) == {chain \in SUBSET C : \A g \in chain : p.feature[g].origin \in chain \cup S}
           up == {r \in DOMAIN p.feature : f \in {r} \cup Descendants(p, {r})}
<1>0. Nothing \notin DOMAIN p.feature
  BY NothingIsNoId, PlanTables
<1>1. \A S : Descendants(p, S) = (UNION chains(S)) \ S
  BY DEF Descendants
<1>2. ASSUME NEW r \in up, p.feature[r].origin \in DOMAIN p.feature
      PROVE  p.feature[r].origin \in up
  <2> DEFINE o == p.feature[r].origin
  <2>1. PICK chain \in SUBSET C : f \in chain \cup {r} /\ \A g \in chain : p.feature[g].origin \in chain \cup {r}
    <3>1. CASE f = r
      <4>1. {} \in SUBSET C /\ \A g \in {} : p.feature[g].origin \in {} \cup {r}
        OBVIOUS
      <4> QED  BY <3>1, <4>1
    <3>2. CASE f \in Descendants(p, {r})
      <4>1. f \in UNION chains({r})
        BY <1>1, <3>2
      <4> QED  BY <4>1
    <3> QED  BY <3>1, <3>2
  <2>2. chain \cup {r} \in chains({o})
    BY <1>0, <1>2, <2>1
  <2>3. f \in {o} \cup Descendants(p, {o})
    <3>1. f \in UNION chains({o})
      BY <2>1, <2>2
    <3> HIDE DEF chains, o
    <3> QED  BY <1>1, <3>1
  <2> QED  BY <1>2, <2>3
<1>3. \E r \in up : p.feature[r].origin \notin DOMAIN p.feature
  <2>1. f \in up /\ up \in SUBSET DOMAIN p.feature
    OBVIOUS
  <2> HIDE DEF up
  <2>2. CASE \A r \in up : p.feature[r].origin \in DOMAIN p.feature
    <3>1. \A r \in up : p.feature[r].origin \in up
      BY <1>2, <2>2
    <3>2. up = {}
      BY <2>1, <3>1, NoClosedChain
    <3> QED  BY <2>1, <3>2
  <2> QED  BY <2>2
<1>4. Root(p, f) \in DOMAIN p.feature
  <2>1. \E r \in DOMAIN p.feature : f \in {r} \cup Descendants(p, {r}) /\ p.feature[r].origin \notin DOMAIN p.feature
    BY <1>3
  <2> QED  BY <2>1 DEF Root
<1>5. Descendants(p, {Root(p, f)}) \subseteq DOMAIN p.feature
  <2>1. \A S : chains(S) \subseteq SUBSET DOMAIN p.feature
    OBVIOUS
  <2> HIDE DEF chains
  <2> QED  BY <1>1, <2>1
<1> QED  BY <1>4, <1>5 DEF LineageMembers

\* One import step after the other adds to the features.
LEMMA FeaturesExtendOn ==
  ASSUME NEW p, NEW q, IsPlan(q), NEW r, FeaturesExtend(p, q), FeaturesExtend(q, r)
  PROVE  FeaturesExtend(p, r)
<1>1. \A f \in DOMAIN q.feature : f # Nothing
  BY NothingIsNoId, PlanTables
<1>2. ASSUME NEW f \in DOMAIN p.feature
      PROVE  /\ f \in DOMAIN r.feature /\ r.feature[f].uid = p.feature[f].uid /\ r.feature[f].origin = p.feature[f].origin
             /\ p.feature[f].unassigned = FALSE => r.feature[f].unassigned = FALSE
  <2>1. /\ f \in DOMAIN q.feature /\ q.feature[f].uid = p.feature[f].uid /\ q.feature[f].origin = p.feature[f].origin
        /\ p.feature[f].unassigned = FALSE => q.feature[f].unassigned = FALSE
    BY DEF FeaturesExtend
  <2>2. /\ f \in DOMAIN r.feature /\ r.feature[f].uid = q.feature[f].uid /\ r.feature[f].origin = q.feature[f].origin
        /\ q.feature[f].unassigned = FALSE => r.feature[f].unassigned = FALSE
    BY <2>1 DEF FeaturesExtend
  <2> QED  BY <2>1, <2>2
<1>3. ASSUME NEW f \in DOMAIN r.feature \ DOMAIN p.feature
      PROVE  r.feature[f].origin = Nothing /\ \A g \in DOMAIN r.feature : r.feature[g].origin # f
  <2>1. CASE f \in DOMAIN q.feature
    <3>1. q.feature[f].origin = Nothing /\ \A g \in DOMAIN q.feature : q.feature[g].origin # f
      BY <2>1 DEF FeaturesExtend
    <3>2. r.feature[f].origin = Nothing
      BY <2>1, <3>1 DEF FeaturesExtend
    <3>3. \A g \in DOMAIN r.feature : g \in DOMAIN q.feature => r.feature[g].origin = q.feature[g].origin
      BY DEF FeaturesExtend
    <3>4. \A g \in DOMAIN r.feature : g \notin DOMAIN q.feature => r.feature[g].origin = Nothing
      BY DEF FeaturesExtend
    <3> QED  BY <1>1, <2>1, <3>1, <3>2, <3>3, <3>4
  <2>2. CASE f \notin DOMAIN q.feature
    BY <2>2 DEF FeaturesExtend
  <2> QED  BY <2>1, <2>2
<1> QED  BY <1>2, <1>3 DEF FeaturesExtend

\* The States of p are among those of q, and one that is looked up is the same.
ListExtends(p, q) ==
    /\ \A d \in DOMAIN p.list : d \in DOMAIN q.list /\ q.list[d] = p.list[d]
    /\ \A type, value : FindState(p, type, value) # {} => FindState(q, type, value) = FindState(p, type, value)

\* And to the States.
LEMMA ListExtendsOn ==
  ASSUME NEW p, NEW q, NEW r, ListExtends(p, q), ListExtends(q, r)
  PROVE  ListExtends(p, r)
<1>1. \A d \in DOMAIN p.list : d \in DOMAIN r.list /\ r.list[d] = p.list[d]
  BY DEF ListExtends
<1>2. ASSUME NEW type, NEW value, FindState(p, type, value) # {}
      PROVE  FindState(r, type, value) = FindState(p, type, value)
  <2>1. FindState(q, type, value) = FindState(p, type, value)
    BY <1>2 DEF ListExtends
  <2>2. FindState(r, type, value) = FindState(q, type, value)
    BY <1>2, <2>1 DEF ListExtends
  <2> QED  BY <2>1, <2>2
<1> QED  BY <1>1, <1>2 DEF ListExtends

\* Both, and the PIs and the paths stay.
Extends(p, q) == FeaturesExtend(p, q) /\ ListExtends(p, q) /\ q.pi = p.pi /\ q.path = p.path

\* So does one step after the other.
LEMMA ExtendsOn ==
  ASSUME NEW p, NEW q, IsPlan(q), NEW r, Extends(p, q), Extends(q, r)
  PROVE  Extends(p, r)
BY FeaturesExtendOn, ListExtendsOn DEF Extends

\* A step that does nothing adds nothing.
LEMMA ExtendsItself ==
  ASSUME NEW p
  PROVE  Extends(p, p)
BY DEF Extends, FeaturesExtend, ListExtends

\* A new State is made for a value only where there is none.
LEMMA StateExtends ==
  ASSUME NEW acc, IsAcc(acc), HasSpare(acc, "list"), NEW file, NEW type, NEW value
  PROVE  LET new == WithState(acc, file, type, value)
         IN /\ ListExtends(acc.plan, new.plan) /\ new.plan.pi = acc.plan.pi /\ new.plan.path = acc.plan.path
            /\ new.plan.feature = acc.plan.feature /\ new.plan.story = acc.plan.story
            /\ new.landed = acc.landed /\ new.spare.feature = acc.spare.feature
<1> DEFINE new == WithState(acc, file, type, value)
<1>1. CASE ~ file.stateColumn \/ value = Nothing \/ FindState(acc.plan, type, value) # {}
  BY <1>1, ExtendsItself DEF WithState, Extends
<1>2. CASE file.stateColumn /\ value # Nothing /\ FindState(acc.plan, type, value) = {}
  <2> DEFINE id == Least(acc.spare["list"])
             row == NewState(acc.plan, type, value, FALSE)
             rows == With(acc.plan.list, id, row)
  <2>1. new = Insert(acc, "list", row)
    BY <1>2 DEF WithState
  <2>2. /\ id \in Ids \ DOMAIN acc.plan.list
        /\ new = [plan |-> new.plan, landed |-> new.landed, spare |-> new.spare]
        /\ new.plan = Put(acc.plan, "list", id, row)
        /\ new.landed = acc.landed
        /\ new.spare = [t \in Tables \ {"path"} |-> new.spare[t]]
        /\ new.spare.list = acc.spare.list \ {id}
        /\ new.spare.feature = acc.spare.feature /\ new.spare.story = acc.spare.story
    <3> HIDE DEF row, new
    <3> QED  BY <2>1, RowInserted
  <2>3. row.type = type /\ row.value = value
    BY DEF NewState
  <2> HIDE DEF row, new, id
  <2>4. new.plan.list = rows /\ new.plan.feature = acc.plan.feature /\ new.plan.story = acc.plan.story
        /\ new.plan.pi = acc.plan.pi /\ new.plan.path = acc.plan.path
    <3>1. acc.plan = [table \in Tables |-> acc.plan[table]]
      BY DEF IsAcc, IsPlan
    <3> DEFINE q == [acc.plan EXCEPT !.list = rows]
    <3>2. Put(acc.plan, "list", id, row) = q
      BY <3>1 DEF Put, Tables
    <3>3. q.feature = acc.plan.feature /\ q.story = acc.plan.story /\ q.list = rows /\ q.pi = acc.plan.pi /\ q.path = acc.plan.path
      BY <3>1, OneTable
    <3> HIDE DEF rows, q
    <3> QED  BY <2>2, <3>2, <3>3
  <2>5. DOMAIN rows = DOMAIN acc.plan.list \cup {id} /\ rows[id] = row /\ \A d \in DOMAIN acc.plan.list : rows[d] = acc.plan.list[d]
    BY <2>2 DEF With
  <2> HIDE DEF rows
  <2>6. ASSUME NEW t, NEW v, FindState(acc.plan, t, v) # {}
        PROVE  FindState(new.plan, t, v) = FindState(acc.plan, t, v)
    <3>1. ~ (row.type = t /\ row.value = v)
      BY <1>2, <2>3, <2>6
    <3> QED  BY <2>2, <2>4, <2>5, <3>1 DEF FindState, ListOf
  <2>7. ListExtends(acc.plan, new.plan)
    BY <2>4, <2>5, <2>6 DEF ListExtends
  <2> QED  BY <2>2, <2>4, <2>7 DEF new
<1> QED  BY <1>1, <1>2

\* A feature that is inserted.
LEMMA NewFeatureIsIn ==
  ASSUME NEW acc, IsAcc(acc), HasSpare(acc, "feature"), NEW row
  PROVE  LET new == Insert(acc, "feature", row)
             id == Least(acc.spare.feature)
         IN /\ id \in acc.spare.feature /\ id \in Ids /\ id \notin DOMAIN acc.plan.feature
            /\ new.landed = acc.landed /\ new.spare.feature = acc.spare.feature \ {id}
            /\ DOMAIN new.plan.feature = DOMAIN acc.plan.feature \cup {id} /\ new.plan.feature[id] = row
            /\ \A f \in DOMAIN acc.plan.feature : new.plan.feature[f] = acc.plan.feature[f]
            /\ new.plan.story = acc.plan.story /\ new.plan.list = acc.plan.list
            /\ new.plan.pi = acc.plan.pi /\ new.plan.path = acc.plan.path
<1> DEFINE new == Insert(acc, "feature", row)
           id == Least(acc.spare["feature"])
           rows == With(acc.plan.feature, id, row)
<1>1. id \in acc.spare.feature
  BY LeastIsOne DEF HasSpare
<1>2. /\ id \in Ids \ DOMAIN acc.plan.feature
      /\ new = [plan |-> new.plan, landed |-> new.landed, spare |-> new.spare]
      /\ new.plan = Put(acc.plan, "feature", id, row)
      /\ new.landed = acc.landed
      /\ new.spare = [t \in Tables \ {"path"} |-> new.spare[t]]
      /\ new.spare.feature = acc.spare.feature \ {id}
      /\ new.spare.list = acc.spare.list /\ new.spare.story = acc.spare.story
  <2> HIDE DEF new
  <2> QED  BY RowInserted DEF new
<1> HIDE DEF new, id
<1>3. new.plan.feature = rows /\ new.plan.list = acc.plan.list /\ new.plan.story = acc.plan.story
      /\ new.plan.pi = acc.plan.pi /\ new.plan.path = acc.plan.path
  <2>1. acc.plan = [table \in Tables |-> acc.plan[table]]
    BY DEF IsAcc, IsPlan
  <2> DEFINE q == [acc.plan EXCEPT !.feature = rows]
  <2>2. Put(acc.plan, "feature", id, row) = q
    BY <2>1 DEF Put, Tables
  <2>3. q.feature = rows /\ q.story = acc.plan.story /\ q.list = acc.plan.list /\ q.pi = acc.plan.pi /\ q.path = acc.plan.path
    BY <2>1, OneTable
  <2> HIDE DEF rows, q
  <2> QED  BY <1>2, <2>2, <2>3
<1>4. DOMAIN rows = DOMAIN acc.plan.feature \cup {id} /\ rows[id] = row /\ \A d \in DOMAIN acc.plan.feature : rows[d] = acc.plan.feature[d]
  BY <1>2 DEF With
<1> HIDE DEF rows
<1> QED  BY <1>1, <1>2, <1>3, <1>4 DEF new, id

\* Looking up in the same list.
LEMMA SameList ==
  ASSUME NEW p, NEW q, q.list = p.list
  PROVE  /\ \A type, value : FindState(q, type, value) = FindState(p, type, value) /\ Named(q, type, value) = Named(p, type, value)
         /\ \A file, type, value : Found(q, file, type, value) <=> Found(p, file, type, value)
         /\ ListExtends(p, q)
         /\ \A x : ListExtends(x, q) <=> ListExtends(x, p)
<1>1. \A type, value : FindState(q, type, value) = FindState(p, type, value)
  BY DEF FindState, ListOf
<1>2. ASSUME NEW type, NEW value
      PROVE  Named(q, type, value) = Named(p, type, value)
  <2>1. FindState(q, type, value) = FindState(p, type, value)
    BY <1>1
  <2> QED  BY <2>1 DEF Named
<1>3. \A file, type, value : Found(q, file, type, value) <=> Found(p, file, type, value)
  BY <1>1 DEF Found
<1>4. \A x : ListExtends(x, q) <=> ListExtends(x, p)
  BY <1>1 DEF ListExtends
<1> QED  BY <1>1, <1>2, <1>3, <1>4, ExtendsItself DEF Extends

\* What writing to a lineage does.
Rewritten(acc, new, file, row, f) ==
    /\ IsPlan(new.plan) => IsAcc(new)
    /\ new.landed = acc.landed /\ new.spare = acc.spare
    /\ DOMAIN new.plan.feature = DOMAIN acc.plan.feature
    /\ \A m \in DOMAIN acc.plan.feature \ LineageMembers(acc.plan, f) : new.plan.feature[m] = acc.plan.feature[m]
    /\ \A m \in LineageMembers(acc.plan, f) :
         new.plan.feature[m] = [acc.plan.feature[m] EXCEPT !.unassigned = FALSE,
                                  !.state = RowState(acc, file, "feature", row.state, acc.plan.feature[m].state)]
    /\ new.plan.story = acc.plan.story /\ new.plan.list = acc.plan.list
    /\ new.plan.pi = acc.plan.pi /\ new.plan.path = acc.plan.path

\* A feature that is written to, with its lineage.
LEMMA LineageIsUpdated ==
  ASSUME NEW acc, IsAcc(acc), NEW file, NEW row, NEW f \in DOMAIN acc.plan.feature
  PROVE  Rewritten(acc, Updated(acc, file, row, f), file, row, f)
<1> DEFINE p == acc.plan
           rows == [m \in DOMAIN p.feature |->
                      IF m \in LineageMembers(acc.plan, f)
                      THEN [p.feature[m] EXCEPT !.unassigned = FALSE, !.state = RowState(acc, file, "feature", row.state, @)]
                      ELSE p.feature[m]]
           q == [p EXCEPT !.feature = rows]
           new == Updated(acc, file, row, f)
<1>1. new = [acc EXCEPT !.plan.feature = rows]
  BY DEF Updated
<1>2. new = [plan |-> q, landed |-> acc.landed, spare |-> acc.spare]
  <2> HIDE DEF rows, new
  <2>1. acc = [plan |-> acc.plan, landed |-> acc.landed, spare |-> acc.spare]
    BY DEF IsAcc
  <2> QED  BY <1>1, <2>1
<1>3. p = [table \in Tables |-> p[table]] /\ LineageMembers(p, f) \subseteq DOMAIN p.feature
  BY LineageIsThere DEF IsAcc, IsPlan
<1>4. DOMAIN rows = DOMAIN p.feature
      /\ (\A m \in DOMAIN p.feature \ LineageMembers(acc.plan, f) : rows[m] = p.feature[m])
      /\ (\A m \in LineageMembers(acc.plan, f) :
            rows[m] = [p.feature[m] EXCEPT !.unassigned = FALSE, !.state = RowState(acc, file, "feature", row.state, p.feature[m].state)])
  <2> HIDE DEF LineageMembers
  <2> QED  BY <1>3
<1> HIDE DEF rows, new
<1>5. q.feature = rows /\ q.story = p.story /\ q.list = p.list /\ q.pi = p.pi /\ q.path = p.path
  BY <1>3, OneTable
<1>6. new.plan = q /\ new.landed = acc.landed /\ new.spare = acc.spare /\ new = [plan |-> new.plan, landed |-> new.landed, spare |-> new.spare]
  BY <1>2
<1>7. new.plan.feature = rows
  BY <1>5, <1>6
<1>8. IsPlan(new.plan) => IsAcc(new)
  <2> HIDE DEF p, q
  <2> QED  BY <1>6 DEF IsAcc
<1>9. Rewritten(acc, new, file, row, f)
  <2> HIDE DEF q
  <2> QED  BY <1>4, <1>5, <1>6, <1>7, <1>8 DEF Rewritten
<1> QED  BY <1>9 DEF new

\* What a row adds: it lands, and the States of its lineage are the row's.
RowAdds(acc, new, file, row, f) ==
    /\ Extends(acc.plan, new.plan) /\ new.plan.story = acc.plan.story
    /\ new.landed = Append(acc.landed, <<row, f>>)
    /\ new.spare.feature \subseteq acc.spare.feature
    /\ DOMAIN new.plan.feature = DOMAIN acc.plan.feature \cup {f}
    /\ new.plan.feature[f].uid = row.uid
    /\ Found(new.plan, file, "feature", row.state)
    /\ \A m \in DOMAIN acc.plan.feature \ LineageMembers(new.plan, f) : new.plan.feature[m] = acc.plan.feature[m]
    /\ \A m \in LineageMembers(new.plan, f) :
         /\ new.plan.feature[m].unassigned = FALSE
         /\ file.stateColumn => new.plan.feature[m].state = Named(new.plan, "feature", row.state)

\* A row of a feature that is known.
LEMMA KnownFeatureAdds ==
  ASSUME NEW acc, IsAcc(acc), HasSpare(acc, "list"), NEW maps, NEW gone, Landed(acc, gone),
         NEW file, NEW row \in FileRows, row.uid \in DOMAIN maps.feature,
         maps.feature[row.uid] \in DOMAIN acc.plan.feature, acc.plan.feature[maps.feature[row.uid]].uid = row.uid,
         IsPlan(UpsertFeature(WithState(acc, file, "feature", row.state), file, row, maps).plan)
  PROVE  RowAdds(acc, UpsertFeature(WithState(acc, file, "feature", row.state), file, row, maps), file, row, maps.feature[row.uid])
<1> DEFINE mid == WithState(acc, file, "feature", row.state)
           f == maps.feature[row.uid]
           more == Lands(mid, row, f)
           new == UpsertFeature(mid, file, row, maps)
<1>0. row.state \in Values \cup {Nothing} /\ "feature" \in ItemTypes
  BY DEF FileRows, ItemTypes
<1>1. IsAcc(mid) /\ Found(mid.plan, file, "feature", row.state)
  BY <1>0, StateIsThere
<1>2. /\ ListExtends(acc.plan, mid.plan) /\ mid.plan.pi = acc.plan.pi /\ mid.plan.path = acc.plan.path
      /\ mid.plan.feature = acc.plan.feature /\ mid.plan.story = acc.plan.story
      /\ mid.landed = acc.landed /\ mid.spare.feature = acc.spare.feature
  BY StateExtends
<1>3. new = Updated(more, file, row, f)
  BY DEF UpsertFeature
<1>4. f \in DOMAIN acc.plan.feature /\ acc.plan.feature[f].uid = row.uid /\ IsPlan(new.plan) /\ f \in Ids
  BY PlanTables DEF IsAcc
<1> HIDE DEF mid, f, new
<1>5. IsAcc(more) /\ more.plan = mid.plan /\ more.spare = mid.spare /\ more.landed = Append(acc.landed, <<row, f>>)
  <2>1. Landed(mid, {f})
    BY <1>2 DEF Landed
  <2>2. IsAcc(more) /\ more.plan = mid.plan /\ more.spare = mid.spare
    BY <1>1, <1>4, <2>1, LandsMore
  <2>3. more.landed = Append(mid.landed, <<row, f>>)
    BY <1>1 DEF Lands, IsAcc
  <2> QED  BY <1>2, <2>2, <2>3
<1> HIDE DEF more
<1> DEFINE p == mid.plan
           q == new.plan
           L == LineageMembers(p, f)
<1>6. /\ new.landed = more.landed /\ new.spare = more.spare
      /\ DOMAIN q.feature = DOMAIN p.feature
      /\ \A m \in DOMAIN p.feature \ L : q.feature[m] = p.feature[m]
      /\ \A m \in L :
           q.feature[m] = [p.feature[m] EXCEPT !.unassigned = FALSE, !.state = RowState(more, file, "feature", row.state, p.feature[m].state)]
      /\ q.story = p.story /\ q.list = p.list /\ q.pi = p.pi /\ q.path = p.path
  <2>1. Rewritten(more, new, file, row, f)
    BY <1>2, <1>3, <1>4, <1>5, LineageIsUpdated
  <2>2. p = more.plan
    BY <1>5
  <2> HIDE DEF p, q
  <2>3. new.landed = more.landed /\ new.spare = more.spare
    BY <2>1 DEF Rewritten
  <2> QED  BY <2>1, <2>2, <2>3 DEF Rewritten, q
<1>7. L \subseteq DOMAIN p.feature /\ IsPlan(p)
  BY <1>1, <1>2, <1>4, LineageIsThere DEF IsAcc
<1>8. \A m \in L : /\ q.feature[m].unassigned = FALSE /\ q.feature[m].uid = p.feature[m].uid
                    /\ q.feature[m].origin = p.feature[m].origin
                    /\ q.feature[m].state = RowState(more, file, "feature", row.state, p.feature[m].state)
  <2>1. \A m \in DOMAIN p.feature : p.feature[m] \in FeatureRows
    BY <1>7, PlanTables
  <2> HIDE DEF p, q, L
  <2> QED  BY <1>6, <1>7, <2>1 DEF FeatureRows
<1>9. FeaturesExtend(p, q)
  <2> HIDE DEF p, q, L
  <2> QED  BY <1>6, <1>8 DEF FeaturesExtend
<1>10. LineageMembers(q, f) = L
  BY <1>2, <1>4, <1>7, <1>9, SameLineages
<1>11. ListExtends(acc.plan, q) /\ Found(q, file, "feature", row.state)
  BY <1>1, <1>2, <1>6, SameList
<1>12. file.stateColumn => \A m \in L : q.feature[m].state = Named(q, "feature", row.state)
  <2>0. q.list = p.list /\ more.plan = p
    BY <1>5, <1>6
  <2>1. Named(q, "feature", row.state) = Named(more.plan, "feature", row.state)
    <3> HIDE DEF p, q
    <3> QED  BY <2>0, SameList
  <2> QED  BY <1>8, <2>1 DEF RowState
<1> HIDE DEF p, q, L
<1>13. q.feature[f].uid = row.uid
  BY <1>2, <1>4, <1>6, <1>8, ZenonT(30) DEF p
<1>14. FeaturesExtend(acc.plan, q)
  BY <1>2, <1>9 DEF FeaturesExtend, p
<1>15. RowAdds(acc, new, file, row, f)
  BY <1>2, <1>4, <1>5, <1>6, <1>8, <1>10, <1>11, <1>12, <1>13, <1>14, ZenonT(30) DEF RowAdds, Extends, p, q
<1> QED  BY <1>15 DEF new, f, mid

\* No feature continues one that may come.
Unnamed(acc) == \A f \in DOMAIN acc.plan.feature : acc.plan.feature[f].origin \notin acc.spare.feature

\* A row of a feature that is new.
LEMMA NewFeatureAdds ==
  ASSUME NEW acc, IsAcc(acc), HasSpare(acc, "list"), HasSpare(acc, "feature"), NEW maps, NEW gone, Landed(acc, gone), Unnamed(acc),
         NEW file, NEW row \in FileRows, row.uid \notin DOMAIN maps.feature,
         IsPlan(UpsertFeature(WithState(acc, file, "feature", row.state), file, row, maps).plan)
  PROVE  LET f == Least(acc.spare.feature)
         IN /\ f \notin DOMAIN acc.plan.feature
            /\ RowAdds(acc, UpsertFeature(WithState(acc, file, "feature", row.state), file, row, maps), file, row, f)
<1> DEFINE mid == WithState(acc, file, "feature", row.state)
           f == Least(acc.spare.feature)
           state == RowState(mid, file, "feature", row.state, Nothing)
           feature == NewFeature(row.uid, state)
           more == Lands(mid, row, f)
           new == UpsertFeature(mid, file, row, maps)
<1>0. row.state \in Values \cup {Nothing} /\ "feature" \in ItemTypes
  BY DEF FileRows, ItemTypes
<1>1. IsAcc(mid) /\ Found(mid.plan, file, "feature", row.state)
  BY <1>0, StateIsThere
<1>2. /\ ListExtends(acc.plan, mid.plan) /\ mid.plan.pi = acc.plan.pi /\ mid.plan.path = acc.plan.path
      /\ mid.plan.feature = acc.plan.feature /\ mid.plan.story = acc.plan.story
      /\ mid.landed = acc.landed /\ mid.spare.feature = acc.spare.feature
  BY StateExtends
<1>3. new = Insert(Lands(mid, row, Least(mid.spare.feature)), "feature", feature)
  BY DEF UpsertFeature
<1>4. IsPlan(new.plan) /\ f \in Ids /\ f \in acc.spare.feature
  BY LeastIsOne DEF HasSpare
<1> HIDE DEF mid, new, feature
<1>5. IsAcc(more) /\ more.plan = mid.plan /\ more.spare = mid.spare /\ more.landed = Append(acc.landed, <<row, f>>)
  <2>1. Landed(mid, {f})
    BY <1>2 DEF Landed
  <2> HIDE DEF f
  <2>2. IsAcc(more) /\ more.plan = mid.plan /\ more.spare = mid.spare
    BY <1>1, <1>4, <2>1, LandsMore
  <2>3. more.landed = Append(mid.landed, <<row, f>>)
    BY <1>1 DEF Lands, IsAcc
  <2> QED  BY <1>2, <2>2, <2>3
<1>6. new = Insert(more, "feature", feature) /\ f = Least(more.spare.feature) /\ HasSpare(more, "feature")
  BY <1>2, <1>3, <1>5 DEF HasSpare
<1> HIDE DEF more, f
<1> DEFINE p == acc.plan
           q == new.plan
<1>7. /\ f \notin DOMAIN p.feature
      /\ new.landed = more.landed /\ new.spare.feature \subseteq acc.spare.feature
      /\ DOMAIN q.feature = DOMAIN p.feature \cup {f} /\ q.feature[f] = feature
      /\ \A m \in DOMAIN p.feature : q.feature[m] = p.feature[m]
      /\ q.story = p.story /\ q.list = mid.plan.list /\ q.pi = p.pi /\ q.path = p.path
  <2> DEFINE id == Least(more.spare.feature)
             in == Insert(more, "feature", feature)
  <2>1. /\ id \notin DOMAIN more.plan.feature
        /\ in.landed = more.landed /\ in.spare.feature = more.spare.feature \ {id}
        /\ DOMAIN in.plan.feature = DOMAIN more.plan.feature \cup {id} /\ in.plan.feature[id] = feature
        /\ \A m \in DOMAIN more.plan.feature : in.plan.feature[m] = more.plan.feature[m]
        /\ in.plan.story = more.plan.story /\ in.plan.list = more.plan.list
        /\ in.plan.pi = more.plan.pi /\ in.plan.path = more.plan.path
    BY <1>5, <1>6, NewFeatureIsIn
  <2> HIDE DEF id, in
  <2>2. in = new /\ id = f
    BY <1>6 DEF in, id
  <2>3. more.plan.feature = p.feature /\ more.plan.story = p.story /\ more.plan.list = mid.plan.list
        /\ more.plan.pi = p.pi /\ more.plan.path = p.path /\ more.spare.feature = acc.spare.feature
    BY <1>2, <1>5
  <2> HIDE DEF p
  <2> QED  BY <2>1, <2>2, <2>3
<1>8. feature.uid = row.uid /\ feature.origin = Nothing /\ feature.unassigned = FALSE /\ feature.state = state
  BY DEF feature, NewFeature
<1>9. FeaturesExtend(p, q)
  <2>1. \A m \in DOMAIN p.feature : p.feature[m].origin # f
    BY <1>4 DEF Unnamed
  <2>2. f # Nothing
    BY <1>4, NothingIsNoId
  <2> HIDE DEF p, q
  <2> QED  BY <1>7, <1>8, <2>1, <2>2 DEF FeaturesExtend
<1>10. LineageMembers(q, f) = {f}
  BY <1>4, <1>7, <1>9, SameLineages DEF IsAcc
<1>11. ListExtends(p, q) /\ Found(q, file, "feature", row.state)
  BY <1>1, <1>2, <1>7, SameList
<1>12. file.stateColumn => state = Named(q, "feature", row.state)
  <2>1. Named(q, "feature", row.state) = Named(mid.plan, "feature", row.state)
    BY <1>7, SameList
  <2> QED  BY <2>1 DEF RowState
<1> HIDE DEF p, q, state
<1>13. RowAdds(acc, new, file, row, f)
  BY <1>2, <1>5, <1>7, <1>8, <1>9, <1>10, <1>11, <1>12 DEF RowAdds, Extends, p, q
<1> QED  BY <1>7, <1>13 DEF new, f, mid, p

\* What the features of the first k rows are when p was the plan: told apart, and each landed once.
Brought(p, acc, file, maps, k) ==
    /\ Extends(p, acc.plan) /\ acc.plan.story = p.story /\ Unnamed(acc)
    /\ \A e, f \in DOMAIN acc.plan.feature :
         acc.plan.feature[e].uid = acc.plan.feature[f].uid /\ acc.plan.feature[f].uid # Nothing => e = f
    /\ \A f \in DOMAIN acc.plan.feature :
         acc.plan.feature[f].uid \in UidsOf(p.feature) \cup {Nothing} \/ \E i \in DOMAIN acc.landed : acc.landed[i][1].uid = acc.plan.feature[f].uid
    /\ \A i \in DOMAIN acc.landed :
         /\ acc.landed[i][2] \in DOMAIN acc.plan.feature /\ acc.plan.feature[acc.landed[i][2]].uid = acc.landed[i][1].uid
         /\ \E j \in 1 .. k : acc.landed[i][1] = file.rows[j]
         /\ IsFeature(acc.landed[i][1]) /\ acc.landed[i][1] \in Imported(file, maps)
         /\ \A m \in LineageMembers(acc.plan, acc.landed[i][2]) : acc.plan.feature[m].unassigned = FALSE
         /\ \A j \in DOMAIN acc.landed : acc.landed[i][2] = acc.landed[j][2] => i = j

\* The features landed so far, and the next.
LandsNext(acc, new, row, f) ==
    /\ \A i \in DOMAIN acc.landed : i \in DOMAIN new.landed /\ new.landed[i] = acc.landed[i]
    /\ \E i \in DOMAIN new.landed : new.landed[i] = <<row, f>>
    /\ \A i \in DOMAIN new.landed \ DOMAIN acc.landed : new.landed[i] = <<row, f>>
    /\ \A i, j \in DOMAIN new.landed \ DOMAIN acc.landed : i = j

\* Noting a feature as landed lands it next.
LEMMA LandedNext ==
  ASSUME NEW acc, NEW new, NEW gone, Landed(acc, gone), NEW row \in FileRows, NEW f \in Ids, new.landed = Append(acc.landed, <<row, f>>)
  PROVE  LandsNext(acc, new, row, f)
<1> DEFINE s == acc.landed
           e == <<row, f>>
<1>1. s \in Seq(FileRows \X Ids) /\ e \in FileRows \X Ids
  BY DEF Landed
<1> HIDE DEF s, e
<1>2. /\ Len(s) \in Nat /\ DOMAIN s = 1 .. Len(s) /\ DOMAIN Append(s, e) = 1 .. Len(s) + 1
      /\ Append(s, e)[Len(s) + 1] = e /\ \A i \in 1 .. Len(s) : Append(s, e)[i] = s[i]
  BY <1>1
<1>3. new.landed = Append(s, e)
  BY DEF s, e
<1>4. \A i \in DOMAIN new.landed \ DOMAIN s : i = Len(s) + 1
  BY <1>2, <1>3
<1>5. \A i \in DOMAIN s : i \in DOMAIN new.landed /\ new.landed[i] = s[i]
  BY <1>2, <1>3
<1>6. Len(s) + 1 \in DOMAIN new.landed /\ new.landed[Len(s) + 1] = e
  <2>1. Len(s) + 1 \in 1 .. Len(s) + 1
    BY <1>2
  <2> QED  BY <1>2, <1>3, <2>1
<1> QED  BY <1>4, <1>5, <1>6 DEF s, e, LandsNext

\* One more row.
LEMMA RowBrings ==
  ASSUME NEW p, NEW acc, IsAcc(acc), Landed(acc, {}), acc.spare.feature \subseteq Ids, NEW new, IsPlan(new.plan),
         NEW file, file.rows \in Seq(FileRows), ValidRows(file.rows), Indices(file.rows) = DOMAIN file.rows,
         NEW k \in 1 .. Len(file.rows), NEW maps, NEW f, Brought(p, acc, file, maps, k - 1),
         IsFeature(file.rows[k]), file.rows[k] \in Imported(file, maps), RowAdds(acc, new, file, file.rows[k], f),
         f \notin DOMAIN acc.plan.feature => file.rows[k].uid \notin UidsOf(p.feature)
  PROVE  Brought(p, new, file, maps, k)
<1> DEFINE row == file.rows[k]
           a == acc.plan
           b == new.plan
<1>0. /\ row \in FileRows /\ k \in DOMAIN file.rows /\ k \in Nat /\ \A j \in 1 .. k - 1 : j \in DOMAIN file.rows
      /\ IsPlan(a)
  BY DEF IsAcc
<1>1. /\ Extends(a, b) /\ b.story = a.story /\ new.landed = Append(acc.landed, <<row, f>>)
      /\ new.spare.feature \subseteq acc.spare.feature /\ DOMAIN b.feature = DOMAIN a.feature \cup {f} /\ b.feature[f].uid = row.uid
      /\ \A m \in LineageMembers(b, f) : b.feature[m].unassigned = FALSE
  BY DEF RowAdds
<1>2. /\ \A m \in DOMAIN a.feature : /\ b.feature[m].uid = a.feature[m].uid /\ b.feature[m].origin = a.feature[m].origin
                                     /\ a.feature[m].unassigned = FALSE => b.feature[m].unassigned = FALSE
      /\ \A m \in DOMAIN b.feature \ DOMAIN a.feature : b.feature[m].origin = Nothing
  BY <1>1 DEF Extends, FeaturesExtend
<1>3. f \in Ids
  BY <1>1, PlanTables
<1>4. \A j \in 1 .. k - 1 : row.uid # file.rows[j].uid
  <2> SUFFICES ASSUME NEW j \in 1 .. k - 1, row.uid = file.rows[j].uid PROVE FALSE
    OBVIOUS
  <2>1. j \in Indices(file.rows) /\ k \in Indices(file.rows)
    BY <1>0
  <2>2. j = k
    BY <2>1 DEF ValidRows
  <2> QED  BY <1>0, <2>2
<1>5. row.uid # Nothing
  BY <1>0 DEF Indices
<1>6. /\ Extends(p, a) /\ a.story = p.story /\ Unnamed(acc)
      /\ \A e, h \in DOMAIN a.feature : a.feature[e].uid = a.feature[h].uid /\ a.feature[h].uid # Nothing => e = h
      /\ \A h \in DOMAIN a.feature :
           a.feature[h].uid \in UidsOf(p.feature) \cup {Nothing} \/ \E i \in DOMAIN acc.landed : acc.landed[i][1].uid = a.feature[h].uid
  BY DEF Brought
<1>7. \A i \in DOMAIN acc.landed :
        /\ acc.landed[i][2] \in DOMAIN a.feature /\ a.feature[acc.landed[i][2]].uid = acc.landed[i][1].uid
        /\ \E j \in 1 .. k - 1 : acc.landed[i][1] = file.rows[j]
        /\ IsFeature(acc.landed[i][1]) /\ acc.landed[i][1] \in Imported(file, maps)
        /\ \A m \in LineageMembers(a, acc.landed[i][2]) : a.feature[m].unassigned = FALSE
        /\ \A j \in DOMAIN acc.landed : acc.landed[i][2] = acc.landed[j][2] => i = j
  BY DEF Brought
<1>8. /\ \A i \in DOMAIN acc.landed : i \in DOMAIN new.landed /\ new.landed[i] = acc.landed[i]
      /\ \E i \in DOMAIN new.landed : new.landed[i] = <<row, f>>
      /\ \A i \in DOMAIN new.landed \ DOMAIN acc.landed : new.landed[i] = <<row, f>>
      /\ \A i, j \in DOMAIN new.landed \ DOMAIN acc.landed : i = j
  <2> HIDE DEF row
  <2>1. LandsNext(acc, new, row, f)
    BY <1>0, <1>1, <1>3, LandedNext
  <2> QED  BY <2>1 DEF LandsNext
<1> HIDE DEF row
<1>9. <<row, f>>[1] = row /\ <<row, f>>[2] = f
  OBVIOUS
<1>10. \A i \in DOMAIN acc.landed : acc.landed[i][1].uid # row.uid
  BY <1>4, <1>7
<1>11. Extends(p, b)
  BY <1>0, <1>1, <1>6, ExtendsOn DEF a
<1>12. FeaturesExtend(a, b) /\ IsPlan(b)
  BY <1>1 DEF Extends
<1>13. \A e \in DOMAIN a.feature : LineageMembers(b, e) = LineageMembers(a, e) /\ LineageMembers(a, e) \subseteq DOMAIN a.feature
  BY <1>0, <1>12, SameLineages, LineageIsThere
<1> HIDE DEF a, b
<1>14. \A m \in DOMAIN b.feature : b.feature[m].origin \notin new.spare.feature
  BY <1>1, <1>2, <1>6, NothingIsNoId DEF Unnamed, a
<1>15. f \notin DOMAIN a.feature => \A m \in DOMAIN a.feature : a.feature[m].uid # row.uid
  <2> SUFFICES ASSUME f \notin DOMAIN a.feature, NEW m \in DOMAIN a.feature, a.feature[m].uid = row.uid PROVE FALSE
    OBVIOUS
  <2>1. row.uid \notin UidsOf(p.feature)
    BY DEF row, a
  <2> QED  BY <1>5, <1>6, <1>10, <2>1
<1>16. \A e, h \in DOMAIN b.feature : b.feature[e].uid = b.feature[h].uid /\ b.feature[h].uid # Nothing => e = h
  <2> SUFFICES ASSUME NEW e \in DOMAIN b.feature, NEW h \in DOMAIN b.feature, b.feature[e].uid = b.feature[h].uid, b.feature[h].uid # Nothing
               PROVE  e = h
    OBVIOUS
  <2>1. CASE e \in DOMAIN a.feature /\ h \in DOMAIN a.feature
    BY <1>2, <1>6, <2>1
  <2>2. CASE e \notin DOMAIN a.feature \/ h \notin DOMAIN a.feature
    BY <1>1, <1>2, <1>15, <2>2
  <2> QED  BY <2>1, <2>2
<1>17. \A h \in DOMAIN b.feature :
         b.feature[h].uid \in UidsOf(p.feature) \cup {Nothing} \/ \E i \in DOMAIN new.landed : new.landed[i][1].uid = b.feature[h].uid
  <2> SUFFICES ASSUME NEW h \in DOMAIN b.feature
               PROVE  b.feature[h].uid \in UidsOf(p.feature) \cup {Nothing} \/ \E i \in DOMAIN new.landed : new.landed[i][1].uid = b.feature[h].uid
    OBVIOUS
  <2>1. CASE h \in DOMAIN a.feature
    BY <1>2, <1>6, <1>8, <2>1
  <2>2. CASE h \notin DOMAIN a.feature
    BY <1>1, <1>8, <1>9, <2>2
  <2> QED  BY <2>1, <2>2
<1>18. ASSUME NEW i \in DOMAIN new.landed
       PROVE  /\ new.landed[i][2] \in DOMAIN b.feature /\ b.feature[new.landed[i][2]].uid = new.landed[i][1].uid
              /\ \E j \in 1 .. k : new.landed[i][1] = file.rows[j]
              /\ IsFeature(new.landed[i][1]) /\ new.landed[i][1] \in Imported(file, maps)
              /\ \A m \in LineageMembers(b, new.landed[i][2]) : b.feature[m].unassigned = FALSE
  <2>1. CASE i \in DOMAIN acc.landed
    <3>1. new.landed[i] = acc.landed[i]
      BY <1>8, <2>1
    <3>2. acc.landed[i][2] \in DOMAIN a.feature /\ a.feature[acc.landed[i][2]].uid = acc.landed[i][1].uid
      BY <1>7, <2>1
    <3>3. \E j \in 1 .. k : acc.landed[i][1] = file.rows[j]
      BY <1>0, <1>7, <2>1
    <3>4. \A m \in LineageMembers(b, acc.landed[i][2]) : b.feature[m].unassigned = FALSE
      BY <1>2, <1>7, <1>13, <2>1, <3>2
    <3> QED  BY <1>1, <1>2, <1>7, <2>1, <3>1, <3>2, <3>3, <3>4
  <2>2. CASE i \notin DOMAIN acc.landed
    <3>1. new.landed[i][1] = row /\ new.landed[i][2] = f
      BY <1>8, <1>9, <2>2
    <3>2. row = file.rows[k] /\ k \in 1 .. k
      BY <1>0 DEF row
    <3>3. IsFeature(row) /\ row \in Imported(file, maps)
      BY DEF row
    <3> QED  BY <1>1, <3>1, <3>2, <3>3
  <2> QED  BY <2>1, <2>2
<1>19. ASSUME NEW i \in DOMAIN new.landed, NEW j \in DOMAIN new.landed, new.landed[i][2] = new.landed[j][2]
       PROVE  i = j
  <2>1. \A x \in DOMAIN acc.landed : new.landed[x][2] # f
    <3> SUFFICES ASSUME NEW x \in DOMAIN acc.landed, acc.landed[x][2] = f PROVE FALSE
      BY <1>8
    <3>1. f \in DOMAIN a.feature /\ a.feature[f].uid = acc.landed[x][1].uid
      BY <1>7
    <3> QED  BY <1>1, <1>2, <1>10, <3>1
  <2>2. \A x \in DOMAIN new.landed \ DOMAIN acc.landed : new.landed[x][2] = f
    BY <1>8, <1>9
  <2>3. CASE i \in DOMAIN acc.landed /\ j \in DOMAIN acc.landed
    BY <1>7, <1>8, <1>19, <2>3
  <2>4. CASE i \notin DOMAIN acc.landed /\ j \notin DOMAIN acc.landed
    BY <1>8, <2>4
  <2> QED  BY <1>19, <2>1, <2>2, <2>3, <2>4
<1> QED  BY <1>1, <1>6, <1>11, <1>14, <1>16, <1>17, <1>18, <1>19 DEF Brought, Unnamed, a, b

\* Every row of the file has an ID of its own.
Identified(file) == file.rows \in Seq(FileRows) /\ ValidRows(file.rows) /\ Indices(file.rows) = DOMAIN file.rows

\* The maps hold every feature of p under its business id.
Mapped(p, maps) ==
    /\ DOMAIN maps.feature = UidsOf(p.feature)
    /\ \A uid \in DOMAIN maps.feature : maps.feature[uid] \in DOMAIN p.feature /\ p.feature[maps.feature[uid]].uid = uid

\* What a row of a feature does, one that is imported.
Steps(acc, new, file, row, maps) ==
    IF IsFeature(row) /\ row \in Imported(file, maps)
    THEN /\ \E f : RowAdds(acc, new, file, row, f) /\ (f \notin DOMAIN acc.plan.feature => row.uid \notin DOMAIN maps.feature)
    ELSE new = acc

\* A row of the loop over the features.
LEMMA RowSteps ==
  ASSUME NEW p, NEW maps, Mapped(p, maps), NEW file, Identified(file), NEW F, NEW S, NEW k \in 1 .. Len(file.rows),
         NEW acc, Goes(p, acc, maps, RowsLeft(file.rows, k - 1), F, S, {}), Brought(p, acc, file, maps, k - 1),
         NEW new, new = FeatureOfRow(acc, file, file.rows[k], maps), IsPlan(new.plan)
  PROVE  Steps(acc, new, file, file.rows[k], maps) /\ Brought(p, new, file, maps, k)
<1> DEFINE row == file.rows[k]
           n == Len(file.rows)
           R == RowsLeft(file.rows, k - 1)
<1>0. row \in FileRows /\ k \in Nat /\ n \in Nat
  BY DEF Identified
<1>1. IsFiniteSet(R) /\ 0 \in R
  <2>0. n \in Int /\ 0 \in 0 .. n
    BY <1>0
  <2>1. IsFiniteSet(0 .. n) /\ 0 \in 0 .. n
    BY <2>0, FS_Interval, SMTT(30)
  <2>2. R \subseteq 0 .. n
    BY DEF RowsLeft
  <2> QED  BY <2>1, <2>2, FS_Subset DEF RowsLeft
<1>2. IsAcc(acc) /\ Landed(acc, {}) /\ Room(acc, R) /\ HasSpare(acc, "list") /\ HasSpare(acc, "feature")
  <2> HIDE DEF R
  <2> QED  BY <1>1, RoomHasSpare DEF Goes, R
<1> HIDE DEF R
<1>3. CASE IsFeature(row) /\ row \in Imported(file, maps)
  <2>1. new = UpsertFeature(WithState(acc, file, "feature", row.state), file, row, maps)
    BY <1>3 DEF FeatureOfRow
  <2>2. Unnamed(acc) /\ Extends(p, acc.plan)
    BY DEF Brought
  <2> HIDE DEF row
  <2>3. \E f : RowAdds(acc, new, file, row, f) /\ (f \notin DOMAIN acc.plan.feature => row.uid \notin DOMAIN maps.feature)
    <3>1. CASE row.uid \in DOMAIN maps.feature
      <4>1. maps.feature[row.uid] \in DOMAIN acc.plan.feature /\ acc.plan.feature[maps.feature[row.uid]].uid = row.uid
        BY <2>2, <3>1 DEF Mapped, Extends, FeaturesExtend
      <4>2. RowAdds(acc, new, file, row, maps.feature[row.uid])
        BY <1>0, <1>2, <2>1, <3>1, <4>1, KnownFeatureAdds
      <4> QED  BY <4>1, <4>2
    <3>2. CASE row.uid \notin DOMAIN maps.feature
      <4>1. RowAdds(acc, new, file, row, Least(acc.spare.feature))
        BY <1>0, <1>2, <2>1, <2>2, <3>2, NewFeatureAdds
      <4> QED  BY <3>2, <4>1
    <3> QED  BY <3>1, <3>2
  <2>4. PICK f : RowAdds(acc, new, file, row, f) /\ (f \notin DOMAIN acc.plan.feature => row.uid \notin DOMAIN maps.feature)
    BY <2>3
  <2>5. f \notin DOMAIN acc.plan.feature => row.uid \notin UidsOf(p.feature)
    BY <2>4 DEF Mapped
  <2>6. acc.spare.feature \subseteq Ids
    BY <1>2 DEF HasSpare
  <2>7. Brought(p, new, file, maps, k)
    BY <1>2, <1>3, <2>4, <2>5, <2>6, RowBrings DEF row, Identified
  <2> QED  BY <1>3, <2>3, <2>7 DEF Steps, row
<1>4. CASE ~ (IsFeature(row) /\ row \in Imported(file, maps))
  <2>1. new = acc
    BY <1>4 DEF FeatureOfRow
  <2>2. 1 .. k - 1 \subseteq 1 .. k
    BY <1>0
  <2>3. Brought(p, acc, file, maps, k)
    BY <2>2 DEF Brought
  <2> QED  BY <1>4, <2>1, <2>3 DEF Steps
<1> QED  BY <1>3, <1>4

\* What the rows make one after the other adds to what the earlier ones made.
LEMMA EachExtends ==
  ASSUME NEW n \in Nat, NEW g, \A k \in 0 .. n : IsPlan(g[k].plan), \A k \in 1 .. n : Extends(g[k - 1].plan, g[k].plan)
  PROVE  \A k \in 0 .. n : Extends(g[k].plan, g[n].plan)
<1> DEFINE H == {m \in 0 .. n : \A k \in 0 .. m : Extends(g[k].plan, g[m].plan)}
<1>1. 0 \in H
  BY ExtendsItself
<1>2. ASSUME NEW m \in 1 .. n, m - 1 \in H
      PROVE  m \in H
  <2>1. IsPlan(g[m - 1].plan) /\ Extends(g[m - 1].plan, g[m].plan)
    OBVIOUS
  <2>2. ASSUME NEW k \in 0 .. m PROVE Extends(g[k].plan, g[m].plan)
    <3>1. CASE k = m
      BY <3>1, ExtendsItself
    <3>2. CASE k # m
      <4>1. k \in 0 .. m - 1
        BY <3>2
      <4>2. Extends(g[k].plan, g[m - 1].plan)
        BY <1>2, <4>1
      <4> QED  BY <2>1, <4>2, ExtendsOn
    <3> QED  BY <3>1, <3>2
  <2> QED  BY <2>2
<1>3. n \in H
  <2> HIDE DEF H
  <2> QED  BY <1>1, <1>2, InductionUpTo
<1> QED  BY <1>3

\* The loop over the features.
LEMMA FeaturesBring ==
  ASSUME NEW p, NEW maps, Mapped(p, maps), NEW file, Identified(file), NEW F, NEW S,
         NEW acc, Brought(p, acc, file, maps, 0), NEW g, FeatureRun(g, acc, file, maps),
         \A k \in 0 .. Len(file.rows) : Goes(p, g[k], maps, RowsLeft(file.rows, k), F, S, {})
  PROVE  /\ \A k \in 0 .. Len(file.rows) : Brought(p, g[k], file, maps, k) /\ Extends(g[k].plan, g[Len(file.rows)].plan)
         /\ \A k \in 1 .. Len(file.rows) : Steps(g[k - 1], g[k], file, file.rows[k], maps)
<1> DEFINE n == Len(file.rows)
           H == {k \in 0 .. n : Brought(p, g[k], file, maps, k)}
<1>0. n \in Nat
  BY DEF Identified
<1>1. g[0] = acc /\ \A k \in 1 .. n : g[k] = FeatureOfRow(g[k - 1], file, file.rows[k], maps)
  BY DEF FeatureRun
<1>2. \A k \in 0 .. n : Goes(p, g[k], maps, RowsLeft(file.rows, k), F, S, {}) /\ IsPlan(g[k].plan)
  BY DEF Goes, IsAcc
<1>3. ASSUME NEW k \in 1 .. n, Brought(p, g[k - 1], file, maps, k - 1)
      PROVE  Steps(g[k - 1], g[k], file, file.rows[k], maps) /\ Brought(p, g[k], file, maps, k)
  <2>1. k - 1 \in 0 .. n /\ k \in 0 .. n
    BY <1>0
  <2>2. Goes(p, g[k - 1], maps, RowsLeft(file.rows, k - 1), F, S, {}) /\ IsPlan(g[k].plan)
    BY <1>2, <2>1
  <2> QED  BY <1>1, <1>3, <2>2, RowSteps
<1> HIDE DEF n
<1>4. \A k \in 1 .. n : k - 1 \in H => k \in H
  BY <1>0, <1>3
<1>5. ASSUME NEW m \in 0 .. n PROVE m \in H
  <2>1. 0 \in H /\ m \in Nat /\ \A k \in 1 .. m : k - 1 \in H => k \in H
    BY <1>0, <1>1, <1>4
  <2> HIDE DEF H
  <2> QED  BY <2>1, InductionUpTo
<1>6. \A k \in 1 .. n : Steps(g[k - 1], g[k], file, file.rows[k], maps)
  BY <1>0, <1>3, <1>5
<1>7. \A k \in 1 .. n : Extends(g[k - 1].plan, g[k].plan)
  <2> SUFFICES ASSUME NEW k \in 1 .. n PROVE Extends(g[k - 1].plan, g[k].plan)
    OBVIOUS
  <2> QED  BY <1>6, ExtendsItself DEF Steps, RowAdds
<1>8. \A k \in 0 .. n : Extends(g[k].plan, g[n].plan)
  BY <1>0, <1>2, <1>7, EachExtends
<1> QED  BY <1>5, <1>6, <1>8 DEF n

\* A State that is there is not made again.
LEMMA StateIsAlready ==
  ASSUME NEW acc, NEW file, NEW type, NEW value, Found(acc.plan, file, type, value)
  PROVE  WithState(acc, file, type, value) = acc
BY DEF Found, WithState

\* A State that is there is the one that is named later on.
LEMMA FoundStays ==
  ASSUME NEW p, NEW q, ListExtends(p, q), NEW file, NEW type, NEW value, Found(p, file, type, value)
  PROVE  Found(q, file, type, value) /\ (file.stateColumn => Named(q, type, value) = Named(p, type, value))
<1>1. file.stateColumn /\ value # Nothing => FindState(p, type, value) # {} /\ FindState(q, type, value) = FindState(p, type, value)
  BY DEF Found, ListExtends
<1>2. ASSUME file.stateColumn PROVE Named(q, type, value) = Named(p, type, value)
  <2>1. CASE value = Nothing
    BY <2>1 DEF Named
  <2>2. CASE value # Nothing
    <3>1. FindState(q, type, value) = FindState(p, type, value)
      BY <1>1, <1>2, <2>2
    <3> QED  BY <2>2, <3>1 DEF Named
  <2> QED  BY <2>1, <2>2
<1> QED  BY <1>1, <1>2 DEF Found

\* The rows so far have written the State of m, a feature of q.
Covered(q, acc, file, m) == file.stateColumn /\ \E i \in DOMAIN acc.landed : m \in LineageMembers(q, acc.landed[i][2])

\* Rows that made a of the plan they found make b of what the whole file made of it, q: only States differ,
\* those the rows so far have written and later ones write again.
Again(a, b, q, file) ==
    /\ IsAcc(b) /\ b.landed = a.landed
    /\ b.plan.story = q.story /\ b.plan.list = q.list /\ b.plan.pi = q.pi /\ b.plan.path = q.path
    /\ DOMAIN b.plan.feature = DOMAIN q.feature
    /\ \A m \in DOMAIN q.feature :
         /\ b.plan.feature[m] = [q.feature[m] EXCEPT !.state = b.plan.feature[m].state]
         /\ b.plan.feature[m].state = IF Covered(q, a, file, m) THEN a.plan.feature[m].state ELSE q.feature[m].state

\* A row of a feature that is worked in again leaves all but the States of its lineage.
LEMMA RowAgain ==
  ASSUME NEW q, IsPlan(q), NEW a, IsAcc(a), Landed(a, {}), NEW new, IsPlan(new.plan), NEW file, NEW row \in FileRows, NEW f,
         RowAdds(a, new, file, row, f), Extends(new.plan, q), \A m \in LineageMembers(q, f) : q.feature[m].unassigned = FALSE,
         NEW b, Again(a, b, q, file), NEW maps, row.uid \in DOMAIN maps.feature, maps.feature[row.uid] = f
  PROVE  Again(new, UpsertFeature(WithState(b, file, "feature", row.state), file, row, maps), q, file)
<1> DEFINE more == Lands(b, row, f)
           next == UpsertFeature(WithState(b, file, "feature", row.state), file, row, maps)
           L == LineageMembers(q, f)
<1>1. /\ Extends(a.plan, new.plan) /\ new.landed = Append(a.landed, <<row, f>>) /\ DOMAIN new.plan.feature = DOMAIN a.plan.feature \cup {f}
      /\ Found(new.plan, file, "feature", row.state)
      /\ \A m \in DOMAIN a.plan.feature \ LineageMembers(new.plan, f) : new.plan.feature[m] = a.plan.feature[m]
      /\ \A m \in LineageMembers(new.plan, f) : file.stateColumn => new.plan.feature[m].state = Named(new.plan, "feature", row.state)
  BY DEF RowAdds
<1>2. /\ IsAcc(b) /\ b.landed = a.landed
      /\ b.plan.story = q.story /\ b.plan.list = q.list /\ b.plan.pi = q.pi /\ b.plan.path = q.path
      /\ DOMAIN b.plan.feature = DOMAIN q.feature
      /\ \A m \in DOMAIN q.feature :
           /\ b.plan.feature[m] = [q.feature[m] EXCEPT !.state = b.plan.feature[m].state]
           /\ b.plan.feature[m].state = IF Covered(q, a, file, m) THEN a.plan.feature[m].state ELSE q.feature[m].state
  BY DEF Again
<1>3. FeaturesExtend(new.plan, q) /\ ListExtends(new.plan, q) /\ FeaturesExtend(a.plan, new.plan)
  BY <1>1 DEF Extends
<1>4. DOMAIN new.plan.feature \subseteq DOMAIN q.feature /\ f \in DOMAIN new.plan.feature /\ f \in DOMAIN q.feature /\ f \in Ids
  BY <1>1, <1>3, PlanTables DEF FeaturesExtend
<1>5. Found(q, file, "feature", row.state) /\ (file.stateColumn => Named(q, "feature", row.state) = Named(new.plan, "feature", row.state))
  BY <1>1, <1>3, FoundStays
<1>6. Found(b.plan, file, "feature", row.state) /\ Named(b.plan, "feature", row.state) = Named(q, "feature", row.state)
  BY <1>2, <1>5, SameList
<1>7. WithState(b, file, "feature", row.state) = b
  BY <1>6, StateIsAlready
<1>8. next = Updated(more, file, row, f)
  BY <1>7 DEF UpsertFeature
<1>9. IsAcc(more) /\ more.plan = b.plan /\ more.spare = b.spare /\ more.landed = new.landed
  <2>1. Landed(b, {})
    BY <1>1, <1>2, <1>4 DEF Landed
  <2>2. IsAcc(more) /\ more.plan = b.plan /\ more.spare = b.spare
    BY <1>2, <1>4, <2>1, LandsMore
  <2>3. more.landed = Append(b.landed, <<row, f>>)
    BY <1>2 DEF Lands, IsAcc
  <2> QED  BY <1>1, <1>2, <2>2, <2>3
<1> HIDE DEF more, next
<1>10. Rewritten(more, next, file, row, f) /\ IsAcc(next)
  <2>1. f \in DOMAIN more.plan.feature /\ Found(more.plan, file, "feature", row.state)
    BY <1>2, <1>4, <1>6, <1>9
  <2>2. Rewritten(more, next, file, row, f)
    BY <1>8, <1>9, <2>1, LineageIsUpdated
  <2>3. IsAcc(Updated(more, file, row, f))
    BY <1>9, <2>1, FeatureUpdated
  <2> QED  BY <1>8, <2>2, <2>3
<1>11. \A m \in DOMAIN q.feature : q.feature[m] \in FeatureRows /\ b.plan.feature[m] \in FeatureRows
  BY <1>2, PlanTables DEF IsAcc
<1>12. \A m \in DOMAIN q.feature : /\ b.plan.feature[m].uid = q.feature[m].uid /\ b.plan.feature[m].origin = q.feature[m].origin
                                   /\ b.plan.feature[m].unassigned = q.feature[m].unassigned
  <2> SUFFICES ASSUME NEW m \in DOMAIN q.feature
               PROVE  /\ b.plan.feature[m].uid = q.feature[m].uid /\ b.plan.feature[m].origin = q.feature[m].origin
                      /\ b.plan.feature[m].unassigned = q.feature[m].unassigned
    OBVIOUS
  <2>1. b.plan.feature[m] = [q.feature[m] EXCEPT !.state = b.plan.feature[m].state] /\ q.feature[m] \in FeatureRows
    BY <1>2, <1>11
  <2> QED  BY <2>1 DEF FeatureRows
<1>13. LineageMembers(b.plan, f) = L
  <2>1. FeaturesExtend(q, b.plan)
    BY <1>2, <1>12 DEF FeaturesExtend
  <2> QED  BY <1>2, <1>4, <2>1, SameLineages DEF IsAcc
<1>14. LineageMembers(new.plan, f) = L /\ L \subseteq DOMAIN new.plan.feature
  BY <1>3, <1>4, SameLineages, LineageIsThere
<1> HIDE DEF L
<1>15. /\ next.landed = new.landed /\ DOMAIN next.plan.feature = DOMAIN q.feature
       /\ \A m \in DOMAIN q.feature \ L : next.plan.feature[m] = b.plan.feature[m]
       /\ \A m \in L : next.plan.feature[m] = [b.plan.feature[m] EXCEPT !.unassigned = FALSE,
                                                 !.state = RowState(more, file, "feature", row.state, b.plan.feature[m].state)]
       /\ next.plan.story = q.story /\ next.plan.list = q.list /\ next.plan.pi = q.pi /\ next.plan.path = q.path
  <2>1. /\ next.landed = more.landed /\ DOMAIN next.plan.feature = DOMAIN more.plan.feature
        /\ \A m \in DOMAIN more.plan.feature \ LineageMembers(more.plan, f) : next.plan.feature[m] = more.plan.feature[m]
        /\ next.plan.story = more.plan.story /\ next.plan.list = more.plan.list /\ next.plan.pi = more.plan.pi /\ next.plan.path = more.plan.path
    BY <1>10 DEF Rewritten
  <2>2. \A m \in LineageMembers(more.plan, f) :
          next.plan.feature[m] = [more.plan.feature[m] EXCEPT !.unassigned = FALSE,
                                    !.state = RowState(more, file, "feature", row.state, more.plan.feature[m].state)]
    BY <1>10 DEF Rewritten
  <2>3. more.plan = b.plan /\ LineageMembers(more.plan, f) = L
    BY <1>9, <1>13
  <2>4. \A m \in L : next.plan.feature[m] = [b.plan.feature[m] EXCEPT !.unassigned = FALSE,
                                               !.state = RowState(more, file, "feature", row.state, b.plan.feature[m].state)]
    BY <2>2, <2>3, Zenon
  <2>5. \A m \in DOMAIN q.feature \ L : next.plan.feature[m] = b.plan.feature[m]
    BY <1>2, <2>1, <2>3
  <2> QED  BY <1>2, <1>9, <2>1, <2>3, <2>4, <2>5
<1>16. ASSUME NEW m \in L
       PROVE  /\ next.plan.feature[m] = [q.feature[m] EXCEPT !.state = next.plan.feature[m].state]
              /\ next.plan.feature[m].state = IF file.stateColumn THEN new.plan.feature[m].state ELSE b.plan.feature[m].state
  <2>0. m \in DOMAIN q.feature
    BY <1>4, <1>14
  <2> DEFINE state == RowState(more, file, "feature", row.state, b.plan.feature[m].state)
  <2>1. state = IF file.stateColumn THEN new.plan.feature[m].state ELSE b.plan.feature[m].state
    BY <1>1, <1>5, <1>6, <1>9, <1>14 DEF RowState
  <2>2. /\ next.plan.feature[m] = [b.plan.feature[m] EXCEPT !.unassigned = FALSE, !.state = state]
        /\ b.plan.feature[m] = [q.feature[m] EXCEPT !.state = b.plan.feature[m].state]
        /\ q.feature[m].unassigned = FALSE /\ q.feature[m] \in FeatureRows
    BY <1>2, <1>11, <1>15, <2>0 DEF L
  <2> HIDE DEF state
  <2>3. next.plan.feature[m] = [q.feature[m] EXCEPT !.state = state]
    BY <2>2 DEF FeatureRows
  <2>4. next.plan.feature[m].state = state
    BY <2>2, <2>3 DEF FeatureRows
  <2> QED  BY <2>1, <2>3, <2>4
<1>17. \A m \in DOMAIN q.feature : Covered(q, new, file, m) <=> Covered(q, a, file, m) \/ (file.stateColumn /\ m \in L)
  <2>1. LandsNext(a, new, row, f)
    BY <1>1, <1>4, LandedNext
  <2>2. <<row, f>>[2] = f
    OBVIOUS
  <2> QED  BY <2>1, <2>2 DEF Covered, LandsNext, L
<1>18. ASSUME NEW m \in DOMAIN q.feature, Covered(q, a, file, m)
       PROVE  m \in DOMAIN a.plan.feature
  <2>1. PICK i \in DOMAIN a.landed : m \in LineageMembers(q, a.landed[i][2])
    BY <1>18 DEF Covered
  <2>2. a.landed[i][2] \in DOMAIN a.plan.feature /\ IsPlan(a.plan)
    BY DEF Landed, IsAcc
  <2>3. a.landed[i][2] \in DOMAIN new.plan.feature
    BY <1>1, <2>2
  <2>4. LineageMembers(q, a.landed[i][2]) = LineageMembers(new.plan, a.landed[i][2])
    BY <1>3, <2>3, SameLineages
  <2>5. LineageMembers(new.plan, a.landed[i][2]) = LineageMembers(a.plan, a.landed[i][2])
    BY <1>3, <2>2, SameLineages
  <2> QED  BY <2>1, <2>2, <2>4, <2>5, LineageIsThere
<1>19. ASSUME NEW m \in DOMAIN q.feature
       PROVE  /\ next.plan.feature[m] = [q.feature[m] EXCEPT !.state = next.plan.feature[m].state]
              /\ next.plan.feature[m].state = IF Covered(q, new, file, m) THEN new.plan.feature[m].state ELSE q.feature[m].state
  <2>1. CASE m \in L
    <3>1. CASE file.stateColumn
      BY <1>16, <1>17, <2>1, <3>1
    <3>2. CASE ~ file.stateColumn
      <4>1. ~ Covered(q, new, file, m) /\ ~ Covered(q, a, file, m)
        BY <3>2 DEF Covered
      <4> QED  BY <1>2, <1>16, <2>1, <3>2, <4>1
    <3> QED  BY <3>1, <3>2
  <2>2. CASE m \notin L
    <3>1. next.plan.feature[m] = b.plan.feature[m]
      BY <1>15, <2>2
    <3>2. CASE Covered(q, a, file, m)
      <4>1. new.plan.feature[m] = a.plan.feature[m]
        BY <1>1, <1>14, <1>18, <2>2, <3>2
      <4> QED  BY <1>2, <1>17, <3>1, <3>2, <4>1
    <3>3. CASE ~ Covered(q, a, file, m)
      BY <1>2, <1>17, <2>2, <3>1, <3>3
    <3> QED  BY <3>2, <3>3
  <2> QED  BY <2>1, <2>2
<1>20. Again(new, next, q, file)
  BY <1>10, <1>15, <1>19 DEF Again
<1> QED  BY <1>20 DEF next

\* No two rows have one business id.
UidsOnce(rows) == \A x, y \in DOMAIN rows : rows[x].uid = rows[y].uid /\ rows[y].uid # Nothing => x = y

\* The feature or story of a business id, where there is one.
LEMMA MappedTo ==
  ASSUME NEW p, NEW maps, Mapped(p, maps), UidsOnce(p.feature), NEW f \in DOMAIN p.feature, NEW uid, p.feature[f].uid = uid, uid # Nothing
  PROVE  uid \in DOMAIN maps.feature /\ maps.feature[uid] = f
<1>1. uid \in DOMAIN maps.feature
  BY DEF Mapped, UidsOf
<1>2. maps.feature[uid] \in DOMAIN p.feature /\ p.feature[maps.feature[uid]].uid = uid
  BY <1>1 DEF Mapped
<1> QED  BY <1>1, <1>2 DEF UidsOnce

\* The loop over the features, the first time and again.
LEMMA FeaturesAgain ==
  ASSUME NEW q, IsPlan(q), UidsOnce(q.feature), NEW file, Identified(file), NEW maps, NEW g,
         \A k \in 0 .. Len(file.rows) : IsAcc(g[k]) /\ Landed(g[k], {}) /\ Extends(g[k].plan, q),
         \A k \in 1 .. Len(file.rows) : Steps(g[k - 1], g[k], file, file.rows[k], maps),
         NEW twice, Mapped(q, twice), Imported(file, twice) = Imported(file, maps),
         NEW acc, Again(g[0], acc, q, file), NEW b, FeatureRun(b, acc, file, twice)
  PROVE  Again(g[Len(file.rows)], b[Len(file.rows)], q, file)
<1> DEFINE n == Len(file.rows)
           H == {k \in 0 .. n : Again(g[k], b[k], q, file)}
<1>0. n \in Nat /\ (\A k \in 1 .. n : file.rows[k] \in FileRows) /\ \A k \in 1 .. n : file.rows[k].uid # Nothing
  BY DEF Identified, Indices
<1>1. b[0] = acc /\ \A k \in 1 .. n : b[k] = FeatureOfRow(b[k - 1], file, file.rows[k], twice)
  BY DEF FeatureRun
<1>2. \A k \in 0 .. n : IsAcc(g[k]) /\ Landed(g[k], {}) /\ Extends(g[k].plan, q) /\ IsPlan(g[k].plan)
  BY DEF IsAcc
<1> HIDE DEF n
<1>3. ASSUME NEW k \in 1 .. n, Again(g[k - 1], b[k - 1], q, file)
      PROVE  Again(g[k], b[k], q, file)
  <2> DEFINE row == file.rows[k]
             a == g[k - 1]
             c == b[k - 1]
  <2>1. k - 1 \in 0 .. n /\ k \in 0 .. n /\ row \in FileRows /\ row.uid # Nothing
    BY <1>0
  <2>2. Steps(a, g[k], file, row, maps) /\ b[k] = FeatureOfRow(c, file, row, twice)
    BY <1>1 DEF n
  <2>3. IsAcc(a) /\ Landed(a, {}) /\ IsPlan(g[k].plan) /\ Extends(g[k].plan, q) /\ Again(a, c, q, file)
    BY <1>2, <1>3, <2>1
  <2> HIDE DEF row, a, c
  <2>4. CASE IsFeature(row) /\ row \in Imported(file, maps)
    <3>1. PICK f : RowAdds(a, g[k], file, row, f)
      BY <2>2, <2>4 DEF Steps
    <3>2. b[k] = UpsertFeature(WithState(c, file, "feature", row.state), file, row, twice)
      BY <2>2, <2>4 DEF FeatureOfRow
    <3>3. /\ f \in DOMAIN g[k].plan.feature /\ g[k].plan.feature[f].uid = row.uid
          /\ \A m \in LineageMembers(g[k].plan, f) : g[k].plan.feature[m].unassigned = FALSE
      BY <3>1 DEF RowAdds
    <3>4. FeaturesExtend(g[k].plan, q)
      BY <2>3 DEF Extends
    <3>5. LineageMembers(q, f) = LineageMembers(g[k].plan, f) /\ LineageMembers(g[k].plan, f) \subseteq DOMAIN g[k].plan.feature
      BY <2>3, <3>3, <3>4, SameLineages, LineageIsThere
    <3>6. \A m \in LineageMembers(q, f) : q.feature[m].unassigned = FALSE
      BY <3>3, <3>4, <3>5 DEF FeaturesExtend
    <3>7. f \in DOMAIN q.feature /\ q.feature[f].uid = row.uid
      BY <3>3, <3>4 DEF FeaturesExtend
    <3>8. row.uid \in DOMAIN twice.feature /\ twice.feature[row.uid] = f
      BY <2>1, <3>7, MappedTo
    <3> QED  BY <2>1, <2>3, <3>1, <3>2, <3>6, <3>8, RowAgain
  <2>5. CASE ~ (IsFeature(row) /\ row \in Imported(file, maps))
    <3>1. g[k] = a /\ b[k] = c
      BY <2>2, <2>5 DEF Steps, FeatureOfRow
    <3> QED  BY <2>3, <3>1
  <2> QED  BY <2>4, <2>5
<1>4. \A k \in 1 .. n : k - 1 \in H => k \in H
  BY <1>0, <1>3
<1>5. 0 \in H
  BY <1>0, <1>1
<1>6. n \in H
  <2> HIDE DEF H
  <2> QED  BY <1>0, <1>4, <1>5, InductionUpTo
<1> QED  BY <1>6 DEF n

\* Where the States are those the rows write, the second time leaves everything.
LEMMA AgainIsSame ==
  ASSUME NEW q, IsPlan(q), NEW a, NEW b, NEW file, Again(a, b, q, file), Landed(a, {}), IsPlan(a.plan), Extends(a.plan, q),
         \A f \in DOMAIN a.plan.feature : q.feature[f].state = a.plan.feature[f].state
  PROVE  IsAcc(b) /\ b.plan = q /\ b.landed = a.landed
<1>1. /\ IsAcc(b) /\ b.landed = a.landed
      /\ b.plan.story = q.story /\ b.plan.list = q.list /\ b.plan.pi = q.pi /\ b.plan.path = q.path
      /\ DOMAIN b.plan.feature = DOMAIN q.feature
      /\ \A m \in DOMAIN q.feature :
           /\ b.plan.feature[m] = [q.feature[m] EXCEPT !.state = b.plan.feature[m].state]
           /\ b.plan.feature[m].state = IF Covered(q, a, file, m) THEN a.plan.feature[m].state ELSE q.feature[m].state
  BY DEF Again
<1>2. ASSUME NEW m \in DOMAIN q.feature, Covered(q, a, file, m)
      PROVE  m \in DOMAIN a.plan.feature
  <2>1. PICK i \in DOMAIN a.landed : m \in LineageMembers(q, a.landed[i][2])
    BY <1>2 DEF Covered
  <2>2. a.landed[i][2] \in DOMAIN a.plan.feature
    BY DEF Landed
  <2>3. LineageMembers(q, a.landed[i][2]) = LineageMembers(a.plan, a.landed[i][2])
    BY <2>2, SameLineages DEF Extends
  <2> QED  BY <2>1, <2>2, <2>3, LineageIsThere
<1>3. ASSUME NEW m \in DOMAIN q.feature
      PROVE  b.plan.feature[m] = q.feature[m]
  <2>1. q.feature[m] \in FeatureRows
    BY PlanTables
  <2>2. b.plan.feature[m].state = q.feature[m].state
    BY <1>1, <1>2
  <2>3. b.plan.feature[m] = [q.feature[m] EXCEPT !.state = q.feature[m].state]
    BY <1>1, <2>2
  <2> QED  BY <2>1, <2>3 DEF FeatureRows
<1>4. b.plan.feature = q.feature
  <2>1. b.plan.feature = [f \in DOMAIN b.plan.feature |-> b.plan.feature[f]] /\ q.feature = [f \in DOMAIN q.feature |-> q.feature[f]]
    BY <1>1, PlanTables DEF IsAcc, IsTable
  <2> QED  BY <1>1, <1>3, <2>1
<1>5. b.plan = [table \in Tables |-> b.plan[table]] /\ q = [table \in Tables |-> q[table]]
  BY <1>1 DEF IsAcc, IsPlan
<1>6. \A table \in Tables : b.plan[table] = q[table]
  BY <1>1, <1>4 DEF Tables
<1>7. b.plan = q
  BY <1>5, <1>6
<1> QED  BY <1>1, <1>7

\* Placing l[2] where the path of l[1] says would leave it where it is.
PlacedAlready(p, l) ==
    LET pi == (CHOOSE x \in Targets(p, l[1].path) : TRUE)[1] IN
    \/ Targets(p, l[1].path) = {}
    \/ l[2] \notin DOMAIN p.feature
    \/ LineageMembers(p, l[2]) # {l[2]} \/ Closed(p, pi) \/ Closed(p, p.feature[l[2]].pi)
    \/ p.feature[l[2]].pi = pi

\* Such a feature is not touched.
LEMMA PlacedIsLeft ==
  ASSUME NEW acc, IsAcc(acc), NEW l, PlacedAlready(acc.plan, l)
  PROVE  Placed(acc, l) = acc
<1> DEFINE p == acc.plan
           f == l[2]
           pi == (CHOOSE x \in Targets(p, l[1].path) : TRUE)[1]
<1>1. CASE Targets(p, l[1].path) = {} \/ f \notin DOMAIN p.feature
  BY <1>1 DEF Placed
<1>2. CASE Targets(p, l[1].path) # {} /\ f \in DOMAIN p.feature
  <2>1. Placed(acc, l) = [acc EXCEPT !.plan = PlaceFeature(p, f, pi)]
    BY <1>2 DEF Placed
  <2>2. LineageMembers(p, f) # {f} \/ Closed(p, pi) \/ Closed(p, p.feature[f].pi) \/ p.feature[f].pi = pi
    BY <1>2 DEF PlacedAlready
  <2>3. p = [table \in Tables |-> p[table]] /\ p.feature[f] \in FeatureRows /\ p.feature = [x \in DOMAIN p.feature |-> p.feature[x]]
    BY <1>2, PlanTables DEF IsAcc, IsPlan, IsTable
  <2>4. acc = [plan |-> p, landed |-> acc.landed, spare |-> acc.spare]
    BY DEF IsAcc
  <2> HIDE DEF p, f, pi
  <2>5. PlaceFeature(p, f, pi) = p
    <3>1. CASE LineageMembers(p, f) # {f} \/ Closed(p, pi) \/ Closed(p, p.feature[f].pi)
      BY <3>1 DEF PlaceFeature
    <3>2. CASE ~ (LineageMembers(p, f) # {f} \/ Closed(p, pi) \/ Closed(p, p.feature[f].pi))
      <4>1. p.feature[f].pi = pi
        BY <2>2, <3>2
      <4>2. PlaceFeature(p, f, pi) = [p EXCEPT !.feature[f].pi = pi]
        BY <3>2 DEF PlaceFeature
      <4>3. [p.feature[f] EXCEPT !.pi = pi] = p.feature[f]
        BY <2>3, <4>1 DEF FeatureRows
      <4>4. [p.feature EXCEPT ![f] = p.feature[f]] = p.feature
        BY <2>3
      <4>5. [p EXCEPT !.feature = p.feature] = p
        BY <2>3
      <4>6. [p EXCEPT !.feature[f].pi = pi] = [p EXCEPT !.feature = [p.feature EXCEPT ![f] = [p.feature[f] EXCEPT !.pi = pi]]]
        OBVIOUS
      <4> QED  BY <4>2, <4>3, <4>4, <4>5, <4>6
    <3> QED  BY <3>1, <3>2
  <2>6. [acc EXCEPT !.plan = p] = acc
    BY <2>4
  <2> QED  BY <2>1, <2>5, <2>6
<1> QED  BY <1>1, <1>2

\* What placing one feature does.
Places(acc, new, l) ==
    /\ Extends(acc.plan, new.plan) /\ new.plan.story = acc.plan.story /\ new.plan.list = acc.plan.list
    /\ new.landed = acc.landed /\ new.spare = acc.spare /\ DOMAIN new.plan.feature = DOMAIN acc.plan.feature
    /\ \A f \in DOMAIN acc.plan.feature :
         /\ new.plan.feature[f].state = acc.plan.feature[f].state
         /\ f # l[2] => new.plan.feature[f] = acc.plan.feature[f]
    /\ PlacedAlready(new.plan, l)

\* _place_from_iterations, of one feature: it is where it would be placed.
LEMMA FeaturePlaces ==
  ASSUME NEW acc, IsAcc(acc), NEW l
  PROVE  Places(acc, Placed(acc, l), l)
<1> DEFINE p == acc.plan
           f == l[2]
           pi == (CHOOSE x \in Targets(p, l[1].path) : TRUE)[1]
           new == Placed(acc, l)
<1>0. p = [table \in Tables |-> p[table]] /\ acc = [plan |-> p, landed |-> acc.landed, spare |-> acc.spare]
  BY DEF IsAcc, IsPlan
<1>1. CASE new = acc /\ PlacedAlready(acc.plan, l)
  <2> HIDE DEF new
  <2>1. Places(acc, new, l)
    BY <1>1, ExtendsItself DEF Places
  <2> QED  BY <2>1 DEF new
<1>2. CASE Targets(p, l[1].path) = {} \/ f \notin DOMAIN p.feature
  <2>1. new = acc /\ PlacedAlready(acc.plan, l)
    BY <1>2 DEF Placed, PlacedAlready
  <2> QED  BY <1>1, <2>1
<1>3. CASE Targets(p, l[1].path) # {} /\ f \in DOMAIN p.feature /\ (LineageMembers(p, f) # {f} \/ Closed(p, pi) \/ Closed(p, p.feature[f].pi))
  <2>1. PlacedAlready(acc.plan, l)
    BY <1>3 DEF PlacedAlready
  <2> QED  BY <1>1, <2>1, PlacedIsLeft
<1>4. CASE Targets(p, l[1].path) # {} /\ f \in DOMAIN p.feature /\ ~ (LineageMembers(p, f) # {f} \/ Closed(p, pi) \/ Closed(p, p.feature[f].pi))
  <2> DEFINE q == [p EXCEPT !.feature[f].pi = pi]
             rows == [p.feature EXCEPT ![f] = [p.feature[f] EXCEPT !.pi = pi]]
  <2>1. new = [acc EXCEPT !.plan = q]
    BY <1>4 DEF Placed, PlaceFeature
  <2>2. q = [p EXCEPT !.feature = rows]
    OBVIOUS
  <2>3. \A x \in DOMAIN p.feature : p.feature[x] \in FeatureRows
    BY PlanTables DEF IsAcc
  <2>4. p.feature = [x \in DOMAIN p.feature |-> p.feature[x]]
    BY PlanTables DEF IsAcc, IsTable
  <2>5. /\ DOMAIN rows = DOMAIN p.feature /\ (\A x \in DOMAIN p.feature \ {f} : rows[x] = p.feature[x])
        /\ rows[f] = [p.feature[f] EXCEPT !.pi = pi]
    <3> HIDE DEF pi, f, p
    <3> QED  BY <1>4, <2>4
  <2> HIDE DEF rows, q, pi, new, f, p
  <2>6. /\ rows[f].pi = pi /\ rows[f].uid = p.feature[f].uid /\ rows[f].origin = p.feature[f].origin
        /\ rows[f].unassigned = p.feature[f].unassigned /\ rows[f].state = p.feature[f].state
    BY <1>4, <2>3, <2>5 DEF FeatureRows
  <2>7. q.feature = rows /\ q.story = p.story /\ q.list = p.list /\ q.pi = p.pi /\ q.path = p.path
    BY <1>0, <2>2, OneTable
  <2>8. new.plan = q /\ new.landed = acc.landed /\ new.spare = acc.spare
    BY <1>0, <2>1
  <2>9. \A x \in DOMAIN p.feature :
          /\ q.feature[x].uid = p.feature[x].uid /\ q.feature[x].origin = p.feature[x].origin
          /\ q.feature[x].unassigned = p.feature[x].unassigned /\ q.feature[x].state = p.feature[x].state
          /\ x # f => q.feature[x] = p.feature[x]
    BY <2>5, <2>6, <2>7
  <2>10. FeaturesExtend(p, q)
    BY <2>5, <2>7, <2>9 DEF FeaturesExtend
  <2>11. Extends(p, q)
    BY <2>7, <2>10, SameList DEF Extends
  <2>12. PlacedAlready(q, l)
    <3>1. \A path : Targets(q, path) = Targets(p, path)
      BY <2>7 DEF Targets
    <3>0. Targets(q, l[1].path) = Targets(p, l[1].path)
      BY <3>1
    <3>3. (CHOOSE x \in Targets(q, l[1].path) : TRUE)[1] = pi
      BY <3>0, Zenon DEF pi
    <3>2. q.feature[f].pi = (CHOOSE x \in Targets(q, l[1].path) : TRUE)[1]
      BY <2>6, <2>7, <3>3
    <3> QED  BY <3>2 DEF PlacedAlready, f
  <2>13. Places(acc, new, l)
    BY <2>5, <2>7, <2>8, <2>9, <2>11, <2>12 DEF Places, p, f
  <2> QED  BY <2>13 DEF new
<1> QED  BY <1>2, <1>3, <1>4

\* It stays placed while it stays where it is.
LEMMA PlacedStays ==
  ASSUME NEW p, IsPlan(p), NEW q, IsPlan(q), Extends(p, q), NEW l, l[2] \in DOMAIN p.feature,
         q.feature[l[2]].pi = p.feature[l[2]].pi, PlacedAlready(p, l)
  PROVE  PlacedAlready(q, l)
<1>1. q.pi = p.pi /\ q.path = p.path /\ FeaturesExtend(p, q)
  BY DEF Extends
<1>2. \A path : Targets(q, path) = Targets(p, path)
  BY <1>1 DEF Targets
<1>3. \A pi : Closed(q, pi) <=> Closed(p, pi)
  BY <1>1 DEF Closed
<1>4. LineageMembers(q, l[2]) = LineageMembers(p, l[2])
  BY <1>1, SameLineages
<1>5. (CHOOSE x \in Targets(q, l[1].path) : TRUE)[1] = (CHOOSE x \in Targets(p, l[1].path) : TRUE)[1]
  <2>1. Targets(q, l[1].path) = Targets(p, l[1].path)
    BY <1>2
  <2> QED  BY <2>1, Zenon
<1> QED  BY <1>2, <1>3, <1>4, <1>5 DEF PlacedAlready

\* What placing features does, the first k of them.
PlacesSome(acc, new, k) ==
    /\ Extends(acc.plan, new.plan) /\ new.plan.story = acc.plan.story /\ new.plan.list = acc.plan.list
    /\ new.landed = acc.landed /\ new.spare = acc.spare /\ DOMAIN new.plan.feature = DOMAIN acc.plan.feature
    /\ \A f \in DOMAIN acc.plan.feature : new.plan.feature[f].state = acc.plan.feature[f].state
    /\ \A i \in DOMAIN acc.landed : i <= k => PlacedAlready(new.plan, acc.landed[i])

\* One feature more.
LEMMA OneMorePlaced ==
  ASSUME NEW acc, Landed(acc, {}), \A i, j \in DOMAIN acc.landed : acc.landed[i][2] = acc.landed[j][2] => i = j,
         NEW a, IsAcc(a), NEW k \in 1 .. Len(acc.landed), PlacesSome(acc, a, k - 1), NEW new, IsPlan(new.plan), Places(a, new, acc.landed[k])
  PROVE  PlacesSome(acc, new, k)
<1> DEFINE l == acc.landed[k]
<1>0. Len(acc.landed) \in Nat /\ DOMAIN acc.landed = 1 .. Len(acc.landed) /\ k \in DOMAIN acc.landed /\ IsPlan(a.plan)
      /\ \A i \in DOMAIN acc.landed : acc.landed[i][2] \in DOMAIN acc.plan.feature
  BY DEF Landed, IsAcc
<1>1. /\ Extends(acc.plan, a.plan) /\ a.plan.story = acc.plan.story /\ a.plan.list = acc.plan.list
      /\ a.landed = acc.landed /\ a.spare = acc.spare /\ DOMAIN a.plan.feature = DOMAIN acc.plan.feature
      /\ \A f \in DOMAIN acc.plan.feature : a.plan.feature[f].state = acc.plan.feature[f].state
      /\ \A i \in DOMAIN acc.landed : i <= k - 1 => PlacedAlready(a.plan, acc.landed[i])
  BY DEF PlacesSome
<1>2. /\ Extends(a.plan, new.plan) /\ new.plan.story = a.plan.story /\ new.plan.list = a.plan.list
      /\ new.landed = a.landed /\ new.spare = a.spare /\ DOMAIN new.plan.feature = DOMAIN a.plan.feature
      /\ \A f \in DOMAIN a.plan.feature :
           /\ new.plan.feature[f].state = a.plan.feature[f].state
           /\ f # l[2] => new.plan.feature[f] = a.plan.feature[f]
      /\ PlacedAlready(new.plan, l)
  BY DEF Places
<1> HIDE DEF l
<1>3. Extends(acc.plan, new.plan)
  BY <1>0, <1>1, <1>2, ExtendsOn
<1>4. ASSUME NEW i \in DOMAIN acc.landed, i <= k
      PROVE  PlacedAlready(new.plan, acc.landed[i])
  <2>1. CASE i = k
    BY <1>2, <2>1 DEF l
  <2>2. CASE i # k
    <3>1. i <= k - 1
      BY <1>0, <1>4, <2>2
    <3>2. acc.landed[i][2] # l[2]
      BY <1>0, <2>2 DEF l
    <3>3. acc.landed[i][2] \in DOMAIN a.plan.feature /\ new.plan.feature[acc.landed[i][2]].pi = a.plan.feature[acc.landed[i][2]].pi
      BY <1>0, <1>1, <1>2, <3>2
    <3>4. PlacedAlready(a.plan, acc.landed[i])
      BY <1>1, <3>1
    <3> QED  BY <1>0, <1>2, <3>3, <3>4, PlacedStays, SMTT(30)
  <2> QED  BY <2>1, <2>2
<1> QED  BY <1>1, <1>2, <1>3, <1>4 DEF PlacesSome

\* What the loop over the features that landed does.
PlacesAll(acc, new, file) ==
    /\ Extends(acc.plan, new.plan) /\ new.plan.story = acc.plan.story /\ new.plan.list = acc.plan.list
    /\ new.landed = acc.landed /\ new.spare = acc.spare /\ DOMAIN new.plan.feature = DOMAIN acc.plan.feature
    /\ \A f \in DOMAIN acc.plan.feature : new.plan.feature[f].state = acc.plan.feature[f].state
    /\ file.places => \A i \in DOMAIN acc.landed : PlacedAlready(new.plan, acc.landed[i])

\* All of them.
LEMMA PlacementSettles ==
  ASSUME NEW acc, Landed(acc, {}), \A i, j \in DOMAIN acc.landed : acc.landed[i][2] = acc.landed[j][2] => i = j, NEW file,
         NEW p, NEW maps, NEW R, NEW F, NEW S, Goes(p, acc, maps, R, F, S, {})
  PROVE  PlacesAll(acc, PlaceFromIterations(acc, file), file)
<1> DEFINE n == Len(acc.landed)
           new == PlaceFromIterations(acc, file)
<1>0. n \in Nat /\ DOMAIN acc.landed = 1 .. n
  BY DEF Landed
<1>1. CASE ~ file.places
  <2>1. new = acc
    BY <1>1 DEF PlaceFromIterations
  <2> HIDE DEF new
  <2>2. PlacesAll(acc, new, file)
    BY <1>1, <2>1, ExtendsItself DEF PlacesAll
  <2> QED  BY <2>2 DEF new
<1>2. CASE file.places
  <2>1. PICK h : PlacementRun(h, acc) /\ new = h[n]
    BY <1>0, <1>2, PlacementRuns
  <2>2. \A k \in 0 .. n : Goes(p, h[k], maps, R, F, S, {}) /\ h[k].landed = acc.landed
    BY <2>1, PlacementGoes
  <2>3. \A k \in 0 .. n : IsAcc(h[k]) /\ IsPlan(h[k].plan)
    BY <2>2 DEF Goes, IsAcc
  <2>4. h[0] = acc /\ \A k \in 1 .. n : h[k] = Placed(h[k - 1], acc.landed[k])
    BY <2>1 DEF PlacementRun
  <2> HIDE DEF n, new
  <2> DEFINE H == {k \in 0 .. n : PlacesSome(acc, h[k], k)}
  <2>5. 0 \in H
    <3>1. \A i \in DOMAIN acc.landed : ~ (i <= 0)
      BY <1>0
    <3>2. PlacesSome(acc, acc, 0)
      BY <3>1, ExtendsItself DEF PlacesSome
    <3> QED  BY <1>0, <2>4, <3>2
  <2>6. ASSUME NEW k \in 1 .. n, k - 1 \in H
        PROVE  k \in H
    <3>1. k - 1 \in 0 .. n /\ k \in 0 .. n /\ PlacesSome(acc, h[k - 1], k - 1)
      BY <1>0, <2>6
    <3>2. IsAcc(h[k - 1]) /\ IsPlan(h[k].plan) /\ h[k] = Placed(h[k - 1], acc.landed[k])
      BY <2>3, <2>4, <3>1
    <3>3. Places(h[k - 1], h[k], acc.landed[k])
      BY <3>2, FeaturePlaces
    <3>4. PlacesSome(acc, h[k], k)
      BY <3>1, <3>2, <3>3, OneMorePlaced DEF n
    <3> QED  BY <3>1, <3>4
  <2>7. n \in H
    <3> HIDE DEF H
    <3> QED  BY <1>0, <2>5, <2>6, InductionUpTo
  <2>8. PlacesSome(acc, new, n)
    BY <2>1, <2>7
  <2>9. \A i \in DOMAIN acc.landed : i <= n
    BY <1>0
  <2>10. PlacesAll(acc, new, file)
    BY <2>8, <2>9 DEF PlacesSome, PlacesAll
  <2> QED  BY <2>10 DEF new
<1> QED  BY <1>1, <1>2

\* Features that are placed already: the loop leaves the plan.
LEMMA PlacementIsLeft ==
  ASSUME NEW acc, IsAcc(acc), Len(acc.landed) \in Nat, DOMAIN acc.landed = 1 .. Len(acc.landed), NEW file,
         file.places => \A i \in DOMAIN acc.landed : PlacedAlready(acc.plan, acc.landed[i])
  PROVE  PlaceFromIterations(acc, file) = acc
<1> DEFINE n == Len(acc.landed)
<1>1. CASE ~ file.places
  BY <1>1 DEF PlaceFromIterations
<1>2. CASE file.places
  <2>1. PICK h : PlacementRun(h, acc) /\ PlaceFromIterations(acc, file) = h[n]
    BY <1>2, PlacementRuns
  <2>2. h[0] = acc /\ \A k \in 1 .. n : h[k] = Placed(h[k - 1], acc.landed[k])
    BY <2>1 DEF PlacementRun
  <2> DEFINE H == {k \in 0 .. n : h[k] = acc}
  <2>3. 0 \in H
    BY <2>2
  <2>4. ASSUME NEW k \in 1 .. n, k - 1 \in H
        PROVE  k \in H
    <3>1. h[k] = Placed(acc, acc.landed[k]) /\ PlacedAlready(acc.plan, acc.landed[k])
      BY <1>2, <2>2, <2>4
    <3>2. h[k] = acc
      BY <3>1, PlacedIsLeft
    <3> QED  BY <3>2
  <2>5. n \in H
    <3> HIDE DEF H, n
    <3> QED  BY <2>3, <2>4, InductionUpTo DEF n
  <2> QED  BY <2>1, <2>5
<1> QED  BY <1>1, <1>2

\* A story that a row of the file would leave as it is.
Fits(p, file, row, parents, story) ==
    /\ story.uid = row.uid /\ story.kind = row.kind
    /\ Found(p, file, row.kind, row.state)
    /\ file.stateColumn => story.state = Named(p, row.kind, row.state)
    /\ file.dates /\ row.dated /\ IsDone(p, story.state) => story.date = "given"
    /\ file.reparent /\ row.parent \in DOMAIN parents => story.feature \in Members(p, parents[row.parent])

\* What a row makes of a story that is known.
Rewrote(acc, file, row, parents, story, preferred) ==
    Reparented(acc, file, row, parents, Tally(acc, file, row, Switched(acc, file, row, story), story.state), preferred)

\* A story that is written fits its row.
LEMMA WrittenFits ==
  ASSUME NEW acc, IsAcc(acc), NEW file, NEW row \in FileRows, IsStory(row), Found(acc.plan, file, row.kind, row.state),
         NEW parents, ArePars(acc.plan, parents, {}), NEW story \in StoryRows, story.uid = row.uid, NEW preferred
  PROVE  Fits(acc.plan, file, row, parents, Rewrote(acc, file, row, parents, story, preferred))
<1> DEFINE p == acc.plan
           switched == Switched(acc, file, row, story)
           written == Tally(acc, file, row, switched, story.state)
           final == Reparented(acc, file, row, parents, written, preferred)
           f == parents[row.parent]
           target == Target(p, f, preferred)
<1>1. /\ switched \in StoryRows /\ switched.feature = story.feature /\ switched.uid = story.uid
      /\ switched.kind = row.kind /\ switched.date = story.date
  BY StorySwitched
<1>2. file.stateColumn => switched.state = Named(p, row.kind, row.state)
  BY DEF Switched, RowState, StoryRows
<1> HIDE DEF switched
<1>3. /\ written \in StoryRows /\ written.feature = switched.feature /\ written.uid = switched.uid
      /\ written.kind = switched.kind /\ written.state = switched.state
  BY <1>1, Tallied
<1>4. file.dates /\ row.dated /\ IsDone(p, switched.state) => written.date = "given"
  <2> SUFFICES ASSUME file.dates, row.dated, IsDone(p, switched.state)
               PROVE  written.date = "given"
    OBVIOUS
  <2>1. "given" # Nothing
    BY NothingIsNothing
  <2>2. Completed(p, switched.date, story.state, switched.state, "given") = "given"
    BY <2>1 DEF Completed
  <2>3. written = [switched EXCEPT !.date = Completed(p, switched.date, story.state, switched.state, "given")]
    BY DEF Tally
  <2> HIDE DEF written
  <2> QED  BY <1>1, <2>2, <2>3 DEF StoryRows
<1> HIDE DEF written
<1>5. /\ final \in StoryRows /\ final.uid = written.uid /\ final.kind = written.kind /\ final.state = written.state /\ final.date = written.date
  BY <1>3, StoryReparented
<1>6. file.reparent /\ row.parent \in DOMAIN parents => final.feature \in Members(p, f)
  <2> SUFFICES ASSUME file.reparent, row.parent \in DOMAIN parents
               PROVE  final.feature \in Members(p, f)
    OBVIOUS
  <2>1. f \in DOMAIN p.feature
    BY DEF ArePars
  <2> HIDE DEF f
  <2>2. target \in DOMAIN p.feature /\ target \in Members(p, f)
    BY <2>1, LeafIsThere DEF Target, IsAcc
  <2>3. final = IF written.feature \in Members(p, f) THEN written ELSE [written EXCEPT !.feature = target]
    BY <2>2 DEF Reparented, f
  <2> HIDE DEF final, target
  <2> QED  BY <1>3, <2>2, <2>3 DEF StoryRows
<1> HIDE DEF final
<1>7. Fits(p, file, row, parents, final)
  BY <1>1, <1>2, <1>3, <1>4, <1>5, <1>6 DEF Fits
<1> QED  BY <1>7 DEF Rewrote, final, written, switched

\* A story that fits its row is left.
LEMMA FittingIsLeft ==
  ASSUME NEW acc, IsAcc(acc), NEW file, NEW row, NEW parents, NEW story \in StoryRows,
         Fits(acc.plan, file, row, parents, story), NEW preferred
  PROVE  Rewrote(acc, file, row, parents, story, preferred) = story
<1> DEFINE p == acc.plan
           switched == Switched(acc, file, row, story)
           written == Tally(acc, file, row, switched, story.state)
           explicit == IF file.dates /\ row.dated THEN "given" ELSE Nothing
<1>1. switched = story
  <2>1. RowState(acc, file, row.kind, row.state, IF row.kind = story.kind THEN story.state ELSE Nothing) = story.state
    BY DEF RowState, Fits
  <2> QED  BY <2>1 DEF Switched, Fits, StoryRows
<1> HIDE DEF switched
<1>2. Completed(p, story.date, story.state, story.state, explicit) = story.date
  BY DEF Completed, Fits
<1>3. written = story
  <2>1. written = [story EXCEPT !.date = Completed(p, story.date, story.state, story.state, explicit)]
    BY <1>1 DEF Tally
  <2> HIDE DEF written, explicit
  <2> QED  BY <1>2, <2>1 DEF StoryRows
<1> HIDE DEF written
<1>4. Reparented(acc, file, row, parents, story, preferred) = story
  BY DEF Reparented, Fits
<1> QED  BY <1>1, <1>3, <1>4 DEF Rewrote, written, switched

\* What a row of a story makes of the plan: s fits the row, the rest is as it was.
StorySettles(acc, new, file, row, parents, s) ==
    /\ new.plan.feature = acc.plan.feature /\ ListExtends(acc.plan, new.plan)
    /\ new.plan.pi = acc.plan.pi /\ new.plan.path = acc.plan.path
    /\ DOMAIN new.plan.story = DOMAIN acc.plan.story \cup {s}
    /\ \A t \in DOMAIN acc.plan.story \ {s} : new.plan.story[t] = acc.plan.story[t]
    /\ s \in DOMAIN acc.plan.story => acc.plan.story[s].uid = row.uid
    /\ Fits(new.plan, file, row, parents, new.plan.story[s])

\* What the writing of one story leaves.
Overwritten(acc, new, s, story) ==
    /\ DOMAIN new.plan.story = DOMAIN acc.plan.story
    /\ new.plan.story[s] = story
    /\ \A t \in DOMAIN acc.plan.story \ {s} : new.plan.story[t] = acc.plan.story[t]
    /\ new.plan.feature = acc.plan.feature /\ new.plan.list = acc.plan.list
    /\ new.plan.pi = acc.plan.pi /\ new.plan.path = acc.plan.path
    /\ new = [acc EXCEPT !.plan.story = [@ EXCEPT ![s] = story]]

\* A row writes to one story, that it is known by.
LEMMA StoryIsUpdated ==
  ASSUME NEW acc, IsAcc(acc), NEW file, NEW row, NEW parents, NEW s \in DOMAIN acc.plan.story, NEW preferred
  PROVE  Overwritten(acc, UpdateStory(acc, file, row, parents, s, preferred), s,
                     Rewrote(acc, file, row, parents, acc.plan.story[s], preferred))
<1> DEFINE r == Rewrote(acc, file, row, parents, acc.plan.story[s], preferred)
           new == UpdateStory(acc, file, row, parents, s, preferred)
           rows == [acc.plan.story EXCEPT ![s] = r]
           q == [acc.plan EXCEPT !.story = rows]
<1>1. new = [acc EXCEPT !.plan.story[s] = r]
  BY DEF UpdateStory, Rewrote
<1>2. IsTable(acc.plan.story, Ids, StoryRows) /\ acc.plan = [table \in Tables |-> acc.plan[table]]
  BY PlanTables DEF IsAcc, IsPlan
<1> HIDE DEF r, new
<1>3. DOMAIN rows = DOMAIN acc.plan.story /\ rows[s] = r /\ \A t \in DOMAIN acc.plan.story \ {s} : rows[t] = acc.plan.story[t]
  OBVIOUS
<1>4. new = [acc EXCEPT !.plan.story = rows]
  BY <1>1
<1>5. new = [plan |-> q, landed |-> acc.landed, spare |-> acc.spare]
  BY <1>1 DEF IsAcc
<1> HIDE DEF rows
<1>6. q.story = rows /\ q.feature = acc.plan.feature /\ q.list = acc.plan.list /\ q.pi = acc.plan.pi /\ q.path = acc.plan.path
  BY <1>2, OneTable
<1> HIDE DEF q
<1>7. new.plan = q
  BY <1>5
<1>8. Overwritten(acc, new, s, r)
  BY <1>3, <1>4, <1>6, <1>7 DEF rows, Overwritten
<1> QED  BY <1>8 DEF new, r

\* A row of a story that is known.
LEMMA KnownStorySettles ==
  ASSUME NEW acc, IsAcc(acc), NEW file, NEW row \in FileRows, IsStory(row), Found(acc.plan, file, row.kind, row.state),
         NEW parents, ArePars(acc.plan, parents, {}), NEW s \in DOMAIN acc.plan.story, acc.plan.story[s].uid = row.uid, NEW preferred
  PROVE  StorySettles(acc, UpdateStory(acc, file, row, parents, s, preferred), file, row, parents, s)
<1> DEFINE new == UpdateStory(acc, file, row, parents, s, preferred)
           r == Rewrote(acc, file, row, parents, acc.plan.story[s], preferred)
<1>1. acc.plan.story[s] \in StoryRows
  BY PlanTables DEF IsAcc
<1>2. Fits(acc.plan, file, row, parents, r)
  BY <1>1, WrittenFits
<1> HIDE DEF r
<1>3. /\ DOMAIN new.plan.story = DOMAIN acc.plan.story
      /\ new.plan.story[s] = r
      /\ \A t \in DOMAIN acc.plan.story \ {s} : new.plan.story[t] = acc.plan.story[t]
      /\ new.plan.feature = acc.plan.feature /\ new.plan.list = acc.plan.list
      /\ new.plan.pi = acc.plan.pi /\ new.plan.path = acc.plan.path
  <2>1. Overwritten(acc, new, s, r)
    BY StoryIsUpdated DEF r
  <2> HIDE DEF new
  <2> QED  BY <2>1 DEF Overwritten
<1> HIDE DEF new
<1>4. ListExtends(acc.plan, new.plan) /\ (Found(new.plan, file, row.kind, row.state) <=> Found(acc.plan, file, row.kind, row.state))
      /\ Named(new.plan, row.kind, row.state) = Named(acc.plan, row.kind, row.state)
  BY <1>3, SameList
<1>5. \A f : Members(new.plan, f) = Members(acc.plan, f)
  BY <1>3 DEF Members, Descendants
<1>6. \A state : IsDone(new.plan, state) = IsDone(acc.plan, state)
  BY <1>3 DEF IsDone
<1>7. Fits(new.plan, file, row, parents, r)
  BY <1>2, <1>4, <1>5, <1>6 DEF Fits
<1> QED  BY <1>3, <1>4, <1>7 DEF StorySettles, new

\* What the insertion of one story leaves.
Inserted(acc, new, s, story) ==
    /\ s \in Ids \ DOMAIN acc.plan.story
    /\ DOMAIN new.plan.story = DOMAIN acc.plan.story \cup {s}
    /\ new.plan.story[s] = story
    /\ \A t \in DOMAIN acc.plan.story : new.plan.story[t] = acc.plan.story[t]
    /\ new.plan.feature = acc.plan.feature /\ new.plan.list = acc.plan.list
    /\ new.plan.pi = acc.plan.pi /\ new.plan.path = acc.plan.path

\* A story that is inserted.
LEMMA NewStoryIsIn ==
  ASSUME NEW acc, IsAcc(acc), HasSpare(acc, "story"), NEW row
  PROVE  Inserted(acc, Insert(acc, "story", row), Least(acc.spare.story), row)
<1> DEFINE new == Insert(acc, "story", row)
           id == Least(acc.spare["story"])
           rows == With(acc.plan.story, id, row)
<1>2. /\ id \in Ids \ DOMAIN acc.plan.story
      /\ new = [plan |-> new.plan, landed |-> new.landed, spare |-> new.spare]
      /\ new.plan = Put(acc.plan, "story", id, row)
      /\ new.landed = acc.landed
      /\ new.spare = [t \in Tables \ {"path"} |-> new.spare[t]]
      /\ new.spare.story = acc.spare.story \ {id}
      /\ new.spare.list = acc.spare.list /\ new.spare.feature = acc.spare.feature
  <2> HIDE DEF new
  <2> QED  BY RowInserted DEF new
<1> HIDE DEF new, id
<1>3. new.plan.story = rows /\ new.plan.list = acc.plan.list /\ new.plan.feature = acc.plan.feature
      /\ new.plan.pi = acc.plan.pi /\ new.plan.path = acc.plan.path
  <2>1. acc.plan = [table \in Tables |-> acc.plan[table]]
    BY DEF IsAcc, IsPlan
  <2> DEFINE q == [acc.plan EXCEPT !.story = rows]
  <2>2. Put(acc.plan, "story", id, row) = q
    BY <2>1 DEF Put, Tables
  <2>3. q.story = rows /\ q.feature = acc.plan.feature /\ q.list = acc.plan.list /\ q.pi = acc.plan.pi /\ q.path = acc.plan.path
    BY <2>1, OneTable
  <2> HIDE DEF rows, q
  <2> QED  BY <1>2, <2>2, <2>3
<1>4. DOMAIN rows = DOMAIN acc.plan.story \cup {id} /\ rows[id] = row /\ \A d \in DOMAIN acc.plan.story : rows[d] = acc.plan.story[d]
  BY <1>2 DEF With
<1> HIDE DEF rows
<1>5. Inserted(acc, new, id, row)
  BY <1>2, <1>3, <1>4 DEF Inserted
<1> QED  BY <1>5 DEF new, id

\* A row of a story that is new.
LEMMA NewStorySettles ==
  ASSUME NEW acc, IsAcc(acc), HasSpare(acc, "story"), NEW file, NEW row \in FileRows, IsStory(row),
         Found(acc.plan, file, row.kind, row.state),
         NEW parents, ArePars(acc.plan, parents, {}), row.parent \notin DOMAIN parents => Landing(acc.plan) # {}, NEW preferred
  PROVE  /\ Least(acc.spare.story) \notin DOMAIN acc.plan.story
         /\ StorySettles(acc, CreateStory(acc, file, row, parents, preferred), file, row, parents, Least(acc.spare.story))
<1> DEFINE p == acc.plan
           home == IF row.parent \in DOMAIN parents THEN Target(p, parents[row.parent], preferred)
                   ELSE CHOOSE f \in Landing(p) : TRUE
           state == RowState(acc, file, row.kind, row.state, Nothing)
           bare == NewStory(home, row.uid, row.kind, state)
           story == Tally(acc, file, row, bare, Nothing)
           new == CreateStory(acc, file, row, parents, preferred)
           id == Least(acc.spare.story)
<1>0. IsPlan(p)
  BY DEF IsAcc
<1>1. new = Insert(acc, "story", story)
  BY DEF CreateStory
<1>2. row.uid \in BusinessIds /\ row.state \in Values \cup {Nothing} /\ row.kind \in ItemTypes /\ row.kind \in Kinds
  BY DEF FileRows, ItemTypes, IsStory, Kinds
<1>3. home \in Ids /\ (row.parent \in DOMAIN parents => home \in Members(p, parents[row.parent]))
  <2>1. CASE row.parent \in DOMAIN parents
    <3>1. parents[row.parent] \in DOMAIN p.feature
      BY <2>1 DEF ArePars
    <3> DEFINE f == parents[row.parent]
    <3> HIDE DEF f
    <3>2. NewestLeaf(p, f, preferred) \in DOMAIN p.feature /\ NewestLeaf(p, f, preferred) \in Members(p, f)
      BY <1>0, <3>1, LeafIsThere DEF f
    <3>3. home = NewestLeaf(p, f, preferred)
      BY <2>1, <3>1 DEF Target, f
    <3> HIDE DEF home
    <3> QED  BY <1>0, <3>2, <3>3, PlanTables DEF f
  <2>2. CASE row.parent \notin DOMAIN parents
    <3>1. home \in Landing(p)
      BY <2>2
    <3> HIDE DEF home
    <3> QED  BY <1>0, <2>2, <3>1, PlanTables DEF Landing
  <2> QED  BY <2>1, <2>2
<1>4. state \in Refs /\ (file.stateColumn => state = Named(p, row.kind, row.state))
  <2>1. Nothing \in Refs
    BY DEF Refs
  <2>2. state \in Refs
    BY <1>2, <2>1, RowStateStands
  <2> QED  BY <2>2 DEF RowState
<1> HIDE DEF home, state
<1>5. bare \in StoryRows /\ bare.feature = home /\ bare.uid = row.uid /\ bare.kind = row.kind /\ bare.state = state /\ bare.date = Nothing
  BY <1>2, <1>3, <1>4 DEF NewStory, StoryRows
<1> HIDE DEF bare
<1>6. story \in StoryRows /\ story.feature = bare.feature /\ story.uid = bare.uid /\ story.kind = bare.kind /\ story.state = bare.state
  BY <1>5, Tallied
<1>7. file.dates /\ row.dated /\ IsDone(p, state) => story.date = "given"
  <2> SUFFICES ASSUME file.dates, row.dated, IsDone(p, state)
               PROVE  story.date = "given"
    OBVIOUS
  <2>1. "given" # Nothing
    BY NothingIsNothing
  <2>2. Completed(p, bare.date, Nothing, bare.state, "given") = "given"
    BY <1>5, <2>1 DEF Completed
  <2>3. story = [bare EXCEPT !.date = Completed(p, bare.date, Nothing, bare.state, "given")]
    BY DEF Tally
  <2> HIDE DEF story
  <2> QED  BY <1>5, <2>2, <2>3 DEF StoryRows
<1> HIDE DEF story, new
<1>8. Inserted(acc, new, id, story)
  BY <1>1, NewStoryIsIn
<1> HIDE DEF id
<1>9. /\ id \notin DOMAIN p.story /\ DOMAIN new.plan.story = DOMAIN p.story \cup {id} /\ new.plan.story[id] = story
      /\ \A t \in DOMAIN p.story : new.plan.story[t] = p.story[t]
      /\ new.plan.feature = p.feature /\ new.plan.list = p.list /\ new.plan.pi = p.pi /\ new.plan.path = p.path
  BY <1>8 DEF Inserted
<1>10. ListExtends(p, new.plan) /\ (Found(new.plan, file, row.kind, row.state) <=> Found(p, file, row.kind, row.state))
       /\ Named(new.plan, row.kind, row.state) = Named(p, row.kind, row.state)
  BY <1>9, SameList
<1>11. \A f : Members(new.plan, f) = Members(p, f)
  BY <1>9 DEF Members, Descendants
<1>12. \A x : IsDone(new.plan, x) = IsDone(p, x)
  BY <1>9 DEF IsDone
<1>13. Fits(new.plan, file, row, parents, story)
  BY <1>3, <1>4, <1>5, <1>6, <1>7, <1>10, <1>11, <1>12 DEF Fits
<1>14. StorySettles(acc, new, file, row, parents, id)
  BY <1>9, <1>10, <1>13 DEF StorySettles
<1> QED  BY <1>9, <1>14 DEF new, id

\* The maps hold every story of p under its business id.
StoriesMapped(p, maps) ==
    /\ DOMAIN maps.story = UidsOf(p.story)
    /\ \A uid \in DOMAIN maps.story : maps.story[uid] \in DOMAIN p.story /\ p.story[maps.story[uid]].uid = uid

\* What a row of a story does, one that is imported.
StoryRowSteps(acc, new, file, row, rows, known, parents) ==
    IF IsStory(row) /\ row \in rows
    THEN \E s : StorySettles(acc, new, file, row, parents, s) /\ (s \notin DOMAIN acc.plan.story => row.uid \notin DOMAIN known.story)
    ELSE new = acc

\* A row of a story, known or new.
LEMMA StoryRowSettles ==
  ASSUME NEW acc, IsAcc(acc), HasSpare(acc, "list"), HasSpare(acc, "story"), NEW file, NEW row \in FileRows, IsStory(row),
         NEW parents, ArePars(acc.plan, parents, {}), NEW known,
         row.uid \in DOMAIN known.story =>
            known.story[row.uid] \in DOMAIN acc.plan.story /\ acc.plan.story[known.story[row.uid]].uid = row.uid,
         row.uid \notin DOMAIN known.story /\ row.parent \notin DOMAIN parents => Landing(acc.plan) # {}, NEW preferred
  PROVE  \E s : /\ StorySettles(acc, UpsertStory(WithState(acc, file, row.kind, row.state), file, row, known, parents, preferred),
                                file, row, parents, s)
                /\ s \notin DOMAIN acc.plan.story => row.uid \notin DOMAIN known.story
<1> DEFINE mid == WithState(acc, file, row.kind, row.state)
           new == UpsertStory(mid, file, row, known, parents, preferred)
<1>1. row.state \in Values \cup {Nothing} /\ row.kind \in ItemTypes
  BY DEF FileRows, ItemTypes
<1>2. /\ IsAcc(mid) /\ mid.plan.feature = acc.plan.feature /\ mid.plan.story = acc.plan.story
      /\ mid.spare.story = acc.spare.story /\ Found(mid.plan, file, row.kind, row.state)
  BY <1>1, StateIsThere, ZenonT(30)
<1>3. ListExtends(acc.plan, mid.plan) /\ mid.plan.pi = acc.plan.pi /\ mid.plan.path = acc.plan.path
  BY StateExtends
<1> HIDE DEF mid, new
<1>4. /\ ArePars(mid.plan, parents, {}) /\ HasSpare(mid, "story")
      /\ row.uid \notin DOMAIN known.story /\ row.parent \notin DOMAIN parents => Landing(mid.plan) # {}
  BY <1>2 DEF ArePars, HasSpare, Landing
<1>5. ASSUME NEW s, StorySettles(mid, new, file, row, parents, s)
      PROVE  StorySettles(acc, new, file, row, parents, s)
  <2>1. ListExtends(acc.plan, new.plan)
    BY <1>3, <1>5, ListExtendsOn DEF StorySettles
  <2> QED  BY <1>2, <1>3, <1>5, <2>1 DEF StorySettles
<1>6. CASE row.uid \in DOMAIN known.story
  <2> DEFINE s == known.story[row.uid]
  <2>1. new = UpdateStory(mid, file, row, parents, s, preferred)
    BY <1>6 DEF UpsertStory, new
  <2>2. s \in DOMAIN mid.plan.story /\ mid.plan.story[s].uid = row.uid
    BY <1>2, <1>6
  <2> HIDE DEF s
  <2>3. StorySettles(mid, new, file, row, parents, s)
    BY <1>2, <1>4, <2>1, <2>2, KnownStorySettles
  <2>4. StorySettles(acc, new, file, row, parents, s) /\ s \in DOMAIN acc.plan.story
    BY <1>2, <1>5, <2>2, <2>3
  <2> QED  BY <2>4 DEF mid, new
<1>7. CASE row.uid \notin DOMAIN known.story
  <2> DEFINE s == Least(mid.spare.story)
  <2>1. new = CreateStory(mid, file, row, parents, preferred)
    BY <1>7 DEF UpsertStory, new
  <2>2. StorySettles(mid, new, file, row, parents, s)
    BY <1>2, <1>4, <1>7, <2>1, NewStorySettles
  <2> HIDE DEF s
  <2>3. StorySettles(acc, new, file, row, parents, s)
    BY <1>5, <2>2
  <2> QED  BY <1>7, <2>3 DEF mid, new
<1> QED  BY <1>6, <1>7

\* A story that fits a row fits it later on, while it is not written to.
LEMMA FitStays ==
  ASSUME NEW p, NEW q, IsPlan(q), q.feature = p.feature, ListExtends(p, q), NEW file, NEW row, NEW parents,
         NEW story, story.state \in DOMAIN p.list \cup {Nothing}, Fits(p, file, row, parents, story)
  PROVE  Fits(q, file, row, parents, story)
<1>1. Found(q, file, row.kind, row.state) /\ (file.stateColumn => Named(q, row.kind, row.state) = Named(p, row.kind, row.state))
  BY FoundStays DEF Fits
<1>2. \A f : Members(q, f) = Members(p, f)
  BY DEF Members, Descendants
<1>3. IsDone(q, story.state) => IsDone(p, story.state)
  <2>1. Nothing \notin DOMAIN q.list
    BY PlanTables, NothingIsNoId
  <2> QED  BY <2>1 DEF IsDone, ListExtends
<1> QED  BY <1>1, <1>2, <1>3 DEF Fits

\* What the stories of the first k rows are when p was the plan: told apart, and each fits its row.
StoriesBrought(p, q, file, rows, parents, k) ==
    /\ q.feature = p.feature /\ ListExtends(p, q) /\ q.pi = p.pi /\ q.path = p.path
    /\ UidsOnce(q.story)
    /\ \A s \in DOMAIN p.story : s \in DOMAIN q.story /\ q.story[s].uid = p.story[s].uid
    /\ \A s \in DOMAIN q.story :
         q.story[s].uid \in UidsOf(p.story) \cup {Nothing} \/ \E j \in 1 .. k : q.story[s].uid = file.rows[j].uid
    /\ \A j \in 1 .. k : IsStory(file.rows[j]) /\ file.rows[j] \in rows =>
         \E s \in DOMAIN q.story : Fits(q, file, file.rows[j], parents, q.story[s])

\* One more row.
LEMMA StoryRowBrings ==
  ASSUME NEW p, NEW acc, IsPlan(acc.plan), Stands(acc.plan), NEW new, IsPlan(new.plan), NEW file, Identified(file),
         NEW rows, NEW parents, NEW k \in 1 .. Len(file.rows), NEW known, StoriesMapped(p, known),
         StoriesBrought(p, acc.plan, file, rows, parents, k - 1),
         StoryRowSteps(acc, new, file, file.rows[k], rows, known, parents)
  PROVE  StoriesBrought(p, new.plan, file, rows, parents, k)
<1> DEFINE row == file.rows[k]
<1>0. /\ Len(file.rows) \in Nat /\ DOMAIN file.rows = 1 .. Len(file.rows)
      /\ \A i, j \in 1 .. Len(file.rows) : file.rows[i].uid = file.rows[j].uid => i = j
      /\ \A i \in 1 .. Len(file.rows) : file.rows[i].uid # Nothing
  BY DEF Identified, ValidRows, Indices
<1>1. k - 1 \in Nat /\ 1 .. k = (1 .. k - 1) \cup {k} /\ 1 .. k \subseteq 1 .. Len(file.rows)
  BY <1>0
<1> HIDE DEF row
<1>2. CASE ~ (IsStory(row) /\ row \in rows)
  <2>1. new = acc
    BY <1>2 DEF StoryRowSteps, row
  <2>2. \A j \in 1 .. k : IsStory(file.rows[j]) /\ file.rows[j] \in rows => j \in 1 .. k - 1
    BY <1>1, <1>2 DEF row
  <2> QED  BY <1>1, <2>1, <2>2 DEF StoriesBrought
<1>3. CASE IsStory(row) /\ row \in rows
  <2>1. PICK s : StorySettles(acc, new, file, row, parents, s) /\ (s \notin DOMAIN acc.plan.story => row.uid \notin DOMAIN known.story)
    BY <1>3 DEF StoryRowSteps, row
  <2>2. new.plan.feature = p.feature /\ ListExtends(p, new.plan) /\ new.plan.pi = p.pi /\ new.plan.path = p.path
    BY <2>1, ListExtendsOn DEF StorySettles, StoriesBrought
  <2>3. /\ DOMAIN new.plan.story = DOMAIN acc.plan.story \cup {s} /\ new.plan.story[s].uid = row.uid
        /\ \A t \in DOMAIN acc.plan.story : new.plan.story[t].uid = acc.plan.story[t].uid
    BY <2>1 DEF StorySettles, Fits
  <2>4. s \notin DOMAIN acc.plan.story => \A t \in DOMAIN acc.plan.story : acc.plan.story[t].uid # row.uid
    <3> SUFFICES ASSUME s \notin DOMAIN acc.plan.story, NEW t \in DOMAIN acc.plan.story, acc.plan.story[t].uid = row.uid
                 PROVE  FALSE
      OBVIOUS
    <3>1. row.uid \notin UidsOf(p.story) /\ row.uid # Nothing
      BY <1>0, <2>1 DEF StoriesMapped, row
    <3>2. PICK j \in 1 .. k - 1 : acc.plan.story[t].uid = file.rows[j].uid
      BY <3>1 DEF StoriesBrought
    <3>3. j = k
      BY <1>0, <1>1, <3>2 DEF row
    <3> QED  BY <1>1, <3>3
  <2>5. UidsOnce(new.plan.story)
    <3> SUFFICES ASSUME NEW x \in DOMAIN new.plan.story, NEW y \in DOMAIN new.plan.story,
                        new.plan.story[x].uid = new.plan.story[y].uid, new.plan.story[y].uid # Nothing
                 PROVE  x = y
      BY DEF UidsOnce
    <3>1. CASE x \in DOMAIN acc.plan.story /\ y \in DOMAIN acc.plan.story
      BY <2>3, <3>1 DEF StoriesBrought, UidsOnce
    <3>2. CASE x \notin DOMAIN acc.plan.story \/ y \notin DOMAIN acc.plan.story
      BY <2>3, <2>4, <3>2
    <3> QED  BY <3>1, <3>2
  <2>6. \A t \in DOMAIN p.story : t \in DOMAIN new.plan.story /\ new.plan.story[t].uid = p.story[t].uid
    BY <2>3 DEF StoriesBrought
  <2>7. \A t \in DOMAIN new.plan.story :
          new.plan.story[t].uid \in UidsOf(p.story) \cup {Nothing} \/ \E j \in 1 .. k : new.plan.story[t].uid = file.rows[j].uid
    <3> SUFFICES ASSUME NEW t \in DOMAIN new.plan.story
                 PROVE  new.plan.story[t].uid \in UidsOf(p.story) \cup {Nothing} \/ \E j \in 1 .. k : new.plan.story[t].uid = file.rows[j].uid
      OBVIOUS
    <3>1. CASE t \in DOMAIN acc.plan.story
      BY <1>1, <2>3, <3>1 DEF StoriesBrought
    <3>2. CASE t = s
      BY <1>1, <2>3, <3>2 DEF row
    <3> QED  BY <2>3, <3>1, <3>2
  <2>8. ASSUME NEW j \in 1 .. k, IsStory(file.rows[j]), file.rows[j] \in rows
        PROVE  \E t \in DOMAIN new.plan.story : Fits(new.plan, file, file.rows[j], parents, new.plan.story[t])
    <3>1. CASE j = k
      BY <2>1, <2>3, <3>1 DEF StorySettles, row
    <3>2. CASE j # k
      <4>1. j \in 1 .. k - 1
        BY <1>1, <3>2
      <4>2. PICK t \in DOMAIN acc.plan.story : Fits(acc.plan, file, file.rows[j], parents, acc.plan.story[t])
        BY <2>8, <4>1 DEF StoriesBrought
      <4>3. acc.plan.story[t].uid = file.rows[j].uid
        BY <4>2 DEF Fits
      <4>4. t # s
        BY <1>0, <1>1, <2>1, <3>2, <4>3 DEF StorySettles, row
      <4>5. new.plan.story[t] = acc.plan.story[t] /\ new.plan.feature = acc.plan.feature /\ ListExtends(acc.plan, new.plan)
        BY <2>1, <4>4 DEF StorySettles
      <4>6. acc.plan.story[t].state \in DOMAIN acc.plan.list \cup {Nothing}
        BY DEF Stands, IsStateFor, ListOf
      <4> DEFINE a == acc.plan
                 b == new.plan
                 story == acc.plan.story[t]
      <4>7. Fits(a, file, file.rows[j], parents, story) /\ b.feature = a.feature /\ ListExtends(a, b) /\ IsPlan(b)
            /\ story.state \in DOMAIN a.list \cup {Nothing}
        BY <4>2, <4>5, <4>6
      <4> HIDE DEF a, b, story
      <4>8. Fits(b, file, file.rows[j], parents, story)
        BY <4>7, FitStays
      <4> QED  BY <2>3, <4>5, <4>8 DEF b, story
    <3> QED  BY <3>1, <3>2
  <2>9. \A j \in 1 .. k : IsStory(file.rows[j]) /\ file.rows[j] \in rows =>
          \E t \in DOMAIN new.plan.story : Fits(new.plan, file, file.rows[j], parents, new.plan.story[t])
    BY <2>8
  <2> QED  BY <2>2, <2>5, <2>6, <2>7, <2>9 DEF StoriesBrought
<1> QED  BY <1>2, <1>3

\* The loop over the stories, from the plan with the placeholder on.
LEMMA StoriesBring ==
  ASSUME NEW p, Stands(p), NEW maps, NEW F, NEW S, NEW file, Identified(file), NEW rows, NEW known, NEW parents, NEW preferred,
         NEW acc, NEW g, StoryRun(g, acc, file, rows, known, parents, preferred),
         \A k \in 0 .. Len(file.rows) :
            GoesOn(p, g[k], maps, StoriesLeft(file.rows, k), F, S, {}, parents, NeedsLanding(rows, known, parents)),
         UidsOnce(g[0].plan.story), StoriesMapped(g[0].plan, known)
  PROVE  \A k \in 0 .. Len(file.rows) : StoriesBrought(g[0].plan, g[k].plan, file, rows, parents, k)
<1> DEFINE n == Len(file.rows)
           base == g[0].plan
           needed == NeedsLanding(rows, known, parents)
           H == {k \in 0 .. n : StoriesBrought(base, g[k].plan, file, rows, parents, k)}
<1>0. n \in Nat /\ (\A k \in 1 .. n : file.rows[k] \in FileRows)
  BY DEF Identified
<1>1. \A k \in 1 .. n : g[k] = StoryOfRow(g[k - 1], file, rows, file.rows[k], known, parents, preferred)
  BY DEF StoryRun
<1>2. \A k \in 0 .. n : /\ IsAcc(g[k]) /\ IsPlan(g[k].plan) /\ Room(g[k], StoriesLeft(file.rows, k)) /\ Stands(g[k].plan)
                        /\ ArePars(g[k].plan, parents, {}) /\ (needed => Landing(g[k].plan) # {})
  <2> HIDE DEF needed
  <2>1. \A k \in 0 .. n : GoesOn(p, g[k], maps, StoriesLeft(file.rows, k), F, S, {}, parents, needed)
    BY DEF needed
  <2> QED  BY <2>1 DEF GoesOn, Goes, Works, IsAcc
<1>3. 0 \in H
  <2>1. ListExtends(base, base)
    BY DEF ListExtends
  <2>2. \A s \in DOMAIN base.story : base.story[s].uid \in UidsOf(base.story) \cup {Nothing}
    BY DEF UidsOf
  <2>3. StoriesBrought(base, base, file, rows, parents, 0)
    BY <2>1, <2>2 DEF StoriesBrought
  <2> HIDE DEF base
  <2> QED  BY <1>0, <2>3 DEF base
<1> HIDE DEF n, needed
<1>4. ASSUME NEW k \in 1 .. n, k - 1 \in H
      PROVE  k \in H
  <2> DEFINE a == g[k - 1]
             b == g[k]
             row == file.rows[k]
             rest == StoriesLeft(file.rows, k - 1)
  <2>0. k - 1 \in 0 .. n /\ k \in 0 .. n /\ row \in FileRows
    BY <1>0
  <2>1. /\ StoriesBrought(base, a.plan, file, rows, parents, k - 1) /\ IsAcc(a) /\ IsPlan(a.plan) /\ Room(a, rest) /\ Stands(a.plan)
        /\ ArePars(a.plan, parents, {}) /\ (needed => Landing(a.plan) # {}) /\ IsPlan(b.plan)
    BY <1>2, <1>4, <2>0
  <2>2. b = StoryOfRow(a, file, rows, row, known, parents, preferred)
    BY <1>1
  <2>3. IsFiniteSet(rest) /\ (IsStory(row) => k \in rest)
    <3>0. IsFiniteSet(1 .. n)
      <4>1. n \in Int
        BY <1>0
      <4> HIDE DEF a, b, row, rest, base, H
      <4> QED  BY <4>1, FS_Interval
    <3>1. rest \subseteq 1 .. n
      BY DEF StoriesLeft, n
    <3>2. IsStory(row) => k \in rest
      BY <1>0 DEF StoriesLeft, n
    <3> QED  BY <3>0, <3>1, <3>2, FS_Subset
  <2> HIDE DEF a, b, row, rest, base
  <2>4. StoryRowSteps(a, b, file, row, rows, known, parents)
    <3>1. CASE IsStory(row) /\ row \in rows
      <4> DEFINE new == UpsertStory(WithState(a, file, row.kind, row.state), file, row, known, parents, preferred)
      <4>1. HasSpare(a, "list") /\ HasSpare(a, "story")
        BY <2>1, <2>3, <3>1, RoomHasSpare
      <4>2. b = new
        BY <2>2, <3>1 DEF StoryOfRow
      <4>3. row.uid \in DOMAIN known.story => known.story[row.uid] \in DOMAIN a.plan.story /\ a.plan.story[known.story[row.uid]].uid = row.uid
        BY <2>1 DEF StoriesMapped, StoriesBrought, base
      <4>4. row.uid \notin DOMAIN known.story /\ row.parent \notin DOMAIN parents => Landing(a.plan) # {}
        BY <2>1, <3>1 DEF needed, NeedsLanding
      <4>5. \E s : /\ StorySettles(a, new, file, row, parents, s)
                   /\ s \notin DOMAIN a.plan.story => row.uid \notin DOMAIN known.story
        BY <2>0, <2>1, <3>1, <4>1, <4>3, <4>4, StoryRowSettles
      <4> HIDE DEF new
      <4> QED  BY <3>1, <4>2, <4>5 DEF StoryRowSteps
    <3>2. CASE ~ (IsStory(row) /\ row \in rows)
      BY <2>2, <3>2 DEF StoryOfRow, StoryRowSteps
    <3> QED  BY <3>1, <3>2
  <2>5. StoriesMapped(base, known) /\ k \in 1 .. Len(file.rows)
    BY DEF base, n
  <2>6. StoriesBrought(base, b.plan, file, rows, parents, k)
    BY <2>1, <2>4, <2>5, StoryRowBrings DEF row
  <2> QED  BY <2>0, <2>6 DEF b
<1>5. ASSUME NEW m \in 0 .. n
      PROVE  m \in H
  <2> HIDE DEF H
  <2>1. m \in Nat /\ \A k \in 1 .. m : k - 1 \in H => k \in H
    BY <1>0, <1>4
  <2> QED  BY <1>3, <2>1, InductionUpTo
<1> QED  BY <1>5 DEF n, base

\* The loop over stories that fit their rows leaves the plan.
LEMMA StoriesAreLeft ==
  ASSUME NEW acc, IsAcc(acc), NEW file, Identified(file), NEW rows, NEW parents, NEW known, StoriesMapped(acc.plan, known),
         UidsOnce(acc.plan.story),
         \A j \in 1 .. Len(file.rows) : IsStory(file.rows[j]) /\ file.rows[j] \in rows =>
            \E s \in DOMAIN acc.plan.story : Fits(acc.plan, file, file.rows[j], parents, acc.plan.story[s]),
         \A row \in rows : row \in Range(file.rows), NEW preferred
  PROVE  UpsertStories(acc, file, rows, known, parents, preferred) = acc
<1> DEFINE n == Len(file.rows)
<1>0. n \in Nat /\ (\A k \in 1 .. n : file.rows[k] \in FileRows /\ file.rows[k].uid # Nothing) /\ file.rows \in Seq(FileRows)
      /\ DOMAIN file.rows = 1 .. n
  BY DEF Identified, Indices
<1>1. ASSUME NEW k \in 1 .. n, IsStory(file.rows[k]), file.rows[k] \in rows
      PROVE  /\ file.rows[k].uid \in DOMAIN known.story
             /\ UpsertStory(WithState(acc, file, file.rows[k].kind, file.rows[k].state), file, file.rows[k], known, parents, preferred) = acc
  <2> DEFINE row == file.rows[k]
             story(s) == acc.plan.story[s]
  <2>1. PICK s \in DOMAIN acc.plan.story : Fits(acc.plan, file, row, parents, acc.plan.story[s])
    BY <1>1
  <2>2. row.uid # Nothing /\ acc.plan.story[s].uid = row.uid
    BY <1>0, <2>1 DEF Fits
  <2> HIDE DEF row
  <2>3. row.uid \in DOMAIN known.story /\ known.story[row.uid] = s
    BY <2>2 DEF StoriesMapped, UidsOf, UidsOnce
  <2>4. WithState(acc, file, row.kind, row.state) = acc
    BY <2>1, StateIsAlready DEF Fits
  <2>5. acc.plan.story[s] \in StoryRows
    BY PlanTables DEF IsAcc
  <2>6. Rewrote(acc, file, row, parents, acc.plan.story[s], preferred) = acc.plan.story[s]
    BY <2>1, <2>5, FittingIsLeft
  <2> DEFINE new == UpdateStory(acc, file, row, parents, s, preferred)
  <2>7. Overwritten(acc, new, s, acc.plan.story[s])
    BY <2>6, StoryIsUpdated
  <2>8. [acc.plan.story EXCEPT ![s] = acc.plan.story[s]] = acc.plan.story
    BY PlanTables DEF IsAcc, IsTable
  <2>9. new = [acc EXCEPT !.plan.story = acc.plan.story]
    <3> HIDE DEF new
    <3> QED  BY <2>7, <2>8 DEF Overwritten
  <2>10. [acc EXCEPT !.plan.story = acc.plan.story] = acc
    BY DEF IsAcc, IsPlan
  <2>11. UpsertStory(acc, file, row, known, parents, preferred) = new
    BY <2>3 DEF UpsertStory
  <2> HIDE DEF new
  <2> QED  BY <2>3, <2>4, <2>9, <2>10, <2>11 DEF row
<1>2. ~ NeedsLanding(rows, known, parents)
  <2> SUFFICES ASSUME NEW row \in rows, IsStory(row)
               PROVE  row.uid \in DOMAIN known.story
    BY DEF NeedsLanding
  <2>1. PICK k \in 1 .. n : row = file.rows[k]
    BY <1>0 DEF Range
  <2> QED  BY <1>1, <2>1
<1>3. WithLanding(acc, rows, known, parents) = acc
  BY <1>2 DEF WithLanding
<1>4. PICK g : StoryRun(g, acc, file, rows, known, parents, preferred) /\ UpsertStories(acc, file, rows, known, parents, preferred) = g[n]
  BY <1>0, StoriesRun
<1>5. g[0] = acc /\ \A k \in 1 .. n : g[k] = StoryOfRow(g[k - 1], file, rows, file.rows[k], known, parents, preferred)
  BY <1>3, <1>4 DEF StoryRun
<1> HIDE DEF n
<1> DEFINE H == {k \in 0 .. n : g[k] = acc}
<1>6. 0 \in H
  BY <1>0, <1>5
<1>7. ASSUME NEW k \in 1 .. n, k - 1 \in H
      PROVE  k \in H
  <2>1. g[k] = StoryOfRow(acc, file, rows, file.rows[k], known, parents, preferred)
    BY <1>5, <1>7
  <2>2. g[k] = acc
    BY <1>1, <2>1 DEF StoryOfRow
  <2> QED  BY <1>0, <2>2
<1> HIDE DEF H
<1>8. n \in H
  BY <1>0, <1>6, <1>7, InductionUpTo
<1> QED  BY <1>4, <1>8 DEF H

\* The placeholder may come, nothing else does.
LandingAdds(acc, new) ==
    /\ Extends(acc.plan, new.plan) /\ new.plan.story = acc.plan.story
    /\ \A f \in DOMAIN acc.plan.feature : new.plan.feature[f] = acc.plan.feature[f]
    /\ \A f \in DOMAIN new.plan.feature \ DOMAIN acc.plan.feature : new.plan.feature[f].uid = Nothing

\* The placeholder continues no feature, and none continues it.
LEMMA LandingIsAdded ==
  ASSUME NEW acc, IsAcc(acc), HasSpare(acc, "feature"), Unnamed(acc), NEW rows, NEW known, NEW parents
  PROVE  LandingAdds(acc, WithLanding(acc, rows, known, parents))
<1> DEFINE new == WithLanding(acc, rows, known, parents)
           row == [NewFeature(Nothing, Nothing) EXCEPT !.unassigned = TRUE]
           id == Least(acc.spare.feature)
<1>1. new = acc \/ new = Insert(acc, "feature", row)
  BY DEF WithLanding
<1>2. row.uid = Nothing /\ row.origin = Nothing
  BY DEF NewFeature
<1> HIDE DEF new, row
<1>3. CASE new = acc
  <2>1. LandingAdds(acc, new)
    BY <1>3, ExtendsItself DEF LandingAdds
  <2> QED  BY <2>1 DEF new
<1>4. CASE new = Insert(acc, "feature", row)
  <2> DEFINE in == Insert(acc, "feature", row)
  <2>1. /\ id \in acc.spare.feature /\ id \in Ids /\ id \notin DOMAIN acc.plan.feature
        /\ in.landed = acc.landed /\ in.spare.feature = acc.spare.feature \ {id}
        /\ DOMAIN in.plan.feature = DOMAIN acc.plan.feature \cup {id} /\ in.plan.feature[id] = row
        /\ \A f \in DOMAIN acc.plan.feature : in.plan.feature[f] = acc.plan.feature[f]
        /\ in.plan.story = acc.plan.story /\ in.plan.list = acc.plan.list
        /\ in.plan.pi = acc.plan.pi /\ in.plan.path = acc.plan.path
    BY NewFeatureIsIn
  <2>2. in = new
    BY <1>4
  <2> HIDE DEF id, in
  <2>3. \A f \in DOMAIN acc.plan.feature : acc.plan.feature[f].origin # id
    BY <2>1 DEF Unnamed
  <2>4. id # Nothing
    BY <2>1, NothingIsNoId
  <2>5. FeaturesExtend(acc.plan, new.plan)
    BY <1>2, <2>1, <2>2, <2>3, <2>4 DEF FeaturesExtend
  <2>6. ListExtends(acc.plan, new.plan)
    BY <2>1, <2>2, SameList
  <2>7. LandingAdds(acc, new)
    BY <1>2, <2>1, <2>2, <2>5, <2>6 DEF LandingAdds, Extends
  <2> QED  BY <2>7 DEF new
<1> QED  BY <1>1, <1>3, <1>4

\* The maps that are read hold every item of the plan under its business id.
LEMMA ExistingMapped ==
  ASSUME NEW p, IsPlan(p)
  PROVE  Mapped(p, FetchExisting(p)) /\ StoriesMapped(p, FetchExisting(p))
<1>1. ASSUME NEW rows, NEW uid \in UidsOf(rows)
      PROVE  IdsByUid(rows)[uid] \in DOMAIN rows /\ rows[IdsByUid(rows)[uid]].uid = uid
  <2> DEFINE x == CHOOSE x \in DOMAIN rows : rows[x].uid = uid
  <2>1. \E y \in DOMAIN rows : rows[y].uid = uid
    BY DEF UidsOf
  <2>2. x \in DOMAIN rows /\ rows[x].uid = uid
    BY <2>1
  <2>3. IdsByUid(rows)[uid] = x
    BY DEF IdsByUid
  <2> HIDE DEF x
  <2> QED  BY <2>2, <2>3
<1>2. \A rows : DOMAIN IdsByUid(rows) = UidsOf(rows)
  BY DEF IdsByUid
<1>3. FetchExisting(p).feature = IdsByUid(p.feature) /\ FetchExisting(p).story = IdsByUid(p.story)
  BY DEF FetchExisting
<1> QED  BY <1>1, <1>2, <1>3 DEF Mapped, StoriesMapped

\* When the promoted stories have left, the maps without them hold the others.
LEMMA PromotedAreUnmapped ==
  ASSUME NEW p, IsPlan(p), Distinct(p), NEW file, NEW maps, StoriesMapped(p, maps),
         maps = [feature |-> maps.feature, story |-> maps.story]
  PROVE  StoriesMapped(Promotions(p, file, maps), KnownAfter(file, maps))
<1> DEFINE base == Promotions(p, file, maps)
           T == {maps.story[row.uid] : row \in {r \in Range(file.rows) : Promotes(r, maps) /\ file.retype}}
           U == {row.uid : row \in {r \in Imported(file, maps) : IsFeature(r)}}
           known == KnownAfter(file, maps)
<1>1. DOMAIN base.story = DOMAIN p.story \ T /\ (\A s \in DOMAIN p.story \ T : base.story[s] = p.story[s])
  <2> HIDE DEF base, T
  <2> QED  BY PromotionsLeave DEF base, T
<1>2. known.story = Without(maps.story, U)
  BY DEF KnownAfter
<1> HIDE DEF known, base, U, T
<1>3. DOMAIN known.story = DOMAIN maps.story \ U /\ \A uid \in DOMAIN maps.story \ U : known.story[uid] = maps.story[uid]
  BY <1>2 DEF Without, Restrict
<1>4. \A s, t \in DOMAIN p.story : p.story[s].uid = p.story[t].uid /\ p.story[s].uid # Nothing => s = t
  BY DistinctHas
<1>5. DOMAIN maps.story = UidsOf(p.story) /\ \A uid \in DOMAIN maps.story : maps.story[uid] \in DOMAIN p.story /\ p.story[maps.story[uid]].uid = uid
  BY DEF StoriesMapped
<1>6. \A uid \in DOMAIN maps.story : uid # Nothing /\ (maps.story[uid] \in T <=> uid \in U)
  <2> SUFFICES ASSUME NEW uid \in DOMAIN maps.story
               PROVE  uid # Nothing /\ (maps.story[uid] \in T <=> uid \in U)
    OBVIOUS
  <2>1. uid # Nothing
    BY <1>5 DEF UidsOf
  <2>2. ASSUME maps.story[uid] \in T
        PROVE  uid \in U
    <3>1. PICK row \in Range(file.rows) : Promotes(row, maps) /\ file.retype /\ maps.story[uid] = maps.story[row.uid]
      BY <2>2 DEF T
    <3>2. row.uid = uid
      BY <1>5, <3>1 DEF Promotes
    <3> QED  BY <3>1, <3>2 DEF U, Imported, Promotes, Demotes, IsFeature, IsStory
  <2>3. ASSUME uid \in U
        PROVE  maps.story[uid] \in T
    <3>1. PICK row \in Imported(file, maps) : IsFeature(row) /\ row.uid = uid
      BY <2>3 DEF U
    <3> QED  BY <3>1 DEF T, Imported, Promotes
  <2> QED  BY <2>1, <2>2, <2>3
<1>7. \A s \in DOMAIN base.story : base.story[s].uid # Nothing =>
        /\ base.story[s].uid \in DOMAIN known.story
  BY <1>1, <1>3, <1>4, <1>5, <1>6 DEF UidsOf
<1>8. \A uid \in DOMAIN known.story : known.story[uid] \in DOMAIN base.story /\ base.story[known.story[uid]].uid = uid /\ uid # Nothing
  BY <1>1, <1>3, <1>5, <1>6
<1>9. StoriesMapped(base, known)
  BY <1>7, <1>8 DEF StoriesMapped, UidsOf
<1> QED  BY <1>9 DEF base, known

\* What an import of base makes, q, that the next one finds.
Settles(base, q, file, maps, g, placed) ==
    LET n == Len(file.rows) IN
    /\ \A k \in 0 .. n : IsAcc(g[k]) /\ Landed(g[k], {}) /\ Extends(g[k].plan, q)
    /\ \A k \in 1 .. n : Steps(g[k - 1], g[k], file, file.rows[k], maps)
    /\ g[0].landed = <<>> /\ g[0].plan = base /\ placed.landed = g[n].landed
    /\ \A f \in DOMAIN g[n].plan.feature : q.feature[f].state = g[n].plan.feature[f].state
    /\ file.places => \A i \in DOMAIN g[n].landed : PlacedAlready(q, g[n].landed[i])
    /\ UidsOnce(q.feature) /\ UidsOnce(q.story)
    /\ \A f \in DOMAIN q.feature :
         q.feature[f].uid \in UidsOf(base.feature) \cup {Nothing} \/ \E i \in DOMAIN g[n].landed : g[n].landed[i][1].uid = q.feature[f].uid
    /\ \A i \in DOMAIN g[n].landed :
         g[n].landed[i][2] \in DOMAIN q.feature /\ q.feature[g[n].landed[i][2]].uid = g[n].landed[i][1].uid
    /\ \A s \in DOMAIN base.story : s \in DOMAIN q.story /\ q.story[s].uid = base.story[s].uid
    /\ \A j \in 1 .. n : IsStory(file.rows[j]) /\ file.rows[j] \in Imported(file, maps) =>
         \E s \in DOMAIN q.story : Fits(q, file, file.rows[j], ParentLookup(placed, maps), q.story[s])

\* Stages of the import: the features are in, placed, and have been joined by the placeholder.
LEMMA FeaturesSettle ==
  ASSUME NEW base, UidsOnce(base.feature), NEW file, Identified(file), NEW maps, Mapped(base, maps),
         NEW spare, \A f \in DOMAIN base.feature : base.feature[f].origin \notin spare.feature,
         NEW g, NEW placed, NEW h, PartsGo(base, file, maps, {}, g, placed, h),
         FeatureRun(g, [plan |-> base, landed |-> <<>>, spare |-> spare], file, maps),
         placed = PlaceFromIterations(g[Len(file.rows)], file)
  PROVE  /\ \A k \in 0 .. Len(file.rows) : Brought(base, g[k], file, maps, k) /\ Extends(g[k].plan, g[Len(file.rows)].plan)
         /\ \A k \in 1 .. Len(file.rows) : Steps(g[k - 1], g[k], file, file.rows[k], maps)
         /\ PlacesAll(g[Len(file.rows)], placed, file)
         /\ Unnamed(placed)
<1> DEFINE n == Len(file.rows)
           acc == [plan |-> base, landed |-> <<>>, spare |-> spare]
           F == FeatureUids(file, maps)
           S == StoryUids(file, maps)
           features == g[n]
<1>0. n \in Nat
  BY DEF Identified
<1>1. acc.plan = base /\ acc.landed = <<>> /\ acc.spare = spare
  OBVIOUS
<1>2. FeatureRun(g, acc, file, maps)
  OBVIOUS
<1> HIDE DEF acc, n, F, S
<1>3. \A k \in 0 .. n : Goes(base, g[k], maps, RowsLeft(file.rows, k), F, S, {})
  BY DEF PartsGo, n, F, S
<1>4. Brought(base, acc, file, maps, 0)
  <2>1. \A e, f \in DOMAIN base.feature : base.feature[e].uid = base.feature[f].uid /\ base.feature[f].uid # Nothing => e = f
    BY DEF UidsOnce
  <2>2. \A f \in DOMAIN base.feature : base.feature[f].uid \in UidsOf(base.feature) \cup {Nothing}
    BY DEF UidsOf
  <2>3. Unnamed(acc)
    BY <1>1 DEF Unnamed
  <2>4. Extends(base, acc.plan)
    BY <1>1, ExtendsItself
  <2>5. DOMAIN acc.landed = {}
    BY <1>1
  <2> QED  BY <1>1, <2>1, <2>2, <2>3, <2>4, <2>5 DEF Brought
<1>5. /\ \A k \in 0 .. n : Brought(base, g[k], file, maps, k) /\ Extends(g[k].plan, g[n].plan)
      /\ \A k \in 1 .. n : Steps(g[k - 1], g[k], file, file.rows[k], maps)
  BY <1>2, <1>3, <1>4, FeaturesBring DEF n
<1>6. Brought(base, features, file, maps, n) /\ Goes(base, features, maps, RowsLeft(file.rows, n), F, S, {})
  BY <1>0, <1>3, <1>5
<1> HIDE DEF features
<1>7. Landed(features, {}) /\ IsAcc(features)
  BY <1>6 DEF Goes
<1>8. \A i, j \in DOMAIN features.landed : features.landed[i][2] = features.landed[j][2] => i = j
  BY <1>6 DEF Brought
<1>9. placed = PlaceFromIterations(features, file)
  BY DEF features, n
<1> DEFINE R == RowsLeft(file.rows, n)
<1> HIDE DEF R
<1>10. PlacesAll(features, placed, file)
  <2>1. Goes(base, features, maps, R, F, S, {})
    BY <1>6 DEF R
  <2> QED  BY <1>7, <1>8, <1>9, <2>1, PlacementSettles
<1>11. Unnamed(placed)
  <2>1. Unnamed(features)
    BY <1>6 DEF Brought
  <2>2. Extends(features.plan, placed.plan) /\ placed.spare = features.spare /\ DOMAIN placed.plan.feature = DOMAIN features.plan.feature
    BY <1>10 DEF PlacesAll
  <2>3. \A f \in DOMAIN features.plan.feature : placed.plan.feature[f].origin = features.plan.feature[f].origin
    BY <2>2 DEF Extends, FeaturesExtend
  <2> QED  BY <2>1, <2>2, <2>3 DEF Unnamed
<1> QED  BY <1>5, <1>10, <1>11 DEF features, n

\* After the first import a second one finds what it would make.
LEMMA ImportOnce ==
  ASSUME NEW p, IsPlan(p), Distinct(p), Stands(p), NEW file, Identified(file), NEW spare, Spares(p, spare, file),
         \A f \in DOMAIN p.feature : p.feature[f].origin \notin spare.feature, NEW preferred,
         NEW maps, maps = FetchExisting(p), NEW g, NEW placed, NEW h, ImportRun(p, file, maps, spare, preferred, g, placed, h),
         NEW q, q = ImportRows(p, file, maps, spare, preferred)
  PROVE  Settles(Promotions(p, file, maps), q, file, maps, g, placed)
<1> DEFINE n == Len(file.rows)
           base == Promotions(p, file, maps)
           rows == Imported(file, maps)
           known == KnownAfter(file, maps)
           parents == ParentLookup(placed, maps)
           F == FeatureUids(file, maps)
           S == StoryUids(file, maps)
           needed == NeedsLanding(rows, known, parents)
           features == g[n]
           first == h[0]
<1>0. n \in Nat /\ file.rows \in Seq(FileRows)
  BY DEF Identified
<1>1. /\ IsPlan(base) /\ base.feature = p.feature /\ Stands(base)
      /\ \A s \in DOMAIN base.story : s \in DOMAIN p.story /\ base.story[s] = p.story[s]
  <2> DEFINE T == {maps.story[row.uid] : row \in {r \in Range(file.rows) : Promotes(r, maps) /\ file.retype}}
  <2> HIDE DEF base, T
  <2>1. DOMAIN base.story = DOMAIN p.story \ T /\ (\A s \in DOMAIN p.story \ T : base.story[s] = p.story[s])
        /\ IsPlan(base) /\ base.feature = p.feature /\ Stands(base)
    BY PromotionsLeave DEF base, T
  <2> QED  BY <2>1
<1> HIDE DEF base, rows, known, parents, n
<1>2. Mapped(p, maps) /\ StoriesMapped(p, maps) /\ Matched(p, maps, {}) /\ maps = [feature |-> maps.feature, story |-> maps.story]
  BY ExistingMapped, ExistingMatched DEF FetchExisting
<1>3. Mapped(base, maps) /\ StoriesMapped(base, known)
  BY <1>1, <1>2, PromotedAreUnmapped DEF Mapped, base, known
<1>4. UidsOnce(base.feature) /\ UidsOnce(base.story)
  BY <1>1, DistinctHas DEF UidsOnce
<1>5. PartsGo(base, file, maps, {}, g, placed, h)
  BY <1>0, <1>2, ImportGoes DEF base
<1>6. /\ FeatureRun(g, [plan |-> base, landed |-> <<>>, spare |-> spare], file, maps) /\ placed = PlaceFromIterations(g[n], file)
      /\ StoryRun(h, placed, file, rows, known, parents, preferred) /\ q = h[n].plan
  BY DEF ImportRun, base, rows, known, parents, n
<1>7. /\ \A k \in 0 .. n : Brought(base, g[k], file, maps, k) /\ Extends(g[k].plan, g[n].plan)
      /\ \A k \in 1 .. n : Steps(g[k - 1], g[k], file, file.rows[k], maps)
      /\ PlacesAll(g[n], placed, file)
      /\ Unnamed(placed)
  <2>1. \A f \in DOMAIN base.feature : base.feature[f].origin \notin spare.feature
    BY <1>1
  <2> QED  BY <1>3, <1>4, <1>5, <1>6, <2>1, FeaturesSettle DEF n
<1> HIDE DEF F, S, needed
<1>8. /\ \A k \in 0 .. n : Goes(base, g[k], maps, RowsLeft(file.rows, k), F, S, {})
      /\ Goes(base, placed, maps, RowsLeft(file.rows, n), F, S, {})
      /\ \A k \in 0 .. n : GoesOn(base, h[k], maps, StoriesLeft(file.rows, k), F, S, {}, parents, needed)
  BY <1>5 DEF PartsGo, n, F, S, parents, needed, rows, known
<1>9. LandingAdds(placed, first) /\ IsPlan(placed.plan)
  <2>1. IsAcc(placed) /\ Room(placed, RowsLeft(file.rows, n))
    BY <1>8 DEF Goes
  <2>2. IsFiniteSet(RowsLeft(file.rows, n)) /\ RowsLeft(file.rows, n) # {}
    <3>1. IsFiniteSet(0 .. n)
      <4>1. n \in Int
        BY <1>0
      <4> QED  BY <4>1, FS_Interval
    <3>2. RowsLeft(file.rows, n) \subseteq 0 .. n /\ 0 \in RowsLeft(file.rows, n)
      BY <1>0 DEF RowsLeft, n
    <3> QED  BY <3>1, <3>2, FS_Subset
  <2>3. HasSpare(placed, "feature")
    BY <2>1, <2>2, RoomHasSpare
  <2>4. first = WithLanding(placed, rows, known, parents)
    BY <1>6 DEF StoryRun
  <2>5. Unnamed(placed) /\ IsPlan(placed.plan)
    BY <1>7, <2>1 DEF IsAcc
  <2> HIDE DEF first
  <2> QED  BY <2>1, <2>3, <2>4, <2>5, LandingIsAdded
<1> HIDE DEF first
<1>10. placed.plan.story = base.story /\ first.plan.story = base.story /\ placed.landed = features.landed
  <2>1. features.plan.story = base.story
    BY <1>0, <1>7 DEF Brought
  <2> QED  BY <1>7, <1>9, <2>1 DEF PlacesAll, LandingAdds
<1>11. \A k \in 0 .. n : StoriesBrought(first.plan, h[k].plan, file, rows, parents, k)
  <2>1. UidsOnce(first.plan.story) /\ StoriesMapped(first.plan, known)
    BY <1>3, <1>4, <1>10 DEF StoriesMapped

  <2>3. /\ \A k \in 0 .. Len(file.rows) : GoesOn(base, h[k], maps, StoriesLeft(file.rows, k), F, S, {}, parents, NeedsLanding(rows, known, parents))
        /\ StoryRun(h, placed, file, rows, known, parents, preferred)
        /\ UidsOnce(h[0].plan.story) /\ StoriesMapped(h[0].plan, known)
    BY <1>6, <1>8, <2>1 DEF first, n, needed
  <2>4. \A k \in 0 .. Len(file.rows) : StoriesBrought(h[0].plan, h[k].plan, file, rows, parents, k)
    <3>1. Stands(base)
      BY <1>1
    <3> HIDE DEF features
    <3> QED  BY <2>3, <3>1, StoriesBring
  <2> QED  BY <2>4 DEF first, n
<1>12. StoriesBrought(first.plan, q, file, rows, parents, n)
  BY <1>0, <1>6, <1>11
<1>31. n \in 0 .. n /\ 0 \in 0 .. n
  BY <1>0
<1>13. Extends(first.plan, q) /\ q.feature = first.plan.feature
  BY <1>12 DEF StoriesBrought, Extends, FeaturesExtend
<1>14. IsPlan(q) /\ IsPlan(first.plan)
  <2>1. IsAcc(h[n]) /\ IsAcc(h[0])
    BY <1>8, <1>31 DEF GoesOn, Goes
  <2> QED  BY <1>6, <2>1 DEF IsAcc, first
<1>15. IsAcc(features) /\ IsPlan(features.plan) /\ Landed(features, {}) /\ Brought(base, features, file, maps, n)
  <2>1. Goes(base, features, maps, RowsLeft(file.rows, n), F, S, {}) /\ Brought(base, features, file, maps, n)
    BY <1>7, <1>8, <1>31
  <2> HIDE DEF features
  <2> QED  BY <2>1 DEF Goes, IsAcc
<1> HIDE DEF features
<1>16. PlacesAll(features, placed, file)
  BY <1>7 DEF features
<1>17. Extends(placed.plan, q) /\ Extends(features.plan, q)
  BY <1>9, <1>13, <1>14, <1>16, ExtendsOn DEF LandingAdds, PlacesAll
<1>18. DOMAIN placed.plan.feature = DOMAIN features.plan.feature
  BY <1>16 DEF PlacesAll
<1>19. \A f \in DOMAIN features.plan.feature : f \in DOMAIN q.feature /\ q.feature[f] = placed.plan.feature[f]
  BY <1>9, <1>13, <1>17, <1>18 DEF LandingAdds, Extends, FeaturesExtend
<1>20. \A f \in DOMAIN q.feature : f \in DOMAIN features.plan.feature \/ q.feature[f].uid = Nothing
  BY <1>9, <1>13, <1>18 DEF LandingAdds
<1>21. \A f \in DOMAIN features.plan.feature : q.feature[f].uid = features.plan.feature[f].uid
  BY <1>17 DEF Extends, FeaturesExtend
<1>22. UidsOnce(q.feature)
  BY <1>15, <1>20, <1>21 DEF Brought, UidsOnce
<1>23. \A f \in DOMAIN q.feature :
         q.feature[f].uid \in UidsOf(base.feature) \cup {Nothing} \/ \E i \in DOMAIN features.landed : features.landed[i][1].uid = q.feature[f].uid
  BY <1>15, <1>20, <1>21 DEF Brought
<1>24. \A i \in DOMAIN features.landed :
         features.landed[i][2] \in DOMAIN q.feature /\ q.feature[features.landed[i][2]].uid = features.landed[i][1].uid
  BY <1>15, <1>19, <1>21 DEF Brought
<1>25. \A f \in DOMAIN features.plan.feature : q.feature[f].state = features.plan.feature[f].state
  BY <1>16, <1>19 DEF PlacesAll
<1>26. file.places => \A i \in DOMAIN features.landed : PlacedAlready(q, features.landed[i])
  <2> SUFFICES ASSUME file.places, NEW i \in DOMAIN features.landed
               PROVE  PlacedAlready(q, features.landed[i])
    OBVIOUS
  <2> DEFINE l == features.landed[i]
  <2>1. PlacedAlready(placed.plan, l) /\ l[2] \in DOMAIN placed.plan.feature /\ q.feature[l[2]].pi = placed.plan.feature[l[2]].pi
    BY <1>15, <1>16, <1>18, <1>19 DEF PlacesAll, Brought
  <2> HIDE DEF l
  <2>2. PlacedAlready(q, l)
    BY <1>9, <1>14, <1>17, <2>1, PlacedStays
  <2> QED  BY <2>2 DEF l
<1>27. \A k \in 0 .. n : IsAcc(g[k]) /\ Landed(g[k], {}) /\ Extends(g[k].plan, q)
  BY <1>7, <1>8, <1>15, <1>17, ExtendsOn DEF Goes, features
<1>28. g[0].landed = <<>> /\ g[0].plan = base
  BY <1>6 DEF FeatureRun
<1>29. UidsOnce(q.story) /\ (\A s \in DOMAIN base.story : s \in DOMAIN q.story /\ q.story[s].uid = base.story[s].uid)
       /\ \A j \in 1 .. n : IsStory(file.rows[j]) /\ file.rows[j] \in rows => \E s \in DOMAIN q.story : Fits(q, file, file.rows[j], parents, q.story[s])
  BY <1>10, <1>12 DEF StoriesBrought
<1>30. Settles(base, q, file, maps, g, placed)
  BY <1>7, <1>10, <1>22, <1>23, <1>24, <1>25, <1>26, <1>27, <1>28, <1>29 DEF Settles, features, n, rows, parents
<1> QED  BY <1>30 DEF base

\* The business ids after an import are those before, but for the promoted stories', and those of the rows imported.
UidsAfter(p, base, q, file, maps) ==
    /\ UidsOf(q.feature) = UidsOf(p.feature) \cup FeatureUids(file, maps)
    /\ UidsOf(base.story) \subseteq UidsOf(q.story) /\ UidsOf(q.story) \subseteq UidsOf(base.story) \cup StoryUids(file, maps)
    /\ UidsOf(base.story) \subseteq UidsOf(p.story) /\ (~ file.retype => UidsOf(base.story) = UidsOf(p.story))

\* So an import does, whatever its rows are.
LEMMA UidsAfterImport ==
  ASSUME NEW p, IsPlan(p), NEW file, Identified(file), NEW maps, NEW base, base = Promotions(p, file, maps),
         NEW q, Works(base, q, FeatureUids(file, maps), StoryUids(file, maps), {}),
         NEW g, NEW placed, Settles(base, q, file, maps, g, placed)
  PROVE  UidsAfter(p, base, q, file, maps)
<1> DEFINE n == Len(file.rows)
<1>0. n \in Nat /\ DOMAIN file.rows = 1 .. n /\ \A i \in 1 .. n : file.rows[i].uid # Nothing
  BY DEF Identified, Indices
<1>1. base.feature = p.feature /\ (\A s \in DOMAIN base.story : s \in DOMAIN p.story /\ base.story[s] = p.story[s])
      /\ (~ file.retype => DOMAIN base.story = DOMAIN p.story)
  <2> DEFINE T == {maps.story[row.uid] : row \in {r \in Range(file.rows) : Promotes(r, maps) /\ file.retype}}
  <2>1. ~ file.retype => T = {}
    OBVIOUS
  <2> HIDE DEF T
  <2>2. DOMAIN base.story = DOMAIN p.story \ T /\ (\A s \in DOMAIN p.story \ T : base.story[s] = p.story[s])
        /\ base.feature = p.feature
    BY PromotionsLeave DEF T
  <2> QED  BY <2>1, <2>2
<1>2. \A uid \in FeatureUids(file, maps) : uid \in UidsOf(q.feature)
  <2> SUFFICES ASSUME NEW uid \in FeatureUids(file, maps)
               PROVE  uid \in UidsOf(q.feature)
    OBVIOUS
  <2>1. PICK row \in Imported(file, maps) : IsFeature(row) /\ row.uid = uid
    BY DEF FeatureUids
  <2>2. PICK k \in 1 .. n : file.rows[k] = row
    BY <1>0, <2>1 DEF Imported, Range
  <2>3. k \in 0 .. n /\ Steps(g[k - 1], g[k], file, row, maps) /\ Extends(g[k].plan, q)
    BY <1>0, <2>2 DEF Settles, n
  <2>4. PICK f : RowAdds(g[k - 1], g[k], file, row, f)
    BY <2>1, <2>3 DEF Steps
  <2>5. f \in DOMAIN q.feature /\ q.feature[f].uid = uid
    BY <2>1, <2>3, <2>4 DEF RowAdds, Extends, FeaturesExtend
  <2> QED  BY <1>0, <2>1, <2>2, <2>5 DEF UidsOf
<1>3. UidsOf(p.feature) \subseteq UidsOf(q.feature)
  <2>1. Extends(base, q)
    BY <1>0 DEF Settles, n
  <2> QED  BY <1>1, <2>1 DEF Extends, FeaturesExtend, UidsOf
<1>4. UidsOf(base.story) \subseteq UidsOf(q.story)
  <2>1. \A s \in DOMAIN base.story : s \in DOMAIN q.story /\ q.story[s].uid = base.story[s].uid
    BY DEF Settles
  <2> QED  BY <2>1 DEF UidsOf
<1>5. UidsOf(base.story) \subseteq UidsOf(p.story) /\ (~ file.retype => UidsOf(base.story) = UidsOf(p.story))
  BY <1>1 DEF UidsOf
<1>6. UidsOf(q.feature) \subseteq UidsOf(p.feature) \cup FeatureUids(file, maps) /\ UidsOf(q.story) \subseteq UidsOf(base.story) \cup StoryUids(file, maps)
  BY <1>1 DEF Works
<1> QED  BY <1>2, <1>3, <1>4, <1>5, <1>6 DEF UidsAfter

\* Rows of two kinds do not share a business id.
LEMMA KindsApart ==
  ASSUME NEW file, Identified(file), NEW maps, NEW row \in Range(file.rows)
  PROVE  /\ IsStory(row) => row.uid \notin FeatureUids(file, maps)
         /\ IsFeature(row) => row.uid \notin StoryUids(file, maps)
<1>1. ASSUME NEW other \in Range(file.rows), other.uid = row.uid
      PROVE  other = row
  <2>1. PICK i \in DOMAIN file.rows : file.rows[i] = row
    BY DEF Range
  <2>2. PICK j \in DOMAIN file.rows : file.rows[j] = other
    BY DEF Range
  <2>3. i \in Indices(file.rows) /\ j \in Indices(file.rows)
    BY DEF Identified
  <2>4. i = j
    BY <1>1, <2>1, <2>2, <2>3 DEF Identified, ValidRows
  <2> QED  BY <2>1, <2>2, <2>4
<1> QED  BY <1>1 DEF FeatureUids, StoryUids, Imported, IsFeature, IsStory

\* The second time the same rows are imported.
LEMMA SameRowsAgain ==
  ASSUME NEW p, NEW base, NEW q, NEW file, Identified(file), NEW maps, Mapped(p, maps), StoriesMapped(p, maps),
         UidsAfter(p, base, q, file, maps), NEW twice, Mapped(q, twice), StoriesMapped(q, twice)
  PROVE  Imported(file, twice) = Imported(file, maps)
<1> SUFFICES ASSUME NEW row \in Range(file.rows)
             PROVE  (~ Demotes(row, twice) /\ (Promotes(row, twice) => file.retype)) <=> (~ Demotes(row, maps) /\ (Promotes(row, maps) => file.retype))
  BY DEF Imported
<1>1. Demotes(row, twice) <=> Demotes(row, maps)
  BY KindsApart DEF Demotes, Mapped, UidsAfter
<1>2. ~ file.retype => (Promotes(row, twice) <=> Promotes(row, maps))
  BY KindsApart DEF Promotes, StoriesMapped, UidsAfter
<1> QED  BY <1>1, <1>2

\* A row imported as a feature names no story any more.
LEMMA NonePromotedAgain ==
  ASSUME NEW p, NEW base, NEW q, IsPlan(q), UidsApart(q), NEW file, NEW maps,
         UidsAfter(p, base, q, file, maps), NEW twice, StoriesMapped(q, twice), Imported(file, twice) = Imported(file, maps)
  PROVE  \A row \in Imported(file, twice) : ~ Promotes(row, twice)
<1> SUFFICES ASSUME NEW row \in Imported(file, twice), Promotes(row, twice)
             PROVE  FALSE
  OBVIOUS
<1>1. row.uid \in UidsOf(q.story)
  BY DEF Promotes, StoriesMapped
<1>2. row.uid \in UidsOf(q.feature)
  BY DEF Promotes, UidsAfter, FeatureUids
<1> QED  BY <1>1, <1>2 DEF UidsApart, UidsOf

\* A table that loses none of its rows is the table.
LEMMA NoneLeft ==
  ASSUME NEW ids, NEW Rows, NEW rows, IsTable(rows, ids, Rows), NEW S, S \cap DOMAIN rows = {}
  PROVE  Without(rows, S) = rows
BY DEF Without, Restrict, IsTable

\* Where no row promotes a story the plan stays.
LEMMA PromotionsLeaveAll ==
  ASSUME NEW q, IsPlan(q), NEW file, NEW twice, \A row \in Imported(file, twice) : ~ Promotes(row, twice)
  PROVE  Promotions(q, file, twice) = q
<1> DEFINE T == {twice.story[row.uid] : row \in {r \in Range(file.rows) : Promotes(r, twice) /\ file.retype}}
<1>1. T = {}
  BY DEF Imported, Promotes, Demotes, IsFeature, IsStory
<1>2. Promotions(q, file, twice) = Drop(q, "story", T)
  BY DEF Promotions
<1> HIDE DEF T
<1>3. Without(q.story, T) = q.story
  BY <1>1, PlanTables, NoneLeft
<1>4. q = [table \in Tables |-> q[table]]
  BY DEF IsPlan
<1>5. Drop(q, "story", T) = [q EXCEPT !.story = Without(@, T)]
  BY <1>4, PutOneTable
<1> QED  BY <1>2, <1>3, <1>4, <1>5

\* A Parent names the same feature the second time.
LEMMA SameParents ==
  ASSUME NEW p, NEW maps, Mapped(p, maps), NEW base, base.feature = p.feature, NEW file,
         NEW q, NEW g, NEW placed, Settles(base, q, file, maps, g, placed), 0 \in 0 .. Len(file.rows),
         NEW twice, Mapped(q, twice), NEW again, again.landed = placed.landed
  PROVE  ParentLookup(again, twice) = ParentLookup(placed, maps)
<1> DEFINE L == {landed[1].uid : landed \in Range(placed.landed)}
           Names(m) == (DOMAIN m.feature \cup L) \ {Nothing}
           Of(uid) == FeatureOfFile(placed, uid)

<1>2. ParentLookup(placed, maps) = [uid \in Names(maps) |-> IF Of(uid) # {} THEN CHOOSE f \in Of(uid) : TRUE ELSE maps.feature[uid]]
  BY DEF ParentLookup
<1>3. ParentLookup(again, twice) = [uid \in Names(twice) |-> IF Of(uid) # {} THEN CHOOSE f \in Of(uid) : TRUE ELSE twice.feature[uid]]
  <2>1. ParentLookup(again, twice) = ParentLookup(placed, twice)
    BY DEF ParentLookup, FeatureOfFile
  <2>2. ParentLookup(placed, twice) = [uid \in Names(twice) |-> IF Of(uid) # {} THEN CHOOSE f \in Of(uid) : TRUE ELSE twice.feature[uid]]
    BY DEF ParentLookup
  <2> QED  BY <2>1, <2>2
<1>4. \A uid : uid \in L => Of(uid) # {}
  BY DEF FeatureOfFile
<1>5. /\ UidsOnce(q.feature) /\ Extends(base, q)
      /\ \A f \in DOMAIN q.feature : q.feature[f].uid \in UidsOf(base.feature) \cup {Nothing} \cup L
      /\ \A uid \in L : \E f \in DOMAIN q.feature : q.feature[f].uid = uid
  <2>1. placed.landed = g[Len(file.rows)].landed
    BY DEF Settles
  <2> QED  BY <2>1 DEF Settles, Range
<1> HIDE DEF L, Of
<1>6. \A uid \in UidsOf(p.feature) : uid \in DOMAIN twice.feature /\ twice.feature[uid] = maps.feature[uid]
  <2> SUFFICES ASSUME NEW uid \in UidsOf(p.feature)
               PROVE  uid \in DOMAIN twice.feature /\ twice.feature[uid] = maps.feature[uid]
    OBVIOUS
  <2>1. maps.feature[uid] \in DOMAIN base.feature /\ base.feature[maps.feature[uid]].uid = uid /\ uid # Nothing
    BY DEF Mapped, UidsOf
  <2>2. maps.feature[uid] \in DOMAIN q.feature /\ q.feature[maps.feature[uid]].uid = uid
    BY <1>5, <2>1 DEF Extends, FeaturesExtend
  <2> QED  BY <1>5, <2>1, <2>2, MappedTo
<1>7. DOMAIN maps.feature = UidsOf(p.feature) /\ DOMAIN twice.feature = UidsOf(q.feature)
  BY DEF Mapped
<1>8. Names(twice) = Names(maps)
  <2>1. \A uid \in UidsOf(q.feature) : uid \in UidsOf(p.feature) \cup L \cup {Nothing}
    BY <1>5 DEF UidsOf
  <2>2. \A uid \in L : uid \in UidsOf(q.feature) \cup {Nothing}
    BY <1>5 DEF UidsOf
  <2> QED  BY <1>6, <1>7, <2>1, <2>2
<1>9. \A uid \in Names(maps) : Of(uid) = {} => twice.feature[uid] = maps.feature[uid]
  BY <1>4, <1>6, <1>7
<1> HIDE DEF Names
<1> QED  BY <1>2, <1>3, <1>8, <1>9

\* The stories that rows may name the second time are all.
LEMMA KnownAgain ==
  ASSUME NEW q, NEW twice, twice = [feature |-> twice.feature, story |-> twice.story], StoriesMapped(q, twice),
         NEW file, \A row \in Imported(file, twice) : ~ Promotes(row, twice)
  PROVE  StoriesMapped(q, KnownAfter(file, twice))
<1> DEFINE U == {row.uid : row \in {r \in Imported(file, twice) : IsFeature(r)}}
<1>1. U \cap DOMAIN twice.story = {}
  BY DEF Promotes
<1>2. KnownAfter(file, twice).story = Without(twice.story, U)
  BY DEF KnownAfter
<1> HIDE DEF U
<1>3. DOMAIN Without(twice.story, U) = DOMAIN twice.story /\ \A uid \in DOMAIN twice.story : Without(twice.story, U)[uid] = twice.story[uid]
  BY <1>1 DEF Without, Restrict
<1> QED  BY <1>2, <1>3 DEF StoriesMapped

\* Every row of a story, of those that are imported, has one that fits it.
StoriesFit(p, file, rows, parents) == \A j \in 1 .. Len(file.rows) : IsStory(file.rows[j]) /\ file.rows[j] \in rows =>
    \E s \in DOMAIN p.story : Fits(p, file, file.rows[j], parents, p.story[s])

\* Every story of the file fits its row: none is written.
LEMMA FittingAreLeft ==
  ASSUME NEW acc, IsAcc(acc), NEW file, Identified(file), NEW rows, rows \subseteq Range(file.rows), NEW parents,
         StoriesFit(acc.plan, file, rows, parents), NEW known, StoriesMapped(acc.plan, known), UidsOnce(acc.plan.story), NEW preferred
  PROVE  UpsertStories(acc, file, rows, known, parents, preferred) = acc
<1>1. \A row \in rows : row \in Range(file.rows)
  OBVIOUS
<1>2. \A j \in 1 .. Len(file.rows) : IsStory(file.rows[j]) /\ file.rows[j] \in rows =>
            \E s \in DOMAIN acc.plan.story : Fits(acc.plan, file, file.rows[j], parents, acc.plan.story[s])
  BY DEF StoriesFit
<1> QED  BY <1>1, <1>2, StoriesAreLeft

\* The import the second time, of what it made the first time: nothing changes.
LEMMA ImportTwice ==
  ASSUME NEW p, IsPlan(p), NEW file, Identified(file), NEW maps, Mapped(p, maps), StoriesMapped(p, maps),
         NEW base, base = Promotions(p, file, maps), NEW q, IsPlan(q), UidsApart(q),
         Works(base, q, FeatureUids(file, maps), StoryUids(file, maps), {}),
         NEW g, NEW placed, Settles(base, q, file, maps, g, placed),
         NEW spare, spare = [table \in Tables \ {"path"} |-> spare[table]], NEW preferred
  PROVE  ImportRows(q, file, FetchExisting(q), spare, preferred) = q
<1> DEFINE n == Len(file.rows)
           twice == FetchExisting(q)
           acc == [plan |-> q, landed |-> <<>>, spare |-> spare]
           rows == Imported(file, twice)
           parents == ParentLookup(placed, maps)
<1>0. n \in Nat /\ file.rows \in Seq(FileRows) /\ n \in 0 .. n /\ 0 \in 0 .. n
  BY DEF Identified
<1>1. Mapped(q, twice) /\ StoriesMapped(q, twice) /\ twice = [feature |-> twice.feature, story |-> twice.story]
  BY ExistingMapped DEF FetchExisting
<1>2. acc.plan = q /\ acc.landed = <<>> /\ acc.spare = spare /\ acc = [plan |-> acc.plan, landed |-> acc.landed, spare |-> acc.spare]
  OBVIOUS
<1> HIDE DEF twice, acc, parents, n
<1>3. UidsAfter(p, base, q, file, maps)
  BY UidsAfterImport
<1>4. rows = Imported(file, maps)
  BY <1>1, <1>3, SameRowsAgain
<1>5. \A row \in rows : ~ Promotes(row, twice)
  BY <1>1, <1>3, <1>4, NonePromotedAgain
<1>6. Promotions(q, file, twice) = q
  BY <1>5, PromotionsLeaveAll
<1>7. PICK b : FeatureRun(b, acc, file, twice) /\ UpsertFeatures(acc, file, twice) = b[n]
  BY <1>0, FeaturesRun DEF n
<1>8. /\ \A k \in 0 .. n : IsAcc(g[k]) /\ Landed(g[k], {}) /\ Extends(g[k].plan, q)
      /\ \A k \in 1 .. n : Steps(g[k - 1], g[k], file, file.rows[k], maps)
      /\ g[0].landed = <<>> /\ placed.landed = g[n].landed /\ UidsOnce(q.feature) /\ UidsOnce(q.story)
      /\ \A f \in DOMAIN g[n].plan.feature : q.feature[f].state = g[n].plan.feature[f].state
      /\ file.places => \A i \in DOMAIN g[n].landed : PlacedAlready(q, g[n].landed[i])
      /\ \A j \in 1 .. n : IsStory(file.rows[j]) /\ file.rows[j] \in rows =>
           \E s \in DOMAIN q.story : Fits(q, file, file.rows[j], parents, q.story[s])
  BY <1>4 DEF Settles, n, parents
<1>9. Again(g[0], acc, q, file)
  <2>1. IsAcc(acc)
    BY <1>2 DEF IsAcc
  <2>2. \A m : ~ Covered(q, g[0], file, m)
    BY <1>8 DEF Covered
  <2>3. \A m \in DOMAIN q.feature : q.feature[m] = [q.feature[m] EXCEPT !.state = q.feature[m].state]
    BY PlanTables DEF FeatureRows
  <2> QED  BY <1>2, <1>8, <2>1, <2>2, <2>3 DEF Again
<1>10. Again(g[n], b[n], q, file)
  BY <1>1, <1>4, <1>7, <1>8, <1>9, FeaturesAgain DEF n
<1>11. IsAcc(g[n]) /\ Landed(g[n], {}) /\ Extends(g[n].plan, q) /\ IsPlan(g[n].plan)
  BY <1>0, <1>8 DEF IsAcc
<1> DEFINE features == b[n]
           done == g[n]
<1>12. Again(done, features, q, file) /\ Landed(done, {}) /\ IsPlan(done.plan) /\ Extends(done.plan, q)
       /\ (\A f \in DOMAIN done.plan.feature : q.feature[f].state = done.plan.feature[f].state)
       /\ (file.places => \A i \in DOMAIN done.landed : PlacedAlready(q, done.landed[i]))
       /\ placed.landed = done.landed
  BY <1>8, <1>10, <1>11
<1>13. UpsertFeatures(acc, file, twice) = features
  BY <1>7
<1> HIDE DEF features, done
<1>14. IsAcc(features) /\ features.plan = q /\ features.landed = done.landed
  BY <1>12, AgainIsSame
<1>15. PlaceFromIterations(features, file) = features
  <2>1. Len(features.landed) \in Nat /\ DOMAIN features.landed = 1 .. Len(features.landed)
    <3>1. features.landed \in Seq(FileRows \X Ids)
      BY <1>12, <1>14 DEF Landed
    <3> QED  BY <3>1
  <2>2. file.places => \A i \in DOMAIN features.landed : PlacedAlready(features.plan, features.landed[i])
    BY <1>12, <1>14
  <2> QED  BY <1>14, <2>1, <2>2, PlacementIsLeft
<1>16. ParentLookup(features, twice) = parents
  <2>1. base.feature = p.feature
    <3> DEFINE T == {maps.story[row.uid] : row \in {r \in Range(file.rows) : Promotes(r, maps) /\ file.retype}}
    <3> HIDE DEF T
    <3> QED  BY PromotionsLeave DEF T
  <2>2. 0 \in 0 .. Len(file.rows)
    BY <1>0 DEF n
  <2>3. features.landed = placed.landed
    BY <1>12, <1>14
  <2> QED  BY <1>1, <2>1, <2>2, <2>3, SameParents DEF parents
<1>17. StoriesMapped(features.plan, KnownAfter(file, twice)) /\ UidsOnce(features.plan.story)
  BY <1>1, <1>5, <1>8, <1>14, KnownAgain
<1>18. UpsertStories(features, file, rows, KnownAfter(file, twice), parents, preferred) = features
  <2>1. rows \subseteq Range(file.rows)
    BY DEF Imported
  <2>2. StoriesFit(features.plan, file, rows, parents)
    BY <1>8, <1>14 DEF n, StoriesFit
  <2> DEFINE known == KnownAfter(file, twice)
  <2>3. StoriesMapped(features.plan, known) /\ UidsOnce(features.plan.story) /\ IsAcc(features) /\ Identified(file)
    BY <1>14, <1>17
  <2> HIDE DEF rows, known
  <2>4. UpsertStories(features, file, rows, known, parents, preferred) = features
    BY <2>1, <2>2, <2>3, FittingAreLeft
  <2> QED  BY <2>4 DEF known
<1>19. ImportRows(q, file, twice, spare, preferred)
         = UpsertStories(PlaceFromIterations(UpsertFeatures(acc, file, twice), file), file, rows, KnownAfter(file, twice),
                         ParentLookup(PlaceFromIterations(UpsertFeatures(acc, file, twice), file), twice), preferred).plan
  BY <1>6 DEF ImportRows, KnownAfter, acc
<1>20. ImportRows(q, file, twice, spare, preferred) = q
  BY <1>13, <1>14, <1>15, <1>16, <1>18, <1>19
<1> QED  BY <1>20 DEF twice

\* A file that removes nothing leaves the plan to its rows.
LEMMA NothingRemoved ==
  ASSUME NEW p, IsPlan(p)
  PROVE  Removed(p, {}) = p
<1> DEFINE continued == {f \in DOMAIN p.feature : p.feature[f].origin # Nothing}
           chains == {chain \in SUBSET continued : \A f \in chain : p.feature[f].origin \in chain \cup {}}
<1>0. p = [table \in Tables |-> p[table]]
  BY DEF IsPlan
<1>1. \A chain \in chains : chain = {}
  BY NoClosedChain
<1>2. Descendants(p, {}) = {}
  <2>1. Descendants(p, {}) = (UNION chains) \ {}
    BY DEF Descendants
  <2> HIDE DEF chains
  <2> QED  BY <1>1, <2>1
<1>3. Without(p.story, {}) = p.story /\ Without(p.feature, {}) = p.feature
  BY PlanTables, NoneLeft
<1>4. Drop(p, "story", {}) = p /\ Drop(p, "feature", {}) = p
  <2>1. p = [p EXCEPT !.story = Without(@, {})] /\ p = [p EXCEPT !.feature = Without(@, {})]
    BY <1>0, <1>3 DEF Tables
  <2> QED  BY <1>0, <2>1, PutOneTable
<1>5. DeleteFeatures(p, {}) = p
  <2>1. StoriesUnder(p, {}) = {} /\ {} \cup Descendants(p, {}) = {}
    BY <1>2 DEF StoriesUnder
  <2> QED  BY <1>4, <2>1 DEF DeleteFeatures
<1>6. {f \in DOMAIN p.feature : <<"feature", f>> \in {}} = {} /\ {s \in DOMAIN p.story : <<"story", s>> \in {}} = {}
  OBVIOUS
<1> QED  BY <1>4, <1>5, <1>6 DEF Removed

\* An import of the file leaves the plan, whatever ids it may give out.
Settled(q, file) == \A left, other :
    left = [table \in Tables \ {"path"} |-> left[table]] => ExecuteImport(q, file, left, other) = q

\* A file whose rows have IDs changes nothing the second time.
LEMMA ImportRepeats ==
  ASSUME NEW p, IsPlan(p), Distinct(p), Stands(p), NEW file, Identified(file), file.removals = {}, NEW spare, Spares(p, spare, file),
         \A f \in DOMAIN p.feature : p.feature[f].origin \notin spare.feature, NEW preferred,
         NEW q, q = ExecuteImport(p, file, spare, preferred)
  PROVE  Settled(q, file)
<1> SUFFICES ASSUME NEW left, left = [table \in Tables \ {"path"} |-> left[table]], NEW other
             PROVE  ExecuteImport(q, file, left, other) = q
  BY DEF Settled
<1> DEFINE maps == FetchExisting(p)
           base == Promotions(p, file, maps)
<1>1. file.rows \in Seq(FileRows) /\ ValidRows(file.rows)
  BY DEF Identified
<1>2. q = ImportRows(p, file, maps, spare, preferred)
  BY NothingRemoved DEF ExecuteImport
<1>3. Mapped(p, maps) /\ StoriesMapped(p, maps) /\ Matched(p, maps, {})
  BY ExistingMapped, ExistingMatched
<1> HIDE DEF maps, base
<1>4. IsPlan(q) /\ Works(base, q, FeatureUids(file, maps), StoryUids(file, maps), {})
  BY <1>1, <1>2, <1>3, RowsWork DEF base
<1>5. UidsApart(q)
  BY <1>1, <1>4, ImportKeepsUidsApart DEF maps, base
<1>6. PICK g, placed, h : ImportRun(p, file, maps, spare, preferred, g, placed, h)
  BY <1>1, ImportRuns
<1>7. Settles(base, q, file, maps, g, placed)
  BY <1>2, <1>6, ImportOnce DEF maps, base
<1>8. ImportRows(q, file, FetchExisting(q), left, other) = q
  <2>1. base = Promotions(p, file, maps)
    BY DEF base
  <2> QED  BY <1>3, <1>4, <1>5, <1>7, <2>1, ImportTwice
<1> QED  BY <1>4, <1>8, NothingRemoved DEF ExecuteImport

-----------------------------------------------------------------------------
(* The inductive invariant                                                 *)

\* A request between its reads and its commit.
IsRequest(h) ==
    /\ h = [op |-> h.op, was |-> h.was, is |-> h.is, file |-> h.file, overtaken |-> h.overtaken]
    /\ h.op \in {"write", "import", "snapshot", "restore", "export"}
    /\ IsPlan(h.was) /\ IsPlan(h.is) /\ h.overtaken \in BOOLEAN
    /\ h.op = "import" => h.file \in Files

Typed ==
    /\ IsPlan(plan) /\ \A n \in DOMAIN copies : IsPlan(copies[n])
    /\ held # Idle => IsRequest(held)

\* A file whose import may be held: there are ids for all it may create.
IsImport(file) == ValidRows(file.rows) /\ Enough(file) /\ file.removals = {}

\* An edit is sound for the plan it was worked out from; with nothing served beside it, that is the plan,
\* and for an import the ids are there that were when it began.
HeldIsSound == held # Idle =>
    /\ held.op = "write" => Sound(held.was, held.is) /\ Unlooped(held.was, held.is)
    /\ ~ held.overtaken => /\ held.was = plan
                           /\ held.op = "restore" => held.is \in Range(copies)
                           /\ held.op = "import" => IsImport(held.file)

IInv == Typed /\ HeldIsSound

\* Another request is served beside the one that is held.
LEMMA BesideKeeps ==
  ASSUME IInv, IsPlan(plan'), \A n \in DOMAIN copies' : IsPlan(copies'[n]), Beside
  PROVE  IInv' /\ (held # Idle => held' # Idle)
<1>1. CASE held = Idle
  <2>1. held' = Idle
    BY <1>1 DEF Beside
  <2> QED  BY <1>1, <2>1 DEF IInv, Typed, HeldIsSound
<1>2. CASE held # Idle
  <2>1. IsRequest(held) /\ held' = [held EXCEPT !.overtaken = TRUE]
    BY <1>2 DEF Beside, IInv, Typed
  <2>2. held' = [op |-> held.op, was |-> held.was, is |-> held.is, file |-> held.file, overtaken |-> TRUE]
    BY <2>1 DEF IsRequest
  <2>3. held'.op = held.op /\ held'.was = held.was /\ held'.is = held.is /\ held'.file = held.file /\ held'.overtaken = TRUE
    BY <2>2
  <2>4. held' # Idle
    <3>1. held.op # "none" /\ Idle.op = "none"
      BY <2>1 DEF IsRequest, Idle
    <3> QED  BY <2>3, <3>1
  <2>5. IsRequest(held')
    BY <2>1, <2>2, <2>3 DEF IsRequest
  <2>6. held.op = "write" => Sound(held.was, held.is) /\ Unlooped(held.was, held.is)
    BY <1>2 DEF IInv, HeldIsSound
  <2>7. Typed'
    BY <2>5 DEF Typed
  <2>8. HeldIsSound'
    <3>1. held'.op = "write" => Sound(held'.was, held'.is) /\ Unlooped(held'.was, held'.is)
      BY <2>3, <2>6, Zenon
    <3> QED  BY <2>3, <3>1 DEF HeldIsSound
  <2> QED  BY <2>4, <2>7, <2>8 DEF IInv
<1> QED  BY <1>1, <1>2

\* A request served in one go.
LEMMA AtOnceKeeps ==
  ASSUME IInv, NEW is, IsPlan(is), AtOnce(is)
  PROVE  IInv' /\ plan' = is /\ copies' = copies /\ UniqueKeys(is) /\ (held # Idle => held' # Idle)
<1>1. plan' = is /\ copies' = copies /\ Beside /\ UniqueKeys(is)
  BY DEF AtOnce
<1>2. IsPlan(plan')
  BY <1>1
<1>3. \A n \in DOMAIN copies' : IsPlan(copies'[n])
  <2>1. \A n \in DOMAIN copies : IsPlan(copies[n])
    BY DEF IInv, Typed
  <2> QED  BY <1>1, <2>1
<1> QED  BY <1>1, <1>2, <1>3, BesideKeeps

\* The ids that are left depend on the plans that a request may still write, and on nothing else.
LEMMA SpareStays ==
  ASSUME plan' = plan, Known' = Known
  PROVE  Spare' = Spare /\ \A file : IsImport(file) => IsImport(file)'
<1>1. Spare' = Spare
  BY DEF Spare
<1> QED  BY <1>1 DEF IsImport, Enough

\* A request begins.
LEMMA HoldKeeps ==
  ASSUME IInv, NEW op \in {"write", "import", "snapshot", "restore", "export"}, NEW is, IsPlan(is), NEW file, Hold(op, is, file),
         op = "write" => Sound(plan, is) /\ Unlooped(plan, is),
         op = "import" => file \in Files /\ IsImport(file) /\ is = plan,
         op = "restore" => is \in Range(copies)
  PROVE  IInv' /\ plan' = plan /\ copies' = copies /\ held = Idle
<1>1. held' = [op |-> op, was |-> plan, is |-> is, file |-> file, overtaken |-> FALSE] /\ plan' = plan /\ copies' = copies /\ held = Idle
  BY DEF Hold
<1>2. held'.op = op /\ held'.was = plan /\ held'.is = is /\ held'.file = file /\ held'.overtaken = FALSE
      /\ held' = [op |-> held'.op, was |-> held'.was, is |-> held'.is, file |-> held'.file, overtaken |-> held'.overtaken]
  BY <1>1
<1>3. IsRequest(held')
  BY <1>2 DEF IInv, Typed, IsRequest
<1>4. Typed'
  <2>1. IsPlan(plan) /\ \A n \in DOMAIN copies : IsPlan(copies[n])
    BY DEF IInv, Typed
  <2> QED  BY <1>1, <1>3, <2>1 DEF Typed
<1>5. op = "import" => IsImport(file) /\ Spare' = Spare
  <2> SUFFICES ASSUME op = "import"
               PROVE  IsImport(file) /\ Spare' = Spare
    OBVIOUS
  <2>1. held' # Idle
    BY <1>2 DEF Idle
  <2>2. Known' = {plan} \cup Range(copies) \cup {plan, plan}
    BY <1>1, <1>2, <2>1 DEF Known
  <2>3. Known = {plan} \cup Range(copies) \cup {}
    BY <1>1 DEF Known
  <2> QED  BY <1>1, <2>2, <2>3, SpareStays
<1>6. HeldIsSound'
  <2>1. held'.op = "import" => ValidRows(held'.file.rows) /\ held'.file.removals = {}
          /\ \A table \in {"feature", "story", "list"} : Cardinality(Spare'[table]) > Len(held'.file.rows)
    BY <1>2, <1>5 DEF IsImport, Enough
  <2> QED  BY <1>1, <1>2, <2>1 DEF HeldIsSound, IsImport, Enough
<1> QED  BY <1>1, <1>4, <1>6 DEF IInv

\* The request ends: the server is idle.
LEMMA IdleKeeps ==
  ASSUME IInv, held' = Idle, IsPlan(plan'), \A n \in DOMAIN copies' : IsPlan(copies'[n])
  PROVE  IInv'
BY DEF IInv, Typed, HeldIsSound

\* What a step that does not end an overtaken request does to the plan.
Kept ==
    \/ plan' = plan
    \/ copies' = copies /\ UniqueKeys(plan') /\ Sound(plan, plan')
    \/ plan' \in Range(copies)
    \/ plan' = Remapped(plan)

\* The requests of the forms and the board.
LEMMA RequestsKeep ==
  ASSUME IInv, StateSteps \/ FeatureSteps \/ BoardSteps \/ StorySteps \/ PiSteps
  PROVE  IInv' /\ Kept /\ (held # Idle => held' # Idle)
<1>0. IsPlan(plan)
  BY DEF IInv, Typed
<1>1. Edit \/ Rewrite
  BY <1>0, RequestsAreSound
<1>2. ASSUME NEW is, IsPlan(is), Sound(plan, is), AtOnce(is)
      PROVE  IInv' /\ Kept /\ (held # Idle => held' # Idle)
  BY <1>2, AtOnceKeeps DEF Kept
<1>3. ASSUME NEW is, IsPlan(is), Unlooped(plan, is), Sound(plan, is), Hold("write", is, NoFile)
      PROVE  IInv' /\ Kept /\ (held # Idle => held' # Idle)
  BY <1>3, HoldKeeps DEF Kept
<1>4. CASE Rewrite
  BY <1>2, <1>4 DEF Rewrite
<1>5. CASE Edit
  BY <1>2, <1>3, <1>5 DEF Edit, Serve
<1> QED  BY <1>1, <1>4, <1>5

\* The ids an import may give out are nobody's.
LEMMA SpareHasIds ==
  ASSUME NEW file, Enough(file)
  PROVE  Spares(plan, Spare, file)
<1>1. \A table \in {"feature", "story", "list"} : Spare[table] \subseteq Ids /\ Spare[table] \cap DOMAIN plan[table] = {}
  <2> SUFFICES ASSUME NEW table \in {"feature", "story", "list"}
               PROVE  Spare[table] \subseteq Ids /\ Spare[table] \cap DOMAIN plan[table] = {}
    OBVIOUS
  <2>1. Spare[table] = Ids \ UNION {Mentions(p, table) : p \in Known}
    BY DEF Spare, Tables
  <2>2. plan \in Known
    BY DEF Known
  <2>3. DOMAIN plan[table] \subseteq Mentions(plan, table)
    BY DEF Mentions
  <2> QED  BY <2>1, <2>2, <2>3
<1>2. Spare = [table \in Tables \ {"path"} |-> Spare[table]]
  BY DEF Spare
<1> QED  BY <1>1, <1>2 DEF Spares, Enough

\* An import in one go, or the begin of one.
LEMMA ImportCsvKeeps ==
  ASSUME IInv, ImportCsv
  PROVE  IInv' /\ Kept /\ (held # Idle => held' # Idle)
<1>0. IsPlan(plan)
  BY DEF IInv, Typed
<1>1. PICK file \in Files : /\ ValidRows(file.rows) /\ Enough(file)
                            /\ \/ \E preferred \in Continuations \cup {Nothing} : AtOnce(ExecuteImport(plan, file, Spare, preferred))
                               \/ file.removals = {} /\ Hold("import", plan, file)
  BY DEF ImportCsv
<1>2. file.rows \in Seq(FileRows) /\ Spares(plan, Spare, file)
  BY <1>1, FilesAssumption, SpareHasIds
<1>3. ASSUME NEW preferred, AtOnce(ExecuteImport(plan, file, Spare, preferred))
      PROVE  IInv' /\ Kept /\ (held # Idle => held' # Idle)
  <2> DEFINE is == ExecuteImport(plan, file, Spare, preferred)
  <2>1. ImportKeeps(plan, is)
    BY <1>0, <1>1, <1>2, ExecuteImportSound
  <2>2. AtOnce(is)
    BY <1>3
  <2> HIDE DEF is
  <2>3. IInv' /\ plan' = is /\ copies' = copies /\ UniqueKeys(is) /\ (held # Idle => held' # Idle)
    BY <2>1, <2>2, AtOnceKeeps DEF ImportKeeps
  <2> QED  BY <2>1, <2>3 DEF Kept, Sound, ImportKeeps
<1>4. CASE file.removals = {} /\ Hold("import", plan, file)
  BY <1>0, <1>1, <1>4, HoldKeeps DEF Kept, IsImport
<1> QED  BY <1>1, <1>3, <1>4

\* The end of an import: the maps may be older than the plan it writes to.
LEMMA FinishImportKeeps ==
  ASSUME IInv, FinishImport
  PROVE  IInv' /\ (Overtaken \/ Kept)
<1>1. /\ held # Idle /\ held.op = "import" /\ Enough(held.file)
      /\ UniqueKeys(plan') /\ held' = Idle /\ copies' = copies
  BY DEF FinishImport
<1>2. PICK preferred \in Continuations \cup {Nothing} :
        plan' = ImportRows(plan, held.file, FetchExisting(held.was), Spare, preferred)
  BY DEF FinishImport
<1>3. IsPlan(plan) /\ IsPlan(held.was) /\ held.overtaken \in BOOLEAN /\ held.file \in Files /\ \A n \in DOMAIN copies : IsPlan(copies[n])
  BY <1>1 DEF IInv, Typed, IsRequest
<1>4. held.file.rows \in Seq(FileRows) /\ Spares(plan, Spare, held.file)
  BY <1>1, <1>3, FilesAssumption, SpareHasIds
<1>5. IsPlan(plan')
  <2> DEFINE maps == FetchExisting(held.was)
             gone == DOMAIN held.was.feature \ DOMAIN plan.feature
             file == held.file
             q == ImportRows(plan, file, maps, Spare, preferred)
  <2>1. Matched(plan, maps, gone)
    <3>1. Matched(held.was, maps, {})
      BY <1>3, ExistingMatched
    <3> HIDE DEF maps
    <3> QED  BY <3>1 DEF Matched
  <2>2. file.rows \in Seq(FileRows) /\ Spares(plan, Spare, file)
    BY <1>4
  <2> HIDE DEF maps, gone, file
  <2>3. IsPlan(q)
    BY <1>3, <2>1, <2>2, RowsWork
  <2> QED  BY <1>2, <2>3 DEF maps, file
<1>6. IInv'
  <2>1. IsPlan(plan') /\ \A n \in DOMAIN copies' : IsPlan(copies'[n])
    BY <1>1, <1>3, <1>5
  <2> QED  BY <1>1, <2>1, IdleKeeps
<1>7. CASE held.overtaken
  BY <1>1, <1>6, <1>7 DEF Overtaken
<1>8. CASE ~ held.overtaken
  <2>1. held.was = plan /\ ValidRows(held.file.rows)
    BY <1>1, <1>8 DEF IInv, HeldIsSound, IsImport
  <2>2. ImportKeeps(plan, ImportRows(plan, held.file, FetchExisting(plan), Spare, preferred))
    BY <1>3, <1>4, <2>1, ImportRowsSound
  <2>3. ImportKeeps(plan, plan')
    BY <1>2, <2>1, <2>2
  <2> QED  BY <1>1, <1>6, <2>3 DEF Kept, ImportKeeps, Sound
<1> QED  BY <1>3, <1>7, <1>8

\* The commit of an edit: what it writes was worked out from what it read.
LEMMA CommitKeeps ==
  ASSUME IInv, Commit
  PROVE  IInv' /\ (Overtaken \/ Kept)
<1>1. /\ held # Idle /\ held.op = "write" /\ plan' = Flushed(plan, held.was, held.is)
      /\ UniqueKeys(plan') /\ held' = Idle /\ copies' = copies
  BY DEF Commit
<1>2. /\ IsPlan(plan) /\ IsPlan(held.was) /\ IsPlan(held.is) /\ held.overtaken \in BOOLEAN
      /\ Sound(held.was, held.is) /\ Unlooped(held.was, held.is) /\ \A n \in DOMAIN copies : IsPlan(copies[n])
  BY <1>1 DEF IInv, Typed, IsRequest, HeldIsSound
<1>3. IsPlan(Flushed(plan, held.was, held.is)) /\ Flushed(held.was, held.was, held.is) = held.is
  BY <1>2, PlanFlushed
<1>4. IInv'
  <2>1. IsPlan(plan') /\ \A n \in DOMAIN copies' : IsPlan(copies'[n])
    BY <1>1, <1>2, <1>3
  <2> QED  BY <1>1, <2>1, IdleKeeps
<1>5. CASE held.overtaken
  BY <1>1, <1>4, <1>5 DEF Overtaken
<1>6. CASE ~ held.overtaken
  <2>1. held.was = plan
    BY <1>1, <1>6 DEF IInv, HeldIsSound
  <2>2. plan' = held.is
    BY <1>1, <1>3, <2>1
  <2> QED  BY <1>1, <1>2, <1>4, <2>1, <2>2 DEF Kept
<1> QED  BY <1>2, <1>5, <1>6

\* A copy is a plan; of a project that nobody else wrote to, it is the plan.
LEMMA CopiesArePlans ==
  ASSUME IInv, held # Idle, NEW copy \in Copies
  PROVE  IsPlan(copy) /\ (~ held.overtaken => copy = plan)
<1>1. IsPlan(plan) /\ IsPlan(held.was) /\ held.overtaken \in BOOLEAN /\ (~ held.overtaken => held.was = plan)
  BY DEF IInv, Typed, HeldIsSound, IsRequest
<1>2. PICK n \in IF held.overtaken THEN 0 .. 5 ELSE {5} : copy = Serialized(held.was, plan, n)
  BY DEF Copies
<1>3. n \in 0 .. 5 /\ (~ held.overtaken => n = 5)
  BY <1>2
<1>4. IsPlan(Serialized(held.was, plan, n)) /\ Serialized(held.was, plan, 5) = held.was
  BY <1>1, <1>3, CopySerialized
<1> QED  BY <1>1, <1>2, <1>3, <1>4

\* A snapshot is stored.
LEMMA CopyStored ==
  ASSUME NEW n, NEW copy, copies' = With(copies, n, copy), IsPlan(copy), \A m \in DOMAIN copies : IsPlan(copies[m])
  PROVE  (\A m \in DOMAIN copies' : IsPlan(copies'[m])) /\ copy \in Range(copies')
<1>1. DOMAIN copies' = DOMAIN copies \cup {n} /\ copies'[n] = copy /\ \A m \in DOMAIN copies \ {n} : copies'[m] = copies[m]
  BY DEF With
<1>2. copy \in Range(copies')
  BY <1>1 DEF Range
<1> QED  BY <1>1, <1>2

\* A snapshot, a restore or an export begins.
LEMMA BeginsKeep ==
  ASSUME IInv, BeginSnapshot \/ BeginRestore \/ BeginExport
  PROVE  IInv' /\ plan' = plan /\ held = Idle
<1>0. IsPlan(plan) /\ \A n \in DOMAIN copies : IsPlan(copies[n]) /\ copies[n] \in Range(copies)
  BY DEF IInv, Typed, Range
<1>1. CASE BeginSnapshot
  <2>1. Hold("snapshot", plan, NoFile)
    BY <1>1 DEF BeginSnapshot
  <2> QED  BY <1>0, <2>1, HoldKeeps
<1>2. CASE BeginRestore
  <2>1. PICK n \in DOMAIN copies : Hold("restore", copies[n], NoFile)
    BY <1>2 DEF BeginRestore
  <2>2. IsPlan(copies[n]) /\ copies[n] \in Range(copies)
    BY <1>0
  <2> QED  BY <2>1, <2>2, HoldKeeps
<1>3. CASE BeginExport
  <2>1. Hold("export", plan, NoFile)
    BY <1>3 DEF BeginExport
  <2> QED  BY <1>0, <2>1, HoldKeeps
<1> QED  BY <1>1, <1>2, <1>3

\* A snapshot is deleted, beside a request or with none.
LEMMA DeleteSnapshotKeeps ==
  ASSUME IInv, DeleteSnapshot
  PROVE  IInv' /\ plan' = plan /\ (held # Idle => held' # Idle)
<1>0. IsPlan(plan) /\ \A n \in DOMAIN copies : IsPlan(copies[n])
  BY DEF IInv, Typed
<1>1. PICK n \in DOMAIN copies : copies' = Without(copies, {n}) /\ Beside /\ plan' = plan
  BY DEF DeleteSnapshot
<1>2. DOMAIN copies' \subseteq DOMAIN copies /\ \A m \in DOMAIN copies' : copies'[m] = copies[m]
  BY <1>1 DEF Without, Restrict
<1>3. \A m \in DOMAIN copies' : IsPlan(copies'[m])
  BY <1>0, <1>2
<1>4. IsPlan(plan')
  BY <1>0, <1>1
<1> QED  BY <1>1, <1>3, <1>4, BesideKeeps

\* A snapshot ends: what it has read is stored.
LEMMA FinishSnapshotKeeps ==
  ASSUME IInv, FinishSnapshot
  PROVE  IInv' /\ plan' = plan /\ (~ held.overtaken => plan \in Range(copies'))
<1>0. IsPlan(plan) /\ \A n \in DOMAIN copies : IsPlan(copies[n])
  BY DEF IInv, Typed
<1>1. PICK copy \in Copies, n \in FreeCopies : copies' = With(copies, n, copy)
  BY DEF FinishSnapshot
<1>2. held # Idle /\ held.op = "snapshot" /\ held' = Idle /\ plan' = plan
  BY DEF FinishSnapshot
<1>3. IsPlan(copy) /\ (~ held.overtaken => copy = plan)
  BY <1>2, CopiesArePlans
<1>4. (\A m \in DOMAIN copies' : IsPlan(copies'[m])) /\ copy \in Range(copies')
  BY <1>0, <1>1, <1>3, CopyStored
<1>5. IsPlan(plan')
  BY <1>0, <1>2
<1> QED  BY <1>2, <1>3, <1>4, <1>5, IdleKeeps

\* A restore ends: what it has read is stored for safety, then the copy replaces the plan.
LEMMA FinishRestoreKeeps ==
  ASSUME IInv, FinishRestore
  PROVE  IInv' /\ (~ held.overtaken => plan \in Range(copies') /\ plan' \in Range(copies))
<1>0. IsPlan(plan) /\ \A n \in DOMAIN copies : IsPlan(copies[n])
  BY DEF IInv, Typed
<1>1. PICK copy \in Copies, n \in FreeCopies : copies' = With(copies, n, copy)
  BY DEF FinishRestore
<1>2. held # Idle /\ held.op = "restore" /\ held' = Idle /\ plan' = Rebuilt(held.is)
  BY DEF FinishRestore
<1>3. IsPlan(copy) /\ (~ held.overtaken => copy = plan)
  BY <1>2, CopiesArePlans
<1>4. (\A m \in DOMAIN copies' : IsPlan(copies'[m])) /\ copy \in Range(copies')
  BY <1>0, <1>1, <1>3, CopyStored
<1>5. IsPlan(held.is) /\ (~ held.overtaken => held.is \in Range(copies))
  BY <1>2 DEF IInv, Typed, HeldIsSound, IsRequest
<1>6. plan' = held.is
  BY <1>2, <1>5, CopyRebuilt
<1>7. IsPlan(plan')
  BY <1>5, <1>6
<1> QED  BY <1>2, <1>3, <1>4, <1>5, <1>6, <1>7, IdleKeeps

\* The exported project is imported in the place of this one.
LEMMA ImportProjectKeeps ==
  ASSUME IInv, ImportProject
  PROVE  IInv' /\ (~ held.overtaken => plan' = Remapped(plan))
<1>1. PICK copy \in Copies : Importable(copy) /\ plan' = Remapped(Rebuilt(copy))
  BY DEF ImportProject
<1>2. held # Idle /\ held.op = "export" /\ held' = Idle /\ copies' = <<>>
  BY DEF ImportProject
<1>3. IsPlan(copy) /\ (~ held.overtaken => copy = plan)
  BY <1>2, CopiesArePlans
<1>4. plan' = Remapped(copy)
  BY <1>1, <1>3, CopyRebuilt
<1>5. IsPlan(plan')
  BY <1>3, <1>4, CopyRemapped
<1>6. \A m \in DOMAIN copies' : IsPlan(copies'[m])
  BY <1>2
<1> QED  BY <1>2, <1>3, <1>4, <1>5, <1>6, IdleKeeps

\* All that is done with copies.
LEMMA CopiesKeep ==
  ASSUME IInv, CopySteps
  PROVE  IInv' /\ (Overtaken \/ Kept)
<1>0. held # Idle => held.overtaken \in BOOLEAN
  BY DEF IInv, Typed, IsRequest
<1>1. CASE BeginSnapshot \/ BeginRestore \/ BeginExport
  BY <1>1, BeginsKeep DEF Kept
<1>2. CASE DeleteSnapshot
  BY <1>2, DeleteSnapshotKeeps DEF Kept
<1>3. CASE FinishSnapshot
  BY <1>3, FinishSnapshotKeeps DEF Kept
<1>4. CASE FinishRestore
  <2>1. held # Idle /\ held' = Idle
    BY <1>4 DEF FinishRestore
  <2> QED  BY <1>0, <1>4, <2>1, FinishRestoreKeeps DEF Kept, Overtaken
<1>5. CASE ImportProject
  <2>1. held # Idle /\ held' = Idle
    BY <1>5 DEF ImportProject
  <2> QED  BY <1>0, <1>5, <2>1, ImportProjectKeeps DEF Kept, Overtaken
<1> QED  BY <1>1, <1>2, <1>3, <1>4, <1>5 DEF CopySteps

\* A request that fails leaves nothing.
LEMMA FailKeeps ==
  ASSUME IInv, Fail
  PROVE  IInv' /\ plan' = plan /\ copies' = copies
<1>0. IsPlan(plan) /\ \A n \in DOMAIN copies : IsPlan(copies[n])
  BY DEF IInv, Typed
<1>1. held' = Idle /\ plan' = plan /\ copies' = copies
  BY DEF Fail
<1>2. IsPlan(plan') /\ \A n \in DOMAIN copies' : IsPlan(copies'[n])
  BY <1>0, <1>1
<1> QED  BY <1>1, <1>2, IdleKeeps

\* Every step keeps the invariant, and unless it ends an overtaken request it does to the plan one of four things.
LEMMA StepKeeps ==
  ASSUME IInv, [Next]_vars
  PROVE  IInv' /\ (Overtaken \/ Kept)
<1>1. CASE StateSteps \/ FeatureSteps \/ BoardSteps \/ StorySteps \/ PiSteps
  BY <1>1, RequestsKeep
<1>2. CASE ImportCsv
  BY <1>2, ImportCsvKeeps
<1>3. CASE FinishImport
  BY <1>3, FinishImportKeeps
<1>4. CASE CopySteps
  BY <1>4, CopiesKeep
<1>5. CASE Commit
  BY <1>5, CommitKeeps
<1>6. CASE Fail
  BY <1>6, FailKeeps DEF Kept
<1>7. CASE UNCHANGED vars
  <2>1. plan' = plan /\ copies' = copies /\ held' = held
    BY <1>7 DEF vars
  <2>2. Known' = Known
    BY <2>1 DEF Known
  <2>3. IInv'
    BY <2>1, <2>2, SpareStays DEF IInv, Typed, HeldIsSound
  <2> QED  BY <2>1, <2>3 DEF Kept
<1> QED  BY <1>1, <1>2, <1>3, <1>4, <1>5, <1>6, <1>7 DEF Next, ImportSteps, Ends

\* A project imported under new ids is as good as the one it was exported from.
LEMMA RemappedSound ==
  ASSUME NEW p, IsPlan(p)
  PROVE  LET q == Remapped(p)
         IN (Distinct(p) => Distinct(q)) /\ (Stands(p) => Stands(q)) /\ (Stands(p) /\ Dated(p) => Dated(q))
<1> DEFINE features == [f \in DOMAIN p.feature |->
                      [p.feature[f] EXCEPT !.state = Remap(@, DOMAIN p.list),
                                           !.pi = Remap(@, DOMAIN p.pi),
                                           !.origin = Remap(@, DOMAIN p.feature)]]
           stories == [s \in DOMAIN p.story |-> [p.story[s] EXCEPT !.state = Remap(@, DOMAIN p.list)]]
           q == Remapped(p)
<1>1. q.feature = features /\ q.story = stories /\ q.list = p.list /\ q.pi = p.pi /\ q.path = p.path
  BY DEF Remapped, IsPlan, Tables
<1>2. \A f \in DOMAIN p.feature : p.feature[f] \in FeatureRows
  BY PlanTables
<1>3. \A s \in DOMAIN p.story : p.story[s] \in StoryRows
  BY PlanTables
<1>4. ASSUME NEW f \in DOMAIN p.feature
      PROVE  /\ features[f].uid = p.feature[f].uid /\ features[f].state = Remap(p.feature[f].state, DOMAIN p.list)
             /\ features[f].pi = Remap(p.feature[f].pi, DOMAIN p.pi)
  BY <1>2 DEF FeatureRows
<1>5. ASSUME NEW s \in DOMAIN p.story
      PROVE  /\ stories[s].uid = p.story[s].uid /\ stories[s].state = Remap(p.story[s].state, DOMAIN p.list)
             /\ stories[s].feature = p.story[s].feature /\ stories[s].kind = p.story[s].kind /\ stories[s].date = p.story[s].date
  BY <1>3 DEF StoryRows
<1>6. DOMAIN features = DOMAIN p.feature /\ DOMAIN stories = DOMAIN p.story
  OBVIOUS
<1> HIDE DEF q, features, stories
<1>7. Stands(p) => /\ \A f \in DOMAIN p.feature : features[f].state = p.feature[f].state /\ features[f].pi = p.feature[f].pi
                   /\ \A s \in DOMAIN p.story : stories[s].state = p.story[s].state
  BY <1>4, <1>5 DEF Stands, IsStateFor, ListOf, Remap
<1>8. Stands(p) => Stands(q)
  BY <1>1, <1>5, <1>6, <1>7 DEF Stands, IsStateFor, ListOf
<1>9. Stands(p) /\ Dated(p) => Dated(q)
  BY <1>1, <1>5, <1>6, <1>7 DEF Dated, IsDone
<1>10. ASSUME Distinct(p)
       PROVE  Distinct(q)
  <2>1. ASSUME NEW x \in ({"feature"} \X DOMAIN q.feature) \cup ({"story"} \X DOMAIN q.story)
        PROVE  /\ x \in ({"feature"} \X DOMAIN p.feature) \cup ({"story"} \X DOMAIN p.story)
               /\ q[x[1]][x[2]].uid = p[x[1]][x[2]].uid
    BY <1>1, <1>4, <1>5, <1>6
  <2>2. InProgress(q) = InProgress(p)
    BY <1>1 DEF InProgress
  <2>3. \A x, y \in ({"feature"} \X DOMAIN q.feature) \cup ({"story"} \X DOMAIN q.story) :
           q[x[1]][x[2]].uid = q[y[1]][y[2]].uid /\ q[x[1]][x[2]].uid # Nothing => x = y
    <3> SUFFICES ASSUME NEW x \in ({"feature"} \X DOMAIN q.feature) \cup ({"story"} \X DOMAIN q.story),
                        NEW y \in ({"feature"} \X DOMAIN q.feature) \cup ({"story"} \X DOMAIN q.story),
                        q[x[1]][x[2]].uid = q[y[1]][y[2]].uid, q[x[1]][x[2]].uid # Nothing
                 PROVE  x = y
      OBVIOUS
    <3>1. p[x[1]][x[2]].uid = p[y[1]][y[2]].uid /\ p[x[1]][x[2]].uid # Nothing
      BY <2>1
    <3>2. /\ x \in ({"feature"} \X DOMAIN p.feature) \cup ({"story"} \X DOMAIN p.story)
          /\ y \in ({"feature"} \X DOMAIN p.feature) \cup ({"story"} \X DOMAIN p.story)
      BY <2>1
    <3> QED  BY <1>10, <3>1, <3>2 DEF Distinct
  <2> QED  BY <1>1, <1>10, <2>2, <2>3 DEF Distinct
<1> QED  BY <1>8, <1>9, <1>10 DEF q

-----------------------------------------------------------------------------
(* The theorems                                                            *)

\* The plans to start from.
LEMMA InitHolds ==
  ASSUME Init
  PROVE  IInv
<1>1. IsPlan(plan) /\ copies = <<>> /\ held = Idle
  BY SeedsAssumption DEF Init
<1> QED  BY <1>1 DEF IInv, Typed, HeldIsSound

\* The ids that an import may give out are none that a feature continues.
LEMMA SpareIsUnnamed ==
  \A f \in DOMAIN plan.feature : plan.feature[f].origin \notin Spare.feature
<1>1. Spare.feature = Ids \ UNION {Mentions(p, "feature") : p \in Known}
  BY DEF Spare, Tables
<1>2. Mentions(plan, "feature") = DOMAIN plan.feature \cup
        ({plan.story[s].feature : s \in DOMAIN plan.story} \cup {plan.feature[f].origin : f \in DOMAIN plan.feature})
  BY DEF Mentions
<1>3. plan \in Known
  BY DEF Known
<1> QED  BY <1>1, <1>2, <1>3

\* What the invariant of a held import is for.
LEMMA HeldImportSettles ==
  ASSUME IInv
  PROVE  ImportSettles
<1> DEFINE file == held.file
           once == ExecuteImport(plan, file, Spare, Nothing)
           left(q) == [t \in DOMAIN Spare |-> Spare[t] \ DOMAIN q[t]]
<1> SUFFICES ASSUME held # Idle, held.op = "import", ~ held.overtaken, Indices(file.rows) = DOMAIN file.rows, Distinct(plan), Stands(plan)
             PROVE  ExecuteImport(once, file, left(once), Nothing) = once
  BY DEF ImportSettles
<1>1. Identified(file) /\ Spares(plan, Spare, file) /\ file.removals = {} /\ IsPlan(plan)
  <2>1. IsPlan(plan) /\ file \in Files /\ IsImport(file)
    BY DEF IInv, Typed, HeldIsSound, IsRequest
  <2> HIDE DEF file
  <2> QED  BY <2>1, FilesAssumption, SpareHasIds DEF Identified, IsImport
<1>2. \A q : left(q) = [table \in Tables \ {"path"} |-> left(q)[table]]
  BY <1>1 DEF Spares
<1> HIDE DEF file, left
<1> DEFINE q == once
<1>3. q = ExecuteImport(plan, file, Spare, Nothing)
  OBVIOUS
<1>4. ExecuteImport(q, file, left(q), Nothing) = q
  <2> DEFINE ids == left(q)
             spare == Spare
             p == plan
  <2>1. ids = [table \in Tables \ {"path"} |-> ids[table]]
    BY <1>2
  <2>2. IsPlan(p) /\ Distinct(p) /\ Stands(p) /\ Spares(p, spare, file) /\ q = ExecuteImport(p, file, spare, Nothing)
        /\ \A f \in DOMAIN p.feature : p.feature[f].origin \notin spare.feature
    BY <1>1, <1>3, SpareIsUnnamed
  <2> HIDE DEF q, once, ids, spare, p
  <2>3. Settled(q, file)
    BY <1>1, <2>2, ImportRepeats
  <2>4. ExecuteImport(q, file, ids, Nothing) = q
    BY <2>1, <2>3 DEF Settled
  <2> QED  BY <2>4 DEF ids
<1> QED  BY <1>4

\* Whatever is served, in one go or beside a request that is held, overtaken or refused, the tables
\* stay tables of the schema, in which no feature continues itself, however far.
THEOREM PlansTyped == Spec => []IInv
<1>1. Init => IInv
  BY InitHolds
<1>2. IInv /\ [Next]_vars => IInv'
  BY StepKeeps
<1> QED  BY <1>1, <1>2, PTL DEF Spec

\* Only a request that was overtaken between its reads and its commit makes a double: of a business
\* id, a place in a State List, an iteration path or a PI in progress.
THEOREM DoublesTakeARace == Spec => DoublesOnlyByRaces
<1>1. IInv /\ [Next]_vars => [(\A p \in {plan} \cup Range(copies) : Distinct(p)) => Distinct(plan') \/ Overtaken]_vars
  <2> SUFFICES ASSUME IInv, [Next]_vars, \A p \in {plan} \cup Range(copies) : Distinct(p), ~ Overtaken
               PROVE  Distinct(plan')
    OBVIOUS
  <2>1. Kept /\ IsPlan(plan) /\ Distinct(plan)
    BY StepKeeps DEF IInv, Typed
  <2>2. CASE plan' = plan
    BY <2>1, <2>2
  <2>3. CASE UniqueKeys(plan') /\ Sound(plan, plan')
    BY <2>1, <2>3 DEF Sound
  <2>4. CASE plan' \in Range(copies)
    BY <2>4
  <2>5. CASE plan' = Remapped(plan)
    BY <2>1, <2>5, RemappedSound
  <2> QED  BY <2>1, <2>2, <2>3, <2>4, <2>5 DEF Kept
<1> QED  BY <1>1, PlansTyped, PTL DEF Spec, DoublesOnlyByRaces

\* Only an overtaken request leaves a story without its feature, an item with a State that is gone or
\* of another kind's list, or a feature on the board of a PI that is gone.
THEOREM RowsStand == Spec => ItemsStandOnLiveRows
<1>1. IInv /\ [Next]_vars => [(\A p \in {plan} \cup Range(copies) : Stands(p)) => Stands(plan') \/ Overtaken]_vars
  <2> SUFFICES ASSUME IInv, [Next]_vars, \A p \in {plan} \cup Range(copies) : Stands(p), ~ Overtaken
               PROVE  Stands(plan')
    OBVIOUS
  <2>1. Kept /\ IsPlan(plan) /\ Stands(plan)
    BY StepKeeps DEF IInv, Typed
  <2>2. CASE plan' = plan
    BY <2>1, <2>2
  <2>3. CASE Sound(plan, plan')
    BY <2>1, <2>3 DEF Sound
  <2>4. CASE plan' \in Range(copies)
    BY <2>4
  <2>5. CASE plan' = Remapped(plan)
    BY <2>1, <2>5, RemappedSound
  <2> QED  BY <2>1, <2>2, <2>3, <2>4, <2>5 DEF Kept
<1> QED  BY <1>1, PlansTyped, PTL DEF Spec, ItemsStandOnLiveRows

\* While no State is marked done or not done, the stories with a completion date stay those whose
\* State is done, through forms, switches of kind, imports and restores, unless a request is overtaken.
THEOREM DatesFollow == Spec => DatesFollowTheStates
<1>1. IInv /\ [Next]_vars =>
        [(\A p \in {plan} \cup Range(copies) : Dated(p) /\ Stands(p)) /\ (copies' = copies => StatesKeepTheirDone)
           => Dated(plan') \/ Overtaken]_vars
  <2> SUFFICES ASSUME IInv, [Next]_vars, \A p \in {plan} \cup Range(copies) : Dated(p) /\ Stands(p),
                      copies' = copies => StatesKeepTheirDone, ~ Overtaken
               PROVE  Dated(plan')
    OBVIOUS
  <2>1. Kept /\ IsPlan(plan) /\ Stands(plan) /\ Dated(plan)
    BY StepKeeps DEF IInv, Typed
  <2>2. CASE plan' = plan
    BY <2>1, <2>2
  <2>3. CASE copies' = copies /\ Sound(plan, plan')
    <3>1. DoneKept(plan, plan')
      BY <2>3 DEF DoneKept, StatesKeepTheirDone
    <3> QED  BY <2>1, <2>3, <3>1 DEF Sound
  <2>4. CASE plan' \in Range(copies)
    BY <2>4
  <2>5. CASE plan' = Remapped(plan)
    BY <2>1, <2>5, RemappedSound
  <2> QED  BY <2>1, <2>2, <2>3, <2>4, <2>5 DEF Kept
<1> QED  BY <1>1, PlansTyped, PTL DEF Spec, DatesFollowTheStates

\* With no request beside it, a snapshot is the plan, a restore keeps the plan it replaces and brings
\* back a copy as it was, and a project imported from its own export is the project again.
THEOREM CopiesWhole == Spec => CopiesAreWhole
<1> DEFINE Whole ==
      held # Idle /\ ~ held.overtaken /\ held' = Idle =>
         /\ held.op \in {"snapshot", "restore"} /\ copies' # copies => plan \in Range(copies')
         /\ held.op = "restore" /\ copies' # copies => plan' \in Range(copies)
         /\ held.op = "export" /\ Stands(plan) /\ (\A f \in DOMAIN plan.feature : plan.feature[f].origin \in DOMAIN plan.feature \cup {Nothing})
              => plan' = plan
<1>1. IInv /\ [Next]_vars => [Whole]_vars
  <2> SUFFICES ASSUME IInv, Next, held # Idle, ~ held.overtaken, held' = Idle
               PROVE  Whole
    OBVIOUS
  <2>0. IsPlan(plan)
    BY DEF IInv, Typed
  <2>1. ~ (StateSteps \/ FeatureSteps \/ BoardSteps \/ StorySteps \/ PiSteps \/ ImportCsv)
    BY RequestsKeep, ImportCsvKeeps
  <2>2. ~ (BeginSnapshot \/ BeginRestore \/ BeginExport \/ DeleteSnapshot)
    BY BeginsKeep, DeleteSnapshotKeeps
  <2>3. CASE FinishImport
    BY <2>3 DEF FinishImport
  <2>4. CASE Commit
    BY <2>4 DEF Commit
  <2>5. CASE Fail
    BY <2>5 DEF Fail
  <2>6. CASE FinishSnapshot
    <3>1. held.op = "snapshot" /\ plan \in Range(copies')
      BY <2>6, FinishSnapshotKeeps DEF FinishSnapshot
    <3> QED  BY <3>1
  <2>7. CASE FinishRestore
    <3>1. held.op = "restore" /\ plan \in Range(copies') /\ plan' \in Range(copies)
      BY <2>7, FinishRestoreKeeps DEF FinishRestore
    <3> QED  BY <3>1
  <2>8. CASE ImportProject
    <3>1. held.op = "export" /\ plan' = Remapped(plan)
      BY <2>8, ImportProjectKeeps DEF ImportProject
    <3>2. Stands(plan) /\ (\A f \in DOMAIN plan.feature : plan.feature[f].origin \in DOMAIN plan.feature \cup {Nothing})
            => Remapped(plan) = plan
      BY <2>0, CopyRemapped
    <3> QED  BY <3>1, <3>2
  <2> QED  BY <2>1, <2>2, <2>3, <2>4, <2>5, <2>6, <2>7, <2>8 DEF Next, ImportSteps, CopySteps, Ends
<1> HIDE DEF Whole
<1>2. Spec => [][Whole]_vars
  BY <1>1, PlansTyped, PTL DEF Spec
<1> QED  BY <1>2 DEF CopiesAreWhole, Whole

\* While an import is held, its file, where every row has an ID, would change nothing if it were
\* imported again at its end: neither a State, a feature, a story or the placeholder is made twice, nor
\* is anything renamed, moved, placed or dated otherwise than the first time.
THEOREM ImportsSettle == Spec => []ImportSettles
<1>1. IInv => ImportSettles
  BY HeldImportSettles
<1> QED  BY <1>1, PlansTyped, PTL

\* An import that was held and that nobody overtook leaves a plan that its file changes no more,
\* whatever ids the second import may give out and whichever newest features either prefers.
THEOREM FinishedImportsSettle ==
  Spec => [][FinishImport /\ ~ held.overtaken /\ Indices(held.file.rows) = DOMAIN held.file.rows /\ Distinct(plan) /\ Stands(plan)
               => Settled(plan', held.file)]_vars
<1> DEFINE Done == FinishImport /\ ~ held.overtaken /\ Indices(held.file.rows) = DOMAIN held.file.rows /\ Distinct(plan) /\ Stands(plan)
                     => Settled(plan', held.file)
<1>1. IInv /\ [Next]_vars => [Done]_vars
  <2> SUFFICES ASSUME IInv, FinishImport, ~ held.overtaken, Indices(held.file.rows) = DOMAIN held.file.rows, Distinct(plan), Stands(plan)
               PROVE  Settled(plan', held.file)
    OBVIOUS
  <2> DEFINE file == held.file
             p == plan
             q == plan'
             spare == Spare
  <2>1. held # Idle /\ held.op = "import"
    BY DEF FinishImport
  <2>2. IsPlan(plan) /\ held.was = plan /\ file \in Files /\ IsImport(file)
    BY <2>1 DEF IInv, Typed, HeldIsSound, IsRequest
  <2>3. PICK preferred : plan' = ImportRows(plan, file, FetchExisting(plan), Spare, preferred)
    BY <2>2 DEF FinishImport
  <2> HIDE DEF file
  <2>4. Identified(file) /\ Spares(plan, Spare, file) /\ file.removals = {}
    BY <2>2, FilesAssumption, SpareHasIds DEF Identified, IsImport, file
  <2>5. plan' = ExecuteImport(plan, file, Spare, preferred)
    BY <2>2, <2>3, <2>4, NothingRemoved DEF ExecuteImport
  <2>6. IsPlan(p) /\ Distinct(p) /\ Stands(p) /\ Spares(p, spare, file) /\ q = ExecuteImport(p, file, spare, preferred)
        /\ \A f \in DOMAIN p.feature : p.feature[f].origin \notin spare.feature
    BY <2>2, <2>4, <2>5, SpareIsUnnamed
  <2> HIDE DEF p, q, spare
  <2>7. Settled(q, file)
    BY <2>4, <2>6, ImportRepeats
  <2> QED  BY <2>7 DEF q, file
<1> HIDE DEF Done
<1>2. Spec => [][Done]_vars
  BY <1>1, PlansTyped, PTL DEF Spec
<1> QED  BY <1>2 DEF Done
=============================================================================
