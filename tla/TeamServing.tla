----------------------------- MODULE TeamServing -----------------------------
(***************************************************************************)
(* Which projects a team serves, and the sprint calendar they must share   *)
(* (backend/app/routes/team_projects.py, services/sprint_alignment.py).    *)
(*                                                                         *)
(* Team routes take no edit lock.  A request reads what it checks with     *)
(* plain SELECTs, which hold no lock in SQLite, and writes in a later      *)
(* transaction: from the first flushed statement to the commit it is the   *)
(* one `writer`, and nobody else may write.                                *)
(*                                                                         *)
(* A span is the dates of a sprint; one dated half is as good as undated.  *)
(* PATCH and DELETE quote the ETag of the row: a request whose tag is old  *)
(* changes nothing and is left out.                                        *)
(***************************************************************************)
EXTENDS Naturals, FiniteSets

CONSTANTS
  Clients,      \* requests that can be under way at once
  Teams,
  Projects,
  Pis,          \* program increments
  Owner,        \* the project each belongs to
  Numbers,      \* the sprint indices of a PI
  Spans,        \* the dates a sprint can have, [from, to]
  Planned,      \* the dates of every sprint at the start, held by a snapshot
  MaxProjects   \* MAX_PROJECTS_PER_TEAM

Undated == [from |-> 0, to |-> 0]
Dates == Spans \cup {Undated}
Calendars == [Pis -> [Numbers -> Dates]]

ASSUME KindsAssumption == Teams \cap Projects = {}
ASSUME OwnerAssumption == Owner \in [Pis -> Projects]
ASSUME SpansAssumption == Spans \subseteq [from : Nat \ {0}, to : Nat \ {0}]
ASSUME PlannedAssumption == Planned \in Calendars
ASSUME MaxProjectsAssumption == MaxProjects \in Nat

-----------------------------------------------------------------------------
(* Sprint alignment. *)

\* Some dated sprint of PI a begins before, or as, some sprint of b ends.
BeginsBeforeEnd(dates, a, b) ==
  \E m, n \in Numbers :
    /\ dates[a][m] # Undated
    /\ dates[b][n] # Undated
    /\ dates[a][m].from <= dates[b][n].to

\* PIWindow.overlaps.  A PI without a dated sprint takes part with the dates
\* of its header in the code, and then has no sprint to disagree about.
Overlap(dates, a, b) == BeginsBeforeEnd(dates, a, b) /\ BeginsBeforeEnd(dates, b, a)

Disagree(dates, a, b) ==
  \E n \in Numbers :
    /\ dates[a][n] # Undated
    /\ dates[b][n] # Undated
    /\ dates[a][n] # dates[b][n]

\* conflicts_between: sprints of one index differ in two PIs that overlap.
Conflict(dates, p, q) ==
  /\ p # q
  /\ \E a, b \in Pis :
       /\ Owner[a] = p
       /\ Owner[b] = q
       /\ Overlap(dates, a, b)
       /\ Disagree(dates, a, b)

-----------------------------------------------------------------------------
VARIABLES
  living,    \* the teams and projects that exist
  assigned,  \* team_projects
  calendar,  \* the dates of the sprints
  writer,    \* the request that holds the database's write lock
  request

vars == <<living, assigned, calendar, writer, request>>

Nobody == "nobody"

ASSUME NobodyAssumption == Nobody \notin Clients

Rows == [team : Teams, project : Projects, remaining : BOOLEAN]

Idle == [op |-> "idle"]

\* `overtaken` is history: another write was committed since the check.
Requests ==
  {Idle}
  \cup [op : {"assign"}, at : {"checked", "flushed"}, row : Rows, overtaken : BOOLEAN]
  \cup [op : {"patch", "unassign"}, row : Rows]
  \cup [op : {"delete_team"}, team : Teams, overtaken : BOOLEAN]
  \cup [op : {"dates"}, project : Projects, dates : Calendars]

\* The request has flushed a statement and not committed yet.
Open(r) == r.op = "dates" \/ (r.op = "assign" /\ r.at = "flushed")

TypeOK ==
  /\ living \subseteq Teams \cup Projects
  /\ assigned \subseteq Rows
  /\ calendar \in Calendars
  /\ writer \in Clients \cup {Nobody}
  /\ request \in [Clients -> Requests]
  /\ \A c \in Clients : Open(request[c]) <=> writer = c

Init ==
  /\ living = Teams \cup Projects
  /\ assigned = {}
  /\ calendar = Planned
  /\ writer = Nobody
  /\ request = [c \in Clients |-> Idle]

-----------------------------------------------------------------------------
ServedBy(t) == {r \in assigned : r.team = t}

\* The projects of the team, p aside, that disagree with p.
ConflictsOf(dates, t, p) == {r \in ServedBy(t) : Conflict(dates, p, r.project)}

\* _check_remaining_free; also what the partial unique index admits.
RemainingFree(row) ==
  row.remaining =>
    \A r \in ServedBy(row.team) : r.remaining => r.project = row.project

\* Mutant: no unique index on project_id.
AdmittedAgain(row) == RemainingFree(row)

\* What the two unique indexes let in.
Admitted(row) ==
  /\ \A r \in assigned : r.project # row.project
  /\ RemainingFree(row)

Begin(c, r) == request[c] = Idle /\ request' = [request EXCEPT ![c] = r]

Overtake(r) ==
  IF r.op \in {"assign", "delete_team"} THEN [r EXCEPT !.overtaken = TRUE] ELSE r

Same(r, s) == r.team = s.team /\ r.project = s.project

\* A request on a row that has been deleted can only fail.
Orphan(r, rows) ==
  r.op \in {"patch", "unassign"} /\ ~\E s \in rows : Same(r.row, s)

\* Request c is answered and `rows` are the assignments from now on: what it
\* committed overtakes the checks of the others.
Committed(c, rows) ==
  /\ assigned' = rows
  /\ request' = [d \in Clients |->
       IF d = c \/ Orphan(request[d], rows) THEN Idle ELSE Overtake(request[d])]

Answered(c) == request' = [request EXCEPT ![c] = Idle]

-----------------------------------------------------------------------------
\* Mutant: a project may join whatever its sprint dates.
AssignCheckNoDates(c, row) ==
  /\ {row.team, row.project} \subseteq living
  /\ \A r \in assigned : r.project # row.project
  /\ Cardinality(ServedBy(row.team)) < MaxProjects
  /\ RemainingFree(row)
  /\ Begin(c, [op |-> "assign", at |-> "checked", row |-> row, overtaken |-> FALSE])
  /\ UNCHANGED <<living, assigned, calendar, writer>>

\* POST .../projects up to its last SELECT: every check it makes.
AssignCheck(c, row) ==
  /\ {row.team, row.project} \subseteq living
  /\ \A r \in assigned : r.project # row.project
  /\ Cardinality(ServedBy(row.team)) < MaxProjects
  /\ ConflictsOf(calendar, row.team, row.project) = {}
  /\ RemainingFree(row)
  /\ Begin(c, [op |-> "assign", at |-> "checked", row |-> row, overtaken |-> FALSE])
  /\ UNCHANGED <<living, assigned, calendar, writer>>

\* `await db.flush()`: the INSERT, refused by an index if another got in first.
AssignFlush(c) ==
  /\ request[c].op = "assign"
  /\ request[c].at = "checked"
  /\ writer = Nobody
  /\ \/ /\ Admitted(request[c].row)
        /\ writer' = c
        /\ request' = [request EXCEPT ![c].at = "flushed"]
     \/ /\ ~Admitted(request[c].row)
        /\ Answered(c)
        /\ UNCHANGED writer
  /\ UNCHANGED <<living, assigned, calendar>>

\* The scope is written and the transaction committed.
AssignCommit(c) ==
  /\ request[c].op = "assign"
  /\ request[c].at = "flushed"
  /\ writer' = Nobody
  /\ Committed(c, assigned \cup {request[c].row})
  /\ UNCHANGED <<living, calendar>>

\* PATCH .../projects/{project_id} that takes the remaining capacity or gives
\* it up; one that does neither changes nothing here.
Flipped(row) == [row EXCEPT !.remaining = ~row.remaining]

PatchCheck(c, row) ==
  /\ {row.team, row.project} \subseteq living
  /\ row \in assigned
  /\ RemainingFree(Flipped(row))
  /\ Begin(c, [op |-> "patch", row |-> row])
  /\ UNCHANGED <<living, assigned, calendar, writer>>

PatchCommit(c) ==
  LET new == Flipped(request[c].row) IN
  /\ request[c].op = "patch"
  /\ writer = Nobody
  /\ \/ /\ RemainingFree(new)
        /\ Committed(c, {r \in assigned : ~Same(r, new)} \cup {new})
     \/ /\ ~RemainingFree(new)
        /\ Answered(c)
        /\ UNCHANGED assigned
  /\ UNCHANGED <<living, calendar, writer>>

\* DELETE .../projects/{project_id}.  Nothing is written to the project, but
\* the answer is read with it: a row whose project is gone is not found.
UnassignCheck(c, row) ==
  /\ {row.team, row.project} \subseteq living
  /\ row \in assigned
  /\ Begin(c, [op |-> "unassign", row |-> row])
  /\ UNCHANGED <<living, assigned, calendar, writer>>

UnassignCommit(c) ==
  /\ request[c].op = "unassign"
  /\ writer = Nobody
  /\ Committed(c, {r \in assigned : ~Same(r, request[c].row)})
  /\ UNCHANGED <<living, calendar, writer>>

-----------------------------------------------------------------------------
\* Mutant: the projects are not asked for.
DeleteTeamCheckNothing(c, t) ==
  /\ t \in living
  /\ Begin(c, [op |-> "delete_team", team |-> t, overtaken |-> FALSE])
  /\ UNCHANGED <<living, assigned, calendar, writer>>

\* DELETE /teams/{team_id}: refused while the team serves a project that
\* exists, for the query joins the projects ...
DeleteTeamCheck(c, t) ==
  /\ t \in living
  /\ \A r \in ServedBy(t) : r.project \notin living
  /\ Begin(c, [op |-> "delete_team", team |-> t, overtaken |-> FALSE])
  /\ UNCHANGED <<living, assigned, calendar, writer>>

\* ... and then deleted with the assignments the ORM's cascade finds by now,
\* those of projects that are gone among them.
DeleteTeamCommit(c) ==
  /\ request[c].op = "delete_team"
  /\ writer = Nobody
  /\ living' = living \ {request[c].team}
  /\ Committed(c, assigned \ ServedBy(request[c].team))
  /\ UNCHANGED <<calendar, writer>>

\* Mutant: the assignment is left to a cascade that does not exist.
DeleteProjectOnly(p) ==
  /\ p \in living
  /\ writer = Nobody
  /\ living' = living \ {p}
  /\ calendar' = [i \in Pis |-> IF Owner[i] = p THEN [n \in Numbers |-> Undated]
                                ELSE calendar[i]]
  /\ Committed(Nobody, assigned)
  /\ UNCHANGED writer

\* DELETE /projects/{project_id}: one transaction from its first statement on.
DeleteProject(p) ==
  /\ p \in living
  /\ writer = Nobody
  /\ living' = living \ {p}
  /\ calendar' = [i \in Pis |-> IF Owner[i] = p THEN [n \in Numbers |-> Undated]
                                ELSE calendar[i]]
  /\ Committed(Nobody, {r \in assigned : r.project # p})
  /\ UNCHANGED writer

-----------------------------------------------------------------------------
\* PATCH /sprints/{id}: the new dates are flushed before the alignment check,
\* which so reads what no other writer can change until the commit.
DatesFlush(c, i, n, d) ==
  /\ Owner[i] \in living
  /\ writer = Nobody
  /\ writer' = c
  /\ Begin(c, [op |-> "dates", project |-> Owner[i],
               dates |-> [calendar EXCEPT ![i][n] = d]])
  /\ UNCHANGED <<living, assigned, calendar>>

\* Mutant: the check reads the dates as they were.
MisalignedBefore(dates, p) ==
  \E r \in assigned : r.project = p /\ ConflictsOf(calendar, r.team, p) # {}

\* _refuse_misalignment: the projects of the same team are the siblings.
Misaligned(dates, p) ==
  \E r \in assigned : r.project = p /\ ConflictsOf(dates, r.team, p) # {}

DatesCommit(c) ==
  /\ request[c].op = "dates"
  /\ writer' = Nobody
  /\ \/ /\ ~Misaligned(request[c].dates, request[c].project)
        /\ calendar' = request[c].dates
        /\ Committed(c, assigned)
     \/ /\ Misaligned(request[c].dates, request[c].project)
        /\ Answered(c)
        /\ UNCHANGED <<calendar, assigned>>
  /\ UNCHANGED living

\* POST .../snapshots/{id}/restore: the PIs are rebuilt with the dates they had.
Restore(p) ==
  /\ p \in living
  /\ writer = Nobody
  /\ calendar' = [i \in Pis |-> IF Owner[i] = p THEN Planned[i] ELSE calendar[i]]
  /\ Committed(Nobody, assigned)
  /\ UNCHANGED <<living, writer>>

Next ==
  \/ \E c \in Clients :
       \/ \E row \in Rows : AssignCheck(c, row) \/ PatchCheck(c, row) \/ UnassignCheck(c, row)
       \/ AssignFlush(c)
       \/ AssignCommit(c)
       \/ PatchCommit(c)
       \/ UnassignCommit(c)
       \/ \E t \in Teams : DeleteTeamCheck(c, t)
       \/ DeleteTeamCommit(c)
       \/ \E i \in Pis, n \in Numbers, d \in Dates : DatesFlush(c, i, n, d)
       \/ DatesCommit(c)
  \/ \E p \in Projects : DeleteProject(p) \/ Restore(p)

Spec == Init /\ [][Next]_vars

-----------------------------------------------------------------------------
(* What the teams rely on. *)

\* A project has one assignment at most, and a team one project that takes the
\* remaining capacity, though both are checked long before they are written.
OneTeamOneRemainder ==
  \A r, s \in assigned :
    /\ r.project = s.project => r = s
    /\ r.team = s.team /\ r.remaining /\ s.remaining => r = s

Aligned ==
  \A r, s \in assigned : r.team = s.team => ~Conflict(calendar, r.project, s.project)

OvertakenAssignment ==
  \E c \in Clients : request[c].op = "assign" /\ request[c].overtaken
                     /\ request'[c] = Idle

\* Projects of one team stop sharing their sprint calendar only by a restore,
\* or by an assignment during which somebody else wrote: no edit of a sprint,
\* whatever runs beside it, and no undisturbed assignment breaks alignment.
AlignmentIsKept ==
  [][Aligned => \/ Aligned'
                \/ OvertakenAssignment
                \/ \E p \in Projects : Restore(p)]_vars

\* An edit of sprint dates that is accepted leaves its project in agreement
\* with every other project of its team, even if it was not before.
AcceptedDatesAgree ==
  [][\A c \in Clients :
       request[c].op = "dates" /\ calendar' # calendar /\ request'[c] = Idle
         => \A r, s \in assigned :
              r.project = request[c].project /\ r.team = s.team
                => ~Conflict(calendar', r.project, s.project)]_vars

\* Every assignment names a team and a project that exist.
NoStrayRows == \A r \in assigned : {r.team, r.project} \subseteq living

\* Only an assignment overtaken by the deletion leaves a row behind that names
\* a team or a project that is gone; no route unassigns it any more, it goes
\* with its team at best.
RowsResolve == [][NoStrayRows => NoStrayRows' \/ OvertakenAssignment]_vars

\* Deleting a team takes the team from no project that exists, but for one
\* assigned after the check: what goes along are rows of projects that are gone.
NobodyLosesTheirTeam ==
  [][\A c \in Clients :
       request[c].op = "delete_team" /\ request'[c] = Idle /\ ~request[c].overtaken
         => \A r \in assigned \ assigned' : r.project \notin living]_vars

=============================================================================
