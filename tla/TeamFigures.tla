---------------------------- MODULE TeamFigures ----------------------------
(***************************************************************************)
(* What a team's pages compute from its records: the capacity view         *)
(* (services/team_capacity_report.py), the preview of a push               *)
(* (services/team_push.py), the holidays in a PI's sprint headers          *)
(* (routes/team_holidays.py) and the achievement grid                      *)
(* (services/achievement_report.py), over the pure maths they share        *)
(* (occurrences.py, sprint_days.py, team_capacity.py, achievement.py).     *)
(*                                                                         *)
(* A day is a number, day 0 a Monday. Hours are whole minutes and focus,   *)
(* shares and weights whole hundredths, efforts whole half points, so that *)
(* figures compare exactly; a figure in person-days is one in net minutes  *)
(* divided by a constant.                                                  *)
(***************************************************************************)
EXTENDS Integers, FiniteSets, Sequences, SequencesExt

CONSTANTS Teams,     \* the teams with all their records, as records of sets
          Windows,   \* <<from, to>> of a request, or NoWindow
          NoWindow, NoDay, None

VARIABLES team,      \* the records the requests read
          shown      \* the last answer: its page, its window, its figures

vars == <<team, shown>>

Halves == {"am", "pm"}
OtherHalf(h) == IF h = "am" THEN "pm" ELSE "am"
Weekday(d) == d % 7
Smaller(a, b) == IF a < b THEN a ELSE b
Larger(a, b) == IF a > b THEN a ELSE b
Sum(f) == SumFunction(f)

LastDay(rule) == IF rule.end = NoDay THEN rule.start ELSE rule.end

Days == Int \cup {NoDay}
IsShare(share) == share.unit \in {"pct", "days"} /\ share.n \in Nat

\* schemas/absence.py, schemas/holiday.py: a recurring rule names a weekday, and a range of
\* one day does not end in the morning when it starts in the afternoon.
IsSchedule(rule) ==
    /\ rule.start \in Int /\ rule.end \in Days
    /\ rule.kind \notin {"range", "sprint"} => rule.weekday \in 0 .. 6
    /\ rule.kind = "interval" => rule.weeks \in Nat \ {0}

IsRule(rule) ==
    /\ IsSchedule(rule)
    /\ IF rule.kind = "range"
       THEN /\ rule.startHalf \in Halves /\ rule.endHalf \in Halves
            /\ rule.start = LastDay(rule) => ~ (rule.startHalf = "pm" /\ rule.endHalf = "am")
       ELSE rule.kind # "sprint" /\ rule.halves \subseteq Halves

\* models/team.py, schemas/team.py: a member has a version, one to a date; one project at
\* most takes the remaining capacity, and it is the whole team's.
IsTeam(t) ==
    /\ IsFiniteSet(DOMAIN t.members) /\ IsFiniteSet(t.meetings) /\ IsFiniteSet(DOMAIN t.projects)
    /\ \A m \in DOMAIN t.members : LET own == t.members[m].versions IN
         /\ IsFiniteSet(own) /\ own # {}
         /\ \A v \in own : v.from \in Int /\ v.halfDay \in Nat /\ v.focus \in Nat /\ IsFiniteSet(v.worked)
         /\ \A v, u \in own : v.from = u.from => v = u
    /\ \A k \in t.meetings : k.minutes \in Nat /\ k.half \in Halves /\ IsSchedule(k)
    /\ \A a \in t.absences : IsRule(a.rule)
    /\ \A e \in t.holidays : IsRule(e.rule) /\ e.rule.kind = "range" /\ e.rule.end \in Int
    /\ t.sprints \in Seq([start : Days, end : Days, closed : BOOLEAN])
    /\ \A p \in DOMAIN t.projects : LET a == t.projects[p] IN
         /\ IsShare(a.share) /\ \A m \in DOMAIN a.listed : a.listed[m] = None \/ IsShare(a.listed[m])
         /\ a.remaining => a.all /\ \A q \in DOMAIN t.projects : t.projects[q].remaining => q = p
    /\ t.items \in Seq([on : Days, effort : Nat])

ASSUME TeamsAssumption == \A t \in Teams : IsTeam(t)
ASSUME NothingAssumption == NoDay \notin Int /\ None \notin Int

-----------------------------------------------------------------------------
(* services/occurrences.py: the days of a rule inside a window             *)

RangeDays(rule, w) == Larger(rule.start, w[1]) .. Smaller(LastDay(rule), w[2])

Step(rule) == IF rule.kind = "interval" THEN 7 * rule.weeks ELSE 7

\* Mutant: the steps to skip are rounded down and one too many is then taken off the start.
RecurringDaysFromWindow(rule, w) ==
    LET first == w[1] + ((rule.weekday - Weekday(w[1])) % 7)
        stop == IF rule.end = NoDay THEN w[2] ELSE Smaller(w[2], rule.end)
    IN {d \in Larger(first, rule.start) .. stop : (d - first) % Step(rule) = 0}

\* The first occurrence in the window is found by a division rounded up.
RecurringDays(rule, w) ==
    LET first == rule.start + ((rule.weekday - Weekday(rule.start)) % 7)
        stop == IF rule.end = NoDay THEN w[2] ELSE Smaller(w[2], rule.end)
        skipped == -((-(w[1] - first)) \div Step(rule))
        day == IF w[1] > first THEN first + skipped * Step(rule) ELSE first
    IN {day + n * Step(rule) : n \in 0 .. (stop - day) \div Step(rule)}

OccurrenceDays(rule, w) == IF w[2] < w[1] THEN {}
                           ELSE IF rule.kind = "range" THEN RangeDays(rule, w)
                           ELSE RecurringDays(rule, w)

\* A range opens at start_half and closes at end_half; a recurring rule names its halves.
HalfDays(rule, w) ==
    IF rule.kind # "range" THEN OccurrenceDays(rule, w) \X rule.halves
    ELSE {x \in OccurrenceDays(rule, w) \X Halves :
            IF x[1] = rule.start /\ rule.startHalf = "pm" THEN x[2] = "pm"
            ELSE x[1] = LastDay(rule) /\ rule.endHalf = "am" => x[2] = "am"}

-----------------------------------------------------------------------------
(* services/sprint_days.py and meetings.py                                 *)

Dated(sprint) == sprint.start # NoDay /\ sprint.end # NoDay
Calendar == {s \in ToSet(team.sprints) : Dated(s)}

WorkingDays(sprint) == {d \in sprint.start .. sprint.end : Weekday(d) < 5}

\* The working day so many in from the edge, if the sprint is that long.
SprintDay(sprint, edge, offset) ==
    {d \in WorkingDays(sprint) :
        offset = Cardinality({e \in WorkingDays(sprint) : IF edge = "first" THEN e < d ELSE e > d})}

SprintDays(edge, offset) == UNION {SprintDay(s, edge, offset) : s \in Calendar}

BoundaryDays(skip) == UNION {SprintDays(edge, 0) : edge \in IF skip = "none" THEN {}
                                       ELSE IF skip = "both" THEN {"first", "last"} ELSE {skip}}

RuleDays(k, w) ==
    IF k.kind # "sprint" THEN OccurrenceDays(k, w)
    ELSE {d \in SprintDays(k.edge, k.offset) :
            /\ Larger(w[1], k.start) <= d
            /\ d <= IF k.end = NoDay THEN w[2] ELSE Smaller(w[2], k.end)}

Skip(k) == IF k.kind \in {"weekly", "interval"} THEN k.skip ELSE "none"

OccurrencesOf(k, w) == RuleDays(k, w) \ BoundaryDays(Skip(k))

\* The minutes that start in each half of a day; booked at once, they add up.
MeetingsOn(m, d, w) ==
    [h \in Halves |-> Sum([k \in {k \in team.meetings : k.half = h /\ m \in k.attendees /\ d \in OccurrencesOf(k, w)} |-> k.minutes])]

-----------------------------------------------------------------------------
(* services/absences.py and holidays.py: who is off when                   *)

Absent(m, d, h, w) == \E a \in team.absences : a.member = m /\ <<d, h>> \in HalfDays(a.rule, w)

\* Entries of the enabled calendars that touch the window.
TeamHolidays(w) == {e \in team.holidays : e.enabled /\ e.rule.start <= w[2] /\ e.rule.end >= w[1]}

Works(m, e, d) == <<m, d>> \in e.exceptions

\* Mutant: an exception to one holiday lets the member work through all of them.
OnHolidayUnlessExcepted(m, d, h, w) ==
    /\ \E e \in TeamHolidays(w) : <<d, h>> \in HalfDays(e.rule, w)
    /\ \A e \in TeamHolidays(w) : ~ Works(m, e, d)

\* Any entry that covers the half and has no exception for the member.
OnHoliday(m, d, h, w) == \E e \in TeamHolidays(w) : <<d, h>> \in HalfDays(e.rule, w) /\ ~ Works(m, e, d)

-----------------------------------------------------------------------------
(* services/team_capacity.py                                               *)

Versions(m) == team.members[m].versions

\* The first version extends backwards; otherwise the last that has begun.
ResolveVersion(m, d) ==
    LET begun == {v \in Versions(m) : v.from <= d}
    IN IF begun = {} THEN CHOOSE v \in Versions(m) : \A u \in Versions(m) : v.from <= u.from
       ELSE CHOOSE v \in begun : \A u \in begun : u.from <= v.from

ActiveOn(m, d) == /\ team.members[m].from # NoDay => d >= team.members[m].from
                  /\ team.members[m].to # NoDay => d <= team.members[m].to

Owes(m, d, h) == <<Weekday(d), h>> \in ResolveVersion(m, d).worked

\* Mutant: minutes are clamped to the half they start in.
ChargeHalf(room, minutes, h) == [room EXCEPT ![h] = @ - Smaller(@, minutes)]

\* Minutes are taken from the half they start in, then spill into the other.
Charge(room, minutes, h) ==
    LET here == Smaller(room[h], minutes)
        there == Smaller(room[OtherHalf(h)], minutes - here)
    IN [room EXCEPT ![h] = @ - here, ![OtherHalf(h)] = @ - there]

\* What meetings leave of the day; those that start in a half that is off cost nothing.
AfterMeetings(room, present, starts, first) ==
    LET one == IF first \in present THEN Charge(room, starts[first], first) ELSE room
        h == OtherHalf(first)
    IN IF h \in present THEN Charge(one, starts[h], h) ELSE one

\* compute_member_capacity, a day of it: a half that is both a holiday and an absence is one.
DayFigures(version, owed, holiday, absent, starts) ==
    LET present == owed \ (holiday \cup absent)
        room == [h \in Halves |-> IF h \in present THEN version.halfDay ELSE 0]
        left == AfterMeetings(room, present, starts, "am")
    IN [contracted |-> Cardinality(owed), holiday |-> Cardinality(holiday),
        absent |-> Cardinality(holiday \cup absent),
        net |-> (left["am"] + left["pm"]) * version.focus, version |-> version]

DayCapacity(m, d, w) ==
    LET owed == {h \in Halves : Owes(m, d, h)}
    IN DayFigures(ResolveVersion(m, d), owed, {h \in owed : OnHoliday(m, d, h, w)},
                  {h \in owed : Absent(m, d, h, w)}, MeetingsOn(m, d, w))

Totals(m, of) ==
    [contracted |-> Sum([d \in DOMAIN of |-> of[d].contracted]), holiday |-> Sum([d \in DOMAIN of |-> of[d].holiday]),
     absent |-> Sum([d \in DOMAIN of |-> of[d].absent]), net |-> Sum([d \in DOMAIN of |-> of[d].net]),
     byVersion |-> [v \in Versions(m) |-> Sum([d \in {d \in DOMAIN of : of[d].version = v} |-> of[d].net])]]

MemberCapacity(m, s, w) == Totals(m, [d \in {e \in s.start .. s.end : ActiveOn(m, e)} |-> DayCapacity(m, d, w)])

Members == DOMAIN team.members
Counting == {m \in Members : team.members[m].counts}

-----------------------------------------------------------------------------
(* services/assignment_scope.py: what a project gets of a member           *)

CountsFor(p, m) == team.projects[p].all \/ m \in DOMAIN team.projects[p].listed

FixedShare(p, m) == LET own == team.projects[p].listed IN
    IF m \in DOMAIN own /\ own[m] # None THEN own[m] ELSE team.projects[p].share

\* The hundredths of a version's hours that a share takes; a booking of days takes at most all.
WeightOf(share, v) ==
    IF share.unit = "pct" THEN share.n
    ELSE LET halves == Cardinality(v.worked)
         IN IF halves = 0 THEN 0 ELSE Smaller(100, (200 * share.n) \div halves)

Fixed(m) == {p \in DOMAIN team.projects : ~ team.projects[p].remaining /\ CountsFor(p, m)}

\* Mutant: the remainder is what the assignments' own shares leave, whoever they count.
WeightOfAssignments(p, m, v) ==
    IF team.projects[p].remaining
    THEN Larger(0, 100 - Sum([q \in {q \in DOMAIN team.projects : ~ team.projects[q].remaining} |-> WeightOf(team.projects[q].share, v)]))
    ELSE WeightOf(FixedShare(p, m), v)

\* The remaining project takes what the other projects leave of each member.
Weight(p, m, v) ==
    IF team.projects[p].remaining
    THEN Larger(0, 100 - Sum([q \in Fixed(m) |-> WeightOf(FixedShare(q, m), v)]))
    ELSE WeightOf(FixedShare(p, m), v)

SharedMinutes(p, m, capacity) ==
    Sum([v \in Versions(m) |-> capacity.byVersion[v] * Weight(p, m, v)])

\* is_uniform_pct: every counted member gives the same percentage.
Uniform(p) == LET a == team.projects[p] IN
    a.share.unit = "pct" /\ ~ a.remaining /\ \A m \in DOMAIN a.listed : a.listed[m] = None

ProjectMinutes(p, capacities) ==
    IF Uniform(p)
    THEN team.projects[p].share.n * Sum([m \in {m \in Counting : CountsFor(p, m)} |-> capacities[m].net])
    ELSE Sum([m \in {m \in Counting : CountsFor(p, m)} |-> SharedMinutes(p, m, capacities[m])])

-----------------------------------------------------------------------------
(* The pages                                                               *)

\* An undated sprint keeps its column as long as no window is asked for.
InWindow(s, w) == IF w = NoWindow THEN TRUE
                  ELSE Dated(s) /\ s.start <= w[2] /\ s.end >= w[1]

Columns(w) == {i \in DOMAIN team.sprints : InWindow(team.sprints[i], w)}
DatedColumns(w) == {i \in Columns(w) : Dated(team.sprints[i])}

\* Records are expanded once, over the span the columns cover together.
Span(cols) == <<Min({team.sprints[i].start : i \in cols}), Max({team.sprints[i].end : i \in cols})>>

Cells(cols, who) == [i \in cols |-> [m \in who |-> MemberCapacity(m, team.sprints[i], Span(cols))]]
Shares(p, cell) == [i \in DOMAIN cell |-> ProjectMinutes(p, cell[i])]

Report(cell) == [cells |-> cell, projects |-> [p \in DOMAIN team.projects |-> Shares(p, cell)]]
BuildReport(w) == Report(Cells(DatedColumns(w), Members))

\* The preview leaves out the sprints of closed PIs, and the members the project does not count.
ComputeRows(p, w) == Shares(p, Cells({i \in DatedColumns(w) : ~ team.sprints[i].closed}, {n \in Members : CountsFor(p, n)}))

\* Mutant: whose contract the holiday falls on is not looked at.
CostsTimeToAnyone(e, s, w) == \E x \in HalfDays(e.rule, <<s.start, s.end>>), m \in Counting :
    ActiveOn(m, x[1]) /\ ~ Works(m, e, x[1])

CostsTime(e, s, w) == \E x \in HalfDays(e.rule, <<s.start, s.end>>), m \in Counting :
    ActiveOn(m, x[1]) /\ ~ Works(m, e, x[1]) /\ Owes(m, x[1], x[2])

\* get_pi_holidays: the PI's sprints are here all of the team's.
PiHolidays ==
    LET cols == DatedColumns(NoWindow)
    IN [i \in cols |-> {e \in TeamHolidays(Span(cols)) : CostsTime(e, team.sprints[i], Span(cols))}]

\* The sprint a completion belongs to: the earliest-starting that contains it, the first of equals.
Attribute(day, cols) ==
    LET holds == {i \in cols : team.sprints[i].start <= day /\ day <= team.sprints[i].end}
        earliest == {i \in holds : \A j \in holds : team.sprints[i].start <= team.sprints[j].start}
    IN IF holds = {} THEN None ELSE Min(earliest)

\* Mutant: attribution over the columns on screen.
AchievementOnScreen(w) ==
    LET dated == {i \in DOMAIN team.items : team.items[i].on # NoDay}
        cell == [i \in dated |-> Attribute(team.items[i].on, DatedColumns(w))]
    IN [achieved |-> [c \in DatedColumns(w) |-> Sum([i \in {i \in dated : cell[i] = c} |-> team.items[i].effort])],
        outside |-> Sum([i \in {i \in dated : cell[i] = None} |-> team.items[i].effort]),
        undated |-> Cardinality(DOMAIN team.items \ dated)]

\* Attribution is over the whole calendar whatever the window shows.
Achievement(w) ==
    LET dated == {i \in DOMAIN team.items : team.items[i].on # NoDay}
        cell == [i \in dated |-> Attribute(team.items[i].on, DatedColumns(NoWindow))]
    IN [achieved |-> [c \in DatedColumns(w) |-> Sum([i \in {i \in dated : cell[i] = c} |-> team.items[i].effort])],
        outside |-> Sum([i \in {i \in dated : cell[i] = None} |-> team.items[i].effort]),
        undated |-> Cardinality(DOMAIN team.items \ dated)]

\* The latest closed sprints in which something was measured and time was given.
Latest(n, given, achieved) ==
    LET usable == {c \in DOMAIN given : team.sprints[c].closed /\ given[c] > 0}
        before(c, d) == LET s == team.sprints[c]
                            t == team.sprints[d]
                        IN s.start < t.start \/ (s.start = t.start /\ (s.end < t.end \/ (s.end = t.end /\ c < d)))
        later(c) == {d \in usable : before(c, d)}
        chosen == {c \in usable : Cardinality(later(c)) < n}
    IN [points |-> Sum([c \in chosen |-> achieved[c]]), minutes |-> Sum([c \in chosen |-> given[c]]), sprints |-> chosen]
Velocity(p, n) == Latest(n, BuildReport(NoWindow).projects[p], Achievement(NoWindow).achieved)

Answer(page, w, figures) == [page |-> page, window |-> w, figures |-> figures]
Nothing == Answer("none", NoWindow, None)

Init == team \in Teams /\ shown = Nothing

Show(answer) == shown = Nothing /\ shown' = answer /\ UNCHANGED team

GetCapacity == \E w \in Windows : Show(Answer("capacity", w, BuildReport(w)))
PreviewPush == \E p \in DOMAIN team.projects, w \in Windows :
                 Show(Answer("push", w, [project |-> p, rows |-> ComputeRows(p, w)]))
GetPiHolidays == Show(Answer("headers", NoWindow, PiHolidays))
GetTeamAchievement == \E w \in Windows : Show(Answer("achievement", w, Achievement(w)))
GetProjectVelocity == \E p \in DOMAIN team.projects, n \in 1..2 : Show(Answer("velocity", NoWindow, [n |-> n, of |-> Velocity(p, n)]))
Leave == shown # Nothing /\ shown' = Nothing /\ UNCHANGED team

Next == GetCapacity \/ PreviewPush \/ GetPiHolidays \/ GetTeamAchievement \/ GetProjectVelocity \/ Leave

Spec == Init /\ [][Next]_vars
-----------------------------------------------------------------------------
(* Properties                                                              *)

\* A rule day by day: the days of a range, the weeks since the first matching day otherwise.
OnDay(rule, d) ==
    IF rule.kind = "range" THEN rule.start <= d /\ d <= LastDay(rule)
    ELSE \E n \in 0 .. d - rule.start, first \in rule.start .. rule.start + 6 :
           Weekday(first) = rule.weekday /\ d = first + n * Step(rule) /\ (rule.end # NoDay => d <= rule.end)

\* A range by the position of its half-days.
Covers(rule, d, h) ==
    LET half(day, part) == 2 * day + (IF part = "pm" THEN 1 ELSE 0) IN
    IF rule.kind = "range"
    THEN half(rule.start, rule.startHalf) <= half(d, h) /\ half(d, h) <= half(LastDay(rule), rule.endHalf)
    ELSE h \in rule.halves /\ OnDay(rule, d)

Held(k, d) == LET always == <<k.start, IF k.end = NoDay THEN d ELSE k.end>> IN
    /\ IF k.kind = "sprint" THEN d \in RuleDays(k, always) ELSE OnDay(k, d)
    /\ d \notin BoundaryDays(Skip(k))

OffWork(m, d, h) == \/ \E a \in team.absences : a.member = m /\ Covers(a.rule, d, h)
                    \/ \E e \in team.holidays : e.enabled /\ Covers(e.rule, d, h) /\ ~ Works(m, e, d)

\* Of the halves worked, less the meetings that start in one of them, never below nothing.
NetOf(m, d) ==
    LET there == {h \in Halves : ActiveOn(m, d) /\ Owes(m, d, h) /\ ~ OffWork(m, d, h)}
        booked == Sum([k \in {k \in team.meetings : m \in k.attendees /\ k.half \in there /\ Held(k, d)} |-> k.minutes])
        v == ResolveVersion(m, d)
    IN Larger(0, Cardinality(there) * v.halfDay - booked) * v.focus

Given(p, s) == Sum([m \in {m \in Counting : CountsFor(p, m)} |-> Sum([d \in s.start .. s.end |-> NetOf(m, d) * Weight(p, m, ResolveVersion(m, d))])])

\* services/occurrences.py, assignment_scope.py: whatever the window, the capacity view
\* and the preview of a push give each sprint what its days say one by one; and a sprint
\* header names a holiday exactly when somebody's contracted time falls on one.
PagesAgree ==
    /\ shown.page = "capacity" => \A i \in DOMAIN shown.figures.cells :
         /\ \A m \in Members : shown.figures.cells[i][m].net = Sum([d \in team.sprints[i].start .. team.sprints[i].end |-> NetOf(m, d)])
         /\ \A p \in DOMAIN team.projects : shown.figures.projects[p][i] = Given(p, team.sprints[i])
    /\ shown.page = "push" => \A i \in DOMAIN shown.figures.rows :
         shown.figures.rows[i] = Given(shown.figures.project, team.sprints[i])
    /\ shown.page = "headers" => \A i \in DOMAIN shown.figures : LET s == team.sprints[i] IN
         shown.figures[i] # {} <=> \E m \in Counting : MemberCapacity(m, s, <<s.start, s.end>>).holiday > 0

\* assignment_scope.py: with a remaining project, the projects that count everybody share
\* out all of a member's time, and no more unless the others alone are booked past it.
RemainderTakesTheRest == shown.page = "capacity" =>
    LET booked(m, v) == Sum([q \in Fixed(m) |-> WeightOf(FixedShare(q, m), v)])
        fits == \A m \in Counting, v \in UNION {Versions(n) : n \in Members} : booked(m, v) <= 100
    IN (\E p \in DOMAIN team.projects : team.projects[p].remaining) => \A i \in DOMAIN shown.figures.cells :
         LET out == Sum([p \in DOMAIN team.projects |-> shown.figures.projects[p][i]])
             all == 100 * Sum([m \in Counting |-> shown.figures.cells[i][m].net])
         IN out >= all /\ (fits => out = all)

\* services/achievement.py: every dated completion counts in one sprint or outside the
\* calendar, and a window hides sprints but moves no point from one to another.
PointsLandOnce == shown.page = "achievement" =>
    LET dated == {i \in DOMAIN team.items : team.items[i].on # NoDay}
        holds(c, i) == Dated(team.sprints[c]) /\ team.sprints[c].start <= team.items[i].on /\ team.items[i].on <= team.sprints[c].end
        before(b, c) == team.sprints[b].start < team.sprints[c].start \/ (team.sprints[b].start = team.sprints[c].start /\ b < c)
        mine(c) == {i \in dated : holds(c, i) /\ \A b \in DOMAIN team.sprints : holds(b, i) => ~ before(b, c)}
        points(S) == Sum([i \in S |-> team.items[i].effort])
    IN /\ \A c \in DOMAIN shown.figures.achieved : shown.figures.achieved[c] = points(mine(c))
       /\ shown.window = NoWindow =>
            shown.figures.outside + Sum([c \in DOMAIN shown.figures.achieved |-> shown.figures.achieved[c]]) = points(dated)
=============================================================================
