--------------------------- MODULE MCTeamFigures ---------------------------
\* Teams for TeamFigures: schedules, holidays, shares and completions, each varied alone.
EXTENDS TeamFigures

CONSTANTS m1, m2, p1, p2, p3

Full == (0..4) \X Halves
Part == {0, 1} \X Halves
Version(from, worked, focus) == [from |-> from, worked |-> worked, halfDay |-> 4, focus |-> focus]
MemberOf(versions, counts) == [from |-> NoDay, to |-> NoDay, counts |-> counts, versions |-> versions]

RangeOf(s, sh, e, eh) == [kind |-> "range", start |-> s, end |-> e, startHalf |-> sh, endHalf |-> eh]
Weekly(s, e, day, halves) == [kind |-> "weekly", start |-> s, end |-> e, weekday |-> day, halves |-> halves]
Interval(s, e, day, halves, n) == [kind |-> "interval", start |-> s, end |-> e, weekday |-> day, halves |-> halves, weeks |-> n]

Sprint(s, e, closed) == [start |-> s, end |-> e, closed |-> closed]
Weeks == <<Sprint(0, 6, TRUE), Sprint(7, 13, TRUE), Sprint(NoDay, NoDay, FALSE), Sprint(14, 20, FALSE)>>

Pct(n) == [unit |-> "pct", n |-> n]
InDays(n) == [unit |-> "days", n |-> n]
Project(share, all, listed, remaining) == [share |-> share, all |-> all, listed |-> listed, remaining |-> remaining]
Alone == [p \in {p1} |-> Project(Pct(100), TRUE, <<>>, FALSE)]

Team(members, absences, holidays, meetings, sprints, projects, items) ==
    [members |-> members, absences |-> absences, holidays |-> holidays, meetings |-> meetings,
     sprints |-> sprints, projects |-> projects, items |-> items]

OneMember == [m \in {m1} |-> MemberOf({Version(0, Full, 100)}, TRUE)]

Rules == {RangeOf(3, "pm", 9, "am"), RangeOf(8, "am", 8, "am"), Weekly(-9, NoDay, 2, {"am"}), Weekly(4, 15, 1, Halves)}
    \cup {Interval(s, NoDay, d, {"pm"}, n) : s \in {-16, -3, 1}, d \in {0, 3}, n \in {2, 3}}

Placed(k, half, minutes, skip) == k @@ [half |-> half, minutes |-> minutes, skip |-> skip, attendees |-> {m1}]
OnSprintDay(edge, offset, half) ==
    Placed([kind |-> "sprint", start |-> 2, end |-> NoDay, edge |-> edge, offset |-> offset], half, 3, "none")

Meetings == {Placed(Weekly(-9, NoDay, 4, {}), "am", 6, skip) : skip \in {"none", "first", "last", "both"}}
    \cup {Placed(Interval(-9, NoDay, 0, {}, 2), "pm", 3, "first"), Placed(RangeOf(6, "am", 8, "pm"), "pm", 10, "both")}
    \cup {OnSprintDay("first", 0, "am"), OnSprintDay("last", 1, "pm"), OnSprintDay("last", 6, "am")}

Schedules == {Team(OneMember, {[member |-> m1, rule |-> r]}, {}, K, Weeks, Alone, <<>>) :
                r \in Rules, K \in {{k, Placed(Weekly(0, NoDay, 4, {}), "pm", 1, "none")} : k \in Meetings}}

TwoMembers == [m \in {m1, m2} |-> IF m = m1 THEN MemberOf({Version(0, Full, 100), Version(9, Part, 50)}, TRUE)
                                ELSE [MemberOf({Version(-5, Part, 100)}, TRUE) EXCEPT !.from = 1]]

Entry(rule, on, exceptions) == [rule |-> rule, enabled |-> on, exceptions |-> exceptions]

Holidays == {Team(TwoMembers, {[member |-> m1, rule |-> RangeOf(4, "am", 7, "am")]}, {Entry(RangeOf(4, "pm", 8, "am"), TRUE, E),
                Entry(RangeOf(d, "am", d, "pm"), on, F)}, {Placed(Weekly(0, NoDay, 1, {}), "am", 6, "none")}, Weeks, Alone, <<>>) :
                E \in SUBSET ({m1, m2} \X {7, 8}), d \in {5, 7, 10}, on \in BOOLEAN, F \in SUBSET {<<m1, 7>>, <<m2, 7>>}}

Splits == {Team([TwoMembers EXCEPT ![m2].counts = counts], {}, {}, {}, Weeks,
             [p \in {p1, p2, p3} |-> IF p = p1 THEN Project(s, all, [m \in {m1} |-> own], FALSE)
                                 ELSE IF p = p2 THEN Project(Pct(n), TRUE, <<>>, FALSE)
                                 ELSE Project(Pct(100), TRUE, <<>>, rest)], <<>>) :
             counts \in BOOLEAN, s \in {Pct(60), InDays(1)}, all \in BOOLEAN, own \in {None, InDays(2), Pct(30)},
             n \in {10, 50}, rest \in BOOLEAN}

Calendars == {Weeks, <<Sprint(7, 13, TRUE), Sprint(0, 8, TRUE), Sprint(7, 9, FALSE)>>,
              <<Sprint(NoDay, NoDay, TRUE), Sprint(14, 20, TRUE), Sprint(5, 5, FALSE)>>}
Completions == {Team(OneMember, {}, {}, {}, s, Alone, [i \in 1..2 |-> IF i = 1 THEN [on |-> d, effort |-> 3] ELSE [on |-> e, effort |-> 5]]) :
                  s \in Calendars, d \in {NoDay, 0, 6, 7, 8, 13, 21}, e \in {5, 9, 14}}

AllTeams == Schedules \cup Holidays \cup Splits \cup Completions
AllWindows == {NoWindow, <<7, 20>>, <<9, 9>>}
=============================================================================
