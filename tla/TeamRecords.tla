---------------------------- MODULE TeamRecords ----------------------------
(***************************************************************************)
(* The records of one team: members with their dated working patterns,     *)
(* absences, meetings and who attends them (routes/team_members.py,        *)
(* absences.py, meetings.py). No edit lock guards them. A write of a row   *)
(* that exists quotes the ETag of the row as its client read it            *)
(* (services/concurrency.py), which is compared with the row as the        *)
(* handler reads it; the flush that follows names no ETag any more.        *)
(*                                                                         *)
(* A handler is two steps: it reads, checks and decides (one action per    *)
(* endpoint), and it flushes and commits what it decided (Commit).         *)
(***************************************************************************)
EXTENDS Integers, FiniteSets, Functions

CONSTANTS Requests,   \* what clients may have open or under way at once
          Members, Versions, Absences, Meetings,     \* ids of rows
          Dates,      \* days a working pattern may start on
          Uids,       \* events of calendar files
          NoUid, NoDay, Nothing,
          Rules,      \* schedules of absences as clients send them
          MaxMembers, MaxVersions, MaxAbsences, MaxMeetings,
          MaxRows     \* bounds of the instance: a behaviour works on members and one more
                      \* table, with at most so many rows there or about to be

Kinds == {"range", "weekly"}
Schedule == [kind: Kinds, weekday: {1, NoDay}, inside: BOOLEAN]

ASSUME DatesAreDays == Dates \subseteq Int

\* ScheduleFields: a recurring rule needs a weekday.
ASSUME RulesAreWhole == /\ Rules \subseteq Schedule
                        /\ \A f \in Rules : f.kind = "weekly" => f.weekday # NoDay

VARIABLES rows,       \* the rows that exist, by id; the tables in one function
          at,         \* where each request is: idle, open (read by its client), checked
          form,       \* what its client asks: endpoint, row, the row as read
          moved,      \* the ETag of that row has changed since
          plan,       \* what the handler decided to insert, update and delete
          overtaken,  \* checked requests beside which another has committed
          scope       \* the table this behaviour works on

vars == <<rows, at, form, moved, plan, overtaken, scope>>

Attendees == Meetings \X Members

\* Ids are never those of another table, and a behaviour works on members and one of three.
ASSUME IdsAreApart ==
    /\ Members \cap (Versions \cup Absences \cup Meetings \cup Attendees) = {}
    /\ Versions \cap (Absences \cup Meetings \cup Attendees) = {}
    /\ Absences \cap (Meetings \cup Attendees) = {}
    /\ Meetings \cap Attendees = {}
    /\ Nothing \notin Members \cup Versions \cup Absences \cup Meetings \cup Attendees
    /\ NoUid \notin Uids
ASSUME ScopesAreTables == DOMAIN MaxRows \subseteq {"version", "absence", "meeting"}

Member == [is: {"member"}]
Version == [is: {"version"}, member: Members, from: Dates]
Absence == [is: {"absence"}, member: Members, uid: Uids \cup {NoUid}, kind: Kinds,
            weekday: {1, NoDay}, inside: BOOLEAN]
Meeting == [is: {"meeting"}, inside: BOOLEAN]
Attendee == [is: {"attendee"}, meeting: Meetings, member: Members]

All(table) == {i \in DOMAIN rows : rows[i].is = table}
Live(table, m) == {i \in All(table) : rows[i].member = m}
AttendeesOf(k) == {i \in All("attendee") : rows[i].meeting = k}

NoForm == [op |-> "none", on |-> Nothing, seen |-> Nothing]
NoPlan == [ins |-> <<>>, upd |-> <<>>, del |-> {}]

\* What a client sees of a row; who attends a meeting is part of it.
Content(i) == IF rows[i].is = "meeting" THEN <<rows[i], {rows[a].member : a \in AttendeesOf(i)}>>
              ELSE <<rows[i], {}>>

Init == /\ rows = <<>>
        /\ at = [r \in Requests |-> "idle"]
        /\ form = [r \in Requests |-> NoForm]
        /\ moved = [r \in Requests |-> FALSE]
        /\ plan = [r \in Requests |-> NoPlan]
        /\ overtaken = [r \in Requests |-> FALSE]
        /\ scope \in DOMAIN MaxRows

-----------------------------------------------------------------------------
(* Clients and the check of If-Match                                       *)

TaggedOps == [update_member |-> "member", delete_member |-> "member",
              replace_version |-> "version", update_version |-> "version",
              delete_version |-> "version", update_absence |-> "absence",
              delete_absence |-> "absence", update_meeting |-> "meeting",
              delete_meeting |-> "meeting"]

\* A dialog is opened on a row, or a tool reads the row it was asked to change.
Open(r) == /\ at[r] = "idle"
           /\ \E i \in DOMAIN rows :
                /\ rows[i].is \in {"member", scope}
                /\ form' = [form EXCEPT ![r] = [op |-> "edit", on |-> i, seen |-> Content(i)]]
           /\ at' = [at EXCEPT ![r] = "open"]
           /\ UNCHANGED <<rows, moved, plan, overtaken>>

Closed(r) == /\ at' = [at EXCEPT ![r] = "idle"]
             /\ form' = [form EXCEPT ![r] = NoForm]
             /\ plan' = [plan EXCEPT ![r] = NoPlan]

\* The dialog is given up, or the answer is 404, 409, 412, 422 or 428.
GiveUp(r) == /\ at[r] = "open"
             /\ Closed(r)
             /\ moved' = [moved EXCEPT ![r] = FALSE]
             /\ UNCHANGED <<rows, overtaken>>

Counted(t) == {i \in DOMAIN t : t[i].is # "version" \/ scope = "version"}
Decide(r, f, p) == /\ Cardinality(Counted(rows) \cup Counted(p.ins) \cup UNION {Counted(plan[q].ins) : q \in Requests})
                        <= MaxRows[scope]
                   /\ at' = [at EXCEPT ![r] = "checked"]
                   /\ form' = [form EXCEPT ![r] = f]
                   /\ plan' = [plan EXCEPT ![r] = p]
                   /\ moved' = [moved EXCEPT ![r] = FALSE]
                   /\ UNCHANGED <<rows, overtaken>>

\* check_if_match: the row is there and carries the tag the client quotes.
CheckIfMatch(r) == form[r].on \in DOMAIN rows /\ ~ moved[r]

\* The request of an open dialog reaches its endpoint and passes the check.
Matches(r, op) == /\ at[r] = "open" /\ CheckIfMatch(r) /\ rows[form[r].on].is = TaggedOps[op]
Decided(r, op, p) == Decide(r, [form[r] EXCEPT !.op = op], p)
Asked(r, op, p) == at[r] = "idle" /\ Decide(r, [op |-> op, on |-> Nothing, seen |-> Nothing], p)

\* Ids are never used twice: no row, dialog or decision names a fresh one.
Names(row) == {row[c] : c \in DOMAIN row \cap {"member", "meeting"}}
Named(i) ==
    \/ i \in DOMAIN rows
    \/ \E k \in DOMAIN rows : i \in Names(rows[k])
    \/ \E r \in Requests :
         \/ i = form[r].on \/ i \in DOMAIN plan[r].ins \cup plan[r].del
         \/ \E k \in DOMAIN plan[r].ins : i \in Names(plan[r].ins[k])
         \/ /\ form[r].op \in {"edit"} \cup DOMAIN TaggedOps
            /\ i \in Names(form[r].seen[1]) \cup form[r].seen[2]
Fresh(S) == {i \in S : ~ Named(i)}

\* The ORM writes the columns that differ from the row as loaded.
Changed(i, new) == Restrict(new, {c \in DOMAIN new : new[c] # rows[i][c]})
Update(i, new) == [j \in {i} |-> Changed(i, new)]
Insert(ids, Row1(_)) == [i \in ids |-> Row1(i)]
Writes(ins, upd, del) == [ins |-> ins, upd |-> upd, del |-> del]

-----------------------------------------------------------------------------
(* Members                                                                 *)

NewMember == [is |-> "member"]
NewVersion(m, d) == [is |-> "version", member |-> m, from |-> d]

CreateMember(r) ==
    /\ Cardinality(All("member")) < MaxMembers
    /\ \E m \in Fresh(Members), v \in Fresh(Versions), d \in Dates :
         Asked(r, "create_member",
               Writes([i \in {m, v} |-> IF i = m THEN NewMember ELSE NewVersion(m, d)], <<>>, {}))

\* A reorder writes the index of every row that changes place, and with it the tag.
Reorder(r, table) ==
    \E S \in SUBSET All(table) \ {{}} : Asked(r, "reorder", Writes(<<>>, [i \in S |-> <<>>], {}))

UpdateMember(r) ==
    /\ Matches(r, "update_member")
    /\ Decided(r, "update_member", Writes(<<>>, Update(form[r].on, <<>>), {}))

\* Mutant: the join rows of the member are forgotten.
DeleteMemberNotAttendance(r) ==
    LET m == form[r].on IN
    /\ Matches(r, "delete_member")
    /\ Decided(r, "delete_member", Writes(<<>>, <<>>, {m} \cup Live("version", m) \cup Live("absence", m)))

DeleteMember(r) ==
    LET m == form[r].on IN
    /\ Matches(r, "delete_member")
    /\ Decided(r, "delete_member", Writes(<<>>, <<>>, {m} \cup Live("version", m) \cup Live("absence", m)
                                          \cup Live("attendee", m)))

CreatePatternVersion(r) ==
    \E m \in All("member"), v \in Fresh(Versions), d \in Dates :
      /\ \A w \in Live("version", m) : rows[w].from # d
      /\ Cardinality(Live("version", m)) < MaxVersions
      /\ Asked(r, "create_version", Writes([i \in {v} |-> NewVersion(m, d)], <<>>, {}))

\* Posting onto a date that is taken overwrites that version; if it is gone, one is created.
ReplacePatternVersion(r) ==
    LET v == form[r].on
        old == form[r].seen[1]
        there == {w \in Live("version", old.member) : rows[w].from = old.from}
    IN /\ at[r] = "open" /\ old.is = "version"
       /\ old.member \in DOMAIN rows
       /\ \/ /\ there = {v} /\ CheckIfMatch(r)
             /\ Decided(r, "replace_version", Writes(<<>>, Update(v, <<>>), {}))
          \/ /\ there = {} /\ Cardinality(Live("version", old.member)) < MaxVersions
             /\ \E w \in Fresh(Versions) :
                  Decided(r, "create_version",
                          Writes([i \in {w} |-> NewVersion(old.member, old.from)], <<>>, {}))

UpdatePatternVersion(r) ==
    /\ Matches(r, "update_version")
    /\ \E d \in Dates : Decided(r, "update_version", Writes(<<>>, Update(form[r].on, [from |-> d]), {}))

\* Mutant: the version itself counts as an earlier one.
DeleteAnyPatternVersion(r) ==
    /\ Matches(r, "delete_version")
    /\ Decided(r, "delete_version", Writes(<<>>, <<>>, {form[r].on}))

DeletePatternVersion(r) ==
    LET v == form[r].on IN
    /\ Matches(r, "delete_version")
    /\ \E w \in Live("version", rows[v].member) : rows[w].from < rows[v].from
    /\ Decided(r, "delete_version", Writes(<<>>, <<>>, {v}))

-----------------------------------------------------------------------------
(* Absences                                                                *)

NewAbsence(m, u, f) == [is |-> "absence", member |-> m, uid |-> u, kind |-> f.kind,
                        weekday |-> f.weekday, inside |-> f.inside]
Inside(table) == {i \in All(table) : rows[i].inside}

\* _guard_count
GuardCount(m, adding) == Cardinality(Live("absence", m)) + adding <= MaxAbsences

CreateAbsences(r) ==
    \E S \in SUBSET All("member") \ {{}}, f \in Rules : \E id \in Injection(S, Fresh(Absences)) :
      /\ \A m \in S : GuardCount(m, 1)
      /\ Asked(r, "create_absences",
               Writes([i \in Range(id) |-> NewAbsence(CHOOSE m \in S : id[m] = i, NoUid, f)], <<>>, {}))

\* Mutant: the patch is validated without the row it is merged onto.
UpdateAbsencePatch(r) ==
    /\ Matches(r, "update_absence")
    /\ \E k \in Kinds, d \in {1, NoDay} :
         /\ k = "weekly" => d # NoDay
         /\ \E f \in {[kind |-> k], [weekday |-> d]} :
              Decided(r, "update_absence", Writes(<<>>, Update(form[r].on, f), {}))

\* The patch is merged onto the row as read, and the result is what must be a rule.
UpdateAbsence(r) ==
    /\ Matches(r, "update_absence")
    /\ \E f \in Rules : Decided(r, "update_absence", Writes(<<>>, Update(form[r].on, f), {}))

DeleteAbsence(r) ==
    /\ Matches(r, "delete_absence")
    /\ Decided(r, "delete_absence", Writes(<<>>, <<>>, {form[r].on}))

\* Everything anchored inside the window is replaced by one entry for each member of S.
BulkAbsences(r) ==
    \E S \in SUBSET All("member"), f \in {g \in Rules : g.inside} :
      \E id \in Injection(S, Fresh(Absences)) :
        /\ \A m \in S : GuardCount(m, 1 - Cardinality(Live("absence", m) \cap Inside("absence")))
        /\ Asked(r, "bulk_absences",
                 Writes([i \in Range(id) |-> NewAbsence(CHOOSE m \in S : id[m] = i, NoUid, f)],
                        <<>>, Inside("absence")))

\* Mutant: rows that were typed by hand are removed too.
ImportOverTyped(r) ==
    \E m \in All("member"), F \in SUBSET Uids, f \in Rules :
      LET mine == {i \in Live("absence", m) : rows[i].uid # NoUid}
          created == F \ {rows[i].uid : i \in mine}
          updated == {i \in mine : rows[i].uid \in F /\ Changed(i, f) # <<>>}
          removed == {i \in Live("absence", m) \cap Inside("absence") : rows[i].uid \notin F}
          net == Cardinality(created) - Cardinality(removed)
      IN /\ net > 0 => GuardCount(m, net)
         /\ at[r] = "idle"
         /\ \E id \in Injection(created, Fresh(Absences)) :
              Decide(r, [op |-> "import", on |-> m, seen |-> F],
                     Writes([i \in Range(id) |-> NewAbsence(m, CHOOSE u \in created : id[u] = i, f)],
                            [i \in updated |-> Changed(i, f)], removed))

\* A member's calendar file: its events upsert on (member, uid), rows of the window whose
\* event is gone are removed. Every tick of the preview is kept.
ImportAbsenceIcs(r) ==
    \E m \in All("member"), F \in SUBSET Uids, f \in Rules :
      LET mine == {i \in Live("absence", m) : rows[i].uid # NoUid}
          created == F \ {rows[i].uid : i \in mine}
          updated == {i \in mine : rows[i].uid \in F /\ Changed(i, f) # <<>>}
          removed == {i \in mine \cap Inside("absence") : rows[i].uid \notin F}
          net == Cardinality(created) - Cardinality(removed)
      IN /\ net > 0 => GuardCount(m, net)
         /\ at[r] = "idle"
         /\ \E id \in Injection(created, Fresh(Absences)) :
              Decide(r, [op |-> "import", on |-> m, seen |-> F],
                     Writes([i \in Range(id) |-> NewAbsence(m, CHOOSE u \in created : id[u] = i, f)],
                            [i \in updated |-> Changed(i, f)], removed))

-----------------------------------------------------------------------------
(* Meetings                                                                *)

NewMeeting(f) == [is |-> "meeting", inside |-> f]
NewAttendees(k, S) == [i \in {k} \X S |-> [is |-> "attendee", meeting |-> k, member |-> i[2]]]
WithAttendees(k, f, S) ==
    [i \in {k} \cup ({k} \X S) |-> IF i = k THEN NewMeeting(f) ELSE NewAttendees(k, S)[i]]

CreateMeeting(r) ==
    /\ Cardinality(All("meeting")) < MaxMeetings
    /\ \E k \in Fresh(Meetings), S \in SUBSET All("member"), f \in BOOLEAN :
         Asked(r, "create_meeting", Writes(WithAttendees(k, f, S), <<>>, {}))

\* Mutant: modified_at is left alone when only the attendance changes.
UpdateMeetingQuietly(r) ==
    LET k == form[r].on
        now == {rows[i].member : i \in AttendeesOf(k)}
    IN /\ Matches(r, "update_meeting")
       /\ \E S \in SUBSET All("member"), f \in BOOLEAN :
            Decided(r, "update_meeting",
                    Writes(NewAttendees(k, S \ now),
                           IF f = rows[k].inside THEN <<>> ELSE Update(k, [inside |-> f]), {k} \X (now \ S)))

\* _set_attendance keeps the attendees that stay, and inserts and deletes the others.
UpdateMeeting(r) ==
    LET k == form[r].on
        now == {rows[i].member : i \in AttendeesOf(k)}
    IN /\ Matches(r, "update_meeting")
       /\ \E S \in SUBSET All("member"), f \in BOOLEAN :
            Decided(r, "update_meeting",
                    Writes(NewAttendees(k, S \ now), Update(k, [inside |-> f]), {k} \X (now \ S)))

DeleteMeeting(r) ==
    LET k == form[r].on IN
    /\ Matches(r, "delete_meeting")
    /\ Decided(r, "delete_meeting", Writes(<<>>, <<>>, {k} \cup AttendeesOf(k)))

BulkMeetings(r) ==
    \E S \in SUBSET All("member"), K \in SUBSET Fresh(Meetings) :
      /\ Cardinality(K) <= 1
      /\ Cardinality(All("meeting")) + Cardinality(K) - Cardinality(Inside("meeting")) <= MaxMeetings
      /\ Asked(r, "bulk_meetings",
               Writes([i \in K \cup (K \X S) |-> IF i \in K THEN NewMeeting(TRUE) ELSE NewAttendees(i[1], S)[i]], <<>>,
                      Inside("meeting") \cup UNION {AttendeesOf(k) : k \in Inside("meeting")}))

-----------------------------------------------------------------------------
(* The flush                                                               *)

Patched(row, delta) == [c \in DOMAIN row |-> IF c \in DOMAIN delta THEN delta[c] ELSE row[c]]

\* Inserts and updates come before deletes.
Merged(p) == [i \in DOMAIN rows \cup DOMAIN p.ins |->
                IF i \in DOMAIN p.ins THEN p.ins[i]
                ELSE IF i \in DOMAIN p.upd THEN Patched(rows[i], p.upd[i]) ELSE rows[i]]

\* uq_member_pattern_versions_date, ux_absences_member_source_uid
Unique(t) == \A i, j \in DOMAIN t : i # j /\ t[i].is = t[j].is =>
    /\ t[i].is = "version" => t[i].member # t[j].member \/ t[i].from # t[j].from
    /\ t[i].is = "absence" => t[i].member # t[j].member \/ t[i].uid # t[j].uid \/ t[i].uid = NoUid

\* An UPDATE must find its row, an INSERT must not; a DELETE may find none.
Accepts(p) == /\ DOMAIN p.upd \subseteq DOMAIN rows
              /\ DOMAIN p.ins \cap DOMAIN rows = {}
              /\ Unique(Merged(p))

Flushed(p) == Restrict(Merged(p), (DOMAIN rows \cup DOMAIN p.ins) \ p.del)

Commit(r) ==
    /\ at[r] = "checked" /\ Accepts(plan[r])
    /\ rows' = Flushed(plan[r])
    /\ Closed(r)
    /\ moved' = [q \in Requests |-> q # r /\ (moved[q] \/ (at[q] = "open" /\ form[q].on \in DOMAIN plan[r].upd))]
    /\ overtaken' = [q \in Requests |-> q # r /\ (overtaken[q] \/ at[q] = "checked")]

\* An integrity or stale-data error, or the server stops: the transaction is rolled back.
Fail(r) ==
    /\ at[r] = "checked"
    /\ Closed(r)
    /\ overtaken' = [overtaken EXCEPT ![r] = FALSE]
    /\ UNCHANGED <<rows, moved>>

HandleMember(r) == CreateMember(r) \/ Reorder(r, "member") \/ UpdateMember(r) \/ DeleteMember(r)
HandleVersion(r) == \/ CreatePatternVersion(r) \/ ReplacePatternVersion(r)
                    \/ UpdatePatternVersion(r) \/ DeletePatternVersion(r)
HandleAbsence(r) == \/ CreateAbsences(r) \/ UpdateAbsence(r) \/ DeleteAbsence(r)
                    \/ BulkAbsences(r) \/ ImportAbsenceIcs(r)
HandleMeeting(r) == \/ CreateMeeting(r) \/ Reorder(r, "meeting") \/ UpdateMeeting(r)
                    \/ DeleteMeeting(r) \/ BulkMeetings(r)

Handle(r) == \/ HandleMember(r)
             \/ scope = "version" /\ HandleVersion(r)
             \/ scope = "absence" /\ HandleAbsence(r)
             \/ scope = "meeting" /\ HandleMeeting(r)

Next == /\ \E r \in Requests : Open(r) \/ GiveUp(r) \/ Handle(r) \/ Commit(r) \/ Fail(r)
        /\ UNCHANGED scope

Spec == Init /\ [][Next]_vars

-----------------------------------------------------------------------------
(* Properties                                                              *)

\* The request whose transaction changes the rows in this step.
Commits(r) == at[r] = "checked" /\ at'[r] = "idle" /\ rows' # rows

\* The row is as the client saw it; attendees that left the team since do not count.
AsSeen(i, seen) == /\ rows[i] = seen[1]
                   /\ Content(i)[2] \cap All("member") = seen[2] \cap All("member")

\* services/concurrency.py: no write that quotes a tag overwrites what its client has not
\* seen, unless another request commits between its check and its commit.
NothingOverwrittenUnseen == [][\A r \in Requests :
    Commits(r) /\ form[r].op \in DOMAIN TaggedOps /\ form[r].on \in DOMAIN plan[r].upd \cup plan[r].del
    /\ ~ overtaken[r] => AsSeen(form[r].on, form[r].seen)]_vars

\* routes/team_members.py: a member is created with a pattern and keeps one; only a
\* commit beside which another came in can take the last.
EveryMemberKeepsAPattern == [][\A r \in Requests : Commits(r) /\ ~ overtaken[r] =>
    \A m \in Members : m \in DOMAIN rows' /\ (m \in DOMAIN rows => Live("version", m) # {}) =>
        \E v \in DOMAIN rows' : rows'[v].is = "version" /\ rows'[v].member = m]_vars

\* Rows that name a member or a meeting that is gone.
Strays(t) == {i \in DOMAIN t :
    \/ t[i] \in Version \cup Absence \cup Attendee /\ t[i].member \notin {k \in DOMAIN t : t[k] \in Member}
    \/ t[i] \in Attendee /\ t[i].meeting \notin {k \in DOMAIN t : t[k] \in Meeting}}

\* delete_member, delete_meeting: nothing of a deleted member or meeting stays behind, no
\* foreign key helping, unless a request committed beside the one that leaves it.
OnlyOvertakenLeaveStrays ==
    [][\A r \in Requests : Commits(r) /\ ~ overtaken[r] => Strays(rows') \subseteq Strays(rows)]_vars

\* schemas/absence.py: a recurring rule has its weekday. A patch writes the columns that
\* differ from the row as read, so two at once can leave one without; no other write can.
RulesStayWhole == [][\A r \in Requests : Commits(r) /\ ~ overtaken[r] =>
    \A i \in DOMAIN rows' : rows'[i] \in Absence /\ rows'[i].kind = "weekly" /\ rows'[i].weekday = NoDay =>
        i \in DOMAIN rows /\ rows[i] = rows'[i]]_vars

\* A member's imported rows inside the window are those of the file, and a row that was
\* typed by hand is left as it was.
MirrorsFile(r) ==
    /\ form[r].seen = {rows'[i].uid : i \in {k \in DOMAIN rows' : /\ rows'[k] \in Absence
                            /\ rows'[k].member = form[r].on /\ rows'[k].uid # NoUid
                            /\ (rows'[k].inside \/ rows'[k].uid \in form[r].seen)}}
    /\ \A i \in All("absence") : rows[i].uid = NoUid => i \in DOMAIN rows' /\ rows'[i] = rows[i]

\* What the window holds is what was sent, and what lies outside is untouched.
Replaces(r, table) == \A i \in DOMAIN rows \cup DOMAIN rows' :
    IF i \in All(table) /\ ~ rows[i].inside THEN i \in DOMAIN rows' /\ rows'[i] = rows[i]
    ELSE i \in DOMAIN rows' /\ rows'[i].is = table => i \in DOMAIN plan[r].ins

\* import_ics, replace_absences, replace_meetings: an upload does to its window what it says
\* and nothing beside it, unless another request commits in between.
UploadsKeepToTheirWindow == [][\A r \in Requests : Commits(r) /\ ~ overtaken[r] =>
    /\ form[r].op = "import" => MirrorsFile(r)
    /\ form[r].op = "bulk_absences" => Replaces(r, "absence")
    /\ form[r].op = "bulk_meetings" => Replaces(r, "meeting")]_vars
=============================================================================
