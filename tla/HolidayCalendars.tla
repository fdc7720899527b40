-------------------------- MODULE HolidayCalendars --------------------------
(***************************************************************************)
(* Shared holiday calendars, the teams that enable them, and the members   *)
(* who work a day of a holiday all the same (routes/holiday_calendars.py,  *)
(* routes/team_holidays.py, services/holidays.py, holiday_import.py).      *)
(* No foreign key is enforced: what points at a calendar, an entry or a    *)
(* member is removed by hand.                                              *)
(*                                                                         *)
(* A handler reads and decides, then writes and commits. At most one       *)
(* request is held between the two; the others are served in one go while  *)
(* it is, which is every interleaving of two requests.                     *)
(***************************************************************************)
EXTENDS Integers, FiniteSets, Functions

CONSTANTS Calendars, Entries, Absences,   \* ids of rows
          Teams, Members, TeamOf,         \* TeamOf: the team of each member
          Names,                          \* names of calendars
          Keys,                           \* holidays: label, dates and halves
          YearDays,                       \* days of the first year, the last one a 29 February
          MaxCalendars, MaxEntries, MaxPerTeam,
          MaxRows, MaxRowsBeside,         \* bounds of the instance: entries, exceptions and absences
          NoRequest

\* It does not end before it starts.
IsRange(k) == k.start <= k.end /\ (k.start = k.end => k.startHalf = "am" \/ k.endHalf = "pm")

ASSUME KeysAreRanges ==
    \A k \in Keys : /\ k = [label |-> k.label, start |-> k.start, startHalf |-> k.startHalf, end |-> k.end, endHalf |-> k.endHalf]
                    /\ k.start \in Nat /\ k.end \in Nat /\ {k.startHalf, k.endHalf} \subseteq {"am", "pm"}
                    /\ IsRange(k)

VARIABLES staff,       \* the teams and the members that exist
          calendars,   \* calendars by id, with their names
          entries,     \* entries by id: calendar and key
          enabled,     \* <<team, calendar>>
          exceptions,  \* <<member, entry, day>>: works that day of that holiday
          absences,    \* range absences by id: member and key
          held         \* the request between its reads and its commit

vars == <<staff, calendars, entries, enabled, exceptions, absences, held>>

Halves == {"am", "pm"}
HalfDays(k) ==
    {x \in (k.start .. k.end) \X Halves :
        IF x[1] = k.start /\ k.startHalf = "pm" THEN x[2] = "pm" ELSE x[1] = k.end /\ k.endHalf = "am" => x[2] = "am"}

EntriesOf(c) == {e \in DOMAIN entries : entries[e].calendar = c}
KeysOf(c) == {entries[e].key : e \in EntriesOf(c)}
ByName(n) == {c \in DOMAIN calendars : calendars[c] = n}

DaysOf(e) == entries[e].key.start .. entries[e].key.end

\* Rows whose calendar, entry, member or team is gone, and exceptions on a day that is not
\* one of their holiday's.
Strays == {e \in DOMAIN entries : entries[e].calendar \notin DOMAIN calendars}
    \cup {s \in enabled : s[1] \notin staff \/ s[2] \notin DOMAIN calendars}
    \cup {x \in exceptions : x[1] \notin staff \/ x[2] \notin DOMAIN entries \/ (x[2] \in DOMAIN entries /\ x[3] \notin DaysOf(x[2]))}

Staff(t) == {t} \cup {m \in Members : TeamOf[m] = t}
Init == /\ staff \in {Staff(t) : t \in Teams}
        /\ calendars = <<>> /\ entries = <<>> /\ absences = <<>>
        /\ enabled = {} /\ exceptions = {}
        /\ held = NoRequest

-----------------------------------------------------------------------------
(* What a request decides, and its transaction                             *)

\* Rows to insert, to update and to delete, by id and by what they point at.
Quiet == [op |-> "none", hired |-> {}, gone |-> {}, newCalendars |-> <<>>, goneCalendars |-> {},
          newEntries |-> <<>>, moved |-> <<>>, goneEntries |-> {}, on |-> {}, off |-> {},
          works |-> {}, rests |-> {}, forgets |-> {}, newAbsences |-> <<>>, goneAbsences |-> {}, file |-> {}]

\* An UPDATE sets the columns that differ from what was read.
Merged(now, was, is) == [column \in DOMAIN now |-> IF is[column] # was[column] THEN is[column] ELSE now[column]]

\* forget_entries, forget_team and the deletes of delete_calendar name what they were read for,
\* drop_exceptions_outside looks at the exceptions after its flush.
Written(p) == [e \in (DOMAIN entries \cup DOMAIN p.newEntries) |->
                 IF e \in DOMAIN p.newEntries THEN p.newEntries[e]
                 ELSE IF e \in DOMAIN p.moved THEN [entries[e] EXCEPT !.key = Merged(@, p.moved[e].was, p.moved[e].is)]
                 ELSE entries[e]]

\* Mutant: an edit leaves the exceptions of its entry alone.
OutsideNothing(p) == {}
Outside(p) == {x \in exceptions : x[2] \in DOMAIN p.moved /\ ~ \E h \in Halves : <<x[3], h>> \in HalfDays(p.moved[x[2]].is)}

\* apply_holiday_import: an exception of the file is for an entry of the calendar with its
\* label and first day, if the day is one of it. The sets it may come to, for twins.
Resolved(p) ==
    LET target(x) == {e \in DOMAIN Written(p) : /\ Written(p)[e].calendar = x.calendar
                        /\ Written(p)[e].key.label = x.key.label /\ Written(p)[e].key.start = x.key.start}
        found == {x \in p.file : target(x) # {}}
    IN {{<<x.member, at[x], x.day>> : x \in {y \in found : Written(p)[at[y]].key.start <= y.day /\ y.day <= Written(p)[at[y]].key.end}} :
          at \in {f \in [found -> DOMAIN Written(p)] : \A x \in found : f[x] \in target(x)}}

\* An UPDATE must find its row; names and exceptions are unique; _create_entries counts after its flush.
Accepts(p) ==
    LET kept == (exceptions \ p.rests) \ {x \in exceptions : x[2] \in p.forgets} IN
    /\ \A e \in DOMAIN p.moved : p.moved[e].is # p.moved[e].was => e \in DOMAIN entries
    /\ \A c \in DOMAIN p.newCalendars : ByName(p.newCalendars[c]) \ {c} = {}
    /\ p.op = "rename" => DOMAIN p.newCalendars \subseteq DOMAIN calendars
    /\ p.works \cap kept = {}
    /\ p.on \cap enabled = {}
    /\ \A e \in DOMAIN p.newEntries : p.op = "add" =>
         Cardinality({f \in DOMAIN Written(p) : Written(p)[f].calendar = p.newEntries[e].calendar}) <= MaxEntries

Apply(p) ==
    /\ staff' = (staff \cup p.hired) \ p.gone
    /\ calendars' = [c \in (DOMAIN calendars \cup DOMAIN p.newCalendars) \ p.goneCalendars |->
                       IF c \in DOMAIN p.newCalendars THEN p.newCalendars[c] ELSE calendars[c]]
    /\ entries' = Restrict(Written(p), {e \in DOMAIN Written(p) :
                       e \notin p.goneEntries /\ Written(p)[e].calendar \notin p.goneCalendars})
    /\ enabled' = (enabled \cup p.on) \ {s \in enabled : s \in p.off \/ s[2] \in p.goneCalendars \/ s[1] \in p.gone}
    /\ \E R \in Resolved(p) :
         exceptions' = ((exceptions \ p.rests) \ {x \in exceptions : x[2] \in p.forgets \/ x \in Outside(p)
                                                    \/ x[1] \in p.gone}) \cup p.works \cup R
    /\ absences' = [a \in {b \in DOMAIN absences \cup DOMAIN p.newAbsences :
                             /\ b \notin p.goneAbsences
                             /\ b \in DOMAIN absences => absences[b].member \notin p.gone} |->
                       IF a \in DOMAIN p.newAbsences THEN p.newAbsences[a] ELSE absences[a]]

\* Bounds of the instance: few rows, fewer beside a held request.
Bounded(p, bound) ==
    bound >= Cardinality(DOMAIN entries \cup DOMAIN p.newEntries) + Cardinality(exceptions \cup p.works)
             + Cardinality(DOMAIN absences \cup DOMAIN p.newAbsences)

\* A request is served at once, or held before its first write.
Serve(p) == \/ /\ Bounded(p, IF held = NoRequest THEN MaxRows ELSE MaxRowsBeside)
               /\ Accepts(p) /\ Apply(p)
               /\ held' = IF held = NoRequest THEN held ELSE [held EXCEPT !.overtaken = TRUE]
            \/ /\ held = NoRequest /\ Bounded(p, MaxRowsBeside)
               /\ held' = [plan |-> p, overtaken |-> FALSE]
               /\ UNCHANGED <<staff, calendars, entries, enabled, exceptions, absences>>

Finish == /\ held # NoRequest /\ Accepts(held.plan)
          /\ Apply(held.plan)
          /\ held' = NoRequest

\* The unique index or a missing row rolls the transaction back, or the server stops.
Fail == /\ held # NoRequest
        /\ held' = NoRequest
        /\ UNCHANGED <<staff, calendars, entries, enabled, exceptions, absences>>

Inserts == IF held = NoRequest THEN Quiet ELSE held.plan
FreshEntries == Entries \ (DOMAIN entries \cup DOMAIN Inserts.newEntries \cup {x[2] : x \in exceptions}
                           \cup Inserts.goneEntries \cup Inserts.forgets \cup {x[2] : x \in Inserts.works})
FreshCalendars == Calendars \ (DOMAIN calendars \cup DOMAIN Inserts.newCalendars \cup {s[2] : s \in enabled}
                               \cup {entries[e].calendar : e \in DOMAIN entries} \cup Inserts.goneCalendars
                               \cup {Inserts.newEntries[e].calendar : e \in DOMAIN Inserts.newEntries}
                               \cup {s[2] : s \in Inserts.on})
\* Nothing in a state tells fresh ids apart: a new row gets any one of them.
OneOf(S) == IF S = {} THEN {} ELSE {CHOOSE x \in S : TRUE}
IdsFor(K) == OneOf(Injection(K, FreshEntries))
FreshAbsences == Absences \ (DOMAIN absences \cup DOMAIN Inserts.newAbsences \cup Inserts.goneAbsences)
\* Teams no row and no held request names, nor any member of theirs.
NamedStaff == staff \cup Inserts.hired \cup Inserts.gone
              \cup {x[1] : x \in enabled \cup exceptions \cup Inserts.on \cup Inserts.off \cup Inserts.works \cup Inserts.rests}
              \cup {absences[a].member : a \in DOMAIN absences}
              \cup {Inserts.newAbsences[a].member : a \in DOMAIN Inserts.newAbsences}
FreshTeams == {t \in Teams : Staff(t) \cap NamedStaff = {}}

-----------------------------------------------------------------------------
(* routes/holiday_calendars.py                                             *)

CreateCalendar == \E c \in OneOf(FreshCalendars), n \in Names :
    /\ ByName(n) = {} /\ Cardinality(DOMAIN calendars) < MaxCalendars
    /\ Serve([Quiet EXCEPT !.op = "create", !.newCalendars = [d \in {c} |-> n]])

UpdateCalendar == \E c \in DOMAIN calendars, n \in Names :
    /\ ByName(n) \ {c} = {}
    /\ Serve([Quiet EXCEPT !.op = "rename", !.newCalendars = [d \in {c} |-> n]])

\* The exceptions go with the entries as read, the switches and entries with the calendar.
DeleteCalendar == \E c \in DOMAIN calendars :
    Serve([Quiet EXCEPT !.op = "delete", !.goneCalendars = {c}, !.forgets = EntriesOf(c)])

NewEntry(c, k) == [calendar |-> c, key |-> k]

\* A holiday typed by hand is not compared with those that are there.
CreateEntry == \E c \in DOMAIN calendars, k \in Keys, e \in OneOf(FreshEntries) :
    /\ Cardinality(EntriesOf(c)) < MaxEntries
    /\ Serve([Quiet EXCEPT !.op = "entry", !.newEntries = [f \in {e} |-> NewEntry(c, k)]])

\* The patch is merged onto the row as read and the whole validated; the flush writes columns.
Edited(e, k) == [was |-> entries[e].key, is |-> k]
UpdateEntry == \E e \in DOMAIN entries, k \in Keys :
    /\ entries[e].calendar \in DOMAIN calendars
    /\ Serve([Quiet EXCEPT !.op = "edit", !.moved = [f \in {e} |-> Edited(e, k)]])

DeleteEntry == \E e \in DOMAIN entries :
    /\ entries[e].calendar \in DOMAIN calendars
    /\ Serve([Quiet EXCEPT !.op = "delete", !.goneEntries = {e}, !.forgets = {e}])

\* The new entries of a calendar, one to a key.
Added(c, id) == [e \in Range(id) |-> NewEntry(c, CHOOSE k \in DOMAIN id : id[k] = e)]

\* Mutant: every entry of the window is new, and its exceptions are gone.
CarryNothing(doomed, id) == {}
\* Exceptions move to the entry that comes back with the same key.
Carry(doomed, id) == {<<x[1], id[entries[x[2]].key], x[3]>> :
                         x \in {y \in exceptions : y[2] \in doomed /\ entries[y[2]].key \in DOMAIN id}}

\* Two that were on twins for one member's day are carried twice: the unique key refuses them.
CarriedTwice(doomed, keys) == \E x, y \in exceptions :
    /\ {x[2], y[2]} \subseteq doomed /\ x[2] # y[2] /\ x[1] = y[1] /\ x[3] = y[3]
    /\ entries[x[2]].key = entries[y[2]].key /\ entries[x[2]].key \in keys

\* Every entry of a re-read starts in its window.
ReplaceEntries == \E c \in DOMAIN calendars, K \in SUBSET Keys, from, to \in {k.start : k \in Keys} :
    LET doomed == {e \in EntriesOf(c) : entries[e].key.start \in from .. to} IN
    /\ from <= to /\ \A k \in K : k.start \in from .. to
    /\ Cardinality(EntriesOf(c)) - Cardinality(doomed) + Cardinality(K) <= MaxEntries
    /\ ~ CarriedTwice(doomed, K)
    /\ \E id \in IdsFor(K) :
         Serve([Quiet EXCEPT !.op = "replace", !.goneEntries = doomed, !.forgets = doomed,
                             !.newEntries = Added(c, id), !.works = Carry(doomed, id)])

\* Mutant: the new entries are not compared with those that are there.
ToAddAll(c, K) == K
\* _create_entries skips what is there already.
ToAdd(c, K) == K \ KeysOf(c)
CreateEntries(c, K) ==
    \E id \in IdsFor(ToAdd(c, K)) : Serve([Quiet EXCEPT !.op = "add", !.newEntries = Added(c, id)])

\* 29 February becomes the 28th.
NextYear(d) == IF d = YearDays - 1 THEN d - 1 + YearDays ELSE d + YearDays
NextKey(k) == LET start == NextYear(k.start) IN
              [k EXCEPT !.start = start, !.end = IF NextYear(@) < start THEN start ELSE NextYear(@)]

\* The proposals as previewed, some of them dropped; one the client corrects is as if imported.
CopyYear == \E c \in DOMAIN calendars :
    \E K \in SUBSET ({NextKey(k) : k \in {l \in KeysOf(c) : l.start < YearDays}} \cap Keys) : CreateEntries(c, K)

ImportIcs == \E c \in DOMAIN calendars, K \in SUBSET Keys : CreateEntries(c, K)

-----------------------------------------------------------------------------
(* routes/team_holidays.py                                                 *)

TeamsThere == Teams \cap staff
MembersThere == Members \cap staff

EnableCalendar == \E t \in TeamsThere, c \in DOMAIN calendars :
    /\ <<t, c>> \notin enabled /\ Cardinality({s \in enabled : s[1] = t}) < MaxPerTeam
    /\ Serve([Quiet EXCEPT !.op = "enable", !.on = {<<t, c>>}])

\* The exceptions stay stored and come back with the switch.
DisableCalendar == \E s \in enabled : s[1] \in TeamsThere /\ Serve([Quiet EXCEPT !.op = "disable", !.off = {s}])

\* _exception_target
Target(m, e, d) == m \in MembersThere /\ e \in DOMAIN entries /\ entries[e].key.start <= d /\ d <= entries[e].key.end

SetException == \E e \in DOMAIN entries : \E m \in Members, d \in DaysOf(e) :
    /\ Target(m, e, d)
    /\ <<TeamOf[m], entries[e].calendar>> \in enabled
    /\ <<m, e, d>> \notin exceptions
    /\ Serve([Quiet EXCEPT !.op = "works", !.works = {<<m, e, d>>}])

ClearException == \E x \in exceptions :
    /\ Target(x[1], x[2], x[3])
    /\ Serve([Quiet EXCEPT !.op = "rests", !.rests = {x}])

\* The entries of the calendars the team has enabled.
TeamEntries(t) == {e \in DOMAIN entries : <<t, entries[e].calendar>> \in enabled}
OnHoliday(m, d, h) == \E e \in TeamEntries(TeamOf[m]) : <<d, h>> \in HalfDays(entries[e].key) /\ <<m, e, d>> \notin exceptions

\* Mutant: that some holiday covers the half is enough, whoever works it.
RedundantForAnyone(a) == \A x \in HalfDays(absences[a].key) :
    \E e \in TeamEntries(TeamOf[absences[a].member]) : x \in HalfDays(entries[e].key)

Redundant(a) == \A x \in HalfDays(absences[a].key) : OnHoliday(absences[a].member, x[1], x[2])

\* Absences held alike by two members of the team, and wholly covered for their own.
CleanupCandidates(t) ==
    {a \in DOMAIN absences : /\ TeamOf[absences[a].member] = t /\ Redundant(a)
        /\ \E b \in DOMAIN absences : /\ absences[b].key = absences[a].key
                                     /\ absences[b].member # absences[a].member /\ TeamOf[absences[b].member] = t}

ApplyCleanup == \E t \in TeamsThere : \E A \in SUBSET CleanupCandidates(t) \ {{}} :
    Serve([Quiet EXCEPT !.op = "cleanup", !.goneAbsences = A])

-----------------------------------------------------------------------------
(* What other routes do to the same rows                                   *)

\* routes/absences.py, abridged to a range.
PostAbsence == \E m \in MembersThere, k \in Keys : \E a \in OneOf(FreshAbsences) :
    Serve([Quiet EXCEPT !.op = "absence", !.newAbsences = [b \in {a} |-> [member |-> m, key |-> k]]])

DeleteMember == \E m \in MembersThere : Serve([Quiet EXCEPT !.op = "delete", !.gone = {m}])

\* forget_team, with the members as they are then.
DeleteTeam == \E t \in TeamsThere : Serve([Quiet EXCEPT !.op = "delete", !.gone = Staff(t)])

\* plan_holiday_import, for the calendar the file's is to be: the team enables it, its members
\* work the days the file says.
PlanHolidayImport(t, c, F) ==
    [Quiet EXCEPT !.op = "import", !.hired = Staff(t), !.on = {<<t, c>>},
                  !.file = {[member |-> x[1], calendar |-> c, key |-> x[2], day |-> x[2].end] : x \in F}]

\* A team file with one calendar: one of that name is enabled as it is, or it is created
\* when the caller says so; its entries are never merged into one that exists.
ImportTeam == \E t \in FreshTeams, n \in Names : \E F \in {{}} \cup {{x} : x \in (Staff(t) \cap Members) \X Keys} :
    \/ \E c \in ByName(n) : Serve(PlanHolidayImport(t, c, F))
    \/ /\ ByName(n) = {} /\ Cardinality(DOMAIN calendars) < MaxCalendars
       /\ \E c \in OneOf(FreshCalendars), K \in SUBSET Keys : \E id \in IdsFor(K) :
            /\ \A x \in F : x[2] \in K
            /\ Serve([PlanHolidayImport(t, c, F) EXCEPT !.newCalendars = [d \in {c} |-> n], !.newEntries = Added(c, id)])

Next == \/ CreateCalendar \/ UpdateCalendar \/ DeleteCalendar \/ CreateEntry \/ UpdateEntry \/ DeleteEntry
        \/ ReplaceEntries \/ CopyYear \/ ImportIcs \/ EnableCalendar \/ DisableCalendar \/ SetException \/ ClearException
        \/ ApplyCleanup \/ PostAbsence \/ DeleteMember \/ DeleteTeam \/ ImportTeam \/ Finish \/ Fail

Spec == Init /\ [][Next]_vars

-----------------------------------------------------------------------------
(* Properties                                                              *)

\* The step commits a request beside which another was served.
Overtaken == held # NoRequest /\ held.overtaken /\ held' = NoRequest

\* holiday_calendars.py, services/holidays.py: only a request that another overtook leaves
\* an exception behind on a day its holiday no longer has, or anything of a calendar, an
\* entry, a member or a team that is gone.
ExceptionsFollowTheirEntry ==
    [][Strays = {} => Overtaken \/ Strays' = {}]_vars

\* Who is off when: by an absence, or by a holiday of the team that the member does not work.
IsOff(m, d, h) == \/ \E a \in DOMAIN absences : absences[a].member = m /\ <<d, h>> \in HalfDays(absences[a].key)
                  \/ OnHoliday(m, d, h)
Days == UNION {k.start .. l.end : k, l \in Keys}
OffWork == {x \in MembersThere \X Days \X Halves : IsOff(x[1], x[2], x[3])}

SameHolidays == \A c \in DOMAIN calendars : KeysOf(c)' = KeysOf(c)
TwinsOf(c) == {x \in EntriesOf(c) \X EntriesOf(c) : x[1] # x[2] /\ entries[x[1]].key = entries[x[2]].key}
NoTwins == \A c \in Calendars : TwinsOf(c) = {}

Cleaned == staff' = staff /\ DOMAIN absences' \subseteq DOMAIN absences /\ absences' # absences
Reread == calendars' = calendars /\ entries' # entries /\ SameHolidays

\* team_holidays.py, apply_cleanup: clearing absences that a holiday covers gives nobody a
\* day of work back; replace_entries: reading an unchanged page again, where no holiday is
\* there twice, moves nobody. Unless another request comes in between check and commit.
NobodyReturnsUnasked ==
    [][Cleaned \/ (Reread /\ NoTwins /\ NoTwins') => Overtaken \/ OffWork' = OffWork]_vars

\* holiday_calendars.py, holiday_import.py: no file, copy or re-read puts a holiday into a
\* calendar a second time; typing one by hand, or two requests at once, can.
UploadsAddNoTwins ==
    [][\/ \A c \in Calendars : TwinsOf(c)' \subseteq TwinsOf(c)
       \/ CreateEntry \/ UpdateEntry
       \/ held # NoRequest /\ held' = NoRequest /\ (held.overtaken \/ held.plan.op \in {"entry", "edit"})]_vars
=============================================================================
