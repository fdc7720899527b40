---------------------- MODULE HolidayCalendars_proofs ----------------------
(***************************************************************************)
(* Proofs about HolidayCalendars, for any number of calendars, entries,    *)
(* teams, members, absences and holidays.  The inductive invariant says    *)
(* what the held request still knows as long as no other request was       *)
(* served beside it: that its plan fits the rows as they are.              *)
(***************************************************************************)
EXTENDS HolidayCalendars, TLAPS

\* A holiday whose columns are each some holiday's: two edits at once leave no more than that.
Columns == {"label", "start", "startHalf", "end", "endHalf"}
Mixes == [label : {k.label : k \in Keys}, start : {k.start : k \in Keys}, startHalf : {k.startHalf : k \in Keys},
          end : {k.end : k \in Keys}, endHalf : {k.endHalf : k \in Keys}]

EntryRow == [calendar : Calendars, key : Mixes]
NewRow == [calendar : Calendars, key : Keys]
AbsenceRow == [member : Members, key : Keys]
ExceptionRow == Members \X Entries \X Int
FileRow == [member : Members, calendar : Calendars, key : Keys, day : Int]

\* A plan names rows of their kinds.
IsPlan(p) ==
  /\ p.hired \subseteq Teams \cup Members
  /\ \A c \in DOMAIN p.newCalendars : c \in Calendars /\ p.newCalendars[c] \in Names
  /\ \A e \in DOMAIN p.newEntries : e \in Entries /\ p.newEntries[e] \in NewRow
  /\ \A e \in DOMAIN p.moved : p.moved[e].is \in Keys /\ p.moved[e].was \in Mixes
  /\ p.on \subseteq Teams \X Calendars
  /\ p.works \subseteq ExceptionRow
  /\ p.file \subseteq FileRow
  /\ \A a \in DOMAIN p.newAbsences : a \in Absences /\ p.newAbsences[a] \in AbsenceRow

RowsTypeOK ==
  /\ staff \subseteq Teams \cup Members
  /\ \A c \in DOMAIN calendars : c \in Calendars /\ calendars[c] \in Names
  /\ \A e \in DOMAIN entries : e \in Entries /\ entries[e] \in EntryRow
  /\ enabled \subseteq Teams \X Calendars
  /\ exceptions \subseteq ExceptionRow
  /\ \A a \in DOMAIN absences : a \in Absences /\ absences[a] \in AbsenceRow
  /\ calendars = [c \in DOMAIN calendars |-> calendars[c]]
  /\ entries = [e \in DOMAIN entries |-> entries[e]]
  /\ absences = [a \in DOMAIN absences |-> absences[a]]

TypeOK ==
  /\ RowsTypeOK
  /\ held # NoRequest => /\ held = [plan |-> held.plan, overtaken |-> held.overtaken]
                         /\ held.overtaken \in BOOLEAN
                         /\ IsPlan(held.plan)

-----------------------------------------------------------------------------
(* What a plan does to the rows it was made for                            *)

\* Its new rows are new, and nothing names the new entries.
InsertsAreNew(p) ==
  /\ \A e \in DOMAIN p.newEntries : e \notin DOMAIN entries /\ \A x \in exceptions : x[2] # e
  /\ \A a \in DOMAIN p.newAbsences : a \notin DOMAIN absences

CalendarsAfter(p) == (DOMAIN calendars \cup DOMAIN p.newCalendars) \ p.goneCalendars
StaffAfter(p) == (staff \cup p.hired) \ p.gone
StaysEntry(p, e) == e \notin p.goneEntries /\ Written(p)[e].calendar \notin p.goneCalendars

\* What a new row points at is there and stays; an entry goes with its exceptions. An exception
\* that a re-read carries over was on a day of its holiday if none was astray.
LeavesNoStrays(p) ==
  /\ \A e \in DOMAIN p.newEntries : p.newEntries[e].calendar \in CalendarsAfter(p)
  /\ \A e \in DOMAIN entries : e \in p.goneEntries \/ entries[e].calendar \in p.goneCalendars => e \in p.forgets
  /\ \A s \in p.on : s[1] \in StaffAfter(p) /\ s[2] \in CalendarsAfter(p)
  /\ Strays = {} => \A x \in p.works :
       /\ x[1] \in StaffAfter(p) /\ x[2] \in DOMAIN Written(p) /\ StaysEntry(p, x[2])
       /\ x[3] \in Written(p)[x[2]].key.start .. Written(p)[x[2]].key.end
  /\ \A x \in p.file : x.member \in StaffAfter(p)
  /\ p.file # {} => p.goneEntries = {} /\ p.goneCalendars = {}

\* Holidays typed by hand apart, none is added where there is one like it.
AddsNoTwins(p) ==
  p.op \notin {"entry", "edit"} =>
    /\ DOMAIN p.moved = {}
    /\ \A e \in DOMAIN p.newEntries, f \in DOMAIN Written(p) \ p.goneEntries :
         Written(p)[f].calendar = p.newEntries[e].calendar /\ Written(p)[f].key = p.newEntries[e].key => f = e

OnlyAdds(p) == DOMAIN p.moved = {} /\ p.goneEntries = {} /\ p.goneCalendars = {}
OnlyMoves(p) ==
  /\ DOMAIN p.newEntries = {} /\ p.goneEntries = {} /\ p.goneCalendars = {}
  /\ \A e, f \in DOMAIN p.moved : e = f
  /\ \A e \in DOMAIN p.moved \cap DOMAIN entries : entries[e].calendar \in DOMAIN calendars /\ p.moved[e].was = entries[e].key
OnlyRemoves(p) ==
  /\ DOMAIN p.newEntries = {} /\ DOMAIN p.moved = {}
  /\ p.goneCalendars \subseteq DOMAIN calendars
  /\ \A e \in p.goneEntries : e \in DOMAIN entries /\ entries[e].calendar \in DOMAIN calendars

\* The exceptions of what it removes move to what it adds, by the key; nothing else changes.
CarriesOver(p) ==
  /\ DOMAIN p.moved = {} /\ p.goneCalendars = {} /\ p.hired = {} /\ p.gone = {}
  /\ p.on = {} /\ p.off = {} /\ p.rests = {} /\ p.file = {}
  /\ DOMAIN p.newCalendars = {} /\ DOMAIN p.newAbsences = {} /\ p.goneAbsences = {}
  /\ p.forgets = p.goneEntries
  /\ \E c \in DOMAIN calendars : /\ p.goneEntries \subseteq EntriesOf(c)
                                 /\ \A e \in DOMAIN p.newEntries : p.newEntries[e].calendar = c
  /\ \A x \in p.works : /\ x[2] \in DOMAIN p.newEntries
                        /\ \E f \in p.goneEntries : /\ entries[f].key = p.newEntries[x[2]].key
                                                    /\ <<x[1], f, x[3]>> \in exceptions
  /\ \A x \in exceptions, e \in DOMAIN p.newEntries :
       x[2] \in p.goneEntries /\ entries[x[2]].key = p.newEntries[e].key => <<x[1], e, x[3]>> \in p.works

\* Absences go only where a holiday has the member off, and nothing else with them.
ClearsRedundant(p) ==
  /\ \A a \in p.goneAbsences : a \in DOMAIN absences /\ Redundant(a)
  /\ p.hired = {} /\ p.gone = {} /\ DOMAIN p.newCalendars = {} /\ p.goneCalendars = {}
  /\ DOMAIN p.newEntries = {} /\ DOMAIN p.moved = {} /\ p.goneEntries = {}
  /\ p.on = {} /\ p.off = {} /\ p.works = {} /\ p.rests = {} /\ p.forgets = {} /\ p.file = {}
  /\ DOMAIN p.newAbsences = {}

Fits(p) ==
  /\ InsertsAreNew(p)
  /\ LeavesNoStrays(p)
  /\ AddsNoTwins(p)
  /\ OnlyAdds(p) \/ OnlyMoves(p) \/ OnlyRemoves(p) \/ CarriesOver(p)
  /\ p.goneAbsences # {} => ClearsRedundant(p)
  /\ p.gone # {} => p.gone \cap staff # {}

UnovertakenFits == held # NoRequest /\ ~ held.overtaken => Fits(held.plan)

IInv == TypeOK /\ UnovertakenFits
-----------------------------------------------------------------------------
(* The rows after a transaction                                            *)

LEMMA MixesAreRecords ==
  ASSUME NEW k \in Mixes
  PROVE  DOMAIN k = Columns /\ k = [column \in Columns |-> k[column]]
BY DEF Mixes, Columns

(* A column of two holidays is the one's or the other's, ... *)
LEMMA KeysAreMixes == Keys \subseteq Mixes
BY KeysAreRanges DEF Mixes

LEMMA MergedMixes ==
  ASSUME NEW now \in Mixes, NEW was \in Mixes, NEW is \in Mixes
  PROVE  Merged(now, was, is) \in Mixes
<1> DEFINE m == Merged(now, was, is)
<1>1. /\ m = [column \in Columns |-> m[column]]
      /\ m.label \in {now.label, is.label} /\ m.start \in {now.start, is.start} /\ m.startHalf \in {now.startHalf, is.startHalf}
      /\ m.end \in {now.end, is.end} /\ m.endHalf \in {now.endHalf, is.endHalf}
  BY MixesAreRecords DEF Merged, Columns
<1> QED BY <1>1 DEF Mixes, Columns

(* ... and an edit of the row as it was read leaves what was asked for. *)
LEMMA MergedOnto ==
  ASSUME NEW was \in Mixes, NEW is \in Mixes
  PROVE  Merged(was, was, is) = is
<1>1. Merged(was, was, is) = [column \in DOMAIN was |-> is[column]]
  BY DEF Merged
<1> QED BY <1>1, MixesAreRecords

LEMMA MixesAreDated ==
  ASSUME NEW k \in Mixes
  PROVE  k.start \in Nat /\ k.end \in Nat
BY KeysAreRanges DEF Mixes

(* A plan's own entries, those it moves, and the others as they were. *)
LEMMA WrittenRows ==
  ASSUME RowsTypeOK, NEW p, IsPlan(p), NEW e
  PROVE  /\ e \in DOMAIN Written(p) <=> e \in DOMAIN entries \/ e \in DOMAIN p.newEntries
         /\ e \in DOMAIN p.newEntries => Written(p)[e] = p.newEntries[e]
         /\ e \in DOMAIN entries /\ e \notin DOMAIN p.newEntries /\ e \notin DOMAIN p.moved
              => Written(p)[e] = entries[e]
         /\ e \in DOMAIN entries /\ e \notin DOMAIN p.newEntries /\ e \in DOMAIN p.moved
              => /\ Written(p)[e].calendar = entries[e].calendar
                 /\ Written(p)[e].key = Merged(entries[e].key, p.moved[e].was, p.moved[e].is)
         /\ e \in DOMAIN Written(p) => e \in Entries /\ Written(p)[e] \in EntryRow
<1> DEFINE m == Merged(entries[e].key, p.moved[e].was, p.moved[e].is)
<1>1. /\ e \in DOMAIN Written(p) <=> e \in DOMAIN entries \/ e \in DOMAIN p.newEntries
      /\ e \in DOMAIN p.newEntries => Written(p)[e] = p.newEntries[e]
      /\ e \in DOMAIN entries /\ e \notin DOMAIN p.newEntries /\ e \notin DOMAIN p.moved => Written(p)[e] = entries[e]
      /\ e \in DOMAIN entries /\ e \notin DOMAIN p.newEntries /\ e \in DOMAIN p.moved
           => Written(p)[e] = [entries[e] EXCEPT !.key = m]
  BY DEF Written
<1>2. e \in DOMAIN entries => e \in Entries /\ entries[e] \in EntryRow /\ entries[e].key \in Mixes
  BY DEF RowsTypeOK, EntryRow
<1>3. e \in DOMAIN p.newEntries => e \in Entries /\ p.newEntries[e] \in EntryRow
  BY KeysAreMixes DEF IsPlan, NewRow, EntryRow
<1>4. e \in DOMAIN entries /\ e \in DOMAIN p.moved => m \in Mixes
  BY <1>2, KeysAreMixes, MergedMixes DEF IsPlan
<1> HIDE DEF m
<1>5. e \in DOMAIN entries /\ e \in DOMAIN p.moved
        => /\ [entries[e] EXCEPT !.key = m] \in EntryRow
           /\ [entries[e] EXCEPT !.key = m].calendar = entries[e].calendar /\ [entries[e] EXCEPT !.key = m].key = m
  BY <1>2, <1>4 DEF EntryRow
<1> QED BY <1>1, <1>2, <1>3, <1>5 DEF m

(* A fitting edit knows the row it was made for, so its holiday comes out as asked for. *)
LEMMA MovedBecome ==
  ASSUME RowsTypeOK, NEW p, IsPlan(p), Fits(p), NEW e \in DOMAIN p.moved, e \in DOMAIN entries
  PROVE  Written(p)[e].key = p.moved[e].is /\ p.moved[e].is \in Keys
<1>1. OnlyMoves(p)
  BY DEF Fits, OnlyAdds, OnlyRemoves, CarriesOver
<1>2. e \notin DOMAIN p.newEntries /\ p.moved[e].was = entries[e].key
  BY <1>1 DEF OnlyMoves
<1>3. p.moved[e].is \in Keys /\ p.moved[e].was \in Mixes
  BY DEF IsPlan
<1>4. Written(p)[e].key = Merged(p.moved[e].was, p.moved[e].was, p.moved[e].is)
  BY <1>2, WrittenRows
<1> QED BY <1>3, <1>4, KeysAreMixes, MergedOnto

(* An entry stays unless it is removed, or its calendar is. *)
LEMMA EntriesAfter ==
  ASSUME NEW p, Apply(p), NEW e
  PROVE  /\ e \in DOMAIN entries' <=> e \in DOMAIN Written(p) /\ StaysEntry(p, e)
         /\ e \in DOMAIN entries' => entries'[e] = Written(p)[e]
BY DEF Apply, Restrict, StaysEntry

(* The exceptions a file may come to, whichever twin it finds. *)
LEMMA ResolvedRows ==
  ASSUME NEW p, NEW R \in Resolved(p), NEW x \in R
  PROVE  \E y \in p.file, e \in DOMAIN Written(p) :
           /\ x = <<y.member, e, y.day>>
           /\ Written(p)[e].key.start <= y.day /\ y.day <= Written(p)[e].key.end
<1> DEFINE target(y) == {e \in DOMAIN Written(p) : /\ Written(p)[e].calendar = y.calendar
                        /\ Written(p)[e].key.label = y.key.label /\ Written(p)[e].key.start = y.key.start}
           found == {y \in p.file : target(y) # {}}
           ats == {f \in [found -> DOMAIN Written(p)] : \A y \in found : f[y] \in target(y)}
<1>1. PICK at \in ats :
        R = {<<y.member, at[y], y.day>> : y \in {z \in found : Written(p)[at[z]].key.start <= z.day /\ z.day <= Written(p)[at[z]].key.end}}
  BY DEF Resolved
<1>2. PICK y \in found : /\ x = <<y.member, at[y], y.day>>
                         /\ Written(p)[at[y]].key.start <= y.day /\ y.day <= Written(p)[at[y]].key.end
  BY <1>1
<1>3. at[y] \in DOMAIN Written(p)
  BY <1>1, <1>2
<1> QED BY <1>2, <1>3

(* An exception is one that was kept, one the plan adds, or one of its file. *)
LEMMA ExceptionsAfter ==
  ASSUME NEW p, Apply(p), NEW x \in exceptions'
  PROVE  \/ x \in exceptions \ p.rests /\ x[2] \notin p.forgets /\ x \notin Outside(p) /\ x[1] \notin p.gone
         \/ x \in p.works
         \/ \E y \in p.file, e \in DOMAIN Written(p) :
              /\ x = <<y.member, e, y.day>>
              /\ Written(p)[e].key.start <= y.day /\ y.day <= Written(p)[e].key.end
<1>1. PICK R \in Resolved(p) :
        exceptions' = ((exceptions \ p.rests) \ {y \in exceptions : y[2] \in p.forgets \/ y \in Outside(p)
                                                    \/ y[1] \in p.gone}) \cup p.works \cup R
  BY DEF Apply
<1>2. CASE x \in R
  BY <1>2, ResolvedRows
<1> QED BY <1>1, <1>2

(* Without a file there is nothing to resolve. *)
LEMMA ExceptionsWithoutFile ==
  ASSUME NEW p, Apply(p), p.file = {}
  PROVE  exceptions' = ((exceptions \ p.rests) \ {y \in exceptions : y[2] \in p.forgets \/ y \in Outside(p)
                                                    \/ y[1] \in p.gone}) \cup p.works
<1>1. PICK R \in Resolved(p) :
        exceptions' = ((exceptions \ p.rests) \ {y \in exceptions : y[2] \in p.forgets \/ y \in Outside(p)
                                                    \/ y[1] \in p.gone}) \cup p.works \cup R
  BY DEF Apply
<1>2. R = {}
  BY ResolvedRows
<1> QED BY <1>1, <1>2

(* A transaction leaves rows of their kinds. *)
LEMMA ApplyKeepsTypes ==
  ASSUME RowsTypeOK, NEW p, IsPlan(p), Apply(p)
  PROVE  RowsTypeOK'
<1>1. staff' \subseteq Teams \cup Members /\ enabled' \subseteq Teams \X Calendars
  BY DEF RowsTypeOK, IsPlan, Apply
<1>2. calendars' = [c \in DOMAIN calendars' |-> calendars'[c]]
      /\ \A c \in DOMAIN calendars' : c \in Calendars /\ calendars'[c] \in Names
  BY DEF RowsTypeOK, IsPlan, Apply
<1>3. absences' = [a \in DOMAIN absences' |-> absences'[a]]
      /\ \A a \in DOMAIN absences' : a \in Absences /\ absences'[a] \in AbsenceRow
  BY DEF RowsTypeOK, IsPlan, Apply
<1>4. entries' = [e \in DOMAIN entries' |-> entries'[e]]
  BY DEF Apply, Restrict
<1>5. \A e \in DOMAIN entries' : e \in Entries /\ entries'[e] \in EntryRow
  BY EntriesAfter, WrittenRows
<1>6. ASSUME NEW x \in exceptions'
      PROVE  x \in ExceptionRow
  <2>1. CASE x \in exceptions \/ x \in p.works
    BY <2>1 DEF RowsTypeOK, IsPlan
  <2>2. ASSUME NEW y \in p.file, NEW e \in DOMAIN Written(p), x = <<y.member, e, y.day>>
        PROVE  x \in ExceptionRow
    <3>1. y.member \in Members /\ y.day \in Int
      BY DEF IsPlan, FileRow
    <3>2. e \in Entries
      BY WrittenRows
    <3> QED BY <2>2, <3>1, <3>2 DEF ExceptionRow
  <2> QED BY <2>1, <2>2, ExceptionsAfter
<1> QED BY <1>1, <1>2, <1>3, <1>4, <1>5, <1>6 DEF RowsTypeOK
-----------------------------------------------------------------------------
(* What a fitting plan does                                                *)

(* The half days of a holiday are on its days. *)
LEMMA HalfDaysAreItsDays ==
  ASSUME NEW k, NEW d, NEW h, <<d, h>> \in HalfDays(k)
  PROVE  d \in k.start .. k.end
BY DEF HalfDays

(* Nothing points at what is gone: entries at their calendar, ... *)
LEMMA EntriesKeepACalendar ==
  ASSUME RowsTypeOK, NEW p, IsPlan(p), Apply(p), Strays = {}, LeavesNoStrays(p), NEW e \in DOMAIN entries'
  PROVE  entries'[e].calendar \in DOMAIN calendars'
<1>1. DOMAIN calendars' = CalendarsAfter(p)
  BY DEF Apply, CalendarsAfter
<1>2. /\ e \in DOMAIN Written(p) /\ entries'[e] = Written(p)[e]
      /\ Written(p)[e].calendar \notin p.goneCalendars
  BY EntriesAfter DEF StaysEntry
<1>3. CASE e \in DOMAIN p.newEntries
  <2>1. entries'[e] = p.newEntries[e]
    BY <1>2, <1>3, WrittenRows
  <2> QED BY <1>1, <1>3, <2>1 DEF LeavesNoStrays
<1>4. CASE e \notin DOMAIN p.newEntries
  <2>1. e \in DOMAIN entries /\ Written(p)[e].calendar = entries[e].calendar
    BY <1>2, <1>4, WrittenRows
  <2>2. entries[e].calendar \in DOMAIN calendars
    BY <2>1 DEF Strays
  <2> QED BY <1>1, <1>2, <2>1, <2>2 DEF CalendarsAfter
<1> QED BY <1>3, <1>4

(* ... the teams' switches at their team and calendar, ... *)
LEMMA SwitchesKeepTheirs ==
  ASSUME NEW p, Apply(p), Strays = {}, LeavesNoStrays(p), NEW s \in enabled'
  PROVE  s[1] \in staff' /\ s[2] \in DOMAIN calendars'
<1>1. DOMAIN calendars' = CalendarsAfter(p) /\ staff' = StaffAfter(p)
  BY DEF Apply, CalendarsAfter, StaffAfter
<1>2. CASE s \in p.on
  BY <1>1, <1>2 DEF LeavesNoStrays
<1>3. CASE s \notin p.on
  <2>1. s \in enabled /\ s[2] \notin p.goneCalendars /\ s[1] \notin p.gone
    BY <1>3 DEF Apply
  <2>2. s[1] \in staff /\ s[2] \in DOMAIN calendars
    BY <2>1 DEF Strays
  <2> QED BY <1>1, <2>1, <2>2 DEF CalendarsAfter, StaffAfter
<1> QED BY <1>2, <1>3

(* ... and exceptions at their member and a day of their holiday. *)
LEMMA ExceptionsKeepTheirDay ==
  ASSUME RowsTypeOK, NEW p, IsPlan(p), Apply(p), Strays = {},
         Fits(p), NEW x \in exceptions'
  PROVE  /\ x[1] \in staff' /\ x[2] \in DOMAIN entries'
         /\ x[3] \in entries'[x[2]].key.start .. entries'[x[2]].key.end
<1> InsertsAreNew(p) /\ LeavesNoStrays(p)
  BY DEF Fits
<1>1. staff' = StaffAfter(p)
  BY DEF Apply, StaffAfter
<1>2. CASE x \in exceptions \ p.rests /\ x[2] \notin p.forgets /\ x \notin Outside(p) /\ x[1] \notin p.gone
  <2>1. x[1] \in staff /\ x[2] \in DOMAIN entries /\ x[3] \in DaysOf(x[2])
    BY <1>2 DEF Strays
  <2>2. x[2] \notin DOMAIN p.newEntries
    BY <2>1 DEF InsertsAreNew
  <2>3. x[2] \in DOMAIN Written(p) /\ Written(p)[x[2]].calendar = entries[x[2]].calendar
    BY <2>1, <2>2, WrittenRows
  <2>4. x[2] \notin p.goneEntries /\ entries[x[2]].calendar \notin p.goneCalendars
    BY <1>2, <2>1 DEF LeavesNoStrays
  <2>5. x[2] \in DOMAIN entries' /\ entries'[x[2]] = Written(p)[x[2]]
    BY <2>3, <2>4, EntriesAfter DEF StaysEntry
  <2>6. CASE x[2] \in DOMAIN p.moved
    <3>1. PICK h \in Halves : <<x[3], h>> \in HalfDays(p.moved[x[2]].is)
      BY <1>2, <2>6 DEF Outside
    <3>2. x[3] \in p.moved[x[2]].is.start .. p.moved[x[2]].is.end
      BY <3>1, HalfDaysAreItsDays
    <3>3. Written(p)[x[2]].key = p.moved[x[2]].is
      BY <2>1, <2>6, MovedBecome
    <3> QED BY <1>1, <1>2, <2>1, <2>5, <3>2, <3>3 DEF StaffAfter
  <2>7. CASE x[2] \notin DOMAIN p.moved
    <3>1. Written(p)[x[2]] = entries[x[2]]
      BY <2>1, <2>2, <2>7, WrittenRows
    <3> QED BY <1>1, <1>2, <2>1, <2>5, <3>1 DEF StaffAfter, DaysOf
  <2> QED BY <2>6, <2>7
<1>3. CASE x \in p.works
  <2>1. /\ x[1] \in StaffAfter(p) /\ x[2] \in DOMAIN Written(p) /\ StaysEntry(p, x[2])
        /\ x[3] \in Written(p)[x[2]].key.start .. Written(p)[x[2]].key.end
    BY <1>3 DEF LeavesNoStrays
  <2> QED BY <1>1, <2>1, EntriesAfter
<1>4. ASSUME NEW y \in p.file, NEW e \in DOMAIN Written(p), x = <<y.member, e, y.day>>,
             Written(p)[e].key.start <= y.day /\ y.day <= Written(p)[e].key.end
      PROVE  /\ x[1] \in staff' /\ x[2] \in DOMAIN entries'
             /\ x[3] \in entries'[x[2]].key.start .. entries'[x[2]].key.end
  <2>1. y.member \in StaffAfter(p) /\ p.goneEntries = {} /\ p.goneCalendars = {}
    BY DEF LeavesNoStrays
  <2>2. e \in DOMAIN entries' /\ entries'[e] = Written(p)[e]
    BY <2>1, EntriesAfter DEF StaysEntry
  <2>3. y.day \in Int
    BY DEF IsPlan, FileRow
  <2>4. Written(p)[e].key \in Mixes
    BY WrittenRows DEF EntryRow
  <2>5. Written(p)[e].key.start \in Nat /\ Written(p)[e].key.end \in Nat
    BY <2>4, MixesAreDated
  <2>6. y.day \in Written(p)[e].key.start .. Written(p)[e].key.end
    BY <1>4, <2>3, <2>5
  <2> QED BY <1>1, <1>4, <2>1, <2>2, <2>6
<1> QED BY <1>2, <1>3, <1>4, ExceptionsAfter

(* A fitting plan leaves nothing behind. *)
LEMMA FittingLeavesNoStrays ==
  ASSUME RowsTypeOK, NEW p, IsPlan(p), Apply(p), Fits(p), Strays = {}
  PROVE  Strays' = {}
<1>1. \A e \in DOMAIN entries' : entries'[e].calendar \in DOMAIN calendars'
  BY EntriesKeepACalendar DEF Fits
<1>2. \A s \in enabled' : s[1] \in staff' /\ s[2] \in DOMAIN calendars'
  BY SwitchesKeepTheirs DEF Fits
<1>3. \A x \in exceptions' : /\ x[1] \in staff' /\ x[2] \in DOMAIN entries'
                             /\ x[3] \in entries'[x[2]].key.start .. entries'[x[2]].key.end
  BY ExceptionsKeepTheirDay DEF Fits
<1> QED BY <1>1, <1>2, <1>3 DEF Strays, DaysOf

(* Where no holiday was typed, a fitting plan puts none beside one like it. *)
LEMMA FittingAddsNoTwins ==
  ASSUME RowsTypeOK, NEW p, IsPlan(p), Apply(p), Fits(p), p.op \notin {"entry", "edit"}, NEW c
  PROVE  TwinsOf(c)' \subseteq TwinsOf(c)
<1> SUFFICES ASSUME NEW e \in EntriesOf(c)', NEW f \in EntriesOf(c)',
                    e # f, entries'[e].key = entries'[f].key
             PROVE  e \in EntriesOf(c) /\ f \in EntriesOf(c) /\ entries[e].key = entries[f].key
  BY DEF TwinsOf
<1>1. /\ e \in DOMAIN entries' /\ entries'[e].calendar = c
      /\ f \in DOMAIN entries' /\ entries'[f].calendar = c
  BY DEF EntriesOf
<1>2. /\ e \in DOMAIN Written(p) \ p.goneEntries /\ entries'[e] = Written(p)[e]
      /\ f \in DOMAIN Written(p) \ p.goneEntries /\ entries'[f] = Written(p)[f]
  BY <1>1, EntriesAfter DEF StaysEntry
<1>3. /\ DOMAIN p.moved = {}
      /\ \A i \in DOMAIN p.newEntries, j \in DOMAIN Written(p) \ p.goneEntries :
           Written(p)[j].calendar = p.newEntries[i].calendar /\ Written(p)[j].key = p.newEntries[i].key => j = i
  BY DEF Fits, AddsNoTwins
<1>4. e \notin DOMAIN p.newEntries
  <2> SUFFICES ASSUME e \in DOMAIN p.newEntries PROVE FALSE
    OBVIOUS
  <2>1. Written(p)[e] = p.newEntries[e]
    BY WrittenRows
  <2> QED BY <1>1, <1>2, <1>3, <2>1
<1>5. f \notin DOMAIN p.newEntries
  <2> SUFFICES ASSUME f \in DOMAIN p.newEntries PROVE FALSE
    OBVIOUS
  <2>1. Written(p)[f] = p.newEntries[f]
    BY WrittenRows
  <2> QED BY <1>1, <1>2, <1>3, <2>1
<1>6. e \in DOMAIN entries /\ Written(p)[e] = entries[e]
  BY <1>2, <1>3, <1>4, WrittenRows
<1>7. f \in DOMAIN entries /\ Written(p)[f] = entries[f]
  BY <1>2, <1>3, <1>5, WrittenRows
<1> QED BY <1>1, <1>2, <1>6, <1>7 DEF EntriesOf
-----------------------------------------------------------------------------
(* A re-read that finds the same holidays                                  *)

(* An entry the plan neither adds, moves nor removes stays as it was. *)
LEMMA OthersStay ==
  ASSUME RowsTypeOK, NEW p, IsPlan(p), Apply(p), NEW e \in DOMAIN entries,
         e \notin DOMAIN p.newEntries, e \notin DOMAIN p.moved,
         e \notin p.goneEntries, entries[e].calendar \notin p.goneCalendars
  PROVE  e \in DOMAIN entries' /\ entries'[e] = entries[e]
<1>1. e \in DOMAIN Written(p) /\ Written(p)[e] = entries[e]
  BY WrittenRows
<1>2. StaysEntry(p, e)
  BY <1>1 DEF StaysEntry
<1> QED BY <1>1, <1>2, EntriesAfter

(* A new entry of a calendar that stays is there afterwards. *)
LEMMA NewAreThere ==
  ASSUME RowsTypeOK, NEW p, IsPlan(p), Apply(p), NEW e \in DOMAIN p.newEntries,
         e \notin p.goneEntries, p.newEntries[e].calendar \notin p.goneCalendars
  PROVE  e \in DOMAIN entries' /\ entries'[e] = p.newEntries[e]
<1>1. e \in DOMAIN Written(p) /\ Written(p)[e] = p.newEntries[e]
  BY WrittenRows
<1>2. StaysEntry(p, e)
  BY <1>1 DEF StaysEntry
<1> QED BY <1>1, <1>2, EntriesAfter

LEMMA SameEntries ==
  ASSUME RowsTypeOK, RowsTypeOK', DOMAIN entries' = DOMAIN entries,
         \A e \in DOMAIN entries : entries'[e] = entries[e]
  PROVE  entries' = entries
BY DEF RowsTypeOK

(* Where a calendar has no twins, its key tells an entry, before and after. *)
LEMMA KeyTells ==
  ASSUME NoTwins, NEW c \in Calendars, NEW e \in EntriesOf(c), NEW f \in EntriesOf(c),
         entries[e].key = entries[f].key
  PROVE  e = f
<1> SUFFICES ASSUME e # f PROVE FALSE
  OBVIOUS
<1> DEFINE x == <<e, f>>
<1>1. x \in EntriesOf(c) \X EntriesOf(c) /\ x[1] = e /\ x[2] = f
  OBVIOUS
<1> HIDE DEF x
<1>2. x \in TwinsOf(c)
  BY <1>1 DEF TwinsOf
<1> QED BY <1>2 DEF NoTwins

LEMMA KeyTellsAfter ==
  ASSUME NoTwins', NEW c \in Calendars, NEW e \in DOMAIN entries', NEW f \in DOMAIN entries',
         entries'[e].calendar = c, entries'[f].calendar = c, entries'[e].key = entries'[f].key
  PROVE  e = f
<1> SUFFICES ASSUME e # f PROVE FALSE
  OBVIOUS
<1> DEFINE x == <<e, f>>
<1>1. x \in EntriesOf(c)' \X EntriesOf(c)' /\ x[1] = e /\ x[2] = f
  BY DEF EntriesOf
<1> HIDE DEF x
<1>2. x \in TwinsOf(c)'
  BY <1>1 DEF TwinsOf
<1> QED BY <1>2 DEF NoTwins

(* A key that is there before is there after, and the other way round. *)
LEMMA FoundAfter ==
  ASSUME SameHolidays, NEW c \in DOMAIN calendars, NEW e \in EntriesOf(c)
  PROVE  \E f \in DOMAIN entries' : entries'[f].calendar = c /\ entries'[f].key = entries[e].key
<1>1. entries[e].key \in KeysOf(c)'
  BY DEF SameHolidays, KeysOf
<1> QED BY <1>1 DEF KeysOf, EntriesOf

LEMMA FoundBefore ==
  ASSUME SameHolidays, NEW c \in DOMAIN calendars, NEW e \in DOMAIN entries', entries'[e].calendar = c
  PROVE  \E f \in EntriesOf(c) : entries[f].key = entries'[e].key
<1>1. entries'[e].key \in KeysOf(c)'
  BY DEF KeysOf, EntriesOf
<1> QED BY <1>1 DEF SameHolidays, KeysOf

LEMMA CalendarsTyped ==
  ASSUME RowsTypeOK
  PROVE  DOMAIN calendars \subseteq Calendars
BY DEF RowsTypeOK

(* A plan that only adds cannot find the same holidays without a twin, ... *)
LEMMA AddsAreNoReread ==
  ASSUME RowsTypeOK, NEW p, IsPlan(p), Apply(p), Fits(p), OnlyAdds(p), Reread, NoTwins'
  PROVE  FALSE
<1>1. RowsTypeOK' BY ApplyKeepsTypes
<1>2. PICK e : e \in DOMAIN p.newEntries
  <2> SUFFICES ASSUME DOMAIN p.newEntries = {} PROVE FALSE
    OBVIOUS
  <2>1. \A f \in DOMAIN entries : f \in DOMAIN entries' /\ entries'[f] = entries[f]
    BY OthersStay DEF OnlyAdds
  <2>2. DOMAIN entries' \subseteq DOMAIN entries
    BY EntriesAfter, WrittenRows
  <2> QED BY <1>1, <2>1, <2>2, SameEntries DEF Reread
<1> DEFINE c == p.newEntries[e].calendar
<1>3. c \in DOMAIN calendars /\ c \in Calendars
  <2>1. c \in CalendarsAfter(p)
    BY <1>2 DEF Fits, LeavesNoStrays
  <2>2. DOMAIN calendars' = CalendarsAfter(p)
    BY DEF Apply, CalendarsAfter
  <2> QED BY <2>1, <2>2, CalendarsTyped DEF Reread
<1>4. e \in DOMAIN entries' /\ entries'[e] = p.newEntries[e]
  BY <1>2, NewAreThere DEF OnlyAdds
<1>5. PICK f \in EntriesOf(c) : entries[f].key = entries'[e].key
  BY <1>3, <1>4, FoundBefore DEF Reread
<1>6. f \notin DOMAIN p.newEntries /\ f \in DOMAIN entries
  BY <1>5 DEF Fits, InsertsAreNew, EntriesOf
<1>7. f \in DOMAIN entries' /\ entries'[f] = entries[f]
  BY <1>6, OthersStay DEF OnlyAdds
<1>8. entries'[f].calendar = c
  BY <1>7 DEF EntriesOf
<1>9. e = f
  BY <1>3, <1>4, <1>5, <1>7, <1>8, KeyTellsAfter
<1> QED BY <1>2, <1>6, <1>9

(* ... nor can one that moves an entry, ... *)
LEMMA MovesAreNoReread ==
  ASSUME RowsTypeOK, NEW p, IsPlan(p), Apply(p), Fits(p), OnlyMoves(p), Reread, NoTwins'
  PROVE  FALSE
<1>1. RowsTypeOK' BY ApplyKeepsTypes
<1>2. ASSUME NEW e \in DOMAIN entries
      PROVE  /\ e \in DOMAIN entries' /\ entries'[e].calendar = entries[e].calendar
             /\ e \notin DOMAIN p.moved => entries'[e] = entries[e]
  <2>1. /\ e \in DOMAIN Written(p) /\ Written(p)[e].calendar = entries[e].calendar
        /\ e \notin DOMAIN p.moved => Written(p)[e] = entries[e]
    BY WrittenRows DEF OnlyMoves
  <2> QED BY <2>1, EntriesAfter DEF OnlyMoves, StaysEntry
<1>3. PICK e \in DOMAIN entries \cap DOMAIN p.moved : entries'[e].key # entries[e].key
  <2> SUFFICES ASSUME \A e \in DOMAIN entries \cap DOMAIN p.moved : entries'[e].key = entries[e].key PROVE FALSE
    OBVIOUS
  <2>1. DOMAIN entries' \subseteq DOMAIN entries
    BY EntriesAfter, WrittenRows DEF OnlyMoves
  <2>2. ASSUME NEW e \in DOMAIN entries PROVE entries'[e] = entries[e]
    <3>1. entries'[e] \in EntryRow /\ entries[e] \in EntryRow
      BY <1>1, <1>2 DEF RowsTypeOK
    <3>2. entries'[e].key = entries[e].key /\ entries'[e].calendar = entries[e].calendar
      BY <1>2
    <3> QED BY <3>1, <3>2 DEF EntryRow
  <2> QED BY <1>1, <1>2, <2>1, <2>2, SameEntries DEF Reread
<1> DEFINE c == entries[e].calendar
<1>4. c \in DOMAIN calendars /\ c \in Calendars
  BY <1>3, CalendarsTyped DEF OnlyMoves
<1>5. PICK f \in EntriesOf(c) : entries[f].key = entries'[e].key
  BY <1>2, <1>3, <1>4, FoundBefore DEF Reread
<1>6. f # e /\ f \in DOMAIN entries /\ entries[f].calendar = c
  BY <1>3, <1>5 DEF EntriesOf
<1>7. f \in DOMAIN entries' /\ entries'[f] = entries[f]
  BY <1>2, <1>3, <1>6 DEF OnlyMoves
<1>8. e \in DOMAIN entries' /\ entries'[e].calendar = c
  BY <1>2, <1>3
<1> HIDE DEF c
<1>9. e = f
  BY <1>4, <1>5, <1>6, <1>7, <1>8, KeyTellsAfter
<1> QED BY <1>6, <1>9

(* ... nor one that removes some. *)
LEMMA RemovesAreNoReread ==
  ASSUME RowsTypeOK, NEW p, IsPlan(p), Apply(p), OnlyRemoves(p), Reread, NoTwins
  PROVE  FALSE
<1>1. RowsTypeOK' BY ApplyKeepsTypes
<1>2. p.goneCalendars = {}
  <2>1. DOMAIN calendars' = CalendarsAfter(p)
    BY DEF Apply, CalendarsAfter
  <2> QED BY <2>1 DEF Reread, OnlyRemoves, CalendarsAfter
<1>3. \A e \in DOMAIN entries \ p.goneEntries : e \in DOMAIN entries' /\ entries'[e] = entries[e]
  BY <1>2, OthersStay DEF OnlyRemoves
<1>4. DOMAIN entries' \subseteq DOMAIN entries \ p.goneEntries
  BY EntriesAfter, WrittenRows DEF OnlyRemoves, StaysEntry
<1>5. PICK e : e \in p.goneEntries
  <2> SUFFICES ASSUME p.goneEntries = {} PROVE FALSE
    OBVIOUS
  <2> QED BY <1>1, <1>3, <1>4, SameEntries DEF Reread
<1> DEFINE c == entries[e].calendar
<1>6. e \in DOMAIN entries /\ c \in DOMAIN calendars /\ c \in Calendars
  BY <1>5, CalendarsTyped DEF OnlyRemoves
<1>7. e \in EntriesOf(c)
  BY <1>6 DEF EntriesOf
<1>8. PICK f \in DOMAIN entries' : entries'[f].calendar = c /\ entries'[f].key = entries[e].key
  BY <1>6, <1>7, FoundAfter DEF Reread
<1>9. f \in EntriesOf(c) /\ f # e /\ entries[f].key = entries[e].key
  BY <1>3, <1>4, <1>5, <1>8 DEF EntriesOf
<1> HIDE DEF c
<1>10. e = f
  BY <1>6, <1>7, <1>9, KeyTells
<1> QED BY <1>9, <1>10
(* What a re-read leaves alone. *)
LEMMA CarriedOnly ==
  ASSUME RowsTypeOK, RowsTypeOK', NEW p, Apply(p), CarriesOver(p)
  PROVE  /\ staff' = staff /\ enabled' = enabled /\ absences' = absences
         /\ exceptions' = {x \in exceptions : x[2] \notin p.goneEntries} \cup p.works
<1>1. staff' = staff /\ enabled' = enabled
  BY DEF Apply, CarriesOver
<1>2. DOMAIN absences' = DOMAIN absences /\ \A a \in DOMAIN absences : absences'[a] = absences[a]
  BY DEF Apply, CarriesOver
<1>3. absences' = absences
  BY <1>2 DEF RowsTypeOK
<1>4. Outside(p) = {}
  BY DEF Outside, CarriesOver
<1>5. p.file = {} /\ p.rests = {} /\ p.gone = {} /\ p.forgets = p.goneEntries
  BY DEF CarriesOver
<1>6. exceptions' = {x \in exceptions : x[2] \notin p.goneEntries} \cup p.works
  BY <1>4, <1>5, ExceptionsWithoutFile
<1> QED BY <1>1, <1>3, <1>6

(* Whom a holiday had off before a re-read, its successor has off after it. *)
LEMMA CarriedStaysOff ==
  ASSUME RowsTypeOK, NEW p, IsPlan(p), Apply(p), Fits(p), CarriesOver(p), Reread, NoTwins,
         NEW m, NEW d, NEW h, OnHoliday(m, d, h)
  PROVE  OnHoliday(m, d, h)'
<1>1. RowsTypeOK' BY ApplyKeepsTypes
<1>2. PICK e \in TeamEntries(TeamOf[m]) : <<d, h>> \in HalfDays(entries[e].key) /\ <<m, e, d>> \notin exceptions
  BY DEF OnHoliday
<1>3. e \in DOMAIN entries /\ <<TeamOf[m], entries[e].calendar>> \in enabled
  BY <1>2 DEF TeamEntries
<1>4. enabled' = enabled /\ exceptions' = {x \in exceptions : x[2] \notin p.goneEntries} \cup p.works
  BY <1>1, CarriedOnly
<1>5. \A x \in p.works : /\ x[2] \in DOMAIN p.newEntries
                         /\ \E f \in p.goneEntries : /\ entries[f].key = p.newEntries[x[2]].key
                                                     /\ <<x[1], f, x[3]>> \in exceptions
  BY DEF CarriesOver
<1>6. \A i \in DOMAIN p.newEntries : i \notin DOMAIN entries /\ \A x \in exceptions : x[2] # i
  BY DEF Fits, InsertsAreNew
<1>7. CASE e \notin p.goneEntries
  <2>1. e \in DOMAIN entries' /\ entries'[e] = entries[e]
    BY <1>3, <1>6, <1>7, OthersStay DEF CarriesOver
  <2>2. <<m, e, d>> \notin p.works
    BY <1>3, <1>5, <1>6
  <2>3. <<m, e, d>> \notin exceptions'
    BY <1>2, <1>4, <2>2
  <2>4. e \in TeamEntries(TeamOf[m])'
    BY <1>3, <1>4, <2>1 DEF TeamEntries
  <2> QED BY <1>2, <2>1, <2>3, <2>4 DEF OnHoliday
<1>8. CASE e \in p.goneEntries
  <2>1. PICK c \in DOMAIN calendars : p.goneEntries \subseteq EntriesOf(c)
    BY DEF CarriesOver
  <2>2. e \in EntriesOf(c) /\ c \in Calendars /\ entries[e].calendar = c
    BY <1>8, <2>1, CalendarsTyped DEF EntriesOf
  <2>3. PICK n \in DOMAIN entries' : entries'[n].calendar = c /\ entries'[n].key = entries[e].key
    BY <2>1, <2>2, FoundAfter DEF Reread
  <2>4. n \in DOMAIN p.newEntries
    <3> SUFFICES ASSUME n \notin DOMAIN p.newEntries PROVE FALSE
      OBVIOUS
    <3>1. n \in DOMAIN entries /\ n \notin p.goneEntries /\ entries'[n] = entries[n]
      BY <2>3, EntriesAfter, WrittenRows DEF CarriesOver, StaysEntry
    <3>2. n \in EntriesOf(c) /\ entries[n].key = entries[e].key
      BY <2>3, <3>1 DEF EntriesOf
    <3>3. n = e
      BY <2>2, <3>2, KeyTells
    <3> QED BY <1>8, <3>1, <3>3
  <2>5. entries'[n] = p.newEntries[n]
    BY <2>3, <2>4, EntriesAfter, WrittenRows
  <2>6. <<m, n, d>> \notin p.works
    <3> SUFFICES ASSUME <<m, n, d>> \in p.works PROVE FALSE
      OBVIOUS
    <3>1. PICK f \in p.goneEntries : entries[f].key = p.newEntries[n].key /\ <<m, f, d>> \in exceptions
      BY <1>5
    <3>2. f \in EntriesOf(c) /\ entries[f].key = entries[e].key
      BY <2>1, <2>3, <2>5, <3>1
    <3>3. f = e
      BY <2>2, <3>2, KeyTells
    <3> QED BY <1>2, <3>1, <3>3
  <2>7. <<m, n, d>> \notin exceptions'
    BY <1>4, <1>6, <2>4, <2>6
  <2>8. n \in TeamEntries(TeamOf[m])'
    BY <1>3, <1>4, <2>2, <2>3 DEF TeamEntries
  <2>9. <<d, h>> \in HalfDays(entries'[n].key)
    BY <1>2, <2>3
  <2> QED BY <2>7, <2>8, <2>9 DEF OnHoliday
<1> QED BY <1>7, <1>8

(* Whom the successor has off, the holiday had off. *)
LEMMA CarriedWasOff ==
  ASSUME RowsTypeOK, NEW p, IsPlan(p), Apply(p), Fits(p), CarriesOver(p), Reread, NoTwins',
         NEW m, NEW d, NEW h, OnHoliday(m, d, h)'
  PROVE  OnHoliday(m, d, h)
<1>1. RowsTypeOK' BY ApplyKeepsTypes
<1>2. PICK n \in TeamEntries(TeamOf[m])' : <<d, h>> \in HalfDays(entries'[n].key) /\ <<m, n, d>> \notin exceptions'
  BY DEF OnHoliday
<1>3. n \in DOMAIN entries' /\ <<TeamOf[m], entries'[n].calendar>> \in enabled'
  BY <1>2 DEF TeamEntries
<1>4. enabled' = enabled /\ exceptions' = {x \in exceptions : x[2] \notin p.goneEntries} \cup p.works
  BY <1>1, CarriedOnly
<1>5. \A x \in exceptions, e \in DOMAIN p.newEntries :
        x[2] \in p.goneEntries /\ entries[x[2]].key = p.newEntries[e].key => <<x[1], e, x[3]>> \in p.works
  BY DEF CarriesOver
<1>6. n \in DOMAIN Written(p) /\ n \notin p.goneEntries /\ entries'[n] = Written(p)[n]
  BY <1>3, EntriesAfter DEF StaysEntry
<1>7. CASE n \notin DOMAIN p.newEntries
  <2>1. n \in DOMAIN entries /\ entries'[n] = entries[n]
    BY <1>6, <1>7, WrittenRows DEF CarriesOver
  <2>2. <<m, n, d>> \notin exceptions
    BY <1>2, <1>4, <1>6
  <2>3. n \in TeamEntries(TeamOf[m])
    BY <1>3, <1>4, <2>1 DEF TeamEntries
  <2> QED BY <1>2, <2>1, <2>2, <2>3 DEF OnHoliday
<1>8. CASE n \in DOMAIN p.newEntries
  <2>1. PICK c \in DOMAIN calendars : /\ p.goneEntries \subseteq EntriesOf(c)
                                      /\ \A e \in DOMAIN p.newEntries : p.newEntries[e].calendar = c
    BY DEF CarriesOver
  <2>2. entries'[n] = p.newEntries[n] /\ entries'[n].calendar = c /\ c \in Calendars
    BY <1>6, <1>8, <2>1, WrittenRows, CalendarsTyped
  <2>3. PICK e \in EntriesOf(c) : entries[e].key = entries'[n].key
    BY <1>3, <2>1, <2>2, FoundBefore DEF Reread
  <2>4. e \in DOMAIN entries /\ entries[e].calendar = c
    BY <2>3 DEF EntriesOf
  <2>5. e \in p.goneEntries
    <3> SUFFICES ASSUME e \notin p.goneEntries PROVE FALSE
      OBVIOUS
    <3>1. e \notin DOMAIN p.newEntries
      BY <2>4 DEF Fits, InsertsAreNew
    <3>2. e \in DOMAIN entries' /\ entries'[e] = entries[e]
      BY <2>4, <3>1, OthersStay DEF CarriesOver
    <3>3. e = n
      BY <1>3, <2>2, <2>3, <2>4, <3>2, KeyTellsAfter
    <3> QED BY <1>8, <3>1, <3>3
  <2>6. <<m, e, d>> \notin exceptions
    <3> SUFFICES ASSUME <<m, e, d>> \in exceptions PROVE FALSE
      OBVIOUS
    <3>1. <<m, n, d>> \in p.works
      BY <1>5, <1>8, <2>2, <2>3, <2>5
    <3> QED BY <1>2, <1>4, <3>1
  <2>7. e \in TeamEntries(TeamOf[m])
    BY <1>3, <1>4, <2>2, <2>4 DEF TeamEntries
  <2> QED BY <1>2, <2>3, <2>6, <2>7 DEF OnHoliday
<1> QED BY <1>7, <1>8

-----------------------------------------------------------------------------
(* Who is off                                                              *)

(* Nobody is moved by a step that leaves each member off as before. *)
LEMMA OffWorkByMember ==
  ASSUME staff' = staff,
         ASSUME NEW m \in Members, NEW d, NEW h PROVE IsOff(m, d, h)' <=> IsOff(m, d, h)
  PROVE  OffWork' = OffWork
<1>1. MembersThere' = MembersThere /\ MembersThere \subseteq Members
  BY DEF MembersThere
<1> QED BY <1>1 DEF OffWork

(* A re-read that finds the same holidays moves nobody. *)
LEMMA CarryingMovesNobody ==
  ASSUME RowsTypeOK, NEW p, IsPlan(p), Apply(p), Fits(p), CarriesOver(p), Reread, NoTwins, NoTwins'
  PROVE  OffWork' = OffWork
<1>1. staff' = staff /\ absences' = absences
  BY CarriedOnly, ApplyKeepsTypes
<1>2. ASSUME NEW m \in Members, NEW d, NEW h
      PROVE  IsOff(m, d, h)' <=> IsOff(m, d, h)
  <2>1. OnHoliday(m, d, h)' <=> OnHoliday(m, d, h)
    BY CarriedStaysOff, CarriedWasOff
  <2> QED BY <1>1, <2>1 DEF IsOff
<1> QED BY <1>1, <1>2, OffWorkByMember

(* Nor does a clean-up: what it deletes, a holiday covers for the same member. *)
LEMMA ClearingMovesNobody ==
  ASSUME RowsTypeOK, NEW p, IsPlan(p), Apply(p), ClearsRedundant(p)
  PROVE  OffWork' = OffWork
<1>1. RowsTypeOK' BY ApplyKeepsTypes
<1>2. staff' = staff /\ enabled' = enabled
  BY DEF Apply, ClearsRedundant
<1>3. entries' = entries
  <2>1. \A e \in DOMAIN entries : e \in DOMAIN entries' /\ entries'[e] = entries[e]
    BY OthersStay DEF ClearsRedundant
  <2>2. DOMAIN entries' \subseteq DOMAIN entries
    BY EntriesAfter, WrittenRows DEF ClearsRedundant
  <2> QED BY <1>1, <2>1, <2>2, SameEntries
<1>4. exceptions' = exceptions
  <2>1. Outside(p) = {}
    BY DEF Outside, ClearsRedundant
  <2>2. p.file = {} /\ p.rests = {} /\ p.gone = {} /\ p.forgets = {} /\ p.works = {}
    BY DEF ClearsRedundant
  <2> QED BY <2>1, <2>2, ExceptionsWithoutFile
<1>5. /\ DOMAIN absences' = DOMAIN absences \ p.goneAbsences
      /\ \A a \in DOMAIN absences' : absences'[a] = absences[a]
  BY DEF Apply, ClearsRedundant
<1>6. ASSUME NEW m \in Members, NEW d, NEW h
      PROVE  IsOff(m, d, h)' <=> IsOff(m, d, h)
  <2>1. OnHoliday(m, d, h)' <=> OnHoliday(m, d, h)
    BY <1>2, <1>3, <1>4 DEF OnHoliday, TeamEntries
  <2>2. ASSUME NEW a \in p.goneAbsences, absences[a].member = m, <<d, h>> \in HalfDays(absences[a].key)
        PROVE  OnHoliday(m, d, h)
    <3>1. Redundant(a)
      BY DEF ClearsRedundant
    <3>2. <<d, h>>[1] = d /\ <<d, h>>[2] = h
      OBVIOUS
    <3> QED BY <2>2, <3>1, <3>2 DEF Redundant
  <2> QED BY <1>5, <2>1, <2>2 DEF IsOff
<1> QED BY <1>2, <1>6, OffWorkByMember

(* Only a clean-up takes absences away from a staff that stays. *)
LEMMA CleaningClears ==
  ASSUME RowsTypeOK, NEW p, IsPlan(p), Apply(p), Fits(p), Cleaned
  PROVE  ClearsRedundant(p)
<1> SUFFICES ASSUME p.goneAbsences = {} PROVE FALSE
  BY DEF Fits
<1>1. RowsTypeOK' BY ApplyKeepsTypes
<1>2. p.gone = {}
  <2> SUFFICES ASSUME NEW s \in p.gone, s \in staff PROVE FALSE
    BY DEF Fits
  <2> QED BY DEF Apply, Cleaned
<1>3. /\ DOMAIN absences' = DOMAIN absences \cup DOMAIN p.newAbsences
      /\ \A a \in DOMAIN absences : a \notin DOMAIN p.newAbsences => absences'[a] = absences[a]
  BY <1>2 DEF Apply
<1>4. DOMAIN p.newAbsences = {}
  BY <1>3 DEF Cleaned, Fits, InsertsAreNew
<1>5. absences' = absences
  BY <1>1, <1>3, <1>4 DEF RowsTypeOK
<1> QED BY <1>5 DEF Cleaned

(* A fitting plan moves nobody unasked. *)
LEMMA FittingMovesNobody ==
  ASSUME RowsTypeOK, NEW p, IsPlan(p), Apply(p), Fits(p), Cleaned \/ (Reread /\ NoTwins /\ NoTwins')
  PROVE  OffWork' = OffWork
<1>1. CASE Cleaned
  BY <1>1, CleaningClears, ClearingMovesNobody
<1>2. CASE Reread /\ NoTwins /\ NoTwins'
  <2>1. CarriesOver(p)
    BY <1>2, AddsAreNoReread, MovesAreNoReread, RemovesAreNoReread DEF Fits
  <2> QED BY <1>2, <2>1, CarryingMovesNobody
<1> QED BY <1>1, <1>2
-----------------------------------------------------------------------------
(* What every handler decides                                              *)



(* The plans of the short handlers, by the field they fill. *)
LEMMA CalendarPlans ==
  ASSUME RowsTypeOK, NEW c \in Calendars, NEW n \in Names, NEW op \in {"create", "rename"}
  PROVE  LET p == [Quiet EXCEPT !.op = op, !.newCalendars = [d \in {c} |-> n]]
         IN IsPlan(p) /\ Fits(p) /\ p.op = op
<1> DEFINE p == [Quiet EXCEPT !.op = op, !.newCalendars = [d \in {c} |-> n]]
<1>1. IsPlan(p) /\ p.op = op
  BY DEF Quiet, IsPlan
<1>2. InsertsAreNew(p) /\ LeavesNoStrays(p) /\ OnlyAdds(p) /\ p.goneAbsences = {} /\ p.gone = {}
  BY DEF Quiet, InsertsAreNew, LeavesNoStrays, OnlyAdds
<1>3. AddsNoTwins(p)
  BY DEF Quiet, AddsNoTwins
<1> QED BY <1>1, <1>2, <1>3 DEF Fits

LEMMA DeleteCalendarFits ==
  ASSUME RowsTypeOK, NEW c \in DOMAIN calendars
  PROVE  LET p == [Quiet EXCEPT !.op = "delete", !.goneCalendars = {c}, !.forgets = EntriesOf(c)]
         IN IsPlan(p) /\ Fits(p) /\ p.op = "delete"
<1> DEFINE p == [Quiet EXCEPT !.op = "delete", !.goneCalendars = {c}, !.forgets = EntriesOf(c)]
<1>1. IsPlan(p) /\ p.op = "delete"
  BY DEF Quiet, IsPlan
<1>2. InsertsAreNew(p) /\ OnlyRemoves(p) /\ p.goneAbsences = {} /\ p.gone = {}
  BY DEF Quiet, InsertsAreNew, OnlyRemoves
<1>3. LeavesNoStrays(p)
  BY DEF Quiet, LeavesNoStrays, EntriesOf
<1>4. AddsNoTwins(p)
  BY DEF Quiet, AddsNoTwins
<1> QED BY <1>1, <1>2, <1>3, <1>4 DEF Fits

LEMMA CreateEntryFits ==
  ASSUME RowsTypeOK, NEW c \in DOMAIN calendars, NEW k \in Keys, NEW e \in FreshEntries
  PROVE  LET p == [Quiet EXCEPT !.op = "entry", !.newEntries = [f \in {e} |-> NewEntry(c, k)]]
         IN IsPlan(p) /\ Fits(p) /\ p.op = "entry"
<1> DEFINE p == [Quiet EXCEPT !.op = "entry", !.newEntries = [f \in {e} |-> NewEntry(c, k)]]
<1>1. IsPlan(p) /\ p.op = "entry"
  BY DEF Quiet, IsPlan, NewEntry, NewRow, FreshEntries, RowsTypeOK
<1>2. OnlyAdds(p) /\ p.goneAbsences = {} /\ p.gone = {}
  BY DEF Quiet, OnlyAdds
<1>3. InsertsAreNew(p)
  BY DEF Quiet, InsertsAreNew, FreshEntries
<1>4. LeavesNoStrays(p)
  BY DEF Quiet, LeavesNoStrays, NewEntry, CalendarsAfter
<1>5. AddsNoTwins(p)
  BY DEF Quiet, AddsNoTwins
<1> QED BY <1>1, <1>2, <1>3, <1>4, <1>5 DEF Fits

LEMMA UpdateEntryFits ==
  ASSUME RowsTypeOK, NEW e \in DOMAIN entries, NEW k \in Keys, entries[e].calendar \in DOMAIN calendars
  PROVE  LET p == [Quiet EXCEPT !.op = "edit", !.moved = [f \in {e} |-> Edited(e, k)]]
         IN IsPlan(p) /\ Fits(p) /\ p.op = "edit"
<1> DEFINE p == [Quiet EXCEPT !.op = "edit", !.moved = [f \in {e} |-> Edited(e, k)]]
<1>1. IsPlan(p) /\ p.op = "edit"
  BY DEF Quiet, IsPlan, Edited, RowsTypeOK, EntryRow
<1>2. OnlyMoves(p) /\ p.goneAbsences = {} /\ p.gone = {}
  BY DEF Quiet, OnlyMoves, Edited
<1>3. InsertsAreNew(p) /\ LeavesNoStrays(p) /\ AddsNoTwins(p)
  BY DEF Quiet, InsertsAreNew, LeavesNoStrays, AddsNoTwins
<1> QED BY <1>1, <1>2, <1>3 DEF Fits

LEMMA DeleteEntryFits ==
  ASSUME RowsTypeOK, NEW e \in DOMAIN entries, entries[e].calendar \in DOMAIN calendars
  PROVE  LET p == [Quiet EXCEPT !.op = "delete", !.goneEntries = {e}, !.forgets = {e}]
         IN IsPlan(p) /\ Fits(p) /\ p.op = "delete"
<1> DEFINE p == [Quiet EXCEPT !.op = "delete", !.goneEntries = {e}, !.forgets = {e}]
<1>1. IsPlan(p) /\ p.op = "delete"
  BY DEF Quiet, IsPlan
<1>2. OnlyRemoves(p) /\ p.goneAbsences = {} /\ p.gone = {}
  BY DEF Quiet, OnlyRemoves
<1>3. InsertsAreNew(p) /\ LeavesNoStrays(p) /\ AddsNoTwins(p)
  BY DEF Quiet, InsertsAreNew, LeavesNoStrays, AddsNoTwins
<1> QED BY <1>1, <1>2, <1>3 DEF Fits
LEMMA EnableFits ==
  ASSUME RowsTypeOK, NEW t \in TeamsThere, NEW c \in DOMAIN calendars
  PROVE  LET p == [Quiet EXCEPT !.op = "enable", !.on = {<<t, c>>}]
         IN IsPlan(p) /\ Fits(p) /\ p.op = "enable"
<1> DEFINE p == [Quiet EXCEPT !.op = "enable", !.on = {<<t, c>>}]
<1>1. IsPlan(p) /\ p.op = "enable"
  BY CalendarsTyped DEF Quiet, IsPlan, TeamsThere
<1>2. InsertsAreNew(p) /\ OnlyAdds(p) /\ p.goneAbsences = {} /\ p.gone = {}
  BY DEF Quiet, InsertsAreNew, OnlyAdds
<1>3. LeavesNoStrays(p)
  BY DEF Quiet, LeavesNoStrays, TeamsThere, StaffAfter, CalendarsAfter
<1>4. AddsNoTwins(p)
  BY DEF Quiet, AddsNoTwins
<1> QED BY <1>1, <1>2, <1>3, <1>4 DEF Fits

LEMMA DisableFits ==
  ASSUME NEW s
  PROVE  LET p == [Quiet EXCEPT !.op = "disable", !.off = {s}]
         IN IsPlan(p) /\ Fits(p) /\ p.op = "disable"
BY DEF Quiet, IsPlan, Fits, InsertsAreNew, LeavesNoStrays, AddsNoTwins, OnlyAdds

LEMMA SetExceptionFits ==
  ASSUME RowsTypeOK, NEW m \in MembersThere, NEW e \in DOMAIN entries, NEW d \in DaysOf(e)
  PROVE  LET p == [Quiet EXCEPT !.op = "works", !.works = {<<m, e, d>>}]
         IN IsPlan(p) /\ Fits(p) /\ p.op = "works"
<1> DEFINE p == [Quiet EXCEPT !.op = "works", !.works = {<<m, e, d>>}]
<1>1. m \in Members /\ m \in staff /\ e \in Entries /\ entries[e].key \in Mixes
  BY DEF MembersThere, RowsTypeOK, EntryRow
<1>2. d \in Int
  BY <1>1, MixesAreDated DEF DaysOf
<1>3. IsPlan(p) /\ p.op = "works"
  BY <1>1, <1>2 DEF Quiet, IsPlan, ExceptionRow
<1>4. InsertsAreNew(p) /\ OnlyAdds(p) /\ p.goneAbsences = {} /\ p.gone = {} /\ p.hired = {} /\ p.goneCalendars = {}
      /\ DOMAIN p.newEntries = {}
  BY DEF Quiet, InsertsAreNew, OnlyAdds
<1>5. e \in DOMAIN Written(p) /\ Written(p)[e] = entries[e]
  BY <1>3, <1>4, WrittenRows DEF OnlyAdds
<1>6. StaysEntry(p, e) /\ m \in StaffAfter(p)
  BY <1>1, <1>4 DEF StaysEntry, StaffAfter, OnlyAdds
<1>7. \A x \in p.works : x[1] = m /\ x[2] = e /\ x[3] = d
  BY DEF Quiet
<1>8. \A x \in p.works : /\ x[1] \in StaffAfter(p) /\ x[2] \in DOMAIN Written(p) /\ StaysEntry(p, x[2])
                         /\ x[3] \in Written(p)[x[2]].key.start .. Written(p)[x[2]].key.end
  BY <1>5, <1>6, <1>7 DEF DaysOf
<1>9. p.on = {} /\ p.file = {}
  BY DEF Quiet
<1>10. LeavesNoStrays(p)
  BY <1>4, <1>8, <1>9 DEF LeavesNoStrays, OnlyAdds
<1>11. AddsNoTwins(p)
  BY DEF Quiet, AddsNoTwins
<1> QED BY <1>3, <1>4, <1>10, <1>11 DEF Fits

LEMMA ClearExceptionFits ==
  ASSUME NEW x
  PROVE  LET p == [Quiet EXCEPT !.op = "rests", !.rests = {x}]
         IN IsPlan(p) /\ Fits(p) /\ p.op = "rests"
BY DEF Quiet, IsPlan, Fits, InsertsAreNew, LeavesNoStrays, AddsNoTwins, OnlyAdds

LEMMA CleanupFits ==
  ASSUME NEW t, NEW A \in SUBSET CleanupCandidates(t)
  PROVE  LET p == [Quiet EXCEPT !.op = "cleanup", !.goneAbsences = A]
         IN IsPlan(p) /\ Fits(p) /\ p.op = "cleanup"
<1> DEFINE p == [Quiet EXCEPT !.op = "cleanup", !.goneAbsences = A]
<1>1. \A a \in A : a \in DOMAIN absences /\ Redundant(a)
  BY DEF CleanupCandidates
<1>2. ClearsRedundant(p)
  BY <1>1 DEF Quiet, ClearsRedundant
<1>3. IsPlan(p) /\ p.op = "cleanup"
  BY DEF Quiet, IsPlan
<1>4. InsertsAreNew(p) /\ LeavesNoStrays(p) /\ AddsNoTwins(p) /\ OnlyAdds(p) /\ p.gone = {}
  BY DEF Quiet, InsertsAreNew, LeavesNoStrays, AddsNoTwins, OnlyAdds
<1> QED BY <1>2, <1>3, <1>4 DEF Fits

LEMMA PostAbsenceFits ==
  ASSUME NEW m \in Members, NEW k \in Keys, NEW a \in FreshAbsences
  PROVE  LET p == [Quiet EXCEPT !.op = "absence", !.newAbsences = [b \in {a} |-> [member |-> m, key |-> k]]]
         IN IsPlan(p) /\ Fits(p) /\ p.op = "absence"
<1> DEFINE p == [Quiet EXCEPT !.op = "absence", !.newAbsences = [b \in {a} |-> [member |-> m, key |-> k]]]
<1>1. IsPlan(p) /\ p.op = "absence"
  BY DEF Quiet, IsPlan, FreshAbsences, AbsenceRow
<1>2. InsertsAreNew(p)
  BY DEF Quiet, InsertsAreNew, FreshAbsences
<1>3. LeavesNoStrays(p) /\ AddsNoTwins(p) /\ OnlyAdds(p) /\ p.goneAbsences = {} /\ p.gone = {}
  BY DEF Quiet, LeavesNoStrays, AddsNoTwins, OnlyAdds
<1> QED BY <1>1, <1>2, <1>3 DEF Fits

\* A member goes, or a team with its members.
LEMMA LeavingFits ==
  ASSUME NEW gone, gone \cap staff # {}
  PROVE  LET p == [Quiet EXCEPT !.op = "delete", !.gone = gone]
         IN IsPlan(p) /\ Fits(p) /\ p.op = "delete"
BY DEF Quiet, IsPlan, Fits, InsertsAreNew, LeavesNoStrays, AddsNoTwins, OnlyAdds

(* The new entries of an upload: one for each key, under ids of their own. *)
LEMMA AddedRows ==
  ASSUME NEW K, NEW c, NEW id \in IdsFor(K)
  PROVE  /\ \A k \in K : /\ id[k] \in DOMAIN Added(c, id) /\ Added(c, id)[id[k]] = NewEntry(c, k)
         /\ \A e \in DOMAIN Added(c, id) : /\ e \in FreshEntries
                                           /\ \E k \in K : e = id[k] /\ Added(c, id)[e] = NewEntry(c, k)
         /\ DOMAIN id = K
<1>1. id \in [K -> FreshEntries] /\ \A k, l \in K : id[k] = id[l] => k = l
  BY DEF IdsFor, OneOf, Injection, IsInjective
<1>2. DOMAIN id = K
  BY <1>1
<1>3. DOMAIN Added(c, id) = {id[k] : k \in K}
  BY <1>2 DEF Added, Range
<1>4. ASSUME NEW k \in K
      PROVE  Added(c, id)[id[k]] = NewEntry(c, k)
  <2>1. (CHOOSE l \in DOMAIN id : id[l] = id[k]) = k
    BY <1>1, <1>2
  <2> QED BY <1>3, <2>1, <1>2 DEF Added, Range
<1> QED BY <1>1, <1>2, <1>3, <1>4
LEMMA CreateEntriesFits ==
  ASSUME RowsTypeOK, NEW c \in DOMAIN calendars, NEW K \in SUBSET Keys, NEW id \in IdsFor(ToAdd(c, K))
  PROVE  LET p == [Quiet EXCEPT !.op = "add", !.newEntries = Added(c, id)]
         IN IsPlan(p) /\ Fits(p) /\ p.op = "add"
<1> DEFINE p == [Quiet EXCEPT !.op = "add", !.newEntries = Added(c, id)]
<1>1. p.newEntries = Added(c, id) /\ p.op = "add"
  BY DEF Quiet
<1>2. /\ \A k \in ToAdd(c, K) : id[k] \in DOMAIN Added(c, id) /\ Added(c, id)[id[k]] = NewEntry(c, k)
      /\ \A e \in DOMAIN Added(c, id) : /\ e \in FreshEntries
                                        /\ \E k \in ToAdd(c, K) : e = id[k] /\ Added(c, id)[e] = NewEntry(c, k)
  BY AddedRows
<1>3. c \in Calendars
  BY CalendarsTyped
<1>4. \A e \in DOMAIN Added(c, id) : e \in Entries /\ Added(c, id)[e] \in NewRow
  BY <1>2, <1>3 DEF FreshEntries, NewEntry, NewRow, ToAdd
<1>5. IsPlan(p)
  BY <1>4 DEF Quiet, IsPlan
<1>6. OnlyAdds(p) /\ p.goneAbsences = {} /\ p.gone = {}
  BY DEF Quiet, OnlyAdds
<1>7. InsertsAreNew(p)
  BY <1>2 DEF Quiet, InsertsAreNew, FreshEntries
<1>8. LeavesNoStrays(p)
  BY <1>2 DEF Quiet, LeavesNoStrays, NewEntry, CalendarsAfter
<1>9. AddsNoTwins(p)
  <2> SUFFICES ASSUME NEW e \in DOMAIN p.newEntries, NEW f \in DOMAIN Written(p),
                      Written(p)[f].calendar = p.newEntries[e].calendar, Written(p)[f].key = p.newEntries[e].key
               PROVE  f = e
    BY <1>6 DEF AddsNoTwins, OnlyAdds
  <2>1. PICK k \in ToAdd(c, K) : e = id[k] /\ p.newEntries[e] = NewEntry(c, k)
    BY <1>1, <1>2
  <2>2. CASE f \in DOMAIN p.newEntries
    <3>1. PICK l \in ToAdd(c, K) : f = id[l] /\ p.newEntries[f] = NewEntry(c, l)
      BY <1>1, <1>2, <2>2
    <3>2. Written(p)[f] = p.newEntries[f]
      BY <1>5, <2>2, WrittenRows
    <3> QED BY <2>1, <3>1, <3>2 DEF NewEntry
  <2>3. CASE f \notin DOMAIN p.newEntries
    <3>1. f \in DOMAIN entries /\ Written(p)[f] = entries[f]
      BY <1>5, <1>6, <2>3, WrittenRows DEF OnlyAdds
    <3>2. k \in KeysOf(c)
      BY <2>1, <3>1 DEF KeysOf, EntriesOf, NewEntry
    <3> QED BY <3>2 DEF ToAdd
  <2> QED BY <2>2, <2>3
<1> QED BY <1>1, <1>5, <1>6, <1>7, <1>8, <1>9 DEF Fits

\* A re-read of calendar c that finds the holidays K in its window.
Rereads(p, c, K, from, to, doomed, id) ==
  /\ K \in SUBSET Keys /\ id \in IdsFor(K) /\ from \in Nat /\ to \in Nat
  /\ \A k \in K : k.start \in from .. to
  /\ doomed = {e \in EntriesOf(c) : entries[e].key.start \in from .. to}
  /\ p = [Quiet EXCEPT !.op = "replace", !.goneEntries = doomed, !.forgets = doomed,
                       !.newEntries = Added(c, id), !.works = Carry(doomed, id)]

(* Its keys lie in its window, so nothing it keeps has one of them. *)
LEMMA ReplaceFits ==
  ASSUME RowsTypeOK, NEW p, NEW c \in DOMAIN calendars, NEW K, NEW from, NEW to, NEW doomed, NEW id,
         Rereads(p, c, K, from, to, doomed, id)
  PROVE  IsPlan(p) /\ Fits(p) /\ p.op = "replace"
<1>1. /\ p.op = "replace" /\ p.goneEntries = doomed /\ p.forgets = doomed
      /\ p.newEntries = Added(c, id) /\ p.works = Carry(doomed, id)
      /\ p.hired = {} /\ p.gone = {} /\ DOMAIN p.newCalendars = {} /\ p.goneCalendars = {}
      /\ DOMAIN p.moved = {} /\ p.on = {} /\ p.off = {} /\ p.rests = {} /\ p.file = {}
      /\ DOMAIN p.newAbsences = {} /\ p.goneAbsences = {}
  BY DEF Rereads, Quiet
<1>2. /\ \A k \in K : id[k] \in DOMAIN Added(c, id) /\ Added(c, id)[id[k]] = NewEntry(c, k)
      /\ \A e \in DOMAIN Added(c, id) : /\ e \in FreshEntries
                                        /\ \E k \in K : e = id[k] /\ Added(c, id)[e] = NewEntry(c, k)
      /\ DOMAIN id = K
  BY AddedRows DEF Rereads
<1>3. doomed \subseteq EntriesOf(c) /\ doomed \subseteq DOMAIN entries
  BY DEF Rereads, EntriesOf
<1>4. \A e \in EntriesOf(c) : entries[e].key.start \in from .. to => e \in doomed
  BY DEF Rereads
<1> K \in SUBSET Keys /\ \A k \in K : k.start \in from .. to
  BY DEF Rereads
<1>5. ASSUME NEW x \in Carry(doomed, id)
      PROVE  \E y \in exceptions : /\ y[2] \in doomed /\ entries[y[2]].key \in K
                                   /\ x[1] = y[1] /\ x[2] = id[entries[y[2]].key] /\ x[3] = y[3]
                                   /\ x = <<y[1], id[entries[y[2]].key], y[3]>>
  BY <1>2 DEF Carry
<1>6. \A y \in exceptions : y = <<y[1], y[2], y[3]>> /\ y[1] \in Members /\ y[3] \in Int
  BY DEF RowsTypeOK, ExceptionRow
<1>7. \A e \in DOMAIN Added(c, id) : e \in Entries /\ Added(c, id)[e] \in NewRow
  BY <1>2, CalendarsTyped DEF FreshEntries, NewEntry, NewRow
<1>8. Carry(doomed, id) \subseteq ExceptionRow
  BY <1>2, <1>5, <1>6, <1>7 DEF ExceptionRow
<1>9. IsPlan(p)
  BY <1>1, <1>7, <1>8 DEF IsPlan
<1>10. InsertsAreNew(p)
  BY <1>1, <1>2 DEF InsertsAreNew, FreshEntries
<1>11. \A x \in p.works : /\ x[2] \in DOMAIN p.newEntries
                          /\ \E f \in p.goneEntries : /\ entries[f].key = p.newEntries[x[2]].key
                                                      /\ <<x[1], f, x[3]>> \in exceptions
  <2> SUFFICES ASSUME NEW x \in Carry(doomed, id)
               PROVE  /\ x[2] \in DOMAIN Added(c, id)
                      /\ \E f \in doomed : /\ entries[f].key = Added(c, id)[x[2]].key
                                           /\ <<x[1], f, x[3]>> \in exceptions
    BY <1>1
  <2>1. PICK y \in exceptions : /\ y[2] \in doomed /\ entries[y[2]].key \in K
                                /\ x[1] = y[1] /\ x[2] = id[entries[y[2]].key] /\ x[3] = y[3]
    BY <1>5
  <2>2. PICK k \in K : entries[y[2]].key = k /\ x[2] = id[k]
    BY <2>1
  <2>3. x[2] \in DOMAIN Added(c, id) /\ Added(c, id)[x[2]] = NewEntry(c, k)
    BY <1>2, <2>2
  <2>4. Added(c, id)[x[2]].key = entries[y[2]].key
    BY <2>2, <2>3 DEF NewEntry
  <2>5. <<x[1], y[2], x[3]>> \in exceptions
    BY <1>6, <2>1
  <2> QED BY <2>1, <2>3, <2>4, <2>5
<1>12. \A x \in exceptions, e \in DOMAIN p.newEntries :
         x[2] \in p.goneEntries /\ entries[x[2]].key = p.newEntries[e].key => <<x[1], e, x[3]>> \in p.works
  <2> SUFFICES ASSUME NEW x \in exceptions, NEW e \in DOMAIN Added(c, id),
                      x[2] \in doomed, entries[x[2]].key = Added(c, id)[e].key
               PROVE  <<x[1], e, x[3]>> \in Carry(doomed, id)
    BY <1>1
  <2>1. PICK k \in K : e = id[k] /\ Added(c, id)[e] = NewEntry(c, k)
    BY <1>2
  <2>2. entries[x[2]].key = k
    BY <2>1 DEF NewEntry
  <2> QED BY <1>2, <2>1, <2>2 DEF Carry
<1>13. CarriesOver(p)
  <2>1. \E d \in DOMAIN calendars : /\ p.goneEntries \subseteq EntriesOf(d)
                                    /\ \A e \in DOMAIN p.newEntries : p.newEntries[e].calendar = d
    BY <1>1, <1>2, <1>3 DEF NewEntry
  <2> QED BY <1>1, <1>11, <1>12, <2>1 DEF CarriesOver
<1>14. LeavesNoStrays(p)
  <2>1. \A e \in DOMAIN p.newEntries : p.newEntries[e].calendar \in CalendarsAfter(p)
    BY <1>1, <1>2 DEF NewEntry, CalendarsAfter
  <2>2. ASSUME NEW x \in p.works, Strays = {}
        PROVE  /\ x[1] \in StaffAfter(p) /\ x[2] \in DOMAIN Written(p) /\ StaysEntry(p, x[2])
               /\ x[3] \in Written(p)[x[2]].key.start .. Written(p)[x[2]].key.end
    <3>1. PICK f \in p.goneEntries : /\ entries[f].key = p.newEntries[x[2]].key
                                     /\ <<x[1], f, x[3]>> \in exceptions
      BY <1>11, <2>2
    <3>2. x[1] \in staff /\ x[3] \in DaysOf(f)
      BY <2>2, <3>1 DEF Strays
    <3>3. x[2] \in DOMAIN p.newEntries
      BY <1>11, <2>2
    <3>4. x[2] \in DOMAIN Written(p) /\ Written(p)[x[2]] = p.newEntries[x[2]]
      BY <1>9, <3>3, WrittenRows
    <3>5. x[2] \notin p.goneEntries
      BY <1>1, <1>3, <1>10, <3>3 DEF InsertsAreNew
    <3> QED BY <1>1, <3>1, <3>2, <3>4, <3>5 DEF StaffAfter, StaysEntry, DaysOf
  <2> QED BY <1>1, <2>1, <2>2 DEF LeavesNoStrays
<1>15. AddsNoTwins(p)
  <2> SUFFICES ASSUME NEW e \in DOMAIN p.newEntries, NEW f \in DOMAIN Written(p) \ p.goneEntries,
                      Written(p)[f].calendar = p.newEntries[e].calendar, Written(p)[f].key = p.newEntries[e].key
               PROVE  f = e
    BY <1>1 DEF AddsNoTwins
  <2>1. PICK k \in K : e = id[k] /\ p.newEntries[e] = NewEntry(c, k)
    BY <1>1, <1>2
  <2>2. CASE f \in DOMAIN p.newEntries
    <3>1. PICK l \in K : f = id[l] /\ p.newEntries[f] = NewEntry(c, l)
      BY <1>1, <1>2, <2>2
    <3>2. Written(p)[f] = p.newEntries[f]
      BY <1>9, <2>2, WrittenRows
    <3> QED BY <2>1, <3>1, <3>2 DEF NewEntry
  <2>3. CASE f \notin DOMAIN p.newEntries
    <3>1. f \in DOMAIN entries /\ Written(p)[f] = entries[f]
      BY <1>1, <1>9, <2>3, WrittenRows
    <3>2. f \in EntriesOf(c) /\ entries[f].key.start \in from .. to
      BY <2>1, <3>1 DEF EntriesOf, NewEntry
    <3> QED BY <1>1, <1>4, <3>2
  <2> QED BY <2>2, <2>3
<1> QED BY <1>1, <1>9, <1>10, <1>13, <1>14, <1>15 DEF Fits
(* A team file with a calendar that is there, ... *)
LEMMA ImportFits ==
  ASSUME RowsTypeOK, NEW t \in Teams, NEW c \in DOMAIN calendars,
         NEW F \in SUBSET ((Staff(t) \cap Members) \X Keys)
  PROVE  LET p == PlanHolidayImport(t, c, F)
         IN IsPlan(p) /\ Fits(p) /\ p.op = "import"
<1> DEFINE p == PlanHolidayImport(t, c, F)
<1>1. /\ p.op = "import" /\ p.hired = Staff(t) /\ p.on = {<<t, c>>}
      /\ p.file = {[member |-> x[1], calendar |-> c, key |-> x[2], day |-> x[2].end] : x \in F}
      /\ DOMAIN p.newCalendars = {} /\ DOMAIN p.newEntries = {} /\ DOMAIN p.moved = {} /\ DOMAIN p.newAbsences = {}
      /\ p.works = {} /\ p.gone = {} /\ p.goneEntries = {} /\ p.goneCalendars = {} /\ p.goneAbsences = {}
  BY DEF PlanHolidayImport, Quiet
<1>2. c \in Calendars /\ t \in Staff(t) /\ Staff(t) \subseteq Teams \cup Members
  BY CalendarsTyped DEF Staff
<1>3. \A x \in p.file : x \in FileRow /\ x.member \in Staff(t)
  BY <1>1, <1>2, KeysAreRanges DEF FileRow
<1> HIDE DEF p
<1>4. IsPlan(p)
  BY <1>1, <1>2, <1>3 DEF IsPlan
<1>5. InsertsAreNew(p) /\ OnlyAdds(p) /\ AddsNoTwins(p)
  BY <1>1 DEF InsertsAreNew, OnlyAdds, AddsNoTwins
<1>6. LeavesNoStrays(p)
  BY <1>1, <1>2, <1>3 DEF LeavesNoStrays, StaffAfter, CalendarsAfter
<1> QED BY <1>1, <1>4, <1>5, <1>6 DEF Fits, p

(* ... and one that brings its calendar along. *)
LEMMA ImportWithCalendarFits ==
  ASSUME RowsTypeOK, NEW t \in Teams, NEW n \in Names, NEW c \in FreshCalendars,
         NEW F \in SUBSET ((Staff(t) \cap Members) \X Keys), NEW K \in SUBSET Keys, NEW id \in IdsFor(K)
  PROVE  LET p == [PlanHolidayImport(t, c, F) EXCEPT !.newCalendars = [d \in {c} |-> n], !.newEntries = Added(c, id)]
         IN IsPlan(p) /\ Fits(p) /\ p.op = "import"
<1> DEFINE p == [PlanHolidayImport(t, c, F) EXCEPT !.newCalendars = [d \in {c} |-> n], !.newEntries = Added(c, id)]
<1> SUFFICES IsPlan(p) /\ Fits(p) /\ p.op = "import"
  OBVIOUS
<1>1. /\ p.op = "import" /\ p.hired = Staff(t) /\ p.on = {<<t, c>>}
      /\ p.file = {[member |-> x[1], calendar |-> c, key |-> x[2], day |-> x[2].end] : x \in F}
      /\ p.newCalendars = [d \in {c} |-> n] /\ p.newEntries = Added(c, id)
      /\ DOMAIN p.moved = {} /\ DOMAIN p.newAbsences = {}
      /\ p.works = {} /\ p.gone = {} /\ p.goneEntries = {} /\ p.goneCalendars = {} /\ p.goneAbsences = {}
  BY DEF PlanHolidayImport, Quiet
<1>2. c \in Calendars /\ t \in Staff(t) /\ Staff(t) \subseteq Teams \cup Members
      /\ \A e \in DOMAIN entries : entries[e].calendar # c
  BY DEF Staff, FreshCalendars
<1>3. \A x \in p.file : x \in FileRow /\ x.member \in Staff(t)
  BY <1>1, <1>2, KeysAreRanges DEF FileRow
<1>4. /\ \A k \in K : id[k] \in DOMAIN Added(c, id) /\ Added(c, id)[id[k]] = NewEntry(c, k)
      /\ \A e \in DOMAIN Added(c, id) : /\ e \in FreshEntries
                                        /\ \E k \in K : e = id[k] /\ Added(c, id)[e] = NewEntry(c, k)
  BY AddedRows
<1>5. \A e \in DOMAIN Added(c, id) : e \in Entries /\ Added(c, id)[e] \in NewRow
  BY <1>2, <1>4 DEF FreshEntries, NewEntry, NewRow
<1> HIDE DEF p
<1>6. IsPlan(p)
  BY <1>1, <1>2, <1>3, <1>5 DEF IsPlan
<1>7. InsertsAreNew(p)
  BY <1>1, <1>4 DEF InsertsAreNew, FreshEntries
<1>8. OnlyAdds(p)
  BY <1>1 DEF OnlyAdds
<1>9. LeavesNoStrays(p)
  BY <1>1, <1>2, <1>3, <1>4 DEF LeavesNoStrays, StaffAfter, CalendarsAfter, NewEntry
<1>10. AddsNoTwins(p)
  <2> SUFFICES ASSUME NEW e \in DOMAIN p.newEntries, NEW f \in DOMAIN Written(p),
                      Written(p)[f].calendar = p.newEntries[e].calendar, Written(p)[f].key = p.newEntries[e].key
               PROVE  f = e
    BY <1>1 DEF AddsNoTwins
  <2>1. PICK k \in K : e = id[k] /\ p.newEntries[e] = NewEntry(c, k)
    BY <1>1, <1>4
  <2>2. f \in DOMAIN p.newEntries
    <3> SUFFICES ASSUME f \notin DOMAIN p.newEntries PROVE FALSE
      OBVIOUS
    <3>1. f \in DOMAIN entries /\ Written(p)[f] = entries[f]
      BY <1>1, <1>6, WrittenRows
    <3> QED BY <1>2, <2>1, <3>1 DEF NewEntry
  <2>3. PICK l \in K : f = id[l] /\ p.newEntries[f] = NewEntry(c, l)
    BY <1>1, <1>4, <2>2
  <2>4. Written(p)[f] = p.newEntries[f]
    BY <1>6, <2>2, WrittenRows
  <2> QED BY <2>1, <2>3, <2>4 DEF NewEntry
<1> QED BY <1>1, <1>6, <1>7, <1>8, <1>9, <1>10 DEF Fits
-----------------------------------------------------------------------------
(* Every step                                                              *)

\* A handler serves a plan that fits the rows as it read them.
Decides ==
  \E p : /\ Serve(p) /\ IsPlan(p) /\ Fits(p)
         /\ p.op \in {"entry", "edit"} => CreateEntry \/ UpdateEntry

LEMMA OneOfIsOne ==
  ASSUME NEW S, NEW x \in OneOf(S)
  PROVE  x \in S
BY DEF OneOf

LEMMA CalendarHandlersDecide ==
  ASSUME RowsTypeOK, CreateCalendar \/ UpdateCalendar \/ DeleteCalendar
  PROVE  Decides
<1>1. CASE CreateCalendar
  <2>1. PICK c \in FreshCalendars, n \in Names :
          Serve([Quiet EXCEPT !.op = "create", !.newCalendars = [d \in {c} |-> n]])
    BY <1>1, OneOfIsOne DEF CreateCalendar
  <2>2. c \in Calendars
    BY DEF FreshCalendars
  <2> QED BY <2>1, <2>2, CalendarPlans DEF Decides
<1>2. CASE UpdateCalendar
  <2>1. PICK c \in DOMAIN calendars, n \in Names :
          Serve([Quiet EXCEPT !.op = "rename", !.newCalendars = [d \in {c} |-> n]])
    BY <1>2 DEF UpdateCalendar
  <2>2. c \in Calendars
    BY CalendarsTyped
  <2> QED BY <2>1, <2>2, CalendarPlans DEF Decides
<1>3. CASE DeleteCalendar
  <2>1. PICK c \in DOMAIN calendars :
          Serve([Quiet EXCEPT !.op = "delete", !.goneCalendars = {c}, !.forgets = EntriesOf(c)])
    BY <1>3 DEF DeleteCalendar
  <2> QED BY <2>1, DeleteCalendarFits DEF Decides
<1> QED BY <1>1, <1>2, <1>3

LEMMA EntryHandlersDecide ==
  ASSUME RowsTypeOK, CreateEntry \/ UpdateEntry \/ DeleteEntry
  PROVE  Decides
<1>1. CASE CreateEntry
  <2>1. PICK c \in DOMAIN calendars, k \in Keys, e \in FreshEntries :
          Serve([Quiet EXCEPT !.op = "entry", !.newEntries = [f \in {e} |-> NewEntry(c, k)]])
    BY <1>1, OneOfIsOne DEF CreateEntry
  <2> QED BY <1>1, <2>1, CreateEntryFits DEF Decides
<1>2. CASE UpdateEntry
  <2>1. PICK e \in DOMAIN entries, k \in Keys :
          /\ entries[e].calendar \in DOMAIN calendars
          /\ Serve([Quiet EXCEPT !.op = "edit", !.moved = [f \in {e} |-> Edited(e, k)]])
    BY <1>2 DEF UpdateEntry
  <2> QED BY <1>2, <2>1, UpdateEntryFits DEF Decides
<1>3. CASE DeleteEntry
  <2>1. PICK e \in DOMAIN entries :
          /\ entries[e].calendar \in DOMAIN calendars
          /\ Serve([Quiet EXCEPT !.op = "delete", !.goneEntries = {e}, !.forgets = {e}])
    BY <1>3 DEF DeleteEntry
  <2> QED BY <2>1, DeleteEntryFits DEF Decides
<1> QED BY <1>1, <1>2, <1>3

LEMMA UploadsDecide ==
  ASSUME RowsTypeOK, ReplaceEntries \/ CopyYear \/ ImportIcs
  PROVE  Decides
<1>1. CASE ReplaceEntries
  <2>1. PICK c \in DOMAIN calendars, K \in SUBSET Keys, from \in {k.start : k \in Keys}, to \in {k.start : k \in Keys} :
          LET doomed == {e \in EntriesOf(c) : entries[e].key.start \in from .. to} IN
          /\ \A k \in K : k.start \in from .. to
          /\ \E id \in IdsFor(K) :
               Serve([Quiet EXCEPT !.op = "replace", !.goneEntries = doomed, !.forgets = doomed,
                                   !.newEntries = Added(c, id), !.works = Carry(doomed, id)])
    BY <1>1, ZenonT(60) DEF ReplaceEntries
  <2> DEFINE doomed == {e \in EntriesOf(c) : entries[e].key.start \in from .. to}
  <2>2. PICK id \in IdsFor(K) :
          Serve([Quiet EXCEPT !.op = "replace", !.goneEntries = doomed, !.forgets = doomed,
                              !.newEntries = Added(c, id), !.works = Carry(doomed, id)])
    BY <2>1
  <2> DEFINE p == [Quiet EXCEPT !.op = "replace", !.goneEntries = doomed, !.forgets = doomed,
                                !.newEntries = Added(c, id), !.works = Carry(doomed, id)]
  <2>4. from \in Nat /\ to \in Nat
    BY KeysAreRanges
  <2>5. Rereads(p, c, K, from, to, doomed, id)
    BY <2>1, <2>4 DEF Rereads
  <2> HIDE DEF p, doomed
  <2>6. IsPlan(p) /\ Fits(p) /\ p.op = "replace"
    BY <2>5, ReplaceFits
  <2> QED BY <2>2, <2>6 DEF Decides, p, doomed
<1>2. ASSUME NEW c \in DOMAIN calendars, NEW K \in SUBSET Keys, CreateEntries(c, K)
      PROVE  Decides
  <2>1. PICK id \in IdsFor(ToAdd(c, K)) : Serve([Quiet EXCEPT !.op = "add", !.newEntries = Added(c, id)])
    BY <1>2 DEF CreateEntries
  <2> QED BY <2>1, CreateEntriesFits DEF Decides
<1>3. CASE CopyYear
  <2>1. PICK c \in DOMAIN calendars : \E K \in SUBSET Keys : CreateEntries(c, K)
    BY <1>3 DEF CopyYear
  <2> QED BY <1>2, <2>1
<1>4. CASE ImportIcs
  BY <1>2, <1>4 DEF ImportIcs
<1> QED BY <1>1, <1>3, <1>4

LEMMA TeamHandlersDecide ==
  ASSUME RowsTypeOK, EnableCalendar \/ DisableCalendar \/ SetException \/ ClearException \/ ApplyCleanup
  PROVE  Decides
<1>1. CASE EnableCalendar
  <2>1. PICK t \in TeamsThere, c \in DOMAIN calendars : Serve([Quiet EXCEPT !.op = "enable", !.on = {<<t, c>>}])
    BY <1>1 DEF EnableCalendar
  <2> QED BY <2>1, EnableFits DEF Decides
<1>2. CASE DisableCalendar
  BY <1>2, DisableFits DEF Decides, DisableCalendar
<1>3. CASE SetException
  <2>1. PICK e \in DOMAIN entries : \E m \in Members, d \in DaysOf(e) :
          Target(m, e, d) /\ Serve([Quiet EXCEPT !.op = "works", !.works = {<<m, e, d>>}])
    BY <1>3 DEF SetException
  <2> PICK m \in Members, d \in DaysOf(e) :
        Target(m, e, d) /\ Serve([Quiet EXCEPT !.op = "works", !.works = {<<m, e, d>>}])
    BY <2>1
  <2>2. m \in MembersThere
    BY DEF Target
  <2> QED BY <2>2, SetExceptionFits DEF Decides
<1>4. CASE ClearException
  BY <1>4, ClearExceptionFits DEF Decides, ClearException
<1>5. CASE ApplyCleanup
  <2>1. PICK t \in TeamsThere : \E A \in SUBSET CleanupCandidates(t) :
          Serve([Quiet EXCEPT !.op = "cleanup", !.goneAbsences = A])
    BY <1>5 DEF ApplyCleanup
  <2> QED BY <2>1, CleanupFits DEF Decides
<1> QED BY <1>1, <1>2, <1>3, <1>4, <1>5

LEMMA OtherRoutesDecide ==
  ASSUME RowsTypeOK, PostAbsence \/ DeleteMember \/ DeleteTeam \/ ImportTeam
  PROVE  Decides
<1>1. CASE PostAbsence
  <2>1. PICK m \in MembersThere, k \in Keys, a \in FreshAbsences :
          Serve([Quiet EXCEPT !.op = "absence", !.newAbsences = [b \in {a} |-> [member |-> m, key |-> k]]])
    BY <1>1, OneOfIsOne DEF PostAbsence
  <2> QED BY <2>1, PostAbsenceFits DEF Decides, MembersThere
<1>2. CASE DeleteMember
  <2>1. PICK m \in MembersThere : Serve([Quiet EXCEPT !.op = "delete", !.gone = {m}])
    BY <1>2 DEF DeleteMember
  <2>2. {m} \cap staff # {}
    BY DEF MembersThere
  <2> QED BY <2>1, <2>2, LeavingFits DEF Decides
<1>3. CASE DeleteTeam
  <2>1. PICK t \in TeamsThere : Serve([Quiet EXCEPT !.op = "delete", !.gone = Staff(t)])
    BY <1>3 DEF DeleteTeam
  <2>2. Staff(t) \cap staff # {}
    BY DEF TeamsThere, Staff
  <2> QED BY <2>1, <2>2, LeavingFits DEF Decides
<1>4. CASE ImportTeam
  <2>1. PICK t \in Teams, n \in Names : \E F \in {{}} \cup {{x} : x \in (Staff(t) \cap Members) \X Keys} :
          \/ \E c \in ByName(n) : Serve(PlanHolidayImport(t, c, F))
          \/ \E c \in OneOf(FreshCalendars), K \in SUBSET Keys : \E id \in IdsFor(K) :
               (\A x \in F : x[2] \in K) /\ Serve([PlanHolidayImport(t, c, F) EXCEPT !.newCalendars = [d \in {c} |-> n], !.newEntries = Added(c, id)])
    BY <1>4 DEF ImportTeam, FreshTeams
  <2>2. PICK F \in {{}} \cup {{x} : x \in (Staff(t) \cap Members) \X Keys} :
          \/ \E c \in ByName(n) : Serve(PlanHolidayImport(t, c, F))
          \/ \E c \in OneOf(FreshCalendars), K \in SUBSET Keys : \E id \in IdsFor(K) :
               Serve([PlanHolidayImport(t, c, F) EXCEPT !.newCalendars = [d \in {c} |-> n], !.newEntries = Added(c, id)])
    BY <2>1
  <2> F \in SUBSET ((Staff(t) \cap Members) \X Keys)
    OBVIOUS
  <2>3. ASSUME NEW c \in ByName(n), Serve(PlanHolidayImport(t, c, F))
        PROVE  Decides
    <3>1. c \in DOMAIN calendars
      BY DEF ByName
    <3> QED BY <2>3, <3>1, ImportFits DEF Decides
  <2>4. ASSUME NEW c \in OneOf(FreshCalendars), NEW K \in SUBSET Keys, NEW id \in IdsFor(K),
               Serve([PlanHolidayImport(t, c, F) EXCEPT !.newCalendars = [d \in {c} |-> n], !.newEntries = Added(c, id)])
        PROVE  Decides
    <3>1. c \in FreshCalendars
      BY OneOfIsOne
    <3> QED BY <2>4, <3>1, ImportWithCalendarFits DEF Decides
  <2> QED BY <2>2, <2>3, <2>4
<1> QED BY <1>1, <1>2, <1>3, <1>4

LEMMA EveryHandlerDecides ==
  ASSUME RowsTypeOK, Next
  PROVE  Decides \/ Finish \/ Fail
BY CalendarHandlersDecide, EntryHandlersDecide, UploadsDecide, TeamHandlersDecide, OtherRoutesDecide DEF Next
-----------------------------------------------------------------------------
(* The invariant                                                           *)

SameRows == UNCHANGED <<staff, calendars, entries, enabled, exceptions, absences>>

\* What fits depends on the rows alone, so a plan that is held fits until they change.
LEMMA HeldFits ==
  ASSUME NEW p, Fits(p), SameRows, held'.plan = p
  PROVE  Fits(held.plan)'
<1>1. held'.plan = p
  OBVIOUS
<1>2. InsertsAreNew(held.plan)'
  BY <1>1 DEF Fits, SameRows, InsertsAreNew
<1>3. LeavesNoStrays(held.plan)'
  <2>1. Strays' = Strays
    BY DEF SameRows, Strays, DaysOf
  <2> QED BY <1>1, <2>1 DEF Fits, SameRows, LeavesNoStrays, StaffAfter, CalendarsAfter, StaysEntry, Written
<1>4. AddsNoTwins(held.plan)'
  BY <1>1 DEF Fits, SameRows, AddsNoTwins, Written
<1>5. (OnlyAdds(held.plan) \/ OnlyMoves(held.plan) \/ OnlyRemoves(held.plan) \/ CarriesOver(held.plan))'
  <2>1. CASE OnlyAdds(p)
    BY <1>1, <2>1 DEF OnlyAdds
  <2>2. CASE OnlyMoves(p)
    BY <1>1, <2>2 DEF SameRows, OnlyMoves
  <2>3. CASE OnlyRemoves(p)
    BY <1>1, <2>3 DEF SameRows, OnlyRemoves
  <2>4. CASE CarriesOver(p)
    BY <1>1, <2>4 DEF SameRows, CarriesOver, EntriesOf
  <2> QED BY <2>1, <2>2, <2>3, <2>4 DEF Fits
<1>6. (held.plan.goneAbsences # {} => ClearsRedundant(held.plan))'
  <2> SUFFICES ASSUME p.goneAbsences # {} PROVE ClearsRedundant(held.plan)'
    BY <1>1
  <2>1. ClearsRedundant(p)
    BY DEF Fits
  <2>2. \A a \in DOMAIN absences : Redundant(a)' <=> Redundant(a)
    BY DEF SameRows, Redundant, OnHoliday, TeamEntries
  <2> QED BY <1>1, <2>1, <2>2 DEF SameRows, ClearsRedundant
<1>7. (held.plan.gone # {} => held.plan.gone \cap staff # {})'
  BY <1>1 DEF Fits, SameRows
<1> QED BY <1>2, <1>3, <1>4, <1>5, <1>6, <1>7 DEF Fits

LEMMA SameRowsSameTypes ==
  ASSUME RowsTypeOK, SameRows
  PROVE  RowsTypeOK'
BY DEF RowsTypeOK, SameRows

LEMMA ServeKeepsInvariant ==
  ASSUME IInv, NEW p, IsPlan(p), Fits(p), Serve(p)
  PROVE  IInv'
<1>1. RowsTypeOK
  BY DEF IInv, TypeOK
<1>2. CASE Apply(p) /\ held' = IF held = NoRequest THEN held ELSE [held EXCEPT !.overtaken = TRUE]
  <2>1. RowsTypeOK'
    BY <1>1, <1>2, ApplyKeepsTypes
  <2>2. CASE held = NoRequest
    BY <1>2, <2>1, <2>2 DEF IInv, TypeOK, UnovertakenFits
  <2>3. CASE held # NoRequest
    <3>1. held = [plan |-> held.plan, overtaken |-> held.overtaken] /\ IsPlan(held.plan)
      BY <2>3 DEF IInv, TypeOK
    <3>2. held' = [plan |-> held.plan, overtaken |-> TRUE]
      BY <1>2, <2>3, <3>1
    <3>3. IsPlan(held.plan)'
      BY <3>1, <3>2 DEF IsPlan
    <3> QED BY <2>1, <3>2, <3>3 DEF IInv, TypeOK, UnovertakenFits
  <2> QED BY <2>2, <2>3
<1>3. CASE held' = [plan |-> p, overtaken |-> FALSE] /\ SameRows
  <2>1. RowsTypeOK'
    BY <1>1, <1>3, SameRowsSameTypes
  <2>2. Fits(held.plan)'
    BY <1>3, HeldFits
  <2>3. IsPlan(held.plan)'
    BY <1>3 DEF IsPlan
  <2> QED BY <1>3, <2>1, <2>2, <2>3 DEF IInv, TypeOK, UnovertakenFits
<1> QED BY <1>2, <1>3 DEF Serve, SameRows

LEMMA InitInvariant ==
  ASSUME Init
  PROVE  IInv
<1>1. staff \subseteq Teams \cup Members
  BY DEF Init, Staff
<1>2. RowsTypeOK
  BY <1>1 DEF Init, RowsTypeOK
<1> QED BY <1>2 DEF Init, IInv, TypeOK, UnovertakenFits

LEMMA NextKeepsInvariant ==
  ASSUME IInv, [Next]_vars
  PROVE  IInv'
<1>1. RowsTypeOK
  BY DEF IInv, TypeOK
<1>2. CASE UNCHANGED vars
  <2>1. SameRows /\ held' = held
    BY <1>2 DEF vars, SameRows
  <2>2. RowsTypeOK'
    BY <1>1, <2>1, SameRowsSameTypes
  <2>3. held # NoRequest => IsPlan(held.plan)'
    BY <2>1 DEF IInv, TypeOK, IsPlan
  <2>4. held # NoRequest /\ ~ held.overtaken => Fits(held.plan)'
    BY <2>1, HeldFits DEF IInv, UnovertakenFits
  <2> QED BY <2>1, <2>2, <2>3, <2>4 DEF IInv, TypeOK, UnovertakenFits
<1>3. CASE Decides
  BY <1>3, ServeKeepsInvariant DEF Decides
<1>4. CASE Finish
  <2>1. IsPlan(held.plan) /\ Apply(held.plan) /\ held' = NoRequest
    BY <1>4 DEF Finish, IInv, TypeOK
  <2>2. RowsTypeOK'
    BY <1>1, <2>1, ApplyKeepsTypes
  <2> QED BY <2>1, <2>2 DEF IInv, TypeOK, UnovertakenFits
<1>5. CASE Fail
  <2>1. RowsTypeOK' /\ held' = NoRequest
    BY <1>1, <1>5, SameRowsSameTypes DEF Fail, SameRows
  <2> QED BY <2>1 DEF IInv, TypeOK, UnovertakenFits
<1> QED BY <1>1, <1>2, <1>3, <1>4, <1>5, EveryHandlerDecides
(* routes/holiday_calendars.py, services/holidays.py: rows of their kinds, where every    *)
(* column of an entry is one that was validated, and a request that nothing overtook      *)
(* still fits what it read.                                                               *)
THEOREM InvariantHolds == Spec => []IInv
<1>1. Init => IInv
  BY InitInvariant
<1>2. IInv /\ [Next]_vars => IInv'
  BY NextKeepsInvariant
<1> QED BY <1>1, <1>2, PTL DEF Spec

-----------------------------------------------------------------------------
(* The properties                                                          *)

(* What changes rows is a plan that fits, unless the step commits an overtaken request. *)
LEMMA ChangesFit ==
  ASSUME IInv, Next, ~ Overtaken, ~ SameRows
  PROVE  \E p : /\ IsPlan(p) /\ Fits(p) /\ Apply(p)
                /\ p.op \in {"entry", "edit"} =>
                     CreateEntry \/ UpdateEntry \/ (held # NoRequest /\ held' = NoRequest /\ held.plan.op \in {"entry", "edit"})
<1>1. RowsTypeOK
  BY DEF IInv, TypeOK
<1>2. CASE Decides
  <2>1. PICK p : /\ Serve(p) /\ IsPlan(p) /\ Fits(p)
                 /\ p.op \in {"entry", "edit"} => CreateEntry \/ UpdateEntry
    BY <1>2 DEF Decides
  <2>2. Apply(p)
    BY <2>1 DEF Serve, SameRows
  <2> QED BY <2>1, <2>2
<1>3. CASE Finish
  <2>1. held # NoRequest /\ Apply(held.plan) /\ held' = NoRequest
    BY <1>3 DEF Finish
  <2>2. IsPlan(held.plan) /\ Fits(held.plan)
    BY <2>1 DEF Overtaken, IInv, TypeOK, UnovertakenFits
  <2> QED BY <2>1, <2>2
<1>4. ~ Fail
  BY DEF Fail, SameRows
<1> QED BY <1>1, <1>2, <1>3, <1>4, EveryHandlerDecides

Ranges == \A e \in DOMAIN entries : IsRange(entries[e].key)

(* schemas/holiday.py, holiday_calendars.py update_entry: what is validated as a whole    *)
(* stays whole; only a request another overtook can leave a holiday that ends before it   *)
(* starts, for it writes some of the columns and not the rest.                            *)
THEOREM RangesStay == Spec => [][Ranges => Overtaken \/ Ranges']_vars
<1>1. ASSUME IInv, [Next]_vars
      PROVE  [Ranges => Overtaken \/ Ranges']_vars
  <2> SUFFICES ASSUME Next, Ranges, ~ Overtaken PROVE Ranges'
    BY <1>1
  <2>1. CASE SameRows
    BY <2>1 DEF SameRows, Ranges
  <2>2. CASE ~ SameRows
    <3>1. PICK p : IsPlan(p) /\ Fits(p) /\ Apply(p)
      BY <1>1, <2>2, ChangesFit
    <3> SUFFICES ASSUME NEW e \in DOMAIN entries'
                 PROVE  IsRange(entries'[e].key)
      BY DEF Ranges
    <3>2. RowsTypeOK
      BY <1>1 DEF IInv, TypeOK
    <3>3. e \in DOMAIN Written(p) /\ entries'[e] = Written(p)[e]
      BY <3>1, EntriesAfter
    <3>4. CASE e \in DOMAIN p.newEntries
      <4>1. Written(p)[e] = p.newEntries[e] /\ p.newEntries[e].key \in Keys
        BY <3>1, <3>2, <3>4, WrittenRows DEF IsPlan, NewRow
      <4> QED BY <3>3, <4>1, KeysAreRanges
    <3>5. CASE e \notin DOMAIN p.newEntries /\ e \in DOMAIN p.moved
      <4>1. e \in DOMAIN entries
        BY <3>1, <3>2, <3>3, <3>5, WrittenRows
      <4>2. Written(p)[e].key \in Keys
        BY <3>1, <3>2, <3>5, <4>1, MovedBecome
      <4> QED BY <3>3, <4>2, KeysAreRanges
    <3>6. CASE e \notin DOMAIN p.newEntries /\ e \notin DOMAIN p.moved
      <4>1. e \in DOMAIN entries /\ Written(p)[e] = entries[e]
        BY <3>1, <3>2, <3>3, <3>6, WrittenRows
      <4> QED BY <3>3, <4>1 DEF Ranges
    <3> QED BY <3>4, <3>5, <3>6
  <2> QED BY <2>1, <2>2
<1> QED BY <1>1, InvariantHolds, PTL DEF Spec

(* holiday_calendars.py, services/holidays.py: an exception goes with its entry, and      *)
(* nothing points at what is gone, unless a request overtook another.                     *)
THEOREM ExceptionsFollow == Spec => ExceptionsFollowTheirEntry
<1>1. ASSUME IInv, [Next]_vars
      PROVE  [Strays = {} => Overtaken \/ Strays' = {}]_vars
  <2> SUFFICES ASSUME Next, Strays = {}, ~ Overtaken PROVE Strays' = {}
    BY <1>1
  <2>1. CASE SameRows
    BY <2>1 DEF SameRows, Strays, DaysOf
  <2>2. CASE ~ SameRows
    <3>1. PICK p : IsPlan(p) /\ Fits(p) /\ Apply(p)
      BY <1>1, <2>2, ChangesFit
    <3> QED BY <1>1, <3>1, FittingLeavesNoStrays DEF IInv, TypeOK
  <2> QED BY <2>1, <2>2
<1> QED BY <1>1, InvariantHolds, PTL DEF Spec, ExceptionsFollowTheirEntry

(* team_holidays.py apply_cleanup, holiday_calendars.py replace_entries: a clean-up and a *)
(* re-read that finds the same holidays move nobody, unless a request overtook another.   *)
THEOREM NobodyReturns == Spec => NobodyReturnsUnasked
<1>1. ASSUME IInv, [Next]_vars
      PROVE  [Cleaned \/ (Reread /\ NoTwins /\ NoTwins') => Overtaken \/ OffWork' = OffWork]_vars
  <2> SUFFICES ASSUME Next, Cleaned \/ (Reread /\ NoTwins /\ NoTwins'), ~ Overtaken
               PROVE  OffWork' = OffWork
    BY <1>1
  <2>1. ~ SameRows
    BY DEF SameRows, Cleaned, Reread
  <2>2. PICK p : IsPlan(p) /\ Fits(p) /\ Apply(p)
    BY <1>1, <2>1, ChangesFit
  <2> QED BY <1>1, <2>2, FittingMovesNobody DEF IInv, TypeOK
<1> QED BY <1>1, InvariantHolds, PTL DEF Spec, NobodyReturnsUnasked

(* holiday_calendars.py, holiday_import.py: whatever a file, a copy or a re-read brings,  *)
(* no holiday comes a second time into a calendar, unless it is typed by hand or one      *)
(* request overtook another.                                                              *)
THEOREM UploadsDoubleNothing == Spec => UploadsAddNoTwins
<1>1. ASSUME IInv, [Next]_vars
      PROVE  [\/ \A c \in Calendars : TwinsOf(c)' \subseteq TwinsOf(c)
              \/ CreateEntry \/ UpdateEntry
              \/ held # NoRequest /\ held' = NoRequest /\ (held.overtaken \/ held.plan.op \in {"entry", "edit"})]_vars
  <2> SUFFICES ASSUME Next, ~ (CreateEntry \/ UpdateEntry),
                      ~ (held # NoRequest /\ held' = NoRequest /\ (held.overtaken \/ held.plan.op \in {"entry", "edit"})),
                      NEW c \in Calendars
               PROVE  TwinsOf(c)' \subseteq TwinsOf(c)
    BY <1>1
  <2>1. CASE SameRows
    BY <2>1 DEF SameRows, TwinsOf, EntriesOf
  <2>2. CASE ~ SameRows
    <3>1. ~ Overtaken
      BY DEF Overtaken
    <3>2. PICK p : IsPlan(p) /\ Fits(p) /\ Apply(p) /\ p.op \notin {"entry", "edit"}
      BY <1>1, <2>2, <3>1, ChangesFit
    <3> QED BY <1>1, <3>2, FittingAddsNoTwins DEF IInv, TypeOK
  <2> QED BY <2>1, <2>2
<1> QED BY <1>1, InvariantHolds, PTL DEF Spec, UploadsAddNoTwins
=============================================================================
