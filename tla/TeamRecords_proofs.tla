------------------------ MODULE TeamRecords_proofs ------------------------
(***************************************************************************)
(* Proofs about TeamRecords, for any number of requests and any sets of    *)
(* members, versions, absences and meetings.  The inductive invariant says *)
(* what a request knows without looking again: of an open dialog whose tag *)
(* has not moved, that the row is as it was read; of a decision that no    *)
(* commit has overtaken, that it still fits the rows; and of every id that *)
(* a decision is about to insert, that nothing else names it.              *)
(***************************************************************************)
EXTENDS TeamRecords, TLAPS

\* A row and the table its id belongs to; an attendee's id says whom it joins to what.
Placed(i, row) ==
  \/ i \in Members /\ row \in Member
  \/ i \in Versions /\ row \in Version
  \/ i \in Absences /\ row \in Absence
  \/ i \in Meetings /\ row \in Meeting
  \/ /\ i \in Attendees /\ row \in Attendee
     /\ row.meeting = i[1] /\ row.member = i[2]

Ids == Members \cup Versions \cup Absences \cup Meetings

\* What an UPDATE may write: never what a row points at, nor its event.
IsDelta(d) ==
  /\ DOMAIN d \subseteq {"from", "kind", "weekday", "inside"}
  /\ "from" \in DOMAIN d => d.from \in Dates
  /\ "kind" \in DOMAIN d => d.kind \in Kinds
  /\ "weekday" \in DOMAIN d => d.weekday \in {1, NoDay}
  /\ "inside" \in DOMAIN d => d.inside \in BOOLEAN

\* A change of a meeting's attendance comes with a write of the meeting's row, or takes the
\* meeting or the member away.
TagsAttendance(p) ==
  \A k \in Meetings, m \in Members :
    /\ <<k, m>> \in DOMAIN p.ins => k \in DOMAIN p.ins \/ k \in DOMAIN p.upd
    /\ <<k, m>> \in p.del => k \in p.del \/ k \in DOMAIN p.upd \/ m \in p.del

IsPlan(p) ==
  /\ \A i \in DOMAIN p.ins : Placed(i, p.ins[i])
  /\ \A i \in DOMAIN p.upd : IsDelta(p.upd[i])
  /\ TagsAttendance(p)

\* What a client has read of row i.
IsReading(i, seen) ==
  /\ i \in Ids /\ Placed(i, seen[1])
  /\ seen[2] \subseteq Members
  /\ i \notin Meetings => seen[2] = {}

Reads(r) == form[r].op \in {"edit"} \cup DOMAIN TaggedOps

TypeOK ==
  /\ \A i \in DOMAIN rows : Placed(i, rows[i])
  /\ at \in [Requests -> {"idle", "open", "checked"}]
  /\ moved \in [Requests -> BOOLEAN] /\ overtaken \in [Requests -> BOOLEAN]
  /\ DOMAIN form = Requests /\ DOMAIN plan = Requests
  /\ scope \in DOMAIN MaxRows
  /\ \A r \in Requests :
       /\ DOMAIN form[r] = {"op", "on", "seen"}
       /\ Reads(r) => IsReading(form[r].on, form[r].seen)
       /\ at[r] = "open" => form[r].op = "edit"
       /\ at[r] = "checked" => form[r].op # "edit" /\ IsPlan(plan[r])

-----------------------------------------------------------------------------
(* Ids that are about to be inserted                                       *)

NamedBy(r, i) ==
  \/ i = form[r].on \/ i \in DOMAIN plan[r].ins
  \/ \E k \in DOMAIN plan[r].ins : i \in Names(plan[r].ins[k])
  \/ Reads(r) /\ i \in Names(form[r].seen[1]) \cup form[r].seen[2]

\* The id is in no row, and no row and no other request names it.
Reserved(i, r) ==
  /\ i \notin DOMAIN rows
  /\ \A k \in DOMAIN rows : i \notin Names(rows[k])
  /\ \A q \in Requests \ {r} : ~ NamedBy(q, i)

InsertsAreReserved ==
  \A r \in Requests : at[r] = "checked" =>
    \A i \in DOMAIN plan[r].ins \ Attendees : Reserved(i, r)

-----------------------------------------------------------------------------
(* What a decision does to the rows it was made for                        *)

\* A member it creates gets a pattern, and one that stays keeps one.
KeepsPatterns(p) ==
  /\ \A m \in Members \cap DOMAIN p.ins :
       \E v \in (DOMAIN p.ins \cap Versions) \ p.del : p.ins[v].member = m
  /\ \A m \in (Members \cap DOMAIN rows) \ p.del :
       Live("version", m) # {} => Live("version", m) \ p.del # {}

\* What a new row points at is there and stays; what points at a deleted row is deleted.
LeavesNoStrays(p) ==
  /\ \A i \in DOMAIN p.ins : Names(p.ins[i]) \subseteq (DOMAIN rows \cup DOMAIN p.ins) \ p.del
  /\ \A i \in DOMAIN rows : Names(rows[i]) \cap p.del # {} => i \in p.del

IsRule(row) == row.kind = "weekly" => row.weekday # NoDay

WritesRules(p) ==
  /\ \A i \in DOMAIN p.ins \cap Absences : IsRule(p.ins[i])
  /\ \A i \in DOMAIN p.upd \cap DOMAIN rows \cap Absences : IsRule(Patched(rows[i], p.upd[i]))

Imported(m) == {i \in Live("absence", m) : rows[i].uid # NoUid}

\* The rows of the member's file: created, updated and removed by their event.
Mirrors(m, F, p) ==
  /\ NoUid \notin F
  /\ DOMAIN p.ins \subseteq Absences
  /\ \A i \in DOMAIN p.ins : p.ins[i].member = m
  /\ {p.ins[i].uid : i \in DOMAIN p.ins} = F \ {rows[i].uid : i \in Imported(m)}
  /\ DOMAIN p.upd \subseteq {i \in Imported(m) : rows[i].uid \in F}
  /\ p.del = {i \in Imported(m) : rows[i].inside /\ rows[i].uid \notin F}

\* What lies in the window goes, and nothing else of the table.
Clears(table, p) ==
  /\ DOMAIN p.upd = {}
  /\ p.del \cap All(table) = Inside(table)

Fits(f, p) ==
  /\ KeepsPatterns(p)
  /\ LeavesNoStrays(p)
  /\ WritesRules(p)
  /\ f.op = "import" => Mirrors(f.on, f.seen, p)
  /\ f.op = "bulk_absences" => Clears("absence", p)
  /\ f.op = "bulk_meetings" => Clears("meeting", p)
  /\ f.op \in DOMAIN TaggedOps => AsSeen(f.on, f.seen)

FreshDecisionsFit ==
  \A r \in Requests : at[r] = "checked" /\ ~ overtaken[r] => Fits(form[r], plan[r])

\* The row of an open dialog whose tag has not moved is as it was read, unless it is gone.
UnmovedIsAsSeen ==
  \A r \in Requests : at[r] = "open" /\ CheckIfMatch(r) => AsSeen(form[r].on, form[r].seen)

IInv == TypeOK /\ InsertsAreReserved /\ FreshDecisionsFit /\ UnmovedIsAsSeen
-----------------------------------------------------------------------------
(* Rows                                                                    *)

(* A row's table is told by its id. *)
LEMMA PlacedIs ==
  ASSUME NEW i, NEW row, Placed(i, row)
  PROVE  /\ row.is = "member" <=> i \in Members
         /\ row.is = "version" <=> i \in Versions
         /\ row.is = "absence" <=> i \in Absences
         /\ row.is = "meeting" <=> i \in Meetings
         /\ row.is = "attendee" <=> i \in Attendees
         /\ row.is \in {"member", "version", "absence", "meeting", "attendee"}
BY IdsAreApart DEF Placed, Member, Version, Absence, Meeting, Attendee

LEMMA PlacedIn ==
  ASSUME NEW i, NEW row, Placed(i, row)
  PROVE  /\ i \in Members <=> row \in Member
         /\ i \in Versions <=> row \in Version
         /\ i \in Absences <=> row \in Absence
         /\ i \in Meetings <=> row \in Meeting
         /\ i \in Attendees <=> row \in Attendee
         /\ i \in Ids \cup Attendees /\ i \in Ids <=> i \notin Attendees
<1>1. /\ row.is = "member" <=> i \in Members
      /\ row.is = "version" <=> i \in Versions
      /\ row.is = "absence" <=> i \in Absences
      /\ row.is = "meeting" <=> i \in Meetings
      /\ row.is = "attendee" <=> i \in Attendees
  BY PlacedIs
<1>2. /\ row \in Member => row.is = "member"
      /\ row \in Version => row.is = "version"
      /\ row \in Absence => row.is = "absence"
      /\ row \in Meeting => row.is = "meeting"
      /\ row \in Attendee => row.is = "attendee"
  BY DEF Member, Version, Absence, Meeting, Attendee
<1>3. i \in Ids \cup Attendees
  BY DEF Placed, Ids
<1>4. i \in Ids <=> i \notin Attendees
  BY <1>3, IdsAreApart DEF Ids
<1>5. /\ i \in Members => row \in Member
      /\ i \in Versions => row \in Version
      /\ i \in Absences => row \in Absence
      /\ i \in Meetings => row \in Meeting
      /\ i \in Attendees => row \in Attendee
  BY <1>1, IdsAreApart DEF Placed
<1> QED BY <1>1, <1>2, <1>3, <1>4, <1>5

(* What a row points at. *)
LEMMA NamesOfRows ==
  ASSUME NEW row
  PROVE  /\ row \in Member \cup Meeting => Names(row) = {}
         /\ row \in Version \cup Absence => Names(row) = {row.member}
         /\ row \in Attendee => Names(row) = {row.meeting, row.member}
<1>1. row \in Member => DOMAIN row = {"is"}
  BY DEF Member
<1>2. row \in Meeting => DOMAIN row = {"is", "inside"}
  BY DEF Meeting
<1>3. row \in Version => DOMAIN row = {"is", "member", "from"}
  BY DEF Version
<1>4. row \in Absence => DOMAIN row = {"is", "member", "uid", "kind", "weekday", "inside"}
  BY DEF Absence
<1>5. row \in Attendee => DOMAIN row = {"is", "meeting", "member"}
  BY DEF Attendee
<1> QED BY <1>1, <1>2, <1>3, <1>4, <1>5 DEF Names

LEMMA NamesOfPlaced ==
  ASSUME NEW i, NEW row, Placed(i, row)
  PROVE  /\ Names(row) \subseteq Members \cup Meetings
         /\ i \in Versions \cup Absences => Names(row) = {row.member} /\ row.member \in Members
         /\ i \in Attendees => /\ Names(row) = {row.meeting, row.member}
                               /\ row.meeting \in Meetings /\ row.member \in Members
                               /\ i = <<row.meeting, row.member>>
         /\ i \in Members \cup Meetings => Names(row) = {}
<1>1. /\ row \in Version => row.member \in Members
      /\ row \in Absence => row.member \in Members
      /\ row \in Attendee => row.member \in Members /\ row.meeting \in Meetings
  BY DEF Version, Absence, Attendee
<1>2. i \in Attendees => i = <<row.meeting, row.member>>
  BY IdsAreApart DEF Placed, Attendees
<1>3. i \in Ids \cup Attendees
  BY DEF Placed, Ids
<1> QED BY <1>1, <1>2, <1>3, PlacedIn, NamesOfRows DEF Ids

(* An UPDATE leaves a row in its table and what it points at alone. *)
LEMMA PatchKeeps ==
  ASSUME NEW i, NEW row, NEW d, Placed(i, row), IsDelta(d)
  PROVE  /\ Placed(i, Patched(row, d))
         /\ Names(Patched(row, d)) = Names(row)
         /\ i \in Versions \cup Absences => Patched(row, d).member = row.member
         /\ i \in Absences => Patched(row, d).uid = row.uid
<1> DEFINE new == Patched(row, d)
<1>1. CASE row \in Member
  <2>1. DOMAIN row = {"is"}
    BY <1>1 DEF Member
  <2>2. new \in Member
    BY <1>1, <2>1 DEF new, Patched, IsDelta, Member
  <2> QED BY <1>1, <2>2, PlacedIn, NamesOfRows, IdsAreApart DEF new, Placed
<1>2. CASE row \in Version
  <2>1. DOMAIN row = {"is", "member", "from"}
    BY <1>2 DEF Version
  <2>2. new \in Version /\ new.member = row.member
    BY <1>2, <2>1 DEF new, Patched, IsDelta, Version
  <2> QED BY <1>2, <2>2, PlacedIn, NamesOfRows, IdsAreApart DEF new, Placed
<1>3. CASE row \in Absence
  <2>1. DOMAIN row = {"is", "member", "uid", "kind", "weekday", "inside"}
    BY <1>3 DEF Absence
  <2>2. new \in Absence /\ new.member = row.member /\ new.uid = row.uid
    BY <1>3, <2>1 DEF new, Patched, IsDelta, Absence
  <2> QED BY <1>3, <2>2, PlacedIn, NamesOfRows, IdsAreApart DEF new, Placed
<1>4. CASE row \in Meeting
  <2>1. DOMAIN row = {"is", "inside"}
    BY <1>4 DEF Meeting
  <2>2. new \in Meeting
    BY <1>4, <2>1 DEF new, Patched, IsDelta, Meeting
  <2> QED BY <1>4, <2>2, PlacedIn, NamesOfRows, IdsAreApart DEF new, Placed
<1>5. CASE row \in Attendee
  <2>1. DOMAIN row = {"is", "meeting", "member"}
    BY <1>5 DEF Attendee
  <2>2. new \in Attendee /\ new.member = row.member /\ new.meeting = row.meeting
    BY <1>5, <2>1 DEF new, Patched, IsDelta, Attendee
  <2> QED BY <1>5, <2>2, PlacedIn, NamesOfRows, IdsAreApart DEF new, Placed
<1> QED BY <1>1, <1>2, <1>3, <1>4, <1>5 DEF Placed
-----------------------------------------------------------------------------
(* Tables                                                                  *)

LEMMA TablesById ==
  ASSUME \A i \in DOMAIN rows : Placed(i, rows[i])
  PROVE  /\ All("member") = DOMAIN rows \cap Members
         /\ All("version") = DOMAIN rows \cap Versions
         /\ All("absence") = DOMAIN rows \cap Absences
         /\ All("meeting") = DOMAIN rows \cap Meetings
         /\ All("attendee") = DOMAIN rows \cap Attendees
BY PlacedIs DEF All

(* The attendees of a meeting that exist join it to members. *)
LEMMA AttendeesById ==
  ASSUME \A i \in DOMAIN rows : Placed(i, rows[i]), NEW k \in Meetings
  PROVE  /\ AttendeesOf(k) = {<<k, m>> : m \in {x \in Members : <<k, x>> \in DOMAIN rows}}
         /\ {rows[a].member : a \in AttendeesOf(k)} = {m \in Members : <<k, m>> \in DOMAIN rows}
<1>1. ASSUME NEW a \in AttendeesOf(k)
      PROVE  a \in DOMAIN rows /\ rows[a].member \in Members /\ a = <<k, rows[a].member>>
  <2>1. a \in DOMAIN rows \cap Attendees /\ rows[a].meeting = k
    BY TablesById DEF AttendeesOf
  <2> QED BY <2>1, NamesOfPlaced
<1>2. ASSUME NEW m \in Members, <<k, m>> \in DOMAIN rows
      PROVE  <<k, m>> \in AttendeesOf(k) /\ rows[<<k, m>>].member = m
  <2>1. <<k, m>> \in Attendees
    BY DEF Attendees
  <2>2. rows[<<k, m>>].meeting = k /\ rows[<<k, m>>].member = m
    BY <1>2, <2>1, PlacedIs, NamesOfPlaced
  <2> QED BY <1>2, <2>1, <2>2, TablesById DEF AttendeesOf
<1> QED BY <1>1, <1>2

\* A row is as its client read it: its columns, and which of the members it joins.
TellsAsSeen ==
  \A i, seen :
    (/\ \A j \in DOMAIN rows : Placed(j, rows[j])
     /\ IsReading(i, seen) /\ i \in DOMAIN rows)
    => (AsSeen(i, seen) <=>
          /\ rows[i] = seen[1]
          /\ i \in Meetings => \A m \in DOMAIN rows \cap Members : <<i, m>> \in DOMAIN rows <=> m \in seen[2])

(* What it means that a row is as its client read it. *)
LEMMA AsSeenMeans == TellsAsSeen
<1> SUFFICES ASSUME NEW i, NEW seen,
                    \A j \in DOMAIN rows : Placed(j, rows[j]),
                    IsReading(i, seen), i \in DOMAIN rows
             PROVE  AsSeen(i, seen) <=>
                      /\ rows[i] = seen[1]
                      /\ i \in Meetings => \A m \in DOMAIN rows \cap Members :
                                             <<i, m>> \in DOMAIN rows <=> m \in seen[2]
  BY DEF TellsAsSeen
<1>1. rows[i].is = "meeting" <=> i \in Meetings
  BY PlacedIs
<1>2. All("member") = DOMAIN rows \cap Members
  BY TablesById
<1>3. CASE i \in Meetings
  <2>1. Content(i)[2] = {m \in Members : <<i, m>> \in DOMAIN rows}
    BY <1>1, <1>3, AttendeesById DEF Content
  <2>2. seen[2] \subseteq Members
    BY DEF IsReading
  <2> QED BY <1>2, <1>3, <2>1, <2>2 DEF AsSeen
<1>4. CASE i \notin Meetings
  <2>1. Content(i)[2] = {} /\ seen[2] = {}
    BY <1>1, <1>4 DEF Content, IsReading
  <2> QED BY <1>4, <2>1 DEF AsSeen
<1> QED BY <1>3, <1>4

(* The rows a transaction leaves. *)
LEMMA RowsAfter ==
  ASSUME NEW r \in Requests, TypeOK, Commit(r)
  PROVE  /\ DOMAIN rows' = (DOMAIN rows \cup DOMAIN plan[r].ins) \ plan[r].del
         /\ DOMAIN plan[r].ins \cap DOMAIN rows = {}
         /\ DOMAIN plan[r].upd \subseteq DOMAIN rows
         /\ \A i \in DOMAIN rows' \cap DOMAIN plan[r].ins : rows'[i] = plan[r].ins[i]
         /\ \A i \in DOMAIN rows' \cap DOMAIN plan[r].upd : rows'[i] = Patched(rows[i], plan[r].upd[i])
         /\ \A i \in DOMAIN rows' : i \notin DOMAIN plan[r].ins \cup DOMAIN plan[r].upd =>
              i \in DOMAIN rows /\ rows'[i] = rows[i]
<1> DEFINE p == plan[r]
<1>1. rows' = Restrict(Merged(p), (DOMAIN rows \cup DOMAIN p.ins) \ p.del)
  BY DEF Commit, Flushed
<1>2. DOMAIN rows' = (DOMAIN rows \cup DOMAIN p.ins) \ p.del
  BY <1>1 DEF Restrict
<1>3. \A i \in DOMAIN rows' : rows'[i] = Merged(p)[i]
  BY <1>1, <1>2 DEF Restrict
<1>4. DOMAIN p.ins \cap DOMAIN rows = {} /\ DOMAIN p.upd \subseteq DOMAIN rows
  BY DEF Commit, Accepts
<1>5. \A i \in DOMAIN rows' : /\ i \in DOMAIN p.ins => rows'[i] = p.ins[i]
                              /\ i \in DOMAIN p.upd => rows'[i] = Patched(rows[i], p.upd[i])
                              /\ i \notin DOMAIN p.ins \cup DOMAIN p.upd => rows'[i] = rows[i]
  BY <1>2, <1>3, <1>4 DEF Merged
<1> HIDE DEF p
<1> QED BY <1>2, <1>4, <1>5 DEF p

(* Every row of them was inserted, or was there and points where it did. *)
LEMMA RowsAfterArePlaced ==
  ASSUME NEW r \in Requests, TypeOK, Commit(r), NEW i \in DOMAIN rows'
  PROVE  /\ Placed(i, rows'[i])
         /\ i \notin DOMAIN plan[r].ins =>
              /\ i \in DOMAIN rows /\ Names(rows'[i]) = Names(rows[i])
              /\ i \in Versions \cup Absences => rows'[i].member = rows[i].member
              /\ i \in Absences => rows'[i].uid = rows[i].uid
<1>1. IsPlan(plan[r])
  BY DEF Commit, TypeOK
<1>2. CASE i \in DOMAIN plan[r].ins
  BY <1>1, <1>2, RowsAfter DEF IsPlan
<1>3. CASE i \in DOMAIN plan[r].upd
  <2>1. i \in DOMAIN rows /\ i \notin DOMAIN plan[r].ins /\ rows'[i] = Patched(rows[i], plan[r].upd[i])
    BY <1>3, RowsAfter
  <2>2. Placed(i, rows[i]) /\ IsDelta(plan[r].upd[i])
    BY <1>1, <1>3, <2>1 DEF TypeOK, IsPlan
  <2> QED BY <2>1, <2>2, PatchKeeps
<1>4. CASE i \notin DOMAIN plan[r].ins \cup DOMAIN plan[r].upd
  <2>1. i \in DOMAIN rows /\ rows'[i] = rows[i]
    BY <1>4, RowsAfter
  <2> QED BY <2>1 DEF TypeOK
<1> QED BY <1>2, <1>3, <1>4
-----------------------------------------------------------------------------
(* Decisions                                                               *)

\* What every handler sees to before it decides for f and p.
WellDecided(r, f, p) ==
  /\ DOMAIN f = {"op", "on", "seen"}
  /\ f.op # "edit"
  /\ f.op \in DOMAIN TaggedOps => at[r] = "open" /\ f.on = form[r].on /\ f.seen = form[r].seen
  /\ f.on \in {form[r].on, Nothing} \cup DOMAIN rows
  /\ \A i \in DOMAIN p.ins \ Attendees : ~ Named(i)
  /\ IsPlan(p)
  /\ Fits(f, p)

LEMMA TaggedOpsAre ==
  DOMAIN TaggedOps = {"update_member", "delete_member", "replace_version", "update_version",
                      "delete_version", "update_absence", "delete_absence", "update_meeting",
                      "delete_meeting"}
BY DEF TaggedOps

(* A decision fits as long as the rows stay as they are. *)
LEMMA FitsWhileRowsStay ==
  ASSUME NEW r, NEW f, NEW p,
         rows' = rows, form'[r] = f, plan'[r] = p, Fits(f, p)
  PROVE  Fits(form[r], plan[r])'
<1>1. KeepsPatterns(plan[r])'
  BY DEF Fits, KeepsPatterns, Live, All
<1>2. LeavesNoStrays(plan[r])'
  BY DEF Fits, LeavesNoStrays
<1>3. WritesRules(plan[r])'
  BY DEF Fits, WritesRules
<1>4. form'[r].op = "import" => Mirrors(form[r].on, form[r].seen, plan[r])'
  BY DEF Fits, Mirrors, Imported, Live, All
<1>5. form'[r].op = "bulk_absences" => Clears("absence", plan[r])'
  BY DEF Fits, Clears, All, Inside
<1>6. form'[r].op = "bulk_meetings" => Clears("meeting", plan[r])'
  BY DEF Fits, Clears, All, Inside
<1>7. form'[r].op \in DOMAIN TaggedOps => AsSeen(form[r].on, form[r].seen)'
  BY DEF Fits, AsSeen, Content, AttendeesOf, All
<1> QED BY <1>1, <1>2, <1>3, <1>4, <1>5, <1>6, <1>7 DEF Fits

LEMMA AsSeenWhileRowsStay ==
  ASSUME NEW r, rows' = rows, form'[r] = form[r], AsSeen(form[r].on, form[r].seen)
  PROVE  AsSeen(form[r].on, form[r].seen)'
BY DEF AsSeen, Content, AttendeesOf, All

(* What one request is about to insert is in no row and is no other's. *)
LEMMA ReservedIds ==
  ASSUME TypeOK, InsertsAreReserved, NEW r \in Requests, at[r] = "checked",
         NEW i \in DOMAIN plan[r].ins \ Attendees
  PROVE  Reserved(i, r) /\ i \in Ids /\ i # Nothing
<1>1. Placed(i, plan[r].ins[i])
  BY DEF TypeOK, IsPlan
<1>2. i \in Ids
  BY <1>1, PlacedIn
<1> QED BY <1>2, IdsAreApart DEF InsertsAreReserved, Ids

LEMMA DecideKeeps ==
  ASSUME IInv, NEW r \in Requests, NEW f, NEW p,
         Decide(r, f, p), WellDecided(r, f, p), UNCHANGED scope
  PROVE  IInv'
<1>1. /\ rows' = rows /\ overtaken' = overtaken /\ scope' = scope
      /\ at' = [at EXCEPT ![r] = "checked"] /\ moved' = [moved EXCEPT ![r] = FALSE]
      /\ form' = [form EXCEPT ![r] = f] /\ plan' = [plan EXCEPT ![r] = p]
  BY DEF Decide
<1>2. /\ at'[r] = "checked" /\ form'[r] = f /\ plan'[r] = p
      /\ \A q \in Requests \ {r} : /\ at'[q] = at[q] /\ form'[q] = form[q] /\ plan'[q] = plan[q]
                                   /\ moved'[q] = moved[q]
  BY <1>1 DEF IInv, TypeOK
<1>3. TypeOK'
  <2>1. /\ \A i \in DOMAIN rows' : Placed(i, rows'[i])
        /\ at' \in [Requests -> {"idle", "open", "checked"}]
        /\ moved' \in [Requests -> BOOLEAN] /\ overtaken' \in [Requests -> BOOLEAN]
        /\ DOMAIN form' = Requests /\ DOMAIN plan' = Requests
        /\ scope' \in DOMAIN MaxRows
    BY <1>1 DEF IInv, TypeOK
  <2>2. ASSUME NEW q \in Requests
        PROVE  /\ DOMAIN form'[q] = {"op", "on", "seen"}
               /\ form'[q].op \in {"edit"} \cup DOMAIN TaggedOps => IsReading(form'[q].on, form'[q].seen)
               /\ at'[q] = "open" => form'[q].op = "edit"
               /\ at'[q] = "checked" => form'[q].op # "edit" /\ IsPlan(plan'[q])
    <3>1. CASE q = r
      BY <1>2, <3>1 DEF IInv, TypeOK, Reads, WellDecided
    <3>2. CASE q # r
      BY <1>2, <3>2 DEF IInv, TypeOK, Reads
    <3> QED BY <3>1, <3>2
  <2> QED BY <2>1, <2>2 DEF TypeOK, Reads
<1>4. InsertsAreReserved'
  <2>1. ASSUME NEW i, NEW q \in Requests \ {r}
        PROVE  NamedBy(q, i)' <=> NamedBy(q, i)
    BY <1>2 DEF NamedBy, Reads
  <2>2. ASSUME NEW q \in Requests \ {r}, at[q] = "checked", NEW i \in DOMAIN plan[q].ins \ Attendees
        PROVE  ~ NamedBy(r, i)'
    <3>1. Reserved(i, q) /\ i # Nothing
      BY <2>2, ReservedIds DEF IInv
    <3>2. i \notin DOMAIN rows /\ ~ NamedBy(r, i)
      BY <3>1 DEF Reserved
    <3>3. i # f.on
      BY <3>1, <3>2 DEF WellDecided, NamedBy
    <3>4. i \notin DOMAIN p.ins
      BY <2>2 DEF WellDecided, Named
    <3>5. \A k \in DOMAIN p.ins : i \notin Names(p.ins[k])
      BY <3>2, <3>4 DEF WellDecided, Fits, LeavesNoStrays
    <3>6. f.op \in {"edit"} \cup DOMAIN TaggedOps => i \notin Names(f.seen[1]) \cup f.seen[2]
      BY <3>2 DEF WellDecided, NamedBy, Reads, IInv, TypeOK
    <3> QED BY <1>2, <3>3, <3>4, <3>5, <3>6 DEF NamedBy, Reads
  <2>3. ASSUME NEW i \in DOMAIN p.ins \ Attendees
        PROVE  Reserved(i, r)'
    <3>1. ~ Named(i)
      BY DEF WellDecided
    <3>2. \A q \in Requests \ {r} : ~ NamedBy(q, i)
      BY <3>1 DEF Named, NamedBy, Reads
    <3> QED BY <1>1, <2>1, <3>1, <3>2 DEF Named, Reserved
  <2>4. ASSUME NEW q \in Requests \ {r}, at[q] = "checked", NEW i \in DOMAIN plan[q].ins \ Attendees
        PROVE  Reserved(i, q)'
    <3>1. Reserved(i, q)
      BY <2>4, ReservedIds DEF IInv
    <3>2. \A t \in Requests \ {q} : ~ NamedBy(t, i)'
      BY <2>1, <2>2, <2>4, <3>1 DEF Reserved
    <3> QED BY <1>1, <3>1, <3>2 DEF Reserved
  <2> QED BY <1>2, <2>3, <2>4 DEF InsertsAreReserved
<1>5. FreshDecisionsFit'
  <2>1. Fits(form[r], plan[r])'
    BY <1>1, <1>2, FitsWhileRowsStay DEF WellDecided
  <2>2. ASSUME NEW q \in Requests \ {r}, at'[q] = "checked", ~ overtaken'[q]
        PROVE  Fits(form[q], plan[q])'
    <3>1. Fits(form[q], plan[q])
      BY <1>1, <1>2, <2>2 DEF IInv, FreshDecisionsFit
    <3> QED BY <1>1, <1>2, <3>1, FitsWhileRowsStay
  <2> QED BY <2>1, <2>2 DEF FreshDecisionsFit
<1>6. UnmovedIsAsSeen'
  <2>1. ASSUME NEW q \in Requests, at'[q] = "open", CheckIfMatch(q)'
        PROVE  AsSeen(form[q].on, form[q].seen)'
    <3>1. q # r /\ at[q] = "open" /\ CheckIfMatch(q)
      BY <1>1, <1>2, <2>1 DEF CheckIfMatch
    <3>2. AsSeen(form[q].on, form[q].seen)
      BY <3>1 DEF IInv, UnmovedIsAsSeen
    <3> QED BY <1>1, <1>2, <3>1, <3>2, AsSeenWhileRowsStay
  <2> QED BY <2>1 DEF UnmovedIsAsSeen
<1> QED BY <1>3, <1>4, <1>5, <1>6 DEF IInv
-----------------------------------------------------------------------------
(* Clients                                                                 *)

LEMMA OpenKeeps ==
  ASSUME IInv, NEW r \in Requests, Open(r), UNCHANGED scope
  PROVE  IInv'
<1>1. PICK i \in DOMAIN rows :
        /\ rows[i].is \in {"member", scope}
        /\ form' = [form EXCEPT ![r] = [op |-> "edit", on |-> i, seen |-> Content(i)]]
  BY DEF Open
<1>2. /\ at[r] = "idle" /\ at' = [at EXCEPT ![r] = "open"]
      /\ rows' = rows /\ moved' = moved /\ plan' = plan /\ overtaken' = overtaken
  BY DEF Open
<1>3. /\ at'[r] = "open" /\ form'[r] = [op |-> "edit", on |-> i, seen |-> Content(i)]
      /\ \A q \in Requests \ {r} : at'[q] = at[q] /\ form'[q] = form[q]
  BY <1>1, <1>2 DEF IInv, TypeOK
<1>4. IsReading(i, Content(i)) /\ Content(i)[1] = rows[i]
  <2>1. Placed(i, rows[i])
    BY DEF IInv, TypeOK
  <2>2. i \notin Attendees
    BY <1>1, <2>1, PlacedIs, ScopesAreTables DEF IInv, TypeOK
  <2>3. i \in Ids
    BY <2>1, <2>2, PlacedIn
  <2>4. rows[i].is = "meeting" <=> i \in Meetings
    BY <2>1, PlacedIs
  <2>5. i \in Meetings => {rows[a].member : a \in AttendeesOf(i)} \subseteq Members
    BY AttendeesById DEF IInv, TypeOK
  <2> QED BY <2>1, <2>3, <2>4, <2>5 DEF IsReading, Content
<1>5. TypeOK'
  <2>1. ASSUME NEW q \in Requests
        PROVE  /\ DOMAIN form'[q] = {"op", "on", "seen"}
               /\ form'[q].op \in {"edit"} \cup DOMAIN TaggedOps => IsReading(form'[q].on, form'[q].seen)
               /\ at'[q] = "open" => form'[q].op = "edit"
               /\ at'[q] = "checked" => form'[q].op # "edit" /\ IsPlan(plan'[q])
    <3>1. CASE q = r
      BY <1>3, <1>4, <3>1
    <3>2. CASE q # r
      BY <1>2, <1>3, <3>2 DEF IInv, TypeOK, Reads
    <3> QED BY <3>1, <3>2
  <2> QED BY <1>1, <1>2, <2>1 DEF IInv, TypeOK, Reads
<1>6. InsertsAreReserved'
  <2>1. ASSUME NEW q \in Requests, at'[q] = "checked", NEW j \in DOMAIN plan'[q].ins \ Attendees
        PROVE  Reserved(j, q)'
    <3>1. q # r /\ at[q] = "checked" /\ j \in DOMAIN plan[q].ins \ Attendees
      BY <1>2, <1>3, <2>1
    <3>2. Reserved(j, q)
      BY <3>1, ReservedIds DEF IInv
    <3>3. ASSUME NEW t \in Requests \ {q, r}
          PROVE  ~ NamedBy(t, j)'
      BY <1>2, <1>3, <3>2 DEF Reserved, NamedBy, Reads
    <3>4. ~ NamedBy(r, j)'
      <4>1. j # i /\ j \notin Names(Content(i)[1])
        BY <1>4, <3>2 DEF Reserved
      <4>2. j \notin Content(i)[2]
        <5>1. SUFFICES ASSUME j \in Content(i)[2] PROVE FALSE
          OBVIOUS
        <5>2. i \in Meetings /\ j \in {rows[a].member : a \in AttendeesOf(i)}
          BY <1>4, <5>1 DEF IsReading, Content
        <5>3. PICK a \in AttendeesOf(i) : j = rows[a].member
          BY <5>2
        <5>4. a \in DOMAIN rows \cap Attendees
          BY TablesById DEF IInv, TypeOK, AttendeesOf
        <5>5. j \in Names(rows[a])
          BY <5>3, <5>4, NamesOfPlaced DEF IInv, TypeOK
        <5> QED BY <3>2, <5>4, <5>5 DEF Reserved
      <4>3. ~ NamedBy(r, j)
        BY <3>1, <3>2 DEF Reserved
      <4> QED BY <1>2, <1>3, <4>1, <4>2, <4>3 DEF NamedBy, Reads
    <3> QED BY <1>2, <3>2, <3>3, <3>4 DEF Reserved
  <2> QED BY <2>1 DEF InsertsAreReserved
<1>7. FreshDecisionsFit'
  <2>1. ASSUME NEW q \in Requests, at'[q] = "checked", ~ overtaken'[q]
        PROVE  Fits(form[q], plan[q])'
    <3>1. q # r /\ Fits(form[q], plan[q])
      BY <1>2, <1>3, <2>1 DEF IInv, FreshDecisionsFit
    <3> QED BY <1>2, <1>3, <3>1, FitsWhileRowsStay
  <2> QED BY <2>1 DEF FreshDecisionsFit
<1>8. UnmovedIsAsSeen'
  <2>1. ASSUME NEW q \in Requests \ {r}, at'[q] = "open", CheckIfMatch(q)'
        PROVE  AsSeen(form[q].on, form[q].seen)'
    <3>1. at[q] = "open" /\ CheckIfMatch(q)
      BY <1>2, <1>3, <2>1 DEF CheckIfMatch
    <3> QED BY <1>2, <1>3, <3>1, AsSeenWhileRowsStay DEF IInv, UnmovedIsAsSeen
  <2>2. AsSeen(form[r].on, form[r].seen)'
    <3>1. AsSeen(i, Content(i))
      BY <1>4 DEF AsSeen
    <3> QED BY <1>2, <1>3, <3>1 DEF AsSeen, Content, AttendeesOf, All
  <2> QED BY <2>1, <2>2 DEF UnmovedIsAsSeen
<1> QED BY <1>5, <1>6, <1>7, <1>8 DEF IInv

(* A request that is over names nothing and claims nothing. *)
LEMMA ClosedKeeps ==
  ASSUME IInv, NEW r \in Requests, Closed(r), rows' = rows, UNCHANGED scope,
         moved' \in [Requests -> BOOLEAN], overtaken' \in [Requests -> BOOLEAN],
         \A q \in Requests \ {r} : moved'[q] = moved[q] /\ overtaken'[q] = overtaken[q]
  PROVE  IInv'
<1>1. /\ at' = [at EXCEPT ![r] = "idle"]
      /\ at'[r] = "idle" /\ form'[r] = NoForm /\ plan'[r] = NoPlan
      /\ DOMAIN form' = Requests /\ DOMAIN plan' = Requests
      /\ \A q \in Requests \ {r} : at'[q] = at[q] /\ form'[q] = form[q] /\ plan'[q] = plan[q]
  BY DEF Closed, IInv, TypeOK
<1>2. NoForm.op \notin {"edit"} \cup DOMAIN TaggedOps /\ DOMAIN NoForm = {"op", "on", "seen"}
  BY TaggedOpsAre DEF NoForm
<1>3. TypeOK'
  <2>1. ASSUME NEW q \in Requests
        PROVE  /\ DOMAIN form'[q] = {"op", "on", "seen"}
               /\ form'[q].op \in {"edit"} \cup DOMAIN TaggedOps => IsReading(form'[q].on, form'[q].seen)
               /\ at'[q] = "open" => form'[q].op = "edit"
               /\ at'[q] = "checked" => form'[q].op # "edit" /\ IsPlan(plan'[q])
    <3>1. CASE q = r
      BY <1>1, <1>2, <3>1
    <3>2. CASE q # r
      BY <1>1, <3>2 DEF IInv, TypeOK, Reads
    <3> QED BY <3>1, <3>2
  <2> QED BY <1>1, <2>1 DEF IInv, TypeOK, Reads
<1>4. InsertsAreReserved'
  <2>1. ASSUME NEW q \in Requests, at'[q] = "checked", NEW j \in DOMAIN plan'[q].ins \ Attendees
        PROVE  Reserved(j, q)'
    <3>1. q # r /\ at[q] = "checked" /\ j \in DOMAIN plan[q].ins \ Attendees
      BY <1>1, <2>1
    <3>2. Reserved(j, q) /\ j # Nothing
      BY <3>1, ReservedIds DEF IInv
    <3>3. ASSUME NEW t \in Requests \ {q, r}
          PROVE  ~ NamedBy(t, j)'
      BY <1>1, <3>2 DEF Reserved, NamedBy, Reads
    <3>4. ~ NamedBy(r, j)'
      BY <1>1, <1>2, <3>2 DEF NamedBy, Reads, NoForm, NoPlan
    <3> QED BY <3>2, <3>3, <3>4 DEF Reserved
  <2> QED BY <2>1 DEF InsertsAreReserved
<1>5. FreshDecisionsFit'
  <2>1. ASSUME NEW q \in Requests, at'[q] = "checked", ~ overtaken'[q]
        PROVE  Fits(form[q], plan[q])'
    <3>1. q # r /\ Fits(form[q], plan[q])
      BY <1>1, <2>1 DEF IInv, FreshDecisionsFit
    <3> QED BY <1>1, <3>1, FitsWhileRowsStay
  <2> QED BY <2>1 DEF FreshDecisionsFit
<1>6. UnmovedIsAsSeen'
  <2>1. ASSUME NEW q \in Requests, at'[q] = "open", CheckIfMatch(q)'
        PROVE  AsSeen(form[q].on, form[q].seen)'
    <3>1. q # r /\ at[q] = "open" /\ CheckIfMatch(q)
      BY <1>1, <2>1 DEF CheckIfMatch
    <3> QED BY <1>1, <3>1, AsSeenWhileRowsStay DEF IInv, UnmovedIsAsSeen
  <2> QED BY <2>1 DEF UnmovedIsAsSeen
<1> QED BY <1>3, <1>4, <1>5, <1>6 DEF IInv

LEMMA GiveUpKeeps ==
  ASSUME IInv, NEW r \in Requests, GiveUp(r), UNCHANGED scope
  PROVE  IInv'
BY ClosedKeeps DEF GiveUp, IInv, TypeOK

LEMMA FailKeeps ==
  ASSUME IInv, NEW r \in Requests, Fail(r), UNCHANGED scope
  PROVE  IInv'
BY ClosedKeeps DEF Fail, IInv, TypeOK
-----------------------------------------------------------------------------
(* Commits                                                                 *)

(* Whoever else is between its check and its commit is overtaken; whoever has read a row  *)
(* that is written learns that its tag has moved.                                         *)
LEMMA CommitTellsOthers ==
  ASSUME IInv, NEW r \in Requests, Commit(r)
  PROVE  /\ at' = [at EXCEPT ![r] = "idle"]
         /\ at'[r] = "idle" /\ form'[r] = NoForm /\ plan'[r] = NoPlan
         /\ DOMAIN form' = Requests /\ DOMAIN plan' = Requests
         /\ moved' \in [Requests -> BOOLEAN] /\ overtaken' \in [Requests -> BOOLEAN]
         /\ \A q \in Requests \ {r} :
              /\ at'[q] = at[q] /\ form'[q] = form[q] /\ plan'[q] = plan[q]
              /\ at[q] = "checked" => overtaken'[q]
              /\ moved'[q] <=> moved[q] \/ (at[q] = "open" /\ form[q].on \in DOMAIN plan[r].upd)
<1>1. /\ at' = [at EXCEPT ![r] = "idle"]
      /\ at'[r] = "idle" /\ form'[r] = NoForm /\ plan'[r] = NoPlan
      /\ DOMAIN form' = Requests /\ DOMAIN plan' = Requests
      /\ \A q \in Requests \ {r} : at'[q] = at[q] /\ form'[q] = form[q] /\ plan'[q] = plan[q]
  BY DEF Commit, Closed, IInv, TypeOK
<1>2. /\ overtaken' \in [Requests -> BOOLEAN]
      /\ \A q \in Requests \ {r} : at[q] = "checked" => overtaken'[q]
  BY DEF Commit, IInv, TypeOK
<1>3. \A q \in Requests : moved[q] \in BOOLEAN
  BY DEF IInv, TypeOK
<1>4. moved' = [q \in Requests |-> q # r /\ (moved[q] \/ (at[q] = "open" /\ form[q].on \in DOMAIN plan[r].upd))]
  BY DEF Commit
<1>5. /\ moved' \in [Requests -> BOOLEAN]
      /\ \A q \in Requests \ {r} :
           moved'[q] <=> moved[q] \/ (at[q] = "open" /\ form[q].on \in DOMAIN plan[r].upd)
  BY <1>3, <1>4
<1> QED BY <1>1, <1>2, <1>5

(* A dialog whose tag has not moved still shows the row, also who attends it: attendance *)
(* never changes behind the tag's back.                                                   *)
LEMMA CommitKeepsReadings ==
  ASSUME IInv, NEW r \in Requests, Commit(r), TypeOK',
         NEW q \in Requests, at'[q] = "open", CheckIfMatch(q)'
  PROVE  AsSeen(form[q].on, form[q].seen)'
<1> DEFINE i == form[q].on
           seen == form[q].seen
           p == plan[r]
<1>1. /\ q # r /\ at[q] = "open" /\ form'[q] = form[q] /\ ~ moved[q] /\ i \notin DOMAIN p.upd
      /\ i \in DOMAIN rows'
  <2>1. form'[q].on \in DOMAIN rows' /\ ~ moved'[q]
    BY DEF CheckIfMatch
  <2>2. q # r
    BY CommitTellsOthers
  <2> QED BY <2>1, <2>2, CommitTellsOthers
<1>2. Reads(q) /\ IsReading(i, seen)
  BY <1>1 DEF IInv, TypeOK, Reads
<1>3. at[r] = "checked" /\ IsPlan(p)
  BY DEF Commit, IInv, TypeOK
<1>30. /\ DOMAIN rows' = (DOMAIN rows \cup DOMAIN p.ins) \ p.del
       /\ \A j \in DOMAIN rows' : j \notin DOMAIN p.ins \cup DOMAIN p.upd =>
            j \in DOMAIN rows /\ rows'[j] = rows[j]
  <2>1. TypeOK
    BY DEF IInv
  <2> QED BY <2>1, RowsAfter
<1>4. ASSUME NEW j \in DOMAIN p.ins \ Attendees
      PROVE  /\ j \notin DOMAIN rows /\ \A k \in DOMAIN rows : j \notin Names(rows[k])
             /\ j # i /\ j \notin seen[2]
  BY <1>1, <1>2, <1>3, ReservedIds DEF IInv, Reserved, NamedBy
<1>5. i \notin Attendees
  BY <1>2, PlacedIn DEF IsReading
<1>6. i \in DOMAIN rows /\ rows'[i] = rows[i] /\ i \notin DOMAIN p.ins /\ i \notin p.del
  BY <1>1, <1>4, <1>5, <1>30
<1>7. AsSeen(i, seen)
  BY <1>1, <1>6 DEF IInv, UnmovedIsAsSeen, CheckIfMatch
<1>8. /\ rows[i] = seen[1]
      /\ i \in Meetings => \A m \in DOMAIN rows \cap Members : <<i, m>> \in DOMAIN rows <=> m \in seen[2]
  BY <1>2, <1>6, <1>7, AsSeenMeans DEF IInv, TypeOK, TellsAsSeen
<1>9. ASSUME i \in Meetings, NEW m \in DOMAIN rows' \cap Members
      PROVE  <<i, m>> \in DOMAIN rows' <=> m \in seen[2]
  <2>1. m \notin Attendees /\ m \notin p.del
    BY <1>9, <1>30, IdsAreApart
  <2>2. <<i, m>> \notin DOMAIN p.ins
    BY <1>1, <1>3, <1>6, <1>9 DEF IsPlan, TagsAttendance
  <2>3. <<i, m>> \notin p.del
    BY <1>1, <1>3, <1>6, <1>9, <2>1 DEF IsPlan, TagsAttendance
  <2>4. <<i, m>> \in DOMAIN rows' <=> <<i, m>> \in DOMAIN rows
    BY <2>2, <2>3, <1>30
  <2>5. CASE m \in DOMAIN p.ins
    <3>1. m \notin seen[2] /\ \A k \in DOMAIN rows : m \notin Names(rows[k])
      BY <1>4, <2>1, <2>5
    <3>2. ASSUME <<i, m>> \in DOMAIN rows PROVE FALSE
      <4>1. <<i, m>> \in Attendees /\ Placed(<<i, m>>, rows[<<i, m>>])
        BY <1>9, <3>2 DEF Attendees, IInv, TypeOK
      <4>2. m \in Names(rows[<<i, m>>])
        BY <4>1, NamesOfPlaced
      <4> QED BY <3>1, <3>2, <4>2
    <3> QED BY <2>4, <3>1, <3>2
  <2>6. CASE m \notin DOMAIN p.ins
    <3>1. m \in DOMAIN rows
      BY <1>9, <2>6, <1>30
    <3> QED BY <1>8, <1>9, <2>4, <3>1
  <2> QED BY <2>5, <2>6
<1>10. TellsAsSeen'
  BY AsSeenMeans, PTL
<1>11. \A k \in DOMAIN rows' : Placed(k, rows'[k])
  BY DEF TypeOK
<1> HIDE DEF i, seen, p
<1>12. \A s, j : s = seen /\ j = i => AsSeen(j, s)'
  BY <1>1, <1>2, <1>6, <1>8, <1>9, <1>10, <1>11 DEF TellsAsSeen, IsReading
<1> QED BY <1>1, <1>12 DEF i, seen, AsSeen, Content, AttendeesOf, All
LEMMA CommitKeeps ==
  ASSUME IInv, NEW r \in Requests, Commit(r), UNCHANGED scope
  PROVE  IInv'
<1>1. NoForm.op \notin {"edit"} \cup DOMAIN TaggedOps /\ DOMAIN NoForm = {"op", "on", "seen"}
  BY TaggedOpsAre DEF NoForm
<1>2. TypeOK'
  <2>1. \A i \in DOMAIN rows' : Placed(i, rows'[i])
    BY RowsAfterArePlaced DEF IInv
  <2>2. at' \in [Requests -> {"idle", "open", "checked"}] /\ scope' \in DOMAIN MaxRows
    BY CommitTellsOthers DEF IInv, TypeOK
  <2>3. ASSUME NEW q \in Requests
        PROVE  /\ DOMAIN form'[q] = {"op", "on", "seen"}
               /\ form'[q].op \in {"edit"} \cup DOMAIN TaggedOps => IsReading(form'[q].on, form'[q].seen)
               /\ at'[q] = "open" => form'[q].op = "edit"
               /\ at'[q] = "checked" => form'[q].op # "edit" /\ IsPlan(plan'[q])
    <3>1. CASE q = r
      BY <1>1, <3>1, CommitTellsOthers
    <3>2. CASE q # r
      BY <3>2, CommitTellsOthers DEF IInv, TypeOK, Reads
    <3> QED BY <3>1, <3>2
  <2> QED BY <2>1, <2>2, <2>3, CommitTellsOthers DEF TypeOK, Reads
<1>3. InsertsAreReserved'
  <2>1. ASSUME NEW q \in Requests, at'[q] = "checked", NEW j \in DOMAIN plan'[q].ins \ Attendees
        PROVE  Reserved(j, q)'
    <3>1. q # r /\ at[q] = "checked" /\ j \in DOMAIN plan[q].ins \ Attendees
      BY <2>1, CommitTellsOthers
    <3>2. Reserved(j, q) /\ j # Nothing
      BY <3>1, ReservedIds DEF IInv
    <3>3. ~ NamedBy(r, j)
      BY <3>1, <3>2 DEF Reserved
    <3>4. j \notin DOMAIN rows'
      BY <3>2, <3>3, RowsAfter DEF IInv, Reserved, NamedBy
    <3>5. ASSUME NEW k \in DOMAIN rows'
          PROVE  j \notin Names(rows'[k])
      <4>1. CASE k \in DOMAIN plan[r].ins
        <5>1. rows'[k] = plan[r].ins[k]
          BY <4>1, RowsAfter DEF IInv
        <5> QED BY <3>3, <4>1, <5>1 DEF NamedBy
      <4>2. CASE k \notin DOMAIN plan[r].ins
        <5>1. k \in DOMAIN rows /\ Names(rows'[k]) = Names(rows[k])
          BY <4>2, RowsAfterArePlaced DEF IInv
        <5> QED BY <3>2, <5>1 DEF Reserved
      <4> QED BY <4>1, <4>2
    <3>6. ASSUME NEW t \in Requests \ {q, r}
          PROVE  ~ NamedBy(t, j)'
      BY <3>2, CommitTellsOthers DEF Reserved, NamedBy, Reads
    <3>7. ~ NamedBy(r, j)'
      BY <1>1, <3>2, CommitTellsOthers DEF NamedBy, Reads, NoForm, NoPlan
    <3> QED BY <3>4, <3>5, <3>6, <3>7 DEF Reserved
  <2> QED BY <2>1 DEF InsertsAreReserved
<1>4. FreshDecisionsFit'
  BY CommitTellsOthers DEF FreshDecisionsFit
<1>5. UnmovedIsAsSeen'
  BY <1>2, CommitKeepsReadings DEF UnmovedIsAsSeen
<1> QED BY <1>2, <1>3, <1>4, <1>5 DEF IInv
-----------------------------------------------------------------------------
(* What the handlers share                                                 *)

\* The handler's step is a decision that sees to all it has to.
DecidesWell(r) == \E f, p : Decide(r, f, p) /\ WellDecided(r, f, p)

LEMMA AskedDecidesWell ==
  ASSUME IInv, NEW r \in Requests, NEW op, NEW p, Asked(r, op, p),
         op \notin {"edit", "import"} \cup DOMAIN TaggedOps,
         \A i \in DOMAIN p.ins \ Attendees : ~ Named(i),
         IsPlan(p), KeepsPatterns(p), LeavesNoStrays(p), WritesRules(p),
         op = "bulk_absences" => Clears("absence", p),
         op = "bulk_meetings" => Clears("meeting", p)
  PROVE  DecidesWell(r)
<1> DEFINE f == [op |-> op, on |-> Nothing, seen |-> Nothing]
<1>1. Decide(r, f, p)
  BY DEF Asked
<1>2. DOMAIN f = {"op", "on", "seen"} /\ f.op = op /\ f.on = Nothing
  OBVIOUS
<1> HIDE DEF f
<1>3. WellDecided(r, f, p)
  BY <1>2 DEF WellDecided, Fits
<1> QED BY <1>1, <1>3 DEF DecidesWell

LEMMA TaggedDecidesWell ==
  ASSUME IInv, NEW r \in Requests, NEW op \in DOMAIN TaggedOps, NEW p,
         at[r] = "open", CheckIfMatch(r), Decided(r, op, p),
         DOMAIN p.ins \subseteq Attendees,
         IsPlan(p), KeepsPatterns(p), LeavesNoStrays(p), WritesRules(p)
  PROVE  DecidesWell(r)
<1> DEFINE f == [form[r] EXCEPT !.op = op]
<1>1. Decide(r, f, p)
  BY DEF Decided
<1>2. DOMAIN f = {"op", "on", "seen"} /\ f.op = op /\ f.on = form[r].on /\ f.seen = form[r].seen
  BY DEF IInv, TypeOK
<1> HIDE DEF f
<1>3. AsSeen(form[r].on, form[r].seen)
  BY DEF IInv, UnmovedIsAsSeen
<1>4. op \notin {"edit", "import", "bulk_absences", "bulk_meetings"}
  BY TaggedOpsAre
<1>5. WellDecided(r, f, p)
  BY <1>2, <1>3, <1>4 DEF WellDecided, Fits
<1> QED BY <1>1, <1>5 DEF DecidesWell

LEMMA WritesIs ==
  ASSUME NEW ins, NEW upd, NEW del
  PROVE  /\ Writes(ins, upd, del).ins = ins
         /\ Writes(ins, upd, del).upd = upd
         /\ Writes(ins, upd, del).del = del
BY DEF Writes

LEMMA NothingInEmpty == DOMAIN <<>> = {}
OBVIOUS

(* The row a request that passed the check has read. *)
LEMMA MatchedRow ==
  ASSUME IInv, NEW r \in Requests, NEW op \in DOMAIN TaggedOps, Matches(r, op)
  PROVE  /\ at[r] = "open" /\ CheckIfMatch(r) /\ form[r].on \in DOMAIN rows
         /\ TaggedOps[op] = "member" => form[r].on \in Members
         /\ TaggedOps[op] = "version" => form[r].on \in Versions
         /\ TaggedOps[op] = "absence" => form[r].on \in Absences
         /\ TaggedOps[op] = "meeting" => form[r].on \in Meetings
BY PlacedIs DEF Matches, CheckIfMatch, IInv, TypeOK

(* A plan that creates no member and deletes no version takes no pattern away. *)
LEMMA PatternsStay ==
  ASSUME TypeOK, NEW p, DOMAIN p.ins \cap Members = {}, p.del \cap Versions = {}
  PROVE  KeepsPatterns(p)
BY TablesById DEF KeepsPatterns, Live, TypeOK

(* Nothing points at a row that is neither a member nor a meeting. *)
LEMMA NothingPointsThere ==
  ASSUME TypeOK, NEW D, D \cap (Members \cup Meetings) = {}, NEW i \in DOMAIN rows
  PROVE  Names(rows[i]) \cap D = {}
BY NamesOfPlaced DEF TypeOK

(* What an UPDATE writes of the columns it is given. *)
LEMMA ChangedIs ==
  ASSUME NEW i, NEW new
  PROVE  /\ DOMAIN Changed(i, new) \subseteq DOMAIN new
         /\ \A c \in DOMAIN Changed(i, new) : Changed(i, new)[c] = new[c]
         /\ \A c \in DOMAIN rows[i] \cap DOMAIN new : Patched(rows[i], Changed(i, new))[c] = new[c]
<1>1. DOMAIN Changed(i, new) = {c \in DOMAIN new : new[c] # rows[i][c]}
  BY DEF Changed, Restrict
<1>2. \A c \in DOMAIN Changed(i, new) : Changed(i, new)[c] = new[c]
  BY DEF Changed, Restrict
<1>3. ASSUME NEW c \in DOMAIN rows[i] \cap DOMAIN new
      PROVE  Patched(rows[i], Changed(i, new))[c] = new[c]
  BY <1>1, <1>2, <1>3 DEF Patched
<1> QED BY <1>1, <1>2, <1>3

LEMMA UpdateIs ==
  ASSUME NEW i, NEW new
  PROVE  DOMAIN Update(i, new) = {i} /\ Update(i, new)[i] = Changed(i, new)
BY DEF Update

LEMMA RuleIsRow ==
  ASSUME NEW f \in Rules
  PROVE  /\ DOMAIN f = {"kind", "weekday", "inside"} /\ IsRule(f)
         /\ f.kind \in Kinds /\ f.weekday \in {1, NoDay} /\ f.inside \in BOOLEAN
BY RulesAreWhole DEF Schedule, IsRule

(* A rule written over a row that is one column by column, and the row is a rule then. *)
LEMMA RuleWritten ==
  ASSUME TypeOK, NEW i \in DOMAIN rows \cap Absences, NEW f \in Rules
  PROVE  IsDelta(Changed(i, f)) /\ IsRule(Patched(rows[i], Changed(i, f)))
<1>1. /\ DOMAIN f = {"kind", "weekday", "inside"} /\ IsRule(f)
      /\ f.kind \in Kinds /\ f.weekday \in {1, NoDay} /\ f.inside \in BOOLEAN
  BY RuleIsRow
<1>2. IsDelta(Changed(i, f))
  BY <1>1, ChangedIs DEF IsDelta
<1>3. {"kind", "weekday"} \subseteq DOMAIN rows[i]
  <2>1. rows[i] \in Absence
    BY PlacedIn DEF TypeOK
  <2> QED BY <2>1 DEF Absence
<1>4. /\ Patched(rows[i], Changed(i, f)).kind = f.kind
      /\ Patched(rows[i], Changed(i, f)).weekday = f.weekday
  BY <1>1, <1>3, ChangedIs
<1> QED BY <1>1, <1>2, <1>4 DEF IsRule
-----------------------------------------------------------------------------
(* Members                                                                 *)

LEMMA CreateMemberDecides ==
  ASSUME IInv, NEW r \in Requests, CreateMember(r)
  PROVE  DecidesWell(r)
<1>1. PICK m \in Fresh(Members), v \in Fresh(Versions), d \in Dates :
        Asked(r, "create_member", Writes([i \in {m, v} |-> IF i = m THEN NewMember ELSE NewVersion(m, d)], <<>>, {}))
  BY DEF CreateMember
<1> DEFINE ins == [i \in {m, v} |-> IF i = m THEN NewMember ELSE NewVersion(m, d)]
           p == Writes(ins, <<>>, {})
<1>2. m \in Members /\ v \in Versions /\ m # v /\ ~ Named(m) /\ ~ Named(v)
  BY IdsAreApart DEF Fresh
<1>3. DOMAIN ins = {m, v} /\ ins[m] = NewMember /\ ins[v] = NewVersion(m, d)
  BY <1>2
<1>4. NewMember \in Member /\ NewVersion(m, d) \in Version /\ NewVersion(m, d).member = m
  BY <1>2 DEF NewMember, NewVersion, Member, Version
<1> HIDE DEF ins
<1>5. p.ins = ins /\ p.upd = <<>> /\ p.del = {} /\ DOMAIN p.upd = {}
  BY WritesIs, NothingInEmpty
<1> HIDE DEF p
<1>6. IsPlan(p)
  BY <1>2, <1>3, <1>4, <1>5, IdsAreApart DEF IsPlan, TagsAttendance, Placed, Attendees
<1>7. KeepsPatterns(p)
  BY <1>2, <1>3, <1>4, <1>5, IdsAreApart DEF KeepsPatterns
<1>8. LeavesNoStrays(p)
  BY <1>3, <1>4, <1>5, NamesOfRows DEF LeavesNoStrays
<1>9. WritesRules(p)
  BY <1>2, <1>3, <1>5, IdsAreApart DEF WritesRules
<1>10. "create_member" \notin {"edit", "import"} \cup DOMAIN TaggedOps
  BY TaggedOpsAre
<1>11. Asked(r, "create_member", p)
  BY <1>1 DEF p, ins
<1> QED BY <1>2, <1>3, <1>5, <1>6, <1>7, <1>8, <1>9, <1>10, <1>11, AskedDecidesWell

LEMMA ReorderDecides ==
  ASSUME IInv, NEW r \in Requests, NEW table \in {"member", "meeting"}, Reorder(r, table)
  PROVE  DecidesWell(r)
<1>1. PICK S \in SUBSET All(table) \ {{}} : Asked(r, "reorder", Writes(<<>>, [i \in S |-> <<>>], {}))
  BY DEF Reorder
<1> DEFINE p == Writes(<<>>, [i \in S |-> <<>>], {})
<1>2. /\ DOMAIN p.ins = {} /\ DOMAIN p.upd = S /\ p.del = {}
      /\ \A i \in S : DOMAIN p.upd[i] = {}
  BY WritesIs, NothingInEmpty
<1> HIDE DEF p
<1>3. S \cap Absences = {}
  BY TablesById, IdsAreApart DEF IInv, TypeOK
<1>4. IsPlan(p) /\ LeavesNoStrays(p) /\ WritesRules(p)
  BY <1>2, <1>3 DEF IsPlan, IsDelta, TagsAttendance, LeavesNoStrays, WritesRules
<1>5. KeepsPatterns(p)
  BY <1>2, PatternsStay DEF IInv
<1>6. "reorder" \notin {"edit", "import"} \cup DOMAIN TaggedOps
  BY TaggedOpsAre
<1>7. Asked(r, "reorder", p)
  BY <1>1 DEF p
<1> QED BY <1>2, <1>4, <1>5, <1>6, <1>7, AskedDecidesWell

LEMMA UpdateMemberDecides ==
  ASSUME IInv, NEW r \in Requests, UpdateMember(r)
  PROVE  DecidesWell(r)
<1> DEFINE m == form[r].on
           p == Writes(<<>>, Update(m, <<>>), {})
<1>1. Matches(r, "update_member") /\ Decided(r, "update_member", p)
  BY DEF UpdateMember
<1>2. "update_member" \in DOMAIN TaggedOps /\ TaggedOps["update_member"] = "member"
  BY DEF TaggedOps
<1>3. at[r] = "open" /\ CheckIfMatch(r) /\ m \in Members
  BY <1>1, <1>2, MatchedRow
<1>4. /\ DOMAIN p.ins = {} /\ DOMAIN p.upd = {m} /\ p.del = {}
      /\ DOMAIN p.upd[m] = {}
  <2>1. DOMAIN Update(m, <<>>) = {m} /\ Update(m, <<>>)[m] = Changed(m, <<>>)
    BY UpdateIs
  <2>2. DOMAIN Changed(m, <<>>) \subseteq DOMAIN <<>>
    BY ChangedIs
  <2> QED BY <2>1, <2>2, WritesIs, NothingInEmpty
<1> HIDE DEF p, m
<1>5. IsPlan(p) /\ LeavesNoStrays(p)
  BY <1>4 DEF IsPlan, IsDelta, TagsAttendance, LeavesNoStrays
<1>6. WritesRules(p)
  BY <1>3, <1>4, IdsAreApart DEF WritesRules
<1>7. KeepsPatterns(p)
  BY <1>4, PatternsStay DEF IInv
<1> QED BY <1>1, <1>2, <1>3, <1>4, <1>5, <1>6, <1>7, TaggedDecidesWell

LEMMA DeleteMemberDecides ==
  ASSUME IInv, NEW r \in Requests, DeleteMember(r)
  PROVE  DecidesWell(r)
<1> DEFINE m == form[r].on
           D == {m} \cup Live("version", m) \cup Live("absence", m) \cup Live("attendee", m)
           p == Writes(<<>>, <<>>, D)
<1>1. Matches(r, "delete_member") /\ Decided(r, "delete_member", p)
  BY DEF DeleteMember
<1>2. "delete_member" \in DOMAIN TaggedOps /\ TaggedOps["delete_member"] = "member"
  BY DEF TaggedOps
<1>3. at[r] = "open" /\ CheckIfMatch(r) /\ m \in Members
  BY <1>1, <1>2, MatchedRow
<1>4. DOMAIN p.ins = {} /\ DOMAIN p.upd = {} /\ p.del = D
  BY WritesIs, NothingInEmpty
<1>5. \A i \in DOMAIN rows : i \in D <=>
        i = m \/ (i \in Versions \cup Absences \cup Attendees /\ rows[i].member = m)
  BY TablesById DEF Live, IInv, TypeOK
<1>6. D \cap (Members \cup Meetings) = {m} /\ \A i \in D : i = m \/ i \in DOMAIN rows
  BY <1>3, TablesById, IdsAreApart DEF Live, IInv, TypeOK
<1>7. \A i \in DOMAIN rows : Names(rows[i]) \cap D # {} => i \in D
  <2>1. SUFFICES ASSUME NEW i \in DOMAIN rows, NEW j \in Names(rows[i]) \cap D
                 PROVE  i \in D
    OBVIOUS
  <2>2. Placed(i, rows[i])
    BY DEF IInv, TypeOK
  <2>3. j = m
    BY <1>6, <2>1, <2>2, NamesOfPlaced
  <2>4. CASE i \in Versions \cup Absences
    BY <1>5, <2>1, <2>2, <2>3, <2>4, NamesOfPlaced
  <2>5. CASE i \in Attendees
    <3>1. rows[i].member = m
      BY <1>3, <2>1, <2>2, <2>3, <2>5, NamesOfPlaced, IdsAreApart
    <3> QED BY <1>5, <2>5, <3>1
  <2>6. i \notin Members \cup Meetings
    BY <2>1, <2>2, NamesOfPlaced
  <2> QED BY <2>2, <2>4, <2>5, <2>6 DEF Placed
<1>8. \A k \in Meetings, x \in Members : <<k, x>> \in D => x = m
  <2>1. SUFFICES ASSUME NEW k \in Meetings, NEW x \in Members, <<k, x>> \in D
                 PROVE  x = m
    OBVIOUS
  <2>2. <<k, x>> \in Attendees
    BY DEF Attendees
  <2>3. <<k, x>> # m
    BY <1>3, <2>2, IdsAreApart
  <2>4. <<k, x>> \in DOMAIN rows
    BY <1>6, <2>1, <2>3
  <2>5. rows[<<k, x>>].member = m
    BY <1>5, <2>1, <2>3, <2>4
  <2> QED BY <2>2, <2>4, <2>5, NamesOfPlaced DEF IInv, TypeOK
<1>9. \A n \in Members \cap DOMAIN rows : n # m => Live("version", n) \cap D = {}
  <2>1. SUFFICES ASSUME NEW n \in Members, n # m, NEW v \in Live("version", n)
                 PROVE  v \notin D
    OBVIOUS
  <2>2. v \in DOMAIN rows \cap Versions /\ rows[v].member = n
    BY <2>1, TablesById DEF Live, IInv, TypeOK
  <2>3. v # m
    BY <1>3, <2>2, IdsAreApart
  <2> QED BY <1>5, <2>1, <2>2, <2>3
<1>10. m \in D
  OBVIOUS
<1> HIDE DEF p, D, m
<1>11. IsPlan(p)
  BY <1>4, <1>8, <1>10 DEF IsPlan, TagsAttendance
<1>12. KeepsPatterns(p)
  BY <1>4, <1>9, <1>10 DEF KeepsPatterns
<1>13. LeavesNoStrays(p) /\ WritesRules(p)
  BY <1>4, <1>7 DEF LeavesNoStrays, WritesRules
<1> QED BY <1>1, <1>2, <1>3, <1>4, <1>11, <1>12, <1>13, TaggedDecidesWell
-----------------------------------------------------------------------------
(* Working patterns                                                        *)

LEMMA NewVersionIs ==
  ASSUME NEW m \in Members, NEW d \in Dates
  PROVE  NewVersion(m, d) \in Version /\ NewVersion(m, d).member = m
BY DEF NewVersion, Version

(* A new version of a member that is there disturbs nothing. *)
LEMMA OneMoreVersion ==
  ASSUME IInv, NEW m \in Members \cap DOMAIN rows, NEW v \in Versions, NEW d \in Dates, NEW p,
         DOMAIN p.ins = {v}, p.ins[v] = NewVersion(m, d), DOMAIN p.upd = {}, p.del = {}
  PROVE  IsPlan(p) /\ KeepsPatterns(p) /\ LeavesNoStrays(p) /\ WritesRules(p)
<1>1. NewVersion(m, d) \in Version /\ NewVersion(m, d).member = m
  BY NewVersionIs
<1>2. IsPlan(p)
  BY <1>1, IdsAreApart DEF IsPlan, TagsAttendance, Placed, Attendees
<1>3. KeepsPatterns(p)
  BY PatternsStay, IdsAreApart DEF IInv
<1>4. LeavesNoStrays(p)
  BY <1>1, NamesOfRows DEF LeavesNoStrays
<1>5. WritesRules(p)
  BY IdsAreApart DEF WritesRules
<1> QED BY <1>2, <1>3, <1>4, <1>5

LEMMA CreatePatternVersionDecides ==
  ASSUME IInv, NEW r \in Requests, CreatePatternVersion(r)
  PROVE  DecidesWell(r)
<1>1. PICK m \in All("member"), v \in Fresh(Versions), d \in Dates :
        Asked(r, "create_version", Writes([i \in {v} |-> NewVersion(m, d)], <<>>, {}))
  BY DEF CreatePatternVersion
<1> DEFINE p == Writes([i \in {v} |-> NewVersion(m, d)], <<>>, {})
<1>2. m \in Members \cap DOMAIN rows /\ v \in Versions /\ ~ Named(v)
  BY TablesById DEF IInv, TypeOK, Fresh
<1>3. Asked(r, "create_version", p)
  BY <1>1
<1>4. DOMAIN p.ins = {v} /\ p.ins[v] = NewVersion(m, d) /\ DOMAIN p.upd = {} /\ p.del = {}
  BY WritesIs, NothingInEmpty
<1> HIDE DEF p
<1>6. IsPlan(p) /\ KeepsPatterns(p) /\ LeavesNoStrays(p) /\ WritesRules(p)
  BY <1>2, <1>4, OneMoreVersion
<1>5. "create_version" \notin {"edit", "import"} \cup DOMAIN TaggedOps
  BY TaggedOpsAre
<1> QED BY <1>2, <1>3, <1>4, <1>5, <1>6, AskedDecidesWell

(* A write of one version's columns. *)
LEMMA OneVersionWritten ==
  ASSUME IInv, NEW v \in Versions, NEW new, NEW p, p = Writes(<<>>, Update(v, new), {}),
         DOMAIN new \subseteq {"from"}, "from" \in DOMAIN new => new.from \in Dates
  PROVE  /\ DOMAIN p.ins = {} /\ IsPlan(p)
         /\ KeepsPatterns(p) /\ LeavesNoStrays(p) /\ WritesRules(p)
<1>1. DOMAIN p.ins = {} /\ DOMAIN p.upd = {v} /\ p.upd[v] = Changed(v, new) /\ p.del = {}
  <2>1. DOMAIN Update(v, new) = {v} /\ Update(v, new)[v] = Changed(v, new)
    BY UpdateIs
  <2> QED BY <2>1, WritesIs, NothingInEmpty
<1>2. IsDelta(Changed(v, new))
  BY ChangedIs DEF IsDelta
<1>3. IsPlan(p) /\ LeavesNoStrays(p)
  BY <1>1, <1>2 DEF IsPlan, TagsAttendance, LeavesNoStrays
<1>4. WritesRules(p)
  BY <1>1, IdsAreApart DEF WritesRules
<1>5. KeepsPatterns(p)
  BY <1>1, PatternsStay DEF IInv
<1> QED BY <1>1, <1>3, <1>4, <1>5

LEMMA ReplacePatternVersionDecides ==
  ASSUME IInv, NEW r \in Requests, ReplacePatternVersion(r)
  PROVE  DecidesWell(r)
<1> DEFINE v == form[r].on
           old == form[r].seen[1]
<1>1. at[r] = "open" /\ old.is = "version" /\ old.member \in DOMAIN rows
  BY DEF ReplacePatternVersion
<1>2. v \in Versions /\ old.member \in Members /\ old.from \in Dates
  <2>1. IsReading(v, form[r].seen)
    BY <1>1 DEF IInv, TypeOK, Reads
  <2>2. v \in Versions /\ old \in Version
    BY <1>1, <2>1, PlacedIs, PlacedIn DEF IsReading
  <2> QED BY <2>2 DEF Version
<1>3. CASE CheckIfMatch(r) /\ Decided(r, "replace_version", Writes(<<>>, Update(v, <<>>), {}))
  <2> DEFINE p == Writes(<<>>, Update(v, <<>>), {})
  <2>1. /\ DOMAIN p.ins = {} /\ IsPlan(p)
        /\ KeepsPatterns(p) /\ LeavesNoStrays(p) /\ WritesRules(p)
    <3> DEFINE new == <<>>
    <3>1. DOMAIN new \subseteq {"from"} /\ ("from" \in DOMAIN new => new.from \in Dates)
      BY NothingInEmpty
    <3>2. p = Writes(<<>>, Update(v, new), {})
      OBVIOUS
    <3> HIDE DEF new, p
    <3> QED BY <1>2, <3>1, <3>2, OneVersionWritten
  <2>2. Decided(r, "replace_version", p)
    BY <1>3
  <2> HIDE DEF p
  <2>3. "replace_version" \in DOMAIN TaggedOps
    BY TaggedOpsAre
  <2> QED BY <1>1, <1>3, <2>1, <2>2, <2>3, TaggedDecidesWell
<1>4. ASSUME NEW w \in Fresh(Versions),
             Decided(r, "create_version", Writes([i \in {w} |-> NewVersion(old.member, old.from)], <<>>, {}))
      PROVE  DecidesWell(r)
  <2> DEFINE p == Writes([i \in {w} |-> NewVersion(old.member, old.from)], <<>>, {})
             f == [form[r] EXCEPT !.op = "create_version"]
  <2>1. w \in Versions /\ ~ Named(w)
    BY DEF Fresh
  <2>2. /\ DOMAIN p.ins = {w} /\ IsPlan(p)
        /\ KeepsPatterns(p) /\ LeavesNoStrays(p) /\ WritesRules(p)
    <3>1. /\ DOMAIN p.ins = {w} /\ p.ins[w] = NewVersion(old.member, old.from)
          /\ DOMAIN p.upd = {} /\ p.del = {}
      BY WritesIs, NothingInEmpty
    <3>2. old.member \in Members \cap DOMAIN rows /\ old.from \in Dates
      BY <1>1, <1>2
    <3> HIDE DEF p, old
    <3> QED BY <2>1, <3>1, <3>2, OneMoreVersion
  <2>3. Decide(r, f, p)
    BY <1>4 DEF Decided
  <2>4. DOMAIN f = {"op", "on", "seen"} /\ f.op = "create_version" /\ f.on = form[r].on
    BY DEF IInv, TypeOK
  <2> HIDE DEF p, f
  <2>5. f.op \notin {"edit", "import", "bulk_absences", "bulk_meetings"} \cup DOMAIN TaggedOps
    BY <2>4, TaggedOpsAre
  <2>6. WellDecided(r, f, p)
    BY <2>1, <2>2, <2>4, <2>5 DEF WellDecided, Fits
  <2> QED BY <2>3, <2>6 DEF DecidesWell
<1> QED BY <1>3, <1>4 DEF ReplacePatternVersion

LEMMA UpdatePatternVersionDecides ==
  ASSUME IInv, NEW r \in Requests, UpdatePatternVersion(r)
  PROVE  DecidesWell(r)
<1>1. PICK d \in Dates : Decided(r, "update_version", Writes(<<>>, Update(form[r].on, [from |-> d]), {}))
  BY DEF UpdatePatternVersion
<1> DEFINE v == form[r].on
           p == Writes(<<>>, Update(v, [from |-> d]), {})
<1>2. "update_version" \in DOMAIN TaggedOps /\ TaggedOps["update_version"] = "version"
  BY DEF TaggedOps
<1>3. at[r] = "open" /\ CheckIfMatch(r) /\ v \in Versions
  BY <1>2, MatchedRow DEF UpdatePatternVersion
<1>4. /\ DOMAIN p.ins = {} /\ IsPlan(p)
      /\ KeepsPatterns(p) /\ LeavesNoStrays(p) /\ WritesRules(p)
  <2> DEFINE new == [from |-> d]
  <2>1. DOMAIN new = {"from"} /\ new.from \in Dates
    OBVIOUS
  <2>2. p = Writes(<<>>, Update(v, new), {})
    OBVIOUS
  <2> HIDE DEF new, p
  <2> QED BY <1>3, <2>1, <2>2, OneVersionWritten
<1>5. Decided(r, "update_version", p)
  BY <1>1
<1> HIDE DEF p
<1> QED BY <1>2, <1>3, <1>4, <1>5, TaggedDecidesWell

LEMMA DeletePatternVersionDecides ==
  ASSUME IInv, NEW r \in Requests, DeletePatternVersion(r)
  PROVE  DecidesWell(r)
<1> DEFINE v == form[r].on
           p == Writes(<<>>, <<>>, {v})
<1>1. /\ Matches(r, "delete_version") /\ Decided(r, "delete_version", p)
      /\ \E w \in Live("version", rows[v].member) : rows[w].from < rows[v].from
  BY DEF DeletePatternVersion
<1>2. "delete_version" \in DOMAIN TaggedOps /\ TaggedOps["delete_version"] = "version"
  BY DEF TaggedOps
<1>3. at[r] = "open" /\ CheckIfMatch(r) /\ v \in Versions /\ v \in DOMAIN rows
  BY <1>1, <1>2, MatchedRow
<1>4. DOMAIN p.ins = {} /\ DOMAIN p.upd = {} /\ p.del = {v}
  BY WritesIs, NothingInEmpty
<1> HIDE DEF p, v
<1>5. PICK w \in Live("version", rows[v].member) : rows[w].from < rows[v].from
  BY <1>1
<1>6. w # v
  <2>1. rows[v] \in Version
    BY <1>3, PlacedIn DEF IInv, TypeOK
  <2>2. rows[v].from \in Int
    BY <2>1, DatesAreDays DEF Version
  <2> QED BY <1>5, <2>2
<1>7. KeepsPatterns(p)
  <2>1. ASSUME NEW m \in Members, NEW x \in Live("version", m)
        PROVE  Live("version", m) \ {v} # {}
    <3>1. CASE x = v
      <4>1. w \in Live("version", m)
        BY <1>5, <2>1, <3>1 DEF Live
      <4> QED BY <1>6, <4>1
    <3>2. CASE x # v
      BY <2>1, <3>2
    <3> QED BY <3>1, <3>2
  <2> QED BY <1>4, <2>1 DEF KeepsPatterns
<1>8. IsPlan(p)
  BY <1>3, <1>4, IdsAreApart DEF IsPlan, TagsAttendance, Attendees
<1>9. LeavesNoStrays(p)
  <2>1. {v} \cap (Members \cup Meetings) = {}
    BY <1>3, IdsAreApart
  <2> QED BY <1>4, <2>1, NothingPointsThere DEF LeavesNoStrays, IInv
<1>10. WritesRules(p)
  BY <1>4 DEF WritesRules
<1> QED BY <1>1, <1>2, <1>3, <1>4, <1>7, <1>8, <1>9, <1>10, TaggedDecidesWell
-----------------------------------------------------------------------------
(* Absences                                                                *)

LEMMA NewAbsenceIs ==
  ASSUME NEW m \in Members, NEW u \in Uids \cup {NoUid}, NEW f \in Rules
  PROVE  /\ NewAbsence(m, u, f) \in Absence /\ IsRule(NewAbsence(m, u, f))
         /\ NewAbsence(m, u, f).member = m /\ NewAbsence(m, u, f).uid = u
BY RuleIsRow DEF NewAbsence, Absence, IsRule

(* A plan that writes absences only, and only rules. *)
LEMMA AbsencesWritten ==
  ASSUME IInv, NEW p,
         \A i \in DOMAIN p.ins : /\ i \in Absences /\ p.ins[i] \in Absence /\ IsRule(p.ins[i])
                                 /\ p.ins[i].member \in DOMAIN rows,
         \A i \in DOMAIN p.upd : i \in DOMAIN rows \cap Absences /\ \E f \in Rules : p.upd[i] = Changed(i, f),
         p.del \subseteq Absences
  PROVE  IsPlan(p) /\ KeepsPatterns(p) /\ LeavesNoStrays(p) /\ WritesRules(p)
<1>1. ASSUME NEW i \in DOMAIN p.upd
      PROVE  IsDelta(p.upd[i]) /\ IsRule(Patched(rows[i], p.upd[i]))
  BY <1>1, RuleWritten DEF IInv
<1>2. IsPlan(p)
  <2>1. \A i \in DOMAIN p.ins : Placed(i, p.ins[i])
    BY DEF Placed
  <2>2. TagsAttendance(p)
    BY IdsAreApart DEF TagsAttendance, Attendees
  <2> QED BY <1>1, <2>1, <2>2 DEF IsPlan
<1>3. KeepsPatterns(p)
  BY PatternsStay, IdsAreApart DEF IInv
<1>4. LeavesNoStrays(p)
  <2>1. ASSUME NEW i \in DOMAIN p.ins
        PROVE  Names(p.ins[i]) \subseteq DOMAIN rows \ p.del
    <3>1. p.ins[i].member \in Members
      BY DEF Absence
    <3> QED BY <2>1, <3>1, NamesOfRows, IdsAreApart
  <2>2. p.del \cap (Members \cup Meetings) = {}
    BY IdsAreApart
  <2> QED BY <2>1, <2>2, NothingPointsThere DEF LeavesNoStrays, IInv
<1>5. WritesRules(p)
  BY <1>1 DEF WritesRules
<1> QED BY <1>2, <1>3, <1>4, <1>5

(* One new absence for each member of a set. *)
LEMMA AbsencesOfMembers ==
  ASSUME IInv, NEW S \in SUBSET All("member"), NEW f \in Rules, NEW id \in Injection(S, Fresh(Absences)),
         NEW ins, ins = [i \in Range(id) |-> NewAbsence(CHOOSE m \in S : id[m] = i, NoUid, f)]
  PROVE  \A i \in DOMAIN ins : /\ i \in Absences /\ ~ Named(i)
                               /\ ins[i] \in Absence /\ IsRule(ins[i]) /\ ins[i].member \in DOMAIN rows
<1>1. SUFFICES ASSUME NEW i \in Range(id)
               PROVE  /\ i \in Absences /\ ~ Named(i)
                      /\ ins[i] \in Absence /\ IsRule(ins[i]) /\ ins[i].member \in DOMAIN rows
  OBVIOUS
<1>2. id \in [S -> Fresh(Absences)]
  BY DEF Injection
<1>3. PICK m \in S : id[m] = i
  BY <1>2 DEF Range
<1>4. i \in Absences /\ ~ Named(i)
  BY <1>2, <1>3 DEF Fresh
<1> DEFINE x == CHOOSE n \in S : id[n] = i
<1>5. x \in S
  BY <1>3
<1>6. ins[i] = NewAbsence(x, NoUid, f)
  OBVIOUS
<1> HIDE DEF x
<1>7. x \in Members \cap DOMAIN rows
  BY <1>5, TablesById DEF IInv, TypeOK
<1> QED BY <1>4, <1>6, <1>7, NewAbsenceIs

LEMMA CreateAbsencesDecides ==
  ASSUME IInv, NEW r \in Requests, CreateAbsences(r)
  PROVE  DecidesWell(r)
<1>11. PICK S \in SUBSET All("member") \ {{}}, f \in Rules : \E id \in Injection(S, Fresh(Absences)) :
        Asked(r, "create_absences",
              Writes([i \in Range(id) |-> NewAbsence(CHOOSE m \in S : id[m] = i, NoUid, f)], <<>>, {}))
  BY DEF CreateAbsences
<1>1. PICK id \in Injection(S, Fresh(Absences)) :
        Asked(r, "create_absences",
              Writes([i \in Range(id) |-> NewAbsence(CHOOSE m \in S : id[m] = i, NoUid, f)], <<>>, {}))
  BY <1>11
<1> DEFINE ins == [i \in Range(id) |-> NewAbsence(CHOOSE m \in S : id[m] = i, NoUid, f)]
           p == Writes(ins, <<>>, {})
<1>2. \A i \in DOMAIN ins : /\ i \in Absences /\ ~ Named(i)
                            /\ ins[i] \in Absence /\ IsRule(ins[i]) /\ ins[i].member \in DOMAIN rows
  <2>1. S \in SUBSET All("member")
    OBVIOUS
  <2> QED BY <2>1, AbsencesOfMembers
<1>3. Asked(r, "create_absences", p)
  BY <1>1
<1> HIDE DEF ins
<1>4. p.ins = ins /\ DOMAIN p.upd = {} /\ p.del = {}
  BY WritesIs, NothingInEmpty
<1> HIDE DEF p
<1>5. IsPlan(p) /\ KeepsPatterns(p) /\ LeavesNoStrays(p) /\ WritesRules(p)
  BY <1>2, <1>4, AbsencesWritten
<1>6. "create_absences" \notin {"edit", "import"} \cup DOMAIN TaggedOps
  BY TaggedOpsAre
<1> QED BY <1>2, <1>3, <1>4, <1>5, <1>6, AskedDecidesWell

LEMMA UpdateAbsenceDecides ==
  ASSUME IInv, NEW r \in Requests, UpdateAbsence(r)
  PROVE  DecidesWell(r)
<1> DEFINE a == form[r].on
<1>1. PICK f \in Rules : Decided(r, "update_absence", Writes(<<>>, Update(a, f), {}))
  BY DEF UpdateAbsence
<1> DEFINE p == Writes(<<>>, Update(a, f), {})
<1>2. "update_absence" \in DOMAIN TaggedOps /\ TaggedOps["update_absence"] = "absence"
  BY DEF TaggedOps
<1>3. at[r] = "open" /\ CheckIfMatch(r) /\ a \in DOMAIN rows \cap Absences
  BY <1>2, MatchedRow DEF UpdateAbsence
<1>4. Decided(r, "update_absence", p)
  BY <1>1
<1>5. DOMAIN p.ins = {} /\ DOMAIN p.upd = {a} /\ p.upd[a] = Changed(a, f) /\ p.del = {}
  <2>1. DOMAIN Update(a, f) = {a} /\ Update(a, f)[a] = Changed(a, f)
    BY UpdateIs
  <2> QED BY <2>1, WritesIs, NothingInEmpty
<1> HIDE DEF p, a
<1>6. IsPlan(p) /\ KeepsPatterns(p) /\ LeavesNoStrays(p) /\ WritesRules(p)
  BY <1>3, <1>5, AbsencesWritten
<1> QED BY <1>2, <1>3, <1>4, <1>5, <1>6, TaggedDecidesWell

LEMMA DeleteAbsenceDecides ==
  ASSUME IInv, NEW r \in Requests, DeleteAbsence(r)
  PROVE  DecidesWell(r)
<1> DEFINE a == form[r].on
           p == Writes(<<>>, <<>>, {a})
<1>1. Matches(r, "delete_absence") /\ Decided(r, "delete_absence", p)
  BY DEF DeleteAbsence
<1>2. "delete_absence" \in DOMAIN TaggedOps /\ TaggedOps["delete_absence"] = "absence"
  BY DEF TaggedOps
<1>3. at[r] = "open" /\ CheckIfMatch(r) /\ a \in Absences
  BY <1>1, <1>2, MatchedRow
<1>4. DOMAIN p.ins = {} /\ DOMAIN p.upd = {} /\ p.del = {a}
  BY WritesIs, NothingInEmpty
<1> HIDE DEF p, a
<1>5. IsPlan(p) /\ KeepsPatterns(p) /\ LeavesNoStrays(p) /\ WritesRules(p)
  BY <1>3, <1>4, AbsencesWritten
<1> QED BY <1>1, <1>2, <1>3, <1>4, <1>5, TaggedDecidesWell

LEMMA InsideIs ==
  ASSUME TypeOK
  PROVE  /\ Inside("absence") \subseteq DOMAIN rows \cap Absences
         /\ Inside("meeting") \subseteq DOMAIN rows \cap Meetings
         /\ Inside("absence") \cap All("absence") = Inside("absence")
         /\ Inside("meeting") \cap All("meeting") = Inside("meeting")
BY TablesById DEF Inside, TypeOK

LEMMA BulkAbsencesDecides ==
  ASSUME IInv, NEW r \in Requests, BulkAbsences(r)
  PROVE  DecidesWell(r)
<1>11. PICK S \in SUBSET All("member"), f \in Rules : \E id \in Injection(S, Fresh(Absences)) :
        Asked(r, "bulk_absences",
              Writes([i \in Range(id) |-> NewAbsence(CHOOSE m \in S : id[m] = i, NoUid, f)],
                     <<>>, Inside("absence")))
  BY DEF BulkAbsences
<1>1. PICK id \in Injection(S, Fresh(Absences)) :
        Asked(r, "bulk_absences",
              Writes([i \in Range(id) |-> NewAbsence(CHOOSE m \in S : id[m] = i, NoUid, f)],
                     <<>>, Inside("absence")))
  BY <1>11
<1> DEFINE ins == [i \in Range(id) |-> NewAbsence(CHOOSE m \in S : id[m] = i, NoUid, f)]
           p == Writes(ins, <<>>, Inside("absence"))
<1>2. \A i \in DOMAIN ins : /\ i \in Absences /\ ~ Named(i)
                            /\ ins[i] \in Absence /\ IsRule(ins[i]) /\ ins[i].member \in DOMAIN rows
  BY AbsencesOfMembers
<1>3. Asked(r, "bulk_absences", p)
  BY <1>1
<1> HIDE DEF ins
<1>4. p.ins = ins /\ DOMAIN p.upd = {} /\ p.del = Inside("absence")
  BY WritesIs, NothingInEmpty
<1> HIDE DEF p
<1>5. IsPlan(p) /\ KeepsPatterns(p) /\ LeavesNoStrays(p) /\ WritesRules(p)
  BY <1>2, <1>4, InsideIs, AbsencesWritten DEF IInv
<1>6. Clears("absence", p)
  BY <1>4, InsideIs DEF Clears, IInv
<1>7. "bulk_absences" \notin {"edit", "import"} \cup DOMAIN TaggedOps
  BY TaggedOpsAre
<1> QED BY <1>2, <1>3, <1>4, <1>5, <1>6, <1>7, AskedDecidesWell
(* The rows of a member's file: those it creates, writes and removes. *)
LEMMA FileIsMirrored ==
  ASSUME IInv, NEW m \in All("member"), NEW F \in SUBSET Uids, NEW f \in Rules,
         NEW created, created = F \ {rows[i].uid : i \in Imported(m)},
         NEW id \in Injection(created, Fresh(Absences)),
         NEW p, DOMAIN p.ins = Range(id), \A u \in created : p.ins[id[u]] = NewAbsence(m, u, f),
         DOMAIN p.upd \subseteq {i \in Imported(m) : rows[i].uid \in F},
         \A i \in DOMAIN p.upd : p.upd[i] = Changed(i, f),
         p.del = Imported(m) \cap Inside("absence") \cap {i \in DOMAIN rows : rows[i].uid \notin F}
  PROVE  /\ \A i \in DOMAIN p.ins : ~ Named(i)
         /\ IsPlan(p) /\ KeepsPatterns(p) /\ LeavesNoStrays(p) /\ WritesRules(p)
         /\ Mirrors(m, F, p)
<1>1. m \in Members \cap DOMAIN rows
  BY TablesById DEF IInv, TypeOK
<1>2. Imported(m) \subseteq DOMAIN rows \cap Absences
  BY TablesById DEF Imported, Live, IInv, TypeOK
<1>3. id \in [created -> Fresh(Absences)] /\ \A u, w \in created : id[u] = id[w] => u = w
  BY DEF Injection, IsInjective
<1>4. ASSUME NEW u \in created
      PROVE  /\ id[u] \in DOMAIN p.ins /\ p.ins[id[u]] = NewAbsence(m, u, f)
             /\ id[u] \in Absences /\ ~ Named(id[u])
  <2>1. id[u] \in Range(id)
    BY <1>3 DEF Range
  <2>2. id[u] \in Absences /\ ~ Named(id[u])
    BY <1>3 DEF Fresh
  <2> QED BY <2>1, <2>2
<1>5. ASSUME NEW i \in DOMAIN p.ins
      PROVE  \E u \in created : i = id[u]
  BY <1>3 DEF Range
<1>6. created \subseteq Uids /\ NoUid \notin F
  BY IdsAreApart
<1>7. ASSUME NEW u \in created
      PROVE  /\ NewAbsence(m, u, f) \in Absence /\ IsRule(NewAbsence(m, u, f))
             /\ NewAbsence(m, u, f).member = m /\ NewAbsence(m, u, f).uid = u
  BY <1>1, <1>6, NewAbsenceIs
<1>8. ASSUME NEW i \in DOMAIN p.ins
      PROVE  /\ i \in Absences /\ ~ Named(i)
             /\ p.ins[i] \in Absence /\ IsRule(p.ins[i]) /\ p.ins[i].member = m
             /\ p.ins[i].uid \in created
  BY <1>4, <1>5, <1>7
<1>9. IsPlan(p) /\ KeepsPatterns(p) /\ LeavesNoStrays(p) /\ WritesRules(p)
  <2>1. \A i \in DOMAIN p.ins : /\ i \in Absences /\ p.ins[i] \in Absence /\ IsRule(p.ins[i])
                                /\ p.ins[i].member \in DOMAIN rows
    BY <1>1, <1>8
  <2>2. \A i \in DOMAIN p.upd : i \in DOMAIN rows \cap Absences /\ \E g \in Rules : p.upd[i] = Changed(i, g)
    BY <1>2
  <2>3. p.del \subseteq Absences
    BY <1>2
  <2> QED BY <2>1, <2>2, <2>3, AbsencesWritten
<1>10. Mirrors(m, F, p)
  <2>1. {p.ins[i].uid : i \in DOMAIN p.ins} = created
    <3>1. \A u \in created : id[u] \in DOMAIN p.ins /\ p.ins[id[u]].uid = u
      BY <1>4, <1>7
    <3> QED BY <1>8, <3>1
  <2>2. \A i \in Imported(m) : i \in Inside("absence") <=> rows[i].inside
    BY DEF Inside, Imported, Live
  <2>3. p.del = {i \in Imported(m) : rows[i].inside /\ rows[i].uid \notin F}
    BY <1>2, <2>2
  <2> QED BY <1>6, <1>8, <2>1, <2>3 DEF Mirrors
<1> QED BY <1>8, <1>9, <1>10

LEMMA ImportAbsenceIcsDecides ==
  ASSUME IInv, NEW r \in Requests, ImportAbsenceIcs(r)
  PROVE  DecidesWell(r)
<1>1. PICK m \in All("member"), F \in SUBSET Uids, f \in Rules :
        LET mine == {i \in Live("absence", m) : rows[i].uid # NoUid}
            created == F \ {rows[i].uid : i \in mine}
            updated == {i \in mine : rows[i].uid \in F /\ Changed(i, f) # <<>>}
            removed == {i \in mine \cap Inside("absence") : rows[i].uid \notin F}
        IN  \E id \in Injection(created, Fresh(Absences)) :
              Decide(r, [op |-> "import", on |-> m, seen |-> F],
                     Writes([i \in Range(id) |-> NewAbsence(m, CHOOSE u \in created : id[u] = i, f)],
                            [i \in updated |-> Changed(i, f)], removed))
  BY DEF ImportAbsenceIcs
<1> DEFINE mine == {i \in Live("absence", m) : rows[i].uid # NoUid}
           created == F \ {rows[i].uid : i \in mine}
           updated == {i \in mine : rows[i].uid \in F /\ Changed(i, f) # <<>>}
           removed == {i \in mine \cap Inside("absence") : rows[i].uid \notin F}
<1>2. PICK id \in Injection(created, Fresh(Absences)) :
        Decide(r, [op |-> "import", on |-> m, seen |-> F],
               Writes([i \in Range(id) |-> NewAbsence(m, CHOOSE u \in created : id[u] = i, f)],
                      [i \in updated |-> Changed(i, f)], removed))
  BY <1>1
<1> DEFINE g == [op |-> "import", on |-> m, seen |-> F]
           p == Writes([i \in Range(id) |-> NewAbsence(m, CHOOSE u \in created : id[u] = i, f)],
                       [i \in updated |-> Changed(i, f)], removed)
<1>3. Decide(r, g, p)
  BY <1>2
<1>4. /\ p.ins = [i \in Range(id) |-> NewAbsence(m, CHOOSE u \in created : id[u] = i, f)]
      /\ p.upd = [i \in updated |-> Changed(i, f)] /\ p.del = removed
  BY DEF Writes
<1>5. DOMAIN g = {"op", "on", "seen"} /\ g.op = "import" /\ g.on = m /\ g.seen = F
  OBVIOUS
<1>6. mine = Imported(m) /\ created = F \ {rows[i].uid : i \in Imported(m)}
  BY DEF Imported
<1> HIDE DEF g, p, created
<1>7. /\ DOMAIN p.upd \subseteq {i \in Imported(m) : rows[i].uid \in F}
      /\ \A i \in DOMAIN p.upd : p.upd[i] = Changed(i, f)
  BY <1>4, <1>6
<1>13. DOMAIN p.ins = Range(id) /\ \A u \in created : p.ins[id[u]] = NewAbsence(m, u, f)
  <2>1. id \in [created -> Fresh(Absences)] /\ \A u, w \in created : id[u] = id[w] => u = w
    BY DEF Injection, IsInjective
  <2>2. ASSUME NEW u \in created
        PROVE  p.ins[id[u]] = NewAbsence(m, u, f)
    <3> DEFINE event(i) == CHOOSE w \in created : id[w] = i
    <3>1. id[u] \in Range(id)
      BY <2>1 DEF Range
    <3>2. event(id[u]) = u
      BY <2>1
    <3>3. p.ins = [i \in Range(id) |-> NewAbsence(m, event(i), f)]
      BY <1>4
    <3> HIDE DEF event
    <3> QED BY <3>1, <3>2, <3>3
  <2> QED BY <1>4, <2>2
<1>8. p.del = Imported(m) \cap Inside("absence") \cap {i \in DOMAIN rows : rows[i].uid \notin F}
  BY <1>4, <1>6, InsideIs DEF IInv
<1> HIDE DEF mine, updated, removed
<1>9. /\ \A i \in DOMAIN p.ins : ~ Named(i)
      /\ IsPlan(p) /\ KeepsPatterns(p) /\ LeavesNoStrays(p) /\ WritesRules(p)
      /\ Mirrors(m, F, p)
  BY <1>6, <1>7, <1>8, <1>13, FileIsMirrored, ZenonT(60)
<1>10. "import" \notin {"edit", "bulk_absences", "bulk_meetings"} \cup DOMAIN TaggedOps
  BY TaggedOpsAre
<1>11. m \in DOMAIN rows
  BY DEF All
<1>12. WellDecided(r, g, p)
  BY <1>5, <1>9, <1>10, <1>11 DEF WellDecided, Fits
<1> QED BY <1>3, <1>12 DEF DecidesWell
-----------------------------------------------------------------------------
(* Meetings                                                                *)

LEMMA NewAttendeesAre ==
  ASSUME NEW k \in Meetings, NEW S \in SUBSET Members
  PROVE  /\ DOMAIN NewAttendees(k, S) = {k} \X S
         /\ {k} \X S \subseteq Attendees
         /\ \A i \in {k} \X S : /\ Placed(i, NewAttendees(k, S)[i])
                                /\ Names(NewAttendees(k, S)[i]) \subseteq {k} \cup S
<1>1. DOMAIN NewAttendees(k, S) = {k} \X S
  BY DEF NewAttendees
<1>2. ASSUME NEW x \in S
      PROVE  /\ <<k, x>> \in Attendees
             /\ Placed(<<k, x>>, NewAttendees(k, S)[<<k, x>>])
             /\ Names(NewAttendees(k, S)[<<k, x>>]) \subseteq {k} \cup S
  <2> DEFINE row == [is |-> "attendee", meeting |-> k, member |-> x]
  <2>1. NewAttendees(k, S)[<<k, x>>] = row
    BY DEF NewAttendees
  <2>2. row \in Attendee /\ row.meeting = k /\ row.member = x
    BY DEF Attendee
  <2> HIDE DEF row
  <2>3. Names(row) = {k, x}
    BY <2>2, NamesOfRows
  <2>4. <<k, x>> \in Attendees /\ Placed(<<k, x>>, row)
    BY <2>2 DEF Attendees, Placed
  <2> QED BY <2>1, <2>3, <2>4
<1>3. \A i \in {k} \X S : \E x \in S : i = <<k, x>>
  OBVIOUS
<1> QED BY <1>1, <1>2, <1>3

LEMMA NewMeetingIs ==
  ASSUME NEW f \in BOOLEAN
  PROVE  NewMeeting(f) \in Meeting /\ Names(NewMeeting(f)) = {}
<1>1. NewMeeting(f) \in Meeting
  BY DEF NewMeeting, Meeting
<1> QED BY <1>1, NamesOfRows

(* New meetings with their attendees, where meetings may go with theirs. *)
LEMMA MeetingsWritten ==
  ASSUME IInv, NEW K \in SUBSET Meetings, K \cap DOMAIN rows = {}, NEW S \in SUBSET All("member"), NEW p,
         DOMAIN p.ins = K \cup (K \X S),
         \A k \in K : p.ins[k] \in Meeting,
         \A k \in K : \A i \in {k} \X S : p.ins[i] = NewAttendees(k, S)[i],
         DOMAIN p.upd = {},
         NEW G \in SUBSET (DOMAIN rows \cap Meetings),
         \A d : d \in p.del <=> d \in G \/ \E k \in G : d \in AttendeesOf(k)
  PROVE  IsPlan(p) /\ KeepsPatterns(p) /\ LeavesNoStrays(p) /\ WritesRules(p)
<1>1. S \subseteq Members \cap DOMAIN rows
  BY TablesById DEF IInv, TypeOK
<1>2. ASSUME NEW i \in DOMAIN p.ins
      PROVE  /\ Placed(i, p.ins[i]) /\ i \in Meetings \cup Attendees
             /\ Names(p.ins[i]) \subseteq K \cup S
  <2>1. CASE i \in K
    BY <2>1, NamesOfRows DEF Placed
  <2>2. CASE i \in K \X S
    <3>1. PICK k \in K : i \in {k} \X S
      BY <2>2
    <3>2. p.ins[i] = NewAttendees(k, S)[i]
      BY <3>1
    <3>3. k \in Meetings /\ S \in SUBSET Members
      BY <1>1
    <3>4. /\ i \in Attendees /\ Placed(i, NewAttendees(k, S)[i])
          /\ Names(NewAttendees(k, S)[i]) \subseteq {k} \cup S
      BY <3>1, <3>3, NewAttendeesAre
    <3> QED BY <3>2, <3>4
  <2> QED BY <2>1, <2>2
<1>3. ASSUME NEW d \in p.del
      PROVE  d \in G \/ \E k \in G, m \in Members : d = <<k, m>> /\ d \in Attendees
  <2>1. CASE d \notin G
    <3>1. PICK k \in G : d \in AttendeesOf(k)
      BY <1>3, <2>1
    <3>2. \E m \in Members : d = <<k, m>>
      <4>1. AttendeesOf(k) = {<<k, m>> : m \in {x \in Members : <<k, x>> \in DOMAIN rows}}
        BY AttendeesById DEF IInv, TypeOK
      <4> QED BY <3>1, <4>1
    <3> QED BY <3>2 DEF Attendees
  <2> QED BY <2>1
<1>4. p.del \cap (Members \cup Versions \cup K) = {}
  BY <1>3, IdsAreApart
<1>5. TagsAttendance(p)
  <2>1. ASSUME NEW k \in Meetings, NEW m \in Members, <<k, m>> \in DOMAIN p.ins
        PROVE  k \in DOMAIN p.ins
    <3>1. <<k, m>> \notin K
      BY IdsAreApart DEF Attendees
    <3> QED BY <2>1, <3>1
  <2>2. ASSUME NEW k \in Meetings, NEW m \in Members, <<k, m>> \in p.del
        PROVE  k \in p.del
    <3>1. <<k, m>> \notin G
      BY IdsAreApart DEF Attendees
    <3>2. k \in G
      BY <1>3, <2>2, <3>1
    <3> QED BY <3>2
  <2> QED BY <2>1, <2>2 DEF TagsAttendance
<1>6. IsPlan(p)
  BY <1>2, <1>5 DEF IsPlan
<1>7. KeepsPatterns(p)
  BY <1>2, <1>4, PatternsStay, IdsAreApart DEF IInv
<1>8. LeavesNoStrays(p)
  <2>1. ASSUME NEW i \in DOMAIN p.ins
        PROVE  Names(p.ins[i]) \subseteq (DOMAIN rows \cup DOMAIN p.ins) \ p.del
    BY <1>1, <1>2, <1>4
  <2>2. ASSUME NEW i \in DOMAIN rows, NEW d \in Names(rows[i]) \cap p.del
        PROVE  i \in p.del
    <3>1. Placed(i, rows[i])
      BY DEF IInv, TypeOK
    <3>2. d \in Members \cup Meetings
      BY <3>1, NamesOfPlaced
    <3>3. d \in G /\ d \in Meetings
      BY <1>3, <3>2, IdsAreApart
    <3>4. i \in Attendees /\ rows[i].meeting = d
      BY <2>2, <3>1, <3>3, NamesOfPlaced, IdsAreApart DEF Placed
    <3>5. i \in AttendeesOf(d)
      BY <3>4, TablesById DEF AttendeesOf, IInv, TypeOK
    <3> QED BY <3>3, <3>5
  <2> QED BY <2>1, <2>2 DEF LeavesNoStrays
<1>9. WritesRules(p)
  BY <1>2, IdsAreApart DEF WritesRules
<1> QED BY <1>6, <1>7, <1>8, <1>9

LEMMA CreateMeetingDecides ==
  ASSUME IInv, NEW r \in Requests, CreateMeeting(r)
  PROVE  DecidesWell(r)
<1>1. PICK k \in Fresh(Meetings), S \in SUBSET All("member"), f \in BOOLEAN :
        Asked(r, "create_meeting", Writes(WithAttendees(k, f, S), <<>>, {}))
  BY DEF CreateMeeting
<1> DEFINE p == Writes(WithAttendees(k, f, S), <<>>, {})
<1>2. k \in Meetings /\ ~ Named(k) /\ k \notin DOMAIN rows
  BY DEF Fresh, Named
<1>3. k \notin {k} \X S
  BY <1>2, TablesById, IdsAreApart DEF Attendees, IInv, TypeOK
<1>4. /\ DOMAIN p.ins = {k} \cup ({k} \X S) /\ p.ins[k] = NewMeeting(f)
      /\ \A i \in {k} \X S : p.ins[i] = NewAttendees(k, S)[i]
      /\ DOMAIN p.upd = {} /\ p.del = {}
  BY <1>3, WritesIs, NothingInEmpty DEF WithAttendees
<1>5. Asked(r, "create_meeting", p)
  BY <1>1
<1> HIDE DEF p
<1>6. IsPlan(p) /\ KeepsPatterns(p) /\ LeavesNoStrays(p) /\ WritesRules(p)
  <2> DEFINE K == {k}
             G == {}
  <2>1. K \in SUBSET Meetings /\ K \cap DOMAIN rows = {} /\ G \in SUBSET (DOMAIN rows \cap Meetings)
    BY <1>2
  <2>2. \A d : d \in p.del <=> d \in G \/ \E j \in G : d \in AttendeesOf(j)
    BY <1>4
  <2>3. DOMAIN p.ins = K \cup (K \X S) /\ DOMAIN p.upd = {}
    BY <1>4
  <2>4. \A j \in K : p.ins[j] \in Meeting
    BY <1>4, NewMeetingIs
  <2>5. \A j \in K : \A i \in {j} \X S : p.ins[i] = NewAttendees(j, S)[i]
    BY <1>4
  <2> HIDE DEF K, G
  <2> QED BY <2>1, <2>2, <2>3, <2>4, <2>5, MeetingsWritten
<1>7. \A i \in DOMAIN p.ins \ Attendees : ~ Named(i)
  <2>1. S \subseteq Members
    BY TablesById DEF IInv, TypeOK
  <2> QED BY <1>2, <1>4, <2>1, NewAttendeesAre
<1>8. "create_meeting" \notin {"edit", "import"} \cup DOMAIN TaggedOps
  BY TaggedOpsAre
<1> QED BY <1>5, <1>6, <1>7, <1>8, AskedDecidesWell
LEMMA DeleteMeetingDecides ==
  ASSUME IInv, NEW r \in Requests, DeleteMeeting(r)
  PROVE  DecidesWell(r)
<1> DEFINE k == form[r].on
           p == Writes(<<>>, <<>>, {k} \cup AttendeesOf(k))
<1>1. Matches(r, "delete_meeting") /\ Decided(r, "delete_meeting", p)
  BY DEF DeleteMeeting
<1>2. "delete_meeting" \in DOMAIN TaggedOps /\ TaggedOps["delete_meeting"] = "meeting"
  BY DEF TaggedOps
<1>3. at[r] = "open" /\ CheckIfMatch(r) /\ k \in DOMAIN rows \cap Meetings
  BY <1>1, <1>2, MatchedRow
<1>4. DOMAIN p.ins = {} /\ DOMAIN p.upd = {} /\ p.del = {k} \cup AttendeesOf(k)
  BY WritesIs, NothingInEmpty
<1> HIDE DEF p, k
<1>5. IsPlan(p) /\ KeepsPatterns(p) /\ LeavesNoStrays(p) /\ WritesRules(p)
  <2> DEFINE K == {}
             S == {}
             G == {k}
  <2>1. /\ K \in SUBSET Meetings /\ K \cap DOMAIN rows = {} /\ S \in SUBSET All("member")
        /\ G \in SUBSET (DOMAIN rows \cap Meetings)
    BY <1>3
  <2>2. DOMAIN p.ins = K \cup (K \X S) /\ DOMAIN p.upd = {}
    BY <1>4
  <2>3. \A d : d \in p.del <=> d \in G \/ \E j \in G : d \in AttendeesOf(j)
    BY <1>4
  <2>4. \A j \in K : p.ins[j] \in Meeting
    OBVIOUS
  <2>5. \A j \in K : \A i \in {j} \X S : p.ins[i] = NewAttendees(j, S)[i]
    OBVIOUS
  <2> HIDE DEF K, S, G
  <2> QED BY <2>1, <2>2, <2>3, <2>4, <2>5, MeetingsWritten
<1> QED BY <1>1, <1>2, <1>3, <1>4, <1>5, TaggedDecidesWell

LEMMA BulkMeetingsDecides ==
  ASSUME IInv, NEW r \in Requests, BulkMeetings(r)
  PROVE  DecidesWell(r)
<1>1. PICK S \in SUBSET All("member"), K \in SUBSET Fresh(Meetings) :
        Asked(r, "bulk_meetings",
              Writes([i \in K \cup (K \X S) |-> IF i \in K THEN NewMeeting(TRUE) ELSE NewAttendees(i[1], S)[i]], <<>>,
                     Inside("meeting") \cup UNION {AttendeesOf(k) : k \in Inside("meeting")}))
  BY DEF BulkMeetings
<1> DEFINE ins == [i \in K \cup (K \X S) |-> IF i \in K THEN NewMeeting(TRUE) ELSE NewAttendees(i[1], S)[i]]
           G == Inside("meeting")
           D == G \cup UNION {AttendeesOf(k) : k \in G}
           p == Writes(ins, <<>>, D)
<1>2. Asked(r, "bulk_meetings", p)
  BY <1>1
<1>3. K \subseteq Meetings /\ \A k \in K : ~ Named(k) /\ k \notin DOMAIN rows
  BY DEF Fresh, Named
<1>4. S \subseteq Members
  BY TablesById DEF IInv, TypeOK
<1>5. \A k \in K : \A i \in {k} \X S : i \notin K /\ i[1] = k /\ i \in Attendees
  BY <1>3, <1>4, IdsAreApart DEF Attendees
<1>6. /\ DOMAIN ins = K \cup (K \X S)
      /\ \A k \in K : ins[k] = NewMeeting(TRUE) /\ \A i \in {k} \X S : ins[i] = NewAttendees(k, S)[i]
  BY <1>5
<1>7. \A d : d \in D <=> d \in G \/ \E k \in G : d \in AttendeesOf(k)
  OBVIOUS
<1> HIDE DEF ins, D
<1>8. p.ins = ins /\ DOMAIN p.upd = {} /\ p.del = D
  BY WritesIs, NothingInEmpty
<1>9. G \in SUBSET (DOMAIN rows \cap Meetings)
  BY InsideIs DEF IInv
<1> HIDE DEF p
<1>10. IsPlan(p) /\ KeepsPatterns(p) /\ LeavesNoStrays(p) /\ WritesRules(p)
  <2>1. \A k \in K : p.ins[k] \in Meeting
    BY <1>6, <1>8, NewMeetingIs
  <2>2. K \in SUBSET Meetings /\ K \cap DOMAIN rows = {}
    BY <1>3
  <2>3. DOMAIN p.ins = K \cup (K \X S) /\ DOMAIN p.upd = {}
    BY <1>6, <1>8
  <2>4. \A k \in K : \A i \in {k} \X S : p.ins[i] = NewAttendees(k, S)[i]
    BY <1>6, <1>8
  <2>5. \A d : d \in p.del <=> d \in G \/ \E k \in G : d \in AttendeesOf(k)
    BY <1>7, <1>8
  <2> HIDE DEF G
  <2> QED BY <1>9, <2>1, <2>2, <2>3, <2>4, <2>5, MeetingsWritten
<1>11. Clears("meeting", p)
  <2>1. \A d \in D : d \in G \/ d \in Attendees
    BY <1>7, TablesById DEF AttendeesOf, IInv, TypeOK
  <2>2. All("meeting") \cap Attendees = {}
    BY TablesById, IdsAreApart DEF IInv, TypeOK
  <2>3. G \cap All("meeting") = G
    BY InsideIs DEF IInv
  <2> QED BY <1>7, <1>8, <2>1, <2>2, <2>3 DEF Clears
<1>12. \A i \in DOMAIN p.ins \ Attendees : ~ Named(i)
  <2>1. \A i \in K \X S : i \in Attendees
    BY <1>5
  <2> QED BY <1>3, <1>6, <1>8, <2>1
<1>13. "bulk_meetings" \notin {"edit", "import"} \cup DOMAIN TaggedOps
  BY TaggedOpsAre
<1> QED BY <1>2, <1>10, <1>11, <1>12, <1>13, AskedDecidesWell

LEMMA UpdateMeetingDecides ==
  ASSUME IInv, NEW r \in Requests, UpdateMeeting(r)
  PROVE  DecidesWell(r)
<1> DEFINE k == form[r].on
           now == {rows[i].member : i \in AttendeesOf(k)}
<1>1. Matches(r, "update_meeting")
  BY DEF UpdateMeeting
<1>2. PICK S \in SUBSET All("member"), f \in BOOLEAN :
        Decided(r, "update_meeting",
                Writes(NewAttendees(k, S \ now), Update(k, [inside |-> f]), {k} \X (now \ S)))
  BY DEF UpdateMeeting
<1> DEFINE new == [inside |-> f]
           p == Writes(NewAttendees(k, S \ now), Update(k, new), {k} \X (now \ S))
<1>3. "update_meeting" \in DOMAIN TaggedOps /\ TaggedOps["update_meeting"] = "meeting"
  BY DEF TaggedOps
<1>4. at[r] = "open" /\ CheckIfMatch(r) /\ k \in DOMAIN rows \cap Meetings
  BY <1>1, <1>3, MatchedRow
<1>5. Decided(r, "update_meeting", p)
  BY <1>2
<1>6. S \subseteq Members \cap DOMAIN rows
  BY TablesById DEF IInv, TypeOK
<1>7. now \subseteq Members
  BY <1>4, AttendeesById DEF IInv, TypeOK
<1>8. DOMAIN new = {"inside"} /\ new.inside \in BOOLEAN
  OBVIOUS
<1> HIDE DEF k, now, new
<1>9. /\ p.ins = NewAttendees(k, S \ now) /\ DOMAIN p.upd = {k} /\ p.upd[k] = Changed(k, new)
      /\ p.del = {k} \X (now \ S)
  <2>1. DOMAIN Update(k, new) = {k} /\ Update(k, new)[k] = Changed(k, new)
    BY UpdateIs
  <2> QED BY <2>1, WritesIs
<1>10. IsDelta(Changed(k, new))
  BY <1>8, ChangedIs DEF IsDelta
<1> HIDE DEF p
<1>11. /\ DOMAIN p.ins = {k} \X (S \ now) /\ DOMAIN p.ins \subseteq Attendees
       /\ \A i \in DOMAIN p.ins : Placed(i, p.ins[i]) /\ Names(p.ins[i]) \subseteq {k} \cup S
  <2> DEFINE T == S \ now
  <2>1. k \in Meetings /\ T \in SUBSET Members /\ T \subseteq S
    BY <1>4, <1>6
  <2> HIDE DEF T
  <2>2. /\ DOMAIN NewAttendees(k, T) = {k} \X T
        /\ {k} \X T \subseteq Attendees
        /\ \A i \in {k} \X T : /\ Placed(i, NewAttendees(k, T)[i])
                               /\ Names(NewAttendees(k, T)[i]) \subseteq {k} \cup T
    BY <2>1, NewAttendeesAre
  <2> USE DEF T
  <2> QED BY <1>9, <2>2
<1>12. p.del \subseteq Attendees
  BY <1>4, <1>7, <1>9 DEF Attendees
<1>13. IsPlan(p)
  <2>1. TagsAttendance(p)
    BY <1>9, <1>11 DEF TagsAttendance
  <2> QED BY <1>9, <1>10, <1>11, <2>1 DEF IsPlan
<1>14. KeepsPatterns(p)
  BY <1>11, <1>12, PatternsStay, IdsAreApart DEF IInv
<1>15. LeavesNoStrays(p)
  <2>1. p.del \cap (Members \cup Meetings) = {}
    BY <1>12, IdsAreApart
  <2>2. ASSUME NEW i \in DOMAIN p.ins
        PROVE  Names(p.ins[i]) \subseteq (DOMAIN rows \cup DOMAIN p.ins) \ p.del
    BY <1>4, <1>6, <1>11, <2>1
  <2>3. \A i \in DOMAIN rows : Names(rows[i]) \cap p.del = {}
    BY <2>1, NothingPointsThere DEF IInv
  <2> QED BY <2>2, <2>3 DEF LeavesNoStrays
<1>16. WritesRules(p)
  BY <1>4, <1>9, <1>11, IdsAreApart DEF WritesRules
<1> QED BY <1>3, <1>4, <1>5, <1>11, <1>13, <1>14, <1>15, <1>16, TaggedDecidesWell
-----------------------------------------------------------------------------
(* The inductive invariant                                                 *)

LEMMA HandlersDecideWell ==
  ASSUME IInv, NEW r \in Requests, Handle(r)
  PROVE  DecidesWell(r)
<1>1. CASE HandleMember(r)
  BY <1>1, CreateMemberDecides, ReorderDecides, UpdateMemberDecides, DeleteMemberDecides DEF HandleMember
<1>2. CASE HandleVersion(r)
  BY <1>2, CreatePatternVersionDecides, ReplacePatternVersionDecides, UpdatePatternVersionDecides,
     DeletePatternVersionDecides DEF HandleVersion
<1>3. CASE HandleAbsence(r)
  BY <1>3, CreateAbsencesDecides, UpdateAbsenceDecides, DeleteAbsenceDecides, BulkAbsencesDecides,
     ImportAbsenceIcsDecides DEF HandleAbsence
<1>4. CASE HandleMeeting(r)
  BY <1>4, CreateMeetingDecides, ReorderDecides, UpdateMeetingDecides, DeleteMeetingDecides,
     BulkMeetingsDecides DEF HandleMeeting
<1> QED BY <1>1, <1>2, <1>3, <1>4 DEF Handle

LEMMA InitInvariant == Init => IInv
<1> SUFFICES ASSUME Init PROVE IInv
  OBVIOUS
<1>1. DOMAIN rows = {} /\ \A r \in Requests : at[r] = "idle" /\ form[r] = NoForm
  BY NothingInEmpty DEF Init
<1>2. NoForm.op \notin {"edit"} \cup DOMAIN TaggedOps /\ DOMAIN NoForm = {"op", "on", "seen"}
  BY TaggedOpsAre DEF NoForm
<1>3. TypeOK
  BY <1>1, <1>2 DEF TypeOK, Reads, Init
<1> QED BY <1>1, <1>3 DEF IInv, InsertsAreReserved, FreshDecisionsFit, UnmovedIsAsSeen

LEMMA StutterKeeps ==
  ASSUME IInv, UNCHANGED vars
  PROVE  IInv'
<1>1. /\ rows' = rows /\ at' = at /\ form' = form /\ moved' = moved /\ plan' = plan
      /\ overtaken' = overtaken /\ scope' = scope
  BY DEF vars
<1>2. TypeOK'
  BY <1>1 DEF IInv, TypeOK, Reads
<1>3. InsertsAreReserved'
  BY <1>1 DEF IInv, InsertsAreReserved, Reserved, NamedBy, Reads
<1>4. FreshDecisionsFit'
  BY <1>1, FitsWhileRowsStay DEF IInv, FreshDecisionsFit
<1>5. UnmovedIsAsSeen'
  BY <1>1, AsSeenWhileRowsStay DEF IInv, UnmovedIsAsSeen, CheckIfMatch
<1> QED BY <1>2, <1>3, <1>4, <1>5 DEF IInv

LEMMA NextKeeps ==
  ASSUME IInv, [Next]_vars
  PROVE  IInv'
<1>1. CASE UNCHANGED vars
  BY <1>1, StutterKeeps
<1>2. CASE Next
  <2>1. PICK r \in Requests : Open(r) \/ GiveUp(r) \/ Handle(r) \/ Commit(r) \/ Fail(r)
    BY <1>2 DEF Next
  <2>2. UNCHANGED scope
    BY <1>2 DEF Next
  <2>3. CASE Handle(r)
    <3>1. PICK f, p : Decide(r, f, p) /\ WellDecided(r, f, p)
      BY <2>3, HandlersDecideWell DEF DecidesWell
    <3> QED BY <2>2, <3>1, DecideKeeps
  <2> QED BY <2>1, <2>2, <2>3, OpenKeeps, GiveUpKeeps, CommitKeeps, FailKeeps
<1> QED BY <1>1, <1>2

(* What the requests know of the rows holds in every state. *)
THEOREM InvariantHolds == Spec => []IInv
<1>1. Init => IInv
  BY InitInvariant
<1>2. IInv /\ [Next]_vars => IInv'
  BY NextKeeps
<1> QED BY <1>1, <1>2, PTL DEF Spec

(* Rows stay in the table of their id and of its columns; requests have the fields of     *)
(* what they ask (models/team.py, and the bodies routes/team_members.py, absences.py and  *)
(* meetings.py accept).                                                                   *)
THEOREM RecordsTyped == Spec => []TypeOK
<1>1. IInv => TypeOK
  BY DEF IInv
<1> QED BY <1>1, InvariantHolds, PTL

-----------------------------------------------------------------------------
(* What a commit that nobody overtook does                                 *)

LEMMA OnlyCommitsWrite ==
  ASSUME IInv, [Next]_vars, NEW r \in Requests, Commits(r)
  PROVE  Commit(r)
<1>1. at[r] = "checked" /\ at'[r] = "idle" /\ rows' # rows
  BY DEF Commits
<1>2. PICK q \in Requests : Open(q) \/ GiveUp(q) \/ Handle(q) \/ Commit(q) \/ Fail(q)
  BY <1>1 DEF Next, vars
<1>3. Handle(q) => rows' = rows
  BY HandlersDecideWell DEF DecidesWell, Decide
<1>4. Commit(q)
  BY <1>1, <1>2, <1>3 DEF Open, GiveUp, Fail
<1>5. q = r
  BY <1>1, <1>4, CommitTellsOthers
<1> QED BY <1>4, <1>5

LEMMA FreshCommitFits ==
  ASSUME IInv, [Next]_vars, NEW r \in Requests, Commits(r), ~ overtaken[r]
  PROVE  Commit(r) /\ TypeOK /\ IsPlan(plan[r]) /\ Fits(form[r], plan[r])
<1>1. Commit(r) /\ at[r] = "checked"
  BY OnlyCommitsWrite DEF Commits
<1> QED BY <1>1 DEF IInv, FreshDecisionsFit, TypeOK

(* services/concurrency.py: a write that quotes a tag overwrites only what its client has *)
(* seen, unless another request commits between its check and its commit.                 *)
THEOREM WritesAreSeen == Spec => NothingOverwrittenUnseen
<1>1. ASSUME IInv, [Next]_vars
      PROVE  [\A r \in Requests :
                Commits(r) /\ form[r].op \in DOMAIN TaggedOps /\ form[r].on \in DOMAIN plan[r].upd \cup plan[r].del
                /\ ~ overtaken[r] => AsSeen(form[r].on, form[r].seen)]_vars
  BY <1>1, FreshCommitFits DEF Fits
<1> QED BY <1>1, InvariantHolds, PTL DEF Spec, NothingOverwrittenUnseen

LEMMA FreshCommitKeepsPatterns ==
  ASSUME IInv, [Next]_vars, NEW r \in Requests, Commits(r), ~ overtaken[r],
         NEW m \in Members, m \in DOMAIN rows', m \in DOMAIN rows => Live("version", m) # {}
  PROVE  \E v \in DOMAIN rows' : rows'[v].is = "version" /\ rows'[v].member = m
<1> DEFINE p == plan[r]
<1>1. Commit(r) /\ TypeOK /\ IsPlan(p) /\ KeepsPatterns(p)
  BY FreshCommitFits DEF Fits
<1>2. /\ DOMAIN rows' = (DOMAIN rows \cup DOMAIN p.ins) \ p.del
      /\ \A i \in DOMAIN rows' \cap DOMAIN p.ins : rows'[i] = p.ins[i]
      /\ DOMAIN p.ins \cap DOMAIN rows = {}
  BY <1>1, RowsAfter
<1> HIDE DEF p
<1>3. SUFFICES \E v \in DOMAIN rows' \cap Versions : rows'[v].member = m
  <2>1. \A v \in DOMAIN rows' \cap Versions : rows'[v].is = "version"
    BY <1>1, RowsAfterArePlaced, PlacedIs
  <2> QED BY <2>1
<1>4. CASE m \in DOMAIN p.ins
  <2>1. PICK v \in (DOMAIN p.ins \cap Versions) \ p.del : p.ins[v].member = m
    BY <1>1, <1>4 DEF KeepsPatterns
  <2> QED BY <1>2, <2>1
<1>5. CASE m \notin DOMAIN p.ins
  <2>1. m \in (Members \cap DOMAIN rows) \ p.del
    BY <1>2, <1>5
  <2>2. PICK v \in Live("version", m) \ p.del : TRUE
    BY <1>1, <2>1 DEF KeepsPatterns
  <2>3. v \in DOMAIN rows \cap Versions /\ rows[v].member = m
    BY <1>1, <2>2, TablesById DEF Live, TypeOK
  <2>4. v \in DOMAIN rows' /\ v \notin DOMAIN p.ins
    BY <1>2, <2>2, <2>3
  <2>5. rows'[v].member = rows[v].member
    BY <1>1, <2>3, <2>4, RowsAfterArePlaced DEF p
  <2> QED BY <2>3, <2>4, <2>5
<1> QED BY <1>4, <1>5

(* routes/team_members.py: a member is created with a working pattern and keeps one, but  *)
(* for what a commit takes beside which another came in.                                  *)
THEOREM MembersKeepAPattern == Spec => EveryMemberKeepsAPattern
<1>1. ASSUME IInv, [Next]_vars
      PROVE  [\A r \in Requests : Commits(r) /\ ~ overtaken[r] =>
                \A m \in Members : m \in DOMAIN rows' /\ (m \in DOMAIN rows => Live("version", m) # {}) =>
                  \E v \in DOMAIN rows' : rows'[v].is = "version" /\ rows'[v].member = m]_vars
  BY <1>1, FreshCommitKeepsPatterns
<1> QED BY <1>1, InvariantHolds, PTL DEF Spec, EveryMemberKeepsAPattern
(* A row is a stray when a row it points at is not there. *)
LEMMA StraysByNames ==
  ASSUME NEW t, \A i \in DOMAIN t : Placed(i, t[i]), NEW i
  PROVE  i \in Strays(t) <=> i \in DOMAIN t /\ ~ (Names(t[i]) \subseteq DOMAIN t)
<1>1. CASE i \in DOMAIN t
  <2>1. {k \in DOMAIN t : t[k] \in Member} = DOMAIN t \cap Members
    BY PlacedIn
  <2>2. {k \in DOMAIN t : t[k] \in Meeting} = DOMAIN t \cap Meetings
    BY PlacedIn
  <2>3. Placed(i, t[i])
    BY <1>1
  <2>4. i \in Strays(t) <=>
          \/ i \in Versions \cup Absences \cup Attendees /\ t[i].member \notin DOMAIN t \cap Members
          \/ i \in Attendees /\ t[i].meeting \notin DOMAIN t \cap Meetings
    BY <1>1, <2>1, <2>2, <2>3, PlacedIn DEF Strays
  <2>5. CASE i \in Versions \cup Absences
    BY <1>1, <2>3, <2>4, <2>5, NamesOfPlaced, IdsAreApart
  <2>6. CASE i \in Attendees
    BY <1>1, <2>3, <2>4, <2>6, NamesOfPlaced
  <2>7. CASE i \in Members \cup Meetings
    BY <1>1, <2>3, <2>4, <2>7, NamesOfPlaced, IdsAreApart
  <2> QED BY <2>3, <2>5, <2>6, <2>7 DEF Placed
<1>2. CASE i \notin DOMAIN t
  BY <1>2 DEF Strays
<1> QED BY <1>1, <1>2

LEMMA FreshCommitLeavesNoStrays ==
  ASSUME IInv, [Next]_vars, NEW r \in Requests, Commits(r), ~ overtaken[r]
  PROVE  Strays(rows') \subseteq Strays(rows)
<1> DEFINE p == plan[r]
<1>1. Commit(r) /\ TypeOK /\ IsPlan(p) /\ LeavesNoStrays(p)
  BY FreshCommitFits DEF Fits
<1>2. /\ DOMAIN rows' = (DOMAIN rows \cup DOMAIN p.ins) \ p.del
      /\ \A i \in DOMAIN rows' \cap DOMAIN p.ins : rows'[i] = p.ins[i]
  BY <1>1, RowsAfter
<1>3. \A i \in DOMAIN rows' : /\ Placed(i, rows'[i])
                              /\ i \notin DOMAIN p.ins => i \in DOMAIN rows /\ Names(rows'[i]) = Names(rows[i])
  BY <1>1, RowsAfterArePlaced
<1> HIDE DEF p
<1>4. SUFFICES ASSUME NEW i \in Strays(rows')
               PROVE  i \in Strays(rows)
  OBVIOUS
<1>5. i \in DOMAIN rows' /\ ~ (Names(rows'[i]) \subseteq DOMAIN rows')
  BY <1>3, <1>4, StraysByNames
<1>6. i \notin DOMAIN p.ins
  BY <1>1, <1>2, <1>5 DEF LeavesNoStrays
<1>7. i \in DOMAIN rows /\ Names(rows'[i]) = Names(rows[i]) /\ i \notin p.del
  BY <1>2, <1>3, <1>5, <1>6
<1>8. ~ (Names(rows[i]) \subseteq DOMAIN rows)
  BY <1>1, <1>2, <1>5, <1>7 DEF LeavesNoStrays
<1> QED BY <1>1, <1>7, <1>8, StraysByNames DEF TypeOK

(* delete_member, delete_meeting: what points at a deleted row goes with it, unless a     *)
(* request committed beside the one that leaves it.                                       *)
THEOREM NoStraysUnovertaken == Spec => OnlyOvertakenLeaveStrays
<1>1. ASSUME IInv, [Next]_vars
      PROVE  [\A r \in Requests : Commits(r) /\ ~ overtaken[r] => Strays(rows') \subseteq Strays(rows)]_vars
  BY <1>1, FreshCommitLeavesNoStrays
<1> QED BY <1>1, InvariantHolds, PTL DEF Spec, OnlyOvertakenLeaveStrays

LEMMA FreshCommitWritesRules ==
  ASSUME IInv, [Next]_vars, NEW r \in Requests, Commits(r), ~ overtaken[r],
         NEW i \in DOMAIN rows', rows'[i] \in Absence, rows'[i].kind = "weekly", rows'[i].weekday = NoDay
  PROVE  i \in DOMAIN rows /\ rows[i] = rows'[i]
<1> DEFINE p == plan[r]
<1>1. Commit(r) /\ TypeOK /\ WritesRules(p)
  BY FreshCommitFits DEF Fits
<1>2. i \in Absences
  BY <1>1, RowsAfterArePlaced, PlacedIn
<1>3. ~ IsRule(rows'[i])
  BY DEF IsRule
<1>4. /\ i \in DOMAIN p.ins => rows'[i] = p.ins[i]
      /\ i \in DOMAIN p.upd => i \in DOMAIN rows /\ rows'[i] = Patched(rows[i], p.upd[i])
      /\ i \notin DOMAIN p.ins \cup DOMAIN p.upd => i \in DOMAIN rows /\ rows'[i] = rows[i]
  BY <1>1, RowsAfter
<1> HIDE DEF p
<1> QED BY <1>1, <1>2, <1>3, <1>4 DEF WritesRules

(* schemas/absence.py: no write leaves a recurring rule without its weekday, unless       *)
(* another was merged into the row between its read and its flush.                        *)
THEOREM RulesStay == Spec => RulesStayWhole
<1>1. ASSUME IInv, [Next]_vars
      PROVE  [\A r \in Requests : Commits(r) /\ ~ overtaken[r] =>
                \A i \in DOMAIN rows' : rows'[i] \in Absence /\ rows'[i].kind = "weekly" /\ rows'[i].weekday = NoDay =>
                  i \in DOMAIN rows /\ rows[i] = rows'[i]]_vars
  BY <1>1, FreshCommitWritesRules
<1> QED BY <1>1, InvariantHolds, PTL DEF Spec, RulesStayWhole

-----------------------------------------------------------------------------
(* Uploads                                                                 *)

LEMMA FreshCommitMirrors ==
  ASSUME IInv, [Next]_vars, NEW r \in Requests, Commits(r), ~ overtaken[r], form[r].op = "import"
  PROVE  MirrorsFile(r)
<1> DEFINE p == plan[r]
           m == form[r].on
           F == form[r].seen
           ofFile == {k \in DOMAIN rows' : /\ rows'[k] \in Absence
                            /\ rows'[k].member = m /\ rows'[k].uid # NoUid
                            /\ (rows'[k].inside \/ rows'[k].uid \in F)}
<1>1. Commit(r) /\ TypeOK /\ Mirrors(m, F, p)
  BY FreshCommitFits DEF Fits
<1>2. /\ DOMAIN rows' = (DOMAIN rows \cup DOMAIN p.ins) \ p.del
      /\ DOMAIN p.ins \cap DOMAIN rows = {}
      /\ \A i \in DOMAIN rows' \cap DOMAIN p.ins : rows'[i] = p.ins[i]
      /\ \A i \in DOMAIN rows' : i \notin DOMAIN p.ins \cup DOMAIN p.upd => i \in DOMAIN rows /\ rows'[i] = rows[i]
  BY <1>1, RowsAfter
<1>3. \A i \in DOMAIN rows' : /\ i \in Absences <=> rows'[i] \in Absence
                              /\ i \notin DOMAIN p.ins =>
                                   /\ i \in DOMAIN rows
                                   /\ i \in Absences => rows'[i].member = rows[i].member /\ rows'[i].uid = rows[i].uid
  BY <1>1, RowsAfterArePlaced, PlacedIn
<1>4. \A i : i \in Imported(m) <=> i \in DOMAIN rows \cap Absences /\ rows[i].member = m /\ rows[i].uid # NoUid
  BY <1>1, TablesById DEF Imported, Live, TypeOK
<1> HIDE DEF p, m, F
<1>5. ASSUME NEW u \in F
      PROVE  \E k \in ofFile : rows'[k].uid = u
  <2>1. CASE u \in {rows[i].uid : i \in Imported(m)}
    <3>1. PICK i \in Imported(m) : rows[i].uid = u
      BY <2>1
    <3>2. i \in DOMAIN rows \cap Absences /\ rows[i].member = m /\ i \notin p.del
      BY <1>1, <1>4, <1>5, <3>1 DEF Mirrors
    <3>3. i \in DOMAIN rows' /\ i \notin DOMAIN p.ins
      BY <1>2, <3>2
    <3> QED BY <1>1, <1>3, <1>5, <3>1, <3>2, <3>3 DEF Mirrors
  <2>2. CASE u \notin {rows[i].uid : i \in Imported(m)}
    <3>1. PICK i \in DOMAIN p.ins : p.ins[i].uid = u
      BY <1>1, <1>5, <2>2 DEF Mirrors
    <3>2. i \in Absences /\ p.ins[i].member = m /\ i \notin p.del
      <4>1. i \notin DOMAIN rows
        BY <1>2
      <4> QED BY <1>1, <1>4, <4>1 DEF Mirrors
    <3>3. i \in DOMAIN rows' /\ rows'[i] = p.ins[i]
      BY <1>2, <3>2
    <3> QED BY <1>1, <1>3, <1>5, <3>1, <3>2, <3>3 DEF Mirrors
  <2> QED BY <2>1, <2>2
<1>6. ASSUME NEW k \in ofFile
      PROVE  rows'[k].uid \in F
  <2>1. k \in DOMAIN rows' \cap Absences
    BY <1>3
  <2>2. CASE k \in DOMAIN p.ins
    BY <1>1, <1>2, <2>1, <2>2 DEF Mirrors
  <2>3. CASE k \notin DOMAIN p.ins
    <3>1. k \in Imported(m) /\ rows'[k].uid = rows[k].uid
      BY <1>3, <1>4, <2>1, <2>3
    <3>2. SUFFICES ASSUME rows[k].uid \notin F PROVE FALSE
      BY <3>1
    <3>3. k \notin DOMAIN p.upd
      BY <1>1, <3>2 DEF Mirrors
    <3>4. rows'[k] = rows[k] /\ rows[k].inside
      BY <1>2, <2>1, <2>3, <3>1, <3>2, <3>3
    <3>5. k \in p.del
      BY <1>1, <3>1, <3>2, <3>4 DEF Mirrors
    <3> QED BY <1>2, <2>1, <3>5
  <2> QED BY <2>2, <2>3
<1>7. \A i \in All("absence") : rows[i].uid = NoUid => i \in DOMAIN rows' /\ rows'[i] = rows[i]
  <2>1. SUFFICES ASSUME NEW i \in All("absence"), rows[i].uid = NoUid
                 PROVE  i \in DOMAIN rows' /\ rows'[i] = rows[i]
    OBVIOUS
  <2>2. i \in DOMAIN rows /\ i \notin Imported(m)
    BY <1>4, <2>1 DEF All
  <2>3. i \notin p.del /\ i \notin DOMAIN p.upd
    BY <1>1, <2>2 DEF Mirrors
  <2> QED BY <1>2, <2>2, <2>3
<1>8. F = {rows'[i].uid : i \in ofFile}
  BY <1>5, <1>6
<1> QED BY <1>7, <1>8 DEF MirrorsFile, m, F

LEMMA FreshCommitReplaces ==
  ASSUME IInv, [Next]_vars, NEW r \in Requests, Commits(r), ~ overtaken[r],
         NEW table \in {"absence", "meeting"}, Clears(table, plan[r])
  PROVE  Replaces(r, table)
<1> DEFINE p == plan[r]
<1>1. Commit(r) /\ TypeOK
  BY FreshCommitFits
<1>2. /\ DOMAIN rows' = (DOMAIN rows \cup DOMAIN p.ins) \ p.del
      /\ DOMAIN p.ins \cap DOMAIN rows = {}
      /\ \A i \in DOMAIN rows' : i \notin DOMAIN p.ins \cup DOMAIN p.upd => i \in DOMAIN rows /\ rows'[i] = rows[i]
  BY <1>1, RowsAfter
<1>3. DOMAIN p.upd = {} /\ p.del \cap All(table) = Inside(table)
  BY DEF Clears
<1> HIDE DEF p
<1>4. ASSUME NEW i \in All(table), ~ rows[i].inside
      PROVE  i \in DOMAIN rows' /\ rows'[i] = rows[i]
  <2>1. i \in DOMAIN rows /\ i \notin Inside(table)
    BY <1>4 DEF All, Inside
  <2> QED BY <1>2, <1>3, <1>4, <2>1
<1>5. ASSUME NEW i \in DOMAIN rows', i \notin All(table) \/ rows[i].inside, rows'[i].is = table
      PROVE  i \in DOMAIN p.ins
  <2>1. SUFFICES ASSUME i \notin DOMAIN p.ins PROVE FALSE
    OBVIOUS
  <2>2. i \in DOMAIN rows /\ rows'[i] = rows[i]
    BY <1>2, <1>3, <2>1
  <2>3. i \in Inside(table)
    BY <1>5, <2>2 DEF All, Inside
  <2> QED BY <1>2, <1>3, <2>3
<1> QED BY <1>4, <1>5 DEF Replaces, p

(* import_ics, replace_absences, replace_meetings: an upload does to its window what it   *)
(* says and nothing beside it, unless another request commits in between.                 *)
THEOREM UploadsKeepTheirWindow == Spec => UploadsKeepToTheirWindow
<1>1. ASSUME IInv, [Next]_vars, NEW r \in Requests, Commits(r), ~ overtaken[r]
      PROVE  /\ form[r].op = "import" => MirrorsFile(r)
             /\ form[r].op = "bulk_absences" => Replaces(r, "absence")
             /\ form[r].op = "bulk_meetings" => Replaces(r, "meeting")
  <2>1. Fits(form[r], plan[r])
    BY <1>1, FreshCommitFits
  <2> QED BY <1>1, <2>1, FreshCommitMirrors, FreshCommitReplaces DEF Fits
<1>2. ASSUME IInv, [Next]_vars
      PROVE  [\A r \in Requests : Commits(r) /\ ~ overtaken[r] =>
                /\ form[r].op = "import" => MirrorsFile(r)
                /\ form[r].op = "bulk_absences" => Replaces(r, "absence")
                /\ form[r].op = "bulk_meetings" => Replaces(r, "meeting")]_vars
  BY <1>1, <1>2
<1> QED BY <1>2, InvariantHolds, PTL DEF Spec, UploadsKeepToTheirWindow
=============================================================================
