------------------------- MODULE TeamServing_proofs -------------------------
(***************************************************************************)
(* Proofs about TeamServing, for any number of requests, teams, projects,  *)
(* PIs, sprints and dates.  The inductive invariant says what a request    *)
(* may still believe of its checks: all of it while nobody has committed   *)
(* since, and the unique indexes' verdict while it holds the write lock.   *)
(***************************************************************************)
EXTENDS TeamServing, TLAPS

\* What a request that holds the lock flushed is still admitted.
FlushedIsAdmitted ==
  \A c \in Clients :
    request[c].op = "assign" /\ request[c].at = "flushed" => Admitted(request[c].row)

\* Checks that no commit has overtaken still hold.
CheckedStands ==
  \A c \in Clients :
    /\ request[c].op = "assign" /\ ~request[c].overtaken =>
         /\ {request[c].row.team, request[c].row.project} \subseteq living
         /\ ConflictsOf(calendar, request[c].row.team, request[c].row.project) = {}
    /\ request[c].op = "delete_team" /\ ~request[c].overtaken =>
         \A r \in ServedBy(request[c].team) : r.project \notin living

\* A request about a row finds the row, though perhaps not as it was.
RowsAreThere ==
  \A c \in Clients :
    request[c].op \in {"patch", "unassign"} => \E s \in assigned : Same(request[c].row, s)

\* Flushed dates differ from the stored ones in their own project only.
DatesAreLocal ==
  \A c \in Clients :
    request[c].op = "dates" =>
      \A i \in Pis : Owner[i] # request[c].project => request[c].dates[i] = calendar[i]

IInv ==
  /\ TypeOK
  /\ OneTeamOneRemainder
  /\ FlushedIsAdmitted
  /\ CheckedStands
  /\ RowsAreThere
  /\ DatesAreLocal

-----------------------------------------------------------------------------
(* The fields a request has, by its kind. *)
LEMMA RequestKinds ==
  ASSUME NEW r \in Requests
  PROVE  /\ r.op \in {"idle", "assign", "patch", "unassign", "delete_team", "dates"}
         /\ r.op = "idle" => r = Idle
         /\ r.op = "assign" =>
              r \in [op : {"assign"}, at : {"checked", "flushed"}, row : Rows, overtaken : BOOLEAN]
         /\ r.op \in {"patch", "unassign"} => r \in [op : {"patch", "unassign"}, row : Rows]
         /\ r.op = "delete_team" =>
              r \in [op : {"delete_team"}, team : Teams, overtaken : BOOLEAN]
         /\ r.op = "dates" => r \in [op : {"dates"}, project : Projects, dates : Calendars]
BY DEF Requests, Idle

(* Being told that somebody committed changes the history field only. *)
LEMMA OvertakeKeeps ==
  ASSUME NEW r \in Requests
  PROVE  /\ Overtake(r) \in Requests
         /\ Overtake(r).op = r.op
         /\ Open(Overtake(r)) <=> Open(r)
         /\ r.op = "assign" => /\ Overtake(r).overtaken
                               /\ Overtake(r).at = r.at
                               /\ Overtake(r).row = r.row
         /\ r.op = "delete_team" => Overtake(r).overtaken
<1>1. CASE r.op = "assign"
  BY <1>1, RequestKinds DEF Overtake, Requests, Open
<1>2. CASE r.op = "delete_team"
  BY <1>2, RequestKinds DEF Overtake, Requests, Open
<1>3. CASE r.op \notin {"assign", "delete_team"}
  BY <1>3, RequestKinds DEF Overtake
<1> QED BY <1>1, <1>2, <1>3

(* After a commit every request is idle or has been overtaken. *)
LEMMA CommittedEffect ==
  ASSUME TypeOK, NEW c, NEW rows \in SUBSET Rows, Committed(c, rows)
  PROVE  /\ assigned' \subseteq Rows
         /\ request' \in [Clients -> Requests]
         /\ \A d \in Clients :
              \/ request'[d] = Idle /\ (d = c \/ ~Open(request[d]))
              \/ d # c /\ request'[d] = Overtake(request[d])
<1>1. \A d \in Clients :
        request'[d] = IF d = c \/ Orphan(request[d], rows) THEN Idle ELSE Overtake(request[d])
  BY DEF Committed
<1>2. \A d \in Clients : Orphan(request[d], rows) => ~Open(request[d])
  BY DEF Orphan, Open
<1>3. \A d \in Clients : request'[d] \in Requests
  BY <1>1, OvertakeKeeps DEF TypeOK, Requests
<1>4. request' \in [Clients -> Requests]
  BY <1>3 DEF Committed
<1> QED BY <1>1, <1>2, <1>4 DEF Committed

(* A commit leaves no check that still counts, and closes what was open. *)
LEMMA CommitLeavesNoChecks ==
  ASSUME IInv, NEW c, NEW rows \in SUBSET Rows, Committed(c, rows),
         writer = Nobody \/ writer = c, writer' = Nobody
  PROVE  /\ CheckedStands'
         /\ FlushedIsAdmitted'
         /\ RowsAreThere'
         /\ DatesAreLocal'
         /\ \A d \in Clients : Open(request'[d]) <=> writer' = d
<1> USE DEF IInv
<1>1. \A d \in Clients : \/ request'[d] = Idle
                         \/ d # c /\ request'[d] = Overtake(request[d])
  BY CommittedEffect
<1>2. \A d \in Clients : d # c => ~Open(request[d])
  BY NobodyAssumption DEF TypeOK
<1>3. \A d \in Clients : ~Open(request'[d])
  BY <1>1, <1>2, OvertakeKeeps DEF Idle, Open, TypeOK
<1>4. \A d \in Clients : writer' # d
  BY NobodyAssumption
<1>5. \A d \in Clients :
        request'[d].op \in {"assign", "delete_team"} => request'[d].overtaken
  BY <1>1, OvertakeKeeps DEF Idle, TypeOK
<1>6. CheckedStands'
  BY <1>5 DEF CheckedStands
<1>7. FlushedIsAdmitted'
  BY <1>3 DEF FlushedIsAdmitted, Open
<1>8. RowsAreThere'
  <2>1. \A d \in Clients :
          request'[d].op \in {"patch", "unassign"} =>
            ~Orphan(request[d], rows) /\ request'[d] = request[d]
    BY OvertakeKeeps, RequestKinds DEF Committed, Idle, Overtake, TypeOK
  <2> QED BY <2>1 DEF RowsAreThere, Orphan, Committed
<1>9. DatesAreLocal'
  BY <1>3 DEF DatesAreLocal, Open
<1> QED BY <1>3, <1>4, <1>6, <1>7, <1>8, <1>9

(* Two projects that conflict do so seen from either. *)
LEMMA ConflictIsMutual ==
  ASSUME NEW dates, NEW p, NEW q, Conflict(dates, p, q)
  PROVE  Conflict(dates, q, p)
<1>1. PICK a, b \in Pis : /\ Owner[a] = p /\ Owner[b] = q
                          /\ Overlap(dates, a, b) /\ Disagree(dates, a, b)
  BY DEF Conflict
<1>2. Overlap(dates, b, a) BY <1>1 DEF Overlap
<1>3. Disagree(dates, b, a) BY <1>1 DEF Disagree
<1> QED BY <1>1, <1>2, <1>3 DEF Conflict

-----------------------------------------------------------------------------
(* The inductive invariant. *)
LEMMA InitIInv == Init => IInv
<1> SUFFICES ASSUME Init PROVE IInv OBVIOUS
<1>1. TypeOK
  BY PlannedAssumption, NobodyAssumption DEF Init, TypeOK, Requests, Idle, Open
<1>2. OneTeamOneRemainder BY DEF Init, OneTeamOneRemainder
<1>3. FlushedIsAdmitted /\ CheckedStands /\ RowsAreThere /\ DatesAreLocal
  BY DEF Init, FlushedIsAdmitted, CheckedStands, RowsAreThere, DatesAreLocal, Idle
<1> QED BY <1>1, <1>2, <1>3 DEF IInv

(* A request that begins with its checks just made keeps the invariant. *)
LEMMA BeginIInv ==
  ASSUME IInv, NEW c \in Clients, NEW r \in Requests, Begin(c, r), ~Open(r),
         r.op = "assign" => /\ {r.row.team, r.row.project} \subseteq living
                            /\ ConflictsOf(calendar, r.row.team, r.row.project) = {},
         r.op = "delete_team" => \A s \in ServedBy(r.team) : s.project \notin living,
         r.op \in {"patch", "unassign"} => r.row \in assigned,
         UNCHANGED <<living, assigned, calendar, writer>>
  PROVE  IInv'
<1> USE DEF IInv
<1>1. /\ request[c] = Idle
      /\ request' \in [Clients -> Requests]
      /\ request'[c] = r
      /\ \A d \in Clients : d # c => request'[d] = request[d]
  BY DEF Begin, TypeOK
<1>2. TypeOK'
  <2>1. ~Open(request[c]) BY <1>1 DEF Idle, Open
  <2>2. \A d \in Clients : Open(request'[d]) <=> Open(request[d])
    BY <1>1, <2>1
  <2> QED BY <1>1, <2>2 DEF TypeOK
<1>3. OneTeamOneRemainder' BY DEF OneTeamOneRemainder
<1>4. FlushedIsAdmitted'
  BY <1>1 DEF FlushedIsAdmitted, Open, Admitted, RemainingFree, ServedBy
<1>5. CheckedStands'
  BY <1>1 DEF CheckedStands, ConflictsOf, ServedBy
<1>6. RowsAreThere' BY <1>1 DEF RowsAreThere, Same
<1>7. DatesAreLocal' BY <1>1 DEF DatesAreLocal, Open
<1> QED BY <1>2, <1>3, <1>4, <1>5, <1>6, <1>7

(* A request answered without effect keeps the invariant. *)
LEMMA AnsweredIInv ==
  ASSUME IInv, NEW c \in Clients, Answered(c),
         writer = Nobody \/ writer = c, writer' = Nobody,
         UNCHANGED <<living, assigned, calendar>>
  PROVE  IInv'
<1> USE DEF IInv
<1>1. /\ request' \in [Clients -> Requests]
      /\ request'[c] = Idle
      /\ \A d \in Clients : d # c => request'[d] = request[d]
  BY DEF Answered, TypeOK, Requests
<1>2. \A d \in Clients : ~Open(request'[d]) /\ writer' # d
  BY <1>1, NobodyAssumption DEF TypeOK, Idle, Open
<1>3. TypeOK' BY <1>1, <1>2 DEF TypeOK
<1>4. OneTeamOneRemainder' BY DEF OneTeamOneRemainder
<1>5. FlushedIsAdmitted' BY <1>2 DEF FlushedIsAdmitted, Open
<1>6. CheckedStands' BY <1>1 DEF CheckedStands, ConflictsOf, ServedBy, Idle
<1>7. RowsAreThere' BY <1>1 DEF RowsAreThere, Same, Idle
<1>8. DatesAreLocal' BY <1>2 DEF DatesAreLocal, Open
<1> QED BY <1>3, <1>4, <1>5, <1>6, <1>7, <1>8

(* A commit keeps it if the assignments it leaves obey the unique indexes. *)
LEMMA CommitIInv ==
  ASSUME IInv, NEW c, NEW rows \in SUBSET Rows, Committed(c, rows),
         writer = Nobody \/ writer = c, writer' = Nobody,
         living' \subseteq living, calendar' \in Calendars,
         \A r, s \in rows : /\ r.project = s.project => r = s
                            /\ r.team = s.team /\ r.remaining /\ s.remaining => r = s
  PROVE  IInv'
<1>1. TypeOK'
  <2>1. TypeOK BY DEF IInv
  <2>2. assigned' \subseteq Rows /\ request' \in [Clients -> Requests]
    BY <2>1, CommittedEffect
  <2>3. \A d \in Clients : Open(request'[d]) <=> writer' = d
    BY CommitLeavesNoChecks
  <2> QED BY <2>1, <2>2, <2>3 DEF TypeOK
<1>2. OneTeamOneRemainder' BY DEF OneTeamOneRemainder, Committed
<1>3. FlushedIsAdmitted' /\ CheckedStands' /\ RowsAreThere' /\ DatesAreLocal'
  BY CommitLeavesNoChecks
<1> QED BY <1>1, <1>2, <1>3 DEF IInv

LEMMA AssignIInv ==
  ASSUME IInv, NEW c \in Clients, NEW row \in Rows,
         AssignCheck(c, row) \/ AssignFlush(c) \/ AssignCommit(c)
  PROVE  IInv'
<1>1. CASE AssignCheck(c, row)
  <2> DEFINE r == [op |-> "assign", at |-> "checked", row |-> row, overtaken |-> FALSE]
  <2>1. r \in Requests /\ ~Open(r) BY DEF Requests, Open
  <2>2. Begin(c, r) BY <1>1 DEF AssignCheck
  <2>3. UNCHANGED <<living, assigned, calendar, writer>> BY <1>1 DEF AssignCheck
  <2>4. /\ {r.row.team, r.row.project} \subseteq living
        /\ ConflictsOf(calendar, r.row.team, r.row.project) = {}
    BY <1>1 DEF AssignCheck
  <2>5. r.op \notin {"delete_team", "patch", "unassign"} OBVIOUS
  <2> HIDE DEF r
  <2> QED BY <2>1, <2>2, <2>3, <2>4, <2>5, BeginIInv
<1>2. CASE AssignFlush(c) /\ ~Admitted(request[c].row)
  BY <1>2, AnsweredIInv DEF AssignFlush
<1>3. CASE AssignFlush(c) /\ Admitted(request[c].row)
  <2>1. /\ request[c].op = "assign" /\ request[c].at = "checked"
        /\ writer = Nobody /\ writer' = c
        /\ request' = [request EXCEPT ![c].at = "flushed"]
        /\ UNCHANGED <<living, assigned, calendar>>
    BY <1>3 DEF AssignFlush
  <2>2. request \in [Clients -> Requests] /\ request[c] \in Requests BY DEF IInv, TypeOK
  <2>3. request[c] \in [op : {"assign"}, at : {"checked", "flushed"}, row : Rows, overtaken : BOOLEAN]
    BY <2>1, <2>2, RequestKinds
  <2>4. /\ request'[c] = [request[c] EXCEPT !.at = "flushed"]
        /\ \A d \in Clients : d # c => request'[d] = request[d]
    BY <2>1, <2>2
  <2>5. /\ request'[c] \in [op : {"assign"}, at : {"checked", "flushed"}, row : Rows, overtaken : BOOLEAN]
        /\ request'[c].op = "assign" /\ request'[c].at = "flushed"
        /\ request'[c].row = request[c].row /\ request'[c].overtaken = request[c].overtaken
    BY <2>3, <2>4
  <2>6. TypeOK'
    <3>1. request' \in [Clients -> Requests]
      BY <2>1, <2>2, <2>5 DEF Requests
    <3>2. \A d \in Clients : Open(request'[d]) <=> writer' = d
      BY <2>1, <2>4, <2>5, NobodyAssumption DEF Open, IInv, TypeOK
    <3> QED BY <2>1, <3>1, <3>2 DEF IInv, TypeOK
  <2>7. OneTeamOneRemainder' BY <2>1 DEF IInv, OneTeamOneRemainder
  <2>8. FlushedIsAdmitted'
    BY <1>3, <2>1, <2>4, <2>5 DEF IInv, FlushedIsAdmitted, Admitted, RemainingFree, ServedBy
  <2>9. CheckedStands'
    BY <2>1, <2>4, <2>5 DEF IInv, CheckedStands, ConflictsOf, ServedBy
  <2>10. RowsAreThere' BY <2>1, <2>4, <2>5 DEF IInv, RowsAreThere, Same
  <2>11. DatesAreLocal' BY <2>1, <2>4, <2>5 DEF IInv, DatesAreLocal
  <2> QED BY <2>6, <2>7, <2>8, <2>9, <2>10, <2>11 DEF IInv
<1>4. CASE AssignCommit(c)
  <2> DEFINE new == request[c].row
             rows == assigned \cup {new}
  <2>1. /\ request[c].op = "assign" /\ request[c].at = "flushed"
        /\ writer' = Nobody /\ Committed(c, rows)
        /\ UNCHANGED <<living, calendar>>
    BY <1>4 DEF AssignCommit
  <2>2. writer = c BY <2>1 DEF IInv, TypeOK, Open
  <2>3. new \in Rows
    BY <2>1, RequestKinds DEF IInv, TypeOK
  <2>4. rows \in SUBSET Rows BY <2>3 DEF IInv, TypeOK
  <2>5. Admitted(new) BY <2>1 DEF IInv, FlushedIsAdmitted
  <2>6. \A r \in assigned : /\ r.project # new.project
                            /\ ~(r.team = new.team /\ r.remaining /\ new.remaining)
    BY <2>5 DEF Admitted, RemainingFree, ServedBy
  <2>7. \A r, s \in rows : /\ r.project = s.project => r = s
                           /\ r.team = s.team /\ r.remaining /\ s.remaining => r = s
    BY <2>6 DEF IInv, OneTeamOneRemainder
  <2>8. calendar' \in Calendars BY <2>1 DEF IInv, TypeOK
  <2> HIDE DEF rows
  <2> QED BY <2>1, <2>2, <2>4, <2>7, <2>8, CommitIInv
<1> QED BY <1>1, <1>2, <1>3, <1>4 DEF AssignFlush

LEMMA RowIInv ==
  ASSUME IInv, NEW c \in Clients, NEW row \in Rows,
         \/ PatchCheck(c, row) \/ PatchCommit(c)
         \/ UnassignCheck(c, row) \/ UnassignCommit(c)
  PROVE  IInv'
<1>1. ASSUME NEW o \in {"patch", "unassign"}, Begin(c, [op |-> o, row |-> row]),
             row \in assigned, UNCHANGED <<living, assigned, calendar, writer>>
      PROVE  IInv'
  <2> DEFINE r == [op |-> o, row |-> row]
  <2>1. r \in Requests /\ ~Open(r) BY DEF Requests, Open
  <2>2. r.op \notin {"assign", "delete_team"} /\ r.row \in assigned BY <1>1
  <2>3. Begin(c, r) BY <1>1
  <2> HIDE DEF r
  <2> QED BY <1>1, <2>1, <2>2, <2>3, BeginIInv
<1>2. CASE PatchCheck(c, row) \/ UnassignCheck(c, row)
  BY <1>1, <1>2 DEF PatchCheck, UnassignCheck
<1>3. ASSUME request[c].op \in {"patch", "unassign"}
      PROVE  /\ request[c].row \in Rows
             /\ \A r \in assigned : r.project = request[c].row.project => Same(r, request[c].row)
  BY <1>3, RequestKinds DEF IInv, TypeOK, RowsAreThere, OneTeamOneRemainder, Same
<1>4. CASE PatchCommit(c)
  <2> DEFINE new == Flipped(request[c].row)
             rows == {r \in assigned : ~Same(r, new)} \cup {new}
  <2>1. /\ request[c].op = "patch" /\ writer = Nobody
        /\ UNCHANGED <<living, calendar, writer>>
        /\ \/ RemainingFree(new) /\ Committed(c, rows)
           \/ Answered(c) /\ UNCHANGED assigned
    BY <1>4 DEF PatchCommit
  <2>2. /\ new \in Rows
        /\ new.team = request[c].row.team /\ new.project = request[c].row.project
    BY <1>3, <2>1 DEF Flipped, Rows
  <2>3. \A r \in assigned : ~Same(r, new) => r.project # new.project
    BY <1>3, <2>1, <2>2 DEF Same
  <2>4. CASE RemainingFree(new) /\ Committed(c, rows)
    <3>1. \A r, s \in rows : /\ r.project = s.project => r = s
                             /\ r.team = s.team /\ r.remaining /\ s.remaining => r = s
      BY <2>3, <2>4 DEF IInv, OneTeamOneRemainder, RemainingFree, ServedBy
    <3>2. rows \in SUBSET Rows /\ calendar' \in Calendars
      BY <2>1, <2>2 DEF IInv, TypeOK
    <3> HIDE DEF rows
    <3> QED BY <2>1, <2>4, <3>1, <3>2, CommitIInv
  <2>5. CASE Answered(c) /\ UNCHANGED assigned
    BY <2>1, <2>5, AnsweredIInv
  <2> QED BY <2>1, <2>4, <2>5
<1>5. CASE UnassignCommit(c)
  <2> DEFINE rows == {r \in assigned : ~Same(r, request[c].row)}
  <2>1. /\ writer = Nobody /\ Committed(c, rows)
        /\ UNCHANGED <<living, calendar, writer>>
    BY <1>5 DEF UnassignCommit
  <2>2. /\ rows \in SUBSET Rows /\ calendar' \in Calendars
        /\ \A r, s \in rows : /\ r.project = s.project => r = s
                              /\ r.team = s.team /\ r.remaining /\ s.remaining => r = s
    BY <2>1 DEF IInv, TypeOK, OneTeamOneRemainder
  <2> HIDE DEF rows
  <2> QED BY <2>1, <2>2, CommitIInv
<1> QED BY <1>2, <1>4, <1>5

(* Fewer assignments obey the unique indexes too. *)
LEMMA FewerRows ==
  ASSUME IInv, NEW rows \in SUBSET assigned
  PROVE  /\ rows \in SUBSET Rows
         /\ \A r, s \in rows : /\ r.project = s.project => r = s
                               /\ r.team = s.team /\ r.remaining /\ s.remaining => r = s
BY DEF IInv, TypeOK, OneTeamOneRemainder

LEMMA TeamDeletionIInv ==
  ASSUME IInv, NEW c \in Clients, NEW t \in Teams,
         DeleteTeamCheck(c, t) \/ DeleteTeamCommit(c)
  PROVE  IInv'
<1>1. CASE DeleteTeamCheck(c, t)
  <2> DEFINE r == [op |-> "delete_team", team |-> t, overtaken |-> FALSE]
  <2>1. r \in Requests /\ ~Open(r) BY DEF Requests, Open
  <2>2. /\ r.op \notin {"assign", "patch", "unassign"}
        /\ \A s \in ServedBy(r.team) : s.project \notin living
    BY <1>1 DEF DeleteTeamCheck
  <2>3. Begin(c, r) /\ UNCHANGED <<living, assigned, calendar, writer>>
    BY <1>1 DEF DeleteTeamCheck
  <2> HIDE DEF r
  <2> QED BY <2>1, <2>2, <2>3, BeginIInv
<1>2. CASE DeleteTeamCommit(c)
  <2> DEFINE rows == assigned \ ServedBy(request[c].team)
  <2>1. /\ writer = Nobody /\ writer' = Nobody /\ Committed(c, rows)
        /\ living' \subseteq living /\ calendar' \in Calendars
    BY <1>2 DEF DeleteTeamCommit, IInv, TypeOK
  <2>2. rows \in SUBSET assigned OBVIOUS
  <2> HIDE DEF rows
  <2> QED BY <2>1, <2>2, FewerRows, CommitIInv
<1> QED BY <1>1, <1>2

LEMMA ProjectIInv ==
  ASSUME IInv, NEW p \in Projects, DeleteProject(p) \/ Restore(p)
  PROVE  IInv'
<1>1. CASE DeleteProject(p)
  <2> DEFINE rows == {r \in assigned : r.project # p}
  <2>1. /\ writer = Nobody /\ writer' = Nobody /\ Committed(Nobody, rows)
        /\ living' \subseteq living
    BY <1>1 DEF DeleteProject
  <2>2. calendar' \in Calendars
    BY <1>1 DEF DeleteProject, IInv, TypeOK, Calendars, Dates
  <2>3. rows \in SUBSET assigned OBVIOUS
  <2> HIDE DEF rows
  <2> QED BY <2>1, <2>2, <2>3, FewerRows, CommitIInv
<1>2. CASE Restore(p)
  <2>1. /\ writer = Nobody /\ writer' = Nobody /\ Committed(Nobody, assigned)
        /\ living' \subseteq living
    BY <1>2 DEF Restore
  <2>2. calendar' \in Calendars
    BY <1>2, PlannedAssumption DEF Restore, IInv, TypeOK, Calendars
  <2> QED BY <2>1, <2>2, FewerRows, CommitIInv
<1> QED BY <1>1, <1>2

LEMMA DatesIInv ==
  ASSUME IInv, NEW c \in Clients, NEW i \in Pis, NEW n \in Numbers, NEW d \in Dates,
         DatesFlush(c, i, n, d)
  PROVE  IInv'
<1> DEFINE r == [op |-> "dates", project |-> Owner[i],
                 dates |-> [calendar EXCEPT ![i][n] = d]]
<1>1. /\ writer = Nobody /\ writer' = c /\ request[c] = Idle
      /\ request' = [request EXCEPT ![c] = r]
      /\ UNCHANGED <<living, assigned, calendar>>
  BY DEF DatesFlush, Begin
<1>2. [calendar EXCEPT ![i][n] = d] \in Calendars
  BY DEF IInv, TypeOK, Calendars
<1>3. r \in Requests /\ Open(r) /\ r.op = "dates"
  BY <1>2, OwnerAssumption DEF Requests, Open
<1>4. \A a \in Pis : Owner[a] # r.project => r.dates[a] = calendar[a]
  BY DEF IInv, TypeOK, Calendars
<1> HIDE DEF r
<1>5. /\ request' \in [Clients -> Requests]
      /\ request'[c] = r
      /\ \A e \in Clients : e # c => request'[e] = request[e]
  BY <1>1, <1>3 DEF IInv, TypeOK
<1>6. TypeOK'
  <2>1. \A e \in Clients : Open(request'[e]) <=> writer' = e
    BY <1>1, <1>3, <1>5, NobodyAssumption DEF IInv, TypeOK
  <2> QED BY <1>1, <1>5, <2>1 DEF IInv, TypeOK
<1>7. OneTeamOneRemainder' BY <1>1 DEF IInv, OneTeamOneRemainder
<1>8. FlushedIsAdmitted'
  BY <1>1, <1>3, <1>5 DEF IInv, FlushedIsAdmitted, Admitted, RemainingFree, ServedBy
<1>9. CheckedStands'
  BY <1>1, <1>3, <1>5 DEF IInv, CheckedStands, ConflictsOf, ServedBy
<1>10. RowsAreThere' BY <1>1, <1>3, <1>5 DEF IInv, RowsAreThere, Same
<1>11. DatesAreLocal' BY <1>1, <1>4, <1>5 DEF IInv, DatesAreLocal
<1> QED BY <1>6, <1>7, <1>8, <1>9, <1>10, <1>11 DEF IInv

LEMMA DatesCommitIInv ==
  ASSUME IInv, NEW c \in Clients, DatesCommit(c)
  PROVE  IInv'
<1>1. /\ request[c].op = "dates" /\ writer' = Nobody /\ UNCHANGED living
      /\ \/ calendar' = request[c].dates /\ Committed(c, assigned)
         \/ Answered(c) /\ UNCHANGED <<calendar, assigned>>
  BY DEF DatesCommit
<1>2. writer = c BY <1>1 DEF IInv, TypeOK, Open
<1>3. request[c].dates \in Calendars
  BY <1>1, RequestKinds DEF IInv, TypeOK
<1>4. CASE calendar' = request[c].dates /\ Committed(c, assigned)
  <2>1. /\ assigned \in SUBSET Rows
        /\ \A r, s \in assigned : /\ r.project = s.project => r = s
                                  /\ r.team = s.team /\ r.remaining /\ s.remaining => r = s
    BY DEF IInv, TypeOK, OneTeamOneRemainder
  <2> QED BY <1>1, <1>2, <1>3, <1>4, <2>1, CommitIInv
<1>5. CASE Answered(c) /\ UNCHANGED <<calendar, assigned>>
  BY <1>1, <1>2, <1>5, AnsweredIInv
<1> QED BY <1>1, <1>4, <1>5

LEMMA NextIInv == IInv /\ [Next]_vars => IInv'
<1> SUFFICES ASSUME IInv, [Next]_vars PROVE IInv'
  OBVIOUS
<1>1. ASSUME NEW c \in Clients, NEW row \in Rows,
             AssignCheck(c, row) \/ PatchCheck(c, row) \/ UnassignCheck(c, row)
      PROVE  IInv'
  BY <1>1, AssignIInv, RowIInv
<1>2. ASSUME NEW c \in Clients, AssignFlush(c) \/ AssignCommit(c)
      PROVE  IInv'
  <2>1. request[c].row \in Rows
    BY <1>2, RequestKinds DEF AssignFlush, AssignCommit, IInv, TypeOK
  <2> QED BY <1>2, <2>1, AssignIInv
<1>3. ASSUME NEW c \in Clients, PatchCommit(c) \/ UnassignCommit(c)
      PROVE  IInv'
  <2>1. request[c].row \in Rows
    BY <1>3, RequestKinds DEF PatchCommit, UnassignCommit, IInv, TypeOK
  <2> QED BY <1>3, <2>1, RowIInv
<1>4. ASSUME NEW c \in Clients, NEW t \in Teams, DeleteTeamCheck(c, t)
      PROVE  IInv'
  BY <1>4, TeamDeletionIInv
<1>5. ASSUME NEW c \in Clients, DeleteTeamCommit(c)
      PROVE  IInv'
  <2>1. request[c].team \in Teams
    BY <1>5, RequestKinds DEF DeleteTeamCommit, IInv, TypeOK
  <2> QED BY <1>5, <2>1, TeamDeletionIInv
<1>6. ASSUME NEW c \in Clients, NEW i \in Pis, NEW n \in Numbers, NEW d \in Dates,
             DatesFlush(c, i, n, d)
      PROVE  IInv'
  BY <1>6, DatesIInv
<1>7. ASSUME NEW c \in Clients, DatesCommit(c)
      PROVE  IInv'
  BY <1>7, DatesCommitIInv
<1>8. ASSUME NEW p \in Projects, DeleteProject(p) \/ Restore(p)
      PROVE  IInv'
  BY <1>8, ProjectIInv
<1>9. CASE UNCHANGED vars
  <2> USE <1>9 DEF vars
  <2>1. TypeOK' BY DEF IInv, TypeOK
  <2>2. OneTeamOneRemainder' BY DEF IInv, OneTeamOneRemainder
  <2>3. FlushedIsAdmitted' BY DEF IInv, FlushedIsAdmitted, Admitted, RemainingFree, ServedBy
  <2>4. CheckedStands' BY DEF IInv, CheckedStands, ConflictsOf, ServedBy
  <2>5. RowsAreThere' BY DEF IInv, RowsAreThere
  <2>6. DatesAreLocal' BY DEF IInv, DatesAreLocal
  <2> QED BY <2>1, <2>2, <2>3, <2>4, <2>5, <2>6 DEF IInv
<1>10. CASE Next
  BY <1>1, <1>2, <1>3, <1>4, <1>5, <1>6, <1>7, <1>8, <1>10 DEF Next
<1> QED BY <1>9, <1>10

-----------------------------------------------------------------------------
(* The theorems. *)

\* The variables keep their types, and a transaction is open exactly while its
\* request holds the write lock.
THEOREM TypeCorrect == Spec => []TypeOK
<1>1. IInv => TypeOK BY DEF IInv
<1> QED BY <1>1, InitIInv, NextIInv, PTL DEF Spec

\* However many assignments and PATCHes race, a project has one team and a team
\* one project with its remaining capacity (the unique indexes of team_projects).
THEOREM AssignmentsAreUnique == Spec => []OneTeamOneRemainder
<1>1. IInv => OneTeamOneRemainder BY DEF IInv
<1> QED BY <1>1, InitIInv, NextIInv, PTL DEF Spec

(* Sprint dates that did not change make no new conflict. *)
LEMMA SameDatesSameConflicts ==
  ASSUME NEW old, NEW new, NEW p, NEW q,
         \A i \in Pis : Owner[i] \in {p, q} => new[i] = old[i],
         Conflict(new, p, q)
  PROVE  Conflict(old, p, q)
<1>1. PICK a, b \in Pis : /\ Owner[a] = p /\ Owner[b] = q
                          /\ Overlap(new, a, b) /\ Disagree(new, a, b)
  BY DEF Conflict
<1>2. new[a] = old[a] /\ new[b] = old[b] BY <1>1
<1>3. Overlap(old, a, b) BY <1>1, <1>2 DEF Overlap, BeginsBeforeEnd
<1>4. Disagree(old, a, b) BY <1>1, <1>2 DEF Disagree
<1> QED BY <1>1, <1>3, <1>4 DEF Conflict

(* What one step may do to the alignment of a team. *)
LEMMA AlignmentStep ==
  ASSUME IInv, Next, Aligned
  PROVE  Aligned' \/ OvertakenAssignment \/ \E p \in Projects : Restore(p)
<1>1. ASSUME UNCHANGED <<assigned, calendar>> PROVE Aligned'
  BY <1>1 DEF Aligned
<1>2. ASSUME assigned' \subseteq assigned, UNCHANGED calendar PROVE Aligned'
  BY <1>2 DEF Aligned
<1>3. ASSUME NEW c \in Clients, AssignCommit(c)
      PROVE  Aligned' \/ OvertakenAssignment
  <2> DEFINE new == request[c].row
  <2>1. /\ request[c].op = "assign" /\ assigned' = assigned \cup {new}
        /\ calendar' = calendar /\ request'[c] = Idle
    BY <1>3 DEF AssignCommit, Committed
  <2>2. CASE request[c].overtaken
    BY <2>1, <2>2 DEF OvertakenAssignment
  <2>3. CASE ~request[c].overtaken
    <3>1. \A r \in assigned : r.team = new.team => ~Conflict(calendar, new.project, r.project)
      BY <2>1, <2>3 DEF IInv, CheckedStands, ConflictsOf, ServedBy
    <3>2. ~Conflict(calendar, new.project, new.project) BY DEF Conflict
    <3>3. \A r, s \in assigned' : r.team = s.team => ~Conflict(calendar, r.project, s.project)
      BY <2>1, <3>1, <3>2, ConflictIsMutual DEF Aligned
    <3> QED BY <2>1, <3>3 DEF Aligned
  <2> QED BY <2>2, <2>3
<1>4. ASSUME NEW c \in Clients, PatchCommit(c)
      PROVE  Aligned'
  <2> DEFINE new == Flipped(request[c].row)
  <2>1. /\ request[c].op = "patch" /\ calendar' = calendar
        /\ assigned' \subseteq assigned \cup {new}
    BY <1>4 DEF PatchCommit, Committed
  <2>2. new.team = request[c].row.team /\ new.project = request[c].row.project
    BY <2>1, RequestKinds DEF Flipped, Rows, IInv, TypeOK
  <2>3. PICK s \in assigned : s.team = new.team /\ s.project = new.project
    BY <2>1, <2>2 DEF IInv, RowsAreThere, Same
  <2>4. \A r \in assigned' :
          \E o \in assigned : o.team = r.team /\ o.project = r.project
    BY <2>1, <2>3
  <2> QED BY <2>1, <2>4 DEF Aligned
<1>5. ASSUME NEW p \in Projects, DeleteProject(p)
      PROVE  Aligned'
  <2>1. assigned' = {r \in assigned : r.project # p}
    BY <1>5 DEF DeleteProject, Committed
  <2>2. \A i \in Pis : Owner[i] # p => calendar'[i] = calendar[i]
    BY <1>5 DEF DeleteProject
  <2>3. ASSUME NEW r \in assigned', NEW s \in assigned', r.team = s.team
        PROVE  ~Conflict(calendar', r.project, s.project)
    BY <2>1, <2>2, <2>3, SameDatesSameConflicts DEF Aligned
  <2> QED BY <2>3 DEF Aligned
<1>6. ASSUME NEW c \in Clients, DatesCommit(c)
      PROVE  Aligned'
  <2> DEFINE p == request[c].project
  <2>1. CASE UNCHANGED <<assigned, calendar>>
    BY <2>1 DEF Aligned
  <2>2. CASE /\ assigned' = assigned /\ calendar' = request[c].dates
             /\ ~Misaligned(request[c].dates, p)
    <3>1. \A i \in Pis : Owner[i] # p => calendar'[i] = calendar[i]
      BY <1>6, <2>2 DEF DatesCommit, IInv, DatesAreLocal
    <3>2. \A r, s \in assigned :
            r.project = p /\ r.team = s.team => ~Conflict(calendar', p, s.project)
      BY <2>2 DEF Misaligned, ConflictsOf, ServedBy
    <3>3. ASSUME NEW r \in assigned, NEW s \in assigned, r.team = s.team
          PROVE  ~Conflict(calendar', r.project, s.project)
      <4>1. CASE r.project = p BY <3>2, <3>3, <4>1
      <4>2. CASE s.project = p BY <3>2, <3>3, <4>2, ConflictIsMutual
      <4>3. CASE r.project # p /\ s.project # p
        BY <3>1, <3>3, <4>3, SameDatesSameConflicts DEF Aligned
      <4> QED BY <4>1, <4>2, <4>3
    <3> QED BY <2>2, <3>3 DEF Aligned
  <2> QED BY <1>6, <2>1, <2>2 DEF DatesCommit, Committed
<1>7. ASSUME NEW c \in Clients, NEW row \in Rows,
             AssignCheck(c, row) \/ PatchCheck(c, row) \/ UnassignCheck(c, row)
      PROVE  Aligned'
  BY <1>1, <1>7 DEF AssignCheck, PatchCheck, UnassignCheck
<1>8. ASSUME NEW c \in Clients, AssignFlush(c)
      PROVE  Aligned'
  BY <1>1, <1>8 DEF AssignFlush
<1>9. ASSUME NEW c \in Clients, UnassignCommit(c) \/ DeleteTeamCommit(c)
      PROVE  Aligned'
  BY <1>2, <1>9 DEF UnassignCommit, DeleteTeamCommit, Committed
<1>10. ASSUME NEW c \in Clients, NEW t \in Teams, DeleteTeamCheck(c, t)
       PROVE  Aligned'
  BY <1>1, <1>10 DEF DeleteTeamCheck
<1>11. ASSUME NEW c \in Clients, NEW i \in Pis, NEW n \in Numbers, NEW d \in Dates,
              DatesFlush(c, i, n, d)
       PROVE  Aligned'
  BY <1>1, <1>11 DEF DatesFlush
<1> QED
  BY <1>3, <1>4, <1>5, <1>6, <1>7, <1>8, <1>9, <1>10, <1>11 DEF Next

\* Only a restore, or an assignment that somebody else's commit overtook, ever
\* breaks the alignment of projects served by one team.
THEOREM AlignmentHolds == Spec => AlignmentIsKept
<1>1. IInv /\ [Next]_vars =>
        [Aligned => \/ Aligned' \/ OvertakenAssignment
                    \/ \E p \in Projects : Restore(p)]_vars
  BY AlignmentStep
<1> QED BY <1>1, InitIInv, NextIInv, PTL DEF Spec, AlignmentIsKept

\* An accepted edit of sprint dates leaves its project in agreement with the
\* whole team, because it holds the write lock while it looks.
THEOREM EditsAgree == Spec => AcceptedDatesAgree
<1> DEFINE Agrees ==
      \A c \in Clients :
        request[c].op = "dates" /\ calendar' # calendar /\ request'[c] = Idle
          => \A r, s \in assigned :
               r.project = request[c].project /\ r.team = s.team
                 => ~Conflict(calendar', r.project, s.project)
<1>1. ASSUME IInv, Next PROVE Agrees
  <2> SUFFICES ASSUME NEW c \in Clients, request[c].op = "dates", calendar' # calendar
               PROVE  \A r, s \in assigned :
                        r.project = request[c].project /\ r.team = s.team
                          => ~Conflict(calendar', r.project, s.project)
    OBVIOUS
  <2>1. writer = c BY <1>1 DEF IInv, TypeOK, Open
  <2>2. PICK d \in Clients : DatesCommit(d)
    BY <1>1, <2>1, NobodyAssumption
       DEF Next, AssignCheck, AssignFlush, AssignCommit, PatchCheck, PatchCommit, UnassignCheck,
           UnassignCommit, DeleteTeamCheck, DeleteTeamCommit, DeleteProject, DatesFlush, Restore
  <2>3. d = c BY <1>1, <2>1, <2>2 DEF DatesCommit, IInv, TypeOK, Open
  <2>4. ~Misaligned(request[c].dates, request[c].project) /\ calendar' = request[c].dates
    BY <2>2, <2>3 DEF DatesCommit
  <2> QED BY <2>4 DEF Misaligned, ConflictsOf, ServedBy
<1>2. IInv /\ [Next]_vars => [Agrees]_vars
  BY <1>1
<1> QED BY <1>2, InitIInv, NextIInv, PTL DEF Spec, AcceptedDatesAgree

(* What one step may do to the references of the assignments. *)
LEMMA RowsStep ==
  ASSUME IInv, Next, NoStrayRows
  PROVE  NoStrayRows' \/ OvertakenAssignment
<1>1. ASSUME assigned' \subseteq assigned, UNCHANGED living PROVE NoStrayRows'
  BY <1>1 DEF NoStrayRows
<1>2. ASSUME NEW c \in Clients, AssignCommit(c)
      PROVE  NoStrayRows' \/ OvertakenAssignment
  <2>1. /\ request[c].op = "assign" /\ assigned' = assigned \cup {request[c].row}
        /\ living' = living /\ request'[c] = Idle
    BY <1>2 DEF AssignCommit, Committed
  <2>2. CASE request[c].overtaken
    BY <2>1, <2>2 DEF OvertakenAssignment
  <2>3. CASE ~request[c].overtaken
    BY <2>1, <2>3 DEF IInv, CheckedStands, NoStrayRows
  <2> QED BY <2>2, <2>3
<1>3. ASSUME NEW c \in Clients, PatchCommit(c) PROVE NoStrayRows'
  <2> DEFINE new == Flipped(request[c].row)
  <2>1. /\ request[c].op = "patch" /\ living' = living
        /\ assigned' \subseteq assigned \cup {new}
    BY <1>3 DEF PatchCommit, Committed
  <2>2. new.team = request[c].row.team /\ new.project = request[c].row.project
    BY <2>1, RequestKinds DEF Flipped, Rows, IInv, TypeOK
  <2>3. {new.team, new.project} \subseteq living
    BY <2>1, <2>2 DEF IInv, RowsAreThere, Same, NoStrayRows
  <2> HIDE DEF new
  <2> QED BY <2>1, <2>3 DEF NoStrayRows
<1>4. ASSUME NEW c \in Clients, DeleteTeamCommit(c) PROVE NoStrayRows'
  <2>1. /\ request[c].team \in Teams
        /\ living' = living \ {request[c].team}
        /\ assigned' = assigned \ ServedBy(request[c].team)
    BY <1>4, RequestKinds DEF DeleteTeamCommit, Committed, IInv, TypeOK
  <2>2. \A r \in assigned' : r \in assigned /\ r.team # request[c].team
                              /\ r.project # request[c].team
    BY <2>1, KindsAssumption DEF ServedBy, IInv, TypeOK, Rows
  <2> QED BY <2>1, <2>2 DEF NoStrayRows
<1>5. ASSUME NEW p \in Projects, DeleteProject(p) PROVE NoStrayRows'
  <2>1. living' = living \ {p} /\ assigned' = {r \in assigned : r.project # p}
    BY <1>5 DEF DeleteProject, Committed
  <2>2. \A r \in assigned : r.team # p
    BY KindsAssumption DEF IInv, TypeOK, Rows
  <2> QED BY <2>1, <2>2 DEF NoStrayRows
<1>6. ASSUME NEW c \in Clients, NEW row \in Rows,
             AssignCheck(c, row) \/ PatchCheck(c, row) \/ UnassignCheck(c, row)
      PROVE  NoStrayRows'
  BY <1>1, <1>6 DEF AssignCheck, PatchCheck, UnassignCheck
<1>7. ASSUME NEW c \in Clients, AssignFlush(c) \/ UnassignCommit(c) \/ DatesCommit(c)
      PROVE  NoStrayRows'
  BY <1>1, <1>7 DEF AssignFlush, UnassignCommit, DatesCommit, Committed
<1>8. ASSUME NEW c \in Clients, NEW t \in Teams, DeleteTeamCheck(c, t) PROVE NoStrayRows'
  BY <1>1, <1>8 DEF DeleteTeamCheck
<1>9. ASSUME NEW c \in Clients, NEW i \in Pis, NEW n \in Numbers, NEW d \in Dates,
             DatesFlush(c, i, n, d)
      PROVE  NoStrayRows'
  BY <1>1, <1>9 DEF DatesFlush
<1>10. ASSUME NEW p \in Projects, Restore(p) PROVE NoStrayRows'
  BY <1>1, <1>10 DEF Restore, Committed
<1> QED BY <1>2, <1>3, <1>4, <1>5, <1>6, <1>7, <1>8, <1>9, <1>10 DEF Next

\* Only an assignment that a deletion overtook names a team or a project that is
\* gone: deleting either takes its assignments along.
THEOREM NoStrays == Spec => RowsResolve
<1>1. IInv /\ [Next]_vars => [NoStrayRows => NoStrayRows' \/ OvertakenAssignment]_vars
  BY RowsStep
<1> QED BY <1>1, InitIInv, NextIInv, PTL DEF Spec, RowsResolve

\* A team whose deletion nobody overtook served no project that exists when it
\* went: teams.py asks for the projects by a join, and the cascade of the ORM
\* takes whatever rows are left.
THEOREM TeamsGoEmpty == Spec => NobodyLosesTheirTeam
<1> DEFINE Keeps ==
      \A c \in Clients :
        request[c].op = "delete_team" /\ request'[c] = Idle /\ ~request[c].overtaken
          => \A r \in assigned \ assigned' : r.project \notin living
<1>1. ASSUME IInv, Next PROVE Keeps
  <2> SUFFICES ASSUME NEW c \in Clients, request[c].op = "delete_team", request'[c] = Idle,
                      ~request[c].overtaken
               PROVE  \A r \in assigned \ assigned' : r.project \notin living
    OBVIOUS
  <2>1. request[c] \in Requests BY <1>1 DEF IInv, TypeOK
  <2>2. ASSUME NEW d, NEW rows, Committed(d, rows) PROVE c = d
    BY <2>1, <2>2, OvertakeKeeps DEF Committed, Orphan, Idle
  <2>3. CASE DeleteTeamCommit(c)
    <3>1. \A r \in ServedBy(request[c].team) : r.project \notin living
      BY <1>1 DEF IInv, CheckedStands
    <3>2. assigned' = assigned \ ServedBy(request[c].team)
      BY <2>3 DEF DeleteTeamCommit, Committed
    <3> QED BY <3>1, <3>2
  <2>4. ASSUME NEW d \in Clients, AssignCommit(d) \/ UnassignCommit(d) \/ PatchCommit(d)
        PROVE  assigned' = assigned
    BY <2>2, <2>4 DEF AssignCommit, UnassignCommit, PatchCommit
  <2>5. ASSUME NEW p \in Projects, DeleteProject(p) PROVE FALSE
    BY <2>2, <2>5, NobodyAssumption DEF DeleteProject
  <2>6. ASSUME NEW d \in Clients, DeleteTeamCommit(d)
        PROVE  \A r \in assigned \ assigned' : r.project \notin living
    BY <2>2, <2>3, <2>6 DEF DeleteTeamCommit
  <2>7. CASE assigned' = assigned
    BY <2>7
  <2> QED
    BY <1>1, <2>4, <2>5, <2>6, <2>7
       DEF Next, AssignCheck, AssignFlush, PatchCheck, UnassignCheck, DeleteTeamCheck,
           DatesFlush, DatesCommit, Restore, Committed
<1>2. IInv /\ [Next]_vars => [Keeps]_vars
  BY <1>1
<1> QED BY <1>2, InitIInv, NextIInv, PTL DEF Spec, NobodyLosesTheirTeam

=============================================================================
