------------------------- MODULE MCHolidayCalendars -------------------------
\* Three holidays: two days, its second afternoon, and the last day of the year before.
EXTENDS HolidayCalendars, TLC

CONSTANTS m1, m2, t1, t2

Holiday(label, s, sh, e, eh) == [label |-> label, start |-> s, startHalf |-> sh, end |-> e, endHalf |-> eh]
SomeKeys == {Holiday("x", 1, "pm", 2, "pm"), Holiday("x", 2, "am", 2, "pm"), Holiday("x", 4, "am", 4, "pm")}
TeamOfMember == [m \in {m1, m2} |-> t1]
\* Where an overtaken request has left a stray, or a holiday that is a mixture of two, only what
\* is held still comes to its end.
Orderly == Strays = {} /\ \A e \in DOMAIN entries : entries[e].key \in Keys
MCNext == Next /\ (Orderly \/ (held # NoRequest /\ held' = NoRequest))
MCSpec == Init /\ [][MCNext]_vars
Symmetry == Permutations({m1, m2}) \cup Permutations(Entries) \cup Permutations(Absences) \cup Permutations(Calendars)
=============================================================================
