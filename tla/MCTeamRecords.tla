---------------------------- MODULE MCTeamRecords ----------------------------
(* Instances of TeamRecords for TLC. *)
EXTENDS TeamRecords, TLC

CONSTANTS r1, r2, m1, m2, v1, v2, a1, a2

RowBounds == [version |-> 6, absence |-> 3, meeting |-> 4]

\* A range elsewhere, a range inside the window that keeps its weekday, a rule inside it.
ThreeRules == {[kind |-> "range", weekday |-> NoDay, inside |-> FALSE],
               [kind |-> "range", weekday |-> 1, inside |-> TRUE],
               [kind |-> "weekly", weekday |-> 1, inside |-> TRUE]}

Symmetric == Permutations({r1, r2}) \cup Permutations({m1, m2}) \cup Permutations({v1, v2}) \cup Permutations({a1, a2})
=============================================================================
