------------------------------- MODULE LiveView -------------------------------
(***************************************************************************)
(* What a viewer of a board is promised, with no cache, event or           *)
(* connection in it: every view on the page shows some state the server    *)
(* has been in, moves only forward, and never goes blank while the page    *)
(* stays open (spec/design.md section 4.4).                                *)
(***************************************************************************)
EXTENDS Naturals

CONSTANTS Viewers, Queries

VARIABLES
  server,   \* how often the answer of each query has changed
  view      \* the version each viewer sees of each query, 0 before any

vars == <<server, view>>

Blank == [q \in Queries |-> 0]

Init ==
  /\ server = [q \in Queries |-> 1]
  /\ view = [v \in Viewers |-> Blank]

\* Somebody changes the answers of some queries.
Change(changed) ==
  /\ server' = [q \in Queries |-> server[q] + (IF q \in changed THEN 1 ELSE 0)]
  /\ UNCHANGED view

\* A view catches up, all the way or part of it.
See(v, q) ==
  \E n \in view[v][q] + 1 .. server[q] :
    /\ view' = [view EXCEPT ![v][q] = n]
    /\ UNCHANGED server

Leave(v) ==
  /\ view' = [view EXCEPT ![v] = Blank]
  /\ UNCHANGED server

Next ==
  \/ \E changed \in SUBSET Queries : Change(changed)
  \/ \E v \in Viewers : Leave(v) \/ \E q \in Queries : See(v, q)

Spec == Init /\ [][Next]_vars
=============================================================================
