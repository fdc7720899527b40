---------------------------- MODULE MCTeamServing ----------------------------
(* Instances of TeamServing for TLC. *)
EXTENDS TeamServing, TLC

CONSTANTS c1, c2, t, p, q, i, j

OwnerOf == (i :> p) @@ (j :> q)

Day(d) == [from |-> d, to |-> d]
TwoDays == {Day(1), Day(2)}

\* The two projects were planned one sprint apart.
Staggered == (i :> (1 :> Day(1) @@ 2 :> Undated)) @@ (j :> (1 :> Day(2) @@ 2 :> Undated))
=============================================================================
