----------------------------- MODULE MCTeamPush -----------------------------
(* Instances of TeamPush for TLC. *)
EXTENDS TeamPush, TLC

CONSTANTS c1, c2, p, q, i, j

OwnerOf == i :> p @@ j :> q
PiOfSprint == 1 :> i @@ 2 :> i @@ 3 :> j

\* The second level rounds to the first one's value in one sprint.
WorthOf == 1 :> (1 :> 2 @@ 2 :> 2) @@ 2 :> (1 :> 2 @@ 2 :> 4) @@ 3 :> (1 :> 2 @@ 2 :> 0)

Symmetry == Permutations(Clients)
=============================================================================
