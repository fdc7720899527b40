-------------------------------- MODULE MCBoard --------------------------------
(* Instances of Board for TLC. *)
EXTENDS Board, TLC

Interchangeable ==
  Permutations(FeatureIds) \cup Permutations(StoryIds) \cup Permutations(GroupIds)
    \cup Permutations(LaneIds) \cup Permutations(PiIds)
=============================================================================
