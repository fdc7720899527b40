---------------------------- MODULE MCLiveUpdates ----------------------------
(* Instances of LiveUpdates for TLC. *)
EXTENDS LiveUpdates, TLC

CONSTANTS ann, ben, h1, h2
=============================================================================
