------------------------------ MODULE MCEditLock ------------------------------
(* Instances of EditLock for TLC. *)
EXTENDS EditLock, TLC

CONSTANTS alice, bob, tabA, tabB, tool, script

\* Each tab for its own account; the tool and the script both act for alice.
OwnUser == [c \in Clients |-> IF c = tabB THEN bob ELSE alice]
=============================================================================
