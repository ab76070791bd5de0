---------------------------- MODULE MCPollerMaster -----------------------------
(* Instances of PollerMaster for TLC.  The system may rest with all        *)
(* processes running, or end after a quit: Rests stutters in both cases.   *)
EXTENDS PollerMaster

CONSTANTS a, b, c, w

\* Setups are added and dropped; c is never polled, w always.
Grows == <<{a}, {a, b}, {b}, {b, c}>>
Rests == (Settled \/ ~ MainRuns) /\ UNCHANGED vars
MCSpec == CalmInit /\ [][Next \/ Rests]_vars
MCFairSpec == MCSpec /\ Fairness
================================================================================
