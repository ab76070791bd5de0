------------------------------- MODULE MCScan -------------------------------
(* Instances of Scan for TLC: d1 can pause, d2 cannot.  When the last call *)
(* is over nothing needs to happen any more.                               *)
EXTENDS Scan

CONSTANTS d1, d2

Stays == pc = "between" /\ calls = MaxCalls /\ UNCHANGED allVars
MCSpec == ScanInit /\ [][ScanNext \/ Stays]_allVars
MCFairSpec == MCSpec /\ ScanFairness
=============================================================================
