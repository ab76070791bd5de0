----------------------------- MODULE MCMasterLock -----------------------------
(* Instances of MasterLock for TLC: two sessions, the first of which wants *)
(* to be master.                                                           *)
EXTENDS MasterLock

CONSTANTS s1, s2
================================================================================
