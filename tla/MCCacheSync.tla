------------------------------ MODULE MCCacheSync ------------------------------
(* Instances of CacheSync for TLC.  When everything has arrived it rests.    *)
EXTENDS CacheSync

CONSTANTS w1, w2, r1, a, b

Rests == \A r \in Readers : UpToDate(r)

MCFairSpec == Init /\ [][Next \/ (Rests /\ UNCHANGED vars)]_vars /\ Fairness
================================================================================
