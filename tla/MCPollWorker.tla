------------------------------ MODULE MCPollWorker ------------------------------
(* Instances of PollWorker for TLC.  A process that has ended rests.       *)
EXTENDS PollWorker

CONSTANTS slow, none

MCFairSpec == Init /\ [][Next \/ (main = "ended" /\ UNCHANGED vars)]_vars /\ Fairness
================================================================================
