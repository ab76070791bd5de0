------------------------------ MODULE MCStopAudit ------------------------------
(***************************************************************************)
(* Instances of StopAudit for TLC: a queue command and an emergency.       *)
(***************************************************************************)
EXTENDS StopAudit

CONSTANTS c1, c2, s1, s2, s3, e1, e2, setup

EmergencyOps == (c1 :> {"queue"}) @@ (c2 :> {"emergency"})
EmergencyCommands == (c1 :> 1) @@ (c2 :> 1)

NoIdLists == {}

================================================================================
