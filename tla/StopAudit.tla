------------------------------- MODULE StopAudit -------------------------------
(***************************************************************************)
(* What the documentation of the emergency command promises, told about    *)
(* ScriptControl with the help of history variables: which script a        *)
(* command was meant for, and whether it was acknowledged.  The history    *)
(* only watches; every step is a step of ScriptControl.                    *)
(***************************************************************************)
EXTENDS ScriptControl

VARIABLES target,      \* target[h]: the script being worked on when h's command came
          acked        \* scripts that an acknowledged emergency stop was meant for

audit == <<target, acked>>

AuditInit ==
    /\ target = [h \in Handlers |-> NoReq]
    /\ acked = {}

\* The handler has done all that the command does, and replies "ok".
Acknowledges(h) ==
    /\ hpc[h] \in {"set_break", "set_event", "put"} /\ hpc'[h] = "idle"
    /\ cmd[h].op = "emergency"
    /\ target[h] = treq /\ treq # NoReq

AuditNext ==
    /\ target' = [h \in Handlers |->
                     IF hpc'[h] = "idle" THEN NoReq
                     ELSE IF hpc[h] = "idle" THEN treq ELSE target[h]]
    /\ acked' = {r \in acked \cup {target[h] : h \in {g \in Handlers : Acknowledges(g)}} :
                    r = treq'}

AuditVars == <<vars, audit>>
AuditSpec == Init /\ AuditInit /\ [][Next /\ AuditNext]_AuditVars

(***************************************************************************)
(* handler.py, emergency: "Stop the script unconditionally and run         *)
(* emergency stop functions".  A script does not begin a line after an     *)
(* emergency command that came while it was worked on was acknowledged.    *)
(***************************************************************************)
EmergencyInterrupts ==
    [][tpc = "line" /\ tpc' = "trace" => treq \notin acked]_AuditVars

================================================================================
