--------------------------- MODULE MCScriptControl ---------------------------
(***************************************************************************)
(* Instances of ScriptControl for TLC.  The handlers are two clients, one  *)
(* of them also the cache thread that runs _watchdogHandler; each run      *)
(* gives them the commands its question needs.                             *)
(***************************************************************************)
EXTENDS ScriptControl

CONSTANTS c1, c2, s1, s2, s3, e1, e2, setup

\* --- requests: submitting, unqueueing, rearranging
QueueOps == (c1 :> {"queue", "unqueue", "unqueue_all"}) @@ (c2 :> {"queue", "rearrange"})
QueueCommands == (c1 :> 2) @@ (c2 :> 2)
SomeIdLists == {<<s2, s1>>, <<s1, s2>>, <<s2>>, <<s3, s2, s1>>}
NoIdLists == {}

\* --- script control: the setup request is the script that is controlled,
\* --- s1 is one that is submitted meanwhile
ControlOps == (c1 :> {"start", "queue", "break", "stop", "finish"})
              @@ (c2 :> {"continue", "emergency", "watchdog_stop"})
ControlCommands == (c1 :> 2) @@ (c2 :> 1)

\* --- the script thread against an unqueue
DeathCommands == (c1 :> 1) @@ (c2 :> 1)

\* --- deadlock is checked against the states in which only a command can
\* --- change something
Stays == Quiescent /\ UNCHANGED vars
MCSpec == Init /\ [][Next \/ Stays]_vars
MCFairSpec == MCSpec /\ Fairness

================================================================================
