----------------------------- MODULE MCScriptUpdate -----------------------------
(* Instances of ScriptUpdate for TLC.  When all updates are answered and   *)
(* the script has ended, or waits, which ScriptEnds excludes, it rests.    *)
EXTENDS ScriptUpdate

CONSTANTS h1, h2, a, b

Resting == pc \in {"ended", "waiting"} /\ \A h \in Handlers : hnd[h].pc = "idle"

MCFairSpec == Init /\ [][Next \/ (Resting /\ UNCHANGED vars)]_vars /\ Fairness
================================================================================
