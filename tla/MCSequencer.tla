------------------------------ MODULE MCSequencer ------------------------------
(***************************************************************************)
(* Instances of Sequencer for TLC: u1 is the script thread, u2 a command   *)
(* executed for a client meanwhile.                                        *)
(***************************************************************************)
EXTENDS Sequencer, TLC

CONSTANTS u1, u2, a1, a2

WithReset == (u1 :> {"maw", "reset"}) @@ (u2 :> {"stop"})
TwoAndOne == (u1 :> 2) @@ (u2 :> 1)

\* Deadlock is checked but where only a call can change something.
Stays == Quiescent /\ UNCHANGED vars
MCSpec == Init /\ [][Next \/ Stays]_vars
MCFairSpec == MCSpec /\ Fairness

================================================================================
