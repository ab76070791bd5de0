------------------------------- MODULE Sequencer -------------------------------
(***************************************************************************)
(* Devices that move in a sequence of steps: class SequencerMixin of       *)
(* nicos/devices/generic/sequence.py.  A start creates a thread that walks *)
(* through the steps; each step starts its actions, polls until they are   *)
(* complete and looks at a stop flag.  The users are the threads that call *)
(* the device: the script thread (start, then wait) and threads that       *)
(* execute single commands for clients meanwhile (stop, reset, start).     *)
(*                                                                         *)
(* The hooks (_runFailed, _waitFailed, _stopFailed) re-raise, as their     *)
(* defaults do.  Attached devices are busy while an action runs only; that *)
(* doStatus also asks them is left out.  A sequence never reads what an    *)
(* earlier one left in its steps: each has its own record in seq.          *)
(***************************************************************************)
EXTENDS Naturals, FiniteSets

CONSTANTS Users,         \* threads that call the device
          Ops,           \* Ops[u]: subset of {"maw", "stop", "reset"}
          MaxCalls,      \* MaxCalls[u]: how many of them, a bound
          MaxSeqs,       \* sequences that can be started, a bound
          NSteps,        \* steps of a sequence
          Actions,       \* actions of a step, started together
          HonorStop,     \* _honor_stop of the device's class
          Faults         \* what can go wrong: subset of
                         \* {"run", "wait", "stop", "other"}

ASSUME SequencerAssumption ==
    /\ MaxSeqs \in Nat /\ NSteps \in Nat
    /\ Actions # {} /\ HonorStop \in BOOLEAN
    /\ Ops \in [Users -> SUBSET {"maw", "stop", "reset"}]
    /\ MaxCalls \in [Users -> Nat]

VARIABLES thread,        \* _seq_thread, a sequence or 0
          stopflag,      \* _seq_stopflag
          wasStopped,    \* _seq_was_stopped
          seqStatus,     \* first element of _seq_status
          seq,           \* seq[s]: the thread that runs sequence s
          usr,           \* usr[u]: what user u is doing
          left           \* left[u]: calls user u may still make

vars == <<thread, stopflag, wasStopped, seqStatus, seq, usr, left>>

Seqs == 1..MaxSeqs
\* An action (SequenceItem): "running" after run(), "done" once isCompleted()
\* says so, whatever it moves, sets, calls or waits for.
ActionStates == {"new", "running", "done"}

\* The hooks re-raise the exception, which ends the sequence.
HookRaises(kind) == kind \in Faults

Statuses == {"OK", "BUSY", "NOTREACHED", "ERROR"}
NotStopped == NSteps + 1

SeqSteps == {"none", "loop", "run", "wait", "flag", "stop_waiters", "check",
             "stop_all", "last", "error", "cleanup", "ending", "dead"}
UserSteps == {"idle", "check1", "check2", "busy", "flags", "create", "assign",
              "status", "alive", "finish", "stop", "reset1", "reset2", "reset3"}

(***************************************************************************)
(* Type correctness.  told: actions whose stop() was called; stopAt: the   *)
(* step at which a stop reached the sequence, or NotStopped.               *)
(***************************************************************************)
TypeOK ==
    /\ thread \in Seqs \cup {0}
    /\ stopflag \in BOOLEAN
    /\ wasStopped \in BOOLEAN
    /\ seqStatus \in Statuses
    /\ seq \in [Seqs -> [pc : SeqSteps, step : 0..NSteps, told : SUBSET Actions,
                         act : [Actions -> ActionStates],
                         stopAt : 0..NotStopped]]
    /\ usr \in [Users -> [pc : UserSteps, st : Statuses, mine : Seqs \cup {0},
                          result : {"none", "ok", "stopped", "failed", "refused"}]]
    /\ left \in [Users -> Nat]

Init ==
    /\ thread = 0 /\ stopflag = FALSE /\ wasStopped = FALSE
    /\ seqStatus = "OK"
    /\ seq = [s \in Seqs |-> [pc |-> "none", step |-> 0, told |-> {},
                              act |-> [a \in Actions |-> "done"],
                              stopAt |-> NotStopped]]
    /\ usr = [u \in Users |-> [pc |-> "idle", st |-> "OK", mine |-> 0, result |-> "none"]]
    /\ left = MaxCalls

Alive(s) == seq[s].pc \notin {"none", "dead"}

\* Mutant: a second start is not refused.
NeverRunning == FALSE

Running == thread # 0 /\ Alive(thread)

--------------------------------------------------------------------------------
(***************************************************************************)
(* The sequence thread: _run and _sequence.                                *)
(***************************************************************************)
At(s, p) == seq[s].pc = p
Goto(s, p) == seq' = [seq EXCEPT ![s].pc = p]
Waiters(s) == {a \in Actions : seq[s].act[a] = "running"}
shared == <<thread, stopflag, wasStopped>>

StepBegins(s) ==
    /\ At(s, "loop") /\ seq[s].step < NSteps
    /\ seqStatus' = "BUSY"
    /\ seq' = [seq EXCEPT ![s].pc = "run", ![s].step = @ + 1, ![s].told = {},
                          ![s].act = [a \in Actions |-> "new"]]
    /\ UNCHANGED <<shared, usr, left>>

StepsEnd(s) ==
    /\ At(s, "loop") /\ seq[s].step = NSteps
    /\ Goto(s, "last")
    /\ UNCHANGED <<shared, seqStatus, usr, left>>

ActionRuns(s) ==
    /\ At(s, "run")
    /\ \E a \in Actions :
          /\ seq[s].act[a] = "new"
          /\ \/ seq' = [seq EXCEPT ![s].act[a] = "running",
                                   ![s].pc = IF \E b \in Actions \ {a} : seq[s].act[b] = "new"
                                             THEN "run" ELSE "wait"]
             \/ HookRaises("run") /\ Goto(s, "error")
             \/ "other" \in Faults /\ Goto(s, "cleanup")
    /\ UNCHANGED <<shared, seqStatus, usr, left>>

\* One round over the waiters; those that are complete are waited for no more.
Polls(s) ==
    /\ At(s, "wait")
    /\ seqStatus' = "BUSY"
    /\ \/ \E done \in SUBSET Waiters(s) :
             seq' = [seq EXCEPT ![s].pc = "flag",
                                ![s].act = [a \in Actions |-> IF a \in done THEN "done" ELSE @[a]]]
       \/ HookRaises("wait") /\ Goto(s, "error")
       \/ "other" \in Faults /\ Goto(s, "cleanup")
    /\ UNCHANGED <<shared, usr, left>>

\* Mutant: the stop flag is read only when the actions are complete.
ReadsFlagWhenComplete(s) ==
    /\ At(s, "flag")
    /\ Goto(s, IF Waiters(s) = {} THEN "check" ELSE "wait")
    /\ UNCHANGED <<shared, seqStatus, usr, left>>

ReadsFlag(s) ==
    /\ At(s, "flag")
    /\ Goto(s, CASE stopflag -> "stop_waiters"
                 [] ~ stopflag /\ Waiters(s) = {} -> "check"
                 [] OTHER -> "wait")
    /\ wasStopped' = (wasStopped \/ stopflag)
    /\ UNCHANGED <<thread, stopflag, seqStatus, usr, left>>

StopsWaiter(s) ==
    /\ At(s, "stop_waiters")
    /\ \E a \in Waiters(s) \ seq[s].told :
          \/ seq' = [seq EXCEPT ![s].told = @ \cup {a}]
          \/ HookRaises("stop")
             /\ seq' = [seq EXCEPT ![s].told = @ \cup {a}, ![s].pc = "error"]
          \/ "other" \in Faults /\ Goto(s, "cleanup")
    /\ UNCHANGED <<shared, seqStatus, usr, left>>

WaitersStopped(s) ==
    /\ At(s, "stop_waiters") /\ Waiters(s) \subseteq seq[s].told
    /\ seq' = [seq EXCEPT ![s].pc = "check", ![s].told = {}]
    /\ UNCHANGED <<shared, seqStatus, usr, left>>

\* Mutant: the flag is not read between two steps.
NextStepAnyway(s) ==
    /\ At(s, "check")
    /\ Goto(s, "loop")
    /\ UNCHANGED <<shared, seqStatus, usr, left>>

ChecksFlag(s) ==
    /\ At(s, "check")
    /\ Goto(s, IF stopflag THEN "stop_all" ELSE "loop")
    /\ wasStopped' = (wasStopped \/ stopflag)
    /\ seqStatus' = IF stopflag THEN "BUSY" ELSE seqStatus
    /\ UNCHANGED <<thread, stopflag, usr, left>>

\* The status is set in a finally clause, so also when a stop() raises.
StopsAction(s) ==
    /\ At(s, "stop_all")
    /\ \E a \in Actions \ seq[s].told :
          \/ seq' = [seq EXCEPT ![s].told = @ \cup {a}] /\ UNCHANGED seqStatus
          \/ HookRaises("stop") /\ seqStatus' = "NOTREACHED"
             /\ seq' = [seq EXCEPT ![s].told = @ \cup {a}, ![s].pc = "error"]
          \/ "other" \in Faults /\ seqStatus' = "NOTREACHED" /\ Goto(s, "cleanup")
    /\ UNCHANGED <<shared, usr, left>>

ActionsStopped(s) ==
    /\ At(s, "stop_all") /\ seq[s].told = Actions
    /\ seqStatus' = "NOTREACHED"
    /\ Goto(s, "last")
    /\ UNCHANGED <<shared, usr, left>>

EndsIdle(s) ==
    /\ At(s, "last")
    /\ seqStatus' = IF stopflag THEN seqStatus ELSE "OK"
    /\ Goto(s, "cleanup")
    /\ UNCHANGED <<shared, usr, left>>

\* Mutant: a failed sequence looks like a complete one.
FailsIdle(s) ==
    /\ At(s, "error")
    /\ seqStatus' = "OK"
    /\ Goto(s, "cleanup")
    /\ UNCHANGED <<shared, usr, left>>

Fails(s) ==
    /\ At(s, "error")
    /\ seqStatus' = "ERROR"
    /\ Goto(s, "cleanup")
    /\ UNCHANGED <<shared, usr, left>>

CleansUp(s) ==
    /\ At(s, "cleanup")
    /\ stopflag' = FALSE
    /\ Goto(s, "ending")
    /\ UNCHANGED <<thread, wasStopped, seqStatus, usr, left>>

ThreadEnds(s) ==
    /\ At(s, "ending")
    /\ Goto(s, "dead")
    /\ UNCHANGED <<shared, seqStatus, usr, left>>

SeqStep(s) == StepBegins(s) \/ StepsEnd(s) \/ ActionRuns(s) \/ Polls(s) \/ ReadsFlag(s)
              \/ StopsWaiter(s) \/ WaitersStopped(s) \/ ChecksFlag(s) \/ StopsAction(s)
              \/ ActionsStopped(s) \/ EndsIdle(s) \/ Fails(s) \/ CleansUp(s)
              \/ ThreadEnds(s)

--------------------------------------------------------------------------------
(***************************************************************************)
(* The users.                                                              *)
(***************************************************************************)
Does(u, p, q) == usr[u].pc = p /\ usr' = [usr EXCEPT ![u].pc = q] /\ UNCHANGED left
Returns(u, p, r) ==
    /\ usr[u].pc = p
    /\ usr' = [usr EXCEPT ![u].pc = "idle", ![u].result = r]
    /\ UNCHANGED left

Calls(u) ==
    /\ usr[u].pc = "idle" /\ left[u] > 0
    /\ \E op \in Ops[u] :
          usr' = [usr EXCEPT ![u].pc = CASE op = "maw" -> "check1"
                                         [] op = "stop" -> "stop"
                                         [] op = "reset" -> "reset1",
                             ![u].mine = 0, ![u].result = "none"]
    /\ left' = [left EXCEPT ![u] = @ - 1]
    /\ UNCHANGED <<shared, seqStatus, seq>>

\* doStart and _startSequence both refuse while a sequence runs.
Checks(u) ==
    /\ IF Running
       THEN Returns(u, "check1", "refused") \/ Returns(u, "check2", "refused")
       ELSE Does(u, "check1", "check2") \/ Does(u, "check2", "busy")
    /\ UNCHANGED <<shared, seqStatus, seq>>

SetsBusy(u) ==
    /\ Does(u, "busy", "flags")
    /\ seqStatus' = "BUSY"
    /\ UNCHANGED <<shared, seq>>

ResetsFlags(u) ==
    /\ Does(u, "flags", "create")
    /\ stopflag' = FALSE
    /\ wasStopped' = FALSE
    /\ UNCHANGED <<thread, seqStatus, seq>>

\* The thread runs before _seq_thread refers to it.
Creates(u) ==
    /\ usr[u].pc = "create"
    /\ \E s \in Seqs :
          /\ At(s, "none") /\ \A t \in Seqs : t < s => ~ At(t, "none")
          /\ Goto(s, "loop")
          /\ usr' = [usr EXCEPT ![u].pc = "assign", ![u].mine = s]
    /\ UNCHANGED <<shared, seqStatus, left>>

Assigns(u) ==
    /\ Does(u, "assign", "status")
    /\ thread' = usr[u].mine
    /\ UNCHANGED <<stopflag, wasStopped, seqStatus, seq>>

\* multiWait: isCompleted reads the status, then whether the thread runs.
ReadsStatus(u) ==
    /\ usr[u].pc = "status"
    /\ usr' = [usr EXCEPT ![u].pc = "alive", ![u].st = seqStatus]
    /\ UNCHANGED <<shared, seqStatus, seq, left>>

ReadsAlive(u) ==
    /\ CASE usr[u].st \in {"NOTREACHED", "ERROR"} -> Returns(u, "alive", "failed")
         [] usr[u].st = "BUSY" \/ Running -> Does(u, "alive", "status")
         [] OTHER -> Does(u, "alive", "finish")
    /\ UNCHANGED <<shared, seqStatus, seq>>

Finishes(u) ==
    /\ Returns(u, "finish", IF wasStopped THEN "stopped" ELSE "ok")
    /\ UNCHANGED <<shared, seqStatus, seq>>

\* doStop; for the record, which step it interrupts.
Stops(u) ==
    /\ Returns(u, "stop", "ok")
    /\ stopflag' = (stopflag \/ HonorStop)
    /\ seq' = [s \in Seqs |-> IF HonorStop /\ Alive(s) /\ seq[s].stopAt = NotStopped
                              THEN [seq[s] EXCEPT !.stopAt = seq[s].step] ELSE seq[s]]
    /\ UNCHANGED <<thread, wasStopped, seqStatus>>

ResetChecks(u) ==
    /\ IF Running THEN Returns(u, "reset1", "refused") ELSE Does(u, "reset1", "reset2")
    /\ UNCHANGED <<shared, seqStatus, seq>>

ResetsStopped(u) ==
    /\ Does(u, "reset2", "reset3")
    /\ wasStopped' = FALSE
    /\ UNCHANGED <<thread, stopflag, seqStatus, seq>>

ResetsStatus(u) ==
    /\ Returns(u, "reset3", "ok")
    /\ seqStatus' = "OK"
    /\ UNCHANGED <<shared, seq>>

UserStep(u) == Checks(u) \/ SetsBusy(u) \/ ResetsFlags(u) \/ Creates(u) \/ Assigns(u)
               \/ ReadsStatus(u) \/ ReadsAlive(u) \/ Finishes(u) \/ Stops(u)
               \/ ResetChecks(u) \/ ResetsStopped(u) \/ ResetsStatus(u)

Next == (\E s \in Seqs : SeqStep(s)) \/ (\E u \in Users : Calls(u) \/ UserStep(u))

Spec == Init /\ [][Next]_vars

(***************************************************************************)
(* Every thread that can run does.  Nothing makes an action complete, so a *)
(* sequence may wait for its devices forever.                              *)
(***************************************************************************)
Fairness ==
    /\ \A s \in Seqs : WF_vars(SeqStep(s))
    /\ \A u \in Users : WF_vars(UserStep(u))

FairSpec == Spec /\ Fairness

--------------------------------------------------------------------------------
(***************************************************************************)
(* doStart: "Generate and start a sequence if non is running."  Two        *)
(* threads never walk through the device's steps at the same time.         *)
(***************************************************************************)
OneSequence == \A s, t \in Seqs : Alive(s) /\ Alive(t) => s = t

(***************************************************************************)
(* A sequence that a stop reached begins at most one more step: the flag   *)
(* is read after each step and in each polling round, and is not reset     *)
(* while the sequence runs.                                                *)
(***************************************************************************)
StopBound ==
    \A s \in Seqs : seq[s].stopAt # NotStopped => seq[s].step <= seq[s].stopAt + 1

(***************************************************************************)
(* A wait that returns without an exception means that the sequence it     *)
(* waited for did all its steps, whatever failed or was stopped on the     *)
(* way.  (A user who waits must not be disturbed by the reset of another.) *)
(***************************************************************************)
Complete(s) ==
    /\ ~ Alive(s)
    /\ seq[s].step = NSteps
    /\ \A a \in Actions : seq[s].act[a] = "done"

SuccessMeansDone ==
    \A u \in Users : usr[u].result = "ok" /\ usr[u].mine # 0 => Complete(usr[u].mine)

(***************************************************************************)
(* A stop ends a running sequence even if its actions never complete.      *)
(***************************************************************************)
StopEnds ==
    \A s \in Seqs :
       (Alive(s) /\ seq[s].stopAt # NotStopped) ~> ~ Alive(s)

(***************************************************************************)
(* Nothing is left to do unless somebody calls the device.                 *)
(***************************************************************************)
Quiescent ==
    /\ \A u \in Users : usr[u].pc = "idle" /\ left[u] = 0
    /\ \A s \in Seqs : ~ Alive(s)

================================================================================
