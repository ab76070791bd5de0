------------------------------ MODULE ScriptUpdate ------------------------------
(***************************************************************************)
(* Editing a script while it runs: ScriptRequest.execute, called by the    *)
(* script thread, and ScriptRequest.update, called by command handlers     *)
(* under the lock of the queue (nicos/services/daemon/script.py).          *)
(*                                                                         *)
(* A script of more than one line is a sequence of blocks.  There is one   *)
(* script, in the mode MASTER; the queue's lock is only contended by       *)
(* updates.                                                                *)
(***************************************************************************)
EXTENDS Integers, Sequences

CONSTANTS Blocks,      \* texts of blocks
          MaxLen,      \* blocks of a script, a bound
          Handlers,    \* threads that serve clients
          MaxUpdates,  \* update commands, a bound
          None         \* no handler

ASSUME UpdateAssumption == MaxLen \in Nat /\ MaxUpdates \in Nat /\ None \notin Handlers

VARIABLES pc,          \* where execute is
          curblock,    \* index of the current block, from 0
          executed,    \* history: the blocks that were started
          code,        \* code and blocks
          text,        \* text, which clients see
          scripts,     \* the script's entry in experiment.scripts, or Gone
          run,         \* the flag of _run
          qlock,       \* holder of the queue's lock
          hnd,         \* hnd[h]: the update handler h works on
          left         \* updates still allowed

vars == <<pc, curblock, executed, code, text, scripts, run, qlock, hnd, left>>

Scripts == UNION {[1..n -> Blocks] : n \in 1..MaxLen}
Gone == <<>>

Over == {"done", "failed", "ended"}
ExecuteSteps == {"test", "wait", "waiting", "passed", "start", "block"} \cup Over
UpdateSteps == {"idle", "lock", "clear", "read", "check", "announce", "list",
                "replace", "set", "unlock"}

Idle == [pc |-> "idle", new |-> Gone, seen |-> -1]

(***************************************************************************)
(* Type correctness.  _run is clear only while an update holds the lock.   *)
(***************************************************************************)
TypeOK ==
    /\ pc \in ExecuteSteps
    /\ curblock \in -1..MaxLen
    /\ executed \in Scripts \cup {<<>>}
    /\ {code, text} \subseteq Scripts
    /\ scripts \in Scripts \cup {Gone}
    /\ run \in BOOLEAN /\ (~ run => qlock # None)
    /\ qlock \in Handlers \cup {None}
    /\ hnd \in [Handlers -> [pc : UpdateSteps, new : Scripts \cup {Gone}, seen : -1..MaxLen]]
    /\ left \in 0..MaxUpdates

Init ==
    /\ pc = "test" /\ curblock = -1 /\ executed = <<>>
    /\ code \in Scripts /\ text = code /\ scripts = code
    /\ run = TRUE /\ qlock = None
    /\ hnd = [h \in Handlers |-> Idle]
    /\ left = MaxUpdates

--------------------------------------------------------------------------------
(***************************************************************************)
(* ScriptRequest.execute.                                                  *)
(***************************************************************************)
updates == <<text, run, qlock, hnd, left>>

Tests ==
    /\ pc = "test"
    /\ pc' = IF curblock < Len(code) - 1 THEN "wait" ELSE "done"
    /\ UNCHANGED <<curblock, executed, code, scripts, updates>>

Waits ==
    /\ pc = "wait"
    /\ pc' = IF run THEN "passed" ELSE "waiting"
    /\ UNCHANGED <<curblock, executed, code, scripts, updates>>

Increments ==
    /\ pc = "passed"
    /\ pc' = "start"
    /\ curblock' = curblock + 1
    /\ UNCHANGED <<executed, code, scripts, updates>>

Starts ==
    /\ pc = "start" /\ curblock < Len(code)
    /\ pc' = "block"
    /\ executed' = Append(executed, code[curblock + 1])
    /\ UNCHANGED <<curblock, code, scripts, updates>>

\* IndexError: the script got shorter since the test.
StartFails ==
    /\ pc = "start" /\ curblock >= Len(code)
    /\ pc' = "failed"
    /\ UNCHANGED <<curblock, executed, code, scripts, updates>>

\* The block ends, or an exception or a stop leaves execute.
BlockEnds ==
    /\ pc = "block"
    /\ pc' \in {"test", "failed"}
    /\ UNCHANGED <<curblock, executed, code, scripts, updates>>

Leaves ==
    /\ pc \in {"done", "failed"}
    /\ pc' = "ended"
    /\ scripts' = Gone
    /\ UNCHANGED <<curblock, executed, code, updates>>

ExecuteStep == Tests \/ Waits \/ Increments \/ Starts \/ StartFails \/ BlockEnds \/ Leaves

--------------------------------------------------------------------------------
(***************************************************************************)
(* The update command, update_script and ScriptRequest.update.             *)
(***************************************************************************)
thread == <<pc, curblock, executed>>

At(h, p) == hnd[h].pc = p
To(h, p) == hnd' = [hnd EXCEPT ![h].pc = p]

\* The status says that a script is running only within a block.
Asks(h) ==
    /\ At(h, "idle") /\ left > 0 /\ pc = "block"
    /\ \E new \in Scripts : hnd' = [hnd EXCEPT ![h].pc = "lock", ![h].new = new]
    /\ left' = left - 1
    /\ UNCHANGED <<thread, code, text, scripts, run, qlock>>

Locks(h) ==
    /\ At(h, "lock") /\ qlock = None
    /\ qlock' = h
    /\ To(h, "clear")
    /\ UNCHANGED <<thread, code, text, scripts, run, left>>

Clears(h) ==
    /\ At(h, "clear")
    /\ run' = FALSE
    /\ To(h, "read")
    /\ UNCHANGED <<thread, code, text, scripts, qlock, left>>

ReadsBlock(h) ==
    /\ At(h, "read")
    /\ hnd' = [hnd EXCEPT ![h].pc = "check", ![h].seen = curblock]
    /\ UNCHANGED <<thread, code, text, scripts, run, qlock, left>>

\* Mutant: the current block is not compared.
SamePast(h) ==
    /\ hnd[h].seen < Len(hnd[h].new)
    /\ \A i \in 1..hnd[h].seen : i <= Len(code) /\ code[i] = hnd[h].new[i]

\* The current block is compared too; if it is not in the old script this
\* raises IndexError.
Matches(h) ==
    /\ hnd[h].seen < Len(hnd[h].new)
    /\ \A i \in 1..hnd[h].seen + 1 : i <= Len(code) /\ code[i] = hnd[h].new[i]

Checks(h) ==
    /\ At(h, "check")
    /\ To(h, IF Matches(h) THEN "announce" ELSE "set")
    /\ UNCHANGED <<thread, code, text, scripts, run, qlock, left>>

\* Mutant: the text is not replaced.
AnnouncesNothing(h) ==
    /\ At(h, "announce")
    /\ To(h, IF scripts = Gone THEN "set" ELSE "list")
    /\ UNCHANGED <<thread, code, text, scripts, run, qlock, left>>

\* The text is replaced and the list of scripts copied; if the script is no
\* longer there, IndexError.
Announces(h) ==
    /\ At(h, "announce")
    /\ text' = hnd[h].new
    /\ To(h, IF scripts = Gone THEN "set" ELSE "list")
    /\ UNCHANGED <<thread, code, scripts, run, qlock, left>>

Lists(h) ==
    /\ At(h, "list")
    /\ scripts' = hnd[h].new
    /\ To(h, "replace")
    /\ UNCHANGED <<thread, code, text, run, qlock, left>>

Replaces(h) ==
    /\ At(h, "replace")
    /\ code' = hnd[h].new
    /\ To(h, "set")
    /\ UNCHANGED <<thread, text, scripts, run, qlock, left>>

\* Mutant: the script goes on only after an update that succeeded.
SetsOnSuccess(h) ==
    /\ At(h, "set")
    /\ run' = (code = hnd[h].new)
    /\ pc' = IF pc = "waiting" /\ run' THEN "passed" ELSE pc
    /\ To(h, "unlock")
    /\ UNCHANGED <<curblock, executed, code, text, scripts, qlock, left>>

\* A waiting thread is past the wait, whoever clears the flag again.
Sets(h) ==
    /\ At(h, "set")
    /\ run' = TRUE
    /\ pc' = IF pc = "waiting" THEN "passed" ELSE pc
    /\ To(h, "unlock")
    /\ UNCHANGED <<curblock, executed, code, text, scripts, qlock, left>>

Unlocks(h) ==
    /\ At(h, "unlock")
    /\ qlock' = None
    /\ hnd' = [hnd EXCEPT ![h] = Idle]
    /\ UNCHANGED <<thread, code, text, scripts, run, left>>

UpdateStep(h) ==
    \/ Locks(h) \/ Clears(h) \/ ReadsBlock(h) \/ Checks(h) \/ Announces(h)
    \/ Lists(h) \/ Replaces(h) \/ Sets(h) \/ Unlocks(h)

Next == ExecuteStep \/ \E h \in Handlers : Asks(h) \/ UpdateStep(h)

Spec == Init /\ [][Next]_vars

(***************************************************************************)
(* The threads run, and a block ends.                                      *)
(***************************************************************************)
Fairness == WF_vars(ExecuteStep) /\ \A h \in Handlers : WF_vars(UpdateStep(h))

FairSpec == Spec /\ Fairness

--------------------------------------------------------------------------------
(***************************************************************************)
(* update: "make sure that everything that has already been executed       *)
(* matches".  An update never changes the text of a block that was         *)
(* executed, but that of the last one started: curblock "may be off by     *)
(* one", never by more, whatever updates came before.                      *)
(***************************************************************************)
PastKept ==
    [][\A i \in 1..Len(executed) - 1 : executed[i] = code[i] =>
          i <= Len(code') /\ code'[i] = executed[i]]_vars

(***************************************************************************)
(* Without an update in progress the clients see, and the list of running  *)
(* scripts shows, the script that is executed: no refused or failed update *)
(* leaves one of them changed while the script is executed.                *)
(***************************************************************************)
Updating == \E h \in Handlers : ~ hnd[h].pc \in {"idle", "lock", "clear", "unlock"}
ShownIsRun == pc # "ended" /\ ~ Updating => text = code /\ scripts = code

(***************************************************************************)
(* The script ends: whatever comes of an update, it lets execution go on.  *)
(***************************************************************************)
ScriptEnds == <>(pc = "ended")
================================================================================
