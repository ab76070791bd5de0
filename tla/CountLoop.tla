------------------------------- MODULE CountLoop -------------------------------
(***************************************************************************)
(* Counting with several detectors: acquire and _wait_for_continuation of  *)
(* nicos/core/acquire.py, run by the script thread, against the commands   *)
(* of clients and the watchdog, which leave a request in                   *)
(* session.countloop_request.  Module Scan runs the loop in its scans.     *)
(*                                                                         *)
(* The immediate stop is left out: it runs the emergency functions, which  *)
(* stop all devices.  A visit to a detector is one step, since nobody else *)
(* touches it meanwhile.  A put result is in the dataset also if a sink    *)
(* raises.                                                                 *)
(***************************************************************************)
EXTENDS Naturals, FiniteSets

CONSTANTS Dets,        \* the detectors of the point
          CanPause,    \* those that have a doPause
          Commands,    \* what clients may ask for, a subset of
                       \* {"break", "stop", "step", "finish", "pausecount"}
          MaxCommands, \* how often, a bound
          Faults       \* where a detector or a sink may raise, a subset of
                       \* {"prepare", "start", "loop", "put", "pausing",
                       \*  "finishing", "resuming", "stop"}

ASSUME CountAssumption ==
    /\ Dets # {} /\ IsFiniteSet(Dets) /\ CanPause \subseteq Dets
    /\ MaxCommands \in Nat

VARIABLES pc,          \* where the script thread is
          only,        \* only_pause of the current _wait_for_continuation
          todo,        \* detectors the current for loop has not visited
          det,         \* the detectors
          detset,      \* detset
          results,     \* point.results: the quality of the latest result
          refused,     \* detectors whose stop() raised
          req,         \* session.countloop_request
          cur,         \* the request _wait_for_continuation has read
          pausecount,  \* experiment.pausecount
          brk,         \* the requested break
          writes,      \* pause requests that commands have yet to write
          left         \* commands still allowed

vars == <<pc, only, todo, det, detset, results, refused, req, cur, pausecount,
          brk, writes, left>>
devices == <<det, detset, results, refused>>
orders == <<req, cur, pausecount, brk>>
clients == <<writes, left>>

\* requests that act at every breakpoint; "step" is a stop after the scan point
NowRequests == {"break", "stop"}

LoopSteps == {"first", "prepare", "start", "loop", "requested", "pausing",
              "finishing", "resuming", "callback", "except", "done", "raised"}
WaitSteps == {"w_while", "w_reset", "w_break", "w_pausecount", "w_again", "w_new",
              "inbreak", "inbreak_again"}

(***************************************************************************)
(* Type correctness.  Detectors that left the set have their final result. *)
(***************************************************************************)
CountTypeOK ==
    /\ {only, pausecount} \subseteq BOOLEAN
    /\ todo \subseteq Dets /\ detset \subseteq Dets /\ refused \subseteq Dets
    /\ det \in [Dets -> {"idle", "counting", "paused", "done"}]
    /\ results \in [Dets -> {"none", "live", "final", "interrupted"}]
    /\ {req, cur} \subseteq {"none", "pause", "finish"}
    /\ brk \in {"none", "step"} \cup NowRequests
    /\ writes \in 0..MaxCommands /\ left \in 0..MaxCommands
    /\ \A d \in Dets \ detset : det[d] = "done" /\ results[d] = "final"

TypeOK == pc \in LoopSteps \cup WaitSteps /\ CountTypeOK

Resting ==
    /\ only = TRUE /\ todo = {}
    /\ det = [d \in Dets |-> "idle"] /\ detset = Dets
    /\ results = [d \in Dets |-> "none"] /\ refused = {}
    /\ req = "none" /\ cur = "none" /\ pausecount = FALSE /\ brk = "none"
    /\ writes = 0 /\ left = MaxCommands

Init == pc = "first" /\ Resting

Goto(p) == pc' = p
ForAll(ds, p) == pc' = p /\ todo' = ds

--------------------------------------------------------------------------------
(***************************************************************************)
(* _wait_for_continuation.  It returns to the start of the detectors, or   *)
(* to the loop that resumes or finishes them.                              *)
(***************************************************************************)
\* Mutant: the detectors are not resumed.
ContinuesAtOnce == IF only THEN ForAll({}, "prepare") ELSE ForAll({}, "callback")

Continues == IF only THEN ForAll({}, "prepare") ELSE ForAll(detset, "resuming")
Raises == IF only THEN ForAll({}, "raised") ELSE ForAll(detset, "except")

ReadsRequest ==
    /\ pc = "w_while" /\ req # "none"
    /\ cur' = req
    /\ Goto("w_reset")
    /\ UNCHANGED <<only, todo, devices, req, pausecount, brk, clients>>

NoRequest ==
    /\ pc = "w_while" /\ req = "none"
    /\ Continues
    /\ UNCHANGED <<only, devices, orders, clients>>

ResetsRequest ==
    /\ pc = "w_reset"
    /\ req' = "none"
    /\ CASE only /\ cur # "pause" -> Continues
         [] ~ only /\ cur = "finish" -> ForAll(detset, "finishing")
         [] OTHER -> Goto("w_break") /\ UNCHANGED todo
    /\ UNCHANGED <<only, devices, cur, pausecount, brk, clients>>

\* session.breakpoint(3) at p: a stop is raised, a break waits in b.
Breakpoint(p, b, next) ==
    /\ pc = p
    /\ CASE brk = "stop" -> Raises
         [] brk = "break" -> Goto(b) /\ UNCHANGED todo
         [] OTHER -> Goto(next) /\ UNCHANGED todo
    /\ brk' = IF brk \in NowRequests THEN "none" ELSE brk
    /\ UNCHANGED <<only, devices, req, cur, pausecount, clients>>

PausesForDaemon == Breakpoint("w_break", "inbreak", "w_pausecount")
PausesAgain == Breakpoint("w_again", "inbreak_again", "w_new")

ChecksPausecount ==
    /\ pc = "w_pausecount"
    /\ Goto(IF pausecount THEN "w_again" ELSE "w_while")
    /\ UNCHANGED <<only, todo, devices, orders, clients>>

ChecksNewRequest ==
    /\ pc = "w_new"
    /\ Goto(IF req # "none" THEN "w_while" ELSE "w_pausecount")
    /\ UNCHANGED <<only, todo, devices, orders, clients>>

WaitStep == ReadsRequest \/ NoRequest \/ ResetsRequest \/ PausesForDaemon
            \/ PausesAgain \/ ChecksPausecount \/ ChecksNewRequest

--------------------------------------------------------------------------------
(***************************************************************************)
(* acquire.                                                                *)
(***************************************************************************)
ChecksFirst ==
    /\ pc = "first"
    /\ Goto(IF req # "none" THEN "w_while" ELSE "prepare")
    /\ UNCHANGED <<only, todo, devices, orders, clients>>

Prepares ==
    /\ pc = "prepare"
    /\ \/ ForAll(Dets, "start")
       \/ "prepare" \in Faults /\ ForAll({}, "raised")
    /\ only' = FALSE
    /\ UNCHANGED <<devices, orders, clients>>

\* A for loop over detectors: one turn, its end, an exception.
Turn(p, state) ==
    /\ pc = p
    /\ \E d \in todo : todo' = todo \ {d} /\ det' = [det EXCEPT ![d] = state[d]]
    /\ UNCHANGED <<pc, only, detset, results, refused, orders, clients>>

After(p, ds, next) ==
    /\ pc = p /\ todo = {}
    /\ ForAll(ds, next)
    /\ UNCHANGED <<only, devices, orders, clients>>

Fails(p, next) ==
    /\ pc = p /\ p \in Faults /\ todo # {}
    /\ ForAll(detset, next)
    /\ UNCHANGED <<only, devices, orders, clients>>

\* An exception of start() does not reach the except clause of the loop.
Starts ==
    \/ Turn("start", [d \in Dets |-> "counting"])
    \/ After("start", detset, "loop")
    \/ Fails("start", "raised")

\* Mutant: any quality is taken for the final one.
VisitsAnyQuality ==
    /\ pc = "loop"
    /\ \E d \in todo, quality \in {"none", "live", "final"} :
          /\ (quality = "final") <=> (det[d] = "done")
          /\ results' = [results EXCEPT ![d] = IF quality = "none" THEN @ ELSE quality]
          /\ detset' = IF quality # "none" THEN detset \ {d} ELSE detset
          /\ todo' = todo \ {d}
    /\ UNCHANGED <<pc, only, det, refused, orders, clients>>

\* The hook asks for a live result, or for none; a completed detector has a
\* final one.
Visits ==
    /\ pc = "loop"
    /\ \E d \in todo, quality \in {"none", "live", "final"} :
          /\ (quality = "final") <=> (det[d] = "done")
          /\ results' = [results EXCEPT ![d] = IF quality = "none" THEN @ ELSE quality]
          /\ \/ detset' = (IF quality = "final" THEN detset \ {d} ELSE detset)
                /\ todo' = todo \ {d} /\ UNCHANGED pc
             \/ "put" \in Faults /\ quality # "none"
                /\ ForAll(detset, "except") /\ UNCHANGED detset
    /\ UNCHANGED <<only, det, refused, orders, clients>>

VisitEnds == After("loop", {}, IF detset = {} THEN "done" ELSE "requested")

\* Mutant: the detectors are not paused.
LooksOnly ==
    /\ pc = "requested"
    /\ IF req # "none" THEN ForAll({}, "w_while") ELSE ForAll({}, "callback")
    /\ UNCHANGED <<only, devices, orders, clients>>

LooksForRequest ==
    /\ pc = "requested"
    /\ IF req # "none" THEN ForAll(detset, "pausing") ELSE ForAll({}, "callback")
    /\ UNCHANGED <<only, devices, orders, clients>>

Pauses ==
    \/ Turn("pausing", [d \in Dets |-> IF det[d] = "counting" /\ d \in CanPause
                                       THEN "paused" ELSE det[d]])
    \/ After("pausing", {}, "w_while")
    \/ Fails("pausing", "except")

Finishes ==
    \/ Turn("finishing", [d \in Dets |-> "done"])
    \/ After("finishing", {}, "callback")
    \/ Fails("finishing", "except")

Resumes ==
    \/ Turn("resuming", [d \in Dets |-> IF det[d] = "paused" THEN "counting" ELSE det[d]])
    \/ After("resuming", {}, "callback")
    \/ Fails("resuming", "except")

StopsThose(ds) == det' = [d \in Dets |-> IF d \in ds THEN "done" ELSE det[d]]

\* iscompletefunc may ask to stop all detectors; then the next round begins,
\* unless one of the stop() raises.
LoopsAgain ==
    /\ pc = "callback"
    /\ \/ (UNCHANGED det \/ StopsThose(detset)) /\ ForAll(detset, "loop")
       \/ /\ "stop" \in Faults
          /\ \E ds \in SUBSET detset : ds # detset /\ StopsThose(ds)
          /\ ForAll(detset, "except")
    /\ UNCHANGED <<only, detset, results, refused, orders, clients>>

\* Mutant: the first stop() that raises ends the loop.
InterruptsUntilError ==
    /\ pc = "except"
    /\ \E d \in todo :
          /\ results' = [results EXCEPT ![d] = "interrupted"]
          /\ \/ det' = [det EXCEPT ![d] = "done"] /\ todo' = todo \ {d} /\ UNCHANGED refused
             \/ "stop" \in Faults /\ refused' = refused \cup {d} /\ todo' = {} /\ UNCHANGED det
    /\ UNCHANGED <<pc, only, detset, orders, clients>>

Interrupts ==
    /\ pc = "except"
    /\ \E d \in todo :
          /\ todo' = todo \ {d}
          /\ results' = [results EXCEPT ![d] = "interrupted"]
          /\ \/ det' = [det EXCEPT ![d] = "done"] /\ UNCHANGED refused
             \/ "stop" \in Faults /\ refused' = refused \cup {d} /\ UNCHANGED det
    /\ UNCHANGED <<pc, only, detset, orders, clients>>

ReRaises == After("except", {}, "raised")

Ended == pc \in {"done", "raised"}

ThreadStep ==
    \/ WaitStep \/ ChecksFirst \/ Prepares \/ Starts
    \/ Visits \/ VisitEnds \/ Fails("loop", "except")
    \/ LooksForRequest \/ Pauses \/ Finishes \/ Resumes \/ LoopsAgain
    \/ Interrupts \/ ReRaises

--------------------------------------------------------------------------------
(***************************************************************************)
(* The detectors, the clients and the watchdog.                            *)
(***************************************************************************)
Completes(d) ==
    /\ det[d] = "counting"
    /\ det' = [det EXCEPT ![d] = "done"]
    /\ UNCHANGED <<pc, only, todo, detset, results, refused, orders, clients>>

InBreak == pc \in {"inbreak", "inbreak_again"}

Command(name) ==
    /\ name \in Commands /\ left > 0
    /\ left' = left - 1

\* break_: the request for a break, then the one for the counting loop.
BreakCommand ==
    /\ Command("break") /\ ~ InBreak
    /\ brk' = "break" /\ writes' = writes + 1
    /\ UNCHANGED <<pc, only, todo, devices, req, cur, pausecount>>

AfterBreak == IF pc = "inbreak" THEN "w_pausecount" ELSE "w_new"

\* A stop now, or after the scan point.  The latter ends a break of the loop
\* as a continue does, and becomes the requested break.
StopCommand(name) ==
    /\ Command(name)
    /\ CASE InBreak /\ name = "stop" -> Raises /\ UNCHANGED <<brk, writes>>
         [] InBreak /\ name # "stop" ->
              Goto(AfterBreak) /\ brk' = name /\ UNCHANGED <<todo, writes>>
         [] OTHER -> /\ brk' = name /\ UNCHANGED <<pc, todo>>
                     /\ writes' = IF name = "stop" THEN writes + 1 ELSE writes
    /\ UNCHANGED <<only, devices, req, cur, pausecount>>

FinishCommand ==
    /\ Command("finish")
    /\ req' = "finish"
    /\ UNCHANGED <<pc, only, todo, devices, cur, pausecount, brk, writes>>

WatchdogPauses ==
    /\ Command("pausecount")
    /\ pausecount' = TRUE /\ writes' = writes + 1
    /\ UNCHANGED <<pc, only, todo, devices, req, cur, brk>>

WritesRequest ==
    /\ writes > 0
    /\ req' = "pause" /\ writes' = writes - 1
    /\ UNCHANGED <<pc, only, todo, devices, cur, pausecount, brk, left>>

WatchdogResumes ==
    /\ pausecount
    /\ pausecount' = FALSE
    /\ UNCHANGED <<pc, only, todo, devices, req, cur, brk, clients>>

ContinueCommand ==
    /\ InBreak
    /\ Goto(AfterBreak)
    /\ UNCHANGED <<only, todo, devices, orders, clients>>

ClientStep ==
    \/ BreakCommand \/ StopCommand("stop") \/ StopCommand("step")
    \/ FinishCommand \/ WatchdogPauses
    \/ WritesRequest \/ WatchdogResumes \/ ContinueCommand

Next == ThreadStep \/ (\E d \in Dets : Completes(d)) \/ ClientStep

Spec == Init /\ [][Next]_vars

--------------------------------------------------------------------------------
(***************************************************************************)
(* Measurable.stop: "Called by count if an exception occurs".  When the    *)
(* count is over, whatever was requested or failed, no detector is left    *)
(* counting or paused, but those whose own stop() failed.                  *)
(***************************************************************************)
NoneLeftCounting ==
    Ended => \A d \in Dets : det[d] \in {"idle", "done"} \/ d \in refused

(***************************************************************************)
(* While the counting loop waits for a continuation, in a break or because *)
(* of the pause count, no detector that can pause is counting.             *)
(***************************************************************************)
PausedCountsNothing ==
    pc \in WaitSteps /\ ~ only => \A d \in CanPause : det[d] # "counting"

(***************************************************************************)
(* A count that succeeds has the final result of every detector, and one   *)
(* that fails after it began has at least an interrupted one of each: no   *)
(* detector's last result is a live one, and none is missing.              *)
(***************************************************************************)
EveryResult ==
    /\ pc = "done" => \A d \in Dets : results[d] = "final"
    /\ pc = "raised" /\ (\E d \in Dets : det[d] # "idle") =>
          \A d \in Dets : results[d] \in {"final", "interrupted"}

================================================================================
