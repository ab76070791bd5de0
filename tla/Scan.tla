--------------------------------- MODULE Scan ---------------------------------
(***************************************************************************)
(* The scans and counts of a script, and the stack of datasets: Scan.run   *)
(* of nicos/core/scan.py and inner_count of nicos/commands/measure.py call *)
(* the counting loop of module CountLoop and the DataManager of            *)
(* nicos/core/data/manager.py, while clients send breaks and stops.        *)
(*                                                                         *)
(* The variable pc of CountLoop goes through all of it.  Blocks and        *)
(* subscans, which are stacked in the same way, temporary points and       *)
(* count()'s own scan (forcescandata) are left out.  A detector that       *)
(* refused to stop is waited for before it is started again.               *)
(***************************************************************************)
EXTENDS CountLoop, Sequences

CONSTANTS NPoints,     \* points of a scan
          MaxCalls,    \* calls of scan() and count(), a bound
          Sweep,       \* the scans are sweeps (SweepScan)
          DataFaults   \* where a sink or a move may raise, a subset of
                       \* {"create", "begin", "values", "end", "move"}

ASSUME ScanAssumption == NPoints \in Nat \ {0} /\ MaxCalls \in Nat /\ Sweep \in BOOLEAN

VARIABLES call,        \* the call that goes on, or the last one: a scan or a count
          calls,       \* calls so far
          point,       \* index of the scan point
          exc,         \* the exception that is propagated
          stopping,    \* a stop was raised in this script: STATUS_STOPPING
          stack,       \* DataManager._stack: who began the dataset, and its kind
          broken,      \* datasets were left open by an error
          late         \* points begun since the stop that is pending was requested

scan == <<call, calls, point>>
data == <<stack, broken>>
outer == <<scan, exc, stopping, data>>
allVars == <<vars, outer, late>>
inner == <<only, todo, devices, cur>>

Stops == {"stop", "step"}
Errors == {"handled", "fatal"}
AtBreak == {"skip_break", "step_break", "end_break"}
ScanSteps == {"between", "to_start", "begin", "begin_skip", "move", "move_skip", "open",
              "environment", "skipped", "measured", "arrived", "advance", "end", "ended"}

ScanTypeOK ==
    /\ pc \in LoopSteps \cup WaitSteps \cup ScanSteps \cup AtBreak
    /\ CountTypeOK
    /\ call \in {"scan", "count"} /\ calls \in 0..MaxCalls /\ point \in 0..NPoints
    /\ exc \in {"none", "stop", "StopScan"} \cup Errors
    /\ {stopping, broken} \subseteq BOOLEAN
    /\ stack \in Seq([kind : {"scan", "point"}, call : 1..MaxCalls])

ScanInit ==
    /\ pc = "between" /\ Resting /\ call = "count" /\ calls = 0 /\ point = 0
    /\ exc = "none" /\ stopping = FALSE
    /\ stack = <<>> /\ broken = FALSE /\ late = 0

--------------------------------------------------------------------------------
(***************************************************************************)
(* DataManager.                                                            *)
(***************************************************************************)
\* Mutant: leftover datasets stay.
CleanNothing(upto) == stack

\* What _clean(upto) leaves.
Clean(upto) ==
    LET kept == {i \in DOMAIN stack : stack[i].kind \in upto}
    IN  SubSeq(stack, 1, CHOOSE n \in kept \cup {0} : \A i \in kept : i <= n)

Pushed(kind, upto) == Append(Clean(upto), [kind |-> kind, call |-> calls])

\* _init, after _clean(upto).
Begins(kind, upto) ==
    /\ stack' = Pushed(kind, upto)
    /\ broken' = (broken /\ Clean(upto) # <<>>)

\* A handler that cannot be created leaves the dataset off the stack, one that
\* raises in prepare or begin leaves it on.
BeginFails(kind, upto) ==
    \/ /\ "create" \in DataFaults
       /\ stack' = Clean(upto)
       /\ broken' = (broken /\ Clean(upto) # <<>>)
    \/ /\ "begin" \in DataFaults
       /\ stack' = Pushed(kind, upto) /\ broken' = TRUE

Top(kind) == stack # <<>> /\ stack[Len(stack)].kind = kind

\* finishPoint and finishScan; end and addSubset may raise after the pop.
Finish(kind) ==
    /\ stack' = IF Top(kind) THEN SubSeq(stack, 1, Len(stack) - 1) ELSE stack
    /\ broken' = (broken /\ stack' # <<>>)

EndFails(kind) == Top(kind) /\ "end" \in DataFaults

--------------------------------------------------------------------------------
(***************************************************************************)
(* The script: calls, one after the other.                                 *)
(***************************************************************************)
Calls(kind, first) ==
    /\ pc = "between" /\ calls < MaxCalls /\ exc # "stop"
    /\ call' = kind /\ Goto(first)
    /\ calls' = calls + 1 /\ exc' = "none"
    /\ UNCHANGED <<inner, req, pausecount, brk, clients, point, stopping, data>>

BeginsCall == Calls("scan", "to_start")
BeginsCount == Calls("count", "open")

\* The script ends, after an exception or without one, and the next one begins:
\* it forgets the request of the counting loop, and perhaps the break.
BeginsScript ==
    /\ pc = "between" /\ calls < MaxCalls
    /\ exc' = "none" /\ stopping' = FALSE
    /\ req' = "none" /\ brk' \in {brk, "none"}
    /\ UNCHANGED <<pc, inner, pausecount, clients, scan, data>>

\* A line between two calls is a breakpoint; somebody continues a break.
ReachesLine ==
    /\ pc = "between" /\ brk # "none"
    /\ brk' = "none"
    /\ IF brk \in Stops THEN exc' = "stop" /\ stopping' = TRUE
                        ELSE UNCHANGED <<exc, stopping>>
    /\ UNCHANGED <<pc, inner, req, pausecount, clients, scan, data>>

--------------------------------------------------------------------------------
(***************************************************************************)
(* Scan._inner_run, and inner_count with the steps of a single point.      *)
(***************************************************************************)
Over == Goto("between")

\* prepareScan may skip the first point, or end the scan without an error.
PreparesScan ==
    /\ pc = "to_start"
    /\ \/ Goto("begin") /\ point' = 1 /\ UNCHANGED exc
       \/ "move" \in DataFaults /\ Goto("begin_skip") /\ point' = 1 /\ UNCHANGED exc
       \/ "move" \in DataFaults /\ Over /\ exc' \in {exc, "fatal"} /\ UNCHANGED point
    /\ UNCHANGED <<inner, req, pausecount, brk, clients, call, calls, stopping, data>>

BeginsScan ==
    /\ pc \in {"begin", "begin_skip"}
    /\ \/ Begins("scan", {}) /\ UNCHANGED <<point, exc>>
          /\ Goto(IF pc = "begin" THEN "move" ELSE "move_skip")
       \/ BeginFails("scan", {}) /\ Over /\ exc' = "fatal" /\ point' = 0
    /\ UNCHANGED <<inner, req, pausecount, brk, clients, call, calls, stopping>>

\* preparePoint and moveDevices: the point is skipped, or they raise.  The
\* preparePoint of a sweep, which starts the devices, is called also for a
\* first point that is to be skipped, and may raise StopScan.
Moves ==
    /\ pc \in {"move", "move_skip"}
    /\ \/ Goto(IF pc = "move" THEN "open" ELSE "advance") /\ UNCHANGED exc
       \/ /\ "move" \in DataFaults /\ Goto("skipped")
          /\ \/ pc = "move" /\ exc' \in {exc, "fatal"}
             \/ Sweep /\ point = 1 /\ exc' \in {"fatal", "StopScan"}
    /\ UNCHANGED <<inner, req, pausecount, brk, clients, scan, stopping, data>>

\* handleError, in a scan: some errors end the point only.
PointOver(e) ==
    IF call = "scan"
    THEN Goto("measured") /\ exc' = (IF e = "handled" THEN "none" ELSE e)
    ELSE Over /\ exc' = e

\* A point is begun on a scan that is still on the stack, whoever began it.
BeginsPoint ==
    /\ pc = "open"
    /\ \/ Begins("point", {"scan"}) /\ Goto("environment") /\ UNCHANGED exc
       \/ BeginFails("point", {"scan"}) /\ \E e \in Errors : PointOver(e)
    /\ UNCHANGED <<inner, req, pausecount, brk, clients, scan, stopping>>

\* putValues and read_environment; then acquire.
ReadsEnvironment ==
    /\ pc = "environment"
    /\ \/ Goto("first") /\ UNCHANGED <<exc, data>>
       \/ /\ "values" \in DataFaults /\ \E e \in Errors : PointOver(e)
          /\ broken' = TRUE /\ UNCHANGED stack
    /\ UNCHANGED <<inner, req, pausecount, brk, clients, scan, stopping>>

\* Mutant: the point is finished only if the count succeeded.
FinishesGoodPoint ==
    /\ Ended
    /\ IF pc = "done" THEN Finish("point") ELSE UNCHANGED data
    /\ PointOver(exc)
    /\ only' = TRUE /\ todo' = {} /\ cur' = "none"
    /\ det' = [d \in Dets |-> "idle"] /\ detset' = Dets
    /\ results' = [d \in Dets |-> "none"] /\ refused' = {}
    /\ UNCHANGED <<req, pausecount, brk, clients, scan, stopping>>

\* The finally clause around acquire.  An error in it replaces the exception,
\* also that of a stop.
FinishesPoint ==
    /\ Ended
    /\ Finish("point")
    /\ \/ PointOver(exc)
       \/ EndFails("point") /\ \E e \in Errors : PointOver(e)
    /\ only' = TRUE /\ todo' = {} /\ cur' = "none"
    /\ det' = [d \in Dets |-> "idle"] /\ detset' = Dets
    /\ results' = [d \in Dets |-> "none"] /\ refused' = {}
    /\ UNCHANGED <<req, pausecount, brk, clients, scan, stopping>>

\* session.breakpoint(2) or (1) at p.
Reaches(p, b, stopped, next) ==
    /\ pc = p
    /\ CASE brk \in Stops -> Goto(stopped) /\ exc' = "stop" /\ stopping' = TRUE
         [] brk = "break" -> Goto(b) /\ UNCHANGED <<exc, stopping>>
         [] brk = "none" -> Goto(next) /\ UNCHANGED <<exc, stopping>>
    /\ brk' = "none"
    /\ UNCHANGED <<inner, req, pausecount, clients, scan, data>>

\* Mutant: a finishPoint that has no breakpoint.
JustAdvances ==
    /\ pc = "measured" /\ Goto("advance")
    /\ UNCHANGED <<inner, req, pausecount, brk, clients, scan, exc, stopping, data>>

AfterPoint == IF Sweep THEN "arrived" ELSE "advance"

SkipsPoint == Reaches("skipped", "skip_break", "end", "advance")
FinishesMeasurement == Reaches("measured", "step_break", "end", AfterPoint)
LeavesScan == Reaches("ended", "end_break", "between", "between")

\* SweepScan.finishPoint: StopScan, if the devices have arrived, replaces any
\* other exception, and _inner_run catches it.
SweepGoesOn ==
    /\ pc = "arrived"
    /\ \/ Goto("advance") /\ UNCHANGED exc
       \/ Goto("end") /\ exc' = "none"
    /\ UNCHANGED <<inner, req, pausecount, brk, clients, scan, stopping, data>>

\* Mutant: one point too many.
AdvancesTooFar ==
    /\ pc = "advance"
    /\ IF exc = "none" /\ point <= NPoints THEN Goto("move") /\ point' = point + 1
                                          ELSE Goto("end") /\ UNCHANGED point
    /\ exc' = IF exc = "StopScan" THEN "none" ELSE exc
    /\ UNCHANGED <<inner, req, pausecount, brk, clients, call, calls, stopping, data>>

Advances ==
    /\ pc = "advance"
    /\ IF exc = "none" /\ point < NPoints THEN Goto("move") /\ point' = point + 1
                                         ELSE Goto("end") /\ UNCHANGED point
    /\ exc' = IF exc = "StopScan" THEN "none" ELSE exc
    /\ UNCHANGED <<inner, req, pausecount, brk, clients, call, calls, stopping, data>>

\* endScan.
FinishesScan ==
    /\ pc = "end"
    /\ Finish("scan") /\ point' = 0
    /\ \/ Goto("ended") /\ UNCHANGED exc
       \/ EndFails("scan") /\ Over /\ exc' = "fatal"
    /\ UNCHANGED <<inner, req, pausecount, brk, clients, call, calls, stopping>>

ScanStep ==
    \/ PreparesScan \/ BeginsScan \/ Moves \/ BeginsPoint \/ ReadsEnvironment
    \/ FinishesPoint \/ SkipsPoint \/ FinishesMeasurement \/ SweepGoesOn
    \/ Advances \/ FinishesScan \/ LeavesScan

--------------------------------------------------------------------------------
(***************************************************************************)
(* Continuing and stopping in a break of the scan.                         *)
(***************************************************************************)
ContinueInScan ==
    /\ pc \in AtBreak
    /\ Goto(CASE pc = "skip_break" -> "advance"
              [] pc = "step_break" -> AfterPoint
              [] pc = "end_break" -> "between")
    /\ UNCHANGED <<inner, orders, clients, outer>>

StopInScan ==
    /\ pc \in AtBreak
    /\ \E name \in Stops : Command(name)
    /\ Goto(IF pc = "end_break" THEN "between" ELSE "end")
    /\ exc' = "stop" /\ stopping' = TRUE
    /\ UNCHANGED <<inner, orders, writes, scan, data>>

\* The steps of CountLoop.  A stop is raised where the loop waits, anything
\* else that is raised is an error.
CountFrame ==
    /\ exc' \in (IF pc' \notin {"except", "raised"} \/ pc = "except" \/ pc' = pc THEN {exc}
                 ELSE IF pc \in WaitSteps THEN {"stop"} ELSE Errors)
    /\ stopping' = (stopping \/ exc' = "stop")
    /\ UNCHANGED <<scan, data>>

CommandsInScan ==
    /\ ~ stopping
    /\ \/ pc \notin AtBreak /\ (BreakCommand \/ StopCommand("stop") \/ StopCommand("step"))
       \/ FinishCommand

CountStep ==
    /\ \/ ThreadStep \/ \E d \in Dets : Completes(d)
       \/ CommandsInScan \/ WatchdogPauses
       \/ WritesRequest \/ WatchdogResumes \/ ContinueCommand
    /\ CountFrame

History ==
    late' = IF brk' \notin Stops \/ pc' = "between" THEN 0
            ELSE IF pc = "open" /\ pc' = "environment" THEN late + 1 ELSE late

ScanNext ==
    /\ \/ CountStep \/ ScanStep \/ ContinueInScan \/ StopInScan
       \/ BeginsCall \/ BeginsCount \/ BeginsScript \/ ReachesLine
    /\ History

ScanSpec == ScanInit /\ [][ScanNext]_allVars

(***************************************************************************)
(* The script thread goes on with a call, a detector that counts           *)
(* completes, somebody continues a break, and the reason for a pause goes  *)
(* away.                                                                   *)
(***************************************************************************)
ScanFairness ==
    /\ WF_allVars(((ThreadStep /\ CountFrame) \/ ScanStep) /\ History)
    /\ WF_allVars(WritesRequest /\ CountFrame /\ History)
    /\ WF_allVars(((ContinueCommand /\ CountFrame) \/ ContinueInScan) /\ History)
    /\ WF_allVars(WatchdogResumes /\ CountFrame /\ History)
    /\ \A d \in Dets : WF_allVars(Completes(d) /\ CountFrame /\ History)

ScanFairSpec == ScanSpec /\ ScanFairness

--------------------------------------------------------------------------------
(***************************************************************************)
(* DataSinkHandler.end is called "even if an error occurred during data    *)
(* collection".  However a call ends - the counting fails or is stopped,   *)
(* points are skipped, a sink raises when a dataset ends - it leaves no    *)
(* dataset open, unless one could not be begun or given its first values.  *)
(***************************************************************************)
NothingLeftOpen == pc = "between" /\ stack # <<>> => broken

(***************************************************************************)
(* A point is stored in the scan of its own call: no dataset of an earlier *)
(* call is on the stack, except after such an error, and then only until   *)
(* the next scan begins.  The stack is never deeper than a scan's point.   *)
(***************************************************************************)
OwnParent ==
    /\ Len(stack) <= 2
    /\ ~ broken => \A i \in DOMAIN stack :
                      /\ stack[i].call = calls
                      /\ stack[i].kind = "scan" <=> (call = "scan" /\ i = 1)

(***************************************************************************)
(* BREAK_AFTER_STEP: "stop after scan point".  Once a stop is requested    *)
(* and not taken back by a later request, the scan begins at most one more *)
(* point, whether points are skipped, fail or are paused meanwhile.        *)
(***************************************************************************)
StopsSoon == late <= 1

(***************************************************************************)
(* Every call of the script ends: every pause and every break is followed  *)
(* by the resume of all detectors, so that they can complete.              *)
(***************************************************************************)
CallsEnd == []<>(pc = "between")

(***************************************************************************)
(* stop: "Abort the paused script".  When a call was stopped, the          *)
(* exception that ends the script leaves it.                               *)
(***************************************************************************)
StopEndsScript == pc = "between" /\ stopping => exc = "stop"
===============================================================================
