----------------------------- MODULE ScriptControl -----------------------------
(***************************************************************************)
(* The script thread of the NICOS daemon and the command handlers that     *)
(* control it: class ExecutionController of                                *)
(* nicos/services/daemon/script.py, the command methods of handler.py, the *)
(* continue event of pyctl.py, the queue of utils.py (module ScriptQueue). *)
(*                                                                         *)
(* Every access to state that two threads share is a step of its own: the  *)
(* handlers read controller.status and act on it steps later, as the code  *)
(* does.  The trace function is a C extension outside the repository; it   *)
(* is modelled from the docstring of pyctl.Controller: set_break stores an *)
(* argument that the next reached breakpoint hands to _breakfunc with      *)
(* status INBREAK, set_stop makes _breakfunc end in ControlStop with       *)
(* status STOPPING, start_exec runs with status RUNNING and leaves IDLE or *)
(* IDLEEXC behind.  Whether start_exec drops a break request that nobody   *)
(* consumed is not said there: ClearOnStart is the set of both answers.    *)
(***************************************************************************)
EXTENDS ScriptQueue

CONSTANTS Scripts,       \* ScriptRequests clients may submit
          Estops,        \* EmergencyStopRequests that may be created
          Setup,         \* the NicosSetup() request of the thread itself
          NoReq,         \* no request
          NBlocks,       \* number of blocks every script parses into
          Levels,        \* breakpoint levels a script reaches in a block
          Ops,           \* Ops[h]: the commands handler h may be given
          MaxCommands,   \* MaxCommands[h]: how many of them, a bound
          StopLevels,    \* levels given with the break and stop commands
          IdLists,       \* id lists given with the rearrange command
          ScriptSteps,   \* subset of {"pause", "count", "raise", "abort", "badsyntax"}
          ClearOnStart   \* subset of BOOLEAN, see above

Commands == {"start", "queue", "unqueue", "unqueue_all", "break", "continue",
             "stop", "finish", "emergency", "rearrange", "watchdog_stop"}

(***************************************************************************)
(* BREAK_AFTER_LINE, BREAK_AFTER_STEP, BREAK_NOW, BREAK_IMMEDIATE of       *)
(* nicos/protocols/daemon.                                                 *)
(***************************************************************************)
AfterLine == 1
AfterStep == 2
Now == 3
Immediate == 5
AllLevels == {AfterLine, AfterStep, Now, Immediate}

ASSUME ControlAssumption ==
    /\ Requests = Scripts \cup Estops \cup {Setup}
    /\ Setup \notin Scripts \cup Estops
    /\ Scripts \cap Estops = {}
    /\ NoReq \notin Requests
    /\ NBlocks \in Nat
    /\ Levels \subseteq AllLevels
    /\ StopLevels \subseteq AllLevels
    /\ Ops \in [Handlers -> SUBSET Commands]
    /\ MaxCommands \in [Handlers -> Nat]
    /\ IdLists \subseteq Seq(Requests)
    /\ ClearOnStart \in (SUBSET BOOLEAN) \ {{}}

VARIABLES
    \* the controller, shared by all threads
    status,              \* Controller.status
    brk,                 \* argument of a set_break nobody consumed, or NoFlag
    contEvent,           \* Controller.__continue
    contArg,             \* Controller.__continue_arg
    countloop,           \* session.countloop_request
    \* the script thread
    tpc, treq, curblock, bplevel, flag, creq, outcome, tbatch,
    \* the handlers
    hpc, cmd, batch, budget,
    \* what clients and the operator can observe: events sent, requests the
    \* thread took, requests for which the emergency stop functions ran
    events, taken, esf

threadVars == <<tpc, treq, curblock, bplevel, flag, creq, outcome, tbatch>>
ctrlVars == <<status, brk, contEvent, contArg, countloop>>
handlerVars == <<hpc, cmd, batch, budget>>
observed == <<events, taken, esf>>
vars == <<queueVars, ctrlVars, threadVars, handlerVars, observed>>

NoFlag == [mode |-> "none", level |-> 0]
Flags == [mode : {"break", "continue", "stop", "emergency stop"},
          level : AllLevels \cup {0}]
BreakFlag(l) == [mode |-> "break", level |-> l]
StopFlag(l) == [mode |-> "stop", level |-> l]
EstopFlag == [mode |-> "emergency stop", level |-> Immediate]
ContinueFlag == [mode |-> "continue", level |-> 0]
StopModes == {"stop", "emergency stop"}

Idle == {"IDLE", "IDLEEXC"}
EventKinds == {"request", "processing", "done", "blocked"}

Cmds == [op : Commands \cup {"none"}, level : AllLevels \cup {0},
         req : Requests \cup {NoReq}, via : {"none", "break", "cont"},
         ids : IdLists \cup {<< >>}, pos : Nat]
NoCmd == [op |-> "none", level |-> 0, req |-> NoReq, via |-> "none",
          ids |-> << >>, pos |-> 0]

ThreadSteps ==
    {"start", "get", "pop", "estop", "processing", "parse", "execute", "loop",
     "line", "trace", "at_bp", "count", "bf_enter", "bf_setarg", "bf_setevent",
     "bf_wait", "bf_clear", "bf_read", "bf_act", "unwind", "stopped",
     "estop_block", "estop_emit", "estop_run", "finish", "dead"}
Resting == {"start", "get", "pop", "dead"}
HandlerSteps ==
    {"idle", "check_idle", "check_busy", "announce", "put", "delete_one",
     "delete_all", "emit_blocked", "break1", "break2", "set_break",
     "set_countloop", "cont1", "cont2", "set_arg", "set_event", "stop1",
     "stop2", "imm1", "imm2", "imm3", "fin1", "acquire", "match", "move"}

(***************************************************************************)
(* Type correctness of the state: of every variable of the controller, the *)
(* script thread and the command handlers.                                 *)
(***************************************************************************)
CtrlTypeOK ==
    /\ status \in {"IDLE", "IDLEEXC", "RUNNING", "INBREAK", "STOPPING"}
    /\ brk \in Flags \cup {NoFlag}
    /\ contArg \in Flags \cup {NoFlag}
    /\ countloop \in {"none", "pause", "finish"}

ThreadTypeOK ==
    /\ tpc \in ThreadSteps
    /\ treq \in IF tpc \in Resting THEN {NoReq} ELSE Requests
    /\ curblock \in 0..NBlocks
    /\ bplevel \in AllLevels
    /\ flag \in Flags \cup {NoFlag}
    /\ creq \in {"none", "pause", "finish"}
    /\ outcome \in {"none", "success", "exception", "abort", "stop", "emergency stop"}
    /\ tbatch \in SUBSET Requests

HandlerTypeOK ==
    /\ hpc \in [Handlers -> HandlerSteps]
    /\ cmd \in [Handlers -> Cmds]
    /\ batch \in [Handlers -> SUBSET Requests]
    /\ budget \in [Handlers -> Nat]

ObservedTypeOK ==
    /\ events \in [Requests -> SUBSET EventKinds]
    /\ taken \in SUBSET Requests
    /\ esf \in SUBSET Requests

TypeOK ==
    /\ QueueTypeOK
    /\ CtrlTypeOK
    /\ contEvent \in BOOLEAN
    /\ ThreadTypeOK
    /\ HandlerTypeOK
    /\ ObservedTypeOK

Init ==
    /\ QueueInit
    /\ status = "IDLE" /\ brk = NoFlag /\ contEvent = FALSE /\ contArg = NoFlag
    /\ countloop = "none"
    /\ tpc = "start" /\ treq = NoReq /\ curblock = 0 /\ bplevel = AfterLine
    /\ flag = NoFlag /\ creq = "none" /\ outcome = "none" /\ tbatch = {}
    /\ hpc = [h \in Handlers |-> "idle"]
    /\ cmd = [h \in Handlers |-> NoCmd]
    /\ batch = [h \in Handlers |-> {}]
    /\ budget = MaxCommands
    /\ events = [r \in Requests |-> {}]
    /\ taken = {} /\ esf = {}

Emit(kind, reqs) ==
    events' = [r \in Requests |-> IF r \in reqs THEN events[r] \cup {kind} ELSE events[r]]

--------------------------------------------------------------------------------
(***************************************************************************)
(* script_thread_entry                                                     *)
(***************************************************************************)
Goto(step) == tpc' = step

\* The setup request is put without a "request" event (notify=False).
ThreadStart ==
    /\ tpc = "start" /\ Goto("get")
    /\ Put(Setup)
    /\ UNCHANGED <<ctrlVars, treq, curblock, bplevel, flag, creq, outcome, tbatch,
                   handlerVars, observed>>

GetWaits ==
    /\ tpc = "get" /\ Goto("pop")
    /\ Wait
    /\ UNCHANGED <<ctrlVars, treq, curblock, bplevel, flag, creq, outcome, tbatch,
                   handlerVars, observed>>

GetPops ==
    /\ tpc = "pop"
    /\ \E r \in Requests :
          /\ Pop(r)
          /\ treq' = r
          /\ taken' = taken \cup {r}
          /\ Goto(IF r \in Estops THEN "estop" ELSE "processing")
    /\ UNCHANGED <<ctrlVars, curblock, bplevel, flag, creq, outcome, tbatch,
                   handlerVars, events, esf>>

\* IndexError in get(): caught outside the loop, the thread ends for good.
GetRaises ==
    /\ tpc = "pop" /\ Goto("dead")
    /\ PopRaises
    /\ UNCHANGED <<ctrlVars, treq, curblock, bplevel, flag, creq, outcome, tbatch,
                   handlerVars, observed>>

ExecuteEstop ==
    /\ tpc = "estop" /\ Goto("get")
    /\ esf' = esf \cup {treq}
    /\ treq' = NoReq
    /\ UNCHANGED <<queueVars, ctrlVars, curblock, bplevel, flag, creq, outcome, tbatch,
                   handlerVars, events, taken>>

Processing ==
    /\ tpc = "processing" /\ Goto("parse")
    /\ Emit("processing", {treq})
    /\ UNCHANGED <<queueVars, ctrlVars, treq, curblock, bplevel, flag, creq, outcome,
                   tbatch, handlerVars, taken, esf>>

ParseSucceeds ==
    /\ tpc = "parse" /\ Goto("execute")
    /\ curblock' = 0 /\ outcome' = "none"
    /\ UNCHANGED <<queueVars, ctrlVars, treq, bplevel, flag, creq, tbatch,
                   handlerVars, observed>>

ParseFails ==
    /\ "badsyntax" \in ScriptSteps
    /\ tpc = "parse" /\ Goto("get")
    /\ Emit("done", {treq})
    /\ treq' = NoReq
    /\ UNCHANGED <<queueVars, ctrlVars, curblock, bplevel, flag, creq, outcome, tbatch,
                   handlerVars, taken, esf>>

(***************************************************************************)
(* ScriptRequest.execute: one start_exec per block.                        *)
(***************************************************************************)
ExecuteBegins ==
    /\ tpc = "execute" /\ Goto("loop")
    /\ countloop' = "none"
    /\ UNCHANGED <<queueVars, status, brk, contEvent, contArg, treq, curblock, bplevel,
                   flag, creq, outcome, tbatch, handlerVars, observed>>

StartBlock ==
    /\ tpc = "loop" /\ Goto("line")
    /\ curblock < NBlocks
    /\ curblock' = curblock + 1
    /\ status' = "RUNNING"
    /\ \E clear \in ClearOnStart : brk' = IF clear THEN NoFlag ELSE brk
    /\ UNCHANGED <<queueVars, contEvent, contArg, countloop, treq, bplevel, flag, creq,
                   outcome, tbatch, handlerVars, observed>>

ExecuteEnds ==
    /\ tpc = "loop" /\ Goto("finish")
    /\ curblock = NBlocks
    /\ outcome' = "success"
    /\ UNCHANGED <<queueVars, ctrlVars, treq, curblock, bplevel, flag, creq, tbatch,
                   handlerVars, observed>>

(***************************************************************************)
(* What a block does: its first line is a breakpoint of level 1; then it   *)
(* reaches breakpoints of other levels (where only a break request makes a *)
(* difference), calls pause(), counts, and ends or raises.                 *)
(***************************************************************************)
LinePasses ==
    /\ tpc = "line" /\ Goto("trace")
    /\ brk = NoFlag
    /\ UNCHANGED <<queueVars, ctrlVars, treq, curblock, bplevel, flag, creq, outcome,
                   tbatch, handlerVars, observed>>

Breaks(l) ==
    /\ brk # NoFlag
    /\ Goto("bf_enter")
    /\ flag' = brk /\ brk' = NoFlag
    /\ bplevel' = l
    /\ status' = "INBREAK"
    /\ UNCHANGED <<queueVars, contEvent, contArg, countloop, treq, curblock, creq,
                   outcome, tbatch, handlerVars, observed>>

LineBreaks == tpc = "line" /\ Breaks(AfterLine)
BreakpointBreaks == tpc = "trace" /\ \E l \in Levels : Breaks(l)
RequiredBreakpointBreaks == tpc = "at_bp" /\ Breaks(Now)

RequiredBreakpointPasses ==
    /\ tpc = "at_bp" /\ Goto("trace")
    /\ brk = NoFlag
    /\ UNCHANGED <<queueVars, ctrlVars, treq, curblock, bplevel, flag, creq, outcome,
                   tbatch, handlerVars, observed>>

\* DaemonSession.pause: set_break, then breakpoint(3).
ScriptPauses ==
    /\ "pause" \in ScriptSteps
    /\ tpc = "trace" /\ Goto("at_bp")
    /\ brk' = BreakFlag(Now)
    /\ UNCHANGED <<queueVars, status, contEvent, contArg, countloop, treq, curblock,
                   bplevel, flag, creq, outcome, tbatch, handlerVars, observed>>

\* _wait_for_continuation: the request is read, then reset in a second step.
CountReads ==
    /\ "count" \in ScriptSteps
    /\ tpc = "trace" /\ Goto("count")
    /\ countloop # "none"
    /\ creq' = countloop
    /\ UNCHANGED <<queueVars, ctrlVars, treq, curblock, bplevel, flag, outcome, tbatch,
                   handlerVars, observed>>

CountResets ==
    /\ tpc = "count"
    /\ Goto(IF creq = "pause" THEN "at_bp" ELSE "trace")
    /\ countloop' = "none"
    /\ creq' = "none"
    /\ UNCHANGED <<queueVars, status, brk, contEvent, contArg, treq, curblock, bplevel,
                   flag, outcome, tbatch, handlerVars, observed>>

BlockEnds ==
    /\ tpc = "trace" /\ Goto("loop")
    /\ status' = "IDLE"
    /\ UNCHANGED <<queueVars, brk, contEvent, contArg, countloop, treq, curblock, bplevel,
                   flag, creq, outcome, tbatch, handlerVars, observed>>

BlockRaises ==
    /\ tpc = "trace" /\ Goto("finish")
    /\ status' = "IDLEEXC"
    /\ \/ "raise" \in ScriptSteps /\ outcome' = "exception"
       \/ "abort" \in ScriptSteps /\ outcome' = "abort"
    /\ UNCHANGED <<queueVars, brk, contEvent, contArg, countloop, treq, curblock, bplevel,
                   flag, creq, tbatch, handlerVars, observed>>

(***************************************************************************)
(* ExecutionController._breakfunc.  A breakpoint that is not meant by the  *)
(* flag, and every stop, goes through the continue event as well.          *)
(***************************************************************************)
PassesThrough == flag.level < bplevel \/ flag.mode \in StopModes

\* Mutant: the restart through the continue event is forgotten.
BfEnterWaits ==
    /\ tpc = "bf_enter" /\ Goto("bf_wait")
    /\ UNCHANGED <<queueVars, ctrlVars, treq, curblock, bplevel, flag, creq, outcome,
                   tbatch, handlerVars, observed>>

BfEnter ==
    /\ tpc = "bf_enter"
    /\ Goto(IF PassesThrough THEN "bf_setarg" ELSE "bf_wait")
    /\ UNCHANGED <<queueVars, ctrlVars, treq, curblock, bplevel, flag, creq, outcome,
                   tbatch, handlerVars, observed>>

BfSetArg ==
    /\ tpc = "bf_setarg" /\ Goto("bf_setevent")
    /\ contArg' = flag
    /\ UNCHANGED <<queueVars, status, brk, contEvent, countloop, treq, curblock, bplevel,
                   flag, creq, outcome, tbatch, handlerVars, observed>>

BfSetEvent ==
    /\ tpc = "bf_setevent" /\ Goto("bf_wait")
    /\ contEvent' = TRUE
    /\ UNCHANGED <<queueVars, status, brk, contArg, countloop, treq, curblock, bplevel,
                   flag, creq, outcome, tbatch, handlerVars, observed>>

BfWait ==
    /\ tpc = "bf_wait" /\ Goto("bf_clear")
    /\ contEvent
    /\ UNCHANGED <<queueVars, ctrlVars, treq, curblock, bplevel, flag, creq, outcome,
                   tbatch, handlerVars, observed>>

BfClear ==
    /\ tpc = "bf_clear" /\ Goto("bf_read")
    /\ contEvent' = FALSE
    /\ UNCHANGED <<queueVars, status, brk, contArg, countloop, treq, curblock, bplevel,
                   flag, creq, outcome, tbatch, handlerVars, observed>>

BfRead ==
    /\ tpc = "bf_read" /\ Goto("bf_act")
    /\ flag' = contArg
    /\ UNCHANGED <<queueVars, ctrlVars, treq, curblock, bplevel, creq, outcome, tbatch,
                   handlerVars, observed>>

\* Mutant: a break or stop meant for a lower breakpoint is not set again.
BfResumesForgets ==
    /\ tpc = "bf_act" /\ Goto("trace")
    /\ status' = "RUNNING"
    /\ \/ flag.mode \in {"none", "continue"}
       \/ flag.level < bplevel
       \/ flag.mode = "break"
    /\ UNCHANGED <<queueVars, brk, contEvent, contArg, countloop, treq, curblock, bplevel,
                   flag, creq, outcome, tbatch, handlerVars, observed>>

BfResumes ==
    /\ tpc = "bf_act" /\ Goto("trace")
    /\ status' = "RUNNING"
    /\ \/ flag.mode = "continue" /\ UNCHANGED brk
       \/ flag.mode # "continue" /\ flag.level < bplevel /\ brk' = flag
       \/ flag.mode = "break" /\ flag.level >= bplevel /\ UNCHANGED brk
    /\ UNCHANGED <<queueVars, contEvent, contArg, countloop, treq, curblock, bplevel,
                   flag, creq, outcome, tbatch, handlerVars, observed>>

BfStops ==
    /\ tpc = "bf_act" /\ Goto("unwind")
    /\ flag.mode \in StopModes /\ flag.level >= bplevel
    /\ status' = "STOPPING"
    /\ outcome' = flag.mode
    /\ UNCHANGED <<queueVars, brk, contEvent, contArg, countloop, treq, curblock, bplevel,
                   flag, creq, tbatch, handlerVars, observed>>

\* ControlStop has left start_exec.
Unwinds ==
    /\ tpc = "unwind" /\ Goto("stopped")
    /\ status' = "IDLEEXC"
    /\ UNCHANGED <<queueVars, brk, contEvent, contArg, countloop, treq, curblock, bplevel,
                   flag, creq, outcome, tbatch, handlerVars, observed>>

(***************************************************************************)
(* except ControlStop: after an emergency stop the queue is emptied again  *)
(* and the emergency stop functions run before "done" is sent.             *)
(***************************************************************************)
StopCaught ==
    /\ tpc = "stopped"
    /\ Goto(IF outcome = "emergency stop" THEN "estop_block" ELSE "finish")
    /\ UNCHANGED <<queueVars, ctrlVars, treq, curblock, bplevel, flag, creq, outcome,
                   tbatch, handlerVars, observed>>

EstopBlocks ==
    /\ tpc = "estop_block" /\ Goto("estop_emit")
    /\ tbatch' = Queued
    /\ DeleteAll
    /\ UNCHANGED <<ctrlVars, treq, curblock, bplevel, flag, creq, outcome, handlerVars,
                   observed>>

\* Mutant: the stopped script itself is reported as blocked, too.
EstopEmitsAll ==
    /\ tpc = "estop_emit" /\ Goto("estop_run")
    /\ Emit("blocked", tbatch \cup {treq})
    /\ tbatch' = {}
    /\ UNCHANGED <<queueVars, ctrlVars, treq, curblock, bplevel, flag, creq, outcome,
                   handlerVars, taken, esf>>

EstopEmits ==
    /\ tpc = "estop_emit" /\ Goto("estop_run")
    /\ Emit("blocked", tbatch)
    /\ tbatch' = {}
    /\ UNCHANGED <<queueVars, ctrlVars, treq, curblock, bplevel, flag, creq, outcome,
                   handlerVars, taken, esf>>

EstopRuns ==
    /\ tpc = "estop_run" /\ Goto("finish")
    /\ esf' = esf \cup {treq}
    /\ UNCHANGED <<queueVars, ctrlVars, treq, curblock, bplevel, flag, creq, outcome,
                   tbatch, handlerVars, events, taken>>

\* Mutant: current_script is not forgotten when the script is done.
FinishKeepsRequest ==
    /\ tpc = "finish" /\ Goto("get")
    /\ Emit("done", {treq})
    /\ UNCHANGED <<queueVars, ctrlVars, treq, curblock, bplevel, flag, creq, outcome,
                   tbatch, handlerVars, taken, esf>>

Finish ==
    /\ tpc = "finish" /\ Goto("get")
    /\ Emit("done", {treq})
    /\ treq' = NoReq
    /\ UNCHANGED <<queueVars, ctrlVars, curblock, bplevel, flag, creq, outcome, tbatch,
                   handlerVars, taken, esf>>

--------------------------------------------------------------------------------
(***************************************************************************)
(* Command handlers.  Step(h, a, b) moves handler h from step a to step b, *)
(* Reply(h, a) ends the command with step a.                               *)
(***************************************************************************)
Step(h, a, b) ==
    /\ hpc[h] = a
    /\ hpc' = [hpc EXCEPT ![h] = b]
    /\ UNCHANGED budget

Reply(h, a) ==
    /\ Step(h, a, "idle")
    /\ cmd' = [cmd EXCEPT ![h] = NoCmd]

Fresh(r) == "request" \notin events[r] /\ \A h \in Handlers : cmd[h].req # r

FirstStep(op) ==
    CASE op = "start" -> "check_idle"
      [] op = "queue" -> "announce"
      [] op = "unqueue" -> "delete_one"
      [] op = "unqueue_all" -> "delete_all"
      [] op \in {"break", "continue", "stop", "finish"} -> "check_busy"
      [] op = "emergency" -> "imm1"
      [] op = "rearrange" -> "acquire"
      [] op = "watchdog_stop" -> "stop1"

(***************************************************************************)
(* A command arrives with its arguments.  An emergency command carries the *)
(* id its EmergencyStopRequest will have if it creates one.                *)
(***************************************************************************)
Arguments(op) ==
    {c \in [op : {op}, level : StopLevels \cup {0, AfterStep}, req : Requests \cup {NoReq},
            via : {"none"}, ids : IdLists \cup {<< >>}, pos : {0}] :
        /\ CASE op \in {"break", "stop"} -> c.level \in StopLevels
             [] op = "watchdog_stop" -> c.level = AfterStep
             [] OTHER -> c.level = 0
        /\ CASE op \in {"start", "queue"} -> c.req \in Scripts /\ Fresh(c.req)
             [] op = "emergency" -> c.req \in Estops /\ Fresh(c.req)
             [] op = "unqueue" -> c.req \in Scripts /\ "request" \in events[c.req]
             [] OTHER -> c.req = NoReq
        /\ IF op = "rearrange"
           THEN c.ids # << >> /\ \A r \in Range(c.ids) : "request" \in events[r]
           ELSE c.ids = << >>}

Receive(h) ==
    /\ hpc[h] = "idle"
    /\ budget[h] > 0
    /\ \E op \in Ops[h] : \E c \in Arguments(op) :
          /\ cmd' = [cmd EXCEPT ![h] = c]
          /\ hpc' = [hpc EXCEPT ![h] = FirstStep(op)]
    /\ budget' = [budget EXCEPT ![h] = @ - 1]
    /\ UNCHANGED <<queueVars, ctrlVars, threadVars, batch, observed>>

\* The needscript checks of the command decorator.
CheckIdle(h) ==
    /\ IF status \in Idle
       THEN Step(h, "check_idle", "announce") /\ UNCHANGED cmd
       ELSE Reply(h, "check_idle")
    /\ UNCHANGED <<queueVars, ctrlVars, threadVars, batch, observed>>

CheckBusy(h) ==
    /\ IF status \in Idle
       THEN Reply(h, "check_busy")
       ELSE /\ Step(h, "check_busy", CASE cmd[h].op = "break" -> "break1"
                                       [] cmd[h].op = "continue" -> "cont1"
                                       [] cmd[h].op = "stop" -> "stop1"
                                       [] OTHER -> "fin1")
            /\ UNCHANGED cmd
    /\ UNCHANGED <<queueVars, ctrlVars, threadVars, batch, observed>>

\* new_request: first the event, then the queue.
Announce(h) ==
    /\ Step(h, "announce", "put")
    /\ Emit("request", {cmd[h].req})
    /\ UNCHANGED <<queueVars, ctrlVars, threadVars, cmd, batch, taken, esf>>

PutRequest(h) ==
    /\ Reply(h, "put")
    /\ Put(cmd[h].req)
    /\ UNCHANGED <<ctrlVars, threadVars, batch, observed>>

\* block_requests (with one id) and block_all_requests.
UnqueueOne(h) ==
    /\ \/ /\ Step(h, "delete_one", "emit_blocked")
          /\ DeleteOne(cmd[h].req)
          /\ batch' = [batch EXCEPT ![h] = {cmd[h].req}]
          /\ UNCHANGED cmd
       \/ /\ Reply(h, "delete_one")
          /\ DeleteOneRaises(cmd[h].req)
          /\ UNCHANGED batch
    /\ UNCHANGED <<ctrlVars, threadVars, observed>>

\* Mutant: the deleted ids are dropped instead of being reported.
UnqueueAllForgets(h) ==
    /\ Step(h, "delete_all", "emit_blocked")
    /\ DeleteAll
    /\ UNCHANGED <<ctrlVars, threadVars, cmd, batch, observed>>

UnqueueAll(h) ==
    /\ Step(h, "delete_all", "emit_blocked")
    /\ batch' = [batch EXCEPT ![h] = Queued]
    /\ DeleteAll
    /\ UNCHANGED <<ctrlVars, threadVars, cmd, observed>>

EmitBlocked(h) ==
    /\ IF cmd[h].op \in {"unqueue", "unqueue_all"}
       THEN Reply(h, "emit_blocked")
       ELSE /\ Step(h, "emit_blocked", CASE cmd[h].op = "emergency" -> "imm3"
                                         [] cmd[h].via = "break" -> "set_break"
                                         [] OTHER -> "set_arg")
            /\ UNCHANGED cmd
    /\ Emit("blocked", batch[h])
    /\ batch' = [batch EXCEPT ![h] = {}]
    /\ UNCHANGED <<queueVars, ctrlVars, threadVars, taken, esf>>

\* break_ reads the status twice before it acts.
Break1(h) ==
    /\ IF status = "STOPPING"
       THEN Reply(h, "break1")
       ELSE Step(h, "break1", "break2") /\ UNCHANGED cmd
    /\ UNCHANGED <<queueVars, ctrlVars, threadVars, batch, observed>>

Break2(h) ==
    /\ IF status = "INBREAK"
       THEN Reply(h, "break2")
       ELSE Step(h, "break2", "set_break") /\ UNCHANGED cmd
    /\ UNCHANGED <<queueVars, ctrlVars, threadVars, batch, observed>>

FlagOf(c) ==
    CASE c.op = "break" -> BreakFlag(c.level)
      [] c.op \in {"stop", "watchdog_stop"} -> StopFlag(c.level)
      [] c.op = "emergency" -> EstopFlag
      [] OTHER -> ContinueFlag

SetBreak(h) ==
    /\ IF cmd[h].op # "emergency" /\ cmd[h].level >= Now
       THEN Step(h, "set_break", "set_countloop") /\ UNCHANGED cmd
       ELSE Reply(h, "set_break")
    /\ brk' = FlagOf(cmd[h])
    /\ UNCHANGED <<queueVars, status, contEvent, contArg, countloop, threadVars, batch,
                   observed>>

SetCountloop(h) ==
    /\ Reply(h, "set_countloop")
    /\ countloop' = IF cmd[h].op = "finish" THEN "finish" ELSE "pause"
    /\ UNCHANGED <<queueVars, status, brk, contEvent, contArg, threadVars, batch, observed>>

\* continue_ also reads the status twice.
Continue1(h) ==
    /\ IF status = "STOPPING"
       THEN Reply(h, "cont1")
       ELSE Step(h, "cont1", "cont2") /\ UNCHANGED cmd
    /\ UNCHANGED <<queueVars, ctrlVars, threadVars, batch, observed>>

Continue2(h) ==
    /\ IF status = "RUNNING"
       THEN Reply(h, "cont2")
       ELSE Step(h, "cont2", "set_arg") /\ UNCHANGED cmd
    /\ UNCHANGED <<queueVars, ctrlVars, threadVars, batch, observed>>

\* Controller.set_continue: the argument, then the event.
SetArg(h) ==
    /\ Step(h, "set_arg", "set_event")
    /\ contArg' = FlagOf(cmd[h])
    /\ UNCHANGED <<queueVars, status, brk, contEvent, countloop, threadVars, cmd, batch,
                   observed>>

SetEvent(h) ==
    /\ Reply(h, "set_event")
    /\ contEvent' = TRUE
    /\ UNCHANGED <<queueVars, status, brk, contArg, countloop, threadVars, batch, observed>>

\* script_stop
Stop1(h) ==
    /\ IF status = "STOPPING"
       THEN Reply(h, "stop1")
       ELSE Step(h, "stop1", "stop2") /\ UNCHANGED cmd
    /\ UNCHANGED <<queueVars, ctrlVars, threadVars, batch, observed>>

Stop2(h) ==
    /\ Step(h, "stop2", "delete_all")
    /\ cmd' = [cmd EXCEPT ![h].via = IF status = "RUNNING" THEN "break" ELSE "cont"]
    /\ UNCHANGED <<queueVars, ctrlVars, threadVars, batch, observed>>

\* script_immediate_stop
Immediate1(h) ==
    /\ Step(h, "imm1", IF status \in Idle THEN "announce" ELSE "imm2")
    /\ UNCHANGED <<queueVars, ctrlVars, threadVars, cmd, batch, observed>>

Immediate2(h) ==
    /\ IF status = "STOPPING"
       THEN Reply(h, "imm2")
       ELSE Step(h, "imm2", "delete_all") /\ UNCHANGED cmd
    /\ UNCHANGED <<queueVars, ctrlVars, threadVars, batch, observed>>

Immediate3(h) ==
    /\ Step(h, "imm3", IF status = "RUNNING" THEN "set_break" ELSE "set_arg")
    /\ UNCHANGED <<queueVars, ctrlVars, threadVars, cmd, batch, observed>>

Finish1(h) ==
    /\ IF status = "STOPPING"
       THEN Reply(h, "fin1")
       ELSE Step(h, "fin1", "set_countloop") /\ UNCHANGED cmd
    /\ UNCHANGED <<queueVars, ctrlVars, threadVars, batch, observed>>

\* rearrange_queue holds the queue's lock from the check to the last move.
RearrangeAcquires(h) ==
    /\ Step(h, "acquire", "match") /\ UNCHANGED cmd
    /\ Acquire(h)
    /\ UNCHANGED <<ctrlVars, threadVars, batch, observed>>

RearrangeMatches(h) ==
    /\ MatchIds(cmd[h].ids, scripts)
    /\ Step(h, "match", "move") /\ UNCHANGED cmd
    /\ UNCHANGED <<queueVars, ctrlVars, threadVars, batch, observed>>

RearrangeRefuses(h) ==
    /\ ~ MatchIds(cmd[h].ids, scripts)
    /\ Reply(h, "match")
    /\ Release(h)
    /\ UNCHANGED <<ctrlVars, threadVars, batch, observed>>

\* Mutants: every request is moved to the front; the loop does not advance.
RearrangeToFront(h) ==
    /\ Step(h, "move", "move")
    /\ cmd[h].pos < Len(cmd[h].ids)
    /\ Move(h, cmd[h].ids[cmd[h].pos + 1], 0)
    /\ cmd' = [cmd EXCEPT ![h].pos = @ + 1]
    /\ UNCHANGED <<ctrlVars, threadVars, batch, observed>>

RearrangeForever(h) ==
    /\ Step(h, "move", "move") /\ UNCHANGED cmd
    /\ cmd[h].pos < Len(cmd[h].ids)
    /\ Move(h, cmd[h].ids[cmd[h].pos + 1], cmd[h].pos)
    /\ UNCHANGED <<ctrlVars, threadVars, batch, observed>>

RearrangeMoves(h) ==
    /\ Step(h, "move", "move")
    /\ cmd[h].pos < Len(cmd[h].ids)
    /\ Move(h, cmd[h].ids[cmd[h].pos + 1], cmd[h].pos)
    /\ cmd' = [cmd EXCEPT ![h].pos = @ + 1]
    /\ UNCHANGED <<ctrlVars, threadVars, batch, observed>>

RearrangeReleases(h) ==
    /\ cmd[h].pos = Len(cmd[h].ids)
    /\ Reply(h, "move")
    /\ Release(h)
    /\ UNCHANGED <<ctrlVars, threadVars, batch, observed>>

--------------------------------------------------------------------------------
TakeStep == ThreadStart \/ GetWaits \/ GetPops \/ GetRaises \/ ExecuteEstop
            \/ Processing \/ ParseSucceeds \/ ParseFails
BlockStep == ExecuteBegins \/ StartBlock \/ ExecuteEnds \/ LinePasses \/ LineBreaks
             \/ BreakpointBreaks \/ RequiredBreakpointBreaks
             \/ RequiredBreakpointPasses \/ ScriptPauses \/ CountReads
             \/ CountResets \/ BlockEnds \/ BlockRaises
BreakStep == BfEnter \/ BfSetArg \/ BfSetEvent \/ BfWait \/ BfClear \/ BfRead
             \/ BfResumes \/ BfStops
StopStep == Unwinds \/ StopCaught \/ EstopBlocks \/ EstopEmits \/ EstopRuns \/ Finish
ThreadStep == TakeStep \/ BlockStep \/ BreakStep \/ StopStep

SubmitStep(h) == CheckIdle(h) \/ CheckBusy(h) \/ Announce(h) \/ PutRequest(h)
                 \/ UnqueueOne(h) \/ UnqueueAll(h) \/ EmitBlocked(h)
ControlStep(h) == Break1(h) \/ Break2(h) \/ SetBreak(h) \/ SetCountloop(h)
                  \/ Continue1(h) \/ Continue2(h) \/ SetArg(h) \/ SetEvent(h)
                  \/ Stop1(h) \/ Stop2(h) \/ Immediate1(h) \/ Immediate2(h)
                  \/ Immediate3(h) \/ Finish1(h)
RearrangeStep(h) == RearrangeAcquires(h) \/ RearrangeMatches(h)
                    \/ RearrangeRefuses(h) \/ RearrangeMoves(h)
                    \/ RearrangeReleases(h)
HandlerStep(h) == SubmitStep(h) \/ ControlStep(h) \/ RearrangeStep(h)

Next == ThreadStep \/ \E h \in Handlers : Receive(h) \/ HandlerStep(h)

Spec == Init /\ [][Next]_vars

--------------------------------------------------------------------------------
(***************************************************************************)
(* Fairness.  The interpreter schedules every thread; that every block of  *)
(* a script ends is an assumption about the scripts, not about the code.   *)
(***************************************************************************)
Fairness ==
    /\ WF_vars(ThreadStep)
    /\ SF_vars(BlockEnds)
    /\ \A h \in Handlers : WF_vars(HandlerStep(h))

FairSpec == Spec /\ Fairness

(***************************************************************************)
(* Where a request can be between its announcement and its end.            *)
(***************************************************************************)
Announced(r) == "request" \in events[r] \/ (r = Setup /\ tpc # "start")
Submitting(h, r) == hpc[h] = "put" /\ cmd[h].req = r
HeldBy(h, r) == Submitting(h, r) \/ r \in batch[h]
Dropped(r) == "blocked" \in events[r] \/ r \in tbatch \/ \E h \in Handlers : r \in batch[h]

(***************************************************************************)
(* The parts of the inductive invariant behind the properties below.       *)
(***************************************************************************)
SubmitOps == {"start", "queue", "emergency"}
Submits(h) == cmd[h].op \in SubmitOps

\* A handler is at a step of the command it works on.
Fits(h) ==
    /\ hpc[h] = "idle" => cmd[h] = NoCmd
    /\ hpc[h] \in {"check_idle", "announce", "put"} => Submits(h)
    /\ hpc[h] \in {"imm1", "imm2", "imm3"} => cmd[h].op = "emergency"
    /\ Submits(h) => cmd[h].req \in Scripts \cup Estops

CommandFits == \A h \in Handlers : Fits(h)

\* A request is submitted by one handler, and announced just before the put.
SubmittedOnce ==
    /\ \A h, g \in Handlers :
          Submits(h) /\ Submits(g) /\ cmd[h].req = cmd[g].req => h = g
    /\ \A h \in Handlers :
          Submits(h) => (hpc[h] = "put" <=> "request" \in events[cmd[h].req])
    /\ "request" \notin events[Setup]

\* Only announced requests are anywhere.
OnlyAnnounced ==
    \A r \in Requests :
       r \in Queued \cup taken \/ Dropped(r) => Announced(r)

\* Requests are held between deletion and "blocked" only.
BatchesReported ==
    /\ \A h \in Handlers : hpc[h] # "emit_blocked" => batch[h] = {}
    /\ tpc # "estop_emit" => tbatch = {}

(***************************************************************************)
(* A request is at one place at a time: held by one handler that puts or   *)
(* reports it, in the queue, taken by the script thread, about to be       *)
(* reported by it, or blocked.  So nothing runs twice, and what a stop or  *)
(* an unqueue removed never runs, however the steps of put, get,           *)
(* delete_one and delete_all interleave.                                   *)
(***************************************************************************)
AtOnePlace ==
    \A r \in Requests :
       /\ \A h, g \in Handlers : HeldBy(h, r) /\ HeldBy(g, r) => h = g
       /\ (\E h \in Handlers : HeldBy(h, r))
             => r \notin Queued \cup taken \cup tbatch /\ "blocked" \notin events[r]
       /\ r \in Queued => r \notin taken \cup tbatch /\ "blocked" \notin events[r]
       /\ r \in taken => r \notin tbatch /\ "blocked" \notin events[r]
       /\ r \in tbatch => "blocked" \notin events[r]

(***************************************************************************)
(* No request that clients were told about is lost: it is being put or     *)
(* reported, waits, was taken, or clients get (or got) "blocked" for it.   *)
(***************************************************************************)
NothingLost ==
    \A r \in Requests : Announced(r) =>
       \/ \E h \in Handlers : Submitting(h, r)
       \/ r \in Queued \cup taken
       \/ Dropped(r)

(***************************************************************************)
(* Clients see the life of a request in order: "request" first (the setup  *)
(* request has none), "done" only after "processing", "blocked" only for a *)
(* request that is never processed.  new_request sends its event before    *)
(* the put for this reason.                                                *)
(***************************************************************************)
News(r, kind) == kind \in events'[r] /\ kind \notin events[r]

EventsInOrder ==
    [][\A r \in Requests :
          /\ News(r, "processing") => r = Setup \/ "request" \in events[r]
          /\ News(r, "done") => "processing" \in events[r]
          /\ News(r, "blocked") => /\ r = Setup \/ "request" \in events[r]
                                  /\ "processing" \notin events[r]]_vars

(***************************************************************************)
(* When rearrange_queue releases the lock, the requests the client listed  *)
(* stand in the order of its list, also if some were executed meanwhile    *)
(* and although every move_item shifts the positions of the others.        *)
(***************************************************************************)
InOrder(ids, queue) ==
    \A i, j \in 1..Len(ids) : \A k, l \in 1..Len(queue) :
       i < j /\ queue[k] = ids[i] /\ queue[l] = ids[j] => k < l

RearrangedAsAsked ==
    [][\A h \in Handlers :
          hpc[h] = "move" /\ hpc'[h] = "idle" => InOrder(cmd[h].ids, scripts')]_vars

(***************************************************************************)
(* A breakpoint of a level nobody asked for, and a stop, go through the    *)
(* continue event: the script thread never waits there for a user, since   *)
(* only it clears the event.                                               *)
(***************************************************************************)
TransientNeverBlocks ==
    tpc = "bf_wait" /\ PassesThrough => contEvent

(***************************************************************************)
(* A stop is pending while it is requested for the next breakpoint, looked *)
(* at by the break function, or on its way there through the continue      *)
(* event.                                                                  *)
(***************************************************************************)
StopPending ==
    \/ brk.mode \in StopModes
    \/ tpc \in {"bf_enter", "bf_setarg", "bf_act"} /\ flag.mode \in StopModes
    \/ /\ contArg.mode \in StopModes
       /\ \/ contEvent \/ tpc \in {"bf_setevent", "bf_read"}
          \/ \E h \in Handlers : hpc[h] = "set_event"

\* A break, also one that the script itself asks for (pause), and a continue
\* override a stop, and start_exec may drop one between two blocks.
Overridden ==
    \/ brk' # brk /\ brk'.mode = "break"
    \/ contArg' # contArg /\ contArg'.mode \in {"break", "continue"}
    \/ tpc = "loop" /\ tpc' = "line" /\ brk' # brk

(***************************************************************************)
(* A pending stop stays pending until the script ends: neither the script  *)
(* thread, which passes it on from breakpoint to breakpoint through an     *)
(* event that the handlers write as well, nor a command loses it.  Only    *)
(* what may override a stop does.                                          *)
(***************************************************************************)
StopNotForgotten ==
    [][StopPending => StopPending' \/ outcome' # "none" \/ Overridden]_vars

(***************************************************************************)
(* The requests implement the abstract life cycle.                         *)
(***************************************************************************)
BeingPut == {r \in Requests : \E h \in Handlers : Submitting(h, r)}
            \cup (IF tpc = "start" THEN {Setup} ELSE {})

Lifecycle == INSTANCE RequestLifecycle
    WITH Initially <- {Setup},
         pending <- BeingPut,
         queue <- scripts,
         running <- treq,
         dropped <- {r \in Requests : Dropped(r)},
         completed <- taken \ {treq}

RefinesLifecycle == Lifecycle!LSpec

(***************************************************************************)
(* A waiting request leaves the queue, unless the script thread died or    *)
(* waits in a break for somebody to continue the script.                   *)
(***************************************************************************)
QueueDrains ==
    \A r \in Requests \ {Setup} : []<>(r \notin Queued \/ tpc \in {"dead", "bf_wait"})

(***************************************************************************)
(* Every command gets its reply: no handler waits forever for the lock of  *)
(* the queue that rearrange_queue holds over several moves.                *)
(***************************************************************************)
CommandsEnd ==
    \A h \in Handlers : []<>(hpc[h] = "idle")

(***************************************************************************)
(* script.py: "do not exit script thread even if we can't handle this      *)
(* exception": nothing but the end of the daemon ends the script thread.   *)
(***************************************************************************)
ThreadSurvives == tpc # "dead"

(***************************************************************************)
(* States in which nothing is left to do: only a new command (or nothing,  *)
(* if the thread died) can change something.                               *)
(***************************************************************************)
Quiescent ==
    /\ \A h \in Handlers : hpc[h] = "idle" /\ budget[h] = 0
    /\ \/ tpc = "get" /\ ~ qevent
       \/ tpc = "bf_wait" /\ ~ contEvent
       \/ tpc = "dead"

================================================================================
