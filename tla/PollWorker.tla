------------------------------- MODULE PollWorker -------------------------------
(***************************************************************************)
(* One polling process of nicos/services/poller/__init__.py: the main      *)
(* thread creates a worker for the device and waits; the worker polls the  *)
(* device and takes events from its queue; callbacks of the cache client   *)
(* put events; a signal, or the thread that watches the setup file, calls  *)
(* quit.  The workers of a process share only _stoprequest and the lock    *)
(* under which devices are created, so there is one here.                  *)
(*                                                                         *)
(* Time is the class of the time since the last poll: 0 below              *)
(* POLL_MIN_WAIT, 2 once POLL_BUSY_INTERVAL has passed, 3 once the         *)
(* device's own interval has passed.  The status a poll returns is the     *)
(* device's; how old a cached one may be is left out.                      *)
(***************************************************************************)
EXTENDS Naturals, Sequences

CONSTANTS Intervals,     \* values of the parameter pollinterval
          NoInterval,    \* its value None: the device is not polled
          TimesOutAt,    \* when a value times out, by the parameter maxage
          Volatile,      \* the device has a volatile parameter
          Happens,       \* the events, but "param", that callbacks put
          MaxQueue       \* events in the queue, a bound

ASSUME WorkerAssumption ==
    /\ NoInterval \in Intervals /\ Volatile \in BOOLEAN /\ MaxQueue \in Nat
    /\ TimesOutAt \in 0..3
    /\ Happens \subseteq {"adev_busy", "adev_normal", "adev_target", "adev_value",
                          "dev_busy", "dev_normal", "dev_target", "pollparam"}

VARIABLES pc,            \* the worker
          interval,      \* its local variable
          queue,         \* work_queue
          dev,           \* the device was created
          registered,    \* the callbacks were added
          age,           \* time since the last poll
          pollinterval,  \* parameter of the device
          busy,          \* status of the device
          stoprequest,   \* _stoprequest
          main,          \* the main thread
          signalled,     \* quit, run by a signal in the main thread
          checker,       \* the thread that watches the setup file
          cache,         \* the thread of the cache client
          calm,          \* nothing happens to the device any more
          late           \* history: polls begun after the request to stop, up to two

vars == <<pc, interval, queue, dev, registered, age, pollinterval, busy,
          stoprequest, main, signalled, checker, cache, calm, late>>
device == <<pollinterval, busy, calm>>
others == <<stoprequest, main, signalled, checker, cache>>

Events == Happens \cup {"param", "pollparam", "quit"}
Fastening == {"adev_busy", "adev_target", "dev_busy", "dev_target"}
Skipping == {"adev_target", "dev_busy", "dev_normal", "dev_target", "param"}

LoopSteps == {"loop", "get", "limit", "poll", "adjust"}
WorkerSteps == {"none", "outer", "create", "register", "init", "errwait", "ended"} \cup LoopSteps

(***************************************************************************)
(* Type correctness.  A device is polled when it exists and its callbacks  *)
(* are registered.                                                         *)
(***************************************************************************)
TypeOK ==
    /\ pc \in WorkerSteps
    /\ interval \in Intervals \cup {"fast"}
    /\ queue \in Seq(Events)
    /\ {dev, registered, busy, stoprequest, calm} \subseteq BOOLEAN
    /\ age \in 0..3 /\ late \in 0..2
    /\ pollinterval \in Intervals
    /\ main \in {"create", "list", "callback", "wait", "join", "ended"}
    /\ signalled \in {"no", "set", "put", "join", "done"}
    /\ checker \in {"none", "watch", "set", "put", "join", "ended"}
    /\ cache \in {"idle", "param"}
    /\ registered => dev
    /\ pc \in LoopSteps => registered

Init ==
    /\ pc = "none" /\ interval \in Intervals /\ queue = <<>>
    /\ dev = FALSE /\ registered = FALSE
    /\ age = 3 /\ pollinterval = interval /\ busy = FALSE
    /\ stoprequest = FALSE /\ main = "create" /\ signalled = "no" /\ checker = "none"
    /\ cache = "idle" /\ calm = FALSE /\ late = 0

--------------------------------------------------------------------------------
(***************************************************************************)
(* _worker_thread, and poll_loop in it.                                    *)
(***************************************************************************)
Outer ==
    /\ pc = "outer"
    /\ pc' = CASE stoprequest -> "ended"
               [] ~ stoprequest /\ ~ dev -> "create"
               [] ~ stoprequest /\ dev /\ ~ registered -> "register"
               [] OTHER -> "init"
    /\ UNCHANGED <<interval, queue, dev, registered, age, device, others, late>>

\* It may raise.
Creates ==
    /\ pc = "create"
    /\ \/ dev' = TRUE /\ pc' = "register"
          /\ queue' = IF Volatile THEN Append(queue, "pollparam") ELSE queue
       \/ ~ calm /\ pc' = "errwait" /\ UNCHANGED <<dev, queue>>
    /\ UNCHANGED <<interval, registered, age, device, others, late>>

Registers ==
    /\ pc = "register"
    /\ registered' = TRUE
    /\ pc' = "init"
    /\ UNCHANGED <<interval, queue, dev, age, device, others, late>>

\* Mutant: the interval is the one of the last loop.
BeginsLoopAsBefore ==
    /\ pc = "init"
    /\ age' = 3
    /\ pc' = "loop"
    /\ UNCHANGED <<interval, queue, dev, registered, device, others, late>>

BeginsLoop ==
    /\ pc = "init"
    /\ interval' = pollinterval
    /\ age' = 3
    /\ pc' = "loop"
    /\ UNCHANGED <<queue, dev, registered, device, others, late>>

Due == age >= TimesOutAt \/ age >= IF interval = "fast" THEN 2 ELSE 3

\* Mutants: events are always taken first; a request to stop is not looked at.
LoopsToEvents ==
    /\ pc = "loop"
    /\ pc' = IF stoprequest THEN "outer" ELSE "get"
    /\ UNCHANGED <<interval, queue, dev, registered, age, device, others, late>>

LoopsOn ==
    /\ pc = "loop"
    /\ pc' = IF Due THEN "limit" ELSE "get"
    /\ UNCHANGED <<interval, queue, dev, registered, age, device, others, late>>

Loops ==
    /\ pc = "loop"
    /\ pc' = CASE stoprequest -> "outer"
               [] ~ stoprequest /\ Due -> "limit"
               [] OTHER -> "get"
    /\ UNCHANGED <<interval, queue, dev, registered, age, device, others, late>>

Gets ==
    /\ pc = "get" /\ queue # <<>>
    /\ LET event == Head(queue) IN
          /\ interval' = CASE event \in Fastening -> "fast"
                           [] event = "param" -> pollinterval
                           [] OTHER -> interval
          /\ pc' = CASE event = "quit" -> "outer"
                     [] event \in Skipping -> "loop"
                     [] OTHER -> "limit"
    /\ queue' = Tail(queue)
    /\ UNCHANGED <<dev, registered, age, device, others, late>>

TimesOut ==
    /\ pc = "get" /\ queue = <<>> /\ Due
    /\ pc' = "limit"
    /\ UNCHANGED <<interval, queue, dev, registered, age, device, others, late>>

Limits ==
    /\ pc = "limit"
    /\ pc' = IF age = 0 THEN "loop" ELSE "poll"
    /\ UNCHANGED <<interval, queue, dev, registered, age, device, others, late>>

\* A device that is not polled counts as polled; dev.poll may raise.
Polls ==
    /\ pc = "poll"
    /\ \/ (pollinterval = NoInterval \/ busy) /\ pc' = "loop" /\ age' = 0
       \/ pollinterval # NoInterval /\ ~ busy /\ pc' = "adjust" /\ UNCHANGED age
       \/ pollinterval # NoInterval /\ ~ calm /\ pc' = "errwait" /\ UNCHANGED age
    /\ late' = IF stoprequest /\ pollinterval # NoInterval /\ late < 2 THEN late + 1 ELSE late
    /\ UNCHANGED <<interval, queue, dev, registered, device, others>>

\* If pollinterval is None by now, computing maxage raises TypeError.
Adjusts ==
    /\ pc = "adjust"
    /\ interval' = pollinterval
    /\ IF pollinterval = NoInterval
       THEN pc' = "errwait" /\ UNCHANGED age
       ELSE pc' = "loop" /\ age' = 0
    /\ UNCHANGED <<queue, dev, registered, device, others, late>>

\* An event, whichever it is, or the timeout ends the wait.
ErrorWaits ==
    /\ pc = "errwait"
    /\ queue' = IF queue = <<>> THEN queue ELSE Tail(queue)
    /\ pc' = "outer"
    /\ UNCHANGED <<interval, dev, registered, age, device, others, late>>

WorkerStep ==
    \/ Outer \/ Creates \/ Registers \/ BeginsLoop \/ Loops \/ Gets \/ TimesOut
    \/ Limits \/ Polls \/ Adjusts \/ ErrorWaits

--------------------------------------------------------------------------------
(***************************************************************************)
(* start, wait and quit.                                                   *)
(***************************************************************************)
worker == <<interval, dev, registered, age, late>>

\* The main thread goes on unless it runs the signal handler.
Main(p, next) == main = p /\ signalled \in {"no", "done"} /\ main' = next

CreatesWorker ==
    /\ Main("create", "list")
    /\ pc' = "outer"
    /\ UNCHANGED <<queue, worker, device, stoprequest, signalled, checker, cache>>

ListsWorker ==
    /\ Main("list", "callback")
    /\ UNCHANGED <<pc, queue, worker, device, stoprequest, signalled, checker, cache>>

StartsChecker ==
    /\ Main("callback", "wait")
    /\ checker' = "watch"
    /\ UNCHANGED <<pc, queue, worker, device, stoprequest, signalled, cache>>

Waits ==
    /\ Main("wait", "join") /\ stoprequest
    /\ UNCHANGED <<pc, queue, worker, device, stoprequest, signalled, checker, cache>>

Joins ==
    /\ Main("join", "ended") /\ pc = "ended"
    /\ UNCHANGED <<pc, queue, worker, device, stoprequest, signalled, checker, cache>>

\* quit by a signal; it knows the worker only if it was listed.
Signal ==
    /\ signalled = "no" /\ main # "ended"
    /\ signalled' = IF stoprequest THEN "done" ELSE "set"
    /\ UNCHANGED <<pc, queue, worker, device, stoprequest, main, checker, cache>>

SignalSets ==
    /\ signalled = "set"
    /\ stoprequest' = TRUE /\ signalled' = "put"
    /\ UNCHANGED <<pc, queue, worker, device, main, checker, cache>>

Listed == main \notin {"create", "list"}

SignalPuts ==
    /\ signalled = "put"
    /\ queue' = IF Listed THEN Append(queue, "quit") ELSE queue
    /\ signalled' = "join"
    /\ UNCHANGED <<pc, worker, device, stoprequest, main, checker, cache>>

SignalJoins ==
    /\ signalled = "join" /\ (Listed => pc = "ended")
    /\ signalled' = "done"
    /\ UNCHANGED <<pc, queue, worker, device, stoprequest, main, checker, cache>>

\* quit by the thread that watches the setup file.
SetupChanged ==
    /\ checker = "watch"
    /\ checker' = IF stoprequest THEN "ended" ELSE "set"
    /\ UNCHANGED <<pc, queue, worker, device, stoprequest, main, signalled, cache>>

CheckerSets ==
    /\ checker = "set"
    /\ stoprequest' = TRUE /\ checker' = "put"
    /\ UNCHANGED <<pc, queue, worker, device, main, signalled, cache>>

CheckerPuts ==
    /\ checker = "put"
    /\ queue' = Append(queue, "quit")
    /\ checker' = "join"
    /\ UNCHANGED <<pc, worker, device, stoprequest, main, signalled, cache>>

CheckerJoins ==
    /\ checker = "join" /\ pc = "ended"
    /\ checker' = "ended"
    /\ UNCHANGED <<pc, queue, worker, device, stoprequest, main, signalled, cache>>

MainStep == CreatesWorker \/ ListsWorker \/ StartsChecker \/ Waits \/ Joins
            \/ SignalSets \/ SignalPuts \/ SignalJoins
CheckerStep == CheckerSets \/ CheckerPuts \/ CheckerJoins

--------------------------------------------------------------------------------
(***************************************************************************)
(* The cache client's thread, the device and the time.                     *)
(***************************************************************************)
threads == <<pc, interval, dev, registered, stoprequest, main, signalled, checker, late>>

\* reconfigure_... and enqueue_params_poll.
Callback ==
    /\ cache = "idle" /\ registered /\ ~ calm /\ Len(queue) < MaxQueue
    /\ \E event \in Happens : queue' = Append(queue, event)
    /\ UNCHANGED <<threads, age, device, cache>>

\* The device's own callback comes first.
ParameterChanges ==
    /\ cache = "idle" /\ dev /\ ~ calm
    /\ pollinterval' \in Intervals
    /\ cache' = IF registered THEN "param" ELSE "idle"
    /\ UNCHANGED <<threads, queue, age, busy, calm>>

CallbackParam ==
    /\ cache = "param" /\ Len(queue) < MaxQueue
    /\ queue' = Append(queue, "param")
    /\ cache' = "idle"
    /\ UNCHANGED <<threads, age, device>>

StatusChanges ==
    /\ ~ calm
    /\ busy' = ~ busy
    /\ UNCHANGED <<threads, queue, age, pollinterval, cache, calm>>

CalmsDown ==
    /\ ~ calm
    /\ calm' = TRUE
    /\ UNCHANGED <<threads, queue, age, pollinterval, busy, cache>>

\* From one poll to the wait for events takes less than POLL_BUSY_INTERVAL.
Tick ==
    /\ age < 3 /\ (pc \in {"loop", "limit"} => age = 0)
    /\ age' = age + 1
    /\ UNCHANGED <<threads, queue, device, cache>>

Next ==
    \/ WorkerStep \/ MainStep \/ CheckerStep \/ Signal \/ SetupChanged
    \/ Callback \/ ParameterChanges \/ CallbackParam
    \/ StatusChanges \/ CalmsDown \/ Tick

Spec == Init /\ [][Next]_vars

(***************************************************************************)
(* The threads run and time passes.                                        *)
(***************************************************************************)
Fairness ==
    /\ WF_vars(WorkerStep) /\ WF_vars(MainStep) /\ WF_vars(CheckerStep)
    /\ WF_vars(CallbackParam) /\ SF_vars(Tick)

FairSpec == Spec /\ Fairness

--------------------------------------------------------------------------------
(***************************************************************************)
(* After a request to stop at most one more poll is begun: that of an      *)
(* event, or of a timeout, that the worker was just handling.              *)
(***************************************************************************)
StopBound == late <= 1

(***************************************************************************)
(* "ignoring events for one round": however many events arrive, which only *)
(* change the interval, the device is polled, or created, again and again. *)
(***************************************************************************)
PollsAgain == []<>(stoprequest \/ pc \in {"create", "poll"})

(***************************************************************************)
(* When nothing changes any more, the worker keeps the interval of the     *)
(* parameter, or the fast one of a busy device, although the event of a    *)
(* change may be taken by the wait after an error.                         *)
(***************************************************************************)
FollowsParameter ==
    <>calm => <>[](\/ stoprequest \/ interval = pollinterval
                   \/ interval = "fast" /\ (busy \/ pollinterval = NoInterval))

(***************************************************************************)
(* After a request to stop, wherever the threads are, the worker, the quit *)
(* that waits for it and then the process end.                             *)
(***************************************************************************)
ProcessEnds == stoprequest ~> (main = "ended" /\ pc = "ended")
================================================================================
