# NICOS in TLA+

NICOS is a network-based control system for scattering instruments: a daemon
executes the measurement scripts of its clients, a cache distributes values
among daemon, poller, watchdog and monitors, and devices talk to the hardware.
This directory holds models of its concurrent parts, their TLC instances and
machine-checked proofs. `PROJECT.json` maps every definition to the lines it
models; paths below are relative to `src/nicos/`.

## 1. Inventory

| component | state | operations | talks to |
|---|---|---|---|
| script queue (`services/daemon/utils.py`) | list `scripts`, lock, event | put, get, delete_one, delete_all, move_item, update | handlers and script thread, by calls |
| script thread, execution controller (`script.py`, `pyctl.py`) | `status`, break request, continue event and argument, `current_script`, `curblock` | get, parse, execute, `_breakfunc`, stops, rearrange | queue; clients through events; the C trace function through `_breakfunc` |
| command handlers (`handler.py`) | none of their own; one thread per client | start, queue, unqueue, break, continue, stop, finish, emergency, rearrange, update, exec, watch | controller, by calls and by reading its status |
| daemon session (`session.py`) | – | pause, breakpoint, watchdog handler | controller, from script and cache threads |
| counting loop (`core/acquire.py`) | `session.countloop_request` | acquire, `_wait_for_continuation` | handlers leave requests in the session |
| scans and counts (`core/scan.py`, `commands/measure.py`) | the scan's points | `_inner_run`, finishPoint, handleError, inner_count | data manager, counting loop, breakpoints |
| event senders (`daemon/__init__.py`, `SizedQueue`) | a bounded queue per client | emit_event, sender thread | all threads put, one thread per client takes |
| cache server (`services/cache`) | entries with time and ttl, locks, subscriptions | tell, ask, ask*, subscribe, lock, unlock, cleaner | clients by messages |
| cache client (`devices/cacheclient.py`) | local copy, worker thread, reconnect state | get, put, lock, unlock, master refresh, callbacks | server; callbacks into sessions |
| session (`core/sessions`) | mode, loaded setups, devices | setMode, loadSetup, createDevice | cache lock, devices |
| data manager (`core/data`) | stack of blocks, scans, points | begin*, finish*, put*, `_clean` | sinks; scans and acquire |
| sequencer devices (`devices/generic/sequence.py`) | thread, stop flag, status | start, stop, reset, `_sequence` | other devices, cache |
| poller supervisor (`services/poller`) | `_setups`, `_children`, `_childpids` | start, `_reconfigure`, `_wait_master`, quit, reload | cache callbacks, OS processes, signals |
| poller process (`services/poller`) | a queue of events and an interval per device, `_stoprequest` | `_worker_thread`, callbacks, quit, `_checker` | devices, cache callbacks, the supervisor's signals |
| watchdog (`services/watchdog`) | conditions, warnings, pause reasons | `_process_key`, `_setups_updated`, `_check_state` | cache; stops scripts via the daemon session |
| simulation, elog, collector, monitor, clients, device classes, facility packages | – | – | not modelled, see PROJECT.json |

What is hard: the daemon has at least one thread per client, the script thread
and the cache thread, and they share unlocked state (`status`, the break
request, the continue event, `countloop_request`). A command reads the status
and acts on it later. The cache protocol has locks with a time to live and
clients that reconnect. Sequencer devices, pollers and the watchdog react to
callbacks from other threads. The correctness properties per component:

* queue: no request lost, doubled, or both run and reported as blocked; no lost
  wakeup; rearranging moves what the client asked for and nothing else.
* controller: stops take effect and stay in effect; later scripts are not hit;
  the thread survives; breaks end when somebody continues; clients see events in order.
* cache: at most one master, and it holds the lock; a lock comes free; a client's
  copy becomes what the server has, whatever the messages overtake.
* scans and data manager: no call leaves a dataset open, points belong to the
  scan of their own call; a stop ends the scan after at most one more point.
* counting: nothing counts in a pause or after the count; each detector has a result; the count ends.
* script update: the text clients see is the code that runs, and what ran is not edited.
* sequencer: one sequence at a time; a stop ends it within a step, and a wait for it ends.
* poller: one process per setup that should be polled, and none after quit; a
  device keeps being polled, at the interval it has now.
* watchdog: warnings and pause reasons go away with what caused them.

The hazards, line by line, are in `PROJECT.json`, each with its properties.

## 2. The modules

| module | models | rests on |
|---|---|---|
| `ScriptQueue` | class ScriptQueue and QueueOperator, one operator per critical section | – |
| `ScriptControl` | script thread, break function, continue event, command handlers | ScriptQueue |
| `RequestLifecycle` | abstract: what clients are promised about requests | – |
| `StopAudit` | ScriptControl with history variables for the promise of emergency | ScriptControl |
| `ScriptUpdate` | ScriptRequest.execute against ScriptRequest.update | – |
| `CountLoop` | acquire and `_wait_for_continuation` against commands, watchdog, detectors | – |
| `Scan` | scan, sweep and count of a script, and the data manager's stack of datasets | CountLoop |
| `Sequencer` | SequencerMixin and BaseSequencer: sequence thread against start, wait, stop, reset | – |
| `PollerMaster` | the supervisor of the poller processes | – |
| `PollWorker` | one poller process with one device | – |
| `MasterLock` | the master role: setMode and the refresh against the cache server's lock | – |
| `CacheSync` | one key of the cache: its writers, the server's threads, and clients with a copy | – |
| `ScriptControl_proofs` | proofs about the queue's operations, types, stops; and about requests: the invariant, the life cycle, rearrangements | ScriptQueue, ScriptControl, RequestLifecycle |
| `Scan_proofs` | proofs about the counting loop and about datasets | CountLoop, Scan |
| `ScriptUpdate_proofs`, `PollerMaster_proofs`, `PollWorker_proofs`, `CacheSync_proofs`, `Sequencer_proofs`, `MasterLock_proofs` | proofs | their modules |

Each `MC<module>` is the instance of a module for TLC. The modules are
separate where the code's components share nothing but a call: the counting
loop sees a break as ScriptControl's handlers leave it, a poller process sees
SIGTERM as PollerMaster sends it.

**ScriptQueue.** `scripts`, `qevent` and `qlock` are the list, `_event` and the
lock. put, delete_one and delete_all are one critical section each and one step.
`get` is two (`Wait`, then `Pop` or `PopRaises`): it waits for the event before
it takes the lock. rearrange_queue holds the lock over several steps
(`Acquire`, `Move`..., `Release`), so only then `qlock` names its holder.

**ScriptControl.** `tpc` is the position of the script thread, `treq` its
`current_script` from the moment get() returned it. `hpc[h]`, `cmd[h]` are
position and arguments of the command handler h works on. Each read or write
of shared state is a step: the status check of the `command` decorator
(`CheckIdle`, `CheckBusy`), the two further reads in break_ and continue_, the
reads in script_stop and script_immediate_stop, event before put in
new_request, deletion before the blocked event, argument before event in
set_continue, wait, clear and read in wait_for_continue. `brk` is the argument
set_break stored in the C extension. `events[r]`, `taken` and `esf` record what
clients and operators can observe. `watchdog_stop` is script_stop called by the
cache thread (session.py, `_watchdogHandler`), without the decorator's check.

The trace function lives in the C package nicospyctl, which is not in the
repository. `LinePasses`, `Breaks`, `LineBreaks`, `BlockEnds` and `Unwinds` are
modelled from pyctl.Controller's docstring and marked external. The docstring
does not say whether start_exec drops a break request left from an earlier
block. The constant `ClearOnStart` is the set of answers that are possible:
{TRUE}, {FALSE} or both; the proofs hold for all of them.

Abstracted: script text (a script is a number of blocks, and each block can
reach breakpoints, pause, count, fail or abort according to `ScriptSteps`),
users, log messages, positions in the source, simulation.

**RequestLifecycle.** A request is announced, queued, then dropped or taken, at
most one is being worked on, and reordering keeps the queue's contents.
`RefinesLifecycle` maps pending to the requests between event and put, dropped
to those deleted (reported or about to be), completed to those taken before.

A stop is pending (`StopPending`) in `brk`, in the flag the break function works
on, or in the argument of the continue event. StopNotForgotten says that no
step loses it but a break, a continue, or the start of the next block where
start_exec drops requests.

**StopAudit.** `target` remembers which script was being worked on when a
command arrived, `acked` which scripts an acknowledged emergency command was
meant for. Both only watch.

**ScriptUpdate.** `curblock`, `code`, `text` and `run` are fields of the
request (`run` the flag of `_run`), `scripts` its entry in
experiment.scripts, `executed` a history of the blocks that were started. A
step of execute is one access to a field; an update takes the queue's lock,
clears `_run`, reads `curblock`, compares, replaces text, list and code, and
sets `_run` in its finally clause. A thread that was woken from `_run.wait()`
goes on even if the next update clears the flag first, as threading.Event
does. The script has several lines, so that it is split into blocks, and the
mode is MASTER. The texts of blocks are model values, since update only
compares them.

**CountLoop.** `pc`, `todo` are the position of the script thread and the rest
of the current for loop; `det[d]` is what a detector does, `detset` and
`results` are acquire's; `req` is session.countloop_request and `cur` the copy
that `_wait_for_continuation` works on; `brk` the break a command asked for. A
command first sets the break and later writes the request (`WritesRequest`),
which is the order of break_ and script_stop. A visit to a detector is one
step, since nobody else touches it meanwhile. A stop that meets a break of the
loop raises there; a stop after the point ends the break as a continue does and
becomes the requested break. The immediate stop is left out: it ends the count
through the emergency functions, which stop all devices.

**Scan.** Extends CountLoop: the script thread begins a call, a scan or a
single count, begins its datasets, moves, runs the counting loop, finishes the
point and comes to the breakpoints of level 2 and 1. `stack` is
DataManager.`_stack`; `exc` the exception that is being propagated, which a
finally clause may replace; `stopping` says that a stop was raised in this
script. A stop that meets the counting loop raises there (`StopInScan`,
`CommandsInScan`). A sink may raise when its handlers are created, when a
dataset begins, gets values or ends (`DataFaults`), and a move may raise or
skip the point. prepareScan may end the scan before it begins (StopScan). With
`Sweep`, preparePoint may raise StopScan at the first point, also if prepareScan
wants that point skipped (`move_skip`), and finishPoint at any point
(`SweepGoesOn`); `_inner_run` then ends the scan as if it were complete.
`late` counts the points begun since a stop was requested, `broken` says that
an error left a dataset open, which is all that NothingLeftOpen excepts.

**MasterLock.** `lock` is the entry "master" of the server's `_locks`, with
the seconds it still lasts; `mode`, `ismaster`, `due` are session._mode,
cache._ismaster and `_master_expires`. A session's main thread (`main`) runs
setMode, NewSetup and shutdown, the client's worker thread (`worker`) runs
`_wait_data`; `request` is what one of them asks over the second connection,
which a lock serializes. A request is handled or lost, its reply is read or
lost, and it is repeated as `_single_request` does, also when the server
handled it before. A session that ended or crashed leaves `Ended` as the owner
of its lock, because its successor has another session id. `excused` becomes
true when the code loses the lock without noticing: the server restarts and
forgets it, a connection is away or a setup is loaded longer than the lock
lasts, a refresh fails (the next one is tried when the lock has just expired),
or setMode is left by an exception of the unlock after it stopped the refresh.
MastersHoldLock promises nothing after that. Left out: a request on a broken
connection that the server's thread for it handles after the client has asked
again. A lock that comes so late only lasts longer; a release that comes so
late could take the lock from a session that has become master again. With such
requests the `master` run has more than four times as many states, too many for
its liveness property.

**CacheSync.** `pending[w]` is the queue of a writing client and `link[w]`
what it sent; `telling[w]` is the loop of CacheDatabase.tell over the server's
connections in the receiver thread of w, so two of them overtake each other;
`out[r]` is everything on its way to reader r, `copy[r]` its `_db`. A lost
connection loses what was on its way; what sendall failed to send goes back to
the queue, behind newer messages. `version`, `seen` and `missed` are histories:
they number the values of the entry and say which one a reader took last and
whether a later one passed it by. That excuses a reader (`Excused`), and happens
in five ways, each of which the check needs: an update announced between the
answer and the subscription; an iteration ended by "dictionary changed size
during iteration"; a value stored later that has an earlier time; a value that
comes after the removal it preceded, since a removal leaves no time behind;
and an expiry in the gap before the subscription.

**Sequencer.** `thread`, `stopflag`, `wasStopped`, `seqStatus` are the four
fields of the mixin; every reading and writing of one of them is a step.
`seq[s]` is the thread that runs sequence s: its position, step and actions;
`usr[u]` a thread that calls the device. An action of a step is new, running
or done, whatever kind of SequenceItem it is. The hooks for errors re-raise,
as their defaults do; an exception that is not a NicosError ("other") ends the
sequence without a change of its status. `stopAt` is a history of the step at which a stop came.

**PollerMaster.** `setups`, `childpids`, `children` and `stoprequest` are the
fields of Poller; `thr` has the positions of the main thread and of the cache
client's thread, which calls `_reconfigure`; `proc[p]` is an OS process. A
signal handler runs between two steps of the main thread. Popen objects that
lose their last reference are waited for when they are deleted or by the next
Popen (`loose`), as the standard library does, so os.wait may or may not
report them. The loops that send a signal to every child are one step, and
the 4 s timer of `_quit_master` is longer than starting a process takes.

**PollWorker.** `pc`, `interval`, `queue` are those of one worker thread,
`main`, `checker`, `cache` the other threads of the process, `signalled` the
run of quit by a signal. Time is the class of the time since the last poll,
which is all the code compares it with: POLL_MIN_WAIT, POLL_BUSY_INTERVAL, the
device's own interval. `late` counts the polls that begin after a request to
stop, up to two, since more than one is what the property forbids. quit reads
`_stoprequest` and sets it in two steps, so that the two that may run, by a
signal and by the checker, can both find it clear. `TimesOutAt` is the class of
time at which a value times out by maxage, which makes a poll due as well. Left
out: a second device (workers share only `_stoprequest` and the lock for
creating devices), how old a cached status may be, a status that is None.

## 3. Runs

| run | asks | bounds |
|---|---|---|
| `queue` | can any interleaving of put, get, delete_one, delete_all and a rearrangement with a stale list lose, double or mis-announce a request? does it implement the life cycle? does a waiting request leave the queue, does each command get its reply? | two clients, two commands each, three scripts and the setup request; id lists in order, reversed, shorter, longer, with an executed id in front; bad syntax possible |
| `control` | break, stop, finish, continue, emergency and the watchdog's stop, with counting, failing and pausing scripts | three commands; break and stop of levels 1 and 3, the watchdog's stop of level 2; breakpoints of level 1 (lines), 2, and 3 (counting, pauses), so that a stop is both taken and put aside; two blocks |
| `update` | what may updates change, what do clients see, does execution go on? | two updates by two clients, all scripts of up to three blocks with two texts |
| `count` | does anything count in a pause or after the count, is a result missing, is a dataset left open or a point put into a wrong scan, how many points follow a stop, does every call end? | two calls of two points each, sweeps, so that a scan may also end early; two detectors, one of which can pause; two commands; errors everywhere but in start() |
| `seqstop` | one sequence at a time; what a stop leaves; what a success means; does a stop end a sequence whose devices hang? | two steps of two actions, two sequences, two calls of one user, a stop of another, any hook may raise |
| `poll` | is a setup polled twice, is what should be polled, polled in the end, does quit end everything? | two setups that are polled when loaded, one that is never and one that is always polled, six processes; either three changes of the setups or two crashes, SIGUSR1 and SIGTERM |
| `worker` | does a flood of events starve polling, is a changed interval used, does everything end after quit? | two intervals (one None), one event waiting besides the quit events |
| `master` | does every master hold the lock, does a lock come free? | two sessions, a lock of one second, one retry, two faults (lost requests, connections, crashes, server restarts) |
| `cache` | does the copy of a client become what the server has? | two writers, one reader, two values, two puts, two lost connections |
| `death`, `emergency`, `sweep` | see below | as small as the question allows |

Why these bounds are enough. Queue: the conflicts between put, get and delete
need one thread in the middle of one operation and another that completes one
or two (an event that is stale, a queue that empties and fills again); the
status races need a handler between its check and its act and one more
command. A second client and two commands per client produce all of these.
Two blocks per script let a stop meet the gap between them. Updates: a second update reads what the
first one left, at any position of execute; three blocks are one before, at
and after the current one. Counting: a command that arrives in the handling
of another, with one detector already paused or complete and one not.
Scans: the second call meets what the
first one left on the stack. Sequences: a stop in the first, between the two,
in and after the last step. Master: a lock of one second has its refresh due
at once, so that every order of refresh, release and expiry occurs; a third
session would only repeat what the second does. Cache: two puts of two writers
are announced in both orders, and a put and a lost connection are left for
each of the ways in which a message is missed.
Poller: with two crashes, one process can end while another is restarted.
The mutants listed in PROJECT.json show for every property that a plausible
slip in the code makes its run fail.

Some instances leave out events under which their properties are false of the
code, which PROJECT.json lists as hazards. Errors of `start()` in `count`: the
detectors started before are left counting, since the call is outside the try
block. In `poll`, `OneTrouble` keeps crashes and changes of the setups apart,
no setup comes back (`NoneComesBack`), and one setup is wanted all the time
(`OneStays`). A process that ends while `_reconfigure` runs can make either
thread raise, and a setup that is dropped and loaded again within one restart
can get two processes. If all setups are replaced at once, `_reconfigure` kills
the old processes before it starts the new ones; when the main thread has
waited for the last old one by then, os.wait raises ChildProcessError and the
supervisor ends without a request. In `worker` values time out no earlier than
the device's own interval (`TimesOutAt` = 3; 2 does not change the results). With
less, a poll may be due whenever the worker looks: it takes no event then, and
FollowsParameter is false, since a pollinterval that was set to None is not
noticed. `seqstop` has one user who starts: two can
both pass the check that no sequence runs. The excused events of
`master` and `cache` are part of their runs; only what is promised after them is not.

Deadlock is checked in all runs but `emergency`: the MC modules add a stutter
step in the states where only a further call could change something. The
`emergency` run says CHECK_DEADLOCK FALSE, because AuditSpec has no such step
and the system does rest when the clients have used up their commands.

Three runs find that the code does not do what its comments or docstrings say:

* `death` – the script thread ends with IndexError if an unqueue empties the
  queue between get()'s wait and its pop.
* `emergency` – between the blocks of a script the status is IDLE, so an
  emergency stop is queued behind the running script.
* `sweep` – a stop that is raised while a sweep counts is replaced by the
  StopScan of SweepScan.finishPoint; the scan ends as if it were complete, and
  the script goes on.

Met while modelling, and recorded as hazards only: two starts that pass the
needscript check together are both accepted; a break that checked the status
before a stop was acknowledged overwrites the stop; a finish between the
reading and the reset of countloop_request is lost; an update to a script no
longer than what was executed makes execute raise IndexError; an update that
races with the end of the script leaves a stale entry in experiment.scripts; a
stop between the last two readings of a sequence's stop flag leaves the device
BUSY although the sequence is over, and a wait for it does not return.

### Fairness

No fairness makes clients call anything. Everywhere, each thread that can take
a step takes one in the end (WF), since Python's scheduler runs all threads.
What is assumed beyond that, and about what is not code of this repository:

* ScriptControl: SF on `BlockEnds`: a block that keeps getting the chance ends.
  QueueDrains excepts a dead thread (`death`) and one that waits in a break.
* ScriptUpdate: a block ends.
* CountLoop and Scan: a detector that counts completes, somebody continues a break, and
  the reason for a pause goes away. Without these a count may rightly last forever.
* Sequencer: nothing more; the actions of a sequence may never complete. So StopEnds
  says that a stop ends a sequence whose devices hang.
* PollerMaster: a process obeys SIGTERM, the timer of `_quit_master` fires.
* PollWorker: time passes (SF on `Tick`, since it is disabled in the moments
  between a poll and the wait for events, which take less than POLL_BUSY_INTERVAL).
* MasterLock: the server answers, a connection is made again, and time passes,
  although requests come again and again (SF on `Tick`, which waits for them); a
  session in `Wanting` keeps asking, which only LockComesFree is about. SF on the
  worker, since the main thread may use the connection again and again.
* CacheSync: nothing more. CatchesUp holds because puts and faults are bounded.

## 4. Proofs

Theorems hold for every value of the constants that the ASSUMEs of the module
allow, which TLC evaluates in every run: any set of handlers, requests,
scripts, id lists, blocks and commands, each meaning of ClearOnStart; any set
of detectors, any number of calls and points; scripts of any length and any
number of updates; any number of users, sequences, steps and actions; any
setups to poll, changes, crashes and processes; any number of sessions, any timeout, retries and faults; any number of writers, readers,
values and puts. Each module of proofs has one inductive invariant per result,
named as in the source of the module, one step per action, and lemmas for what
an action does wherever several steps need it.

### Script control

* `TypeCorrect`: `Spec => []TypeOK`. TypeOK is inductive together with
  `CommandFits`, which ties the step a handler is at to the command it works
  on; without it `cmd[h].req` might be NoReq at the put.
* `EventIsExact`, `QueueHasNoDuplicates`, `RequestsAtOnePlace`,
  `RequestsNotLost`. The inductive invariant `RequestInv` adds to these:
  `SubmittedOnce` (no two handlers submit the same request, and the request
  event is out exactly while the handler stands before the put),
  `OnlyAnnounced` (a request in the queue, taken or dropped was announced, so a
  fresh one is nowhere), and `BatchesReported` (deleted ids are held only
  between the deletion and the blocked event). AtOnePlace alone is not
  inductive: nothing would stop a handler from putting a request again.
* Every action falls into a few classes by its effect on queue, `taken` and
  `events`; `ScriptControl_proofs` states once what each queue operation does to
  contents, length and duplicates (with the list lemmas for RemoveAt and
  InsertAt), and the steps of the invariant proof cite these.

* `EventsAreInOrder`. `LifeInv` adds that the request at work was taken, that
  clients were told "processing" before anything can end it, and that nothing
  else was ever processed; AtOnePlace then keeps "blocked" and "processing"
  apart.
* `LifecycleImplemented`: `Spec => RefinesLifecycle`. Initial states map to
  initial states; one lemma per class of steps shows which step of
  RequestLifecycle it is, or that the life cycle does not see it. An
  announcement is new because only announced requests are anywhere; completing
  a request adds it to the completed ones because it was taken (LifeInv).
* `TransientsPass` and `StopsAreKept` (TransientNeverBlocks, StopNotForgotten).
  TransientNeverBlocks is kept by every step because only the script thread
  clears the event it waits for. A stop is handed on from `brk` to `flag` to
  `contArg` and back, each of which must not be NoFlag when it is read; so
  `FlagsMeant` says that an argument that is going to be read was written, and
  `BreaksWanted` ties set_break to the commands that want a break or a stop.
* `RearrangementsAreAsAsked`: RearrangedAsAsked, assuming `IdsDiffer` (the list
  of a client names no request twice, which the code checks nowhere). The loop
  of rearrange_queue keeps `Placed`: of the first k ids, those still queued are
  among the first k entries and in the order of the list. It needs that the
  handler holds the lock from the check to the last move, that every other
  operation on the list waits for it, and that the queue names nothing twice.

QueueHasNoDuplicates is proved without a run of its own; it is the lemma that
the rearrangement rests on.

### Counting loop and scans

NoneLeftCounting, PausedCountsNothing and EveryResult for one count
(CountLoop), and again for every count of a script (Scan, `EveryCountIsSound`),
where requests are left over from one count to the next. NoneLeftCounting and
EveryResult assume `"start" \notin Faults`, without which the first is false;
the other results of this module assume nothing. The inductive
invariant says what each for loop has visited so far: `BeforeStart` (all idle),
`Pausing` (who is not in `todo` does not count), `Ending` (the except clause has
stopped or given up who is not in `todo`), with `Counts` for the bounds. In a
script it is joined by `AtRest`: outside the loop the count is where it begins.

NothingLeftOpen and OwnParent, for any number of calls and points: `StackInv`
ties the stack to the position of the script thread. `Shape` bounds its depth,
`OnStack` says what is on top of it in a scan and in a point, also after an
error of a sink left something below, and `Unbroken` gives the exact depth if
there was no such error. NothingLeftOpen alone says nothing about a call in
progress, so it is not inductive. StopsSoon follows from `LateInv`: a point that
began after the stop is still being measured or finished, and only a breakpoint
comes after it.

### Script update

ShownIsRun and PastKept, for scripts of any length. One handler at a time is
past the lock (`Exclusive`). What makes updates safe is `Held`: between the
reading of `curblock` and the last assignment `_run` is clear, so execute gets
at most one block further, and only when it had passed `_run.wait()` before the
flag was cleared. That block escapes the comparison, which is why PastKept
excepts the last block started, and no more than that. `Shown` says which of
text, list and code have the new script at each position of an update, and
`Covers` that no update makes the script shorter than what was executed, but
for that last block.

### Poller supervisor

`TypeCorrect` assumes nothing; it needs only that a thread that has started a
process has its pid (`HasPid`).

`NeverTwoProcesses` (OnePerSetup) assumes that no setup comes back
(`NoneComesBack`), and nothing about crashes and signals. `SingleInv` counts
processes as live until they were waited for, and says that a setup is in one
place: it has one live process, or one thread is to start one, or its process
was waited for and the main thread has yet to decide (`Single`). What the
callback adds is in none of these places, since whatever is was wanted for the
value of the key that `_setups` stands for or an earlier one (`Seen`), and has
not been dropped in between. `Turns` keeps the callback out until it is registered.

`PollsAsConfigured` (Reflects) and `MasterStays` (MasterSurvives) also assume
OneTrouble when the system begins (it can never become false then); Reflects
that the setups do not change before the callback is registered, MasterSurvives
that one is wanted all the time (OneStays). TLC finds a counterexample to each
property without each of the hypotheses named for it. The invariant adds
`Covered` (every setup in `_setups` is in one of the three places, if no stop was
requested). For this to be kept, `_childpids` must know the process that os.wait
returns (`Known`) and `_children` must have the right Popen object (`Entries`),
also between the assignments of `_start_child`: an object that another thread
overwrites would be reaped behind the main thread's back. `Reading` ties
`_setups` to the values of the key, `Phases` says that the threads never start
processes both at once, and `Trouble` that either nothing changes any more or
the only processes to end are those of setups dropped for good.

### Poll worker

StopBound: `Stopping` says that once a poll was begun after the request, the
worker is at a position from which it looks at `_stoprequest` before the next.

### Cache copies

CopiesAgree, for any number of writers, readers, puts and lost connections. A
version numbers the values of the entry. `OwnTimes`: each put has its own time,
on all ways to the server. `Announcing`: what is announced as the latest
version is what the server has. Per reader: `Versions` (a copy or message
of the latest version shows the entry), `InOrder` (two messages with the same
time come in the order of their versions, so that the comparison of times in the
client does not refuse the newer), and `Accounted`: the latest version was
accepted, or missed, or is in `out`, or a receiver thread is still to send it.
With nothing on its way only the first is left for a reader that is not excused.

### Sequencer

OneSequence, StopBound and SuccessMeansDone, under the assumption `OneDriver`:
at most one user starts and resets the device, any number of others stop it.
The invariant ties the driver's position to the sequence it started: while it is
past the check that no sequence runs and before the start of the thread, none
is alive; the flag of a stop that reached a live sequence stays set until the
clean-up of that sequence, which is why the bound is one step. Each action has
a lemma that says what it does to the fields (`StepBeginsDoes` and so on), so
that the preservation steps need not expand it again.

### Master lock

MastersHoldLock, and with it `AtMostOneMaster` (that two sessions never act as
master), unless `excused`. The invariant adds to the types: `Threads` (a request
is the one its thread waits for), and `Held`: a master owns the lock, and
either the next refresh comes due before the lock expires, or the worker is about
to ask for it, and requests take less than a second.

### Only model-checked

Every invariant and action property of the passing runs is proved, some under
the hypotheses named above, which the instances satisfy too; the refinement of
the abstract life cycle as well. The other temporal properties are liveness
properties, which are beyond the prover, since it has no rules for fairness and
ENABLED.

## 5. Plan

In this order; each new module with its own instance, mutants and map.

1. `Watchdog`: warnings and pause reasons across changes of the setups.
2. `EventQueue`, `SessionControl`: the bounded queue of a client, the
   controlling user, two replies to one command.

## 6. Not modelled

Simulation, user interfaces, elog, collector, monitor, device classes and
facility packages: they hold no shared state of their own, or what they do is
decided by hardware and setup files. The repository consists for the most part
of these (graphical clients with their generated resource files, instrument
setups, drivers), so the models cover the concurrent core and only a small
share of all lines. Within the modelled components PROJECT.json names what is
left out: queries, formatting, history, rewrites, files, simulation mode.
