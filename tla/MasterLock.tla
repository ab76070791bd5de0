------------------------------ MODULE MasterLock ------------------------------
(***************************************************************************)
(* The master role.  At most one session may be in master mode: it holds   *)
(* the lock "master" of the cache server, which expires unless the worker  *)
(* thread of its cache client refreshes it.                                *)
(*                                                                         *)
(* Each session has a main thread, which executes setMode, shutdown and    *)
(* NewSetup, and the worker thread of its CacheClient, which executes      *)
(* _wait_data.  Both talk to the server over one second connection, one    *)
(* request at a time.  The server keeps its locks in memory.               *)
(*                                                                         *)
(* Time is counted in seconds.  The lock's rest and the time until the     *)
(* next refresh are kept instead of the points in time: -1 is in the past. *)
(* The entry session/master of the cache, which only displays the master's *)
(* name, and the restriction of the other threads are left out.            *)
(***************************************************************************)
EXTENDS Integers, FiniteSets

CONSTANTS Sessions,    \* the copies of the instrument software
          Nobody,      \* the owner of a lock that is not held
          Ended,       \* the owner of a lock that a session left when it ended
          Timeout,     \* cache._mastertimeout
          Retries,     \* retry of _single_request
          Others,      \* modes to leave the master mode for
          Wanting,     \* sessions that try to become master again and again
          MaxFaults    \* lost connections, crashes and restarts: a bound

ASSUME MasterAssumption ==
    /\ Nobody # Ended /\ Nobody \notin Sessions /\ Ended \notin Sessions
    /\ Timeout \in Nat \ {0} /\ Retries \in Nat /\ MaxFaults \in Nat
    /\ Wanting \subseteq Sessions /\ Others \subseteq {"slave", "maintenance"}

VARIABLES lock,        \* _locks["master"] of the server: its owner and its rest
          mode,        \* session._mode
          ismaster,    \* cache._ismaster
          due,         \* _master_expires, from now on
          main,        \* where the main thread is
          worker,      \* where the worker thread is
          goal,        \* the mode setMode was called with
          connected,   \* the client's first connection
          request,     \* what is being asked over the second one
          faults,      \* faults so far
          excused      \* something happened that the lock does not protect from

vars == <<lock, mode, ismaster, due, main, worker, goal, connected, request,
          faults, excused>>
session == <<mode, ismaster, main, goal>>
client == <<due, worker, connected>>
history == <<faults, excused>>

Idle == [by |-> "none"]
Requests == [by : {"main", "worker"}, op : {"lock", "unlock"},
             tries : 0..Retries, reply : {"none", "ok", "denied", "lost"}]
MainSteps == {"idle", "lock", "granted", "unlock", "released", "loading"}

TypeOK ==
    /\ lock \in [owner : Sessions \cup {Nobody, Ended}, left : -1..Timeout]
    /\ mode \in [Sessions -> {"slave", "master", "maintenance"}]
    /\ goal \in [Sessions -> {"slave", "maintenance", "ended"}]
    /\ main \in [Sessions -> MainSteps] /\ worker \in [Sessions -> {"wait", "refresh"}]
    /\ ismaster \in [Sessions -> BOOLEAN] /\ connected \in [Sessions -> BOOLEAN]
    /\ due \in [Sessions -> -1..Timeout - 1]
    /\ request \in [Sessions -> Requests \cup {Idle}]
    /\ faults \in 0..MaxFaults /\ excused \in BOOLEAN

Init ==
    /\ lock = [owner |-> Nobody, left |-> -1]
    /\ mode = [s \in Sessions |-> "slave"] /\ goal = [s \in Sessions |-> "slave"]
    /\ main = [s \in Sessions |-> "idle"] /\ worker = [s \in Sessions |-> "wait"]
    /\ ismaster = [s \in Sessions |-> FALSE] /\ due = [s \in Sessions |-> -1]
    /\ connected = [s \in Sessions |-> TRUE]
    /\ request = [s \in Sessions |-> Idle]
    /\ faults = 0 /\ excused = FALSE

Set(f, s, v) == [f EXCEPT ![s] = v]

--------------------------------------------------------------------------------
(***************************************************************************)
(* The server: lock of the cache database.                                 *)
(***************************************************************************)
\* Mutant: an expired lock is refused.
MayLockIfFree(s) == lock.owner \in {Nobody, s}

MayLock(s) == lock.owner \in {Nobody, s} \/ lock.left < 0
MayUnlock(s) == lock.owner \in {Nobody, s}

Allowed(s, op) == IF op = "lock" THEN MayLock(s) ELSE MayUnlock(s)

ServerHandles(s) ==
    /\ request[s] # Idle /\ request[s].reply = "none"
    /\ LET ok == Allowed(s, request[s].op)
       IN  /\ request' = [request EXCEPT ![s].reply = IF ok THEN "ok" ELSE "denied"]
           /\ lock' = IF ~ ok THEN lock
                      ELSE IF request[s].op = "lock"
                           THEN [owner |-> s, left |-> Timeout]
                           ELSE [owner |-> Nobody, left |-> -1]
    /\ UNCHANGED <<session, client, history>>

--------------------------------------------------------------------------------
(***************************************************************************)
(* The client: _single_request, by one thread at a time.                   *)
(***************************************************************************)
Asks(s, t, o) ==
    /\ request[s] = Idle /\ connected[s]
    /\ request' = Set(request, s, [by |-> t, op |-> o, tries |-> Retries, reply |-> "none"])

Answered(s, t, r) == request[s] # Idle /\ request[s].by = t /\ request[s].reply = r

\* The second connection breaks before or after the server handled the request.
Loses(s) ==
    /\ request[s] # Idle /\ request[s].reply # "lost"
    /\ faults < MaxFaults /\ faults' = faults + 1
    /\ request' = [request EXCEPT ![s].reply = "lost"]
    /\ UNCHANGED <<lock, session, client, excused>>

\* The request is sent again over a new connection.
Resends(s) ==
    /\ request[s] # Idle /\ request[s].reply = "lost"
    /\ request[s].tries > 0 /\ connected[s]
    /\ request' = [request EXCEPT ![s].tries = @ - 1, ![s].reply = "none"]
    /\ UNCHANGED <<lock, session, client, history>>

\* CacheError if there is no connection at all, OSError after the last try.
CacheError(s, t) == Answered(s, t, "lost") /\ request[s].tries > 0 /\ ~ connected[s]
OsError(s, t) == Answered(s, t, "lost") /\ request[s].tries = 0
Fails(s, t) == CacheError(s, t) \/ OsError(s, t)

--------------------------------------------------------------------------------
(***************************************************************************)
(* The main thread: setMode("master").                                     *)
(***************************************************************************)
BecomesMaster(s) ==
    /\ main[s] = "idle" /\ mode[s] = "slave"
    /\ Asks(s, "main", "lock")
    /\ main' = Set(main, s, "lock")
    /\ UNCHANGED <<lock, mode, ismaster, goal, client, history>>

IsGranted(s) ==
    /\ main[s] = "lock" /\ Answered(s, "main", "ok")
    /\ request' = Set(request, s, Idle)
    /\ ismaster' = Set(ismaster, s, TRUE)
    /\ main' = Set(main, s, "granted")
    /\ UNCHANGED <<lock, mode, goal, client, history>>

EntersMaster(s) ==
    /\ main[s] = "granted"
    /\ mode' = Set(mode, s, "master")
    /\ main' = Set(main, s, "idle")
    /\ UNCHANGED <<lock, ismaster, goal, request, client, history>>

\* ModeError, or the error of the request: the mode stays as it was.
IsRefused(s) ==
    /\ main[s] = "lock"
    /\ Answered(s, "main", "denied") \/ Fails(s, "main")
    /\ request' = Set(request, s, Idle)
    /\ main' = Set(main, s, "idle")
    /\ UNCHANGED <<lock, mode, ismaster, goal, client, history>>

(***************************************************************************)
(* setMode to another mode, and shutdown ("ended"), which gives up the     *)
(* master mode in the same way.                                            *)
(***************************************************************************)
Leaves(s, m) ==
    /\ main[s] = "idle" /\ mode[s] \in {"slave", "master"} \ {m}
    /\ m = "ended" => mode[s] = "master"
    /\ goal' = Set(goal, s, m)
    /\ ismaster' = Set(ismaster, s, FALSE)
    /\ main' = Set(main, s, IF ismaster[s] \/ m = "ended" THEN "unlock" ELSE "released")
    /\ UNCHANGED <<lock, mode, request, client, history>>

AsksUnlock(s) ==
    /\ main[s] = "unlock"
    /\ Asks(s, "main", "unlock")
    /\ UNCHANGED <<lock, session, client, history>>

\* Without a connection CacheError is raised, and caught.
ReleasesAlone(s) ==
    /\ main[s] = "unlock"
    /\ (request[s] = Idle /\ ~ connected[s]) \/ CacheError(s, "main")
    /\ request' = Set(request, s, Idle)
    /\ main' = Set(main, s, "released")
    /\ UNCHANGED <<lock, mode, ismaster, goal, client, history>>

IsReleased(s) ==
    /\ main[s] = "unlock" /\ Answered(s, "main", "ok")
    /\ request' = Set(request, s, Idle)
    /\ main' = Set(main, s, "released")
    /\ UNCHANGED <<lock, mode, ismaster, goal, client, history>>

\* CacheLockError and OSError are not caught: setMode ends, and the session
\* stays in master mode, without refreshing the lock.  shutdown ends as well.
IsStuck(s) ==
    /\ main[s] = "unlock"
    /\ Answered(s, "main", "denied") \/ OsError(s, "main")
    /\ request' = Set(request, s, Idle)
    /\ main' = Set(main, s, IF goal[s] = "ended" THEN "released" ELSE "idle")
    /\ excused' = TRUE
    /\ UNCHANGED <<lock, mode, ismaster, goal, client, faults>>

EntersOther(s) ==
    /\ main[s] = "released" /\ goal[s] # "ended"
    /\ mode' = Set(mode, s, goal[s])
    /\ main' = Set(main, s, "idle")
    /\ UNCHANGED <<lock, ismaster, goal, request, client, history>>

(***************************************************************************)
(* NewSetup replaces the cache client.  Its setMode(MASTER), meant to      *)
(* refresh the master status, returns at once, since the mode is still     *)
(* master; loadSetup has set _ismaster.                                    *)
(***************************************************************************)
\* The worker of the old client is joined.
UnloadsSetup(s) ==
    /\ main[s] = "idle" /\ mode[s] = "master" /\ worker[s] = "wait"
    /\ ismaster' = Set(ismaster, s, FALSE)
    /\ due' = Set(due, s, -1)
    /\ main' = Set(main, s, "loading")
    /\ UNCHANGED <<lock, mode, goal, request, worker, connected, history>>

LoadsSetup(s) ==
    /\ main[s] = "loading"
    /\ ismaster' = Set(ismaster, s, TRUE)
    /\ main' = Set(main, s, "idle")
    /\ UNCHANGED <<lock, mode, goal, request, client, history>>

--------------------------------------------------------------------------------
(***************************************************************************)
(* The worker thread: _wait_data.  Whatever comes of the refresh, the      *)
(* worker goes on.                                                         *)
(***************************************************************************)
\* Mutant: the next refresh is due when the lock has expired.
NextRefreshLate == Timeout

NextRefresh == Timeout - 1

FindsDue(s) ==
    /\ worker[s] = "wait" /\ connected[s] /\ ismaster[s] /\ due[s] < 0
    /\ due' = Set(due, s, NextRefresh)
    /\ worker' = Set(worker, s, "refresh")
    /\ UNCHANGED <<lock, session, connected, request, history>>

AsksRefresh(s) ==
    /\ worker[s] = "refresh"
    /\ Asks(s, "worker", "lock")
    /\ UNCHANGED <<lock, session, client, history>>

IsRefreshed(s) ==
    /\ worker[s] = "refresh"
    /\ Answered(s, "worker", "ok") \/ Answered(s, "worker", "denied")
    /\ request' = Set(request, s, Idle)
    /\ worker' = Set(worker, s, "wait")
    /\ UNCHANGED <<lock, session, due, connected, history>>

\* The next try is made when the next refresh is due, and that is too late.
RefreshFails(s) ==
    /\ worker[s] = "refresh"
    /\ (request[s] = Idle /\ ~ connected[s]) \/ Fails(s, "worker")
    /\ request' = Set(request, s, Idle)
    /\ worker' = Set(worker, s, "wait")
    /\ excused' = (excused \/ ismaster[s])
    /\ UNCHANGED <<lock, session, due, connected, faults>>

--------------------------------------------------------------------------------
(***************************************************************************)
(* Time, connections, the end of a session and of the server.              *)
(***************************************************************************)
Busy(s) == \/ request[s] # Idle
           \/ worker[s] = "refresh"
           \/ connected[s] /\ ismaster[s] /\ due[s] < 0

Later(n) == IF n < 0 THEN n ELSE n - 1

Acts(s) == mode[s] = "master" /\ main[s] \in {"idle", "loading"}

\* Requests take less than a second.  While a client has no connection, or
\* its session loads a setup, any time may pass: then a lock can expire.
Expires ==
    /\ lock.left = 0
    /\ \E s \in Sessions : lock.owner = s /\ (~ connected[s] \/ main[s] = "loading")

Tick ==
    /\ \A s \in Sessions : ~ Busy(s)
    /\ lock' = [lock EXCEPT !.left = Later(@)]
    /\ due' = [s \in Sessions |-> Later(due[s])]
    /\ excused' = (excused \/ Expires)
    /\ UNCHANGED <<session, worker, connected, request, faults>>

Disconnects(s) ==
    /\ connected[s] /\ worker[s] = "wait"
    /\ faults < MaxFaults /\ faults' = faults + 1
    /\ connected' = Set(connected, s, FALSE)
    /\ UNCHANGED <<lock, session, due, worker, request, excused>>

Connects(s) ==
    /\ ~ connected[s] /\ worker[s] = "wait"
    /\ connected' = Set(connected, s, TRUE)
    /\ UNCHANGED <<lock, session, due, worker, request, history>>

\* A session ends and a new one, with another id, takes its place.
Restarts(s) ==
    /\ lock' = IF lock.owner = s THEN [lock EXCEPT !.owner = Ended] ELSE lock
    /\ mode' = Set(mode, s, "slave") /\ goal' = Set(goal, s, "slave")
    /\ main' = Set(main, s, "idle") /\ worker' = Set(worker, s, "wait")
    /\ ismaster' = Set(ismaster, s, FALSE) /\ due' = Set(due, s, -1)
    /\ connected' = Set(connected, s, TRUE)
    /\ request' = Set(request, s, Idle)

\* After shutdown; the worker is joined.
Ends(s) ==
    /\ main[s] = "released" /\ goal[s] = "ended" /\ worker[s] = "wait"
    /\ Restarts(s)
    /\ UNCHANGED history

Crashes(s) ==
    /\ faults < MaxFaults /\ faults' = faults + 1
    /\ Restarts(s)
    /\ UNCHANGED excused

\* The locks are gone; so are the connections, and what was asked on them.
ServerRestarts ==
    /\ faults < MaxFaults /\ faults' = faults + 1
    /\ lock' = [owner |-> Nobody, left |-> -1]
    /\ connected' = [s \in Sessions |-> FALSE]
    /\ request' = [s \in Sessions |-> IF request[s] # Idle /\ request[s].reply = "none"
                                      THEN [request[s] EXCEPT !.reply = "lost"] ELSE request[s]]
    /\ excused' = (excused \/ lock.owner \in Sessions)
    /\ UNCHANGED <<session, due, worker>>

--------------------------------------------------------------------------------
Main(s) ==
    \/ IsGranted(s) \/ EntersMaster(s) \/ IsRefused(s)
    \/ AsksUnlock(s) \/ ReleasesAlone(s) \/ IsReleased(s) \/ IsStuck(s) \/ EntersOther(s)
    \/ LoadsSetup(s) \/ Ends(s)

Worker(s) == FindsDue(s) \/ AsksRefresh(s) \/ IsRefreshed(s) \/ RefreshFails(s)

Next ==
    \/ \E s \in Sessions :
          \/ Main(s) \/ Worker(s) \/ ServerHandles(s) \/ Loses(s) \/ Resends(s)
          \/ BecomesMaster(s) \/ UnloadsSetup(s)
          \/ \E m \in Others \cup {"ended"} : Leaves(s, m)
          \/ Disconnects(s) \/ Connects(s) \/ Crashes(s)
    \/ ServerRestarts \/ Tick

Spec == Init /\ [][Next]_vars

(***************************************************************************)
(* Both threads run, the worker also if the main thread asks all the time, *)
(* the server answers, a connection is made again, time passes although    *)
(* requests come again and again, and a session that wants to become       *)
(* master keeps asking.                                                    *)
(***************************************************************************)
Fairness ==
    /\ SF_vars(Tick)
    /\ \A s \in Sessions :
          /\ WF_vars(Main(s)) /\ SF_vars(Worker(s)) /\ WF_vars(Connects(s))
          /\ WF_vars(ServerHandles(s)) /\ WF_vars(Resends(s))
    /\ \A s \in Wanting : SF_vars(BecomesMaster(s))

FairSpec == Spec /\ Fairness

--------------------------------------------------------------------------------
(***************************************************************************)
(* SetMode: "Only one copy of the instrument software can be in master     *)
(* mode at the same time."                                                 *)
(***************************************************************************)
OneMaster ==
    \A s, t \in Sessions : Acts(s) /\ Acts(t) => s = t

(***************************************************************************)
(* Every master holds the lock, and so there is at most one, unless the    *)
(* server was restarted, a connection was away or a setup change went on   *)
(* longer than the lock lasts, or a refresh or a release failed.  Short    *)
(* interruptions, repeated requests, a refresh that overtakes the release  *)
(* it should have come before, and crashes of others do no harm.           *)
(***************************************************************************)
MastersHoldLock ==
    excused \/ \A s \in Sessions : Acts(s) => lock.owner = s /\ lock.left >= 0

(***************************************************************************)
(* A lock is never lost for good: if from some time on the others are not  *)
(* master and do not try to be, a session that keeps asking becomes        *)
(* master, however the others ended.                                       *)
(***************************************************************************)
LetsGo(r) == mode[r] # "master" /\ main[r] = "idle"

LockComesFree ==
    \A s \in Wanting :
       <>[](\A r \in Sessions \ {s} : LetsGo(r)) => []<>(mode[s] # "slave")

================================================================================
