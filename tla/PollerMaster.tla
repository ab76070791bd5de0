----------------------------- MODULE PollerMaster ------------------------------
(***************************************************************************)
(* The supervisor of the poller processes: the master part of class Poller *)
(* in nicos/services/poller/__init__.py.  The main thread starts a process *)
(* for every setup to poll, then waits for processes that end and restarts *)
(* them.  The thread of the cache client calls _reconfigure when the       *)
(* master loads other setups.  SIGTERM and SIGUSR1 run quit and reload     *)
(* between two steps of the main thread.                                   *)
(*                                                                         *)
(* Popen objects matter: the one that loses its last reference is waited   *)
(* for at once if its process ended, else by the next Popen (loose).       *)
(* The loops over _childpids that only send signals are one step, and      *)
(* pids are not used again.  The master is connected to the cache.         *)
(***************************************************************************)
EXTENDS Naturals, Sequences, FiniteSets

CONSTANTS Setups, Dummy,            \* setups to poll, and "[dummy]"
          Plan,                     \* values of the key session/mastersetup
          Changes,                  \* when the key may change, a subset of
                                    \* {"early", "late"}: before or after the
                                    \* callback is registered
          Autosetup, Poll, Neverpoll, Alwayspoll,  \* the poller's parameters
          Signals,                  \* subset of {"quit", "reload"}, each once
          MaxPids, MaxCrashes       \* bounds

ASSUME PollerAssumption ==
    /\ Dummy \notin Setups
    /\ Plan \in Seq(SUBSET Setups) /\ Plan # <<>>
    /\ Autosetup \in BOOLEAN
    /\ Poll \subseteq Setups /\ Neverpoll \subseteq Setups /\ Alwayspoll \subseteq Setups
    /\ MaxPids \in Nat /\ MaxCrashes \in Nat

VARIABLES setups,       \* _setups
          childpids,    \* keys of _childpids; the value is the process's setup
          children,     \* _children: the pid of the Popen object, 0 for no entry
          stoprequest,  \* _stoprequest
          registered,   \* addCallback was called
          told,         \* index in Plan of the cache client's value
          proc,         \* proc[p]: the process with pid p
          loose,        \* pids in subprocess._active
          thr,          \* program counters of the two threads
          signals,      \* signals not sent yet
          killer,       \* the timer of _quit_master
          crashes       \* processes that ended by themselves, and those
                        \* that will not

vars == <<setups, childpids, children, stoprequest, registered, told, proc,
          loose, thr, signals, killer, crashes>>

Pids == 1..MaxPids
All == Setups \cup {Dummy}
MainSteps == {"read", "create", "children", "childpids", "register", "wait",
              "pop", "del", "decide", "ended", "died"}
CallbackSteps == {"idle", "begin", "kill", "create", "children", "childpids"}
Starting == {"create", "children", "childpids"}

(***************************************************************************)
(* Type correctness.  Once read, _setups is never empty: "[dummy]" is.  The*)
(* timer that kills exists only with the request to stop.                  *)
(***************************************************************************)
TypeOK ==
    /\ setups \subseteq All
    /\ thr["main"].pc # "read" => setups # {}
    /\ childpids \subseteq Pids /\ loose \subseteq Pids
    /\ children \in [All -> Pids \cup {0}]
    /\ {stoprequest, registered} \subseteq BOOLEAN
    /\ told \in DOMAIN Plan
    /\ proc \in [Pids -> [state : {"none", "running", "term", "dead", "gone"}, setup : All]]
    /\ thr \in [{"main", "callback"} ->
                   [pc : MainSteps \cup CallbackSteps, setup : All, pid : Pids \cup {0},
                    todo : SUBSET All, kill : SUBSET All, then : {"register", "wait", "idle"}]]
    /\ signals \subseteq Signals
    /\ killer \in {"off", "armed", "done"} /\ (stoprequest <=> killer # "off")
    /\ crashes \in 0..MaxCrashes

Thread(p, t) == [pc |-> p, setup |-> Dummy, pid |-> 0, todo |-> {}, kill |-> {}, then |-> t]

Init ==
    /\ setups = {} /\ childpids = {} /\ children = [s \in All |-> 0]
    /\ stoprequest = FALSE /\ registered = FALSE
    /\ told \in DOMAIN Plan
    /\ proc = [p \in Pids |-> [state |-> "none", setup |-> Dummy]]
    /\ loose = {}
    /\ thr = [t \in {"main", "callback"} |->
                 IF t = "main" THEN Thread("read", "register") ELSE Thread("idle", "idle")]
    /\ signals \in SUBSET Signals /\ killer = "off" /\ crashes \in 0..MaxCrashes

InState(st) == {p \in Pids : proc[p].state \in st}
At(t, p) == thr[t].pc = p
Goto(t, p) == thr' = [thr EXCEPT ![t].pc = p]

Wanted(loaded) ==
    LET new == ((IF Autosetup THEN loaded ELSE loaded \cap Poll) \ Neverpoll) \cup Alwayspoll
    IN  IF new = {} THEN {Dummy} ELSE new

--------------------------------------------------------------------------------
(***************************************************************************)
(* _start_child, by thread t for one of the setups it has to start.        *)
(***************************************************************************)

\* The Popen object of process p has no reference any more.
Unreferenced(p) ==
    /\ proc' = [q \in Pids |-> IF q = p /\ proc[q].state = "dead"
                               THEN [proc[q] EXCEPT !.state = "gone"] ELSE proc[q]]
    /\ loose' = IF p \in InState({"running", "term"}) THEN loose \cup {p} ELSE loose

Creates(t) ==
    /\ At(t, "create") /\ thr[t].todo # {}
    /\ \E s \in thr[t].todo, p \in InState({"none"}) :
          /\ \A q \in InState({"none"}) : p <= q
          /\ proc' = [q \in Pids |->
                        CASE q = p -> [state |-> "running", setup |-> s]
                          [] q \in loose \cap InState({"dead"}) -> [proc[q] EXCEPT !.state = "gone"]
                          [] OTHER -> proc[q]]
          /\ thr' = [thr EXCEPT ![t].pc = "children", ![t].setup = s, ![t].pid = p,
                                ![t].todo = @ \ {s}]
    /\ loose' = loose \ InState({"dead", "gone"})
    /\ UNCHANGED <<setups, childpids, children, stoprequest, registered, told,
                   signals, killer, crashes>>

Assigns(t) ==
    /\ At(t, "children")
    /\ children' = [children EXCEPT ![thr[t].setup] = thr[t].pid]
    /\ Unreferenced(children[thr[t].setup])
    /\ Goto(t, "childpids")
    /\ UNCHANGED <<setups, childpids, stoprequest, registered, told, signals,
                   killer, crashes>>

\* Mutant: the pid is not recorded.
RecordsNothing(t) ==
    /\ At(t, "childpids")
    /\ Goto(t, "create")
    /\ UNCHANGED <<setups, childpids, children, stoprequest, registered, told, proc,
                   loose, signals, killer, crashes>>

Records(t) ==
    /\ At(t, "childpids")
    /\ childpids' = childpids \cup {thr[t].pid}
    /\ Goto(t, "create")
    /\ UNCHANGED <<setups, children, stoprequest, registered, told, proc, loose,
                   signals, killer, crashes>>

Started(t) ==
    /\ At(t, "create") /\ thr[t].todo = {}
    /\ Goto(t, thr[t].then)
    /\ UNCHANGED <<setups, childpids, children, stoprequest, registered, told, proc,
                   loose, signals, killer, crashes>>

StartChild(t) == Creates(t) \/ Assigns(t) \/ Records(t) \/ Started(t)

--------------------------------------------------------------------------------
(***************************************************************************)
(* The main thread: _start_master, then _wait_master.                      *)
(***************************************************************************)
Reads ==
    /\ At("main", "read")
    /\ setups' = Wanted(Plan[told])
    /\ thr' = [thr EXCEPT !["main"].pc = "create", !["main"].todo = Wanted(Plan[told])]
    /\ UNCHANGED <<childpids, children, stoprequest, registered, told, proc, loose,
                   signals, killer, crashes>>

Registers ==
    /\ At("main", "register")
    /\ registered' = (Autosetup \/ Poll # {})
    /\ thr' = [thr EXCEPT !["main"].pc = "wait", !["main"].then = "wait"]
    /\ UNCHANGED <<setups, childpids, children, stoprequest, told, proc, loose,
                   signals, killer, crashes>>

WaitReturns ==
    /\ At("main", "wait")
    /\ \E p \in InState({"dead"}) :
          /\ proc' = [proc EXCEPT ![p].state = "gone"]
          /\ thr' = [thr EXCEPT !["main"].pc = "pop", !["main"].pid = p]
    /\ UNCHANGED <<setups, childpids, children, stoprequest, registered, told,
                   loose, signals, killer, crashes>>

\* os.wait raises ChildProcessError, which ends the loop and the master.
NoChildLeft ==
    /\ At("main", "wait") /\ InState({"running", "term", "dead"}) = {}
    /\ Goto("main", "ended")
    /\ UNCHANGED <<setups, childpids, children, stoprequest, registered, told, proc,
                   loose, signals, killer, crashes>>

\* A KeyError of pop or del is not handled and ends the master.
Pops ==
    /\ At("main", "pop")
    /\ LET p == thr["main"].pid IN
          IF p \in childpids
          THEN thr' = [thr EXCEPT !["main"].pc = "del", !["main"].setup = proc[p].setup]
          ELSE Goto("main", "died")
    /\ childpids' = childpids \ {thr["main"].pid}
    /\ UNCHANGED <<setups, children, stoprequest, registered, told, proc, loose,
                   signals, killer, crashes>>

Deletes ==
    /\ At("main", "del")
    /\ LET s == thr["main"].setup IN
          /\ Goto("main", IF children[s] # 0 THEN "decide" ELSE "died")
          /\ children' = [children EXCEPT ![s] = 0]
          /\ Unreferenced(children[s])
    /\ UNCHANGED <<setups, childpids, stoprequest, registered, told, signals,
                   killer, crashes>>

\* Mutant: no restart.
DecidesNever ==
    /\ At("main", "decide")
    /\ Goto("main", "wait")
    /\ UNCHANGED <<setups, childpids, children, stoprequest, registered, told, proc,
                   loose, signals, killer, crashes>>

Decides ==
    /\ At("main", "decide")
    /\ IF thr["main"].setup \in setups /\ ~ stoprequest
       THEN thr' = [thr EXCEPT !["main"].pc = "create", !["main"].todo = {thr["main"].setup}]
       ELSE Goto("main", "wait")
    /\ UNCHANGED <<setups, childpids, children, stoprequest, registered, told, proc,
                   loose, signals, killer, crashes>>

MainStep == Reads \/ StartChild("main") \/ Registers \/ WaitReturns \/ NoChildLeft
            \/ Pops \/ Deletes \/ Decides

--------------------------------------------------------------------------------
(***************************************************************************)
(* The thread of the cache client.                                         *)
(***************************************************************************)

\* A new value arrives: it is stored, and given to the callback if there is one.
SetupsChange ==
    /\ At("callback", "idle") /\ told < Len(Plan)
    /\ (IF registered THEN "late" ELSE "early") \in Changes
    /\ told' = told + 1
    /\ Goto("callback", IF registered THEN "begin" ELSE "idle")
    /\ UNCHANGED <<setups, childpids, children, stoprequest, registered, proc, loose,
                   signals, killer, crashes>>

\* Mutants: all the new setups are started; _setups keeps its old value.
ReconfiguresAll ==
    /\ At("callback", "begin")
    /\ LET new == Wanted(Plan[told]) IN
          /\ setups' = new
          /\ thr' = [thr EXCEPT !["callback"].pc = "kill", !["callback"].kill = setups \ new,
                                !["callback"].todo = new]
    /\ UNCHANGED <<childpids, children, stoprequest, registered, told, proc, loose,
                   signals, killer, crashes>>

ReconfiguresOld ==
    /\ At("callback", "begin")
    /\ LET new == Wanted(Plan[told]) IN
          thr' = [thr EXCEPT !["callback"].pc = "kill", !["callback"].kill = setups \ new,
                             !["callback"].todo = new \ setups]
    /\ UNCHANGED <<setups, childpids, children, stoprequest, registered, told, proc,
                   loose, signals, killer, crashes>>

Reconfigures ==
    /\ At("callback", "begin")
    /\ LET new == Wanted(Plan[told]) IN
          /\ setups' = new
          /\ thr' = [thr EXCEPT !["callback"].pc = "kill", !["callback"].kill = setups \ new,
                                !["callback"].todo = new \ setups]
    /\ UNCHANGED <<childpids, children, stoprequest, registered, told, proc, loose,
                   signals, killer, crashes>>

\* No entry in _children (KeyError), or a process that was waited for
\* (ProcessLookupError), ends the callback: nothing is started.
Kills ==
    /\ At("callback", "kill")
    /\ \E s \in thr["callback"].kill :
          LET p == children[s] IN
          IF p = 0 \/ p \in InState({"gone"})
          THEN thr' = [thr EXCEPT !["callback"] = Thread("idle", "idle")] /\ UNCHANGED proc
          ELSE /\ thr' = [thr EXCEPT !["callback"].kill = @ \ {s}]
               /\ proc' = IF p \in InState({"running"})
                          THEN [proc EXCEPT ![p].state = "term"] ELSE proc
    /\ UNCHANGED <<setups, childpids, children, stoprequest, registered, told, loose,
                   signals, killer, crashes>>

Killed ==
    /\ At("callback", "kill") /\ thr["callback"].kill = {}
    /\ Goto("callback", "create")
    /\ UNCHANGED <<setups, childpids, children, stoprequest, registered, told, proc,
                   loose, signals, killer, crashes>>

CallbackStep == Reconfigures \/ Kills \/ Killed \/ StartChild("callback")

--------------------------------------------------------------------------------
(***************************************************************************)
(* Signals to the master, its timer, and the processes.                    *)
(***************************************************************************)
Terminated(ps) ==
    [p \in Pids |-> IF p \in ps \cap InState({"running"})
                    THEN [proc[p] EXCEPT !.state = "term"] ELSE proc[p]]

MainRuns == thr["main"].pc \notin {"ended", "died"}

\* Mutant: the request to stop is not recorded.
QuitForgets ==
    /\ "quit" \in signals /\ MainRuns
    /\ proc' = Terminated(childpids)
    /\ killer' = "armed"
    /\ signals' = signals \ {"quit"}
    /\ UNCHANGED <<setups, childpids, children, stoprequest, registered, told, loose,
                   thr, crashes>>

Quit ==
    /\ "quit" \in signals /\ MainRuns
    /\ stoprequest' = TRUE
    /\ proc' = Terminated(childpids)
    /\ killer' = "armed"
    /\ signals' = signals \ {"quit"}
    /\ UNCHANGED <<setups, childpids, children, registered, told, loose, thr, crashes>>

Reload ==
    /\ "reload" \in signals /\ MainRuns
    /\ proc' = Terminated(childpids)
    /\ signals' = signals \ {"reload"}
    /\ UNCHANGED <<setups, childpids, children, stoprequest, registered, told, loose,
                   thr, killer, crashes>>

\* After 4 seconds; no thread takes that long to start its processes.
KillAll ==
    /\ killer = "armed"
    /\ \A t \in {"main", "callback"} : thr[t].pc \notin Starting \cup {"ended", "died", "read"}
    /\ proc' = [p \in Pids |-> IF p \in childpids \cap InState({"running", "term"})
                               THEN [proc[p] EXCEPT !.state = "dead"] ELSE proc[p]]
    /\ killer' = "done"
    /\ UNCHANGED <<setups, childpids, children, stoprequest, registered, told, loose,
                   thr, signals, crashes>>

\* A process ends after SIGTERM, or by itself: a crash, or its setup file changed.
Exits(p) ==
    /\ proc[p].state = "term"
    /\ proc' = [proc EXCEPT ![p].state = "dead"]
    /\ UNCHANGED <<setups, childpids, children, stoprequest, registered, told, loose,
                   thr, signals, killer, crashes>>

Crashes(p) ==
    /\ proc[p].state = "running" /\ crashes < MaxCrashes
    /\ proc' = [proc EXCEPT ![p].state = "dead"]
    /\ crashes' = crashes + 1
    /\ UNCHANGED <<setups, childpids, children, stoprequest, registered, told, loose,
                   thr, signals, killer>>

Next ==
    \/ MainStep \/ CallbackStep \/ SetupsChange
    \/ Quit \/ Reload \/ KillAll
    \/ \E p \in Pids : Exits(p) \/ Crashes(p)

Spec == Init /\ [][Next]_vars

\* The threads and the timer run, and a process obeys SIGTERM.
Fairness ==
    /\ WF_vars(MainStep) /\ WF_vars(CallbackStep) /\ WF_vars(KillAll)
    /\ \A p \in Pids : WF_vars(Exits(p))

FairSpec == Spec /\ Fairness

--------------------------------------------------------------------------------
(***************************************************************************)
(* What properties assume.  Processes do not end by themselves or by a     *)
(* signal while the setups change: either of the two threads may raise     *)
(* then.  No setup is dropped and wanted again, since its old process may  *)
(* still run.  One setup is wanted all the time: if all are replaced, the  *)
(* main thread may find no process left before the new ones are started.   *)
(***************************************************************************)
OneTrouble == told = Len(Plan) \/ (signals = {} /\ crashes = MaxCrashes)

NoneComesBack ==
    \A i, j, k \in DOMAIN Plan :
        i <= j /\ j <= k => Wanted(Plan[i]) \cap Wanted(Plan[k]) \subseteq Wanted(Plan[j])

OneStays == \E s \in All : \A i \in DOMAIN Plan : s \in Wanted(Plan[i])

CalmInit == Init /\ OneTrouble
CalmSpec == CalmInit /\ [][Next]_vars

--------------------------------------------------------------------------------
(***************************************************************************)
(* Properties                                                              *)
(***************************************************************************)
Polled == {proc[p].setup : p \in InState({"running"})}

\* Everything that was going on is over and the master waits.
Settled ==
    /\ At("main", "wait") /\ At("callback", "idle")
    /\ InState({"term", "dead"}) = {} /\ ~ stoprequest

\* What the poller's parameters ask for, given the setups of the master.
AsConfigured ==
    \A s \in Setups :
        s \in Polled <=> \/ s \in Alwayspoll
                         \/ /\ s \in Plan[told] /\ s \notin Neverpoll
                            /\ Autosetup \/ s \in Poll

(***************************************************************************)
(* There is one process for each setup that is polled: no two processes    *)
(* that nobody asked to end poll the same setup.                           *)
(***************************************************************************)
OnePerSetup ==
    \A p, q \in InState({"running"}) : proc[p].setup = proc[q].setup => p = q

(***************************************************************************)
(* When everything has settled, the setups polled are those the master has *)
(* loaded, filtered by the poller's parameters.                            *)
(***************************************************************************)
Reflects == Settled => AsConfigured

(***************************************************************************)
(* The master ends only because it was asked to.                           *)
(***************************************************************************)
MasterSurvives == MainRuns \/ (At("main", "ended") /\ stoprequest)

(***************************************************************************)
(* Whatever crashed, was reloaded or changed: in the end everything that   *)
(* should be polled is, and by a process that the master knows, unless it  *)
(* was asked to quit.                                                      *)
(***************************************************************************)
CatchesUp == <>[](stoprequest \/ (AsConfigured /\ InState({"running"}) = childpids))

(***************************************************************************)
(* After a request to quit, all processes end and then the master.         *)
(***************************************************************************)
QuitEnds == (killer # "off") ~> At("main", "ended")
================================================================================
