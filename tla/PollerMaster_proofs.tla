-------------------------- MODULE PollerMaster_proofs ---------------------------
(***************************************************************************)
(* Proofs about PollerMaster, for any setups, parameters, changes, crashes *)
(* and number of processes.                                                *)
(***************************************************************************)
EXTENDS PollerMaster, TLAPS

--------------------------------------------------------------------------------
(***************************************************************************)
(* main and callback are the states of the two threads.  A process is live *)
(* until it was waited for.  Rest is the inductive invariant, but for the  *)
(* types, of the results about one kind of trouble at a time.              *)
(***************************************************************************)
main == thr["main"]
callback == thr["callback"]
Live == InState({"running", "term", "dead"})
Polls(s) == \E p \in Live : proc[p].setup = s

\* The setup whose process was waited for and is not yet started again.
Ended == IF main.pc = "pop" THEN {proc[main.pid].setup}
         ELSE IF main.pc \in {"del", "decide"} THEN {main.setup} ELSE {}

\* Thread t has started a process that is not yet in _childpids.
Fresh(t) == thr[t].pc \in {"children", "childpids"}

\* Nothing changes any more.
Static == callback.pc = "idle" /\ told = Len(Plan)

Phases ==
    /\ main.pc \in MainSteps /\ callback.pc \in CallbackSteps /\ callback.then = "idle"
    /\ main.then \in {"register", "wait"}
    /\ main.then = "register" => main.pc \in {"read", "register"} \cup Starting /\ ~ registered
    /\ main.then = "wait" => main.pc \notin {"read", "register"}
    /\ main.todo # {} => main.pc \in Starting
    /\ callback.todo # {} => callback.pc \in Starting \cup {"kill"}
    /\ callback.kill # {} => callback.pc = "kill"
    /\ callback.pc # "idle" => registered
    /\ registered /\ main.pc \in Starting => Static
    /\ main.pc = "read" => setups = {} /\ Live = {}

\* _setups is what the key asked for, then or now.
Reading ==
    /\ main.pc # "read" => \E i \in 1..told : setups = Wanted(Plan[i])
    /\ Changes \subseteq {"late"} /\ main.pc # "read" /\ callback.pc # "begin" =>
          setups = Wanted(Plan[told])
    /\ main.todo \subseteq setups /\ callback.todo \subseteq setups
    /\ \A s \in callback.todo : \E i \in 1..told : s \notin Wanted(Plan[i])

(***************************************************************************)
(* A setup has one live process, or is to get one, or its process ended.   *)
(***************************************************************************)
OneEach ==
    /\ \A p, q \in Live : proc[p].setup = proc[q].setup => p = q
    /\ \A p \in Live : proc[p].setup \notin main.todo \cup callback.todo \cup Ended
    /\ Ended \cap callback.todo = {}
    /\ \A p \in InState({"running"}) : proc[p].setup \in setups \cup callback.kill

Covered ==
    main.pc # "read" /\ ~ stoprequest =>
        \A s \in setups : s \in main.todo \cup callback.todo \cup Ended \/ Polls(s)

(***************************************************************************)
(* _childpids and _children know every live process, but one that was just *)
(* started, and the process that was waited for.                           *)
(***************************************************************************)
Known ==
    /\ loose = {}
    /\ \A p \in Live : p \in childpids \/ \E t \in {"main", "callback"} : Fresh(t) /\ thr[t].pid = p
    /\ \A t \in {"main", "callback"} : Fresh(t) =>
          thr[t].pid \in Live /\ proc[thr[t].pid].setup = thr[t].setup
    /\ Fresh("callback") => callback.pid \in InState({"running"})
    /\ main.pc = "pop" => main.pid \in childpids
    /\ main.pc \in {"pop", "del"} => main.pid \in InState({"gone"})
    /\ main.pc = "del" => main.setup = proc[main.pid].setup
    /\ main.pc # "died"

Entries ==
    /\ \A s \in All : children[s] # 0 =>
          /\ proc[children[s]].setup = s
          /\ \/ children[s] \in Live
             \/ main.pc \in {"pop", "del"} /\ main.pid = children[s]
    /\ \A p \in Live : \/ children[proc[p].setup] = p
                       \/ \E t \in {"main", "callback"} : At(t, "children") /\ thr[t].pid = p
    /\ \A t \in {"main", "callback"} : At(t, "children") => children[thr[t].setup] = 0
    /\ main.pc \in {"pop", "del"} => children[proc[main.pid].setup] = main.pid

(***************************************************************************)
(* Either nothing changes any more, or only processes end that the callback*)
(* has told to, since their setups were dropped for good.                  *)
(***************************************************************************)
Dropped(s) == s \notin setups /\ \A k \in told..Len(Plan) : s \notin Wanted(Plan[k])

Dropping ==
    /\ signals = {} /\ crashes = MaxCrashes /\ killer = "off"
    /\ \A p \in InState({"term", "dead"}) : Dropped(proc[p].setup)
    /\ \A s \in Ended \cup callback.kill : Dropped(s)
    /\ \A s \in callback.kill : \E p \in InState({"running"}) : proc[p].setup = s

Trouble == Static \/ Dropping

Rest == Phases /\ Reading /\ OneEach /\ Covered /\ Known /\ Entries /\ Trouble

IInv == TypeOK /\ Rest

--------------------------------------------------------------------------------
(***************************************************************************)
(* Types of threads and processes, and what an action does to one of them. *)
(***************************************************************************)
Threads == {"main", "callback"}
Steps == MainSteps \cup CallbackSteps
Record == [pc : Steps, setup : All, pid : Pids \cup {0}, todo : SUBSET All,
           kill : SUBSET All, then : {"register", "wait", "idle"}]
Process == [state : {"none", "running", "term", "dead", "gone"}, setup : All]

Now(t, p, s, i, td, k, th) ==
    /\ thr' \in [Threads -> Record]
    /\ thr'[t].pc = p /\ thr'[t].setup = s /\ thr'[t].pid = i
    /\ thr'[t].todo = td /\ thr'[t].kill = k /\ thr'[t].then = th
    /\ \A u \in Threads : u # t => thr'[u] = thr[u]

Goes(t, p) == Now(t, p, thr[t].setup, thr[t].pid, thr[t].todo, thr[t].kill, thr[t].then)

Becomes(ps, st) ==
    /\ proc' \in [Pids -> Process]
    /\ \A q \in Pids : /\ proc'[q].setup = proc[q].setup
                       /\ proc'[q].state = IF q \in ps THEN st ELSE proc[q].state

LEMMA WantedIs ==
    ASSUME NEW S, S \subseteq Setups
    PROVE  Wanted(S) \subseteq All /\ Wanted(S) # {}
BY PollerAssumption DEF Wanted, All

LEMMA PlanIs ==
    ASSUME NEW i \in DOMAIN Plan
    PROVE  /\ Plan[i] \subseteq Setups /\ Wanted(Plan[i]) \subseteq All /\ Wanted(Plan[i]) # {}
           /\ i \in Nat /\ i >= 1 /\ i <= Len(Plan) /\ Len(Plan) \in Nat
<1>1. Plan[i] \subseteq Setups /\ i \in 1..Len(Plan) /\ Len(Plan) \in Nat
  BY PollerAssumption
<1> QED
  BY <1>1, WantedIs

LEMMA Typing ==
    ASSUME TypeOK
    PROVE  /\ thr \in [Threads -> Record] /\ proc \in [Pids -> Process]
           /\ children \in [All -> Pids \cup {0}] /\ setups \subseteq All
           /\ Wanted(Plan[told]) \in SUBSET All /\ Wanted(Plan[told]) # {}
           /\ told \in Nat /\ told >= 1 /\ told <= Len(Plan) /\ Len(Plan) \in Nat
<1>1. thr \in [Threads -> Record] /\ proc \in [Pids -> Process]
  BY DEF TypeOK, Threads, Record, Steps, Process
<1> QED
  BY <1>1, PlanIs DEF TypeOK

LEMMA TypeInit == Init => TypeOK
<1> SUFFICES ASSUME Init PROVE TypeOK
  OBVIOUS
<1>1. Dummy \in All /\ 0 \in Pids \cup {0}
  BY DEF All
<1>2. thr \in [Threads -> Record]
  <2>1. Thread("read", "register") \in Record /\ Thread("idle", "idle") \in Record
    BY <1>1 DEF Thread, Record, Steps, MainSteps, CallbackSteps
  <2> QED
    BY <2>1 DEF Init, Threads
<1>3. proc \in [Pids -> Process]
  BY <1>1 DEF Init, Process
<1>4. thr["main"].pc = "read"
  BY DEF Init, Thread
<1> QED
  BY <1>1, <1>2, <1>3, <1>4 DEF Init, TypeOK, Record, Process, Threads, Steps

(***************************************************************************)
(* What the actions do to threads and processes.                           *)
(***************************************************************************)
LEMMA GotoDoes ==
    ASSUME thr \in [Threads -> Record], NEW t \in Threads, NEW p \in Steps, Goto(t, p)
    PROVE  Goes(t, p)
BY DEF Goto, Goes, Now, Record

LEMMA ReadsDoes ==
    ASSUME TypeOK, Reads
    PROVE  Now("main", "create", main.setup, main.pid, Wanted(Plan[told]), main.kill, main.then)
<1>1. thr \in [Threads -> Record] /\ Wanted(Plan[told]) \in SUBSET All
  BY Typing
<1> QED
  BY <1>1 DEF Reads, Now, main, Record, Steps, MainSteps, Threads

LEMMA RegistersDoes ==
    ASSUME TypeOK, Registers
    PROVE  Now("main", "wait", main.setup, main.pid, main.todo, main.kill, "wait")
<1>1. thr \in [Threads -> Record]
  BY Typing
<1> QED
  BY <1>1 DEF Registers, Now, main, Record, Steps, MainSteps, Threads

LEMMA WaitReturnsDoes ==
    ASSUME TypeOK, WaitReturns
    PROVE  \E p \in InState({"dead"}) :
              /\ Becomes({p}, "gone")
              /\ Now("main", "pop", main.setup, p, main.todo, main.kill, main.then)
<1>1. PICK p \in InState({"dead"}) :
         /\ proc' = [proc EXCEPT ![p].state = "gone"]
         /\ thr' = [thr EXCEPT !["main"].pc = "pop", !["main"].pid = p]
  BY DEF WaitReturns
<1>2. p \in Pids
  BY DEF InState
<1>3. Becomes({p}, "gone")
  BY <1>1, <1>2, Typing DEF Becomes, Process
<1>4. Now("main", "pop", main.setup, p, main.todo, main.kill, main.then)
  <2>1. thr \in [Threads -> Record]
    BY Typing
  <2> QED
    BY <1>1, <1>2, <2>1 DEF Now, main, Record, Steps, MainSteps, Threads
<1> QED
  BY <1>3, <1>4

LEMMA PopsDoes ==
    ASSUME TypeOK, Pops
    PROVE  \/ /\ main.pid \in childpids
              /\ Now("main", "del", proc[main.pid].setup, main.pid, main.todo, main.kill, main.then)
           \/ main.pid \notin childpids /\ Goes("main", "died")
<1>1. main.pid \in childpids => proc[main.pid].setup \in All
  BY Typing DEF TypeOK, Process
<1> QED
  BY <1>1, Typing DEF Pops, Goto, Goes, Now, main, Record, Steps, MainSteps, Threads

LEMMA UnreferencedDoes ==
    ASSUME TypeOK, NEW p \in Pids \cup {0}, Unreferenced(p)
    PROVE  /\ proc' \in [Pids -> Process] /\ loose' \subseteq Pids
           /\ loose = {} /\ p \notin Live => proc' = proc /\ loose' = {}
<1>1. \A q \in Pids : proc[q] \in Process /\ [proc[q] EXCEPT !.state = "gone"] \in Process
  BY Typing DEF Process
<1>2. proc' \in [Pids -> Process]
  BY <1>1 DEF Unreferenced
<1>3. loose' \subseteq Pids
  BY DEF Unreferenced, InState, TypeOK
<1>4. p \notin Live => \A q \in Pids : ~ (q = p /\ proc[q].state = "dead")
  BY DEF Live, InState
<1>5. p \notin Live => proc' = proc
  BY <1>4, Typing DEF Unreferenced
<1>6. p \notin Live => p \notin InState({"running", "term"})
  BY DEF Live, InState
<1> QED
  BY <1>2, <1>3, <1>5, <1>6 DEF Unreferenced

LEMMA DeletesDoes ==
    ASSUME TypeOK, Deletes
    PROVE  /\ Goes("main", IF children[main.setup] # 0 THEN "decide" ELSE "died")
           /\ Unreferenced(children[main.setup])
           /\ children' \in [All -> Pids \cup {0}] /\ children'[main.setup] = 0
           /\ \A s \in All : s # main.setup => children'[s] = children[s]
           /\ main.setup \in All /\ children[main.setup] \in Pids \cup {0}
<1>1. main.setup \in All /\ children \in [All -> Pids \cup {0}]
  BY Typing DEF main, Threads, Record, TypeOK
<1> QED
  BY <1>1, Typing, GotoDoes DEF Deletes, main, Threads, Steps, MainSteps

LEMMA DecidesDoes ==
    ASSUME TypeOK, Decides
    PROVE  \/ /\ main.setup \in setups /\ ~ stoprequest
              /\ Now("main", "create", main.setup, main.pid, {main.setup}, main.kill, main.then)
           \/ ~ (main.setup \in setups /\ ~ stoprequest) /\ Goes("main", "wait")
BY Typing DEF Decides, Goto, Goes, Now, main, Record, Steps, MainSteps, Threads

LEMMA CreatesDoes ==
    ASSUME TypeOK, NEW t \in Threads, Creates(t)
    PROVE  /\ proc' \in [Pids -> Process]
           /\ \E s \in thr[t].todo, p \in InState({"none"}) :
                 /\ Now(t, "children", s, p, thr[t].todo \ {s}, thr[t].kill, thr[t].then)
                 /\ proc'[p].state = "running" /\ proc'[p].setup = s
                 /\ loose = {} => \A q \in Pids : q # p => proc'[q] = proc[q]
<1>1. PICK s \in thr[t].todo, p \in InState({"none"}) :
          /\ proc' = [q \in Pids |->
                        CASE q = p -> [state |-> "running", setup |-> s]
                          [] q \in loose \cap InState({"dead"}) -> [proc[q] EXCEPT !.state = "gone"]
                          [] OTHER -> proc[q]]
          /\ thr' = [thr EXCEPT ![t].pc = "children", ![t].setup = s, ![t].pid = p,
                                ![t].todo = @ \ {s}]
  BY DEF Creates
<1>2. s \in All /\ p \in Pids /\ proc[p].state = "none"
  BY Typing DEF Record, InState
<1>3. Now(t, "children", s, p, thr[t].todo \ {s}, thr[t].kill, thr[t].then)
  BY <1>1, <1>2, Typing DEF Now, Record, Steps, CallbackSteps
<1>4. \A q \in Pids : proc[q] \in Process /\ [proc[q] EXCEPT !.state = "gone"] \in Process
  BY Typing DEF Process
<1>5. [state |-> "running", setup |-> s] \in Process
  BY <1>2 DEF Process
<1>6. proc'[p].state = "running" /\ proc'[p].setup = s /\ proc'[p] \in Process
  <2> DEFINE new(q) == CASE q = p -> [state |-> "running", setup |-> s]
                          [] q \in loose \cap InState({"dead"}) -> [proc[q] EXCEPT !.state = "gone"]
                          [] OTHER -> proc[q]
  <2>1. new(p) = [state |-> "running", setup |-> s]
    <3>1. p \notin InState({"dead"})
      BY <1>2 DEF InState
    <3> QED
      BY <3>1
  <2>2. proc' = [q \in Pids |-> new(q)]
    BY <1>1
  <2> HIDE DEF new
  <2> QED
    BY <1>2, <1>5, <2>1, <2>2
<1>7. ASSUME NEW q \in Pids, q # p
      PROVE  /\ q \notin loose \cap InState({"dead"}) => proc'[q] = proc[q]
             /\ q \in loose \cap InState({"dead"}) =>
                   proc'[q] = [proc[q] EXCEPT !.state = "gone"]
  BY <1>1, <1>7
<1>8. proc' \in [Pids -> Process]
  <2>1. \A q \in Pids : proc'[q] \in Process
    BY <1>4, <1>5, <1>6, <1>7
  <2> QED
    BY <1>1, <2>1
<1> QED
  BY <1>2, <1>3, <1>6, <1>7, <1>8

LEMMA AssignsDoes ==
    ASSUME TypeOK, NEW t \in Threads, Assigns(t)
    PROVE  /\ Goes(t, "childpids")
           /\ Unreferenced(children[thr[t].setup])
           /\ children' \in [All -> Pids \cup {0}] /\ children'[thr[t].setup] = thr[t].pid
           /\ \A s \in All : s # thr[t].setup => children'[s] = children[s]
           /\ thr[t].setup \in All /\ children[thr[t].setup] \in Pids \cup {0}
<1>1. /\ thr[t].setup \in All /\ thr[t].pid \in Pids \cup {0}
      /\ children \in [All -> Pids \cup {0}]
  BY Typing DEF Record, TypeOK
<1> QED
  BY <1>1, Typing, GotoDoes DEF Assigns, Steps, CallbackSteps

LEMMA RecordsDoes ==
    ASSUME TypeOK, NEW t \in Threads, Records(t)
    PROVE  Goes(t, "create")
BY Typing, GotoDoes DEF Records, Steps, CallbackSteps

LEMMA StartedDoes ==
    ASSUME TypeOK, NEW t \in Threads, Started(t)
    PROVE  Goes(t, thr[t].then)
<1>1. thr[t].then \in Steps
  BY Typing DEF Record, Steps, MainSteps, CallbackSteps
<1> QED
  BY <1>1, Typing, GotoDoes DEF Started

LEMMA NoChildLeftDoes ==
    ASSUME TypeOK, NoChildLeft
    PROVE  Goes("main", "ended")
BY Typing, GotoDoes DEF NoChildLeft, Steps, MainSteps, Threads

LEMMA SetupsChangeDoes ==
    ASSUME TypeOK, SetupsChange
    PROVE  /\ Goes("callback", IF registered THEN "begin" ELSE "idle")
           /\ told' = told + 1 /\ told + 1 \in DOMAIN Plan
<1>1. told + 1 \in DOMAIN Plan
  BY Typing, PollerAssumption DEF SetupsChange
<1> QED
  BY <1>1, Typing, GotoDoes DEF SetupsChange, Steps, CallbackSteps, Threads

LEMMA ReconfiguresDoes ==
    ASSUME TypeOK, Reconfigures
    PROVE  Now("callback", "kill", callback.setup, callback.pid, Wanted(Plan[told]) \ setups,
               setups \ Wanted(Plan[told]), callback.then)
<1> DEFINE new == Wanted(Plan[told]) \ setups
           old == setups \ Wanted(Plan[told])
<1>1. new \in SUBSET All /\ old \in SUBSET All
  BY Typing DEF TypeOK
<1>2. thr \in [Threads -> Record]
  BY Typing
<1>3. thr' = [thr EXCEPT !["callback"].pc = "kill", !["callback"].kill = old,
                         !["callback"].todo = new]
  BY DEF Reconfigures
<1> HIDE DEF new, old
<1>4. thr["callback"] \in Record /\ "callback" \in Threads /\ "kill" \in Steps
  BY <1>2 DEF Threads, Steps, CallbackSteps
<1>5. /\ \A u \in Threads : u # "callback" => thr'[u] = thr[u]
      /\ thr'["callback"] = [thr["callback"] EXCEPT !.pc = "kill", !.kill = old, !.todo = new]
      /\ DOMAIN thr' = Threads /\ thr' = [u \in Threads |-> thr'[u]]
  BY <1>2, <1>3, <1>4
<1>6. /\ thr'["callback"] \in Record
      /\ thr'["callback"].pc = "kill" /\ thr'["callback"].kill = old
      /\ thr'["callback"].todo = new /\ thr'["callback"].setup = callback.setup
      /\ thr'["callback"].pid = callback.pid /\ thr'["callback"].then = callback.then
  BY <1>1, <1>4, <1>5 DEF Record, callback
<1>7. \A u \in Threads : thr'[u] \in Record
  BY <1>2, <1>5, <1>6
<1>8. Now("callback", "kill", callback.setup, callback.pid, new, old, callback.then)
  BY <1>5, <1>6, <1>7 DEF Now
<1> QED
  BY <1>8 DEF new, old

LEMMA KillsDoes ==
    ASSUME TypeOK, Kills
    PROVE  \E s \in callback.kill :
              \/ /\ children[s] = 0 \/ children[s] \in InState({"gone"})
                 /\ Now("callback", "idle", Dummy, 0, {}, {}, "idle")
                 /\ proc' = proc
              \/ /\ children[s] \in Pids /\ children[s] \notin InState({"gone"})
                 /\ Now("callback", "kill", callback.setup, callback.pid, callback.todo,
                        callback.kill \ {s}, callback.then)
                 /\ Becomes({children[s]} \cap InState({"running"}), "term")
<1>1. PICK s \in callback.kill :
          LET p == children[s] IN
          IF p = 0 \/ p \in InState({"gone"})
          THEN thr' = [thr EXCEPT !["callback"] = Thread("idle", "idle")] /\ UNCHANGED proc
          ELSE /\ thr' = [thr EXCEPT !["callback"].kill = @ \ {s}]
               /\ proc' = IF p \in InState({"running"})
                          THEN [proc EXCEPT ![p].state = "term"] ELSE proc
  BY DEF Kills, callback
<1>2. s \in All /\ children[s] \in Pids \cup {0}
  BY Typing DEF TypeOK, Threads, Record, callback
<1>3. CASE children[s] = 0 \/ children[s] \in InState({"gone"})
  <2>1. Thread("idle", "idle") \in Record
    BY DEF Thread, Record, Steps, CallbackSteps, All
  <2>2. thr' = [thr EXCEPT !["callback"] = Thread("idle", "idle")]
    BY <1>1, <1>3
  <2>3. Now("callback", "idle", Dummy, 0, {}, {}, "idle")
    <3>1. thr' \in [Threads -> Record] /\ thr'["callback"] = Thread("idle", "idle")
          /\ thr'["main"] = thr["main"]
      BY <2>1, <2>2, Typing DEF Threads
    <3> QED
      BY <3>1 DEF Now, Threads, Thread
  <2> QED
    BY <1>1, <1>3, <2>3
<1>4. CASE ~ (children[s] = 0 \/ children[s] \in InState({"gone"}))
  <2>1. callback.pc = "kill"
    BY DEF Kills, At, callback
  <2>2. Now("callback", "kill", callback.setup, callback.pid, callback.todo,
            callback.kill \ {s}, callback.then)
    BY <1>1, <1>4, <2>1, Typing DEF Now, Threads, Record, callback
  <2>3. Becomes({children[s]} \cap InState({"running"}), "term")
    <3>1. CASE children[s] \in InState({"running"})
      BY <1>1, <1>2, <1>4, <3>1, Typing DEF Becomes, Process
    <3>2. CASE children[s] \notin InState({"running"})
      BY <1>1, <1>2, <1>4, <3>2, Typing DEF Becomes
    <3> QED
      BY <3>1, <3>2
  <2> QED
    BY <1>2, <1>4, <2>2, <2>3
<1> QED
  BY <1>3, <1>4

LEMMA KilledDoes ==
    ASSUME TypeOK, Killed
    PROVE  Goes("callback", "create")
BY Typing, GotoDoes DEF Killed, Steps, CallbackSteps, Threads

LEMMA TerminatedDoes ==
    ASSUME TypeOK, NEW ps, proc' = Terminated(ps)
    PROVE  Becomes(ps \cap InState({"running"}), "term")
<1>1. \A q \in Pids : proc[q] \in Process /\ [proc[q] EXCEPT !.state = "term"] \in Process
  BY Typing DEF Process
<1>2. proc' \in [Pids -> Process]
  BY <1>1 DEF Terminated
<1> QED
  BY <1>1, <1>2 DEF Terminated, Becomes, Process

LEMMA KillAllDoes ==
    ASSUME TypeOK, KillAll
    PROVE  Becomes(childpids \cap InState({"running", "term"}), "dead")
<1>1. \A q \in Pids : proc[q] \in Process /\ [proc[q] EXCEPT !.state = "dead"] \in Process
  BY Typing DEF Process
<1>2. proc' \in [Pids -> Process]
  BY <1>1 DEF KillAll
<1> QED
  BY <1>1, <1>2 DEF KillAll, Becomes, Process

LEMMA ExitsDoes ==
    ASSUME TypeOK, NEW p \in Pids, Exits(p) \/ Crashes(p)
    PROVE  Becomes({p}, "dead")
BY Typing DEF Exits, Crashes, Becomes, Process


(***************************************************************************)
(* Type correctness, whatever crashes and changes.                         *)
(***************************************************************************)
LEMMA TypesKept ==
    ASSUME thr' \in [Threads -> Record], proc' \in [Pids -> Process]
    PROVE  /\ (thr \in [{"main", "callback"} ->
                   [pc : MainSteps \cup CallbackSteps, setup : All, pid : Pids \cup {0},
                    todo : SUBSET All, kill : SUBSET All, then : {"register", "wait", "idle"}]])'
           /\ (proc \in [Pids -> [state : {"none", "running", "term", "dead", "gone"}, setup : All]])'
BY DEF Threads, Record, Steps, Process

\* A thread that starts a process has its pid.
HasPid == \A t \in Threads : Fresh(t) => thr[t].pid # 0

LEMMA TypeStep == TypeOK /\ HasPid /\ [Next]_vars => TypeOK'
<1> SUFFICES ASSUME TypeOK, HasPid, [Next]_vars PROVE TypeOK'
  OBVIOUS
<1>t. /\ thr \in [Threads -> Record] /\ proc \in [Pids -> Process]
      /\ Wanted(Plan[told]) \subseteq All /\ Wanted(Plan[told]) # {}
  BY Typing
<1> USE PollerAssumption, TypesKept DEF At
<1>1. CASE Reads
  <2>1. thr' \in [Threads -> Record] /\ proc' \in [Pids -> Process]
    BY <1>1, <1>t, ReadsDoes DEF Reads, Now, Goes, Becomes
  <2> QED
    BY <1>1, <1>t, <2>1, ReadsDoes DEF Reads, TypeOK, Now
<1>2. CASE Registers
  <2>1. thr' \in [Threads -> Record] /\ proc' \in [Pids -> Process]
    BY <1>2, <1>t, RegistersDoes DEF Registers, Now, Goes, Becomes
  <2> QED
    BY <1>2, <1>t, <2>1, RegistersDoes DEF Registers, TypeOK, Now
<1>3. CASE WaitReturns
  <2>1. thr' \in [Threads -> Record] /\ proc' \in [Pids -> Process]
    BY <1>3, <1>t, WaitReturnsDoes DEF WaitReturns, Now, Goes, Becomes
  <2> QED
    BY <1>3, <1>t, <2>1, WaitReturnsDoes DEF WaitReturns, TypeOK, Now
<1>4. CASE NoChildLeft
  <2>1. thr' \in [Threads -> Record] /\ proc' \in [Pids -> Process]
    BY <1>4, <1>t, NoChildLeftDoes DEF NoChildLeft, Now, Goes, Becomes
  <2> QED
    BY <1>4, <1>t, <2>1 DEF NoChildLeft, TypeOK
<1>5. CASE Pops
  <2>1. thr' \in [Threads -> Record] /\ proc' \in [Pids -> Process]
    BY <1>5, <1>t, PopsDoes DEF Pops, Now, Goes, Becomes
  <2> QED
    BY <1>5, <1>t, <2>1 DEF Pops, TypeOK
<1>6. CASE Deletes
  <2>1. thr' \in [Threads -> Record] /\ proc' \in [Pids -> Process]
    BY <1>6, <1>t, DeletesDoes, UnreferencedDoes DEF Deletes, Now, Goes, Becomes
  <2> QED
    BY <1>6, <1>t, <2>1, DeletesDoes, UnreferencedDoes DEF Deletes, TypeOK
<1>7. CASE Decides
  <2>1. thr' \in [Threads -> Record] /\ proc' \in [Pids -> Process]
    BY <1>7, <1>t, DecidesDoes DEF Decides, Now, Goes, Becomes
  <2> QED
    BY <1>7, <1>t, <2>1 DEF Decides, TypeOK
<1>8. ASSUME NEW t \in Threads, Creates(t) PROVE TypeOK'
  <2>1. thr' \in [Threads -> Record] /\ proc' \in [Pids -> Process]
    BY <1>8, <1>t, CreatesDoes DEF Creates, Now, Goes, Becomes
  <2> QED
    BY <1>8, <1>t, <2>1, CreatesDoes DEF Creates, TypeOK, Now, Threads
<1>9. ASSUME NEW t \in Threads, Assigns(t) PROVE TypeOK'
  <2>1. thr' \in [Threads -> Record] /\ proc' \in [Pids -> Process]
    <3>1. /\ thr' \in [Threads -> Record] /\ Unreferenced(children[thr[t].setup])
          /\ children[thr[t].setup] \in Pids \cup {0}
      BY <1>9, AssignsDoes DEF Goes, Now
    <3> QED
      BY <3>1, UnreferencedDoes
  <2>2. loose' \subseteq Pids /\ children' \in [All -> Pids \cup {0}]
    BY <1>9, AssignsDoes, UnreferencedDoes
  <2>3. thr'["main"].pc # "read" => thr["main"].pc # "read"
    BY <1>9, AssignsDoes DEF Assigns, Goes, Now, Threads
  <2> QED
    BY <1>9, <1>t, <2>1, <2>2, <2>3 DEF Assigns, TypeOK
<1>10. ASSUME NEW t \in Threads, Records(t) PROVE TypeOK'
  <2>1. thr' \in [Threads -> Record] /\ proc' \in [Pids -> Process]
    BY <1>10, <1>t, RecordsDoes DEF Records, Now, Goes, Becomes
  <2>2. childpids' \subseteq Pids
    BY <1>10, <1>t DEF Records, TypeOK, HasPid, Fresh, Record
  <2>3. thr'["main"].pc # "read" => thr["main"].pc # "read"
    BY <1>10, RecordsDoes DEF Records, Goes, Now, Threads
  <2> QED
    BY <1>10, <1>t, <2>1, <2>2, <2>3 DEF Records, TypeOK
<1>11. ASSUME NEW t \in Threads, Started(t) PROVE TypeOK'
  <2>1. thr' \in [Threads -> Record] /\ proc' \in [Pids -> Process]
    BY <1>11, <1>t, StartedDoes DEF Started, Now, Goes, Becomes
  <2> QED
    BY <1>11, <1>t, <2>1, StartedDoes DEF Started, TypeOK, Goes, Now, Threads
<1>12. CASE SetupsChange
  <2>1. thr' \in [Threads -> Record] /\ proc' \in [Pids -> Process]
    BY <1>12, <1>t, SetupsChangeDoes DEF SetupsChange, Now, Goes, Becomes
  <2> QED
    BY <1>12, <1>t, <2>1, SetupsChangeDoes DEF SetupsChange, TypeOK, Goes, Now, Threads
<1>13. CASE Reconfigures
  <2>1. thr' \in [Threads -> Record] /\ proc' \in [Pids -> Process]
    BY <1>13, <1>t, ReconfiguresDoes DEF Reconfigures, Now, Goes, Becomes
  <2> QED
    BY <1>13, <1>t, <2>1, ReconfiguresDoes DEF Reconfigures, TypeOK, Now, Threads
<1>14. CASE Kills
  <2>1. thr' \in [Threads -> Record] /\ proc' \in [Pids -> Process]
    BY <1>14, <1>t, KillsDoes DEF Kills, Now, Goes, Becomes
  <2> QED
    BY <1>14, <1>t, <2>1, KillsDoes DEF Kills, TypeOK, Now, Threads
<1>15. CASE Killed
  <2>1. thr' \in [Threads -> Record] /\ proc' \in [Pids -> Process]
    BY <1>15, <1>t, KilledDoes DEF Killed, Now, Goes, Becomes
  <2> QED
    BY <1>15, <1>t, <2>1, KilledDoes DEF Killed, TypeOK, Goes, Now, Threads
<1>16. CASE Quit
  <2>1. thr' \in [Threads -> Record] /\ proc' \in [Pids -> Process]
    BY <1>16, <1>t, TerminatedDoes DEF Quit, Now, Goes, Becomes
  <2> QED
    BY <1>16, <1>t, <2>1 DEF Quit, TypeOK
<1>17. CASE Reload
  <2>1. thr' \in [Threads -> Record] /\ proc' \in [Pids -> Process]
    BY <1>17, <1>t, TerminatedDoes DEF Reload, Now, Goes, Becomes
  <2> QED
    BY <1>17, <1>t, <2>1 DEF Reload, TypeOK
<1>18. CASE KillAll
  <2>1. thr' \in [Threads -> Record] /\ proc' \in [Pids -> Process]
    BY <1>18, <1>t, KillAllDoes DEF KillAll, Now, Goes, Becomes
  <2> QED
    BY <1>18, <1>t, <2>1 DEF KillAll, TypeOK
<1>19. ASSUME NEW p \in Pids, Exits(p) PROVE TypeOK'
  <2>1. thr' \in [Threads -> Record] /\ proc' \in [Pids -> Process]
    BY <1>19, <1>t, ExitsDoes DEF Exits, Now, Goes, Becomes
  <2> QED
    BY <1>19, <1>t, <2>1 DEF Exits, TypeOK
<1>20. ASSUME NEW p \in Pids, Crashes(p) PROVE TypeOK'
  <2>1. thr' \in [Threads -> Record] /\ proc' \in [Pids -> Process]
    BY <1>20, <1>t, ExitsDoes DEF Crashes, Now, Goes, Becomes
  <2> QED
    BY <1>20, <1>t, <2>1 DEF Crashes, TypeOK
<1>21. CASE UNCHANGED vars
  BY <1>21 DEF vars, TypeOK
<1> QED
  BY <1>1, <1>2, <1>3, <1>4, <1>5, <1>6, <1>7, <1>8, <1>9, <1>10, <1>11,
     <1>12, <1>13, <1>14, <1>15, <1>16, <1>17, <1>18, <1>19, <1>20, <1>21
  DEF Next, MainStep, CallbackStep, StartChild, Threads

LEMMA HasPidStep == TypeOK /\ HasPid /\ [Next]_vars => HasPid'
<1> SUFFICES ASSUME TypeOK, HasPid, [Next]_vars PROVE HasPid'
  OBVIOUS
<1> USE DEF HasPid, Fresh, Threads, Goes, Now, At, main, callback
<1>1. CASE Reads \/ Registers \/ NoChildLeft \/ Deletes \/ Pops \/ Decides
  BY <1>1, ReadsDoes, RegistersDoes, NoChildLeftDoes, DeletesDoes, PopsDoes, DecidesDoes
<1>2. CASE WaitReturns
  BY <1>2, WaitReturnsDoes
<1>3. ASSUME NEW t \in Threads, Creates(t) PROVE HasPid'
  <2>1. \A p \in InState({"none"}) : p # 0
    BY PollerAssumption DEF InState, Pids
  <2> QED
    BY <1>3, <2>1, CreatesDoes
<1>4. ASSUME NEW t \in Threads, Assigns(t) \/ Records(t) PROVE HasPid'
  BY <1>4, AssignsDoes, RecordsDoes DEF Assigns, Records
<1>5. ASSUME NEW t \in Threads, Started(t) PROVE HasPid'
  <2>1. thr[t].then \in {"register", "wait", "idle"}
    BY Typing DEF Record
  <2> QED
    BY <1>5, <2>1, StartedDoes
<1>6. CASE SetupsChange \/ Reconfigures \/ Kills \/ Killed
  BY <1>6, SetupsChangeDoes, ReconfiguresDoes, KillsDoes, KilledDoes
<1>7. CASE UNCHANGED thr
  BY <1>7
<1> QED
  BY <1>1, <1>2, <1>3, <1>4, <1>5, <1>6, <1>7
     DEF Next, MainStep, CallbackStep, StartChild, Quit, Reload, KillAll, Exits, Crashes, vars

(***************************************************************************)
(* Every variable keeps its type, whatever processes crash, signals come   *)
(* and setups change.                                                      *)
(***************************************************************************)
THEOREM TypeCorrect == Spec => []TypeOK
<1>1. Init => HasPid
  BY DEF Init, HasPid, Fresh, Thread, Threads
<1> QED
  BY <1>1, TypeInit, TypeStep, HasPidStep, PTL DEF Spec

--------------------------------------------------------------------------------
(***************************************************************************)
(* Which processes live after an action on some of them.                   *)
(***************************************************************************)
LEMMA GoneDoes ==
    ASSUME TypeOK, NEW p \in InState({"dead"}), Becomes({p}, "gone")
    PROVE  /\ p \in Live /\ Live' = Live \ {p}
           /\ InState({"running"})' = InState({"running"})
           /\ InState({"gone"})' = InState({"gone"}) \cup {p}
           /\ InState({"term", "dead"})' = InState({"term", "dead"}) \ {p}
           /\ \A q \in Pids : proc'[q].setup = proc[q].setup
BY Typing DEF Becomes, Live, InState

\* Processes that get a signal, or end.
LEMMA EndsDoes ==
    ASSUME TypeOK, NEW ps \in SUBSET Live, NEW st \in {"term", "dead"}, Becomes(ps, st)
    PROVE  /\ Live' = Live
           /\ InState({"running"})' = InState({"running"}) \ ps
           /\ InState({"gone"})' = InState({"gone"})
           /\ InState({"term", "dead"})' = InState({"term", "dead"}) \cup ps
           /\ \A q \in Pids : proc'[q].setup = proc[q].setup
BY Typing DEF Becomes, Live, InState

LEMMA NewDoes ==
    ASSUME TypeOK, NEW p \in InState({"none"}), proc' \in [Pids -> Process],
           proc'[p].state = "running", \A q \in Pids : q # p => proc'[q] = proc[q]
    PROVE  /\ p \notin Live /\ p \in Pids /\ Live' = Live \cup {p}
           /\ InState({"running"})' = InState({"running"}) \cup {p}
           /\ InState({"gone"})' = InState({"gone"}) /\ p \notin InState({"gone"})
           /\ InState({"term", "dead"})' = InState({"term", "dead"})
BY Typing DEF Live, InState

LEMMA SameDoes ==
    ASSUME proc' = proc
    PROVE  /\ Live' = Live /\ InState({"running"})' = InState({"running"})
           /\ InState({"gone"})' = InState({"gone"})
           /\ InState({"term", "dead"})' = InState({"term", "dead"})
BY DEF Live, InState

LEMMA Subsets == Live \subseteq Pids /\ InState({"running"}) \subseteq Live
                 /\ InState({"term", "dead"}) \subseteq Live
                 /\ InState({"gone"}) \subseteq Pids /\ InState({"gone"}) \cap Live = {}
BY DEF Live, InState

--------------------------------------------------------------------------------
(***************************************************************************)
(* No second process is ever started for a setup.  A setup is handled from *)
(* the moment a thread is to start its process until the main thread has   *)
(* decided not to start it again.  The setups that the callback adds were  *)
(* never handled before, and all others are in one place only.             *)
(***************************************************************************)
Handled(s) == Polls(s) \/ s \in main.todo \cup callback.todo \cup Ended

Turns ==
    /\ main.todo # {} => main.pc \in Starting
    /\ callback.todo # {} => callback.pc # "idle"
    /\ callback.pc # "idle" => registered
    /\ main.pc \in {"read", "register"} \/ main.then = "register" => ~ registered
    /\ main.pc = "read" => Live = {}
    /\ main.pc = "pop" => main.pid \in InState({"gone"})

Single ==
    /\ \A p, q \in Live : proc[p].setup = proc[q].setup => p = q
    /\ \A p \in Live : proc[p].setup \notin main.todo \cup callback.todo \cup Ended
    /\ main.todo \cap callback.todo = {} /\ Ended \cap callback.todo = {}

Seen == main.pc # "read" =>
    \E i \in 1..told : /\ setups = Wanted(Plan[i])
                       /\ \A s : Handled(s) => \E j \in 1..i : s \in Wanted(Plan[j])

SingleInv == TypeOK /\ HasPid /\ Turns /\ Single /\ Seen

\* No process begins, and one that was waited for stays so.
Fades ==
    /\ \A q \in Pids : proc'[q].setup = proc[q].setup
    /\ Live' \subseteq Live /\ InState({"gone"}) \subseteq InState({"gone"})'

LEMMA EndingFades ==
    ASSUME TypeOK, NEW ps \in SUBSET Live, NEW st \in {"term", "dead", "gone"}, Becomes(ps, st)
    PROVE  Fades
BY Typing DEF Becomes, Fades, Live, InState

LEMMA UnreferencedFades ==
    ASSUME TypeOK, NEW p, Unreferenced(p)
    PROVE  Fades
<1>1. \A q \in Pids : \/ proc'[q] = proc[q]
                      \/ proc[q].state = "dead" /\ proc'[q] = [proc[q] EXCEPT !.state = "gone"]
  BY DEF Unreferenced
<1>2. \A q \in Pids : \/ proc'[q] = proc[q]
                      \/ /\ proc[q].state = "dead" /\ proc'[q].state = "gone"
                         /\ proc'[q].setup = proc[q].setup
  BY <1>1, Typing DEF Process
<1> QED
  BY <1>2 DEF Fades, Live, InState

LEMMA SameFades == proc' = proc => Fades
BY DEF Fades, Live, InState

LEMMA SingleKept ==
    ASSUME Single, Seen, Fades, Ended' \subseteq Ended, main'.todo \subseteq main.todo,
           callback'.todo \subseteq callback.todo, setups' = setups,
           told \in Nat, told' \in {told, told + 1}, main'.pc # "read" => main.pc # "read"
    PROVE  Single' /\ Seen'
<1>1. Single'
  BY Subsets DEF Single, Fades
<1>2. \A s : Handled(s)' => Handled(s)
  BY Subsets DEF Handled, Polls, Fades
<1>3. ASSUME main'.pc # "read"
      PROVE  \E i \in 1..told' : /\ setups' = Wanted(Plan[i])
                                 /\ \A s : Handled(s)' => \E j \in 1..i : s \in Wanted(Plan[j])
  <2>1. PICK i \in 1..told : /\ setups = Wanted(Plan[i])
                             /\ \A s : Handled(s) => \E j \in 1..i : s \in Wanted(Plan[j])
    BY <1>3 DEF Seen
  <2>2. i \in 1..told'
    OBVIOUS
  <2> QED
    BY <1>2, <2>1, <2>2
<1> QED
  BY <1>1, <1>3 DEF Seen

\* The steps that only move on, or give up something.
LEMMA OthersKeep ==
    ASSUME SingleInv,
           \/ Registers \/ NoChildLeft \/ Pops \/ Deletes
           \/ \E t \in Threads : Assigns(t) \/ Records(t) \/ Started(t)
           \/ SetupsChange \/ Kills \/ Killed
           \/ Quit \/ Reload \/ KillAll \/ (\E p \in Pids : Exits(p) \/ Crashes(p))
           \/ UNCHANGED vars
    PROVE  Turns' /\ Single' /\ Seen'
<1> USE DEF SingleInv, Threads, Goes, Now, At, main, callback
<1>s. TypeOK /\ Turns /\ Single /\ Seen /\ told \in Nat
  BY Typing
<1> DEFINE Less == /\ Ended' \subseteq Ended /\ main'.todo \subseteq main.todo
                   /\ callback'.todo \subseteq callback.todo /\ setups' = setups
                   /\ told' \in {told, told + 1} /\ (main'.pc # "read" => main.pc # "read")
<1>1. CASE Registers
  <2>1. /\ Now("main", "wait", main.setup, main.pid, main.todo, main.kill, "wait")
        /\ Fades /\ Less
    BY <1>1, RegistersDoes, SameFades DEF Registers, Ended
  <2>2. Turns'
    BY <1>1, <2>1 DEF Turns, Registers, Starting
  <2> QED
    BY <1>s, <2>1, <2>2, SingleKept
<1>2. CASE NoChildLeft
  <2>1. Goes("main", "ended") /\ Fades /\ Less
    BY <1>2, NoChildLeftDoes, SameFades DEF NoChildLeft, Ended
  <2>2. Turns'
    BY <1>2, <2>1 DEF Turns, NoChildLeft, Starting
  <2> QED
    BY <1>s, <2>1, <2>2, SingleKept
<1>3. CASE Pops
  <2>1. Fades /\ Less
    BY <1>3, PopsDoes, SameFades DEF Pops, Ended
  <2>2. Turns'
    BY <1>3, <2>1, PopsDoes DEF Turns, Pops, Starting
  <2> QED
    BY <1>s, <2>1, <2>2, SingleKept
<1>4. CASE Deletes
  <2>1. Goes("main", IF children[main.setup] # 0 THEN "decide" ELSE "died")
        /\ Fades /\ Less
    BY <1>4, DeletesDoes, UnreferencedFades DEF Deletes, Ended
  <2>2. Turns'
    BY <1>4, <2>1 DEF Turns, Deletes, Starting
  <2> QED
    BY <1>s, <2>1, <2>2, SingleKept
<1>5. ASSUME NEW t \in Threads, Assigns(t) \/ Records(t) PROVE Turns' /\ Single' /\ Seen'
  <2>1. (Goes(t, "childpids") \/ Goes(t, "create")) /\ Fades
    BY <1>5, AssignsDoes, RecordsDoes, SameFades, UnreferencedFades DEF Assigns, Records
  <2>2. Less
    <3>1. /\ main'.todo = main.todo /\ callback'.todo = callback.todo
          /\ main'.setup = main.setup /\ main'.pid = main.pid
          /\ main'.pc = main.pc \/ {main.pc, main'.pc} \subseteq Starting
      BY <1>5, <2>1 DEF Assigns, Records, Starting
    <3>2. setups' = setups /\ told' = told
      BY <1>5 DEF Assigns, Records
    <3>3. Ended' = Ended
      BY <2>1, <3>1, Subsets DEF Turns, Ended, Fades, Starting
    <3> QED
      BY <3>1, <3>2, <3>3 DEF Starting
  <2>3. Turns'
    BY <1>5, <2>1, <2>2 DEF Turns, Assigns, Records, Starting, Fades
  <2> QED
    BY <1>s, <2>1, <2>2, <2>3, SingleKept
<1>6. ASSUME NEW t \in Threads, Started(t) PROVE Turns' /\ Single' /\ Seen'
  <2>1. Goes(t, thr[t].then) /\ Fades /\ thr[t].then \in {"register", "wait", "idle"}
    BY <1>6, StartedDoes, SameFades, Typing DEF Started, Record
  <2>2. Less
    BY <1>6, <2>1 DEF Started, Ended, Fades
  <2>3. Turns'
    BY <1>6, <2>1, <2>2 DEF Turns, Started, Starting, Fades
  <2> QED
    BY <1>s, <2>1, <2>2, <2>3, SingleKept
<1>7. CASE SetupsChange
  <2>1. Goes("callback", IF registered THEN "begin" ELSE "idle") /\ Fades /\ Less
    BY <1>7, SetupsChangeDoes, SameFades DEF SetupsChange, Ended
  <2>2. Turns'
    BY <1>7, <2>1 DEF Turns, SetupsChange, Fades
  <2> QED
    BY <1>s, <2>1, <2>2, SingleKept
<1>8. CASE Kills
  <2>1. Fades
    <3>1. \A s : {children[s]} \cap InState({"running"}) \in SUBSET Live
      BY Subsets
    <3> QED
      BY <1>8, <3>1, KillsDoes, SameFades, EndingFades
  <2>2. /\ main' = main
        /\ \/ callback'.pc = "idle" /\ callback'.todo = {}
           \/ callback'.pc = "kill" /\ callback'.todo = callback.todo
    BY <1>8, KillsDoes
  <2>3. Less
    BY <1>8, <2>1, <2>2, Subsets DEF Kills, Ended, Fades, Turns
  <2>4. Turns'
    BY <1>8, <2>1, <2>2 DEF Turns, Kills, Fades
  <2> QED
    BY <1>s, <2>1, <2>3, <2>4, SingleKept
<1>9. CASE Killed
  <2>1. Goes("callback", "create") /\ Fades /\ Less
    BY <1>9, KilledDoes, SameFades DEF Killed, Ended
  <2>2. Turns'
    BY <1>9, <2>1 DEF Turns, Killed, Fades
  <2> QED
    BY <1>s, <2>1, <2>2, SingleKept
<1>10. CASE Quit \/ Reload \/ KillAll \/ (\E p \in Pids : Exits(p) \/ Crashes(p))
  <2>1. /\ childpids \cap InState({"running"}) \in SUBSET Live
        /\ childpids \cap InState({"running", "term"}) \in SUBSET Live
        /\ \A p \in Pids : Exits(p) \/ Crashes(p) => {p} \in SUBSET Live
    BY DEF Live, InState, Exits, Crashes
  <2>2. ASSUME Quit \/ Reload PROVE Fades
    <3>1. Becomes(childpids \cap InState({"running"}), "term")
      BY <2>2, TerminatedDoes DEF Quit, Reload
    <3> QED
      BY <2>1, <3>1, EndingFades
  <2>3. ASSUME KillAll PROVE Fades
    <3>1. Becomes(childpids \cap InState({"running", "term"}), "dead")
      BY <2>3, KillAllDoes
    <3> QED
      BY <2>1, <3>1, EndingFades
  <2>4. ASSUME NEW p \in Pids, Exits(p) \/ Crashes(p) PROVE Fades
    BY <2>1, <2>4, ExitsDoes, EndingFades
  <2>5. Fades
    BY <1>10, <2>2, <2>3, <2>4
  <2>6. UNCHANGED <<setups, registered, told, thr>>
    BY <1>10 DEF Quit, Reload, KillAll, Exits, Crashes
  <2>7. Less
    BY <2>5, <2>6, Subsets DEF Ended, Fades, Turns
  <2>8. Turns'
    BY <2>5, <2>6 DEF Turns, Fades
  <2> QED
    BY <1>s, <2>5, <2>7, <2>8, SingleKept
<1>11. CASE UNCHANGED vars
  <2>1. Fades /\ Less
    BY <1>11, SameFades DEF vars, Ended
  <2>2. Turns'
    BY <1>11, <2>1 DEF vars, Turns, Live, InState
  <2> QED
    BY <1>s, <2>1, <2>2, SingleKept
<1> QED
  BY <1>1, <1>2, <1>3, <1>4, <1>5, <1>6, <1>7, <1>8, <1>9, <1>10, <1>11

LEMMA ReadsKeep ==
    ASSUME SingleInv, Reads
    PROVE  Turns' /\ Single' /\ Seen'
<1> USE DEF SingleInv, Now, At, main, callback, Threads
<1>1. /\ Now("main", "create", main.setup, main.pid, Wanted(Plan[told]), main.kill, main.then)
      /\ main.pc = "read" /\ proc' = proc
      /\ UNCHANGED <<told, registered>> /\ setups' = Wanted(Plan[told])
  BY ReadsDoes DEF Reads
<1>2. /\ Live' = {} /\ Ended' = {} /\ callback'.todo = {} /\ callback'.pc = "idle"
      /\ main'.todo = Wanted(Plan[told]) /\ main'.pc = "create" /\ ~ registered
  BY <1>1, SameDoes DEF Turns, Ended
<1>3. Turns'
  BY <1>1, <1>2 DEF Turns, Starting
<1>4. Single'
  BY <1>2 DEF Single
<1>5. \A s : Handled(s)' => s \in Wanted(Plan[told])
  BY <1>2 DEF Handled, Polls
<1>6. told \in 1..told' /\ told \in 1..told
  BY <1>1, Typing
<1> QED
  BY <1>1, <1>3, <1>4, <1>5, <1>6 DEF Seen

\* What is handled is handed over within one thread.
LEMMA SeenKept ==
    ASSUME Seen, \A s : Handled(s)' => Handled(s), setups' = setups, told' = told,
           main.pc # "read"
    PROVE  Seen'
BY DEF Seen

LEMMA WaitReturnsKeep ==
    ASSUME SingleInv, WaitReturns
    PROVE  Turns' /\ Single' /\ Seen'
<1> USE DEF SingleInv, Now, At, main, callback, Threads
<1>1. PICK p \in InState({"dead"}) :
         /\ Becomes({p}, "gone")
         /\ Now("main", "pop", main.setup, p, main.todo, main.kill, main.then)
  BY WaitReturnsDoes
<1>2. /\ p \in Live /\ Live' = Live \ {p} /\ InState({"gone"})' = InState({"gone"}) \cup {p}
      /\ \A q \in Pids : proc'[q].setup = proc[q].setup
  BY <1>1, GoneDoes
<1>3. /\ UNCHANGED <<setups, told, registered>> /\ main.pc = "wait" /\ Ended = {}
      /\ Ended' = {proc[p].setup} /\ main.todo = {} /\ main'.todo = {} /\ callback' = callback
  BY <1>1, <1>2, Subsets DEF WaitReturns, Ended, Turns, Starting
<1>4. Turns'
  BY <1>1, <1>2, <1>3 DEF Turns
<1>5. Single'
  BY <1>2, <1>3, Subsets DEF Single
<1>6. \A s : Handled(s)' => Handled(s)
  BY <1>2, <1>3, Subsets DEF Handled, Polls
<1> QED
  BY <1>3, <1>4, <1>5, <1>6, SeenKept

LEMMA DecidesKeep ==
    ASSUME SingleInv, Decides
    PROVE  Turns' /\ Single' /\ Seen'
<1> USE DEF SingleInv, Now, Goes, At, main, callback, Threads
<1>0. main.pc = "decide" /\ main.todo = {}
  BY DEF Decides, Turns, Starting
<1>1. /\ main'.pc \in {"create", "wait"} /\ callback' = callback /\ main'.then = main.then
      /\ \/ main'.todo = {}
         \/ main'.todo = {main.setup} /\ main'.pc = "create"
      /\ Ended = {main.setup} /\ Ended' = {}
  <2>1. \/ Now("main", "create", main.setup, main.pid, {main.setup}, main.kill, main.then)
        \/ Goes("main", "wait")
    BY DecidesDoes
  <2> QED
    BY <1>0, <2>1 DEF Ended
<1>2. /\ Live' = Live /\ InState({"gone"})' = InState({"gone"}) /\ proc' = proc
      /\ UNCHANGED <<setups, told, registered>>
  BY SameDoes DEF Decides
<1>3. Turns'
  BY <1>0, <1>1, <1>2 DEF Turns, Starting
<1>4. Single'
  BY <1>0, <1>1, <1>2 DEF Single
<1>5. \A s : Handled(s)' => Handled(s)
  BY <1>1, <1>2 DEF Handled, Polls
<1> QED
  BY <1>0, <1>1, <1>2, <1>3, <1>4, <1>5, SeenKept

LEMMA CreatesKeep ==
    ASSUME SingleInv, NEW t \in Threads, Creates(t)
    PROVE  Turns' /\ Single' /\ Seen'
<1> USE DEF SingleInv, Now, At, main, callback, Threads
<1>1. PICK s \in thr[t].todo, p \in InState({"none"}) :
         /\ proc' = [q \in Pids |->
                        CASE q = p -> [state |-> "running", setup |-> s]
                          [] q \in loose \cap InState({"dead"}) -> [proc[q] EXCEPT !.state = "gone"]
                          [] OTHER -> proc[q]]
         /\ thr' = [thr EXCEPT ![t].pc = "children", ![t].setup = s, ![t].pid = p,
                                ![t].todo = @ \ {s}]
  BY DEF Creates
<1>2. p \in Pids /\ p \notin Live /\ p \notin InState({"gone"}) /\ proc[p].state = "none"
  BY DEF InState, Live
<1>3. proc'[p].setup = s
  <2> DEFINE new(q) == CASE q = p -> [state |-> "running", setup |-> s]
                          [] q \in loose \cap InState({"dead"}) -> [proc[q] EXCEPT !.state = "gone"]
                          [] OTHER -> proc[q]
  <2>1. new(p) = [state |-> "running", setup |-> s]
    BY <1>2 DEF InState
  <2>2. proc' = [q \in Pids |-> new(q)]
    BY <1>1
  <2> HIDE DEF new
  <2> QED
    BY <1>2, <2>1, <2>2
<1>4. ASSUME NEW q \in Pids, q # p
      PROVE  /\ proc'[q].setup = proc[q].setup
             /\ q \in Live' => q \in Live
             /\ q \in InState({"gone"}) => q \in InState({"gone"})'
  <2>1. \/ proc'[q] = proc[q]
        \/ proc'[q] = [proc[q] EXCEPT !.state = "gone"]
    BY <1>1, <1>4
  <2>2. \/ proc'[q] = proc[q]
        \/ proc'[q].state = "gone" /\ proc'[q].setup = proc[q].setup
    BY <2>1, Typing DEF Process
  <2> QED
    BY <2>2 DEF Live, InState
<1>5. /\ Live' \subseteq Live \cup {p} /\ InState({"gone"}) \subseteq InState({"gone"})'
      /\ \A q \in Live : proc'[q].setup = proc[q].setup
      /\ \A q \in InState({"gone"}) : proc'[q].setup = proc[q].setup
  <2>1. Live' \subseteq Pids
    BY DEF Live, InState
  <2> QED
    BY <1>2, <1>4, <2>1, Subsets
<1>6. /\ thr'[t].pc = "children" /\ thr[t].pc = "create" /\ thr'[t].todo = thr[t].todo \ {s}
      /\ thr'[t].then = thr[t].then
      /\ \A u \in Threads : u # t => thr'[u] = thr[u]
      /\ UNCHANGED <<setups, told, registered>>
  BY <1>1, Typing DEF Creates, Record
<1>7. Ended' = Ended /\ s \notin Ended
  <2>1. \/ main' = main
        \/ main.pc = "create" /\ main'.pc = "children"
    BY <1>6
  <2>2. main.pc = "pop" => proc'[main.pid].setup = proc[main.pid].setup
    BY <1>5 DEF Turns
  <2>3. s \notin Ended
    BY <1>6 DEF Single, Ended
  <2> QED
    BY <2>1, <2>2, <2>3 DEF Ended
<1>8. main.pc # "read"
  BY <1>6 DEF Turns
<1>9. Turns'
  BY <1>5, <1>6, <1>8 DEF Turns, Starting
<1>10. Single'
  <2>1. \A q \in Live : proc[q].setup # s
    BY DEF Single
  <2>2. s \notin main'.todo \cup callback'.todo \cup Ended'
    BY <1>6, <1>7 DEF Single
  <2>3. main'.todo \subseteq main.todo /\ callback'.todo \subseteq callback.todo
    BY <1>6
  <2>4. \A q \in Live' : q = p \/ q \in Live
    BY <1>5
  <2> QED
    BY <1>3, <1>5, <1>7, <2>1, <2>2, <2>3, <2>4 DEF Single
<1>11. \A r : Handled(r)' => Handled(r)
  <2>1. main'.todo \subseteq main.todo /\ callback'.todo \subseteq callback.todo /\ Handled(s)
    BY <1>6 DEF Handled
  <2>2. ASSUME NEW r, Polls(r)' PROVE Polls(r) \/ r = s
    BY <1>3, <1>5, <2>2 DEF Polls
  <2> QED
    BY <1>7, <2>1, <2>2 DEF Handled
<1> QED
  BY <1>6, <1>8, <1>9, <1>10, <1>11, SeenKept

\* The setups that the callback adds were never handled before.
LEMMA ReconfiguresKeep ==
    ASSUME NoneComesBack, SingleInv, Reconfigures
    PROVE  Turns' /\ Single' /\ Seen'
<1> USE DEF SingleInv, Now, At, main, callback, Threads
<1> DEFINE new == Wanted(Plan[told]) \ setups
<1>1. /\ callback'.pc = "kill" /\ callback'.todo = new /\ main' = main
      /\ callback.pc = "begin" /\ setups' = Wanted(Plan[told])
      /\ UNCHANGED <<told, registered>> /\ proc' = proc
  BY ReconfiguresDoes DEF Reconfigures
<1>2. Live' = Live /\ InState({"gone"})' = InState({"gone"}) /\ Ended' = Ended
  BY <1>1, SameDoes DEF Ended
<1>3. main.pc # "read" /\ registered
  BY <1>1 DEF Turns
<1>4. PICK i \in 1..told : /\ setups = Wanted(Plan[i])
                           /\ \A s : Handled(s) => \E j \in 1..i : s \in Wanted(Plan[j])
  BY <1>3 DEF Seen
<1>5. ASSUME NEW s, Handled(s), s \in new PROVE FALSE
  <2>1. PICK j \in 1..i : s \in Wanted(Plan[j])
    BY <1>4, <1>5
  <2>2. /\ i \in DOMAIN Plan /\ j \in DOMAIN Plan /\ told \in DOMAIN Plan
        /\ j <= i /\ i <= told
    BY Typing, PollerAssumption
  <2> QED
    BY <1>4, <1>5, <2>1, <2>2 DEF NoneComesBack
<1>6. Turns'
  BY <1>1, <1>2, <1>3 DEF Turns
<1>7. Single'
  <2>1. /\ \A q \in Live : proc[q].setup \notin new
        /\ main.todo \cap new = {} /\ Ended \cap new = {}
    BY <1>5 DEF Handled, Polls
  <2> QED
    BY <1>1, <1>2, <2>1 DEF Single
<1>8. Seen'
  <2>1. \A s : Handled(s)' => Handled(s) \/ s \in Wanted(Plan[told])
    BY <1>1, <1>2 DEF Handled, Polls
  <2>2. \A s : Handled(s)' => \E j \in 1..told : s \in Wanted(Plan[j])
    <3>1. told \in 1..told /\ 1..i \subseteq 1..told
      BY Typing
    <3> QED
      BY <1>4, <2>1, <3>1
  <2> QED
    BY <1>1, <2>2, Typing DEF Seen
<1> QED
  BY <1>6, <1>7, <1>8

LEMMA SingleStep == NoneComesBack /\ SingleInv /\ [Next]_vars => SingleInv'
<1> SUFFICES ASSUME NoneComesBack, SingleInv, [Next]_vars PROVE SingleInv'
  OBVIOUS
<1>1. TypeOK' /\ HasPid'
  BY TypeStep, HasPidStep DEF SingleInv
<1>2. Turns' /\ Single' /\ Seen'
  BY OthersKeep, ReadsKeep, WaitReturnsKeep, DecidesKeep, CreatesKeep, ReconfiguresKeep
     DEF Next, MainStep, CallbackStep, StartChild, Threads
<1> QED
  BY <1>1, <1>2 DEF SingleInv

(***************************************************************************)
(* _start_child and _reconfigure never start a second process for a setup, *)
(* whatever is added and dropped, crashes and is restarted, also at the    *)
(* same time, if no setup is dropped and wanted again.                     *)
(***************************************************************************)
THEOREM NeverTwoProcesses ==
    ASSUME NoneComesBack
    PROVE  Spec => []OnePerSetup
<1>1. Init => SingleInv
  <2> SUFFICES ASSUME Init PROVE SingleInv
    OBVIOUS
  <2>1. TypeOK /\ HasPid
    BY TypeInit DEF Init, HasPid, Fresh, Thread, Threads
  <2>2. /\ Live = {} /\ main = Thread("read", "register")
        /\ callback = Thread("idle", "idle") /\ ~ registered
    BY DEF Init, Live, InState, main, callback
  <2>3. Ended = {} /\ main.todo = {} /\ callback.todo = {}
    BY <2>2 DEF Ended, Thread
  <2> QED
    BY <2>1, <2>2, <2>3 DEF SingleInv, Turns, Single, Seen, Thread
<1>2. SingleInv => OnePerSetup
  BY Subsets DEF SingleInv, Single, OnePerSetup
<1>3. SingleInv /\ [Next]_vars => SingleInv'
  BY SingleStep
<1> QED
  BY <1>1, <1>2, <1>3, PTL DEF Spec

--------------------------------------------------------------------------------
(***************************************************************************)
(* What keeps a part of the invariant.                                    *)
(***************************************************************************)
LEMMA EachKept ==
    ASSUME OneEach, Live' \subseteq Live, InState({"running"})' \subseteq InState({"running"}),
           \A q \in Live : proc'[q].setup = proc[q].setup, Ended' \subseteq Ended,
           main'.todo \subseteq main.todo, callback'.todo \subseteq callback.todo,
           setups \subseteq setups', callback.kill \subseteq callback'.kill
    PROVE  OneEach'
BY Subsets DEF OneEach, main, callback

LEMMA KnownKept ==
    ASSUME Known, Live' = Live, InState({"gone"})' = InState({"gone"}),
           InState({"running"})' = InState({"running"}),
           \A q \in Pids : proc'[q].setup = proc[q].setup, UNCHANGED <<loose, childpids>>,
           \A t \in {"main", "callback"} : thr'[t] = thr[t] \/ ~ (Fresh(t) \/ Fresh(t)'),
           main' = main \/ ~ ({main.pc, main'.pc} \cap {"pop", "del", "died"} # {})
    PROVE  Known'
<1>1. \A p \in Live : p \in childpids \/ \E t \in {"main", "callback"} : Fresh(t)' /\ thr'[t].pid = p
  BY DEF Known, Fresh
<1>2. \A t \in {"main", "callback"} : Fresh(t)' =>
          thr'[t].pid \in Live /\ proc'[thr'[t].pid].setup = thr'[t].setup
  BY Subsets DEF Known, Fresh
<1>3. Fresh("callback")' => callback'.pid \in InState({"running"})
  BY DEF Known, Fresh, callback
<1>4. /\ main'.pc = "pop" => main'.pid \in childpids
      /\ main'.pc \in {"pop", "del"} => main'.pid \in InState({"gone"})
      /\ main'.pc # "died"
  BY DEF Known
<1>5. main'.pc = "del" => main'.setup = proc'[main'.pid].setup
  <2>1. main'.pc = "del" => main' = main /\ main.pid \in Pids
    BY Subsets DEF Known
  <2> QED
    BY <2>1 DEF Known
<1> QED
  BY <1>1, <1>2, <1>3, <1>4, <1>5 DEF Known

LEMMA EntriesKept ==
    ASSUME Entries, Known, Live' = Live, \A q \in Pids : proc'[q].setup = proc[q].setup,
           children' = children, children \in [All -> Pids \cup {0}],
           \A t \in {"main", "callback"} :
              thr'[t] = thr[t] \/ ~ (At(t, "children") \/ At(t, "children")'),
           main' = main \/ ~ ({main.pc, main'.pc} \cap {"pop", "del"} # {})
    PROVE  Entries'
<1>1. \A s \in All : children[s] # 0 =>
          /\ proc'[children[s]].setup = s
          /\ \/ children[s] \in Live
             \/ main'.pc \in {"pop", "del"} /\ main'.pid = children[s]
  <2>1. \A s \in All : children[s] # 0 => children[s] \in Pids
    OBVIOUS
  <2> QED
    BY <2>1 DEF Entries
<1>2. \A p \in Live : \/ children[proc'[p].setup] = p
                      \/ \E t \in {"main", "callback"} : At(t, "children")' /\ thr'[t].pid = p
  BY Subsets DEF Entries, At
<1>3. \A t \in {"main", "callback"} : At(t, "children")' => children[thr'[t].setup] = 0
  BY DEF Entries, At
<1>4. main'.pc \in {"pop", "del"} => children[proc'[main'.pid].setup] = main'.pid
  <2>1. main'.pc \in {"pop", "del"} => main' = main /\ main.pid \in Pids
    BY Subsets DEF Known
  <2> QED
    BY <2>1 DEF Entries
<1> QED
  BY <1>1, <1>2, <1>3, <1>4 DEF Entries, main

LEMMA TroubleKept ==
    ASSUME Trouble, UNCHANGED <<told, setups, signals, crashes, killer>>,
           InState({"term", "dead"})' \subseteq InState({"term", "dead"}),
           InState({"running"}) \subseteq InState({"running"})',
           \A q \in Live : proc'[q].setup = proc[q].setup,
           callback.pc = "idle" => callback'.pc = "idle",
           \A s \in Ended' : s \in Ended \/ Dropped(s) \/ Static,
           callback'.kill \subseteq callback.kill
    PROVE  Trouble'
<1>1. CASE Static
  BY <1>1 DEF Trouble, Static, callback
<1>2. CASE Dropping
  <2>1. ASSUME NEW s, Dropped(s) PROVE Dropped(s)'
    BY <2>1 DEF Dropped
  <2>2. ASSUME NEW p \in InState({"term", "dead"})' PROVE Dropped(proc[p].setup)'
    <3>1. p \in InState({"term", "dead"}) /\ proc'[p].setup = proc[p].setup
      BY <2>2, Subsets
    <3>2. Dropped(proc[p].setup)
      BY <1>2, <3>1 DEF Dropping
    <3> QED
      BY <3>1, <3>2 DEF Dropped
  <2>3. CASE ~ Static
    <3>1. \A s \in Ended' \cup callback'.kill : Dropped(s)'
      BY <1>2, <2>1, <2>3 DEF Dropping
    <3>2. \A s \in callback'.kill : \E p \in InState({"running"})' : proc'[p].setup = s
      BY <1>2, Subsets DEF Dropping
    <3> QED
      BY <1>2, <2>2, <3>1, <3>2 DEF Dropping, Trouble
  <2> QED
    BY <1>1, <2>3
<1> QED
  BY <1>1, <1>2 DEF Trouble

--------------------------------------------------------------------------------
(***************************************************************************)
(* Each step of a thread preserves the invariant.                          *)
(***************************************************************************)
USE DEF IInv, Rest, main, callback, Threads, Now, Goes, At

LEMMA ReadsKeeps ==
    ASSUME IInv, Reads
    PROVE  Rest'
<1>1. Now("main", "create", main.setup, main.pid, Wanted(Plan[told]), main.kill, main.then)
  BY ReadsDoes
<1>2. Phases'
  BY <1>1, SameDoes, Typing DEF Reads, Phases, Static, Starting, MainSteps,
     CallbackSteps
<1>3. Reading'
  BY <1>1, SameDoes, Typing DEF Reads, Phases, Static, Starting, MainSteps,
     CallbackSteps, Reading, Known, Fresh
<1>4. OneEach'
  BY <1>1, SameDoes, Typing DEF Reads, Phases, Static, Starting, MainSteps,
     CallbackSteps, OneEach, Ended
<1>5. Covered'
  BY <1>1, SameDoes, Typing DEF Reads, Covered, Polls, Ended
<1>6. Known'
  BY <1>1, SameDoes, Typing, KnownKept DEF Reads, Fresh, Phases, Static, Starting
<1>7. Entries'
  BY <1>1, SameDoes, Typing, EntriesKept DEF Reads, Phases, Static, Starting
<1>8. Trouble'
  BY <1>1, SameDoes, Typing DEF Reads, Phases, Static, Starting, MainSteps,
     CallbackSteps, Ended, Trouble, Dropping, Dropped
<1> QED
  BY <1>2, <1>3, <1>4, <1>5, <1>6, <1>7, <1>8

LEMMA RegistersKeeps ==
    ASSUME IInv, Registers
    PROVE  Rest'
<1>1. Now("main", "wait", main.setup, main.pid, main.todo, main.kill, "wait")
  BY RegistersDoes
<1>2. Phases'
  BY <1>1, SameDoes, Typing DEF Registers, Phases, Static, Starting, MainSteps,
     CallbackSteps
<1>3. Reading'
  BY <1>1, SameDoes, Typing DEF Registers, Reading
<1>4. OneEach'
  BY <1>1, SameDoes, Typing, EachKept DEF Registers, Ended, Phases, Static, Starting
<1>5. Covered'
  BY <1>1, SameDoes, Typing DEF Registers, Covered, Polls, Ended
<1>6. Known'
  BY <1>1, SameDoes, Typing, KnownKept DEF Registers, Fresh, Phases, Static, Starting
<1>7. Entries'
  BY <1>1, SameDoes, Typing, EntriesKept DEF Registers, Phases, Static, Starting
<1>8. Trouble'
  BY <1>1, SameDoes, Typing, TroubleKept DEF Registers, Ended, Phases, Static, Starting
<1> QED
  BY <1>2, <1>3, <1>4, <1>5, <1>6, <1>7, <1>8

LEMMA WaitReturnsKeeps ==
    ASSUME IInv, WaitReturns
    PROVE  Rest'
<1>1. PICK p \in InState({"dead"}) :
         /\ Becomes({p}, "gone")
         /\ Now("main", "pop", main.setup, p, main.todo, main.kill, main.then)
  BY WaitReturnsDoes
<1>2. /\ p \in Live /\ Live' = Live \ {p}
      /\ InState({"running"})' = InState({"running"})
      /\ InState({"gone"})' = InState({"gone"}) \cup {p}
      /\ InState({"term", "dead"})' = InState({"term", "dead"}) \ {p}
      /\ \A q \in Pids : proc'[q].setup = proc[q].setup
  BY <1>1, GoneDoes
<1>3. p \in InState({"term", "dead"}) /\ p \notin InState({"running"})
  BY <1>1 DEF InState
<1>4. /\ main.pc = "wait" /\ main'.pc = "pop" /\ main'.pid = p /\ main'.todo = main.todo
      /\ main'.then = main.then /\ callback' = callback
  BY <1>1 DEF WaitReturns
<1>5. Phases'
  BY <1>2, <1>3, <1>4, Subsets, Typing DEF WaitReturns, Phases, Static, Starting,
     MainSteps, CallbackSteps
<1>6. Reading'
  BY <1>2, <1>3, <1>4, Subsets, Typing DEF WaitReturns, Reading
<1>7. OneEach'
  BY <1>2, <1>3, <1>4, Subsets, Typing DEF WaitReturns, OneEach, Ended
<1>8. Covered'
  BY <1>2, <1>3, <1>4, Subsets DEF WaitReturns, Covered, Polls, Ended
<1>9. Known'
  BY <1>2, <1>3, <1>4, Subsets DEF WaitReturns, Known, Fresh
<1>10. Entries'
  BY <1>2, <1>3, <1>4, Subsets, Typing DEF WaitReturns, Known, Fresh, Entries
<1>11. Trouble'
  BY <1>2, <1>3, <1>4, Subsets, Typing DEF WaitReturns, Static, Ended, Trouble,
     Dropping, Dropped
<1> QED
  BY <1>5, <1>6, <1>7, <1>8, <1>9, <1>10, <1>11

LEMMA NoChildLeftKeeps ==
    ASSUME IInv, NoChildLeft
    PROVE  Rest'
<1>1. Goes("main", "ended")
  BY NoChildLeftDoes
<1>2. Phases'
  BY <1>1, SameDoes, Typing DEF NoChildLeft, Phases, Static, Starting, MainSteps,
     CallbackSteps
<1>3. Reading'
  BY <1>1, SameDoes, Typing DEF NoChildLeft, Reading
<1>4. OneEach'
  BY <1>1, SameDoes, Typing, EachKept DEF NoChildLeft, Ended, Phases, Static, Starting
<1>5. Covered'
  BY <1>1, SameDoes, Typing DEF NoChildLeft, Covered, Polls, Ended
<1>6. Known'
  BY <1>1, SameDoes, Typing, KnownKept DEF NoChildLeft, Fresh, Phases, Static, Starting
<1>7. Entries'
  BY <1>1, SameDoes, Typing, EntriesKept DEF NoChildLeft, Phases, Static, Starting
<1>8. Trouble'
  BY <1>1, SameDoes, Typing, TroubleKept DEF NoChildLeft, Ended, Phases, Static,
     Starting
<1> QED
  BY <1>2, <1>3, <1>4, <1>5, <1>6, <1>7, <1>8

LEMMA PopsKeeps ==
    ASSUME IInv, Pops
    PROVE  Rest'
<1>1. Now("main", "del", proc[main.pid].setup, main.pid, main.todo, main.kill, main.then)
  BY PopsDoes DEF Pops, Known
<1>2. Phases'
  BY <1>1, SameDoes, Typing DEF Pops, Phases, Static, Starting, MainSteps,
     CallbackSteps
<1>3. Reading'
  BY <1>1, SameDoes, Typing DEF Pops, Reading
<1>4. OneEach'
  BY <1>1, SameDoes, Typing, EachKept DEF Pops, Ended, Phases, Static, Starting
<1>5. Covered'
  BY <1>1, SameDoes, Typing DEF Pops, Covered, Polls, Ended
<1>6. Known'
  BY <1>1, SameDoes, Typing DEF Pops, Phases, Static, Starting, MainSteps,
     CallbackSteps, OneEach, Ended, Known, Fresh
<1>7. Entries'
  BY <1>1, SameDoes, Typing DEF Pops, Entries
<1>8. Trouble'
  BY <1>1, SameDoes, Typing, TroubleKept DEF Pops, Ended, Phases, Static, Starting
<1> QED
  BY <1>2, <1>3, <1>4, <1>5, <1>6, <1>7, <1>8

LEMMA DeletesKeeps ==
    ASSUME IInv, Deletes
    PROVE  Rest'
<1>1. /\ main.pc = "del" /\ main.pid \in InState({"gone"}) /\ main.pid \in Pids
      /\ main.setup = proc[main.pid].setup /\ children[main.setup] = main.pid
      /\ main.pid # 0 /\ main.pid \notin Live /\ loose = {}
  BY PollerAssumption DEF Deletes, Known, Entries, InState, Live, Pids
<1>2. Goes("main", "decide") /\ Unreferenced(main.pid)
  BY <1>1, DeletesDoes
<1>3. /\ proc' = proc /\ loose' = {} /\ children'[main.setup] = 0
      /\ \A s \in All : s # main.setup => children'[s] = children[s]
  BY <1>1, <1>2, DeletesDoes, UnreferencedDoes
<1>4. /\ main'.pc = "decide" /\ main'.setup = main.setup /\ main'.pid = main.pid
      /\ main'.todo = main.todo /\ main'.then = main.then /\ callback' = callback
  BY <1>2
<1>5. /\ Live' = Live /\ InState({"running"})' = InState({"running"})
      /\ InState({"gone"})' = InState({"gone"})
      /\ InState({"term", "dead"})' = InState({"term", "dead"})
  BY <1>3, SameDoes
<1>6. Phases'
  BY <1>1, <1>3, <1>4, <1>5, Subsets DEF Deletes, Phases, Static, Starting, MainSteps,
     CallbackSteps
<1>7. Reading'
  BY <1>1, <1>3, <1>4, <1>5, Subsets DEF Deletes, Reading
<1>8. OneEach'
  BY <1>1, <1>3, <1>4, <1>5, Subsets, Typing, EachKept DEF Deletes, Ended, Phases,
     Static, Starting
<1>9. Covered'
  BY <1>1, <1>3, <1>4, <1>5, Subsets DEF Deletes, Covered, Polls, Ended
<1>10. Known'
  BY <1>1, <1>3, <1>4, <1>5, Subsets DEF Deletes, Known, Fresh
<1>11. Entries'
  <2>1. ASSUME NEW s \in All, children'[s] # 0
        PROVE  proc'[children'[s]].setup = s /\ children'[s] \in Live'
    BY <1>1, <1>3, <1>5, <2>1 DEF Entries
  <2>2. ASSUME NEW q \in Live'
        PROVE  \/ children'[proc'[q].setup] = q
               \/ \E t \in {"main", "callback"} : At(t, "children")' /\ thr'[t].pid = q
    <3>1. q \in Live /\ q # main.pid /\ proc[q].setup \in All
      BY <1>1, <1>5, <2>2, Subsets, Typing DEF Process
    <3>2. CASE children[proc[q].setup] = q
      BY <1>1, <1>3, <3>1, <3>2
    <3>3. CASE At("callback", "children") /\ callback.pid = q
      BY <1>4, <3>3
    <3>4. ~ At("main", "children")
      BY <1>1
    <3> QED
      BY <3>1, <3>2, <3>3, <3>4 DEF Entries
  <2>3. ASSUME NEW t \in {"main", "callback"}, At(t, "children")' PROVE children'[thr'[t].setup] = 0
    <3>1. t = "callback" /\ thr'[t] = thr[t] /\ At(t, "children")
      BY <1>4, <2>3
    <3>2. thr[t].setup \in All /\ children[thr[t].setup] = 0
      BY <3>1, Typing DEF Entries, Record
    <3> QED
      BY <1>1, <1>3, <3>1, <3>2
  <2>4. main'.pc \notin {"pop", "del"}
    BY <1>4
  <2> QED
    BY <2>1, <2>2, <2>3, <2>4 DEF Entries
<1>12. Trouble'
  BY <1>1, <1>3, <1>4, <1>5, Subsets, Typing, TroubleKept DEF Deletes, Ended, Phases,
     Static, Starting
<1> QED
  BY <1>6, <1>7, <1>8, <1>9, <1>10, <1>11, <1>12

LEMMA DecidesKeeps ==
    ASSUME IInv, Decides
    PROVE  Rest'
<1>1. \/ /\ main.setup \in setups /\ ~ stoprequest
         /\ Now("main", "create", main.setup, main.pid, {main.setup}, main.kill, main.then)
      \/ ~ (main.setup \in setups /\ ~ stoprequest) /\ Goes("main", "wait")
  BY DecidesDoes
<1>2. Phases'
  BY <1>1, SameDoes, Typing DEF Decides, Phases, Static, Starting, MainSteps,
     CallbackSteps, Reading, Ended, Trouble, Dropping, Dropped
<1>3. Reading'
  BY <1>1, SameDoes, Typing DEF Decides, Reading
<1>4. OneEach'
  BY <1>1, SameDoes, Typing DEF Decides, OneEach, Ended
<1>5. Covered'
  BY <1>1, SameDoes, Typing DEF Decides, Phases, Static, Starting, MainSteps,
     CallbackSteps, Covered, Polls, Ended
<1>6. Known'
  BY <1>1, SameDoes, Typing, KnownKept DEF Decides, Fresh, Phases, Static, Starting
<1>7. Entries'
  BY <1>1, SameDoes, Typing, EntriesKept DEF Decides, Phases, Static, Starting
<1>8. Trouble'
  BY <1>1, SameDoes, Typing, TroubleKept DEF Decides, Ended, Phases, Static, Starting
<1> QED
  BY <1>2, <1>3, <1>4, <1>5, <1>6, <1>7, <1>8

LEMMA MainCreatesKeeps ==
    ASSUME IInv, Creates("main")
    PROVE  Rest'
<1>0. loose = {} /\ "main" \in Threads
  BY DEF Known
<1>1. PICK s \in thr["main"].todo, p \in InState({"none"}) :
         /\ Now("main", "children", s, p, thr["main"].todo \ {s}, thr["main"].kill,
                thr["main"].then)
         /\ proc'[p].state = "running" /\ proc'[p].setup = s
         /\ \A q \in Pids : q # p => proc'[q] = proc[q]
  BY <1>0, CreatesDoes
<1>2. /\ p \notin Live /\ p \in Pids /\ Live' = Live \cup {p}
      /\ InState({"running"})' = InState({"running"}) \cup {p}
      /\ InState({"gone"})' = InState({"gone"}) /\ p \notin InState({"gone"})
      /\ InState({"term", "dead"})' = InState({"term", "dead"}) /\ loose' = {}
  BY <1>0, <1>1, CreatesDoes, NewDoes DEF Creates
<1>3. Phases'
  BY <1>1, <1>2, Subsets, Typing DEF Creates, Phases, Static, Starting, MainSteps,
     CallbackSteps
<1>4. Reading'
  BY <1>1, <1>2, Subsets, Typing DEF Creates, Reading
<1>5. OneEach'
  <2>1. /\ s \notin main.todo' \cup callback.todo' /\ Ended' = {} /\ Ended = {} /\ s \in setups
        /\ main.todo' \subseteq main.todo /\ callback' = callback
    BY <1>1, <1>2 DEF Creates, Phases, Reading, Starting, Static, Ended
  <2>2. s \in main.todo /\ s \notin Ended
    BY <1>1, <2>1 DEF OneEach
  <2>3. \A q \in Live : q # p /\ q \in Pids /\ proc'[q].setup = proc[q].setup /\ proc[q].setup # s
    BY <1>1, <1>2, <2>2, Subsets DEF OneEach
  <2>4. \A q \in Live : proc[q].setup \notin main.todo \cup callback.todo \cup Ended
    BY DEF OneEach
  <2>5. \A q, r \in Live' : proc'[q].setup = proc'[r].setup => q = r
    BY <1>1, <1>2, <2>3 DEF OneEach
  <2>6. \A q \in Live' : proc'[q].setup \notin (main.todo \cup callback.todo \cup Ended)'
    BY <1>1, <1>2, <2>1, <2>3, <2>4
  <2>7. (Ended \cap callback.todo = {})'
    BY <2>1 DEF OneEach
  <2>8. \A q \in InState({"running"})' : proc'[q].setup \in (setups \cup callback.kill)'
    BY <1>1, <1>2, <2>1, <2>3, Subsets DEF Creates, OneEach
  <2> QED
    BY <2>5, <2>6, <2>7, <2>8 DEF OneEach
<1>6. Covered'
  <2>1. Ended' = Ended
    <3>1. main.pc = "pop" => proc'[main.pid] = proc[main.pid]
      BY <1>1, <1>2, Subsets DEF Known
    <3>2. \/ main' = main
          \/ {main.pc, main'.pc} \cap {"pop", "del", "decide"} = {}
      BY <1>1 DEF Creates
    <3> QED
      BY <3>1, <3>2 DEF Ended
  <2>2. /\ main'.todo = main.todo \ {s} /\ callback'.todo = callback.todo
        /\ main.pc # "read" /\ setups' = setups /\ stoprequest' = stoprequest
    BY <1>1 DEF Creates, Phases
  <2>3. Polls(s)'
    BY <1>1, <1>2 DEF Polls
  <2>4. ASSUME NEW r, Polls(r) PROVE Polls(r)'
    BY <1>1, <1>2, <2>4, Subsets DEF Polls
  <2> QED
    BY <2>1, <2>2, <2>3, <2>4 DEF Covered
<1>7. Known'
  <2>1. /\ callback' = callback /\ main'.pc = "children" /\ main'.pid = p /\ main'.setup = s
    BY <1>1
  <2>2. /\ \A q \in Live : q # p /\ proc'[q] = proc[q]
        /\ \A q \in InState({"gone"}) : q # p /\ proc'[q] = proc[q]
    BY <1>1, <1>2, Subsets
  <2>3. ~ Fresh("main") /\ childpids' = childpids
    BY DEF Creates, Fresh
  <2>4. \A q \in Live' : q \in childpids' \/ \E v \in Threads : Fresh(v)' /\ thr'[v].pid = q
    BY <1>1, <1>2, <2>1, <2>3 DEF Known, Fresh
  <2>5. \A v \in Threads : Fresh(v)' =>
           thr'[v].pid \in Live' /\ proc'[thr'[v].pid].setup = thr'[v].setup
    BY <1>1, <1>2, <2>1, <2>2 DEF Known, Fresh
  <2>6. Fresh("callback")' => callback'.pid \in InState({"running"})'
    BY <1>2, <2>1 DEF Known, Fresh
  <2>7. /\ main'.pc = "pop" => main'.pid \in childpids'
        /\ main'.pc \in {"pop", "del"} => main'.pid \in InState({"gone"})'
        /\ main'.pc = "del" => main'.setup = proc'[main'.pid].setup
        /\ main'.pc # "died"
    BY <1>2, <2>1, <2>2, <2>3 DEF Known
  <2> QED
    BY <1>2, <2>4, <2>5, <2>6, <2>7 DEF Known
<1>8. Entries'
  <2>1. /\ callback' = callback /\ main'.pc = "children" /\ main'.pid = p /\ main'.setup = s
    BY <1>1
  <2>2. \A q \in Live \cup InState({"gone"}) : q # p /\ proc'[q] = proc[q]
    BY <1>1, <1>2, Subsets
  <2>3. children' = children /\ main.pc = "create" /\ s \in main.todo
    BY <1>1 DEF Creates
  <2>4. main.pc \in {"pop", "del"} => main.pid \in InState({"gone"})
    BY DEF Known
  <2>5. children[s] = 0
    <3>1. ASSUME children[s] # 0 PROVE FALSE
      <4>1. s \in All
        BY <2>3, Typing DEF Record
      <4>2. children[s] \notin Live
        BY <3>1, <2>3, <4>1 DEF Entries, OneEach
      <4>3. main.pc \in {"pop", "del"} /\ proc[main.pid].setup = s
        BY <3>1, <4>1, <4>2 DEF Entries
      <4>4. s \in Ended
        BY <4>3 DEF Ended, Known
      <4> QED
        BY <2>3, <4>3, <4>4 DEF OneEach
    <3> QED
      BY <3>1
  <2>6. ASSUME NEW r \in All, children'[r] # 0
        PROVE  /\ proc'[children'[r]].setup = r
               /\ \/ children'[r] \in Live'
                  \/ main'.pc \in {"pop", "del"} /\ main'.pid = children'[r]
    BY <1>2, <2>1, <2>2, <2>3, <2>4, <2>6 DEF Entries
  <2>7. \A q \in Live' : \/ children'[proc'[q].setup] = q
                         \/ \E v \in Threads : At(v, "children")' /\ thr'[v].pid = q
    BY <1>2, <2>1, <2>2, <2>3 DEF Entries
  <2>8. \A v \in Threads : At(v, "children")' => children'[thr'[v].setup] = 0
    BY <2>1, <2>3, <2>5 DEF Entries
  <2>9. main'.pc \in {"pop", "del"} => children'[proc'[main'.pid].setup] = main'.pid
    BY <2>1, <2>2, <2>3, <2>4 DEF Entries
  <2> QED
    BY <2>6, <2>7, <2>8, <2>9 DEF Entries
<1>9. Trouble'
  <2>1. /\ InState({"term", "dead"})' = InState({"term", "dead"})
        /\ InState({"running"}) \subseteq InState({"running"})'
        /\ \A q \in Live : proc'[q] = proc[q]
    BY <1>1, <1>2, Subsets
  <2>2. Ended' = Ended /\ callback'.kill = callback.kill
    <3>1. main.pc = "pop" => proc'[main.pid] = proc[main.pid]
      BY <1>1, <1>2, Subsets DEF Known
    <3>2. \/ main' = main
          \/ {main.pc, main'.pc} \cap {"pop", "del", "decide"} = {}
      BY <1>1 DEF Creates
    <3>3. callback'.kill = callback.kill
      BY <1>1
    <3> QED
      BY <3>1, <3>2, <3>3 DEF Ended
  <2>3. callback.pc = "idle" => callback'.pc = "idle"
    BY <1>1 DEF Creates
  <2> QED
    BY <2>1, <2>2, <2>3, TroubleKept DEF Creates
<1> QED
  BY <1>3, <1>4, <1>5, <1>6, <1>7, <1>8, <1>9

LEMMA MainAssignsKeeps ==
    ASSUME IInv, Assigns("main")
    PROVE  Rest'
<1>1. /\ Goes("main", "childpids") /\ Unreferenced(children[thr["main"].setup])
      /\ children'[thr["main"].setup] = thr["main"].pid /\ "main" \in Threads
      /\ \A s \in All : s # thr["main"].setup => children'[s] = children[s]
  BY AssignsDoes
<1>2. children[thr["main"].setup] = 0 /\ loose = {} /\ 0 \notin Live
  BY PollerAssumption DEF Assigns, Entries, Known, Live, InState, Pids
<1>3. proc' = proc /\ loose' = {}
  BY <1>1, <1>2, UnreferencedDoes
<1>4. /\ main'.pc = "childpids" /\ main'.setup = main.setup /\ main'.pid = main.pid
      /\ main'.todo = main.todo /\ main'.kill = main.kill /\ main'.then = main.then
      /\ callback' = callback /\ main.pc = "children"
  BY <1>1 DEF Assigns
<1>5. /\ children'[main.setup] = main.pid /\ children[main.setup] = 0
      /\ \A s \in All : s # main.setup => children'[s] = children[s]
  BY <1>1, <1>2
<1>6. /\ Live' = Live /\ InState({"running"})' = InState({"running"})
      /\ InState({"gone"})' = InState({"gone"})
      /\ InState({"term", "dead"})' = InState({"term", "dead"})
  BY <1>3, SameDoes
<1>7. Phases'
  BY <1>2, <1>3, <1>4, <1>5, <1>6, Subsets DEF Assigns, Phases, Static, Starting,
     MainSteps, CallbackSteps
<1>8. Reading'
  BY <1>2, <1>3, <1>4, <1>5, <1>6, Subsets DEF Assigns, Reading
<1>9. OneEach'
  BY <1>2, <1>3, <1>4, <1>5, <1>6, Subsets, Typing, EachKept DEF Assigns, Ended,
     Phases, Static, Starting
<1>10. Covered'
  BY <1>2, <1>3, <1>4, <1>5, <1>6, Subsets DEF Assigns, Covered, Polls, Ended
<1>11. Known'
  BY <1>2, <1>3, <1>4, <1>5, <1>6, Subsets DEF Assigns, Known, Fresh
<1>12. Entries'
  <2>1. /\ main.pid \in Live /\ proc[main.pid].setup = main.setup /\ main.setup \in All
        /\ callback.pc # "children"
    BY <1>4, Typing DEF Known, Fresh, Phases, Starting, Static, Record
  <2>2. \A v \in {"main", "callback"} : ~ At(v, "children")'
    BY <1>4, <2>1
  <2>3. /\ main'.pc \in {"pop", "del"} <=> main.pc \in {"pop", "del"}
        /\ main'.pid = main.pid
    BY <1>4
  <2>4. ASSUME NEW s \in All, children'[s] # 0
        PROVE  /\ proc'[children'[s]].setup = s
               /\ \/ children'[s] \in Live'
                  \/ main'.pc \in {"pop", "del"} /\ main'.pid = children'[s]
    <3>1. CASE s = main.setup
      BY <1>3, <1>5, <1>6, <2>1, <3>1
    <3>2. CASE s # main.setup
      BY <1>3, <1>5, <1>6, <2>3, <2>4, <3>2 DEF Entries
    <3> QED
      BY <3>1, <3>2
  <2>5. ASSUME NEW q \in Live' PROVE children'[proc'[q].setup] = q
    <3>1. q \in Live /\ proc[q].setup \in All /\ q # 0
      BY <1>2, <1>6, <2>5, Subsets, Typing DEF Process
    <3>2. children[proc[q].setup] = q \/ q = main.pid
      BY <2>1, <3>1 DEF Entries
    <3> QED
      BY <1>3, <1>5, <2>1, <3>1, <3>2
  <2>6. main'.pc \in {"pop", "del"} => children'[proc'[main'.pid].setup] = main'.pid
    <3>1. main.pc \in {"pop", "del"} =>
             /\ main.pid \in Pids /\ main.pid # 0 /\ proc[main.pid].setup \in All
             /\ children[proc[main.pid].setup] = main.pid
      BY PollerAssumption, Typing DEF Known, Entries, InState, Pids, Process
    <3> QED
      BY <1>3, <1>5, <2>3, <3>1
  <2> QED
    BY <2>2, <2>4, <2>5, <2>6 DEF Entries
<1>13. Trouble'
  BY <1>2, <1>3, <1>4, <1>5, <1>6, Subsets, Typing, TroubleKept DEF Assigns, Ended,
     Phases, Static, Starting
<1> QED
  BY <1>7, <1>8, <1>9, <1>10, <1>11, <1>12, <1>13

LEMMA MainRecordsKeeps ==
    ASSUME IInv, Records("main")
    PROVE  Rest'
<1>1. Goes("main", "create")
  BY RecordsDoes
<1>2. Phases'
  BY <1>1, SameDoes, Typing DEF Records, Phases, Static, Starting, MainSteps,
     CallbackSteps
<1>3. Reading'
  BY <1>1, SameDoes, Typing DEF Records, Reading
<1>4. OneEach'
  BY <1>1, SameDoes, Typing, EachKept DEF Records, Ended, Phases, Static, Starting
<1>5. Covered'
  BY <1>1, SameDoes, Typing DEF Records, Covered, Polls, Ended
<1>6. Known'
  BY <1>1, SameDoes, Typing DEF Records, Known, Fresh
<1>7. Entries'
  BY <1>1, SameDoes, Typing, EntriesKept DEF Records, Phases, Static, Starting
<1>8. Trouble'
  BY <1>1, SameDoes, Typing, TroubleKept DEF Records, Ended, Phases, Static, Starting
<1> QED
  BY <1>2, <1>3, <1>4, <1>5, <1>6, <1>7, <1>8

LEMMA MainStartedKeeps ==
    ASSUME IInv, Started("main")
    PROVE  Rest'
<1>1. Goes("main", thr["main"].then)
  BY StartedDoes
<1>2. Phases'
  BY <1>1, SameDoes, Typing DEF Started, Phases, Static, Starting, MainSteps,
     CallbackSteps
<1>3. Reading'
  BY <1>1, SameDoes, Typing DEF Started, Reading
<1>4. OneEach'
  BY <1>1, SameDoes, Typing, EachKept DEF Started, Ended, Phases, Static, Starting
<1>5. Covered'
  BY <1>1, SameDoes, Typing DEF Started, Covered, Polls, Ended
<1>6. Known'
  BY <1>1, SameDoes, Typing, KnownKept DEF Started, Fresh, Phases, Static, Starting
<1>7. Entries'
  BY <1>1, SameDoes, Typing, EntriesKept DEF Started, Phases, Static, Starting
<1>8. Trouble'
  BY <1>1, SameDoes, Typing, TroubleKept DEF Started, Ended, Phases, Static, Starting
<1> QED
  BY <1>2, <1>3, <1>4, <1>5, <1>6, <1>7, <1>8

LEMMA CallbackCreatesKeeps ==
    ASSUME IInv, Creates("callback")
    PROVE  Rest'
<1>0. loose = {} /\ "callback" \in Threads
  BY DEF Known
<1>1. PICK s \in thr["callback"].todo, p \in InState({"none"}) :
         /\ Now("callback", "children", s, p, thr["callback"].todo \ {s}, thr["callback"].kill,
                thr["callback"].then)
         /\ proc'[p].state = "running" /\ proc'[p].setup = s
         /\ \A q \in Pids : q # p => proc'[q] = proc[q]
  BY <1>0, CreatesDoes
<1>2. /\ p \notin Live /\ p \in Pids /\ Live' = Live \cup {p}
      /\ InState({"running"})' = InState({"running"}) \cup {p}
      /\ InState({"gone"})' = InState({"gone"}) /\ p \notin InState({"gone"})
      /\ InState({"term", "dead"})' = InState({"term", "dead"}) /\ loose' = {}
  BY <1>0, <1>1, CreatesDoes, NewDoes DEF Creates
<1>3. Phases'
  BY <1>1, <1>2, Subsets, Typing DEF Creates, Phases, Static, Starting, MainSteps,
     CallbackSteps
<1>4. Reading'
  BY <1>1, <1>2, Subsets, Typing DEF Creates, Reading
<1>5. OneEach'
  <2>1. /\ s \notin callback.todo' \cup Ended' /\ Ended' = Ended /\ s \in setups
        /\ callback.todo' \subseteq callback.todo /\ main' = main /\ main.todo = {}
    <3>1. main' = main /\ callback'.todo = callback.todo \ {s}
      BY <1>1
    <3>2. main.todo = {}
      BY DEF Creates, Phases, Starting, Trouble, Static
    <3>3. Ended' = Ended
      <4>1. main.pc = "pop" => main.pid \in Pids /\ main.pid # p
        BY <1>2, Subsets DEF Known
      <4> QED
        BY <1>1, <3>1, <4>1 DEF Ended
    <3> QED
      BY <1>1, <3>1, <3>2, <3>3 DEF OneEach, Reading
  <2>2. s \in callback.todo /\ s \notin Ended
    BY <1>1, <2>1 DEF OneEach
  <2>3. \A q \in Live : q # p /\ q \in Pids /\ proc'[q].setup = proc[q].setup /\ proc[q].setup # s
    BY <1>1, <1>2, <2>2, Subsets DEF OneEach
  <2>4. \A q \in Live : proc[q].setup \notin main.todo \cup callback.todo \cup Ended
    BY DEF OneEach
  <2>5. \A q, r \in Live' : proc'[q].setup = proc'[r].setup => q = r
    BY <1>1, <1>2, <2>3 DEF OneEach
  <2>6. \A q \in Live' : proc'[q].setup \notin (main.todo \cup callback.todo \cup Ended)'
    BY <1>1, <1>2, <2>1, <2>3, <2>4
  <2>7. (Ended \cap callback.todo = {})'
    BY <2>1 DEF OneEach
  <2>8. \A q \in InState({"running"})' : proc'[q].setup \in (setups \cup callback.kill)'
    BY <1>1, <1>2, <2>1, <2>3, Subsets DEF Creates, OneEach
  <2> QED
    BY <2>5, <2>6, <2>7, <2>8 DEF OneEach
<1>6. Covered'
  <2>1. Ended' = Ended
    <3>1. main.pc = "pop" => proc'[main.pid] = proc[main.pid]
      BY <1>1, <1>2, Subsets DEF Known
    <3>2. \/ main' = main
          \/ {main.pc, main'.pc} \cap {"pop", "del", "decide"} = {}
      BY <1>1 DEF Creates
    <3> QED
      BY <3>1, <3>2 DEF Ended
  <2>2. /\ callback'.todo = callback.todo \ {s} /\ main'.todo = main.todo
        /\ main.pc # "read" /\ setups' = setups /\ stoprequest' = stoprequest
    BY <1>1 DEF Creates, Phases
  <2>3. Polls(s)'
    BY <1>1, <1>2 DEF Polls
  <2>4. ASSUME NEW r, Polls(r) PROVE Polls(r)'
    BY <1>1, <1>2, <2>4, Subsets DEF Polls
  <2> QED
    BY <2>1, <2>2, <2>3, <2>4 DEF Covered
<1>7. Known'
  <2>1. /\ main' = main /\ callback'.pc = "children" /\ callback'.pid = p /\ callback'.setup = s
    BY <1>1
  <2>2. /\ \A q \in Live : q # p /\ proc'[q] = proc[q]
        /\ \A q \in InState({"gone"}) : q # p /\ proc'[q] = proc[q]
    BY <1>1, <1>2, Subsets
  <2>3. ~ Fresh("callback") /\ childpids' = childpids
    BY DEF Creates, Fresh
  <2>4. \A q \in Live' : q \in childpids' \/ \E v \in Threads : Fresh(v)' /\ thr'[v].pid = q
    BY <1>1, <1>2, <2>1, <2>3 DEF Known, Fresh
  <2>5. \A v \in Threads : Fresh(v)' =>
           thr'[v].pid \in Live' /\ proc'[thr'[v].pid].setup = thr'[v].setup
    BY <1>1, <1>2, <2>1, <2>2 DEF Known, Fresh
  <2>6. Fresh("callback")' => callback'.pid \in InState({"running"})'
    BY <1>2, <2>1 DEF Known, Fresh
  <2>7. /\ main'.pc = "pop" => main'.pid \in childpids'
        /\ main'.pc \in {"pop", "del"} => main'.pid \in InState({"gone"})'
        /\ main'.pc = "del" => main'.setup = proc'[main'.pid].setup
        /\ main'.pc # "died"
    BY <1>2, <2>1, <2>2, <2>3 DEF Known
  <2> QED
    BY <1>2, <2>4, <2>5, <2>6, <2>7 DEF Known
<1>8. Entries'
  <2>1. /\ main' = main /\ callback'.pc = "children" /\ callback'.pid = p /\ callback'.setup = s
    BY <1>1
  <2>2. \A q \in Live \cup InState({"gone"}) : q # p /\ proc'[q] = proc[q]
    BY <1>1, <1>2, Subsets
  <2>3. children' = children /\ callback.pc = "create" /\ s \in callback.todo
    BY <1>1 DEF Creates
  <2>4. main.pc \in {"pop", "del"} => main.pid \in InState({"gone"})
    BY DEF Known
  <2>5. children[s] = 0
    <3>1. ASSUME children[s] # 0 PROVE FALSE
      <4>1. s \in All
        BY <2>3, Typing DEF Record
      <4>2. children[s] \notin Live
        BY <3>1, <2>3, <4>1 DEF Entries, OneEach
      <4>3. main.pc \in {"pop", "del"} /\ proc[main.pid].setup = s
        BY <3>1, <4>1, <4>2 DEF Entries
      <4>4. s \in Ended
        BY <4>3 DEF Ended, Known
      <4> QED
        BY <2>3, <4>3, <4>4 DEF OneEach
    <3> QED
      BY <3>1
  <2>6. ASSUME NEW r \in All, children'[r] # 0
        PROVE  /\ proc'[children'[r]].setup = r
               /\ \/ children'[r] \in Live'
                  \/ main'.pc \in {"pop", "del"} /\ main'.pid = children'[r]
    BY <1>2, <2>1, <2>2, <2>3, <2>4, <2>6 DEF Entries
  <2>7. \A q \in Live' : \/ children'[proc'[q].setup] = q
                         \/ \E v \in Threads : At(v, "children")' /\ thr'[v].pid = q
    BY <1>2, <2>1, <2>2, <2>3 DEF Entries
  <2>8. \A v \in Threads : At(v, "children")' => children'[thr'[v].setup] = 0
    BY <2>1, <2>3, <2>5 DEF Entries
  <2>9. main'.pc \in {"pop", "del"} => children'[proc'[main'.pid].setup] = main'.pid
    BY <2>1, <2>2, <2>3, <2>4 DEF Entries
  <2> QED
    BY <2>6, <2>7, <2>8, <2>9 DEF Entries
<1>9. Trouble'
  <2>1. /\ InState({"term", "dead"})' = InState({"term", "dead"})
        /\ InState({"running"}) \subseteq InState({"running"})'
        /\ \A q \in Live : proc'[q] = proc[q]
    BY <1>1, <1>2, Subsets
  <2>2. Ended' = Ended /\ callback'.kill = callback.kill
    <3>1. main.pc = "pop" => proc'[main.pid] = proc[main.pid]
      BY <1>1, <1>2, Subsets DEF Known
    <3>2. \/ main' = main
          \/ {main.pc, main'.pc} \cap {"pop", "del", "decide"} = {}
      BY <1>1 DEF Creates
    <3>3. callback'.kill = callback.kill
      BY <1>1
    <3> QED
      BY <3>1, <3>2, <3>3 DEF Ended
  <2>3. callback.pc = "idle" => callback'.pc = "idle"
    BY <1>1 DEF Creates
  <2> QED
    BY <2>1, <2>2, <2>3, TroubleKept DEF Creates
<1> QED
  BY <1>3, <1>4, <1>5, <1>6, <1>7, <1>8, <1>9

LEMMA CallbackAssignsKeeps ==
    ASSUME IInv, Assigns("callback")
    PROVE  Rest'
<1>1. /\ Goes("callback", "childpids") /\ Unreferenced(children[thr["callback"].setup])
      /\ children'[thr["callback"].setup] = thr["callback"].pid /\ "callback" \in Threads
      /\ \A s \in All : s # thr["callback"].setup => children'[s] = children[s]
  BY AssignsDoes
<1>2. children[thr["callback"].setup] = 0 /\ loose = {} /\ 0 \notin Live
  BY PollerAssumption DEF Assigns, Entries, Known, Live, InState, Pids
<1>3. proc' = proc /\ loose' = {}
  BY <1>1, <1>2, UnreferencedDoes
<1>4. /\ callback'.pc = "childpids" /\ callback'.setup = callback.setup /\ callback'.pid = callback.pid
      /\ callback'.todo = callback.todo /\ callback'.kill = callback.kill /\ callback'.then = callback.then
      /\ main' = main /\ callback.pc = "children"
  BY <1>1 DEF Assigns
<1>5. /\ children'[callback.setup] = callback.pid /\ children[callback.setup] = 0
      /\ \A s \in All : s # callback.setup => children'[s] = children[s]
  BY <1>1, <1>2
<1>6. /\ Live' = Live /\ InState({"running"})' = InState({"running"})
      /\ InState({"gone"})' = InState({"gone"})
      /\ InState({"term", "dead"})' = InState({"term", "dead"})
  BY <1>3, SameDoes
<1>7. Phases'
  BY <1>2, <1>3, <1>4, <1>5, <1>6, Subsets DEF Assigns, Phases, Static, Starting,
     MainSteps, CallbackSteps
<1>8. Reading'
  BY <1>2, <1>3, <1>4, <1>5, <1>6, Subsets DEF Assigns, Reading
<1>9. OneEach'
  BY <1>2, <1>3, <1>4, <1>5, <1>6, Subsets, Typing, EachKept DEF Assigns, Ended,
     Phases, Static, Starting
<1>10. Covered'
  BY <1>2, <1>3, <1>4, <1>5, <1>6, Subsets DEF Assigns, Covered, Polls, Ended
<1>11. Known'
  BY <1>2, <1>3, <1>4, <1>5, <1>6, Subsets DEF Assigns, Known, Fresh
<1>12. Entries'
  <2>1. /\ callback.pid \in Live /\ proc[callback.pid].setup = callback.setup /\ callback.setup \in All
        /\ main.pc # "children"
    BY <1>4, Typing DEF Known, Fresh, Phases, Starting, Static, Record
  <2>2. \A v \in {"main", "callback"} : ~ At(v, "children")'
    BY <1>4, <2>1
  <2>3. /\ main'.pc \in {"pop", "del"} <=> main.pc \in {"pop", "del"}
        /\ main'.pid = main.pid
    BY <1>4
  <2>4. ASSUME NEW s \in All, children'[s] # 0
        PROVE  /\ proc'[children'[s]].setup = s
               /\ \/ children'[s] \in Live'
                  \/ main'.pc \in {"pop", "del"} /\ main'.pid = children'[s]
    <3>1. CASE s = callback.setup
      BY <1>3, <1>5, <1>6, <2>1, <3>1
    <3>2. CASE s # callback.setup
      BY <1>3, <1>5, <1>6, <2>3, <2>4, <3>2 DEF Entries
    <3> QED
      BY <3>1, <3>2
  <2>5. ASSUME NEW q \in Live' PROVE children'[proc'[q].setup] = q
    <3>1. q \in Live /\ proc[q].setup \in All /\ q # 0
      BY <1>2, <1>6, <2>5, Subsets, Typing DEF Process
    <3>2. children[proc[q].setup] = q \/ q = callback.pid
      BY <2>1, <3>1 DEF Entries
    <3> QED
      BY <1>3, <1>5, <2>1, <3>1, <3>2
  <2>6. main'.pc \in {"pop", "del"} => children'[proc'[main'.pid].setup] = main'.pid
    <3>1. main.pc \in {"pop", "del"} =>
             /\ main.pid \in Pids /\ main.pid # 0 /\ proc[main.pid].setup \in All
             /\ children[proc[main.pid].setup] = main.pid
      BY PollerAssumption, Typing DEF Known, Entries, InState, Pids, Process
    <3> QED
      BY <1>3, <1>5, <2>3, <3>1
  <2> QED
    BY <2>2, <2>4, <2>5, <2>6 DEF Entries
<1>13. Trouble'
  BY <1>2, <1>3, <1>4, <1>5, <1>6, Subsets, Typing, TroubleKept DEF Assigns, Ended,
     Phases, Static, Starting
<1> QED
  BY <1>7, <1>8, <1>9, <1>10, <1>11, <1>12, <1>13

LEMMA CallbackRecordsKeeps ==
    ASSUME IInv, Records("callback")
    PROVE  Rest'
<1>1. Goes("callback", "create")
  BY RecordsDoes
<1>2. Phases'
  BY <1>1, SameDoes, Typing DEF Records, Phases, Static, Starting, MainSteps,
     CallbackSteps
<1>3. Reading'
  BY <1>1, SameDoes, Typing DEF Records, Reading
<1>4. OneEach'
  BY <1>1, SameDoes, Typing, EachKept DEF Records, Ended, Phases, Static, Starting
<1>5. Covered'
  BY <1>1, SameDoes, Typing DEF Records, Covered, Polls, Ended
<1>6. Known'
  BY <1>1, SameDoes, Typing DEF Records, Known, Fresh
<1>7. Entries'
  BY <1>1, SameDoes, Typing, EntriesKept DEF Records, Phases, Static, Starting
<1>8. Trouble'
  BY <1>1, SameDoes, Typing, TroubleKept DEF Records, Ended, Phases, Static, Starting
<1> QED
  BY <1>2, <1>3, <1>4, <1>5, <1>6, <1>7, <1>8

LEMMA CallbackStartedKeeps ==
    ASSUME IInv, Started("callback")
    PROVE  Rest'
<1>1. Goes("callback", thr["callback"].then)
  BY StartedDoes
<1>2. Phases'
  BY <1>1, SameDoes, Typing DEF Started, Phases, Static, Starting, MainSteps,
     CallbackSteps
<1>3. Reading'
  BY <1>1, SameDoes, Typing DEF Started, Reading
<1>4. OneEach'
  BY <1>1, SameDoes, Typing, EachKept DEF Started, Ended, Phases, Static, Starting
<1>5. Covered'
  BY <1>1, SameDoes, Typing DEF Started, Covered, Polls, Ended
<1>6. Known'
  BY <1>1, SameDoes, Typing, KnownKept DEF Started, Fresh, Phases, Static, Starting
<1>7. Entries'
  BY <1>1, SameDoes, Typing, EntriesKept DEF Started, Phases, Static, Starting
<1>8. Trouble'
  BY <1>1, SameDoes, Typing, TroubleKept DEF Started, Ended, Phases, Static, Starting
<1> QED
  BY <1>2, <1>3, <1>4, <1>5, <1>6, <1>7, <1>8

LEMMA SetupsChangeKeeps ==
    ASSUME IInv, SetupsChange
    PROVE  Rest'
<1>1. /\ Goes("callback", IF registered THEN "begin" ELSE "idle")
      /\ told' = told + 1 /\ told + 1 \in DOMAIN Plan
  BY SetupsChangeDoes
<1>2. Phases'
  BY <1>1, SameDoes, Typing DEF SetupsChange, Phases, Static, Starting, MainSteps,
     CallbackSteps
<1>3. Reading'
  BY <1>1, SameDoes, Typing DEF SetupsChange, Phases, Static, Starting, MainSteps,
     CallbackSteps, Reading
<1>4. OneEach'
  BY <1>1, SameDoes, Typing, EachKept DEF SetupsChange, Ended, Phases, Static, Starting
<1>5. Covered'
  BY <1>1, SameDoes, Typing DEF SetupsChange, Covered, Polls, Ended
<1>6. Known'
  BY <1>1, SameDoes, Typing, KnownKept DEF SetupsChange, Fresh, Phases, Static,
     Starting
<1>7. Entries'
  BY <1>1, SameDoes, Typing, EntriesKept DEF SetupsChange, Phases, Static, Starting
<1>8. Trouble'
  BY <1>1, SameDoes, Typing DEF SetupsChange, Phases, Static, Starting, MainSteps,
     CallbackSteps, Ended, Trouble, Dropping, Dropped
<1> QED
  BY <1>2, <1>3, <1>4, <1>5, <1>6, <1>7, <1>8

LEMMA ReconfiguresKeeps ==
    ASSUME IInv, NoneComesBack, Reconfigures
    PROVE  Rest'
<1>1. /\ callback.pc = "begin" /\ Dropping /\ main.pc \notin Starting \cup {"read"}
      /\ callback.todo = {} /\ callback.kill = {} /\ main.todo = {} /\ ~ stoprequest
  BY DEF Reconfigures, TypeOK, Trouble, Phases, Static, Dropping, Starting
<1>2. Now("callback", "kill", callback.setup, callback.pid, Wanted(Plan[told]) \ setups,
          setups \ Wanted(Plan[told]), callback.then)
  BY ReconfiguresDoes
<1>3. PICK i \in 1..told : setups = Wanted(Plan[i])
  BY <1>1 DEF Reading
<1>4. ASSUME NEW s \in setups \ Wanted(Plan[told]), NEW k \in told..Len(Plan)
      PROVE  s \notin Wanted(Plan[k])
  <2>1. i \in DOMAIN Plan /\ told \in DOMAIN Plan /\ k \in DOMAIN Plan /\ i <= told /\ told <= k
    BY Typing, PollerAssumption
  <2> QED
    BY <1>3, <2>1 DEF NoneComesBack
<1>5. \A s \in All : Dropped(s) => s \notin Wanted(Plan[told]) /\ s \notin setups
  BY Typing DEF Dropped
<1>6. /\ callback'.pc = "kill" /\ callback'.pid = callback.pid /\ callback'.then = callback.then
      /\ callback'.todo = Wanted(Plan[told]) \ setups
      /\ callback'.kill = setups \ Wanted(Plan[told]) /\ main' = main
  BY <1>2
<1>7. /\ Live' = Live /\ InState({"running"})' = InState({"running"})
      /\ InState({"gone"})' = InState({"gone"})
      /\ InState({"term", "dead"})' = InState({"term", "dead"})
  BY SameDoes DEF Reconfigures
<1>8. Phases'
  BY <1>1, <1>3, <1>5, <1>6, <1>7, Subsets, Typing DEF Reconfigures, Phases, Static,
     Starting, MainSteps, CallbackSteps
<1>9. Reading'
  BY <1>1, <1>3, <1>5, <1>6, <1>7, Subsets, Typing DEF Reconfigures, Reading
<1>10. OneEach'
  <2>1. ASSUME NEW p \in Live PROVE proc[p].setup \notin Wanted(Plan[told]) \ setups
    <3>1. CASE p \in InState({"running"})
      BY <1>1, <3>1 DEF OneEach
    <3>2. CASE p \in InState({"term", "dead"})
      BY <1>1, <1>5, <3>2, Typing DEF Dropping, Process, InState
    <3> QED
      BY <3>1, <3>2 DEF Live, InState
  <2>2. Ended' = Ended /\ Live' = Live /\ proc' = proc /\ main' = main /\ main.todo = {}
        /\ setups' = Wanted(Plan[told])
    BY <1>1, <1>2, SameDoes DEF Reconfigures, Ended
  <2>3. Ended \cap (Wanted(Plan[told]) \ setups) = {}
    BY <1>1, <1>5, Typing DEF Dropping
  <2>4. /\ callback'.todo = Wanted(Plan[told]) \ setups
        /\ callback'.kill = setups \ Wanted(Plan[told])
    BY <1>2
  <2>5. \A p \in InState({"running"}) : proc[p].setup \in setups
    BY <1>1 DEF OneEach
  <2> QED
    BY <2>1, <2>2, <2>3, <2>4, <2>5, SameDoes DEF OneEach
<1>11. Covered'
  BY <1>1, <1>3, <1>5, <1>6, <1>7, Subsets, Typing DEF Reconfigures, Covered, Polls,
     Ended
<1>12. Known'
  BY <1>1, <1>3, <1>5, <1>6, <1>7, Subsets, Typing, KnownKept DEF Reconfigures, Fresh,
     Phases, Static, Starting
<1>13. Entries'
  BY <1>1, <1>3, <1>5, <1>6, <1>7, Subsets, Typing, EntriesKept DEF Reconfigures,
     Phases, Static, Starting
<1>14. Trouble'
  <2>1. ASSUME NEW s \in setups \ Wanted(Plan[told])
        PROVE  \E p \in InState({"running"}) : proc[p].setup = s
    <3>1. s \in Ended \/ Polls(s)
      BY <1>1 DEF Covered
    <3>2. \A r \in Ended : Dropped(r)
      BY <1>1 DEF Dropping
    <3>3. \A p \in InState({"term", "dead"}) : Dropped(proc[p].setup)
      BY <1>1 DEF Dropping
    <3> QED
      BY <3>1, <3>2, <3>3 DEF Polls, Dropped, Live, InState
  <2>2. \A s \in All : Dropped(s) => Dropped(s)'
    BY <1>5 DEF Reconfigures, Dropped
  <2>3. \A s \in setups \ Wanted(Plan[told]) : Dropped(s)'
    BY <1>4 DEF Reconfigures, Dropped
  <2>4. /\ Ended' = Ended /\ proc' = proc /\ callback'.kill = setups \ Wanted(Plan[told])
        /\ UNCHANGED <<signals, crashes, killer>>
    BY <1>2 DEF Reconfigures, Ended
  <2>5. Ended \subseteq All /\ \A p \in Pids : proc[p].setup \in All
    BY Typing DEF Process, Ended, Record, Known, InState
  <2>6. Dropping'
    BY <1>1, <2>1, <2>2, <2>3, <2>4, <2>5, SameDoes, Subsets DEF Dropping
  <2> QED
    BY <2>6 DEF Trouble
<1> QED
  BY <1>8, <1>9, <1>10, <1>11, <1>12, <1>13, <1>14

LEMMA KillsKeeps ==
    ASSUME IInv, Kills
    PROVE  Rest'
<1>1. callback.pc = "kill" /\ main.pc \notin Starting /\ Dropping
  BY DEF Kills, Phases, Trouble, Static
<1>2. PICK s \in callback.kill :
         \/ /\ children[s] = 0 \/ children[s] \in InState({"gone"})
            /\ Now("callback", "idle", Dummy, 0, {}, {}, "idle")
            /\ proc' = proc
         \/ /\ children[s] \in Pids /\ children[s] \notin InState({"gone"})
            /\ Now("callback", "kill", callback.setup, callback.pid, callback.todo,
                   callback.kill \ {s}, callback.then)
            /\ Becomes({children[s]} \cap InState({"running"}), "term")
  BY KillsDoes
<1>3. PICK p \in InState({"running"}) : proc[p].setup = s
  BY <1>1 DEF Dropping
<1>4. p \in Live /\ p \in Pids /\ p # 0 /\ p \notin InState({"gone"}) /\ s \in All
  BY Typing, PollerAssumption DEF Live, InState, Record, Pids
<1>5. children[s] = p
  BY <1>1, <1>3, <1>4 DEF Entries, Starting
<1>6. /\ Now("callback", "kill", callback.setup, callback.pid, callback.todo,
             callback.kill \ {s}, callback.then)
      /\ Becomes({p}, "term")
  <2>1. {p} \cap InState({"running"}) = {p}
    BY <1>3
  <2> QED
    BY <1>2, <1>4, <1>5, <2>1
<1>7. /\ Live' = Live /\ InState({"running"})' = InState({"running"}) \ {p}
      /\ InState({"gone"})' = InState({"gone"})
      /\ InState({"term", "dead"})' = InState({"term", "dead"}) \cup {p}
      /\ \A q \in Pids : proc'[q].setup = proc[q].setup
  BY <1>4, <1>6, EndsDoes
<1>8. /\ callback'.pc = "kill" /\ callback'.pid = callback.pid /\ callback'.then = callback.then
      /\ callback'.todo = callback.todo /\ callback'.kill = callback.kill \ {s} /\ main' = main
  BY <1>6
<1>9. Phases'
  BY <1>1, <1>3, <1>4, <1>5, <1>7, <1>8, Subsets DEF Kills, Phases, Static, Starting,
     MainSteps, CallbackSteps
<1>10. Reading'
  BY <1>1, <1>3, <1>4, <1>5, <1>7, <1>8, Subsets DEF Kills, Reading
<1>11. OneEach'
  BY <1>1, <1>3, <1>4, <1>5, <1>7, <1>8, Subsets, SMTT(30) DEF Kills, OneEach, Ended, Known,
     Fresh
<1>12. Covered'
  BY <1>1, <1>3, <1>4, <1>5, <1>7, <1>8, Subsets DEF Kills, Covered, Polls, Ended,
     Known, Fresh
<1>13. Known'
  BY <1>1, <1>3, <1>4, <1>5, <1>7, <1>8, Subsets DEF Kills, Known, Fresh
<1>14. Entries'
  BY <1>1, <1>3, <1>4, <1>5, <1>7, <1>8, Subsets, Typing, EntriesKept DEF Kills,
     Phases, Static, Starting
<1>15. Trouble'
  BY <1>1, <1>3, <1>4, <1>5, <1>7, <1>8, Subsets DEF Kills, Static, Ended, Known,
     Fresh, Trouble, Dropping, Dropped
<1> QED
  BY <1>9, <1>10, <1>11, <1>12, <1>13, <1>14, <1>15

LEMMA KilledKeeps ==
    ASSUME IInv, Killed
    PROVE  Rest'
<1>1. Goes("callback", "create")
  BY KilledDoes
<1>2. Phases'
  BY <1>1, SameDoes, Typing DEF Killed, Phases, Static, Starting, MainSteps,
     CallbackSteps
<1>3. Reading'
  BY <1>1, SameDoes, Typing DEF Killed, Reading
<1>4. OneEach'
  BY <1>1, SameDoes, Typing, EachKept DEF Killed, Ended, Phases, Static, Starting
<1>5. Covered'
  BY <1>1, SameDoes, Typing DEF Killed, Covered, Polls, Ended
<1>6. Known'
  BY <1>1, SameDoes, Typing, KnownKept DEF Killed, Fresh, Phases, Static, Starting
<1>7. Entries'
  BY <1>1, SameDoes, Typing, EntriesKept DEF Killed, Phases, Static, Starting
<1>8. Trouble'
  BY <1>1, SameDoes, Typing, TroubleKept DEF Killed, Ended, Phases, Static, Starting
<1> QED
  BY <1>2, <1>3, <1>4, <1>5, <1>6, <1>7, <1>8

\* Processes end, or get a signal.
LEMMA ProcessKeeps ==
    ASSUME IInv, NEW ps \in SUBSET Live, NEW st \in {"term", "dead"}, Becomes(ps, st),
           UNCHANGED <<setups, childpids, children, registered, told, loose, thr>>,
           stoprequest => stoprequest', Trouble', Static \/ ps \cap InState({"running"}) = {}
    PROVE  Rest'
<1>1. /\ Live' = Live /\ InState({"running"})' = InState({"running"}) \ ps
      /\ InState({"gone"})' = InState({"gone"})
      /\ \A q \in Pids : proc'[q].setup = proc[q].setup
  BY EndsDoes
<1>2. Ended' = Ended
  BY <1>1, Subsets DEF Ended, Known
<1>3. Phases'
  BY <1>1 DEF Phases, Static
<1>4. Reading'
  BY DEF Reading
<1>5. OneEach'
  BY <1>1, <1>2, Subsets DEF OneEach
<1>6. Covered'
  BY <1>1, <1>2, Subsets DEF Covered, Polls
<1>7. Known'
  <2>1. Fresh("callback") => ps \cap InState({"running"}) = {}
    BY DEF Fresh, Static
  <2> QED
    BY <1>1, <2>1, Subsets DEF Known, Fresh
<1>8. Entries'
  <2>1. \A s \in All : children[s] # 0 => children[s] \in Pids
    BY Typing
  <2> QED
    BY <1>1, <2>1, Subsets DEF Entries, Known
<1> QED
  BY <1>3, <1>4, <1>5, <1>6, <1>7, <1>8

LEMMA SignalsKeep ==
    ASSUME IInv, Quit \/ Reload
    PROVE  Rest'
<1>1. Becomes(childpids \cap InState({"running"}), "term")
  BY TerminatedDoes DEF Quit, Reload
<1>2. Static /\ Static'
  BY DEF Quit, Reload, Trouble, Dropping, Static
<1> QED
  BY <1>1, <1>2, ProcessKeeps, Subsets DEF Quit, Reload, Trouble

LEMMA KillAllKeeps ==
    ASSUME IInv, KillAll
    PROVE  Rest'
<1>1. Becomes(childpids \cap InState({"running", "term"}), "dead")
  BY KillAllDoes
<1>2. Static /\ Static'
  BY DEF KillAll, Trouble, Dropping, Static
<1>3. InState({"running", "term"}) \subseteq Live
  BY DEF InState, Live
<1> QED
  BY <1>1, <1>2, <1>3, ProcessKeeps DEF KillAll, Trouble

LEMMA EndsKeep ==
    ASSUME IInv, NEW p \in Pids, Exits(p) \/ Crashes(p)
    PROVE  Rest'
<1>1. Becomes({p}, "dead") /\ p \in Live
  BY ExitsDoes DEF Exits, Crashes, Live, InState
<1>2. CASE Static
  <2>1. Static'
    BY <1>2 DEF Exits, Crashes, Static
  <2> QED
    BY <1>1, <1>2, <2>1, ProcessKeeps DEF Exits, Crashes, Trouble
<1>3. CASE Dropping
  <2>1. Exits(p) /\ p \notin InState({"running"}) /\ p \in InState({"term", "dead"})
    BY <1>3, Typing DEF Dropping, Exits, Crashes, TypeOK, InState
  <2>2. /\ InState({"term", "dead"})' = InState({"term", "dead"}) \cup {p}
        /\ InState({"running"})' = InState({"running"}) \ {p}
        /\ \A q \in Pids : proc'[q].setup = proc[q].setup
    BY <1>1, EndsDoes
  <2>3. Ended' = Ended
    <3>1. thr' = thr /\ \A q \in Pids : proc'[q].setup = proc[q].setup
      BY <2>1, <2>2 DEF Exits
    <3> QED
      BY <3>1, Subsets DEF Ended, Known
  <2>4. Dropping'
    BY <1>3, <2>1, <2>2, <2>3, Subsets DEF Exits, Dropping, Dropped
  <2> QED
    BY <1>1, <2>1, <2>4, ProcessKeeps DEF Exits, Trouble
<1> QED
  BY <1>2, <1>3 DEF Trouble

--------------------------------------------------------------------------------
HIDE DEF IInv, Rest, main, callback, Threads, Now, Goes, At

(***************************************************************************)
(* The invariant holds if no setup is dropped and wanted again.            *)
(***************************************************************************)
LEMMA InvInit == Init /\ OneTrouble => IInv
<1> SUFFICES ASSUME Init, OneTrouble PROVE IInv
  OBVIOUS
<1>1. /\ main = Thread("read", "register") /\ callback = Thread("idle", "idle")
      /\ Live = {} /\ \A st : "none" \notin st => InState(st) = {}
  BY DEF Init, Live, InState, main, callback
<1>2. TypeOK
  BY TypeInit
<1>3. Phases
  BY <1>1 DEF Init, Phases, Thread, MainSteps, CallbackSteps, Starting
<1>4. Reading /\ Covered
  BY <1>1 DEF Init, Reading, Covered, Thread
<1>5. OneEach
  BY <1>1 DEF OneEach, Ended, Thread
<1>6. Known
  BY <1>1 DEF Init, Known, Fresh, Thread
<1>7. Entries
  BY <1>1 DEF Init, Entries, Thread, At, main, callback
<1>8. Trouble
  BY <1>1 DEF Init, OneTrouble, Trouble, Static, Dropping, Ended, Thread
<1> QED
  BY <1>2, <1>3, <1>4, <1>5, <1>6, <1>7, <1>8 DEF IInv, Rest

LEMMA InvStep ==
    ASSUME NoneComesBack, IInv, [Next]_vars
    PROVE  IInv'
<1>1. HasPid
  BY PollerAssumption, Subsets DEF HasPid, Threads, IInv, Rest, Known, Pids
<1>2. TypeOK'
  BY <1>1, TypeStep DEF IInv
<1> SUFFICES Rest'
  BY <1>2 DEF IInv
<1>3. CASE MainStep
  BY <1>3, ReadsKeeps, RegistersKeeps, WaitReturnsKeeps, NoChildLeftKeeps, PopsKeeps,
     DeletesKeeps, DecidesKeeps, MainCreatesKeeps, MainAssignsKeeps, MainRecordsKeeps,
     MainStartedKeeps DEF MainStep, StartChild
<1>4. CASE CallbackStep \/ SetupsChange
  BY <1>4, SetupsChangeKeeps, ReconfiguresKeeps, KillsKeeps, KilledKeeps,
     CallbackCreatesKeeps, CallbackAssignsKeeps, CallbackRecordsKeeps,
     CallbackStartedKeeps DEF CallbackStep, StartChild
<1>5. CASE Quit \/ Reload \/ KillAll \/ \E p \in Pids : Exits(p) \/ Crashes(p)
  BY <1>5, SignalsKeep, KillAllKeeps, EndsKeep
<1>6. CASE UNCHANGED vars
  <2>1. /\ Live' = Live /\ Ended' = Ended /\ Static' = Static /\ Dropping' = Dropping
        /\ InState({"running"})' = InState({"running"}) /\ InState({"gone"})' = InState({"gone"})
    BY <1>6 DEF vars, Live, InState, Ended, Static, Dropping, Dropped, main, callback
  <2> QED
    BY <1>6, <2>1 DEF vars, IInv, Rest, Phases, Reading, OneEach, Covered, Polls, Known,
       Fresh, Entries, Trouble, main, callback, At
<1> QED
  BY <1>3, <1>4, <1>5, <1>6 DEF Next

LEMMA InvariantHolds ==
    ASSUME NoneComesBack
    PROVE  CalmSpec => []IInv
<1>1. IInv /\ [Next]_vars => IInv'
  BY InvStep
<1> QED
  BY <1>1, InvInit, PTL DEF CalmSpec, CalmInit

(***************************************************************************)
(* If the master's setups do not change before the callback is registered, *)
(* _reconfigure and _wait_master lead to what the parameters ask for.      *)
(***************************************************************************)
THEOREM PollsAsConfigured ==
    ASSUME NoneComesBack, Changes \subseteq {"late"}
    PROVE  CalmSpec => []Reflects
<1>1. ASSUME IInv, Settled PROVE AsConfigured
  <2>1. setups = Wanted(Plan[told])
    BY <1>1 DEF Settled, At, IInv, Rest, Reading, main, callback
  <2>2. main.todo = {} /\ callback.todo = {} /\ callback.kill = {} /\ Ended = {}
    BY <1>1 DEF Settled, At, IInv, Rest, Phases, Starting, Ended, main, callback
  <2>3. Live = InState({"running"})
    BY <1>1 DEF Settled, Live, InState
  <2>4. Polled = setups
    BY <1>1, <2>2, <2>3 DEF Settled, At, Polled, IInv, Rest, Covered, Polls, OneEach, main
  <2> QED
    BY <2>1, <2>4, PollerAssumption DEF AsConfigured, Wanted
<1> QED
  BY <1>1, InvariantHolds, PTL DEF Reflects

(***************************************************************************)
(* If one setup is polled all the time, _wait_master has a process to wait *)
(* for until quit, and no KeyError ends it.                                *)
(***************************************************************************)
THEOREM MasterStays ==
    ASSUME NoneComesBack, OneStays
    PROVE  CalmSpec => []MasterSurvives
<1>1. ASSUME IInv, NoChildLeft PROVE stoprequest
  <2>1. PICK s \in All : \A i \in DOMAIN Plan : s \in Wanted(Plan[i])
    BY DEF OneStays
  <2>2. main.pc = "wait" /\ Live = {}
    BY <1>1 DEF NoChildLeft, At, Live, main
  <2>3. 1..told \subseteq DOMAIN Plan
    BY <1>1, Typing, PollerAssumption DEF IInv
  <2>4. s \in setups /\ s \notin callback.todo
    BY <1>1, <2>1, <2>2, <2>3 DEF IInv, Rest, Reading
  <2>5. main.todo = {} /\ Ended = {}
    BY <1>1, <2>2 DEF IInv, Rest, Phases, Starting, Ended
  <2> QED
    BY <1>1, <2>2, <2>4, <2>5 DEF IInv, Rest, Covered, Polls
<1> DEFINE EndedByQuit == main.pc = "ended" => stoprequest
<1>2. Init => EndedByQuit
  BY DEF Init, Thread, main
<1>3. ASSUME IInv, EndedByQuit, [Next]_vars PROVE EndedByQuit'
  <2>1. CASE NoChildLeft
    BY <1>1, <1>3, <2>1 DEF NoChildLeft
  <2>2. stoprequest => stoprequest'
    BY <1>3 DEF Next, MainStep, CallbackStep, StartChild, vars, Reads, Registers, WaitReturns,
       NoChildLeft, Pops, Deletes, Decides, Creates, Assigns, Records, Started,
       SetupsChange, Reconfigures, Kills, Killed, Quit, Reload, KillAll, Exits, Crashes
  <2>3. CASE MainStep /\ ~ NoChildLeft
    <3>1. main.then # "ended"
      BY <1>3 DEF IInv, Rest, Phases
    <3>2. main'.pc # "ended"
      BY <1>3, <2>3, <3>1, ReadsDoes, RegistersDoes, WaitReturnsDoes, PopsDoes, DeletesDoes,
         DecidesDoes, CreatesDoes, AssignsDoes, RecordsDoes, StartedDoes
         DEF IInv, MainStep, StartChild, Now, Goes, Threads, main
    <3> QED
      BY <3>2
  <2>4. CASE ~ MainStep
    <3>1. main' = main
      <4>1. CASE CallbackStep \/ SetupsChange
        BY <1>3, <4>1, CreatesDoes, AssignsDoes, RecordsDoes, StartedDoes, SetupsChangeDoes,
           ReconfiguresDoes, KillsDoes, KilledDoes
           DEF IInv, CallbackStep, StartChild, Now, Goes, Threads, main
      <4> QED
        BY <1>3, <2>4, <4>1 DEF Next, vars, Quit, Reload, KillAll, Exits, Crashes, main
    <3> QED
      BY <1>3, <2>2, <3>1
  <2> QED
    BY <2>1, <2>3, <2>4
<1>4. IInv /\ EndedByQuit => MasterSurvives
  BY DEF IInv, Rest, Known, MasterSurvives, MainRuns, At, main
<1> QED
  BY <1>2, <1>3, <1>4, InvariantHolds, PTL DEF CalmSpec, CalmInit
================================================================================
