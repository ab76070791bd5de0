--------------------------- MODULE MasterLock_proofs ---------------------------
(***************************************************************************)
(* Proofs about MasterLock, for any number of sessions, any timeout, any   *)
(* number of retries and of faults.                                        *)
(***************************************************************************)
EXTENDS MasterLock, TLAPS

(***************************************************************************)
(* The inductive invariant.  Threads says which request a thread waits     *)
(* for, Held why a master still has the lock: either it will not expire    *)
(* before the next refresh is due, or the worker is about to refresh it.   *)
(***************************************************************************)
MainAsks(s) == request[s] # Idle /\ request[s].by = "main" => main[s] = request[s].op

WorkerAsks(s) ==
    request[s] # Idle /\ request[s].by = "worker" =>
        request[s].op = "lock" /\ worker[s] = "refresh"

MainKnows(s) ==
    /\ main[s] = "loading" => mode[s] = "master" /\ worker[s] = "wait" /\ ~ ismaster[s]
    /\ main[s] = "granted" => ismaster[s]
    /\ main[s] = "lock" => mode[s] = "slave"

Threads == \A s \in Sessions : MainAsks(s) /\ WorkerAsks(s) /\ MainKnows(s)

\* The lock was granted to s and s has not begun to give it up.
Owns(s) == \/ Acts(s)
           \/ main[s] = "granted"
           \/ main[s] = "lock" /\ Answered(s, "main", "ok")

Safe(s) == \/ lock.left > due[s]
           \/ worker[s] = "refresh" /\ ~ Answered(s, "worker", "ok")

Keeps(s) == /\ lock.owner = s /\ lock.left >= 0
            /\ Safe(s) /\ ~ Answered(s, "worker", "denied")

Refreshes(s) == mode[s] = "master" /\ main[s] = "idle" => ismaster[s]

Held == \A s \in Sessions : (Owns(s) => Keeps(s)) /\ Refreshes(s)

IInv == TypeOK /\ Threads /\ (excused \/ Held)

--------------------------------------------------------------------------------
(***************************************************************************)
(* Every step preserves the types.                                         *)
(***************************************************************************)
LEMMA TypeInit == Init => TypeOK
<1> SUFFICES ASSUME Init PROVE TypeOK
  OBVIOUS
<1>1. lock \in [owner : Sessions \cup {Nobody, Ended}, left : -1..Timeout]
  BY MasterAssumption DEF Init
<1>2. due \in [Sessions -> -1..Timeout - 1]
  BY MasterAssumption DEF Init
<1>3. faults \in 0..MaxFaults
  BY MasterAssumption DEF Init
<1>4. excused \in BOOLEAN
  BY DEF Init
<1> QED
  BY <1>1, <1>2, <1>3, <1>4 DEF Init, TypeOK, MainSteps

LEMMA TypeStep == TypeOK /\ [Next]_vars => TypeOK'
<1> SUFFICES ASSUME TypeOK, [Next]_vars PROVE TypeOK'
  OBVIOUS
<1>1. ASSUME NEW s \in Sessions,
             \/ Main(s) \/ Worker(s) \/ ServerHandles(s) \/ Loses(s) \/ Resends(s)
             \/ BecomesMaster(s) \/ UnloadsSetup(s)
             \/ \E m \in Others \cup {"ended"} : Leaves(s, m)
             \/ Disconnects(s) \/ Connects(s) \/ Crashes(s)
      PROVE  TypeOK'
  <2> USE MasterAssumption DEF TypeOK, Requests, Idle, MainSteps
  <2>1. CASE IsGranted(s)
    BY <2>1 DEF IsGranted, Answered, Set, client, history
  <2>2. CASE EntersMaster(s)
    BY <2>2 DEF EntersMaster, Set, client, history
  <2>3. CASE IsRefused(s)
    BY <2>3 DEF IsRefused, Answered, Fails, CacheError, OsError, Set, client,
      history
  <2>4. CASE AsksUnlock(s)
    BY <2>4 DEF AsksUnlock, Asks, Set, session, client, history
  <2>5. CASE ReleasesAlone(s)
    BY <2>5 DEF ReleasesAlone, CacheError, Answered, Set, client, history
  <2>6. CASE IsReleased(s)
    BY <2>6 DEF IsReleased, Answered, Set, client, history
  <2>7. CASE IsStuck(s)
    BY <2>7 DEF IsStuck, Answered, OsError, Set, client
  <2>8. CASE EntersOther(s)
    BY <2>8 DEF EntersOther, Set, client, history
  <2>9. CASE LoadsSetup(s)
    BY <2>9 DEF LoadsSetup, Set, client, history
  <2>10. CASE Ends(s)
    BY <2>10 DEF Ends, Restarts, Set, history
  <2>11. CASE FindsDue(s)
    BY <2>11 DEF FindsDue, NextRefresh, Set, session, history
  <2>12. CASE AsksRefresh(s)
    BY <2>12 DEF AsksRefresh, Asks, Set, session, client, history
  <2>13. CASE IsRefreshed(s)
    BY <2>13 DEF IsRefreshed, Answered, Set, session, history
  <2>14. CASE RefreshFails(s)
    BY <2>14 DEF RefreshFails, Answered, Fails, CacheError, OsError, Set,
      session
  <2>15. CASE ServerHandles(s)
    BY <2>15 DEF ServerHandles, Allowed, MayLock, MayUnlock, session, client,
      history
  <2>16. CASE Loses(s)
    BY <2>16 DEF Loses, session, client
  <2>17. CASE Resends(s)
    BY <2>17 DEF Resends, session, client, history
  <2>18. CASE BecomesMaster(s)
    BY <2>18 DEF BecomesMaster, Asks, Set, client, history
  <2>19. CASE UnloadsSetup(s)
    BY <2>19 DEF UnloadsSetup, Set, history
  <2>20. CASE \E m \in Others \cup {"ended"} : Leaves(s, m)
    BY <2>20 DEF Leaves, Set, client, history
  <2>21. CASE Disconnects(s)
    BY <2>21 DEF Disconnects, Set, session
  <2>22. CASE Connects(s)
    BY <2>22 DEF Connects, Set, session, history
  <2>23. CASE Crashes(s)
    BY <2>23 DEF Crashes, Restarts, Set
  <2> QED
    BY <1>1, <2>1, <2>2, <2>3, <2>4, <2>5, <2>6, <2>7, <2>8, <2>9, <2>10, <2>11,
      <2>12, <2>13, <2>14, <2>15, <2>16, <2>17, <2>18, <2>19, <2>20, <2>21,
      <2>22, <2>23 DEF Main, Worker
<1>2. ASSUME ServerRestarts PROVE TypeOK'
  BY <1>2, MasterAssumption DEF ServerRestarts, TypeOK, Requests, Idle,
     MainSteps, session
<1>3. ASSUME Tick PROVE TypeOK'
  BY <1>3, MasterAssumption DEF Tick, Later, TypeOK, Requests, Idle, MainSteps,
     session
<1>4. ASSUME UNCHANGED vars PROVE TypeOK'
  BY <1>4 DEF TypeOK, Requests, Idle, MainSteps, vars
<1> QED
  BY <1>1, <1>2, <1>3, <1>4 DEF Next

(***************************************************************************)
(* Every step preserves what the threads wait for.                         *)
(***************************************************************************)
LEMMA ThreadsInit == Init => Threads
  BY DEF Init, Threads, MainAsks, WorkerAsks, MainKnows, Idle

LEMMA ThreadsStep == TypeOK /\ Threads /\ [Next]_vars => Threads'
<1> SUFFICES ASSUME TypeOK, Threads, [Next]_vars PROVE Threads'
  OBVIOUS
<1>1. ASSUME NEW s \in Sessions,
             \/ Main(s) \/ Worker(s) \/ ServerHandles(s) \/ Loses(s) \/ Resends(s)
             \/ BecomesMaster(s) \/ UnloadsSetup(s)
             \/ \E m \in Others \cup {"ended"} : Leaves(s, m)
             \/ Disconnects(s) \/ Connects(s) \/ Crashes(s)
      PROVE  Threads'
  <2> USE MasterAssumption DEF Threads, MainAsks, WorkerAsks, MainKnows,
      Answered, Idle, Requests, MainSteps, TypeOK
  <2>1. CASE IsGranted(s)
    BY <2>1 DEF IsGranted, Set, client, history
  <2>2. CASE EntersMaster(s)
    BY <2>2 DEF EntersMaster, Set, client, history
  <2>3. CASE IsRefused(s)
    BY <2>3 DEF IsRefused, Fails, CacheError, OsError, Set, client, history
  <2>4. CASE AsksUnlock(s)
    BY <2>4 DEF AsksUnlock, Asks, Set, session, client, history
  <2>5. CASE ReleasesAlone(s)
    BY <2>5 DEF ReleasesAlone, CacheError, Set, client, history
  <2>6. CASE IsReleased(s)
    BY <2>6 DEF IsReleased, Set, client, history
  <2>7. CASE IsStuck(s)
    BY <2>7 DEF IsStuck, OsError, Set, client
  <2>8. CASE EntersOther(s)
    BY <2>8 DEF EntersOther, Set, client, history
  <2>9. CASE LoadsSetup(s)
    BY <2>9 DEF LoadsSetup, Set, client, history
  <2>10. CASE Ends(s)
    BY <2>10 DEF Ends, Restarts, Set, history
  <2>11. CASE FindsDue(s)
    BY <2>11 DEF FindsDue, NextRefresh, Set, session, history
  <2>12. CASE AsksRefresh(s)
    BY <2>12 DEF AsksRefresh, Asks, Set, session, client, history
  <2>13. CASE IsRefreshed(s)
    BY <2>13 DEF IsRefreshed, Set, session, history
  <2>14. CASE RefreshFails(s)
    BY <2>14 DEF RefreshFails, Fails, CacheError, OsError, Set, session
  <2>15. CASE ServerHandles(s)
    BY <2>15 DEF ServerHandles, Allowed, MayLock, MayUnlock, session, client,
      history
  <2>16. CASE Loses(s)
    BY <2>16 DEF Loses, session, client
  <2>17. CASE Resends(s)
    BY <2>17 DEF Resends, session, client, history
  <2>18. CASE BecomesMaster(s)
    BY <2>18 DEF BecomesMaster, Asks, Set, client, history
  <2>19. CASE UnloadsSetup(s)
    BY <2>19 DEF UnloadsSetup, Set, history
  <2>20. CASE \E m \in Others \cup {"ended"} : Leaves(s, m)
    BY <2>20 DEF Leaves, Set, client, history
  <2>21. CASE Disconnects(s)
    BY <2>21 DEF Disconnects, Set, session
  <2>22. CASE Connects(s)
    BY <2>22 DEF Connects, Set, session, history
  <2>23. CASE Crashes(s)
    BY <2>23 DEF Crashes, Restarts, Set
  <2> QED
    BY <1>1, <2>1, <2>2, <2>3, <2>4, <2>5, <2>6, <2>7, <2>8, <2>9, <2>10, <2>11,
      <2>12, <2>13, <2>14, <2>15, <2>16, <2>17, <2>18, <2>19, <2>20, <2>21,
      <2>22, <2>23 DEF Main, Worker
<1>2. ASSUME ServerRestarts PROVE Threads'
  BY <1>2, MasterAssumption DEF ServerRestarts, Threads, MainAsks, WorkerAsks,
     MainKnows, Answered, Idle, Requests, MainSteps, TypeOK, session
<1>3. ASSUME Tick PROVE Threads'
  BY <1>3, MasterAssumption DEF Tick, Later, Threads, MainAsks, WorkerAsks,
     MainKnows, Answered, Idle, Requests, MainSteps, TypeOK, session
<1>4. ASSUME UNCHANGED vars PROVE Threads'
  BY <1>4 DEF Threads, MainAsks, WorkerAsks, MainKnows, Answered, Idle,
     Requests, MainSteps, TypeOK, vars
<1> QED
  BY <1>1, <1>2, <1>3, <1>4 DEF Next

(***************************************************************************)
(* Every step that is not excused keeps the lock for its owner.            *)
(***************************************************************************)
LEMMA HeldInit == Init => Held
  BY DEF Init, Held, Owns, Keeps, Refreshes, Acts, Answered, Idle

LEMMA HeldStep ==
    TypeOK /\ Threads /\ (excused \/ Held) /\ [Next]_vars => (excused \/ Held)'
<1> SUFFICES ASSUME TypeOK, Threads, excused \/ Held, [Next]_vars
             PROVE  (excused \/ Held)'
  OBVIOUS
<1>1. ASSUME NEW s \in Sessions,
             \/ Main(s) \/ Worker(s) \/ ServerHandles(s) \/ Loses(s) \/ Resends(s)
             \/ BecomesMaster(s) \/ UnloadsSetup(s)
             \/ \E m \in Others \cup {"ended"} : Leaves(s, m)
             \/ Disconnects(s) \/ Connects(s) \/ Crashes(s)
      PROVE  (excused \/ Held)'
  <2> USE MasterAssumption DEF Held, Owns, Keeps, Safe, Refreshes, Acts,
      Threads, MainAsks, WorkerAsks, MainKnows, Answered, TypeOK, Requests,
      MainSteps, Idle
  <2>1. CASE IsGranted(s)
    BY <2>1 DEF IsGranted, Set, client, history
  <2>2. CASE EntersMaster(s)
    BY <2>2 DEF EntersMaster, Set, client, history
  <2>3. CASE IsRefused(s)
    BY <2>3 DEF IsRefused, Fails, CacheError, OsError, Set, client, history
  <2>4. CASE AsksUnlock(s)
    BY <2>4 DEF AsksUnlock, Asks, Set, session, client, history
  <2>5. CASE ReleasesAlone(s)
    BY <2>5 DEF ReleasesAlone, CacheError, Set, client, history
  <2>6. CASE IsReleased(s)
    BY <2>6 DEF IsReleased, Set, client, history
  <2>7. CASE IsStuck(s)
    BY <2>7 DEF IsStuck, OsError, Set, client
  <2>8. CASE EntersOther(s)
    BY <2>8 DEF EntersOther, Set, client, history
  <2>9. CASE LoadsSetup(s)
    BY <2>9 DEF LoadsSetup, Set, client, history
  <2>10. CASE Ends(s)
    BY <2>10 DEF Ends, Restarts, Set, history
  <2>11. CASE FindsDue(s)
    BY <2>11 DEF FindsDue, NextRefresh, Set, session, history
  <2>12. CASE AsksRefresh(s)
    BY <2>12 DEF AsksRefresh, Asks, Set, session, client, history
  <2>13. CASE IsRefreshed(s)
    BY <2>13 DEF IsRefreshed, Set, session, history
  <2>14. CASE RefreshFails(s)
    BY <2>14 DEF RefreshFails, Fails, CacheError, OsError, Set, session
  <2>15. CASE ServerHandles(s)
    BY <2>15 DEF ServerHandles, Allowed, MayLock, MayUnlock, session, client,
      history
  <2>16. CASE Loses(s)
    BY <2>16 DEF Loses, session, client
  <2>17. CASE Resends(s)
    BY <2>17 DEF Resends, session, client, history
  <2>18. CASE BecomesMaster(s)
    BY <2>18 DEF BecomesMaster, Asks, Set, client, history
  <2>19. CASE UnloadsSetup(s)
    BY <2>19 DEF UnloadsSetup, Set, history
  <2>20. CASE \E m \in Others \cup {"ended"} : Leaves(s, m)
    BY <2>20 DEF Leaves, Set, client, history
  <2>21. CASE Disconnects(s)
    BY <2>21 DEF Disconnects, Set, session
  <2>22. CASE Connects(s)
    BY <2>22 DEF Connects, Set, session, history
  <2>23. CASE Crashes(s)
    BY <2>23 DEF Crashes, Restarts, Set
  <2> QED
    BY <1>1, <2>1, <2>2, <2>3, <2>4, <2>5, <2>6, <2>7, <2>8, <2>9, <2>10, <2>11,
      <2>12, <2>13, <2>14, <2>15, <2>16, <2>17, <2>18, <2>19, <2>20, <2>21,
      <2>22, <2>23 DEF Main, Worker
<1>2. ASSUME ServerRestarts PROVE (excused \/ Held)'
  <2>1. CASE excused \/ lock.owner \in Sessions
    BY <1>2, <2>1 DEF ServerRestarts
  <2>2. CASE ~ excused /\ lock.owner \notin Sessions
    <3>1. \A s \in Sessions : ~ Owns(s) /\ Refreshes(s)
      BY <2>2 DEF Held, Keeps
    <3>2. ASSUME NEW s \in Sessions PROVE ~ Owns(s)' /\ Refreshes(s)'
      BY <1>2, <3>1, <3>2 DEF ServerRestarts, Owns, Refreshes, Acts, Answered, TypeOK,
         Requests, Idle, session
    <3> QED
      BY <3>2 DEF Held
  <2> QED
    BY <2>1, <2>2
<1>3. ASSUME Tick PROVE (excused \/ Held)'
  <2> SUFFICES ASSUME ~ excused, ~ Expires, NEW s \in Sessions
               PROVE  (Owns(s)' => Keeps(s)') /\ Refreshes(s)'
    BY <1>3 DEF Tick, Held
  <2>1. /\ UNCHANGED <<mode, ismaster, main, goal, worker, connected, request>>
        /\ lock' = [lock EXCEPT !.left = Later(@)]
        /\ due'[s] = Later(due[s])
        /\ ~ Busy(s)
    BY <1>3 DEF Tick, session
  <2>2. (Owns(s)' <=> Owns(s)) /\ (Refreshes(s)' <=> Refreshes(s)) /\ Refreshes(s)
    BY <2>1 DEF Owns, Refreshes, Acts, Answered, Held
  <2>3. ASSUME Owns(s) PROVE Keeps(s)'
    <3>1. lock.owner = s /\ lock.left >= 0 /\ lock.left > due[s]
      BY <2>1, <2>3 DEF Held, Keeps, Safe, Busy
    <3>2. lock.left \in Int /\ due[s] \in Int /\ lock'.owner = s /\ lock'.left = Later(lock.left)
      BY <2>1, <3>1, MasterAssumption DEF TypeOK
    <3>3. lock.left > 0
      <4>1. main[s] \in {"idle", "loading", "granted", "lock"}
        BY <2>3 DEF Owns, Acts
      <4>2. main[s] # "lock"
        BY <2>1, <2>3 DEF Owns, Acts, Answered, Busy, Threads, MainKnows
      <4>3. main[s] = "loading" \/ ismaster[s]
        BY <4>1, <4>2, <2>2, <2>3 DEF Owns, Acts, Refreshes, Threads, MainKnows
      <4> QED
        BY <2>1, <3>1, <3>2, <4>3 DEF Busy, Expires
    <3>4. lock'.left >= 0 /\ lock'.left > due'[s]
      BY <2>1, <3>1, <3>2, <3>3 DEF Later
    <3>5. ~ Answered(s, "worker", "denied")'
      BY <2>1 DEF Busy, Answered
    <3> QED
      BY <3>2, <3>4, <3>5 DEF Keeps, Safe
  <2> QED
    BY <2>2, <2>3
<1>4. ASSUME UNCHANGED vars PROVE (excused \/ Held)'
  BY <1>4 DEF Held, Owns, Keeps, Safe, Refreshes, Acts, Threads, MainAsks,
     WorkerAsks, MainKnows, Answered, TypeOK, Requests, MainSteps, Idle, vars
<1> QED
  BY <1>1, <1>2, <1>3, <1>4 DEF Next

--------------------------------------------------------------------------------
(***************************************************************************)
(* Every state has the types that TypeOK says.                             *)
(***************************************************************************)
THEOREM TypeCorrect == Spec => []TypeOK
<1>1. Init => TypeOK
  BY TypeInit
<1>2. TypeOK /\ [Next]_vars => TypeOK'
  BY TypeStep
<1> QED
  BY <1>1, <1>2, PTL DEF Spec

THEOREM InvariantHolds == Spec => []IInv
<1>1. Init => IInv
  BY TypeInit, ThreadsInit, HeldInit DEF IInv
<1>2. IInv /\ [Next]_vars => IInv'
  BY TypeStep, ThreadsStep, HeldStep DEF IInv
<1> QED
  BY <1>1, <1>2, PTL DEF Spec

(***************************************************************************)
(* Unless something happened that the lock does not protect from, every    *)
(* session that acts as master holds the lock, and the lock has not        *)
(* expired.                                                                *)
(***************************************************************************)
THEOREM MastersHoldTheLock == Spec => []MastersHoldLock
<1>1. IInv => MastersHoldLock
  BY DEF IInv, Held, Owns, Keeps, MastersHoldLock
<1> QED
  BY <1>1, InvariantHolds, PTL

(***************************************************************************)
(* And so there is at most one master.                                     *)
(***************************************************************************)
THEOREM AtMostOneMaster == Spec => [](excused \/ OneMaster)
<1>1. MastersHoldLock => excused \/ OneMaster
  BY DEF MastersHoldLock, OneMaster
<1> QED
  BY <1>1, MastersHoldTheLock, PTL
================================================================================
