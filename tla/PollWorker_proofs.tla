--------------------------- MODULE PollWorker_proofs ---------------------------
(***************************************************************************)
(* Proofs about PollWorker, for any intervals, events and queue.           *)
(***************************************************************************)
EXTENDS PollWorker, TLAPS

(***************************************************************************)
(* Once a poll was begun after the request to stop, the worker is where it *)
(* looks at the request before the next one.                               *)
(***************************************************************************)
Stopping ==
    /\ late <= 1
    /\ late = 1 => stoprequest /\ pc \in {"loop", "adjust", "errwait", "outer", "ended"}

\* The device exists before its callbacks are registered, these before its polls.
Created ==
    /\ pc = "register" => dev
    /\ pc = "init" => registered

IInv == TypeOK /\ Created /\ Stopping

LEMMA InvInit == Init => IInv
<1> SUFFICES ASSUME Init PROVE IInv
  OBVIOUS
<1>1. {dev, registered, busy, stoprequest, calm} \subseteq BOOLEAN
  BY DEF Init
<1>2. TypeOK
  BY <1>1 DEF Init, TypeOK, WorkerSteps, LoopSteps
<1> QED
  BY <1>2 DEF Init, IInv, Created, Stopping

\* Every step keeps the types.
LEMMA TypeStep ==
    ASSUME TypeOK, Created, [Next]_vars
    PROVE  (TypeOK /\ Created)'
<1> USE WorkerAssumption DEF TypeOK, Created, WorkerSteps, LoopSteps, Events, device, others
<1>1. CASE Outer
  BY <1>1 DEF Outer
<1>2. CASE Creates
  <2>1. queue' \in Seq(Events)
    <3>1. Append(queue, "pollparam") \in Seq(Events)
      OBVIOUS
    <3> QED
      BY <1>2, <3>1 DEF Creates
  <2>2. dev' \in BOOLEAN /\ (dev => dev') /\ (pc' = "register" => dev')
    BY <1>2, Zenon DEF Creates
  <2>3. pc' \in {"register", "errwait"}
    BY <1>2 DEF Creates
  <2> QED
    BY <1>2, <2>1, <2>2, <2>3 DEF Creates
<1>3. CASE Registers
  BY <1>3 DEF Registers
<1>4. CASE BeginsLoop
  BY <1>4 DEF BeginsLoop
<1>5. CASE Loops
  BY <1>5 DEF Loops
<1>6. CASE Gets
  BY <1>6 DEF Gets
<1>7. CASE TimesOut
  BY <1>7 DEF TimesOut
<1>8. CASE Limits
  BY <1>8 DEF Limits
<1>9. CASE Polls
  BY <1>9 DEF Polls
<1>10. CASE Adjusts
  BY <1>10 DEF Adjusts
<1>11. CASE ErrorWaits
  BY <1>11 DEF ErrorWaits
<1>12. CASE CreatesWorker
  BY <1>12 DEF CreatesWorker, Main, worker
<1>13. CASE ListsWorker
  BY <1>13 DEF ListsWorker, Main, worker
<1>14. CASE StartsChecker
  BY <1>14 DEF StartsChecker, Main, worker
<1>15. CASE Waits
  BY <1>15 DEF Waits, Main, worker
<1>16. CASE Joins
  BY <1>16 DEF Joins, Main, worker
<1>17. CASE SignalSets \/ SignalPuts
  <2>1. CASE SignalSets
    BY <2>1 DEF SignalSets, worker
  <2>2. CASE SignalPuts
    BY <2>2 DEF SignalPuts, worker
  <2> QED
    BY <1>17, <2>1, <2>2
<1>18. CASE SignalJoins
  BY <1>18 DEF SignalJoins, worker
<1>19. CASE CheckerSets \/ CheckerPuts
  <2>1. CASE CheckerSets
    BY <2>1 DEF CheckerSets, worker
  <2>2. CASE CheckerPuts
    BY <2>2 DEF CheckerPuts, worker
  <2> QED
    BY <1>19, <2>1, <2>2
<1>20. CASE CheckerJoins
  BY <1>20 DEF CheckerJoins, worker
<1>21. CASE Signal
  BY <1>21 DEF Signal, worker
<1>22. CASE SetupChanged
  BY <1>22 DEF SetupChanged, worker
<1>23. CASE Callback
  BY <1>23 DEF Callback, threads
<1>24. CASE ParameterChanges
  BY <1>24 DEF ParameterChanges, threads
<1>25. CASE CallbackParam
  BY <1>25 DEF CallbackParam, threads
<1>26. CASE StatusChanges
  BY <1>26 DEF StatusChanges, threads
<1>27. CASE CalmsDown
  BY <1>27 DEF CalmsDown, threads
<1>28. CASE Tick
  BY <1>28 DEF Tick, threads
<1>29. CASE UNCHANGED vars
  BY <1>29 DEF vars
<1> QED
  BY <1>1, <1>2, <1>3, <1>4, <1>5, <1>6, <1>7, <1>8, <1>9, <1>10, <1>11, <1>12, <1>13, <1>14, <1>15, <1>16, <1>17, <1>18, <1>19, <1>20, <1>21, <1>22, <1>23, <1>24, <1>25, <1>26, <1>27, <1>28, <1>29 DEF Next, WorkerStep, MainStep,
     CheckerStep

\* The request is looked at before every wait for events, after every error and
\* before the interval is over.
LEMMA StoppingStep ==
    ASSUME TypeOK, Stopping, [Next]_vars
    PROVE  Stopping'
<1> USE WorkerAssumption DEF TypeOK, Stopping, WorkerSteps, LoopSteps, device, others
<1>1. CASE Outer
  BY <1>1 DEF Outer
<1>2. CASE Creates
  BY <1>2 DEF Creates
<1>3. CASE Registers
  BY <1>3 DEF Registers
<1>4. CASE BeginsLoop
  BY <1>4 DEF BeginsLoop
<1>5. CASE Loops
  BY <1>5 DEF Loops
<1>6. CASE Gets
  BY <1>6 DEF Gets
<1>7. CASE TimesOut
  BY <1>7 DEF TimesOut
<1>8. CASE Limits
  BY <1>8 DEF Limits
<1>9. CASE Polls
  BY <1>9 DEF Polls
<1>10. CASE Adjusts
  BY <1>10 DEF Adjusts
<1>11. CASE ErrorWaits
  BY <1>11 DEF ErrorWaits
<1>12. CASE CreatesWorker
  BY <1>12 DEF CreatesWorker, Main, worker
<1>13. CASE ListsWorker
  BY <1>13 DEF ListsWorker, Main, worker
<1>14. CASE StartsChecker
  BY <1>14 DEF StartsChecker, Main, worker
<1>15. CASE Waits
  BY <1>15 DEF Waits, Main, worker
<1>16. CASE Joins
  BY <1>16 DEF Joins, Main, worker
<1>17. CASE SignalSets \/ SignalPuts
  <2>1. CASE SignalSets
    BY <2>1 DEF SignalSets, worker
  <2>2. CASE SignalPuts
    BY <2>2 DEF SignalPuts, worker
  <2> QED
    BY <1>17, <2>1, <2>2
<1>18. CASE SignalJoins
  BY <1>18 DEF SignalJoins, worker
<1>19. CASE CheckerSets \/ CheckerPuts
  <2>1. CASE CheckerSets
    BY <2>1 DEF CheckerSets, worker
  <2>2. CASE CheckerPuts
    BY <2>2 DEF CheckerPuts, worker
  <2> QED
    BY <1>19, <2>1, <2>2
<1>20. CASE CheckerJoins
  BY <1>20 DEF CheckerJoins, worker
<1>21. CASE Signal
  BY <1>21 DEF Signal, worker
<1>22. CASE SetupChanged
  BY <1>22 DEF SetupChanged, worker
<1>23. CASE Callback
  BY <1>23 DEF Callback, threads
<1>24. CASE ParameterChanges
  BY <1>24 DEF ParameterChanges, threads
<1>25. CASE CallbackParam
  BY <1>25 DEF CallbackParam, threads
<1>26. CASE StatusChanges
  BY <1>26 DEF StatusChanges, threads
<1>27. CASE CalmsDown
  BY <1>27 DEF CalmsDown, threads
<1>28. CASE Tick
  BY <1>28 DEF Tick, threads
<1>29. CASE UNCHANGED vars
  BY <1>29 DEF vars
<1> QED
  BY <1>1, <1>2, <1>3, <1>4, <1>5, <1>6, <1>7, <1>8, <1>9, <1>10, <1>11, <1>12, <1>13, <1>14, <1>15, <1>16, <1>17, <1>18, <1>19, <1>20, <1>21, <1>22, <1>23, <1>24, <1>25, <1>26, <1>27, <1>28, <1>29 DEF Next, WorkerStep, MainStep,
     CheckerStep

(***************************************************************************)
(* The types are correct, and the invariant holds.                         *)
(***************************************************************************)
THEOREM InvariantHolds == Spec => []IInv
<1>1. IInv /\ [Next]_vars => IInv'
  BY TypeStep, StoppingStep DEF IInv
<1> QED
  BY <1>1, InvInit, PTL DEF Spec

(***************************************************************************)
(* However many events are in the queue, whatever the device and the other *)
(* threads do: after a request to stop at most one more poll is begun.     *)
(***************************************************************************)
THEOREM PollingStops == Spec => []StopBound
<1>1. IInv => StopBound
  BY DEF IInv, Stopping, StopBound
<1> QED
  BY <1>1, InvariantHolds, PTL
================================================================================
