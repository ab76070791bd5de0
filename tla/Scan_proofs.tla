------------------------------ MODULE Scan_proofs ------------------------------
(***************************************************************************)
(* Proofs about CountLoop and Scan, for any detectors, commands, numbers   *)
(* of points and calls, and faults. Only what is promised of a count that  *)
(* has ended needs that no start() raises: that would leave the detectors  *)
(* started before counting.                                                *)
(***************************************************************************)
EXTENDS Scan, SequenceTheorems, TLAPS

--------------------------------------------------------------------------------
(***************************************************************************)
(* The inductive invariant: what the for loops have visited so far.        *)
(***************************************************************************)
AllIdle == \A d \in Dets : det[d] = "idle"

Counts == todo \subseteq detset /\ writes + left <= MaxCommands

Counting == LoopSteps \ {"first", "prepare", "raised"}

\* Before the detectors are started nothing is to be paused or interrupted.
BeforeStart ==
    /\ only => AllIdle /\ detset = Dets /\ pc \notin Counting
    /\ pc \in {"first", "prepare"} => only
    /\ pc = "start" => detset = Dets

NotCounting(ds) == \A d \in ds \cap CanPause : det[d] # "counting"

Pausing ==
    /\ pc = "pausing" => NotCounting(Dets \ todo)
    /\ pc \in WaitSteps /\ ~ only => NotCounting(Dets)

Stopped(ds) == \A d \in ds : /\ det[d] = "done" \/ d \in refused
                             /\ results[d] \in {"final", "interrupted"}

Ending ==
    /\ pc = "except" => Stopped(Dets \ todo)
    /\ pc = "done" => detset = {}
    /\ pc = "raised" => AllIdle \/ Stopped(Dets)

CountInv == CountTypeOK /\ Counts /\ BeforeStart /\ Pausing

IInv == TypeOK /\ CountInv

--------------------------------------------------------------------------------
(***************************************************************************)
(* The initial state has the invariant.                                    *)
(***************************************************************************)
LEMMA CountInvInit ==
  ASSUME Resting
  PROVE  CountTypeOK /\ Counts /\ AllIdle /\ NotCounting(Dets) /\ only
<1>1. {only, pausecount} \subseteq BOOLEAN
  BY DEF Resting
<1>2. writes \in 0..MaxCommands /\ left \in 0..MaxCommands /\ Counts
  BY CountAssumption DEF Resting, Counts
<1>3. det \in [Dets -> {"idle"}] /\ results \in [Dets -> {"none"}]
  BY DEF Resting
<1> QED
  BY <1>1, <1>2, <1>3, CountAssumption DEF Resting, CountTypeOK, NowRequests, AllIdle, NotCounting

LEMMA InvInit == Init => IInv /\ Ending
<1> SUFFICES ASSUME Init PROVE IInv /\ Ending
  OBVIOUS
<1>1. CountTypeOK /\ Counts /\ AllIdle /\ NotCounting(Dets) /\ only
  BY CountInvInit DEF Init
<1> QED
  BY <1>1 DEF Init, Resting, IInv, CountInv, TypeOK, LoopSteps, BeforeStart, Pausing, Ending,
     WaitSteps, Counting

(***************************************************************************)
(* Every step preserves the types, and the for loops stay within the       *)
(* detectors that are not completed.                                       *)
(***************************************************************************)
LEMMA TypeStep ==
  CountTypeOK /\ Counts /\ BeforeStart /\ [Next]_vars => (CountTypeOK /\ Counts)'
<1> SUFFICES ASSUME CountTypeOK, Counts, BeforeStart, [Next]_vars PROVE (CountTypeOK /\
             Counts)'
  OBVIOUS
<1> USE CountAssumption DEF CountTypeOK, Counting, Counts, BeforeStart, LoopSteps, WaitSteps,
     NowRequests
<1>1. CASE ReadsRequest
  BY <1>1 DEF ReadsRequest, Goto, devices, clients
<1>2. CASE NoRequest
  BY <1>2 DEF NoRequest, Continues, ForAll, devices, orders, clients
<1>3. CASE ResetsRequest
  BY <1>3 DEF ResetsRequest, Continues, ForAll, Goto, devices, clients
<1>4. CASE PausesForDaemon
  BY <1>4 DEF PausesForDaemon, Breakpoint, Raises, ForAll, Goto, devices,
     clients
<1>5. CASE PausesAgain
  BY <1>5 DEF PausesAgain, Breakpoint, Raises, ForAll, Goto, devices, clients
<1>6. CASE ChecksPausecount
  BY <1>6 DEF ChecksPausecount, Goto, devices, orders, clients
<1>7. CASE ChecksNewRequest
  BY <1>7 DEF ChecksNewRequest, Goto, devices, orders, clients
<1>8. CASE ChecksFirst
  BY <1>8 DEF ChecksFirst, Goto, devices, orders, clients
<1>9. CASE Prepares
  BY <1>9 DEF Prepares, ForAll, devices, orders, clients
<1>10. CASE Starts
  BY <1>10 DEF Starts, Turn, After, Fails, ForAll, devices, orders, clients
<1>11. CASE Visits
  BY <1>11 DEF Visits, ForAll, orders, clients
<1>12. CASE VisitEnds
  BY <1>12 DEF VisitEnds, After, ForAll, devices, orders, clients
<1>13. CASE Fails("loop", "except")
  BY <1>13 DEF Fails, ForAll, devices, orders, clients
<1>14. CASE LooksForRequest
  BY <1>14 DEF LooksForRequest, ForAll, devices, orders, clients
<1>15. CASE Pauses
  BY <1>15, ZenonT(40) DEF Pauses, Turn, After, Fails, ForAll, devices, orders,
     clients
<1>16. CASE Finishes
  BY <1>16 DEF Finishes, Turn, After, Fails, ForAll, devices, orders, clients
<1>17. CASE Resumes
  <2>1. CASE Turn("resuming", [d \in Dets |-> IF det[d] = "paused" THEN "counting" ELSE det[d]])
    BY <2>1 DEF Turn, orders, clients
  <2>2. CASE After("resuming", {}, "callback") \/ Fails("resuming", "except")
    BY <2>2 DEF After, Fails, ForAll, devices, orders, clients
  <2> QED
    BY <1>17, <2>1, <2>2 DEF Resumes
<1>18. CASE LoopsAgain
  BY <1>18 DEF LoopsAgain, StopsThose, ForAll, orders, clients
<1>19. CASE Interrupts
  BY <1>19 DEF Interrupts, orders, clients
<1>20. CASE ReRaises
  BY <1>20 DEF ReRaises, After, ForAll, devices, orders, clients
<1>21. CASE \E d \in Dets : Completes(d)
  BY <1>21 DEF Completes, orders, clients
<1>22. CASE BreakCommand
  BY <1>22 DEF BreakCommand, Command, InBreak, devices
<1>23. CASE StopCommand("stop")
  BY <1>23 DEF StopCommand, AfterBreak, Command, InBreak, Raises, ForAll, Goto, devices
<1>24. CASE StopCommand("step")
  BY <1>24 DEF StopCommand, AfterBreak, Command, InBreak, Raises, ForAll, Goto, devices
<1>25. CASE FinishCommand
  BY <1>25 DEF FinishCommand, Command, devices
<1>26. CASE WatchdogPauses
  BY <1>26 DEF WatchdogPauses, Command, devices
<1>27. CASE WritesRequest
  BY <1>27 DEF WritesRequest, devices
<1>28. CASE WatchdogResumes
  BY <1>28 DEF WatchdogResumes, devices, clients
<1>29. CASE ContinueCommand
  BY <1>29 DEF ContinueCommand, AfterBreak, InBreak, Goto, devices, orders, clients
<1>30. CASE UNCHANGED vars
  BY <1>30 DEF vars, devices, orders, clients
<1> QED
  BY <1>1, <1>2, <1>3, <1>4, <1>5, <1>6, <1>7, <1>8, <1>9, <1>10, <1>11, <1>12,
     <1>13, <1>14, <1>15, <1>16, <1>17, <1>18, <1>19, <1>20, <1>21, <1>22,
     <1>23, <1>24, <1>25, <1>26, <1>27, <1>28, <1>29, <1>30 DEF Next,
     ThreadStep, WaitStep, ClientStep

(***************************************************************************)
(* The loop does not leave its steps, and nothing else of CountLoop moves. *)
(***************************************************************************)
InLoop == LoopSteps \cup WaitSteps

LEMMA PlaceStep ==
  [Next]_vars => (pc' = pc /\ only' = only) \/ (pc \in InLoop /\ pc' \in InLoop)
<1> SUFFICES ASSUME [Next]_vars
             PROVE  (pc' = pc /\ only' = only) \/ (pc \in InLoop /\ pc' \in InLoop)
  OBVIOUS
<1> USE DEF InLoop, LoopSteps, WaitSteps
<1>1. CASE ReadsRequest
  BY <1>1 DEF ReadsRequest, Goto, devices, clients
<1>2. CASE NoRequest
  BY <1>2 DEF NoRequest, Continues, ForAll, devices, orders, clients
<1>3. CASE ResetsRequest
  BY <1>3 DEF ResetsRequest, Continues, ForAll, Goto, devices, clients
<1>4. CASE PausesForDaemon
  BY <1>4 DEF PausesForDaemon, Breakpoint, Raises, ForAll, Goto, devices,
     clients
<1>5. CASE PausesAgain
  BY <1>5 DEF PausesAgain, Breakpoint, Raises, ForAll, Goto, devices, clients
<1>6. CASE ChecksPausecount
  BY <1>6 DEF ChecksPausecount, Goto, devices, orders, clients
<1>7. CASE ChecksNewRequest
  BY <1>7 DEF ChecksNewRequest, Goto, devices, orders, clients
<1>8. CASE ChecksFirst
  BY <1>8 DEF ChecksFirst, Goto, devices, orders, clients
<1>9. CASE Prepares
  BY <1>9 DEF Prepares, ForAll, devices, orders, clients
<1>10. CASE Starts
  BY <1>10 DEF Starts, Turn, After, Fails, ForAll, devices, orders, clients
<1>11. CASE Visits
  BY <1>11 DEF Visits, ForAll, orders, clients
<1>12. CASE VisitEnds
  BY <1>12 DEF VisitEnds, After, ForAll, devices, orders, clients
<1>13. CASE Fails("loop", "except")
  BY <1>13 DEF Fails, ForAll, devices, orders, clients
<1>14. CASE LooksForRequest
  BY <1>14 DEF LooksForRequest, ForAll, devices, orders, clients
<1>15. CASE Pauses
  BY <1>15 DEF Pauses, Turn, After, Fails, ForAll, devices, orders,
     clients
<1>16. CASE Finishes
  BY <1>16 DEF Finishes, Turn, After, Fails, ForAll, devices, orders, clients
<1>17. CASE Resumes
  BY <1>17 DEF Resumes, Turn, After, Fails, ForAll, devices, orders, clients
<1>18. CASE LoopsAgain
  BY <1>18 DEF LoopsAgain, StopsThose, ForAll, orders, clients
<1>19. CASE Interrupts
  BY <1>19 DEF Interrupts, orders, clients
<1>20. CASE ReRaises
  BY <1>20 DEF ReRaises, After, ForAll, devices, orders, clients
<1>21. CASE \E d \in Dets : Completes(d)
  BY <1>21 DEF Completes, orders, clients
<1>22. CASE BreakCommand
  BY <1>22 DEF BreakCommand, Command, InBreak, devices
<1>23. CASE StopCommand("stop")
  BY <1>23 DEF StopCommand, AfterBreak, Command, InBreak, Raises, ForAll, Goto, devices
<1>24. CASE StopCommand("step")
  BY <1>24 DEF StopCommand, AfterBreak, Command, InBreak, Raises, ForAll, Goto, devices
<1>25. CASE FinishCommand
  BY <1>25 DEF FinishCommand, Command, devices
<1>26. CASE WatchdogPauses
  BY <1>26 DEF WatchdogPauses, Command, devices
<1>27. CASE WritesRequest
  BY <1>27 DEF WritesRequest, devices
<1>28. CASE WatchdogResumes
  BY <1>28 DEF WatchdogResumes, devices, clients
<1>29. CASE ContinueCommand
  BY <1>29 DEF ContinueCommand, AfterBreak, InBreak, Goto, devices, orders, clients
<1>30. CASE UNCHANGED vars
  BY <1>30 DEF vars, devices, orders, clients
<1> QED
  BY <1>1, <1>2, <1>3, <1>4, <1>5, <1>6, <1>7, <1>8, <1>9, <1>10, <1>11, <1>12,
     <1>13, <1>14, <1>15, <1>16, <1>17, <1>18, <1>19, <1>20, <1>21, <1>22,
     <1>23, <1>24, <1>25, <1>26, <1>27, <1>28, <1>29, <1>30 DEF Next,
     ThreadStep, WaitStep, ClientStep

(***************************************************************************)
(* Before the start all detectors are idle.                                *)
(***************************************************************************)
LEMMA BeforeStartStep ==
  CountTypeOK /\ Counts /\ BeforeStart /\ [Next]_vars => BeforeStart'
<1> SUFFICES ASSUME CountTypeOK, Counts, BeforeStart, [Next]_vars PROVE BeforeStart'
  OBVIOUS
<1> USE CountAssumption DEF CountTypeOK, Counting, Counts, BeforeStart, AllIdle, LoopSteps,
     WaitSteps
<1>1. CASE ReadsRequest
  BY <1>1 DEF ReadsRequest, Goto, devices, clients
<1>2. CASE NoRequest
  BY <1>2 DEF NoRequest, Continues, ForAll, devices, orders, clients
<1>3. CASE ResetsRequest
  BY <1>3 DEF ResetsRequest, Continues, ForAll, Goto, devices, clients
<1>4. CASE PausesForDaemon
  BY <1>4 DEF PausesForDaemon, Breakpoint, Raises, ForAll, Goto, devices,
     clients
<1>5. CASE PausesAgain
  BY <1>5 DEF PausesAgain, Breakpoint, Raises, ForAll, Goto, devices, clients
<1>6. CASE ChecksPausecount
  BY <1>6 DEF ChecksPausecount, Goto, devices, orders, clients
<1>7. CASE ChecksNewRequest
  BY <1>7 DEF ChecksNewRequest, Goto, devices, orders, clients
<1>8. CASE ChecksFirst
  BY <1>8 DEF ChecksFirst, Goto, devices, orders, clients
<1>9. CASE Prepares
  BY <1>9 DEF Prepares, ForAll, devices, orders, clients
<1>10. CASE Starts
  BY <1>10 DEF Starts, Turn, After, Fails, ForAll, devices, orders, clients
<1>11. CASE Visits
  BY <1>11 DEF Visits, ForAll, orders, clients
<1>12. CASE VisitEnds
  BY <1>12 DEF VisitEnds, After, ForAll, devices, orders, clients
<1>13. CASE Fails("loop", "except")
  BY <1>13 DEF Fails, ForAll, devices, orders, clients
<1>14. CASE LooksForRequest
  BY <1>14 DEF LooksForRequest, ForAll, devices, orders, clients
<1>15. CASE Pauses
  BY <1>15 DEF Pauses, Turn, After, Fails, ForAll, devices, orders,
     clients
<1>16. CASE Finishes
  BY <1>16 DEF Finishes, Turn, After, Fails, ForAll, devices, orders, clients
<1>17. CASE Resumes
  BY <1>17 DEF Resumes, Turn, After, Fails, ForAll, devices, orders, clients
<1>18. CASE LoopsAgain
  BY <1>18 DEF LoopsAgain, StopsThose, ForAll, orders, clients
<1>19. CASE Interrupts
  BY <1>19 DEF Interrupts, orders, clients
<1>20. CASE ReRaises
  BY <1>20 DEF ReRaises, After, ForAll, devices, orders, clients
<1>21. CASE \E d \in Dets : Completes(d)
  BY <1>21 DEF Completes, orders, clients
<1>22. CASE BreakCommand
  BY <1>22 DEF BreakCommand, Command, InBreak, devices
<1>23. CASE StopCommand("stop")
  BY <1>23 DEF StopCommand, AfterBreak, Command, InBreak, Raises, ForAll, Goto, devices
<1>24. CASE StopCommand("step")
  BY <1>24 DEF StopCommand, AfterBreak, Command, InBreak, Raises, ForAll, Goto, devices
<1>25. CASE FinishCommand
  BY <1>25 DEF FinishCommand, Command, devices
<1>26. CASE WatchdogPauses
  BY <1>26 DEF WatchdogPauses, Command, devices
<1>27. CASE WritesRequest
  BY <1>27 DEF WritesRequest, devices
<1>28. CASE WatchdogResumes
  BY <1>28 DEF WatchdogResumes, devices, clients
<1>29. CASE ContinueCommand
  BY <1>29 DEF ContinueCommand, AfterBreak, InBreak, Goto, devices, orders, clients
<1>30. CASE UNCHANGED vars
  BY <1>30 DEF vars, devices, orders, clients
<1> QED
  BY <1>1, <1>2, <1>3, <1>4, <1>5, <1>6, <1>7, <1>8, <1>9, <1>10, <1>11, <1>12,
     <1>13, <1>14, <1>15, <1>16, <1>17, <1>18, <1>19, <1>20, <1>21, <1>22,
     <1>23, <1>24, <1>25, <1>26, <1>27, <1>28, <1>29, <1>30 DEF Next,
     ThreadStep, WaitStep, ClientStep

(***************************************************************************)
(* The loop that pauses leaves no detector that can pause counting.        *)
(***************************************************************************)
LEMMA PausingStep ==
  CountTypeOK /\ Counts /\ BeforeStart /\ Pausing /\ [Next]_vars => Pausing'
<1> SUFFICES ASSUME CountTypeOK, Counts, BeforeStart, Pausing, [Next]_vars PROVE
             Pausing'
  OBVIOUS
<1> USE CountAssumption DEF CountTypeOK, Counting, Counts, BeforeStart, AllIdle, Pausing,
     NotCounting, LoopSteps, WaitSteps
<1>1. CASE ReadsRequest
  BY <1>1 DEF ReadsRequest, Goto, devices, clients
<1>2. CASE NoRequest
  BY <1>2 DEF NoRequest, Continues, ForAll, devices, orders, clients
<1>3. CASE ResetsRequest
  BY <1>3 DEF ResetsRequest, Continues, ForAll, Goto, devices, clients
<1>4. CASE PausesForDaemon
  BY <1>4 DEF PausesForDaemon, Breakpoint, Raises, ForAll, Goto, devices,
     clients
<1>5. CASE PausesAgain
  BY <1>5 DEF PausesAgain, Breakpoint, Raises, ForAll, Goto, devices, clients
<1>6. CASE ChecksPausecount
  BY <1>6 DEF ChecksPausecount, Goto, devices, orders, clients
<1>7. CASE ChecksNewRequest
  BY <1>7 DEF ChecksNewRequest, Goto, devices, orders, clients
<1>8. CASE ChecksFirst
  BY <1>8 DEF ChecksFirst, Goto, devices, orders, clients
<1>9. CASE Prepares
  BY <1>9 DEF Prepares, ForAll, devices, orders, clients
<1>10. CASE Starts
  BY <1>10 DEF Starts, Turn, After, Fails, ForAll, devices, orders, clients
<1>11. CASE Visits
  BY <1>11 DEF Visits, ForAll, orders, clients
<1>12. CASE VisitEnds
  BY <1>12 DEF VisitEnds, After, ForAll, devices, orders, clients
<1>13. CASE Fails("loop", "except")
  BY <1>13 DEF Fails, ForAll, devices, orders, clients
<1>14. CASE LooksForRequest
  BY <1>14 DEF LooksForRequest, ForAll, devices, orders, clients
<1>15. CASE Pauses
  <2>1. CASE Turn("pausing", [d \in Dets |-> IF det[d] = "counting" /\ d \in CanPause
                                             THEN "paused" ELSE det[d]])
    BY <2>1 DEF Turn, orders, clients
  <2>2. CASE After("pausing", {}, "w_while") \/ Fails("pausing", "except")
    BY <2>2 DEF After, Fails, ForAll, devices, orders, clients
  <2> QED
    BY <1>15, <2>1, <2>2 DEF Pauses
<1>16. CASE Finishes
  BY <1>16 DEF Finishes, Turn, After, Fails, ForAll, devices, orders, clients
<1>17. CASE Resumes
  BY <1>17 DEF Resumes, Turn, After, Fails, ForAll, devices, orders, clients
<1>18. CASE LoopsAgain
  BY <1>18 DEF LoopsAgain, StopsThose, ForAll, orders, clients
<1>19. CASE Interrupts
  BY <1>19 DEF Interrupts, orders, clients
<1>20. CASE ReRaises
  BY <1>20 DEF ReRaises, After, ForAll, devices, orders, clients
<1>21. CASE \E d \in Dets : Completes(d)
  BY <1>21 DEF Completes, orders, clients
<1>22. CASE BreakCommand
  BY <1>22 DEF BreakCommand, Command, InBreak, devices
<1>23. CASE StopCommand("stop")
  BY <1>23 DEF StopCommand, AfterBreak, Command, InBreak, Raises, ForAll, Goto, devices
<1>24. CASE StopCommand("step")
  BY <1>24 DEF StopCommand, AfterBreak, Command, InBreak, Raises, ForAll, Goto, devices
<1>25. CASE FinishCommand
  BY <1>25 DEF FinishCommand, Command, devices
<1>26. CASE WatchdogPauses
  BY <1>26 DEF WatchdogPauses, Command, devices
<1>27. CASE WritesRequest
  BY <1>27 DEF WritesRequest, devices
<1>28. CASE WatchdogResumes
  BY <1>28 DEF WatchdogResumes, devices, clients
<1>29. CASE ContinueCommand
  BY <1>29 DEF ContinueCommand, AfterBreak, InBreak, Goto, devices, orders, clients
<1>30. CASE UNCHANGED vars
  BY <1>30 DEF vars, devices, orders, clients
<1> QED
  BY <1>1, <1>2, <1>3, <1>4, <1>5, <1>6, <1>7, <1>8, <1>9, <1>10, <1>11, <1>12,
     <1>13, <1>14, <1>15, <1>16, <1>17, <1>18, <1>19, <1>20, <1>21, <1>22,
     <1>23, <1>24, <1>25, <1>26, <1>27, <1>28, <1>29, <1>30 DEF Next,
     ThreadStep, WaitStep, ClientStep

(***************************************************************************)
(* The except clause stops or gives up all detectors.                      *)
(***************************************************************************)
LEMMA EndingStep ==
  ASSUME "start" \notin Faults
  PROVE  CountTypeOK /\ Counts /\ BeforeStart /\ Ending /\ [Next]_vars => Ending'
<1> SUFFICES ASSUME CountTypeOK, Counts, BeforeStart, Ending, [Next]_vars PROVE
             Ending'
  OBVIOUS
<1> USE CountAssumption DEF CountTypeOK, Counting, Counts, BeforeStart, AllIdle, Ending,
     Stopped, LoopSteps, WaitSteps
<1>1. CASE ReadsRequest
  BY <1>1 DEF ReadsRequest, Goto, devices, clients
<1>2. CASE NoRequest
  BY <1>2 DEF NoRequest, Continues, ForAll, devices, orders, clients
<1>3. CASE ResetsRequest
  BY <1>3 DEF ResetsRequest, Continues, ForAll, Goto, devices, clients
<1>4. CASE PausesForDaemon
  BY <1>4 DEF PausesForDaemon, Breakpoint, Raises, ForAll, Goto, devices,
     clients
<1>5. CASE PausesAgain
  BY <1>5 DEF PausesAgain, Breakpoint, Raises, ForAll, Goto, devices, clients
<1>6. CASE ChecksPausecount
  BY <1>6 DEF ChecksPausecount, Goto, devices, orders, clients
<1>7. CASE ChecksNewRequest
  BY <1>7 DEF ChecksNewRequest, Goto, devices, orders, clients
<1>8. CASE ChecksFirst
  BY <1>8 DEF ChecksFirst, Goto, devices, orders, clients
<1>9. CASE Prepares
  BY <1>9 DEF Prepares, ForAll, devices, orders, clients
<1>10. CASE Starts
  BY <1>10 DEF Starts, Turn, After, Fails, ForAll, devices, orders, clients
<1>11. CASE Visits
  BY <1>11 DEF Visits, ForAll, orders, clients
<1>12. CASE VisitEnds
  BY <1>12 DEF VisitEnds, After, ForAll, devices, orders, clients
<1>13. CASE Fails("loop", "except")
  BY <1>13 DEF Fails, ForAll, devices, orders, clients
<1>14. CASE LooksForRequest
  BY <1>14 DEF LooksForRequest, ForAll, devices, orders, clients
<1>15. CASE Pauses
  BY <1>15, ZenonT(40) DEF Pauses, Turn, After, Fails, ForAll, devices, orders,
     clients
<1>16. CASE Finishes
  BY <1>16 DEF Finishes, Turn, After, Fails, ForAll, devices, orders, clients
<1>17. CASE Resumes
  BY <1>17 DEF Resumes, Turn, After, Fails, ForAll, devices, orders, clients
<1>18. CASE LoopsAgain
  BY <1>18 DEF LoopsAgain, StopsThose, ForAll, orders, clients
<1>19. CASE Interrupts
  BY <1>19 DEF Interrupts, orders, clients
<1>20. CASE ReRaises
  BY <1>20 DEF ReRaises, After, ForAll, devices, orders, clients
<1>21. CASE \E d \in Dets : Completes(d)
  BY <1>21 DEF Completes, orders, clients
<1>22. CASE BreakCommand
  BY <1>22 DEF BreakCommand, Command, InBreak, devices
<1>23. CASE StopCommand("stop")
  BY <1>23 DEF StopCommand, AfterBreak, Command, InBreak, Raises, ForAll, Goto, devices
<1>24. CASE StopCommand("step")
  BY <1>24 DEF StopCommand, AfterBreak, Command, InBreak, Raises, ForAll, Goto, devices
<1>25. CASE FinishCommand
  BY <1>25 DEF FinishCommand, Command, devices
<1>26. CASE WatchdogPauses
  BY <1>26 DEF WatchdogPauses, Command, devices
<1>27. CASE WritesRequest
  BY <1>27 DEF WritesRequest, devices
<1>28. CASE WatchdogResumes
  BY <1>28 DEF WatchdogResumes, devices, clients
<1>29. CASE ContinueCommand
  BY <1>29 DEF ContinueCommand, AfterBreak, InBreak, Goto, devices, orders, clients
<1>30. CASE UNCHANGED vars
  BY <1>30 DEF vars, devices, orders, clients
<1> QED
  BY <1>1, <1>2, <1>3, <1>4, <1>5, <1>6, <1>7, <1>8, <1>9, <1>10, <1>11, <1>12,
     <1>13, <1>14, <1>15, <1>16, <1>17, <1>18, <1>19, <1>20, <1>21, <1>22,
     <1>23, <1>24, <1>25, <1>26, <1>27, <1>28, <1>29, <1>30 DEF Next,
     ThreadStep, WaitStep, ClientStep

--------------------------------------------------------------------------------
(***************************************************************************)
(* The types are correct, and the invariant holds.                         *)
(***************************************************************************)
THEOREM CountInvariant == Spec => []IInv
<1>1. Init => IInv
  BY InvInit
<1>2. IInv /\ [Next]_vars => IInv'
  BY PlaceStep, TypeStep, BeforeStartStep, PausingStep DEF IInv, TypeOK, CountInv, InLoop
<1> QED
  BY <1>1, <1>2, PTL DEF Spec

(***************************************************************************)
(* However the loop ends, it has visited all detectors.                    *)
(***************************************************************************)
LEMMA EndingHolds ==
  ASSUME "start" \notin Faults
  PROVE  Spec => []Ending
<1>1. Init => Ending
  BY InvInit
<1>2. IInv /\ Ending /\ [Next]_vars => Ending'
  BY EndingStep DEF IInv, CountInv
<1> QED
  BY <1>1, <1>2, CountInvariant, PTL DEF Spec

(***************************************************************************)
(* A count that is over leaves no detector counting or paused, whatever    *)
(* was requested and whatever failed, but those whose stop() failed.       *)
(***************************************************************************)
THEOREM NoDetectorLeftCounting ==
  ASSUME "start" \notin Faults
  PROVE  Spec => []NoneLeftCounting
<1>1. IInv /\ Ending => NoneLeftCounting
  BY DEF IInv, CountInv, CountTypeOK, Ending, AllIdle, Stopped, NoneLeftCounting, Ended
<1> QED
  BY <1>1, CountInvariant, EndingHolds, PTL

(***************************************************************************)
(* No detector that can pause counts while the loop waits for a            *)
(* continuation.                                                           *)
(***************************************************************************)
THEOREM NothingCountsInPause == Spec => []PausedCountsNothing
<1>1. IInv => PausedCountsNothing
  BY CountAssumption DEF IInv, CountInv, Pausing, NotCounting, PausedCountsNothing
<1> QED
  BY <1>1, CountInvariant, PTL

(***************************************************************************)
(* A count that is over has a final or interrupted result of every         *)
(* detector.                                                               *)
(***************************************************************************)
THEOREM EveryDetectorHasResult ==
  ASSUME "start" \notin Faults
  PROVE  Spec => []EveryResult
<1>1. IInv /\ Ending => EveryResult
  BY DEF IInv, CountInv, CountTypeOK, Ending, AllIdle, Stopped, EveryResult
<1> QED
  BY <1>1, CountInvariant, EndingHolds, PTL

--------------------------------------------------------------------------------
(***************************************************************************)
(* Scans and counts.  Outside the loop the detectors rest.                 *)
(***************************************************************************)
Outside == ScanSteps \cup AtBreak

AtRest == pc \in Outside => only

\* The steps of a script around the counting loop.
OuterStep == ScanStep \/ ContinueInScan \/ StopInScan \/ BeginsCall \/ BeginsCount
             \/ BeginsScript \/ ReachesLine

\* Where a call has a point open, where a scan has none, and where no scan is begun.
InPoint == InLoop \cup {"environment"}
InScan == {"move", "move_skip", "open", "skipped", "skip_break", "measured", "step_break", "arrived",
           "advance", "end"}
Apart == {"between", "to_start", "begin", "begin_skip", "ended", "end_break"}

Datasets == [kind : {"scan", "point"}, call : 1..MaxCalls]
ScanData == [kind |-> "scan", call |-> calls]
PointData == [kind |-> "point", call |-> calls]

One(st, a) == Len(st) = 1 /\ st[1] = a
Two(st, a, b) == Len(st) = 2 /\ st[1] = a /\ st[2] = b

(***************************************************************************)
(* The stack is no deeper than a scan's point.  What is on it is what the  *)
(* position says; where datasets were left open, they are below it.        *)
(***************************************************************************)
Shape(st) == Len(st) \in {0, 1} \/ (Len(st) = 2 /\ st[1].kind = "scan" /\ st[2].kind = "point")

OnStack ==
    /\ call = "scan" /\ pc \in InScan => Len(stack) > 0 /\ stack[1] = ScanData
    /\ call = "scan" /\ pc \in InPoint => Two(stack, ScanData, PointData)
    /\ call = "count" /\ pc \in InPoint => Len(stack) > 0 /\ stack[Len(stack)] = PointData

Unbroken ==
    /\ pc \in Apart => Len(stack) = 0
    /\ call = "scan" /\ pc \in InScan => Len(stack) = 1
    /\ call = "count" /\ pc = "open" => Len(stack) = 0
    /\ call = "count" /\ pc \in InPoint => Len(stack) = 1

StackInv ==
    /\ Shape(stack) /\ OnStack /\ (~ broken => Unbroken)
    /\ pc # "between" => calls > 0
    /\ call = "count" => pc \in InPoint \cup {"between", "open"}

\* A point that began since the stop is the last one before a breakpoint.
LateInv == late = 0 \/ (late = 1 /\ pc \in InPoint \cup {"measured"})

ScanInv == ScanTypeOK /\ CountInv /\ AtRest /\ StackInv /\ LateInv

--------------------------------------------------------------------------------
(***************************************************************************)
(* The counting loop, as a part of a script, keeps its invariant: a point  *)
(* begins and ends with the detectors at rest.                             *)
(***************************************************************************)
LEMMA CountStepNext == CountStep => Next
BY DEF CountStep, CommandsInScan, Next, ClientStep

LEMMA OuterRests ==
  CountTypeOK /\ Counts /\ BeforeStart /\ AtRest /\ OuterStep =>
    /\ (CountTypeOK /\ Counts)'
    /\ only' /\ AllIdle' /\ detset' = Dets
    /\ pc' \in Outside \cup {"first"}
<1> SUFFICES ASSUME CountTypeOK, Counts, BeforeStart, AtRest, OuterStep
             PROVE  /\ (CountTypeOK /\ Counts)'
                    /\ only' /\ AllIdle' /\ detset' = Dets
                    /\ pc' \in Outside \cup {"first"}
  OBVIOUS
<1> USE CountAssumption DEF CountTypeOK, Counts, BeforeStart, AllIdle, AtRest, Outside,
     ScanSteps, AtBreak, Goto, inner, devices, orders, clients, scan, data
<1>1. CASE PreparesScan
  BY <1>1 DEF PreparesScan, Over
<1>2. CASE BeginsScan
  BY <1>2 DEF BeginsScan, Over
<1>3. CASE Moves
  BY <1>3 DEF Moves
<1>4. CASE BeginsPoint
  BY <1>4 DEF BeginsPoint, PointOver, Over
<1>5. CASE ReadsEnvironment
  BY <1>5 DEF ReadsEnvironment, PointOver, Over
<1>6. CASE FinishesPoint
  BY <1>6 DEF FinishesPoint, PointOver, Over
<1>7. CASE SkipsPoint
  BY <1>7 DEF SkipsPoint, Reaches, Stops, NowRequests
<1>8. CASE FinishesMeasurement
  BY <1>8 DEF FinishesMeasurement, Reaches, AfterPoint, Stops, NowRequests
<1>9. CASE SweepGoesOn
  BY <1>9 DEF SweepGoesOn
<1>10. CASE Advances
  BY <1>10 DEF Advances
<1>11. CASE FinishesScan
  BY <1>11 DEF FinishesScan, Over
<1>12. CASE LeavesScan
  BY <1>12 DEF LeavesScan, Reaches, Stops, NowRequests
<1>13. CASE ContinueInScan
  BY <1>13 DEF ContinueInScan, AfterPoint
<1>14. CASE StopInScan
  BY <1>14 DEF StopInScan, Command
<1>15. CASE BeginsCall \/ BeginsCount
  BY <1>15 DEF BeginsCall, BeginsCount, Calls
<1>16. CASE BeginsScript
  BY <1>16 DEF BeginsScript
<1>17. CASE ReachesLine
  BY <1>17 DEF ReachesLine
<1> QED
  BY <1>1, <1>2, <1>3, <1>4, <1>5, <1>6, <1>7, <1>8, <1>9, <1>10, <1>11, <1>12, <1>13,
     <1>14, <1>15, <1>16, <1>17 DEF OuterStep, ScanStep

LEMMA CountStays ==
  CountInv /\ AtRest /\ [ScanNext]_allVars => (CountInv /\ AtRest)'
<1> SUFFICES ASSUME CountInv, AtRest, [ScanNext]_allVars PROVE (CountInv /\ AtRest)'
  OBVIOUS
<1>1. CASE CountStep \/ UNCHANGED allVars
  <2>1. [Next]_vars
    BY <1>1, CountStepNext DEF allVars
  <2>2. CountInv'
    BY <2>1, TypeStep, BeforeStartStep, PausingStep DEF CountInv
  <2>3. AtRest'
    BY <2>1, PlaceStep DEF AtRest, Outside, InLoop, ScanSteps, AtBreak, LoopSteps, WaitSteps
  <2> QED
    BY <2>2, <2>3
<1>2. CASE OuterStep
  <2>1. /\ (CountTypeOK /\ Counts)'
        /\ only' /\ AllIdle' /\ detset' = Dets
        /\ pc' \in Outside \cup {"first"}
    BY <1>2, OuterRests DEF CountInv
  <2> QED
    BY <2>1 DEF CountInv, AtRest, BeforeStart, Pausing, Outside, ScanSteps, AtBreak,
       Counting, LoopSteps, WaitSteps
<1> QED
  BY <1>1, <1>2 DEF ScanNext, OuterStep

LEMMA EndingStays ==
  ASSUME "start" \notin Faults
  PROVE  CountInv /\ AtRest /\ Ending /\ [ScanNext]_allVars => Ending'
<1> SUFFICES ASSUME CountInv, AtRest, Ending, [ScanNext]_allVars PROVE Ending'
  OBVIOUS
<1>1. CASE CountStep \/ UNCHANGED allVars
  <2>1. [Next]_vars
    BY <1>1, CountStepNext DEF allVars
  <2> QED
    BY <2>1, EndingStep DEF CountInv
<1>2. CASE OuterStep
  <2>1. pc' \in Outside \cup {"first"}
    BY <1>2, OuterRests DEF CountInv
  <2> QED
    BY <2>1 DEF Ending, Outside, ScanSteps, AtBreak
<1> QED
  BY <1>1, <1>2 DEF ScanNext, OuterStep

--------------------------------------------------------------------------------
(***************************************************************************)
(* What the operations of DataManager do to the stack: _clean({}) empties  *)
(* it, _clean({"scan"}) leaves at most the scan, and a dataset that ends   *)
(* is popped if it is the last one.                                        *)
(***************************************************************************)
LEMMA Prefix ==
  ASSUME NEW st \in Seq(Datasets), NEW n \in 0..Len(st)
  PROVE  /\ SubSeq(st, 1, n) \in Seq(Datasets) /\ Len(SubSeq(st, 1, n)) = n
         /\ \A i \in 1..n : SubSeq(st, 1, n)[i] = st[i]
<1> DEFINE p == SubSeq(st, 1, n)
<1>1. Len(st) \in Nat /\ n \in Int /\ \A i \in 1..n : st[i] \in Datasets
  BY LenProperties, ElementOfSeq
<1>2. /\ p \in Seq(Datasets) /\ Len(p) = IF 1 <= n THEN n - 1 + 1 ELSE 0
      /\ \A i \in 1..(n - 1 + 1) : p[i] = st[1 + i - 1]
  BY <1>1, SubSeqProperties
<1> HIDE DEF p
<1>3. Len(p) = n /\ \A i \in 1..n : p[i] = st[i]
  BY <1>1, <1>2
<1> QED
  BY <1>2, <1>3 DEF p

LEMMA CleansAll == Clean({}) = <<>>
<1> DEFINE kept == {i \in DOMAIN stack : stack[i].kind \in {}}
           last == CHOOSE n \in kept \cup {0} : \A i \in kept : i <= n
<1>1. kept = {}
  OBVIOUS
<1>2. last = 0
  BY <1>1
<1>3. Clean({}) = SubSeq(stack, 1, last)
  BY DEF Clean
<1> QED
  BY <1>2, <1>3, SubSeqEmpty

LEMMA CleansToScan ==
  ASSUME stack \in Seq(Datasets), Shape(stack)
  PROVE  /\ Clean({"scan"}) \in Seq(Datasets)
         /\ IF Len(stack) > 0 /\ stack[1].kind = "scan"
            THEN One(Clean({"scan"}), stack[1]) ELSE Clean({"scan"}) = <<>>
<1> DEFINE kept == {i \in DOMAIN stack : stack[i].kind \in {"scan"}}
           last == CHOOSE n \in kept \cup {0} : \A i \in kept : i <= n
<1>1. Clean({"scan"}) = SubSeq(stack, 1, last)
  BY DEF Clean
<1>2. Len(stack) \in Nat /\ DOMAIN stack = 1..Len(stack)
      /\ \A i \in 1..Len(stack) : stack[i] \in Datasets
  BY LenProperties, ElementOfSeq
<1>3. CASE Len(stack) > 0 /\ stack[1].kind = "scan"
  <2>1. kept = {1}
    BY <1>2, <1>3 DEF Shape
  <2>2. last = 1
    BY <2>1
  <2>3. 1 \in 0..Len(stack)
    BY <1>2, <1>3
  <2> HIDE DEF last
  <2>4. Clean({"scan"}) = SubSeq(stack, 1, 1)
    BY <1>1, <2>2
  <2>5. Clean({"scan"}) \in Seq(Datasets) /\ Len(Clean({"scan"})) = 1
        /\ \A i \in 1..1 : Clean({"scan"})[i] = stack[i]
    <3>1. /\ SubSeq(stack, 1, 1) \in Seq(Datasets) /\ Len(SubSeq(stack, 1, 1)) = 1
          /\ \A i \in 1..1 : SubSeq(stack, 1, 1)[i] = stack[i]
      BY <2>3, Prefix
    <3> QED
      BY <2>4, <3>1
  <2> QED
    BY <1>3, <2>5 DEF One
<1>4. CASE ~ (Len(stack) > 0 /\ stack[1].kind = "scan")
  <2>1. kept = {}
    BY <1>2, <1>4 DEF Shape
  <2>2. last = 0
    BY <2>1
  <2>3. SubSeq(stack, 1, 0) = <<>>
    BY SubSeqEmpty
  <2> QED
    BY <1>1, <1>4, <2>2, <2>3, EmptySeq
<1> QED
  BY <1>3, <1>4

LEMMA Pushes ==
  ASSUME NEW st \in Seq(Datasets), NEW d \in Datasets
  PROVE  /\ Append(st, d) \in Seq(Datasets)
         /\ st = <<>> => One(Append(st, d), d)
         /\ \A a : One(st, a) => Two(Append(st, d), a, d)
<1>1. /\ Append(st, d) \in Seq(Datasets) /\ Len(Append(st, d)) = Len(st) + 1
      /\ \A i \in 1..Len(st) : Append(st, d)[i] = st[i]
      /\ Append(st, d)[Len(st) + 1] = d
  BY AppendProperties
<1>2. st = <<>> => Len(st) = 0
  BY EmptySeq
<1>3. st = <<>> => One(Append(st, d), d)
  BY <1>1, <1>2 DEF One
<1>4. ASSUME NEW a, One(st, a) PROVE Two(Append(st, d), a, d)
  <2>1. Len(st) = 1 /\ st[1] = a
    BY <1>4 DEF One
  <2> QED
    BY <1>1, <2>1 DEF Two
<1> QED
  BY <1>1, <1>3, <1>4

\* What is on the stack after a scan and after a point is begun or not.
LEMMA ScanBegun ==
  ASSUME calls \in 1..MaxCalls, Begins("scan", {}) \/ BeginFails("scan", {})
  PROVE  /\ stack' \in Seq(Datasets)
         /\ One(stack', ScanData) \/ (stack' = <<>> /\ Len(stack') = 0)
         /\ Begins("scan", {}) => One(stack', ScanData)
         /\ Begins("scan", {}) => ~ broken'
         /\ BeginFails("scan", {}) => (broken' \/ Len(stack') = 0)
<1>1. <<>> \in Seq(Datasets) /\ Len(<<>>) = 0
  BY EmptySeq
<1>2. ScanData \in Datasets
  BY DEF ScanData, Datasets
<1>3. Append(<<>>, ScanData) \in Seq(Datasets) /\ One(Append(<<>>, ScanData), ScanData)
  BY <1>1, <1>2, Pushes
<1>4. Pushed("scan", {}) = Append(<<>>, ScanData)
  BY CleansAll DEF Pushed, ScanData
<1> QED
  BY <1>1, <1>3, <1>4, CleansAll DEF Begins, BeginFails

LEMMA PointBegun ==
  ASSUME calls \in 1..MaxCalls, stack \in Seq(Datasets), Shape(stack),
         Begins("point", {"scan"}) \/ BeginFails("point", {"scan"})
  PROVE  LET base == IF Len(stack) > 0 /\ stack[1].kind = "scan" THEN 1 ELSE 0 IN
         /\ stack' \in Seq(Datasets)
         /\ \/ Len(stack') = base
            \/ Len(stack') = base + 1 /\ stack'[base + 1] = PointData
         /\ base = 1 => stack'[1] = stack[1]
         /\ Begins("point", {"scan"}) => Len(stack') = base + 1 /\ stack'[base + 1] = PointData
         /\ BeginFails("point", {"scan"}) /\ ~ broken' => Len(stack') = base
         /\ ~ broken' /\ broken => base = 0
<1>1. PointData \in Datasets
  BY DEF PointData, Datasets
<1> DEFINE base == IF Len(stack) > 0 /\ stack[1].kind = "scan" THEN 1 ELSE 0
           left0 == Clean({"scan"})
<1>2. /\ left0 \in Seq(Datasets)
      /\ base = 1 => One(left0, stack[1])
      /\ base = 0 => left0 = <<>> /\ Len(left0) = 0
      /\ base \in {0, 1}
  BY CleansToScan, EmptySeq
<1>3. Pushed("point", {"scan"}) = Append(left0, PointData)
  BY DEF Pushed, PointData
<1>4. /\ Append(left0, PointData) \in Seq(Datasets)
      /\ base = 0 => One(Append(left0, PointData), PointData)
      /\ base = 1 => Two(Append(left0, PointData), stack[1], PointData)
  BY <1>1, <1>2, Pushes
<1>5. stack' \in {left0, Append(left0, PointData)}
      /\ (Begins("point", {"scan"}) => stack' = Append(left0, PointData))
      /\ (BeginFails("point", {"scan"}) => broken' \/ stack' = left0)
      /\ (~ broken' /\ broken => left0 = <<>>)
  BY <1>3 DEF Begins, BeginFails
<1>6. One(left0, stack[1]) => left0 # <<>>
  BY EmptySeq DEF One
<1> HIDE DEF left0
<1>7. CASE stack' = left0
  BY <1>2, <1>5, <1>6, <1>7 DEF One
<1>8. CASE stack' = Append(left0, PointData)
  BY <1>2, <1>4, <1>5, <1>6, <1>8 DEF One, Two
<1> QED
  BY <1>5, <1>7, <1>8

LEMMA DatasetFinished ==
  ASSUME stack \in Seq(Datasets), NEW kind, Finish(kind)
  PROVE  /\ stack' \in Seq(Datasets)
         /\ IF Top(kind)
            THEN Len(stack') = Len(stack) - 1 /\ \A i \in 1..Len(stack') : stack'[i] = stack[i]
            ELSE stack' = stack
         /\ Top(kind) <=> Len(stack) > 0 /\ stack[Len(stack)].kind = kind
         /\ broken' <=> broken /\ Len(stack') > 0
<1>1. Len(stack) \in Nat /\ \A i \in 1..Len(stack) : stack[i] \in Datasets
  BY LenProperties, ElementOfSeq
<1>2. Top(kind) <=> Len(stack) > 0 /\ stack[Len(stack)].kind = kind
  BY <1>1, EmptySeq DEF Top
<1> DEFINE popped == SubSeq(stack, 1, Len(stack) - 1)
<1>3. ASSUME Len(stack) > 0
      PROVE  /\ popped \in Seq(Datasets) /\ Len(popped) = Len(stack) - 1
             /\ \A i \in 1..Len(popped) : popped[i] = stack[i]
  <2>1. Len(stack) - 1 \in 0..Len(stack)
    BY <1>1, <1>3
  <2> QED
    BY <2>1, Prefix
<1>4. stack' = IF Top(kind) THEN popped ELSE stack
  BY DEF Finish
<1> HIDE DEF popped
<1>5. stack' \in Seq(Datasets)
  BY <1>2, <1>3, <1>4
<1>6. (stack' # <<>>) <=> Len(stack') > 0
  BY <1>5, EmptySeq
<1> QED
  BY <1>2, <1>3, <1>4, <1>5, <1>6 DEF Finish

--------------------------------------------------------------------------------
(***************************************************************************)
(* Every step of the script around the counting loop preserves the types.  *)
(***************************************************************************)
ScanTypes ==
    /\ pc \in InLoop \cup Outside
    /\ call \in {"scan", "count"} /\ calls \in 0..MaxCalls /\ point \in 0..NPoints
    /\ exc \in {"none", "stop", "StopScan"} \cup Errors
    /\ stopping \in BOOLEAN /\ broken \in BOOLEAN
    /\ stack \in Seq(Datasets)

LEMMA OuterTypes ==
  ASSUME ScanTypes, CountTypeOK, StackInv, OuterStep
  PROVE  /\ pc' \in InLoop \cup Outside
         /\ call' \in {"scan", "count"} /\ calls' \in 0..MaxCalls /\ point' \in 0..NPoints
         /\ exc' \in {"none", "stop", "StopScan"} \cup Errors
         /\ stopping' \in BOOLEAN
<1> USE ScanAssumption DEF ScanTypes, CountTypeOK, InLoop, Outside, ScanSteps, AtBreak,
     LoopSteps, WaitSteps, Errors, Stops, Goto, inner, devices, orders, clients, scan, data,
     outer
<1>1. CASE PreparesScan
  BY <1>1 DEF PreparesScan, Over
<1>2. CASE BeginsScan
  BY <1>2 DEF BeginsScan, Over
<1>3. CASE Moves
  BY <1>3 DEF Moves
<1>4. CASE BeginsPoint
  BY <1>4 DEF BeginsPoint, PointOver, Over
<1>5. CASE ReadsEnvironment
  BY <1>5 DEF ReadsEnvironment, PointOver, Over
<1>6. CASE FinishesPoint
  BY <1>6 DEF FinishesPoint, PointOver, Over, Ended
<1>7. CASE SkipsPoint
  BY <1>7 DEF SkipsPoint, Reaches, NowRequests
<1>8. CASE FinishesMeasurement
  BY <1>8 DEF FinishesMeasurement, Reaches, AfterPoint, NowRequests
<1>9. CASE SweepGoesOn
  BY <1>9 DEF SweepGoesOn
<1>10. CASE Advances
  BY <1>10 DEF Advances
<1>11. CASE FinishesScan
  BY <1>11 DEF FinishesScan, Over
<1>12. CASE LeavesScan
  BY <1>12 DEF LeavesScan, Reaches, NowRequests
<1>13. CASE ContinueInScan
  BY <1>13 DEF ContinueInScan, AfterPoint
<1>14. CASE StopInScan
  BY <1>14 DEF StopInScan, Command
<1>15. CASE BeginsCall \/ BeginsCount
  BY <1>15 DEF BeginsCall, BeginsCount, Calls
<1>16. CASE BeginsScript
  BY <1>16 DEF BeginsScript
<1>17. CASE ReachesLine
  BY <1>17 DEF ReachesLine
<1> QED
  BY <1>1, <1>2, <1>3, <1>4, <1>5, <1>6, <1>7, <1>8, <1>9, <1>10, <1>11, <1>12,
     <1>13, <1>14, <1>15, <1>16, <1>17 DEF OuterStep, ScanStep

(***************************************************************************)
(* And what is said about the stack and the datasets left open.            *)
(***************************************************************************)
LEMMA OuterStack ==
  ASSUME ScanTypes, CountTypeOK, StackInv, OuterStep
  PROVE  stack' \in Seq(Datasets) /\ broken' \in BOOLEAN /\ StackInv'
<1> USE ScanAssumption DEF ScanTypes, CountTypeOK, InLoop, Outside, ScanSteps, AtBreak,
     LoopSteps, WaitSteps, Stops, Errors, Goto, inner, scan, data, outer,
     InPoint, InScan, Apart, StackInv, Shape, OnStack, Unbroken, Two, ScanData, PointData
<1>0. Len(stack) \in Nat
  BY LenProperties
<1>1. CASE PreparesScan
  BY <1>0, <1>1 DEF PreparesScan, Over
<1>2. CASE BeginsScan
  <2>1. calls \in 1..MaxCalls /\ pc \in {"begin", "begin_skip"} /\ call = "scan" /\ calls' = calls
        /\ call' = call
    BY <1>2 DEF BeginsScan
  <2>2. CASE Begins("scan", {}) /\ pc' \in {"move", "move_skip"}
    <3>1. stack' \in Seq(Datasets) /\ One(stack', ScanData) /\ ~ broken' /\ broken' \in BOOLEAN
      BY <2>1, <2>2, ScanBegun DEF Begins
    <3> QED
      BY <2>1, <2>2, <3>1 DEF One
  <2>3. CASE BeginFails("scan", {}) /\ pc' = "between"
    <3>1. /\ stack' \in Seq(Datasets) /\ Len(stack') \in {0, 1}
          /\ broken' \in BOOLEAN /\ (~ broken' => Len(stack') = 0)
      BY <2>1, <2>3, ScanBegun DEF BeginFails, One
    <3> QED
      BY <2>1, <2>3, <3>1
  <2> QED
    BY <1>2, <2>2, <2>3 DEF BeginsScan, Over
<1>3. CASE Moves
  BY <1>0, <1>3 DEF Moves
<1>4. CASE BeginsPoint
  <2>1. calls \in 1..MaxCalls /\ pc = "open" /\ calls' = calls /\ call' = call
    BY <1>4 DEF BeginsPoint
  <2>2. Begins("point", {"scan"}) \/ BeginFails("point", {"scan"})
    BY <1>4 DEF BeginsPoint
  <2> DEFINE base == IF Len(stack) > 0 /\ stack[1].kind = "scan" THEN 1 ELSE 0
  <2>3. /\ stack' \in Seq(Datasets)
        /\ \/ Len(stack') = base
           \/ Len(stack') = base + 1 /\ stack'[base + 1] = PointData
        /\ base = 1 => stack'[1] = stack[1]
        /\ Begins("point", {"scan"}) => Len(stack') = base + 1 /\ stack'[base + 1] = PointData
        /\ BeginFails("point", {"scan"}) /\ ~ broken' => Len(stack') = base
        /\ ~ broken' /\ broken => base = 0
    BY <2>1, <2>2, PointBegun
  <2>4. broken' \in BOOLEAN
    BY <2>2 DEF Begins, BeginFails
  <2>5. CASE Begins("point", {"scan"}) /\ pc' = "environment"
    BY <2>1, <2>3, <2>4, <2>5, SMTT(30)
  <2>6. CASE BeginFails("point", {"scan"})
             /\ pc' = IF call = "scan" THEN "measured" ELSE "between"
    BY <2>1, <2>3, <2>4, <2>6
  <2> QED
    BY <1>4, <2>5, <2>6 DEF BeginsPoint, PointOver, Over
<1>5. CASE ReadsEnvironment
  <2>1. pc = "environment" /\ UNCHANGED <<scan, stack>>
    BY <1>5 DEF ReadsEnvironment
  <2>2. CASE pc' = "first" /\ broken' = broken
    BY <2>1, <2>2
  <2>3. CASE pc' = (IF call = "scan" THEN "measured" ELSE "between") /\ broken' = TRUE
    BY <2>1, <2>3
  <2> QED
    BY <1>5, <2>2, <2>3 DEF ReadsEnvironment, PointOver, Over
<1>6. CASE FinishesPoint
  <2>1. /\ pc \in {"done", "raised"} /\ Finish("point") /\ UNCHANGED scan
        /\ pc' = IF call = "scan" THEN "measured" ELSE "between"
    BY <1>6 DEF FinishesPoint, PointOver, Over, Ended
  <2>2. /\ stack' \in Seq(Datasets)
        /\ Top("point")
        /\ Len(stack') = Len(stack) - 1 /\ \A i \in 1..Len(stack') : stack'[i] = stack[i]
        /\ broken' <=> broken /\ Len(stack') > 0
    BY <1>0, <2>1, DatasetFinished
  <2>3. broken' \in BOOLEAN
    BY <2>1 DEF Finish
  <2> QED
    BY <1>0, <2>1, <2>2, <2>3
<1>7. CASE SkipsPoint
  <2>1. pc = "skipped" /\ pc' \in {"skip_break", "end", "advance"} /\ UNCHANGED <<scan, stack, broken>>
    BY <1>7 DEF SkipsPoint, Reaches, NowRequests
  <2> QED
    BY <1>0, <2>1
<1>8. CASE FinishesMeasurement
  <2>1. pc = "measured" /\ pc' \in {"step_break", "end", "arrived", "advance"} /\ UNCHANGED <<scan, stack, broken>>
    BY <1>8 DEF FinishesMeasurement, Reaches, AfterPoint, NowRequests
  <2> QED
    BY <1>0, <2>1
<1>9. CASE SweepGoesOn
  BY <1>0, <1>9 DEF SweepGoesOn
<1>10. CASE Advances
  BY <1>0, <1>10, SMTT(30) DEF Advances
<1>11. CASE FinishesScan
  <2>1. /\ pc = "end" /\ Finish("scan") /\ UNCHANGED <<call, calls>> /\ call = "scan"
        /\ pc' \in {"ended", "between"}
    BY <1>11 DEF FinishesScan, Over
  <2>2. /\ stack' \in Seq(Datasets)
        /\ IF Top("scan")
           THEN Len(stack') = Len(stack) - 1 /\ \A i \in 1..Len(stack') : stack'[i] = stack[i]
           ELSE stack' = stack
        /\ Top("scan") <=> Len(stack) > 0 /\ stack[Len(stack)].kind = "scan"
        /\ broken' <=> broken /\ Len(stack') > 0
    BY <2>1, DatasetFinished
  <2>3. broken' \in BOOLEAN
    BY <2>1 DEF Finish
  <2> QED
    BY <1>0, <2>1, <2>2, <2>3
<1>12. CASE LeavesScan
  <2>1. pc = "ended" /\ pc' \in {"end_break", "between"} /\ UNCHANGED <<scan, stack, broken>>
    BY <1>12 DEF LeavesScan, Reaches, NowRequests
  <2> QED
    BY <1>0, <2>1
<1>13. CASE ContinueInScan
  BY <1>0, <1>13 DEF ContinueInScan, AfterPoint
<1>14. CASE StopInScan
  BY <1>0, <1>14 DEF StopInScan, Command
<1>15. CASE BeginsCall \/ BeginsCount
  BY <1>0, <1>15, SMTT(30) DEF BeginsCall, BeginsCount, Calls
<1>16. CASE BeginsScript
  BY <1>0, <1>16 DEF BeginsScript
<1>17. CASE ReachesLine
  BY <1>0, <1>17 DEF ReachesLine
<1> QED
  BY <1>1, <1>2, <1>3, <1>4, <1>5, <1>6, <1>7, <1>8, <1>9, <1>10, <1>11, <1>12,
     <1>13, <1>14, <1>15, <1>16, <1>17 DEF OuterStep, ScanStep

--------------------------------------------------------------------------------
(***************************************************************************)
(* The steps of the counting loop leave the datasets alone; a stop is      *)
(* pending for at most one more point.                                     *)
(***************************************************************************)
LEMMA CountTypesAndStack ==
  ASSUME ScanTypes, StackInv, CountStep \/ UNCHANGED allVars
  PROVE  ScanTypes' /\ StackInv'
<1> USE DEF InLoop, Outside, ScanSteps, AtBreak, LoopSteps, WaitSteps, scan, data, outer, allVars
<1>1. UNCHANGED <<scan, data>>
  BY DEF CountStep, CountFrame
<1>2. pc' = pc \/ (pc \in InLoop /\ pc' \in InLoop)
  BY PlaceStep, CountStepNext
<1>3. exc' \in {"none", "stop", "StopScan"} \cup Errors
  BY DEF CountStep, CountFrame, ScanTypes
<1>4. stopping' \in BOOLEAN
  BY DEF CountStep, CountFrame, ScanTypes
<1>5. ScanTypes'
  BY <1>1, <1>2, <1>3, <1>4 DEF ScanTypes
<1> QED
  BY <1>1, <1>2, <1>5 DEF StackInv, OnStack, Unbroken, Shape, InPoint, InScan, Apart, ScanData,
     PointData, Two

LEMMA LateStep ==
  ASSUME ScanTypes, LateInv, [ScanNext]_allVars
  PROVE  LateInv'
<1> USE DEF LateInv, InPoint, InLoop, Outside, ScanSteps, AtBreak, LoopSteps, WaitSteps
<1>1. CASE UNCHANGED allVars
  BY <1>1 DEF allVars, vars
<1>2. CASE History /\ CountStep
  <2>1. pc' = pc \/ (pc \in InLoop /\ pc' \in InLoop)
    BY <1>2, PlaceStep, CountStepNext
  <2> QED
    BY <1>2, <2>1 DEF History
<1>3. CASE History /\ OuterStep
  <2> USE <1>3 DEF History, Goto
  <2>1. CASE ReadsEnvironment \/ FinishesPoint
    BY <2>1 DEF ReadsEnvironment, FinishesPoint, PointOver, Over
  <2>2. CASE FinishesMeasurement
    BY <2>2 DEF FinishesMeasurement, Reaches, Stops
  <2>3. CASE BeginsPoint
    BY <2>3 DEF BeginsPoint, PointOver, Over
  <2>4. CASE pc \notin InPoint \cup {"measured", "open"}
    BY <2>4
  <2> QED
    BY <2>1, <2>2, <2>3, <2>4 DEF OuterStep, ScanStep, PreparesScan, BeginsScan, Moves,
       SkipsPoint, Reaches, SweepGoesOn, Advances, FinishesScan, LeavesScan, ContinueInScan,
       StopInScan, BeginsCall, BeginsCount, Calls, BeginsScript, ReachesLine
<1> QED
  BY <1>1, <1>2, <1>3 DEF ScanNext, OuterStep

--------------------------------------------------------------------------------
(***************************************************************************)
(* The invariant of the scans and counts holds.                            *)
(***************************************************************************)
LEMMA ScanTypesAgree == ScanTypeOK <=> ScanTypes /\ CountTypeOK
BY DEF ScanTypeOK, ScanTypes, Datasets, InLoop, Outside

LEMMA ScanInvInit == ScanInit => ScanInv /\ Ending
<1> SUFFICES ASSUME ScanInit PROVE ScanInv /\ Ending
  OBVIOUS
<1>1. CountTypeOK /\ Counts /\ AllIdle /\ NotCounting(Dets) /\ only /\ detset = Dets
  BY CountInvInit DEF ScanInit, Resting
<1>2. CountInv /\ AtRest /\ Ending
  BY <1>1 DEF ScanInit, CountInv, AtRest, BeforeStart, Pausing, Ending, Counting, LoopSteps,
     WaitSteps
<1>3. stack \in Seq(Datasets) /\ Len(stack) = 0
  BY EmptySeq DEF ScanInit
<1>4. ScanTypeOK
  <2>1. pc \in InLoop \cup Outside /\ stopping \in BOOLEAN /\ broken \in BOOLEAN
    BY DEF ScanInit, Outside, ScanSteps
  <2> QED
    BY <1>1, <1>3, <2>1, ScanTypesAgree, ScanAssumption DEF ScanInit, ScanTypes
<1>5. StackInv /\ LateInv
  BY <1>3 DEF ScanInit, StackInv, LateInv, Shape, OnStack, Unbroken, InPoint, InLoop, InScan,
     LoopSteps, WaitSteps
<1> QED
  BY <1>2, <1>4, <1>5 DEF ScanInv

LEMMA ScanInvStep ==
  ScanInv /\ [ScanNext]_allVars => ScanInv'
<1> SUFFICES ASSUME ScanInv, [ScanNext]_allVars PROVE ScanInv'
  OBVIOUS
<1>1. ScanTypes /\ CountTypeOK /\ StackInv /\ AtRest /\ CountInv /\ LateInv
  BY ScanTypesAgree DEF ScanInv
<1>2. (CountInv /\ AtRest)'
  BY <1>1, CountStays
<1>3. LateInv'
  BY <1>1, LateStep
<1>4. ScanTypes' /\ StackInv'
  <2>1. CASE CountStep \/ UNCHANGED allVars
    BY <1>1, <2>1, CountTypesAndStack
  <2>2. CASE OuterStep
    BY <1>1, <2>2, OuterTypes, OuterStack DEF ScanTypes
  <2> QED
    BY <2>1, <2>2 DEF ScanNext, OuterStep
<1>5. CountTypeOK'
  BY <1>2 DEF CountInv
<1> QED
  BY <1>2, <1>3, <1>4, <1>5 DEF ScanInv, ScanTypeOK, ScanTypes, Datasets, InLoop, Outside

THEOREM ScanInvariant == ScanSpec => []ScanInv
<1>1. ScanInit => ScanInv
  BY ScanInvInit
<1>2. ScanInv /\ [ScanNext]_allVars => ScanInv'
  BY ScanInvStep
<1> QED
  BY <1>1, <1>2, PTL DEF ScanSpec

(***************************************************************************)
(* The types are correct, in the loop and around it.                       *)
(***************************************************************************)
THEOREM ScanTypesCorrect == ScanSpec => []ScanTypeOK
<1>1. ScanInv => ScanTypeOK
  BY DEF ScanInv
<1> QED
  BY <1>1, ScanInvariant, PTL

(***************************************************************************)
(* What is proved of one count holds for every count of a script, whatever *)
(* requests are left over from the call before, or come between two calls. *)
(***************************************************************************)
THEOREM EveryCountIsSound ==
  ASSUME "start" \notin Faults
  PROVE  ScanSpec => [](NoneLeftCounting /\ PausedCountsNothing /\ EveryResult)
<1>1. ScanInit => Ending
  BY ScanInvInit
<1>2. ScanInv /\ Ending /\ [ScanNext]_allVars => Ending'
  BY EndingStays DEF ScanInv
<1>3. ScanInv /\ Ending => NoneLeftCounting /\ EveryResult
  BY DEF ScanInv, CountInv, CountTypeOK, Ending, AllIdle, Stopped, NoneLeftCounting, Ended,
     EveryResult
<1>4. ScanInv => PausedCountsNothing
  BY CountAssumption DEF ScanInv, CountInv, Pausing, NotCounting, PausedCountsNothing
<1> QED
  BY <1>1, <1>2, <1>3, <1>4, ScanInvariant, PTL DEF ScanSpec

(***************************************************************************)
(* No call leaves a dataset open but after an error of a sink.             *)
(***************************************************************************)
THEOREM DatasetsAreFinished == ScanSpec => []NothingLeftOpen
<1>1. ScanInv => NothingLeftOpen
  <2> SUFFICES ASSUME ScanInv, pc = "between", ~ broken PROVE stack = <<>>
    BY DEF NothingLeftOpen
  <2>1. stack \in Seq(Datasets) /\ Len(stack) = 0
    BY DEF ScanInv, ScanTypeOK, Datasets, StackInv, Unbroken, Apart
  <2> QED
    BY <2>1, EmptySeq
<1> QED
  BY <1>1, ScanInvariant, PTL

(***************************************************************************)
(* A point belongs to the scan of its own call.                            *)
(***************************************************************************)
THEOREM PointsHaveTheirScan == ScanSpec => []OwnParent
<1>1. ScanInv => OwnParent
  <2> SUFFICES ASSUME ScanInv PROVE OwnParent
    OBVIOUS
  <2>1. ScanTypes /\ StackInv
    BY ScanTypesAgree DEF ScanInv
  <2>2. DOMAIN stack = 1..Len(stack) /\ Len(stack) \in Nat
    BY <2>1, LenProperties DEF ScanTypes
  <2>3. Len(stack) <= 2
    BY <2>1, <2>2 DEF StackInv, Shape
  <2>4. ASSUME ~ broken, NEW i \in DOMAIN stack
        PROVE  stack[i].call = calls /\ (stack[i].kind = "scan" <=> call = "scan" /\ i = 1)
    BY <2>1, <2>2, <2>4 DEF StackInv, OnStack, Unbroken, Two, ScanData, PointData, ScanTypes,
       InPoint, InScan, Apart, InLoop, Outside, ScanSteps, AtBreak
  <2> QED
    BY <2>3, <2>4 DEF OwnParent
<1> QED
  BY <1>1, ScanInvariant, PTL

(***************************************************************************)
(* After a stop request at most one more point is begun.                   *)
(***************************************************************************)
THEOREM ScanStopsSoon == ScanSpec => []StopsSoon
<1>1. ScanInv => StopsSoon
  BY DEF ScanInv, LateInv, StopsSoon
<1> QED
  BY <1>1, ScanInvariant, PTL

================================================================================
