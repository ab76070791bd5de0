---------------------------- MODULE Sequencer_proofs ----------------------------
(***************************************************************************)
(* Proofs about Sequencer, for any number of users, sequences, steps and   *)
(* actions and all faults, if one user at most starts and resets the       *)
(* device: the check for a running sequence and the start of a new one are *)
(* not one step.                                                           *)
(***************************************************************************)
EXTENDS Sequencer, TLAPS

OneDriver ==
    \A u, v \in Users :
       Ops[u] \cap {"maw", "reset"} # {} /\ Ops[v] \cap {"maw", "reset"} # {} => u = v

SeqRecord == [pc : SeqSteps, step : 0..NSteps, told : SUBSET Actions,
              act : [Actions -> ActionStates], stopAt : 0..NotStopped]

UserRecord == [pc : UserSteps, st : Statuses, mine : Seqs \cup {0},
               result : {"none", "ok", "stopped", "failed", "refused"}]

--------------------------------------------------------------------------------
(***************************************************************************)
(* The inductive invariant.                                                *)
(***************************************************************************)
\* --- only the driver does more than to stop
Driving ==
    \A u \in Users :
       /\ usr[u].pc \notin {"idle", "stop"} => Ops[u] \cap {"maw", "reset"} # {}
       /\ usr[u].pc \in {"stop", "reset1", "reset2", "reset3"} => usr[u].mine = 0
       /\ usr[u].pc # "idle" => usr[u].result = "none"

\* --- whom the device's thread is
NoneAlive == \A s \in Seqs : ~ Alive(s)

Exclusive ==
    /\ \A u \in Users :
          /\ usr[u].pc \in {"busy", "flags", "create", "reset2", "reset3"} => NoneAlive
          /\ usr[u].pc = "assign" => \A s \in Seqs : Alive(s) => s = usr[u].mine
          /\ usr[u].pc \in {"assign", "status", "alive", "finish"} => usr[u].mine \in Seqs
          /\ usr[u].pc \in {"status", "alive", "finish"} => thread = usr[u].mine
    /\ \A s \in Seqs : Alive(s) => s = thread \/ \E u \in Users : usr[u].pc = "assign"

\* --- a stop is not forgotten while the sequence runs
StopKept ==
    \A s \in Seqs :
       /\ seq[s].pc = "none" => seq[s].stopAt = NotStopped
       /\ seq[s].stopAt # NotStopped /\ Alive(s) /\ seq[s].pc # "ending" => stopflag
       /\ seq[s].stopAt # NotStopped =>
             seq[s].step <= seq[s].stopAt + (IF seq[s].pc = "loop" THEN 0 ELSE 1)

\* --- what is done where the sequence is
AllDone(s) == \A a \in Actions : seq[s].act[a] = "done"

Progress ==
    \A s \in Seqs :
       /\ seq[s].pc \in {"none", "loop"} => AllDone(s)
       /\ seq[s].pc \in {"wait", "flag", "stop_waiters", "check"} =>
             \A a \in Actions : seq[s].act[a] # "new"
       /\ seq[s].pc \in {"stop_waiters", "stop_all"} => stopflag
       /\ seq[s].pc = "check" => stopflag \/ AllDone(s)
       /\ seq[s].pc = "last" => \/ stopflag
                                \/ seq[s].step = NSteps /\ AllDone(s)

\* --- what the status tells about the sequence
Succeeded(s) ==
    seq[s].step = NSteps /\ AllDone(s) /\ seq[s].pc \in {"cleanup", "ending", "dead"}

Truthful ==
    /\ \A s \in Seqs : Alive(s) /\ seqStatus = "OK" => Succeeded(s)
    /\ \A u \in Users : usr[u].pc \in {"flags", "create"} => seqStatus = "BUSY"

Trusted ==
    \A u \in Users :
       /\ usr[u].pc \in {"assign", "status", "alive", "finish"} /\ seqStatus = "OK" =>
             Succeeded(usr[u].mine)
       /\ usr[u].pc = "alive" /\ usr[u].st = "OK" => Succeeded(usr[u].mine)
       /\ usr[u].pc = "finish" => Succeeded(usr[u].mine) /\ ~ Alive(usr[u].mine)
       /\ usr[u].result = "ok" /\ usr[u].mine # 0 =>
             usr[u].mine \in Seqs /\ Succeeded(usr[u].mine) /\ ~ Alive(usr[u].mine)

IInv == /\ TypeOK /\ Driving /\ Exclusive
        /\ StopKept /\ Progress /\ Truthful /\ Trusted

--------------------------------------------------------------------------------
(***************************************************************************)
(* The initial state has the invariant.                                    *)
(***************************************************************************)
LEMMA InvInit == Init => IInv
<1> SUFFICES ASSUME Init PROVE IInv
  OBVIOUS
<1> USE SequencerAssumption DEF Init, Seqs, NotStopped
<1>1. TypeOK
  <2>1. [pc |-> "none", step |-> 0, told |-> {}, act |-> [a \in Actions |-> "done"],
         stopAt |-> NSteps + 1] \in SeqRecord
    BY DEF SeqRecord, SeqSteps, ActionStates
  <2>2. seq \in [Seqs -> SeqRecord]
    BY <2>1
  <2>3. usr \in [Users -> UserRecord]
    BY DEF UserRecord, UserSteps, Statuses
  <2> QED
    BY <2>2, <2>3 DEF TypeOK, Statuses, SeqRecord, UserRecord
<1>2. NoneAlive
  BY DEF NoneAlive, Alive
<1>3. Driving /\ Exclusive
  BY <1>2 DEF Driving, Exclusive, NoneAlive
<1>4. StopKept /\ Progress
  BY <1>2 DEF StopKept, Progress, AllDone
<1>5. Truthful /\ Trusted
  BY <1>2 DEF Truthful, Trusted, NoneAlive
<1> QED
  BY <1>1, <1>3, <1>4, <1>5 DEF IInv

--------------------------------------------------------------------------------
(***************************************************************************)
(* What the steps of a sequence do, field by field.                        *)
(***************************************************************************)
SeqMoves(s) ==
    /\ seq' \in [Seqs -> SeqRecord]
    /\ \A t \in Seqs : t # s => seq'[t] = seq[t]
    /\ seq'[s].stopAt = seq[s].stopAt
    /\ UNCHANGED <<thread, usr, left>>

UserMoves(u) ==
    /\ usr' \in [Users -> UserRecord]
    /\ \A v \in Users : v # u => usr'[v] = usr[v]

LEMMA StepBeginsDoes ==
  ASSUME TypeOK, NEW s \in Seqs, StepBegins(s)
  PROVE  /\ SeqMoves(s)
         /\ seq[s].pc = "loop"
         /\ seq'[s].pc = "run"
         /\ seq[s].step < NSteps
         /\ seq'[s].step = seq[s].step + 1
         /\ seqStatus' = "BUSY"
         /\ UNCHANGED <<stopflag, wasStopped>>
<1>1. seq \in [Seqs -> SeqRecord] /\ usr \in [Users -> UserRecord]
  BY DEF TypeOK, SeqRecord, UserRecord
<1>2. seqStatus \in Statuses /\ left \in [Users -> Nat]
  BY DEF TypeOK
<1>3. seq' \in [Seqs -> SeqRecord]
  BY <1>1, <1>2, SequencerAssumption DEF StepBegins, SeqRecord, SeqSteps,
    ActionStates
<1> QED
  BY <1>1, <1>2, <1>3, SequencerAssumption DEF StepBegins, shared, At,
    SeqRecord, ActionStates, NotStopped, SeqMoves, Seqs

LEMMA StepsEndDoes ==
  ASSUME TypeOK, NEW s \in Seqs, StepsEnd(s)
  PROVE  /\ SeqMoves(s)
         /\ seq[s].pc = "loop"
         /\ seq'[s].pc = "last"
         /\ seq[s].step = NSteps
         /\ seq'[s].step = seq[s].step
         /\ seq'[s].act = seq[s].act
         /\ UNCHANGED <<stopflag, wasStopped, seqStatus>>
<1>1. seq \in [Seqs -> SeqRecord] /\ usr \in [Users -> UserRecord]
  BY DEF TypeOK, SeqRecord, UserRecord
<1>2. seqStatus \in Statuses /\ left \in [Users -> Nat]
  BY DEF TypeOK
<1>3. seq' \in [Seqs -> SeqRecord]
  BY <1>1, <1>2 DEF StepsEnd, Goto, SeqRecord, SeqSteps
<1> QED
  BY <1>1, <1>2, <1>3, SequencerAssumption DEF StepsEnd, shared, Goto, At,
    SeqRecord, ActionStates, NotStopped, SeqMoves, Seqs

LEMMA ActionRunsDoes ==
  ASSUME TypeOK, NEW s \in Seqs, ActionRuns(s)
  PROVE  /\ SeqMoves(s)
         /\ seq[s].pc = "run"
         /\ seq'[s].pc \in {"run", "wait", "error", "cleanup"}
         /\ seq'[s].step = seq[s].step
         /\ seq'[s].pc = "wait" => \A a \in Actions : seq'[s].act[a] # "new"
         /\ UNCHANGED <<stopflag, wasStopped, seqStatus>>
<1>1. seq \in [Seqs -> SeqRecord] /\ usr \in [Users -> UserRecord]
  BY DEF TypeOK, SeqRecord, UserRecord
<1>2. seqStatus \in Statuses /\ left \in [Users -> Nat]
  BY DEF TypeOK
<1>3. seq' \in [Seqs -> SeqRecord]
  <2> PICK a \in Actions : ActionRuns(s)!2!(a)
    BY DEF ActionRuns
  <2>1. [seq[s].act EXCEPT ![a] = "running"] \in [Actions -> ActionStates]
    BY <1>1 DEF SeqRecord, ActionStates
  <2>2. CASE seq' = [seq EXCEPT ![s].act[a] = "running",
                               ![s].pc = IF \E b \in Actions \ {a} : seq[s].act[b] = "new"
                                         THEN "run" ELSE "wait"]
    <3>1. seq' = [seq EXCEPT ![s].act = [seq[s].act EXCEPT ![a] = "running"],
                             ![s].pc = IF \E b \in Actions \ {a} : seq[s].act[b] = "new"
                                       THEN "run" ELSE "wait"]
      BY <2>2, <1>1 DEF SeqRecord
    <3>2. ASSUME NEW p \in {"run", "wait"}
          PROVE  [seq[s] EXCEPT !.act = [seq[s].act EXCEPT ![a] = "running"], !.pc = p]
                    \in SeqRecord
      BY <2>1, <1>1 DEF SeqRecord, SeqSteps
    <3> QED
      BY <3>1, <3>2, <1>1
  <2>3. CASE Goto(s, "error")
    BY ONLY <2>3, <1>1 DEF Goto, SeqRecord, SeqSteps
  <2>4. CASE Goto(s, "cleanup")
    BY ONLY <2>4, <1>1 DEF Goto, SeqRecord, SeqSteps
  <2> QED
    BY <2>2, <2>3, <2>4
<1> QED
  BY <1>1, <1>2, <1>3, SequencerAssumption DEF ActionRuns, HookRaises, shared,
    Goto, At, SeqRecord, ActionStates, NotStopped, SeqMoves, Seqs

LEMMA PollsDoes ==
  ASSUME TypeOK, NEW s \in Seqs, Polls(s)
  PROVE  /\ SeqMoves(s)
         /\ seq[s].pc = "wait"
         /\ seq'[s].pc \in {"flag", "error", "cleanup"}
         /\ seq'[s].step = seq[s].step
         /\ \A a \in Actions : seq[s].act[a] # "new" => seq'[s].act[a] # "new"
         /\ seqStatus' = "BUSY"
         /\ UNCHANGED <<stopflag, wasStopped>>
<1>1. seq \in [Seqs -> SeqRecord] /\ usr \in [Users -> UserRecord]
  BY DEF TypeOK, SeqRecord, UserRecord
<1>2. seqStatus \in Statuses /\ left \in [Users -> Nat]
  BY DEF TypeOK
<1>3. seq' \in [Seqs -> SeqRecord]
  <2>1. CASE \E done \in SUBSET Waiters(s) :
                seq' = [seq EXCEPT
                    ![s].pc = "flag",
                    ![s].act = [a \in Actions |-> IF a \in done THEN "done" ELSE @[a]]]
    <3> PICK done \in SUBSET Waiters(s) :
                seq' = [seq EXCEPT
                    ![s].pc = "flag",
                    ![s].act = [a \in Actions |->
                                   IF a \in done THEN "done" ELSE seq[s].act[a]]]
      BY <2>1, <1>1 DEF SeqRecord
    <3>1. [a \in Actions |-> IF a \in done THEN "done" ELSE seq[s].act[a]]
             \in [Actions -> ActionStates]
      BY <1>1 DEF SeqRecord, ActionStates
    <3>2. [seq[s] EXCEPT !.pc = "flag",
                         !.act = [a \in Actions |-> IF a \in done THEN "done" ELSE seq[s].act[a]]]
             \in SeqRecord
      BY <3>1, <1>1 DEF SeqRecord, SeqSteps
    <3> QED
      BY <3>2, <1>1
  <2>2. CASE Goto(s, "error")
    BY ONLY <2>2, <1>1 DEF Goto, SeqRecord, SeqSteps
  <2>3. CASE Goto(s, "cleanup")
    BY ONLY <2>3, <1>1 DEF Goto, SeqRecord, SeqSteps
  <2> QED
    BY <2>1, <2>2, <2>3 DEF Polls
<1>4. \A a \in Actions : seq[s].act[a] # "new" => seq'[s].act[a] # "new"
  <2>1. CASE \E done \in SUBSET Waiters(s) :
                seq' = [seq EXCEPT
                    ![s].pc = "flag",
                    ![s].act = [a \in Actions |-> IF a \in done THEN "done" ELSE @[a]]]
    BY <2>1, <1>1 DEF SeqRecord
  <2>2. CASE Goto(s, "error") \/ Goto(s, "cleanup")
    BY <2>2, <1>1 DEF Goto, SeqRecord
  <2> QED
    BY <2>1, <2>2 DEF Polls
<1> QED
  BY <1>1, <1>2, <1>3, <1>4, SequencerAssumption DEF Polls, Waiters, HookRaises,
    shared, Goto, At, SeqRecord, ActionStates, NotStopped, SeqMoves, Seqs

LEMMA ReadsFlagDoes ==
  ASSUME TypeOK, NEW s \in Seqs, ReadsFlag(s)
  PROVE  /\ SeqMoves(s)
         /\ seq[s].pc = "flag"
         /\ seq'[s].pc \in {"stop_waiters", "check", "wait"}
         /\ seq'[s].step = seq[s].step
         /\ seq'[s].act = seq[s].act
         /\ seq'[s].pc = "stop_waiters" => stopflag
         /\ seq'[s].pc = "check" => \A a \in Actions : seq[s].act[a] # "running"
         /\ wasStopped' = (wasStopped \/ stopflag)
         /\ UNCHANGED <<stopflag, seqStatus>>
<1>1. seq \in [Seqs -> SeqRecord] /\ usr \in [Users -> UserRecord]
  BY DEF TypeOK, SeqRecord, UserRecord
<1>2. seqStatus \in Statuses /\ left \in [Users -> Nat]
  BY DEF TypeOK
<1>3. seq' \in [Seqs -> SeqRecord]
  <2> PICK p \in {"stop_waiters", "check", "wait"} : Goto(s, p)
    BY DEF ReadsFlag
  <2> QED
    BY <1>1 DEF Goto, SeqRecord, SeqSteps
<1> QED
  BY <1>1, <1>2, <1>3, SequencerAssumption, ZenonT(40) DEF ReadsFlag, Waiters, Goto, At,
    SeqRecord, ActionStates, NotStopped, SeqMoves, Seqs

LEMMA StopsWaiterDoes ==
  ASSUME TypeOK, NEW s \in Seqs, StopsWaiter(s)
  PROVE  /\ SeqMoves(s)
         /\ seq[s].pc = "stop_waiters"
         /\ seq'[s].pc \in {"stop_waiters", "error", "cleanup"}
         /\ seq'[s].step = seq[s].step
         /\ seq'[s].act = seq[s].act
         /\ UNCHANGED <<stopflag, wasStopped, seqStatus>>
<1>1. seq \in [Seqs -> SeqRecord] /\ usr \in [Users -> UserRecord]
  BY DEF TypeOK, SeqRecord, UserRecord
<1>2. seqStatus \in Statuses /\ left \in [Users -> Nat]
  BY DEF TypeOK
<1>3. seq' \in [Seqs -> SeqRecord]
  <2> PICK a \in Actions : \/ seq' = [seq EXCEPT ![s].told = @ \cup {a}]
                           \/ seq' = [seq EXCEPT ![s].told = @ \cup {a}, ![s].pc = "error"]
                           \/ seq' = [seq EXCEPT ![s].pc = "cleanup"]
    BY DEF StopsWaiter, Waiters, Goto
  <2>1. seq[s].told \cup {a} \in SUBSET Actions
    BY <1>1 DEF SeqRecord
  <2> QED
    BY <2>1, <1>1 DEF SeqRecord, SeqSteps
<1> QED
  BY <1>1, <1>2, <1>3, SequencerAssumption DEF StopsWaiter, Waiters, HookRaises,
    shared, At, Goto, SeqRecord, ActionStates, NotStopped, SeqMoves, Seqs

LEMMA WaitersStoppedDoes ==
  ASSUME TypeOK, NEW s \in Seqs, WaitersStopped(s)
  PROVE  /\ SeqMoves(s)
         /\ seq[s].pc = "stop_waiters"
         /\ seq'[s].pc = "check"
         /\ seq'[s].step = seq[s].step
         /\ seq'[s].act = seq[s].act
         /\ UNCHANGED <<stopflag, wasStopped, seqStatus>>
<1>1. seq \in [Seqs -> SeqRecord] /\ usr \in [Users -> UserRecord]
  BY DEF TypeOK, SeqRecord, UserRecord
<1>2. seqStatus \in Statuses /\ left \in [Users -> Nat]
  BY DEF TypeOK
<1> QED
  BY <1>1, <1>2, SequencerAssumption, ZenonT(40) DEF WaitersStopped, Waiters, shared, At,
    SeqRecord, SeqSteps, ActionStates, NotStopped, SeqMoves, Seqs

LEMMA ChecksFlagDoes ==
  ASSUME TypeOK, NEW s \in Seqs, ChecksFlag(s)
  PROVE  /\ SeqMoves(s)
         /\ seq[s].pc = "check"
         /\ seq'[s].pc = IF stopflag THEN "stop_all" ELSE "loop"
         /\ seq'[s].step = seq[s].step
         /\ seq'[s].act = seq[s].act
         /\ wasStopped' = (wasStopped \/ stopflag)
         /\ seqStatus' = IF stopflag THEN "BUSY" ELSE seqStatus
         /\ UNCHANGED stopflag
<1>1. seq \in [Seqs -> SeqRecord] /\ usr \in [Users -> UserRecord]
  BY DEF TypeOK, SeqRecord, UserRecord
<1>2. seqStatus \in Statuses /\ left \in [Users -> Nat]
  BY DEF TypeOK
<1> QED
  BY <1>1, <1>2, SequencerAssumption, ZenonT(60) DEF ChecksFlag, Goto, At, SeqRecord,
    SeqSteps, ActionStates, NotStopped, SeqMoves, Seqs

LEMMA StopsActionDoes ==
  ASSUME TypeOK, NEW s \in Seqs, StopsAction(s)
  PROVE  /\ SeqMoves(s)
         /\ seq[s].pc = "stop_all"
         /\ seq'[s].pc \in {"stop_all", "error", "cleanup"}
         /\ seq'[s].step = seq[s].step
         /\ seq'[s].act = seq[s].act
         /\ seqStatus' \in {seqStatus, "NOTREACHED"}
         /\ UNCHANGED <<stopflag, wasStopped>>
<1>1. seq \in [Seqs -> SeqRecord] /\ usr \in [Users -> UserRecord]
  BY DEF TypeOK, SeqRecord, UserRecord
<1>2. seqStatus \in Statuses /\ left \in [Users -> Nat]
  BY DEF TypeOK
<1>3. seq' \in [Seqs -> SeqRecord]
  <2> PICK a \in Actions : \/ seq' = [seq EXCEPT ![s].told = @ \cup {a}]
                           \/ seq' = [seq EXCEPT ![s].told = @ \cup {a}, ![s].pc = "error"]
                           \/ seq' = [seq EXCEPT ![s].pc = "cleanup"]
    BY DEF StopsAction, Goto
  <2>1. seq[s].told \cup {a} \in SUBSET Actions
    BY <1>1 DEF SeqRecord
  <2> QED
    BY <2>1, <1>1 DEF SeqRecord, SeqSteps
<1> QED
  BY <1>1, <1>2, <1>3, SequencerAssumption DEF StopsAction, HookRaises, shared,
    At, Goto, SeqRecord, ActionStates, NotStopped, SeqMoves, Seqs

LEMMA ActionsStoppedDoes ==
  ASSUME TypeOK, NEW s \in Seqs, ActionsStopped(s)
  PROVE  /\ SeqMoves(s)
         /\ seq[s].pc = "stop_all"
         /\ seq'[s].pc = "last"
         /\ seq'[s].step = seq[s].step
         /\ seq'[s].act = seq[s].act
         /\ seqStatus' = "NOTREACHED"
         /\ UNCHANGED <<stopflag, wasStopped>>
<1>1. seq \in [Seqs -> SeqRecord] /\ usr \in [Users -> UserRecord]
  BY DEF TypeOK, SeqRecord, UserRecord
<1>2. seqStatus \in Statuses /\ left \in [Users -> Nat]
  BY DEF TypeOK
<1>3. seq' \in [Seqs -> SeqRecord]
  BY <1>1, <1>2 DEF ActionsStopped, Goto, SeqRecord, SeqSteps
<1> QED
  BY <1>1, <1>2, <1>3, SequencerAssumption DEF ActionsStopped, shared, Goto, At,
    SeqRecord, ActionStates, NotStopped, SeqMoves, Seqs

LEMMA EndsIdleDoes ==
  ASSUME TypeOK, NEW s \in Seqs, EndsIdle(s)
  PROVE  /\ SeqMoves(s)
         /\ seq[s].pc = "last"
         /\ seq'[s].pc = "cleanup"
         /\ seq'[s].step = seq[s].step
         /\ seq'[s].act = seq[s].act
         /\ seqStatus' = IF stopflag THEN seqStatus ELSE "OK"
         /\ UNCHANGED <<stopflag, wasStopped>>
<1>1. seq \in [Seqs -> SeqRecord] /\ usr \in [Users -> UserRecord]
  BY DEF TypeOK, SeqRecord, UserRecord
<1>2. seqStatus \in Statuses /\ left \in [Users -> Nat]
  BY DEF TypeOK
<1> QED
  BY <1>1, <1>2, SequencerAssumption, ZenonT(40) DEF EndsIdle, shared, Goto, At, SeqRecord,
    SeqSteps, ActionStates, NotStopped, SeqMoves, Seqs

LEMMA FailsDoes ==
  ASSUME TypeOK, NEW s \in Seqs, Fails(s)
  PROVE  /\ SeqMoves(s)
         /\ seq[s].pc = "error"
         /\ seq'[s].pc = "cleanup"
         /\ seq'[s].step = seq[s].step
         /\ seq'[s].act = seq[s].act
         /\ seqStatus' = "ERROR"
         /\ UNCHANGED <<stopflag, wasStopped>>
<1>1. seq \in [Seqs -> SeqRecord] /\ usr \in [Users -> UserRecord]
  BY DEF TypeOK, SeqRecord, UserRecord
<1>2. seqStatus \in Statuses /\ left \in [Users -> Nat]
  BY DEF TypeOK
<1> QED
  BY <1>1, <1>2, SequencerAssumption, ZenonT(40) DEF Fails, shared, Goto, At, SeqRecord,
    SeqSteps, ActionStates, NotStopped, SeqMoves, Seqs

LEMMA CleansUpDoes ==
  ASSUME TypeOK, NEW s \in Seqs, CleansUp(s)
  PROVE  /\ SeqMoves(s)
         /\ seq[s].pc = "cleanup"
         /\ seq'[s].pc = "ending"
         /\ seq'[s].step = seq[s].step
         /\ seq'[s].act = seq[s].act
         /\ stopflag' \in BOOLEAN
         /\ ~ stopflag'
         /\ UNCHANGED <<wasStopped, seqStatus>>
<1>1. seq \in [Seqs -> SeqRecord] /\ usr \in [Users -> UserRecord]
  BY DEF TypeOK, SeqRecord, UserRecord
<1>2. seqStatus \in Statuses /\ left \in [Users -> Nat]
  BY DEF TypeOK
<1> QED
  BY <1>1, <1>2, SequencerAssumption, ZenonT(40) DEF CleansUp, Goto, At, SeqRecord,
    SeqSteps, ActionStates, NotStopped, SeqMoves, Seqs

LEMMA ThreadEndsDoes ==
  ASSUME TypeOK, NEW s \in Seqs, ThreadEnds(s)
  PROVE  /\ SeqMoves(s)
         /\ seq[s].pc = "ending"
         /\ seq'[s].pc = "dead"
         /\ seq'[s].step = seq[s].step
         /\ seq'[s].act = seq[s].act
         /\ UNCHANGED <<stopflag, wasStopped, seqStatus>>
<1>1. seq \in [Seqs -> SeqRecord] /\ usr \in [Users -> UserRecord]
  BY DEF TypeOK, SeqRecord, UserRecord
<1>2. seqStatus \in Statuses /\ left \in [Users -> Nat]
  BY DEF TypeOK
<1> QED
  BY <1>1, <1>2, SequencerAssumption, ZenonT(40) DEF ThreadEnds, shared, Goto, At,
    SeqRecord, SeqSteps, ActionStates, NotStopped, SeqMoves, Seqs

LEMMA CallsDoes ==
  ASSUME TypeOK, NEW u \in Users, Calls(u)
  PROVE  /\ UserMoves(u)
         /\ usr[u].pc = "idle"
         /\ \/ usr'[u].pc = "stop"
            \/ usr'[u].pc \in {"check1", "reset1"} /\ Ops[u] \cap {"maw", "reset"} # {}
         /\ usr'[u].mine = 0
         /\ usr'[u].result = "none"
         /\ usr'[u].st = usr[u].st
         /\ left' \in [Users -> Nat]
         /\ UNCHANGED <<thread, stopflag, wasStopped, seqStatus, seq>>
<1>1. seq \in [Seqs -> SeqRecord] /\ usr \in [Users -> UserRecord]
  BY DEF TypeOK, SeqRecord, UserRecord
<1>2. seqStatus \in Statuses /\ left \in [Users -> Nat]
  BY DEF TypeOK
<1>3. usr' \in [Users -> UserRecord]
  <2> PICK p \in {"check1", "stop", "reset1"} :
            usr' = [usr EXCEPT ![u].pc = p, ![u].mine = 0, ![u].result = "none"]
    BY SequencerAssumption, ZenonT(40) DEF Calls
  <2>1. [usr[u] EXCEPT !.pc = p, !.mine = 0, !.result = "none"] \in UserRecord
    BY <1>1 DEF UserRecord, UserSteps
  <2> QED
    BY <2>1, <1>1
<1>4. \A v \in Users : v # u => usr'[v] = usr[v]
  BY <1>1, <1>2, SequencerAssumption DEF Calls, shared, UserRecord, UserSteps,
    Statuses, Seqs
<1>5. usr[u].pc = "idle"
  BY <1>1, <1>2, SequencerAssumption DEF Calls, shared, UserRecord, UserSteps,
    Statuses, Seqs
<1>6. \/ usr'[u].pc = "stop"
      \/ usr'[u].pc \in {"check1", "reset1"} /\ Ops[u] \cap {"maw", "reset"} # {}
  <2> PICK op \in Ops[u] :
            usr' = [usr EXCEPT ![u].pc = CASE op = "maw" -> "check1"
                                           [] op = "stop" -> "stop"
                                           [] op = "reset" -> "reset1",
                               ![u].mine = 0, ![u].result = "none"]
    BY DEF Calls
  <2>1. op \in {"maw", "stop", "reset"}
    BY SequencerAssumption
  <2>2. CASE op = "stop"
    <3>1. usr' = [usr EXCEPT ![u].pc = "stop", ![u].mine = 0, ![u].result = "none"]
      BY <2>2
    <3>2. usr'[u].pc = "stop"
      BY <3>1, <1>1, ZenonT(40) DEF UserRecord
    <3> QED
      BY <3>2
  <2>3. CASE op = "maw"
    BY <2>3, <1>1 DEF UserRecord
  <2>4. CASE op = "reset"
    BY <2>4, <1>1 DEF UserRecord
  <2> QED
    BY <2>1, <2>2, <2>3, <2>4
<1>7. usr'[u].mine = 0
  BY <1>1, <1>2, SequencerAssumption DEF Calls, shared, UserRecord, UserSteps,
    Statuses, Seqs
<1>8. usr'[u].result = "none"
  BY <1>1, <1>2, SequencerAssumption DEF Calls, shared, UserRecord, UserSteps,
    Statuses, Seqs
<1>9. usr'[u].st = usr[u].st
  BY <1>1, <1>2, SequencerAssumption DEF Calls, shared, UserRecord, UserSteps,
    Statuses, Seqs
<1>10. left' \in [Users -> Nat]
  BY <1>1, <1>2, SequencerAssumption DEF Calls, shared, UserRecord, UserSteps,
    Statuses, Seqs
<1>11. UNCHANGED <<thread, stopflag, wasStopped, seqStatus, seq>>
  BY <1>1, <1>2, SequencerAssumption DEF Calls, shared, UserRecord, UserSteps,
    Statuses, Seqs
<1> QED
  BY <1>3, <1>4, <1>5, <1>6, <1>7, <1>8, <1>9, <1>10, <1>11 DEF UserMoves

LEMMA ChecksDoes ==
  ASSUME TypeOK, NEW u \in Users, Checks(u)
  PROVE  /\ UserMoves(u)
         /\ usr[u].pc \in {"check1", "check2"}
         /\ usr'[u].pc \in {"check2", "busy", "idle"}
         /\ usr'[u].pc = "busy" => ~ Running
         /\ usr'[u].result \in {usr[u].result, "refused"}
         /\ usr'[u].pc = "idle" \/ usr'[u].result = usr[u].result
         /\ usr'[u].st = usr[u].st
         /\ usr'[u].mine = usr[u].mine
         /\ UNCHANGED left
         /\ UNCHANGED <<thread, stopflag, wasStopped, seqStatus, seq>>
<1>1. seq \in [Seqs -> SeqRecord] /\ usr \in [Users -> UserRecord]
  BY DEF TypeOK, SeqRecord, UserRecord
<1>2. seqStatus \in Statuses /\ left \in [Users -> Nat]
  BY DEF TypeOK
<1>3. usr' \in [Users -> UserRecord]
  BY <1>1, <1>2 DEF Checks, Returns, Does, UserRecord, UserSteps
<1> QED
  BY <1>1, <1>2, <1>3, SequencerAssumption DEF Checks, Returns, Does, shared,
    UserRecord, UserMoves, Seqs

LEMMA SetsBusyDoes ==
  ASSUME TypeOK, NEW u \in Users, SetsBusy(u)
  PROVE  /\ UserMoves(u)
         /\ usr[u].pc = "busy"
         /\ usr'[u].pc = "flags"
         /\ usr'[u].st = usr[u].st
         /\ usr'[u].mine = usr[u].mine
         /\ usr'[u].result = usr[u].result
         /\ seqStatus' = "BUSY"
         /\ UNCHANGED left
         /\ UNCHANGED <<thread, stopflag, wasStopped, seq>>
<1>1. seq \in [Seqs -> SeqRecord] /\ usr \in [Users -> UserRecord]
  BY DEF TypeOK, SeqRecord, UserRecord
<1>2. seqStatus \in Statuses /\ left \in [Users -> Nat]
  BY DEF TypeOK
<1> QED
  BY <1>1, <1>2, SequencerAssumption DEF SetsBusy, Does, shared, UserRecord,
    UserSteps, Statuses, UserMoves, Seqs

LEMMA ResetsFlagsDoes ==
  ASSUME TypeOK, NEW u \in Users, ResetsFlags(u)
  PROVE  /\ UserMoves(u)
         /\ usr[u].pc = "flags"
         /\ usr'[u].pc = "create"
         /\ usr'[u].st = usr[u].st
         /\ usr'[u].mine = usr[u].mine
         /\ usr'[u].result = usr[u].result
         /\ stopflag' \in BOOLEAN
         /\ ~ stopflag'
         /\ wasStopped' \in BOOLEAN
         /\ ~ wasStopped'
         /\ UNCHANGED left
         /\ UNCHANGED <<thread, seqStatus, seq>>
<1>1. seq \in [Seqs -> SeqRecord] /\ usr \in [Users -> UserRecord]
  BY DEF TypeOK, SeqRecord, UserRecord
<1>2. seqStatus \in Statuses /\ left \in [Users -> Nat]
  BY DEF TypeOK
<1> QED
  BY <1>1, <1>2, SequencerAssumption DEF ResetsFlags, Does, UserRecord,
    UserSteps, Statuses, UserMoves, Seqs

LEMMA CreatesDoes ==
  ASSUME TypeOK, NEW u \in Users, Creates(u)
  PROVE  /\ UserMoves(u)
         /\ usr[u].pc = "create"
         /\ usr'[u].pc = "assign"
         /\ usr'[u].st = usr[u].st
         /\ usr'[u].result = usr[u].result
         /\ usr'[u].mine \in Seqs
         /\ seq[usr'[u].mine].pc = "none"
         /\ seq'[usr'[u].mine].pc = "loop"
         /\ seq'[usr'[u].mine].step = seq[usr'[u].mine].step
         /\ seq'[usr'[u].mine].act = seq[usr'[u].mine].act
         /\ seq'[usr'[u].mine].stopAt = seq[usr'[u].mine].stopAt
         /\ \A t \in Seqs : t # usr'[u].mine => seq'[t] = seq[t]
         /\ seq' \in [Seqs -> SeqRecord]
         /\ UNCHANGED left
         /\ UNCHANGED <<thread, stopflag, wasStopped, seqStatus>>
<1>1. seq \in [Seqs -> SeqRecord] /\ usr \in [Users -> UserRecord]
  BY DEF TypeOK, SeqRecord, UserRecord
<1>2. seqStatus \in Statuses /\ left \in [Users -> Nat]
  BY DEF TypeOK
<1>3. usr' \in [Users -> UserRecord]
  <2> PICK t \in Seqs : usr' = [usr EXCEPT ![u].pc = "assign", ![u].mine = t]
    BY DEF Creates
  <2>1. [usr[u] EXCEPT !.pc = "assign", !.mine = t] \in UserRecord
    BY <1>1 DEF UserRecord, UserSteps
  <2> QED
    BY <2>1, <1>1
<1>4. \A v \in Users : v # u => usr'[v] = usr[v]
  BY <1>1, <1>2, SequencerAssumption DEF Creates, shared, Goto, At, UserRecord,
    UserSteps, Statuses, SeqRecord, SeqSteps, ActionStates, NotStopped, Seqs
<1>5. usr[u].pc = "create"
  BY <1>1, <1>2, SequencerAssumption DEF Creates, shared, Goto, At, UserRecord,
    UserSteps, Statuses, SeqRecord, SeqSteps, ActionStates, NotStopped, Seqs
<1>6. usr'[u].pc = "assign"
  BY <1>1, <1>2, SequencerAssumption DEF Creates, shared, Goto, At, UserRecord,
    UserSteps, Statuses, SeqRecord, SeqSteps, ActionStates, NotStopped, Seqs
<1>7. usr'[u].st = usr[u].st
  BY <1>1, <1>2, SequencerAssumption DEF Creates, shared, Goto, At, UserRecord,
    UserSteps, Statuses, SeqRecord, SeqSteps, ActionStates, NotStopped, Seqs
<1>8. usr'[u].result = usr[u].result
  BY <1>1, <1>2, SequencerAssumption DEF Creates, shared, Goto, At, UserRecord,
    UserSteps, Statuses, SeqRecord, SeqSteps, ActionStates, NotStopped, Seqs
<1>9. usr'[u].mine \in Seqs
  BY <1>1, <1>2, SequencerAssumption DEF Creates, shared, Goto, At, UserRecord,
    UserSteps, Statuses, SeqRecord, SeqSteps, ActionStates, NotStopped, Seqs
<1>10. seq[usr'[u].mine].pc = "none"
  BY <1>1, <1>2, SequencerAssumption DEF Creates, shared, Goto, At, UserRecord,
    UserSteps, Statuses, SeqRecord, SeqSteps, ActionStates, NotStopped, Seqs
<1>11. seq'[usr'[u].mine].pc = "loop"
  BY <1>1, <1>2, SequencerAssumption DEF Creates, shared, Goto, At, UserRecord,
    UserSteps, Statuses, SeqRecord, SeqSteps, ActionStates, NotStopped, Seqs
<1>12. seq'[usr'[u].mine].step = seq[usr'[u].mine].step
  BY <1>1, <1>2, SequencerAssumption DEF Creates, shared, Goto, At, UserRecord,
    UserSteps, Statuses, SeqRecord, SeqSteps, ActionStates, NotStopped, Seqs
<1>13. seq'[usr'[u].mine].act = seq[usr'[u].mine].act
  BY <1>1, <1>2, SequencerAssumption DEF Creates, shared, Goto, At, UserRecord,
    UserSteps, Statuses, SeqRecord, SeqSteps, ActionStates, NotStopped, Seqs
<1>14. seq'[usr'[u].mine].stopAt = seq[usr'[u].mine].stopAt
  BY <1>1, <1>2, SequencerAssumption DEF Creates, shared, Goto, At, UserRecord,
    UserSteps, Statuses, SeqRecord, SeqSteps, ActionStates, NotStopped, Seqs
<1>15. \A t \in Seqs : t # usr'[u].mine => seq'[t] = seq[t]
  BY <1>1, <1>2, SequencerAssumption DEF Creates, shared, Goto, At, UserRecord,
    UserSteps, Statuses, SeqRecord, SeqSteps, ActionStates, NotStopped, Seqs
<1>16. seq' \in [Seqs -> SeqRecord]
  BY <1>1, <1>2 DEF Creates, Goto, SeqRecord, SeqSteps
<1>17. UNCHANGED left
  BY <1>1, <1>2, SequencerAssumption DEF Creates, shared, Goto, At, UserRecord,
    UserSteps, Statuses, SeqRecord, SeqSteps, ActionStates, NotStopped, Seqs
<1>18. UNCHANGED <<thread, stopflag, wasStopped, seqStatus>>
  BY <1>1, <1>2, SequencerAssumption DEF Creates, shared, Goto, At, UserRecord,
    UserSteps, Statuses, SeqRecord, SeqSteps, ActionStates, NotStopped, Seqs
<1> QED
  BY <1>3, <1>4, <1>5, <1>6, <1>7, <1>8, <1>9, <1>10, <1>11, <1>12, <1>13,
    <1>14, <1>15, <1>16, <1>17, <1>18 DEF UserMoves

LEMMA AssignsDoes ==
  ASSUME TypeOK, NEW u \in Users, Assigns(u)
  PROVE  /\ UserMoves(u)
         /\ usr[u].pc = "assign"
         /\ usr'[u].pc = "status"
         /\ usr'[u].st = usr[u].st
         /\ usr'[u].mine = usr[u].mine
         /\ usr'[u].result = usr[u].result
         /\ thread' = usr[u].mine
         /\ UNCHANGED left
         /\ UNCHANGED <<stopflag, wasStopped, seqStatus, seq>>
<1>1. seq \in [Seqs -> SeqRecord] /\ usr \in [Users -> UserRecord]
  BY DEF TypeOK, SeqRecord, UserRecord
<1>2. seqStatus \in Statuses /\ left \in [Users -> Nat]
  BY DEF TypeOK
<1> QED
  BY <1>1, <1>2, SequencerAssumption DEF Assigns, Does, UserRecord, UserSteps,
    Statuses, UserMoves, Seqs

LEMMA ReadsStatusDoes ==
  ASSUME TypeOK, NEW u \in Users, ReadsStatus(u)
  PROVE  /\ UserMoves(u)
         /\ usr[u].pc = "status"
         /\ usr'[u].pc = "alive"
         /\ usr'[u].st = seqStatus
         /\ usr'[u].mine = usr[u].mine
         /\ usr'[u].result = usr[u].result
         /\ UNCHANGED left
         /\ UNCHANGED <<thread, stopflag, wasStopped, seqStatus, seq>>
<1>1. seq \in [Seqs -> SeqRecord] /\ usr \in [Users -> UserRecord]
  BY DEF TypeOK, SeqRecord, UserRecord
<1>2. seqStatus \in Statuses /\ left \in [Users -> Nat]
  BY DEF TypeOK
<1> QED
  BY <1>1, <1>2, SequencerAssumption DEF ReadsStatus, shared, UserRecord,
    UserSteps, Statuses, UserMoves, Seqs

LEMMA ReadsAliveDoes ==
  ASSUME TypeOK, NEW u \in Users, ReadsAlive(u)
  PROVE  /\ UserMoves(u)
         /\ usr[u].pc = "alive"
         /\ \/ usr'[u].pc = "idle" /\ usr'[u].result = "failed"
            \/ usr'[u].pc = "status" /\ usr'[u].result = usr[u].result
            \/ /\ usr'[u].pc = "finish" /\ usr'[u].result = usr[u].result
               /\ usr[u].st = "OK" /\ ~ Running
         /\ usr'[u].st = usr[u].st
         /\ usr'[u].mine = usr[u].mine
         /\ UNCHANGED left
         /\ UNCHANGED <<thread, stopflag, wasStopped, seqStatus, seq>>
<1>1. seq \in [Seqs -> SeqRecord] /\ usr \in [Users -> UserRecord]
  BY DEF TypeOK, SeqRecord, UserRecord
<1>2. seqStatus \in Statuses /\ left \in [Users -> Nat]
  BY DEF TypeOK
<1>3. usr' \in [Users -> UserRecord]
  BY <1>1, <1>2 DEF ReadsAlive, Returns, Does, UserRecord, UserSteps
<1>4. \A v \in Users : v # u => usr'[v] = usr[v]
  BY <1>1, <1>2, SequencerAssumption DEF ReadsAlive, Returns, Does, shared,
    UserRecord, UserSteps, Statuses, Seqs
<1>5. usr[u].pc = "alive"
  BY <1>1, <1>2, SequencerAssumption DEF ReadsAlive, Returns, Does, shared,
    UserRecord, UserSteps, Statuses, Seqs
<1>6. \/ usr'[u].pc = "idle" /\ usr'[u].result = "failed"
      \/ usr'[u].pc = "status" /\ usr'[u].result = usr[u].result
      \/ /\ usr'[u].pc = "finish" /\ usr'[u].result = usr[u].result
         /\ usr[u].st = "OK" /\ ~ Running
  BY <1>1, <1>2, SequencerAssumption DEF ReadsAlive, Returns, Does, shared,
    UserRecord, UserSteps, Statuses, Seqs
<1>7. usr'[u].st = usr[u].st
  BY <1>1, <1>2, SequencerAssumption DEF ReadsAlive, Returns, Does, shared,
    UserRecord, UserSteps, Statuses, Seqs
<1>8. usr'[u].mine = usr[u].mine
  BY <1>1, <1>2, SequencerAssumption DEF ReadsAlive, Returns, Does, shared,
    UserRecord, UserSteps, Statuses, Seqs
<1>9. UNCHANGED left
  BY <1>1, <1>2, SequencerAssumption DEF ReadsAlive, Returns, Does, shared,
    UserRecord, UserSteps, Statuses, Seqs
<1>10. UNCHANGED <<thread, stopflag, wasStopped, seqStatus, seq>>
  BY <1>1, <1>2, SequencerAssumption DEF ReadsAlive, Returns, Does, shared,
    UserRecord, UserSteps, Statuses, Seqs
<1> QED
  BY <1>3, <1>4, <1>5, <1>6, <1>7, <1>8, <1>9, <1>10 DEF UserMoves

LEMMA FinishesDoes ==
  ASSUME TypeOK, NEW u \in Users, Finishes(u)
  PROVE  /\ UserMoves(u)
         /\ usr[u].pc = "finish"
         /\ usr'[u].pc = "idle"
         /\ usr'[u].st = usr[u].st
         /\ usr'[u].mine = usr[u].mine
         /\ usr'[u].result \in {"stopped", "ok"}
         /\ UNCHANGED left
         /\ UNCHANGED <<thread, stopflag, wasStopped, seqStatus, seq>>
<1>1. seq \in [Seqs -> SeqRecord] /\ usr \in [Users -> UserRecord]
  BY DEF TypeOK, SeqRecord, UserRecord
<1>2. seqStatus \in Statuses /\ left \in [Users -> Nat]
  BY DEF TypeOK
<1> QED
  BY <1>1, <1>2, SequencerAssumption, ZenonT(40) DEF Finishes, Returns, shared, UserRecord,
    UserSteps, Statuses, UserMoves, Seqs

LEMMA StopsDoes ==
  ASSUME TypeOK, NEW u \in Users, Stops(u)
  PROVE  /\ UserMoves(u)
         /\ usr[u].pc = "stop"
         /\ usr'[u].pc = "idle"
         /\ usr'[u].st = usr[u].st
         /\ usr'[u].mine = usr[u].mine
         /\ usr'[u].result = "ok"
         /\ stopflag' \in BOOLEAN
         /\ stopflag => stopflag'
         /\ seq' \in [Seqs -> SeqRecord]
         /\ \A s \in Seqs : /\ seq'[s].pc = seq[s].pc /\ seq'[s].step = seq[s].step
                            /\ seq'[s].act = seq[s].act
                            /\ \/ seq'[s].stopAt = seq[s].stopAt
                               \/ Alive(s) /\ seq'[s].stopAt = seq[s].step /\ stopflag'
         /\ UNCHANGED left
         /\ UNCHANGED <<thread, wasStopped, seqStatus>>
<1>1. seq \in [Seqs -> SeqRecord] /\ usr \in [Users -> UserRecord]
  BY DEF TypeOK, SeqRecord, UserRecord
<1>2. seqStatus \in Statuses /\ left \in [Users -> Nat]
  BY DEF TypeOK
<1>3. usr' \in [Users -> UserRecord]
  <2>1. usr' = [usr EXCEPT ![u].pc = "idle", ![u].result = "ok"]
    BY DEF Stops, Returns
  <2>2. [usr[u] EXCEPT !.pc = "idle", !.result = "ok"] \in UserRecord
    BY ONLY <1>1, u \in Users DEF UserRecord, UserSteps
  <2> QED
    BY <2>1, <2>2, <1>1
<1>4. \A v \in Users : v # u => usr'[v] = usr[v]
  BY <1>1, <1>2, SequencerAssumption DEF Stops, Returns, Alive, UserRecord,
    UserSteps, Statuses, SeqRecord, SeqSteps, ActionStates, NotStopped, Seqs
<1>5. usr[u].pc = "stop"
  BY <1>1, <1>2, SequencerAssumption DEF Stops, Returns, Alive, UserRecord,
    UserSteps, Statuses, SeqRecord, SeqSteps, ActionStates, NotStopped, Seqs
<1>6. usr'[u].pc = "idle"
  BY <1>1, <1>2, SequencerAssumption DEF Stops, Returns, Alive, UserRecord,
    UserSteps, Statuses, SeqRecord, SeqSteps, ActionStates, NotStopped, Seqs
<1>7. usr'[u].st = usr[u].st
  BY <1>1, <1>2, SequencerAssumption DEF Stops, Returns, Alive, UserRecord,
    UserSteps, Statuses, SeqRecord, SeqSteps, ActionStates, NotStopped, Seqs
<1>8. usr'[u].mine = usr[u].mine
  BY <1>1, <1>2, SequencerAssumption DEF Stops, Returns, Alive, UserRecord,
    UserSteps, Statuses, SeqRecord, SeqSteps, ActionStates, NotStopped, Seqs
<1>9. usr'[u].result = "ok"
  BY <1>1, <1>2, SequencerAssumption DEF Stops, Returns, Alive, UserRecord,
    UserSteps, Statuses, SeqRecord, SeqSteps, ActionStates, NotStopped, Seqs
<1>10. stopflag' \in BOOLEAN
  BY <1>1, <1>2, SequencerAssumption DEF Stops, Returns, Alive, UserRecord,
    UserSteps, Statuses, SeqRecord, SeqSteps, ActionStates, NotStopped, Seqs
<1>11. stopflag => stopflag'
  BY <1>1, <1>2, SequencerAssumption DEF Stops, Returns, Alive, UserRecord,
    UserSteps, Statuses, SeqRecord, SeqSteps, ActionStates, NotStopped, Seqs
<1>12. seq' \in [Seqs -> SeqRecord]
  <2>1. ASSUME NEW t \in Seqs
        PROVE  (IF HonorStop /\ Alive(t) /\ seq[t].stopAt = NotStopped
                THEN [seq[t] EXCEPT !.stopAt = seq[t].step] ELSE seq[t]) \in SeqRecord
    BY <1>1, SequencerAssumption DEF SeqRecord, NotStopped
  <2> QED
    BY <2>1 DEF Stops
<1>13. \A s \in Seqs : /\ seq'[s].pc = seq[s].pc /\ seq'[s].step = seq[s].step
                       /\ seq'[s].act = seq[s].act
                       /\ \/ seq'[s].stopAt = seq[s].stopAt
                          \/ Alive(s) /\ seq'[s].stopAt = seq[s].step /\ stopflag'
  BY <1>1, <1>2, SequencerAssumption DEF Stops, Returns, Alive, UserRecord,
    UserSteps, Statuses, SeqRecord, SeqSteps, ActionStates, NotStopped, Seqs
<1>14. UNCHANGED left
  BY <1>1, <1>2, SequencerAssumption DEF Stops, Returns, Alive, UserRecord,
    UserSteps, Statuses, SeqRecord, SeqSteps, ActionStates, NotStopped, Seqs
<1>15. UNCHANGED <<thread, wasStopped, seqStatus>>
  BY <1>1, <1>2, SequencerAssumption DEF Stops, Returns, Alive, UserRecord,
    UserSteps, Statuses, SeqRecord, SeqSteps, ActionStates, NotStopped, Seqs
<1> QED
  BY <1>3, <1>4, <1>5, <1>6, <1>7, <1>8, <1>9, <1>10, <1>11, <1>12, <1>13,
    <1>14, <1>15 DEF UserMoves

LEMMA ResetChecksDoes ==
  ASSUME TypeOK, NEW u \in Users, ResetChecks(u)
  PROVE  /\ UserMoves(u)
         /\ usr[u].pc = "reset1"
         /\ usr'[u].pc \in {"reset2", "idle"}
         /\ usr'[u].pc = "reset2" => ~ Running
         /\ usr'[u].result \in {usr[u].result, "refused"}
         /\ usr'[u].pc = "idle" \/ usr'[u].result = usr[u].result
         /\ usr'[u].st = usr[u].st
         /\ usr'[u].mine = usr[u].mine
         /\ UNCHANGED left
         /\ UNCHANGED <<thread, stopflag, wasStopped, seqStatus, seq>>
<1>1. seq \in [Seqs -> SeqRecord] /\ usr \in [Users -> UserRecord]
  BY DEF TypeOK, SeqRecord, UserRecord
<1>2. seqStatus \in Statuses /\ left \in [Users -> Nat]
  BY DEF TypeOK
<1>3. usr' \in [Users -> UserRecord]
  BY <1>1, <1>2 DEF ResetChecks, Returns, Does, UserRecord, UserSteps
<1> QED
  BY <1>1, <1>2, <1>3, SequencerAssumption DEF ResetChecks, Returns, Does,
    shared, UserRecord, UserMoves, Seqs

LEMMA ResetsStoppedDoes ==
  ASSUME TypeOK, NEW u \in Users, ResetsStopped(u)
  PROVE  /\ UserMoves(u)
         /\ usr[u].pc = "reset2"
         /\ usr'[u].pc = "reset3"
         /\ usr'[u].st = usr[u].st
         /\ usr'[u].mine = usr[u].mine
         /\ usr'[u].result = usr[u].result
         /\ wasStopped' \in BOOLEAN
         /\ ~ wasStopped'
         /\ UNCHANGED left
         /\ UNCHANGED <<thread, stopflag, seqStatus, seq>>
<1>1. seq \in [Seqs -> SeqRecord] /\ usr \in [Users -> UserRecord]
  BY DEF TypeOK, SeqRecord, UserRecord
<1>2. seqStatus \in Statuses /\ left \in [Users -> Nat]
  BY DEF TypeOK
<1> QED
  BY <1>1, <1>2, SequencerAssumption DEF ResetsStopped, Does, UserRecord,
    UserSteps, Statuses, UserMoves, Seqs

LEMMA ResetsStatusDoes ==
  ASSUME TypeOK, NEW u \in Users, ResetsStatus(u)
  PROVE  /\ UserMoves(u)
         /\ usr[u].pc = "reset3"
         /\ usr'[u].pc = "idle"
         /\ usr'[u].st = usr[u].st
         /\ usr'[u].mine = usr[u].mine
         /\ usr'[u].result = "ok"
         /\ seqStatus' = "OK"
         /\ UNCHANGED left
         /\ UNCHANGED <<thread, stopflag, wasStopped, seq>>
<1>1. seq \in [Seqs -> SeqRecord] /\ usr \in [Users -> UserRecord]
  BY DEF TypeOK, SeqRecord, UserRecord
<1>2. seqStatus \in Statuses /\ left \in [Users -> Nat]
  BY DEF TypeOK
<1> QED
  BY <1>1, <1>2, SequencerAssumption, ZenonT(40) DEF ResetsStatus, Returns, shared,
    UserRecord, UserSteps, Statuses, UserMoves, Seqs

--------------------------------------------------------------------------------
(***************************************************************************)
(* Every step preserves the types.                                         *)
(***************************************************************************)
Typed ==
    /\ thread \in Seqs \cup {0} /\ stopflag \in BOOLEAN /\ wasStopped \in BOOLEAN
    /\ seqStatus \in Statuses /\ left \in [Users -> Nat]
    /\ seq \in [Seqs -> SeqRecord] /\ usr \in [Users -> UserRecord]

LEMMA FieldsTyped ==
  TypeOK => /\ 0 \notin Seqs /\ NotStopped \in Nat
            /\ \A s \in Seqs : /\ seq[s].step \in Nat /\ seq[s].step <= NSteps
                               /\ seq[s].stopAt \in Nat
                               /\ \A a \in Actions : seq[s].act[a] \in {"new", "running", "done"}
            /\ stopflag \in BOOLEAN
<1> SUFFICES ASSUME TypeOK PROVE FieldsTyped!2
  OBVIOUS
<1>1. seq \in [Seqs -> SeqRecord]
  BY DEF TypeOK, SeqRecord
<1>2. 0 \notin Seqs /\ NotStopped \in Nat
  BY SequencerAssumption DEF Seqs, NotStopped
<1>3. \A s \in Seqs : /\ seq[s].step \in Nat /\ seq[s].step <= NSteps
                      /\ seq[s].stopAt \in Nat
  BY <1>1, SequencerAssumption DEF SeqRecord, NotStopped
<1>4. \A s \in Seqs : \A a \in Actions : seq[s].act[a] \in {"new", "running", "done"}
  BY <1>1 DEF SeqRecord, ActionStates
<1>5. stopflag \in BOOLEAN
  BY DEF TypeOK
<1> QED
  BY <1>2, <1>3, <1>4, <1>5

LEMMA TypedIsType == TypeOK <=> Typed
  BY DEF TypeOK, Typed, SeqRecord, UserRecord

LEMMA TypedIsPrimed == TypeOK' <=> Typed'
  BY DEF TypeOK, Typed, SeqRecord, UserRecord, Seqs, NotStopped, Statuses,
         SeqSteps, UserSteps, ActionStates

LEMMA TypeStep ==
  TypeOK /\ [Next]_vars => TypeOK'
<1> SUFFICES ASSUME TypeOK, [Next]_vars PROVE Typed'
  BY TypedIsType, TypedIsPrimed
<1>0. Typed
  BY TypedIsType
<1> USE DEF Typed, Statuses
<1>1. ASSUME NEW s \in Seqs, SeqStep(s) PROVE Typed'
  <2>1. CASE StepBegins(s)
    BY <1>0, <2>1, StepBeginsDoes DEF SeqMoves
  <2>2. CASE StepsEnd(s)
    BY <1>0, <2>2, StepsEndDoes DEF SeqMoves
  <2>3. CASE ActionRuns(s)
    BY <1>0, <2>3, ActionRunsDoes DEF SeqMoves
  <2>4. CASE Polls(s)
    BY <1>0, <2>4, PollsDoes DEF SeqMoves
  <2>5. CASE ReadsFlag(s)
    BY <1>0, <2>5, ReadsFlagDoes DEF SeqMoves
  <2>6. CASE StopsWaiter(s)
    BY <1>0, <2>6, StopsWaiterDoes DEF SeqMoves
  <2>7. CASE WaitersStopped(s)
    BY <1>0, <2>7, WaitersStoppedDoes DEF SeqMoves
  <2>8. CASE ChecksFlag(s)
    BY <1>0, <2>8, ChecksFlagDoes DEF SeqMoves
  <2>9. CASE StopsAction(s)
    BY <1>0, <2>9, StopsActionDoes DEF SeqMoves
  <2>10. CASE ActionsStopped(s)
    BY <1>0, <2>10, ActionsStoppedDoes DEF SeqMoves
  <2>11. CASE EndsIdle(s)
    BY <1>0, <2>11, EndsIdleDoes DEF SeqMoves
  <2>12. CASE Fails(s)
    BY <1>0, <2>12, FailsDoes DEF SeqMoves
  <2>13. CASE CleansUp(s)
    BY <1>0, <2>13, CleansUpDoes DEF SeqMoves
  <2>14. CASE ThreadEnds(s)
    BY <1>0, <2>14, ThreadEndsDoes DEF SeqMoves
  <2> QED
    BY <1>1, <2>1, <2>2, <2>3, <2>4, <2>5, <2>6, <2>7, <2>8, <2>9, <2>10, <2>11,
      <2>12, <2>13, <2>14 DEF SeqStep
<1>2. ASSUME NEW u \in Users, Calls(u) \/ UserStep(u) PROVE Typed'
  <2>1. CASE Calls(u)
    BY <1>0, <2>1, CallsDoes DEF UserMoves
  <2>2. CASE Checks(u)
    BY <1>0, <2>2, ChecksDoes DEF UserMoves, Running
  <2>3. CASE SetsBusy(u)
    BY <1>0, <2>3, SetsBusyDoes DEF UserMoves
  <2>4. CASE ResetsFlags(u)
    BY <1>0, <2>4, ResetsFlagsDoes DEF UserMoves
  <2>5. CASE Creates(u)
    BY <1>0, <2>5, CreatesDoes DEF UserMoves
  <2>6. CASE Assigns(u)
    BY <1>0, <2>6, AssignsDoes DEF UserMoves, UserRecord
  <2>7. CASE ReadsStatus(u)
    BY <1>0, <2>7, ReadsStatusDoes DEF UserMoves
  <2>8. CASE ReadsAlive(u)
    BY <1>0, <2>8, ReadsAliveDoes DEF UserMoves, Running
  <2>9. CASE Finishes(u)
    BY <1>0, <2>9, FinishesDoes DEF UserMoves
  <2>10. CASE Stops(u)
    BY <1>0, <2>10, StopsDoes DEF UserMoves
  <2>11. CASE ResetChecks(u)
    BY <1>0, <2>11, ResetChecksDoes DEF UserMoves, Running
  <2>12. CASE ResetsStopped(u)
    BY <1>0, <2>12, ResetsStoppedDoes DEF UserMoves
  <2>13. CASE ResetsStatus(u)
    BY <1>0, <2>13, ResetsStatusDoes DEF UserMoves
  <2> QED
    BY <1>2, <2>1, <2>2, <2>3, <2>4, <2>5, <2>6, <2>7, <2>8, <2>9, <2>10, <2>11,
      <2>12, <2>13 DEF UserStep
<1>3. ASSUME UNCHANGED vars PROVE Typed'
  BY <1>0, <1>3 DEF vars
<1> QED
  BY <1>1, <1>2, <1>3 DEF Next

(***************************************************************************)
(* Every step preserves what the driver does, and that nobody else does    *)
(* it.                                                                     *)
(***************************************************************************)
LEMMA DrivingStep ==
  TypeOK /\ Driving /\ [Next]_vars => Driving'
<1> SUFFICES ASSUME TypeOK, Driving, [Next]_vars PROVE Driving'
  OBVIOUS
<1> USE DEF Driving
<1>1. ASSUME NEW s \in Seqs, SeqStep(s) PROVE Driving'
  <2>1. CASE StepBegins(s)
    BY <2>1, StepBeginsDoes, FieldsTyped DEF SeqMoves
  <2>2. CASE StepsEnd(s)
    BY <2>2, StepsEndDoes, FieldsTyped DEF SeqMoves
  <2>3. CASE ActionRuns(s)
    BY <2>3, ActionRunsDoes, FieldsTyped DEF SeqMoves
  <2>4. CASE Polls(s)
    BY <2>4, PollsDoes, FieldsTyped DEF SeqMoves
  <2>5. CASE ReadsFlag(s)
    BY <2>5, ReadsFlagDoes, FieldsTyped DEF SeqMoves
  <2>6. CASE StopsWaiter(s)
    BY <2>6, StopsWaiterDoes, FieldsTyped DEF SeqMoves
  <2>7. CASE WaitersStopped(s)
    BY <2>7, WaitersStoppedDoes, FieldsTyped DEF SeqMoves
  <2>8. CASE ChecksFlag(s)
    BY <2>8, ChecksFlagDoes, FieldsTyped DEF SeqMoves
  <2>9. CASE StopsAction(s)
    BY <2>9, StopsActionDoes, FieldsTyped DEF SeqMoves
  <2>10. CASE ActionsStopped(s)
    BY <2>10, ActionsStoppedDoes, FieldsTyped DEF SeqMoves
  <2>11. CASE EndsIdle(s)
    BY <2>11, EndsIdleDoes, FieldsTyped DEF SeqMoves
  <2>12. CASE Fails(s)
    BY <2>12, FailsDoes, FieldsTyped DEF SeqMoves
  <2>13. CASE CleansUp(s)
    BY <2>13, CleansUpDoes, FieldsTyped DEF SeqMoves
  <2>14. CASE ThreadEnds(s)
    BY <2>14, ThreadEndsDoes, FieldsTyped DEF SeqMoves
  <2> QED
    BY <1>1, <2>1, <2>2, <2>3, <2>4, <2>5, <2>6, <2>7, <2>8, <2>9, <2>10, <2>11,
      <2>12, <2>13, <2>14 DEF SeqStep
<1>2. ASSUME NEW u \in Users, Calls(u) \/ UserStep(u) PROVE Driving'
  <2>1. CASE Calls(u)
    BY <2>1, CallsDoes, FieldsTyped DEF UserMoves
  <2>2. CASE Checks(u)
    BY <2>2, ChecksDoes, FieldsTyped DEF UserMoves, Running
  <2>3. CASE SetsBusy(u)
    BY <2>3, SetsBusyDoes, FieldsTyped DEF UserMoves
  <2>4. CASE ResetsFlags(u)
    BY <2>4, ResetsFlagsDoes, FieldsTyped DEF UserMoves
  <2>5. CASE Creates(u)
    BY <2>5, CreatesDoes, FieldsTyped DEF UserMoves
  <2>6. CASE Assigns(u)
    BY <2>6, AssignsDoes, FieldsTyped DEF UserMoves
  <2>7. CASE ReadsStatus(u)
    BY <2>7, ReadsStatusDoes, FieldsTyped DEF UserMoves
  <2>8. CASE ReadsAlive(u)
    BY <2>8, ReadsAliveDoes, FieldsTyped DEF UserMoves, Running
  <2>9. CASE Finishes(u)
    BY <2>9, FinishesDoes, FieldsTyped DEF UserMoves
  <2>10. CASE Stops(u)
    BY <2>10, StopsDoes, FieldsTyped DEF UserMoves
  <2>11. CASE ResetChecks(u)
    BY <2>11, ResetChecksDoes, FieldsTyped DEF UserMoves, Running
  <2>12. CASE ResetsStopped(u)
    BY <2>12, ResetsStoppedDoes, FieldsTyped DEF UserMoves
  <2>13. CASE ResetsStatus(u)
    BY <2>13, ResetsStatusDoes, FieldsTyped DEF UserMoves
  <2> QED
    BY <1>2, <2>1, <2>2, <2>3, <2>4, <2>5, <2>6, <2>7, <2>8, <2>9, <2>10, <2>11,
      <2>12, <2>13 DEF UserStep
<1>3. ASSUME UNCHANGED vars PROVE Driving'
  BY <1>3 DEF vars
<1> QED
  BY <1>1, <1>2, <1>3 DEF Next

(***************************************************************************)
(* A sequence is started only when none is alive.                          *)
(***************************************************************************)
LEMMA ExclusiveStep ==
  ASSUME OneDriver
  PROVE  TypeOK /\ Driving /\ Exclusive /\ [Next]_vars => Exclusive'
<1> SUFFICES ASSUME TypeOK, Driving, Exclusive, [Next]_vars PROVE Exclusive'
  OBVIOUS
<1> USE DEF Driving, Exclusive, NoneAlive, Alive, OneDriver
<1>1. ASSUME NEW s \in Seqs, SeqStep(s) PROVE Exclusive'
  <2>1. CASE StepBegins(s)
    BY <2>1, StepBeginsDoes, FieldsTyped DEF SeqMoves
  <2>2. CASE StepsEnd(s)
    BY <2>2, StepsEndDoes, FieldsTyped DEF SeqMoves
  <2>3. CASE ActionRuns(s)
    BY <2>3, ActionRunsDoes, FieldsTyped DEF SeqMoves
  <2>4. CASE Polls(s)
    BY <2>4, PollsDoes, FieldsTyped DEF SeqMoves
  <2>5. CASE ReadsFlag(s)
    BY <2>5, ReadsFlagDoes, FieldsTyped DEF SeqMoves
  <2>6. CASE StopsWaiter(s)
    BY <2>6, StopsWaiterDoes, FieldsTyped DEF SeqMoves
  <2>7. CASE WaitersStopped(s)
    BY <2>7, WaitersStoppedDoes, FieldsTyped DEF SeqMoves
  <2>8. CASE ChecksFlag(s)
    BY <2>8, ChecksFlagDoes, FieldsTyped DEF SeqMoves
  <2>9. CASE StopsAction(s)
    BY <2>9, StopsActionDoes, FieldsTyped DEF SeqMoves
  <2>10. CASE ActionsStopped(s)
    BY <2>10, ActionsStoppedDoes, FieldsTyped DEF SeqMoves
  <2>11. CASE EndsIdle(s)
    BY <2>11, EndsIdleDoes, FieldsTyped DEF SeqMoves
  <2>12. CASE Fails(s)
    BY <2>12, FailsDoes, FieldsTyped DEF SeqMoves
  <2>13. CASE CleansUp(s)
    BY <2>13, CleansUpDoes, FieldsTyped DEF SeqMoves
  <2>14. CASE ThreadEnds(s)
    BY <2>14, ThreadEndsDoes, FieldsTyped DEF SeqMoves
  <2> QED
    BY <1>1, <2>1, <2>2, <2>3, <2>4, <2>5, <2>6, <2>7, <2>8, <2>9, <2>10, <2>11,
      <2>12, <2>13, <2>14 DEF SeqStep
<1>2. ASSUME NEW u \in Users, Calls(u) \/ UserStep(u) PROVE Exclusive'
  <2>1. CASE Calls(u)
    BY <2>1, CallsDoes, FieldsTyped DEF UserMoves
  <2>2. CASE Checks(u)
    BY <2>2, ChecksDoes, FieldsTyped DEF UserMoves, Running
  <2>3. CASE SetsBusy(u)
    BY <2>3, SetsBusyDoes, FieldsTyped DEF UserMoves
  <2>4. CASE ResetsFlags(u)
    BY <2>4, ResetsFlagsDoes, FieldsTyped DEF UserMoves
  <2>5. CASE Creates(u)
    BY <2>5, CreatesDoes, FieldsTyped DEF UserMoves
  <2>6. CASE Assigns(u)
    BY <2>6, AssignsDoes, FieldsTyped DEF UserMoves
  <2>7. CASE ReadsStatus(u)
    BY <2>7, ReadsStatusDoes, FieldsTyped DEF UserMoves
  <2>8. CASE ReadsAlive(u)
    BY <2>8, ReadsAliveDoes, FieldsTyped DEF UserMoves, Running
  <2>9. CASE Finishes(u)
    BY <2>9, FinishesDoes, FieldsTyped DEF UserMoves
  <2>10. CASE Stops(u)
    BY <2>10, StopsDoes, FieldsTyped DEF UserMoves
  <2>11. CASE ResetChecks(u)
    BY <2>11, ResetChecksDoes, FieldsTyped DEF UserMoves, Running
  <2>12. CASE ResetsStopped(u)
    BY <2>12, ResetsStoppedDoes, FieldsTyped DEF UserMoves
  <2>13. CASE ResetsStatus(u)
    BY <2>13, ResetsStatusDoes, FieldsTyped DEF UserMoves
  <2> QED
    BY <1>2, <2>1, <2>2, <2>3, <2>4, <2>5, <2>6, <2>7, <2>8, <2>9, <2>10, <2>11,
      <2>12, <2>13 DEF UserStep
<1>3. ASSUME UNCHANGED vars PROVE Exclusive'
  BY <1>3 DEF vars
<1> QED
  BY <1>1, <1>2, <1>3 DEF Next

(***************************************************************************)
(* Only one sequence is alive.                                             *)
(***************************************************************************)
LEMMA OnlyOne ==
  ASSUME OneDriver, TypeOK, Driving, Exclusive
  PROVE  OneSequence
  BY DEF TypeOK, Driving, Exclusive, OneDriver, OneSequence

(***************************************************************************)
(* The flag of a stop is not reset before the sequence ends.               *)
(***************************************************************************)
LEMMA StopKeptStep ==
  TypeOK /\ Driving /\ Exclusive /\ OneSequence /\ StopKept /\ Progress /\
    [Next]_vars => StopKept'
<1> SUFFICES ASSUME TypeOK, Driving, Exclusive, OneSequence, StopKept, Progress,
             [Next]_vars PROVE StopKept'
  OBVIOUS
<1> USE DEF Exclusive, NoneAlive, OneSequence, Alive, StopKept, Progress,
     NotStopped
<1>1. ASSUME NEW s \in Seqs, SeqStep(s) PROVE StopKept'
  <2>1. CASE StepBegins(s)
    BY <2>1, StepBeginsDoes, FieldsTyped DEF SeqMoves
  <2>2. CASE StepsEnd(s)
    BY <2>2, StepsEndDoes, FieldsTyped DEF SeqMoves
  <2>3. CASE ActionRuns(s)
    BY <2>3, ActionRunsDoes, FieldsTyped DEF SeqMoves
  <2>4. CASE Polls(s)
    BY <2>4, PollsDoes, FieldsTyped DEF SeqMoves
  <2>5. CASE ReadsFlag(s)
    BY <2>5, ReadsFlagDoes, FieldsTyped DEF SeqMoves
  <2>6. CASE StopsWaiter(s)
    BY <2>6, StopsWaiterDoes, FieldsTyped DEF SeqMoves
  <2>7. CASE WaitersStopped(s)
    BY <2>7, WaitersStoppedDoes, FieldsTyped DEF SeqMoves
  <2>8. CASE ChecksFlag(s)
    BY <2>8, ChecksFlagDoes, FieldsTyped DEF SeqMoves
  <2>9. CASE StopsAction(s)
    BY <2>9, StopsActionDoes, FieldsTyped DEF SeqMoves
  <2>10. CASE ActionsStopped(s)
    BY <2>10, ActionsStoppedDoes, FieldsTyped DEF SeqMoves
  <2>11. CASE EndsIdle(s)
    BY <2>11, EndsIdleDoes, FieldsTyped DEF SeqMoves
  <2>12. CASE Fails(s)
    BY <2>12, FailsDoes, FieldsTyped DEF SeqMoves
  <2>13. CASE CleansUp(s)
    BY <2>13, CleansUpDoes, FieldsTyped DEF SeqMoves
  <2>14. CASE ThreadEnds(s)
    BY <2>14, ThreadEndsDoes, FieldsTyped DEF SeqMoves
  <2> QED
    BY <1>1, <2>1, <2>2, <2>3, <2>4, <2>5, <2>6, <2>7, <2>8, <2>9, <2>10, <2>11,
      <2>12, <2>13, <2>14 DEF SeqStep
<1>2. ASSUME NEW u \in Users, Calls(u) \/ UserStep(u) PROVE StopKept'
  <2>1. CASE Calls(u)
    BY <2>1, CallsDoes, FieldsTyped DEF UserMoves
  <2>2. CASE Checks(u)
    BY <2>2, ChecksDoes, FieldsTyped DEF UserMoves, Running
  <2>3. CASE SetsBusy(u)
    BY <2>3, SetsBusyDoes, FieldsTyped DEF UserMoves
  <2>4. CASE ResetsFlags(u)
    BY <2>4, ResetsFlagsDoes, FieldsTyped DEF UserMoves
  <2>5. CASE Creates(u)
    BY <2>5, CreatesDoes, FieldsTyped DEF UserMoves
  <2>6. CASE Assigns(u)
    BY <2>6, AssignsDoes, FieldsTyped DEF UserMoves
  <2>7. CASE ReadsStatus(u)
    BY <2>7, ReadsStatusDoes, FieldsTyped DEF UserMoves
  <2>8. CASE ReadsAlive(u)
    BY <2>8, ReadsAliveDoes, FieldsTyped DEF UserMoves, Running
  <2>9. CASE Finishes(u)
    BY <2>9, FinishesDoes, FieldsTyped DEF UserMoves
  <2>10. CASE Stops(u)
    BY <2>10, StopsDoes, FieldsTyped DEF UserMoves
  <2>11. CASE ResetChecks(u)
    BY <2>11, ResetChecksDoes, FieldsTyped DEF UserMoves, Running
  <2>12. CASE ResetsStopped(u)
    BY <2>12, ResetsStoppedDoes, FieldsTyped DEF UserMoves
  <2>13. CASE ResetsStatus(u)
    BY <2>13, ResetsStatusDoes, FieldsTyped DEF UserMoves
  <2> QED
    BY <1>2, <2>1, <2>2, <2>3, <2>4, <2>5, <2>6, <2>7, <2>8, <2>9, <2>10, <2>11,
      <2>12, <2>13 DEF UserStep
<1>3. ASSUME UNCHANGED vars PROVE StopKept'
  BY <1>3 DEF vars
<1> QED
  BY <1>1, <1>2, <1>3 DEF Next

(***************************************************************************)
(* A sequence goes on to its next step when all actions are done.          *)
(***************************************************************************)
LEMMA ProgressStep ==
  TypeOK /\ Exclusive /\ OneSequence /\ Progress /\ [Next]_vars => Progress'
<1> SUFFICES ASSUME TypeOK, Exclusive, OneSequence, Progress, [Next]_vars PROVE
             Progress'
  OBVIOUS
<1> USE DEF Exclusive, NoneAlive, OneSequence, Alive, Progress, AllDone
<1>1. ASSUME NEW s \in Seqs, SeqStep(s) PROVE Progress'
  <2>1. CASE StepBegins(s)
    BY <2>1, StepBeginsDoes, FieldsTyped DEF SeqMoves
  <2>2. CASE StepsEnd(s)
    BY <2>2, StepsEndDoes, FieldsTyped DEF SeqMoves
  <2>3. CASE ActionRuns(s)
    BY <2>3, ActionRunsDoes, FieldsTyped DEF SeqMoves
  <2>4. CASE Polls(s)
    BY <2>4, PollsDoes, FieldsTyped DEF SeqMoves
  <2>5. CASE ReadsFlag(s)
    BY <2>5, ReadsFlagDoes, FieldsTyped DEF SeqMoves
  <2>6. CASE StopsWaiter(s)
    BY <2>6, StopsWaiterDoes, FieldsTyped DEF SeqMoves
  <2>7. CASE WaitersStopped(s)
    BY <2>7, WaitersStoppedDoes, FieldsTyped DEF SeqMoves
  <2>8. CASE ChecksFlag(s)
    BY <2>8, ChecksFlagDoes, FieldsTyped DEF SeqMoves
  <2>9. CASE StopsAction(s)
    BY <2>9, StopsActionDoes, FieldsTyped DEF SeqMoves
  <2>10. CASE ActionsStopped(s)
    BY <2>10, ActionsStoppedDoes, FieldsTyped DEF SeqMoves
  <2>11. CASE EndsIdle(s)
    BY <2>11, EndsIdleDoes, FieldsTyped DEF SeqMoves
  <2>12. CASE Fails(s)
    BY <2>12, FailsDoes, FieldsTyped DEF SeqMoves
  <2>13. CASE CleansUp(s)
    BY <2>13, CleansUpDoes, FieldsTyped DEF SeqMoves
  <2>14. CASE ThreadEnds(s)
    BY <2>14, ThreadEndsDoes, FieldsTyped DEF SeqMoves
  <2> QED
    BY <1>1, <2>1, <2>2, <2>3, <2>4, <2>5, <2>6, <2>7, <2>8, <2>9, <2>10, <2>11,
      <2>12, <2>13, <2>14 DEF SeqStep
<1>2. ASSUME NEW u \in Users, Calls(u) \/ UserStep(u) PROVE Progress'
  <2>1. CASE Calls(u)
    BY <2>1, CallsDoes, FieldsTyped DEF UserMoves
  <2>2. CASE Checks(u)
    BY <2>2, ChecksDoes, FieldsTyped DEF UserMoves, Running
  <2>3. CASE SetsBusy(u)
    BY <2>3, SetsBusyDoes, FieldsTyped DEF UserMoves
  <2>4. CASE ResetsFlags(u)
    BY <2>4, ResetsFlagsDoes, FieldsTyped DEF UserMoves
  <2>5. CASE Creates(u)
    BY <2>5, CreatesDoes, FieldsTyped DEF UserMoves
  <2>6. CASE Assigns(u)
    BY <2>6, AssignsDoes, FieldsTyped DEF UserMoves
  <2>7. CASE ReadsStatus(u)
    BY <2>7, ReadsStatusDoes, FieldsTyped DEF UserMoves
  <2>8. CASE ReadsAlive(u)
    BY <2>8, ReadsAliveDoes, FieldsTyped DEF UserMoves, Running
  <2>9. CASE Finishes(u)
    BY <2>9, FinishesDoes, FieldsTyped DEF UserMoves
  <2>10. CASE Stops(u)
    BY <2>10, StopsDoes, FieldsTyped DEF UserMoves
  <2>11. CASE ResetChecks(u)
    BY <2>11, ResetChecksDoes, FieldsTyped DEF UserMoves, Running
  <2>12. CASE ResetsStopped(u)
    BY <2>12, ResetsStoppedDoes, FieldsTyped DEF UserMoves
  <2>13. CASE ResetsStatus(u)
    BY <2>13, ResetsStatusDoes, FieldsTyped DEF UserMoves
  <2> QED
    BY <1>2, <2>1, <2>2, <2>3, <2>4, <2>5, <2>6, <2>7, <2>8, <2>9, <2>10, <2>11,
      <2>12, <2>13 DEF UserStep
<1>3. ASSUME UNCHANGED vars PROVE Progress'
  BY <1>3 DEF vars
<1> QED
  BY <1>1, <1>2, <1>3 DEF Next

(***************************************************************************)
(* The status is OK only after the last step.                              *)
(***************************************************************************)
LEMMA TruthfulStep ==
  ASSUME OneDriver
  PROVE  TypeOK /\ Driving /\ Exclusive /\ OneSequence /\ Progress /\ Truthful
         /\ [Next]_vars => Truthful'
<1> SUFFICES ASSUME TypeOK, Driving, Exclusive, OneSequence, Progress, Truthful,
             [Next]_vars PROVE Truthful'
  OBVIOUS
<1> USE DEF Driving, OneDriver, Exclusive, NoneAlive, OneSequence, Alive,
     Progress, AllDone, Succeeded, Truthful
<1>1. ASSUME NEW s \in Seqs, SeqStep(s) PROVE Truthful'
  <2>1. CASE StepBegins(s)
    BY <2>1, StepBeginsDoes, FieldsTyped DEF SeqMoves
  <2>2. CASE StepsEnd(s)
    BY <2>2, StepsEndDoes, FieldsTyped DEF SeqMoves
  <2>3. CASE ActionRuns(s)
    BY <2>3, ActionRunsDoes, FieldsTyped DEF SeqMoves
  <2>4. CASE Polls(s)
    BY <2>4, PollsDoes, FieldsTyped DEF SeqMoves
  <2>5. CASE ReadsFlag(s)
    BY <2>5, ReadsFlagDoes, FieldsTyped DEF SeqMoves
  <2>6. CASE StopsWaiter(s)
    BY <2>6, StopsWaiterDoes, FieldsTyped DEF SeqMoves
  <2>7. CASE WaitersStopped(s)
    BY <2>7, WaitersStoppedDoes, FieldsTyped DEF SeqMoves
  <2>8. CASE ChecksFlag(s)
    BY <2>8, ChecksFlagDoes, FieldsTyped DEF SeqMoves
  <2>9. CASE StopsAction(s)
    BY <2>9, StopsActionDoes, FieldsTyped DEF SeqMoves
  <2>10. CASE ActionsStopped(s)
    BY <2>10, ActionsStoppedDoes, FieldsTyped DEF SeqMoves
  <2>11. CASE EndsIdle(s)
    BY <2>11, EndsIdleDoes, FieldsTyped DEF SeqMoves
  <2>12. CASE Fails(s)
    BY <2>12, FailsDoes, FieldsTyped DEF SeqMoves
  <2>13. CASE CleansUp(s)
    BY <2>13, CleansUpDoes, FieldsTyped DEF SeqMoves
  <2>14. CASE ThreadEnds(s)
    BY <2>14, ThreadEndsDoes, FieldsTyped DEF SeqMoves
  <2> QED
    BY <1>1, <2>1, <2>2, <2>3, <2>4, <2>5, <2>6, <2>7, <2>8, <2>9, <2>10, <2>11,
      <2>12, <2>13, <2>14 DEF SeqStep
<1>2. ASSUME NEW u \in Users, Calls(u) \/ UserStep(u) PROVE Truthful'
  <2>1. CASE Calls(u)
    BY <2>1, CallsDoes, FieldsTyped DEF UserMoves
  <2>2. CASE Checks(u)
    BY <2>2, ChecksDoes, FieldsTyped DEF UserMoves, Running
  <2>3. CASE SetsBusy(u)
    BY <2>3, SetsBusyDoes, FieldsTyped DEF UserMoves
  <2>4. CASE ResetsFlags(u)
    BY <2>4, ResetsFlagsDoes, FieldsTyped DEF UserMoves
  <2>5. CASE Creates(u)
    BY <2>5, CreatesDoes, FieldsTyped DEF UserMoves
  <2>6. CASE Assigns(u)
    BY <2>6, AssignsDoes, FieldsTyped DEF UserMoves
  <2>7. CASE ReadsStatus(u)
    BY <2>7, ReadsStatusDoes, FieldsTyped DEF UserMoves
  <2>8. CASE ReadsAlive(u)
    BY <2>8, ReadsAliveDoes, FieldsTyped DEF UserMoves, Running
  <2>9. CASE Finishes(u)
    BY <2>9, FinishesDoes, FieldsTyped DEF UserMoves
  <2>10. CASE Stops(u)
    BY <2>10, StopsDoes, FieldsTyped DEF UserMoves
  <2>11. CASE ResetChecks(u)
    BY <2>11, ResetChecksDoes, FieldsTyped DEF UserMoves, Running
  <2>12. CASE ResetsStopped(u)
    BY <2>12, ResetsStoppedDoes, FieldsTyped DEF UserMoves
  <2>13. CASE ResetsStatus(u)
    BY <2>13, ResetsStatusDoes, FieldsTyped DEF UserMoves
  <2> QED
    BY <1>2, <2>1, <2>2, <2>3, <2>4, <2>5, <2>6, <2>7, <2>8, <2>9, <2>10, <2>11,
      <2>12, <2>13 DEF UserStep
<1>3. ASSUME UNCHANGED vars PROVE Truthful'
  BY <1>3 DEF vars
<1> QED
  BY <1>1, <1>2, <1>3 DEF Next

(***************************************************************************)
(* The driver trusts a status that is true.                                *)
(***************************************************************************)
LEMMA TrustedStep ==
  ASSUME OneDriver
  PROVE  TypeOK /\ Driving /\ Exclusive /\ OneSequence /\ Progress /\ Truthful
         /\ Trusted /\ [Next]_vars => Trusted'
<1> SUFFICES ASSUME TypeOK, Driving, Exclusive, OneSequence, Progress, Truthful,
             Trusted, [Next]_vars PROVE Trusted'
  OBVIOUS
<1> USE DEF Driving, OneDriver, Exclusive, NoneAlive, OneSequence, Alive,
     Progress, AllDone, Succeeded, Truthful, Trusted
<1>1. ASSUME NEW s \in Seqs, SeqStep(s) PROVE Trusted'
  <2>1. CASE StepBegins(s)
    BY <2>1, StepBeginsDoes, FieldsTyped DEF SeqMoves
  <2>2. CASE StepsEnd(s)
    BY <2>2, StepsEndDoes, FieldsTyped DEF SeqMoves
  <2>3. CASE ActionRuns(s)
    BY <2>3, ActionRunsDoes, FieldsTyped DEF SeqMoves
  <2>4. CASE Polls(s)
    BY <2>4, PollsDoes, FieldsTyped, SMTT(30) DEF SeqMoves
  <2>5. CASE ReadsFlag(s)
    BY <2>5, ReadsFlagDoes, FieldsTyped, SMTT(30) DEF SeqMoves
  <2>6. CASE StopsWaiter(s)
    BY <2>6, StopsWaiterDoes, FieldsTyped DEF SeqMoves
  <2>7. CASE WaitersStopped(s)
    BY <2>7, WaitersStoppedDoes, FieldsTyped DEF SeqMoves
  <2>8. CASE ChecksFlag(s)
    BY <2>8, ChecksFlagDoes, FieldsTyped DEF SeqMoves
  <2>9. CASE StopsAction(s)
    BY <2>9, StopsActionDoes, FieldsTyped DEF SeqMoves
  <2>10. CASE ActionsStopped(s)
    BY <2>10, ActionsStoppedDoes, FieldsTyped DEF SeqMoves
  <2>11. CASE EndsIdle(s)
    BY <2>11, EndsIdleDoes, FieldsTyped DEF SeqMoves
  <2>12. CASE Fails(s)
    BY <2>12, FailsDoes, FieldsTyped DEF SeqMoves
  <2>13. CASE CleansUp(s)
    BY <2>13, CleansUpDoes, FieldsTyped DEF SeqMoves
  <2>14. CASE ThreadEnds(s)
    BY <2>14, ThreadEndsDoes, FieldsTyped DEF SeqMoves
  <2> QED
    BY <1>1, <2>1, <2>2, <2>3, <2>4, <2>5, <2>6, <2>7, <2>8, <2>9, <2>10, <2>11,
      <2>12, <2>13, <2>14 DEF SeqStep
<1>2. ASSUME NEW u \in Users, Calls(u) \/ UserStep(u) PROVE Trusted'
  <2>1. CASE Calls(u)
    BY <2>1, CallsDoes, FieldsTyped DEF UserMoves
  <2>2. CASE Checks(u)
    BY <2>2, ChecksDoes, FieldsTyped DEF UserMoves, Running
  <2>3. CASE SetsBusy(u)
    BY <2>3, SetsBusyDoes, FieldsTyped, SMTT(30) DEF UserMoves
  <2>4. CASE ResetsFlags(u)
    BY <2>4, ResetsFlagsDoes, FieldsTyped DEF UserMoves
  <2>5. CASE Creates(u)
    BY <2>5, CreatesDoes, FieldsTyped, SMTT(60) DEF UserMoves
  <2>6. CASE Assigns(u)
    BY <2>6, AssignsDoes, FieldsTyped DEF UserMoves
  <2>7. CASE ReadsStatus(u)
    BY <2>7, ReadsStatusDoes, FieldsTyped DEF UserMoves
  <2>8. CASE ReadsAlive(u)
    BY <2>8, ReadsAliveDoes, FieldsTyped DEF UserMoves, Running
  <2>9. CASE Finishes(u)
    BY <2>9, FinishesDoes, FieldsTyped DEF UserMoves
  <2>10. CASE Stops(u)
    BY <2>10, StopsDoes, FieldsTyped DEF UserMoves
  <2>11. CASE ResetChecks(u)
    BY <2>11, ResetChecksDoes, FieldsTyped, SMTT(30) DEF UserMoves, Running
  <2>12. CASE ResetsStopped(u)
    BY <2>12, ResetsStoppedDoes, FieldsTyped DEF UserMoves
  <2>13. CASE ResetsStatus(u)
    BY <2>13, ResetsStatusDoes, FieldsTyped, SMTT(30) DEF UserMoves
  <2> QED
    BY <1>2, <2>1, <2>2, <2>3, <2>4, <2>5, <2>6, <2>7, <2>8, <2>9, <2>10, <2>11,
      <2>12, <2>13 DEF UserStep
<1>3. ASSUME UNCHANGED vars PROVE Trusted'
  BY <1>3 DEF vars
<1> QED
  BY <1>1, <1>2, <1>3 DEF Next

--------------------------------------------------------------------------------
(***************************************************************************)
(* The invariant holds in every reachable state.                           *)
(***************************************************************************)
THEOREM InvariantHolds ==
  ASSUME OneDriver
  PROVE  Spec => []IInv
<1>1. Init => IInv
  BY InvInit
<1>2. IInv /\ [Next]_vars => IInv'
  BY TypeStep, DrivingStep, ExclusiveStep, OnlyOne, StopKeptStep, ProgressStep,
     TruthfulStep, TrustedStep DEF IInv
<1> QED
  BY <1>1, <1>2, PTL DEF Spec

(***************************************************************************)
(* Two threads never walk through the steps of the device at the same      *)
(* time.                                                                   *)
(***************************************************************************)
THEOREM NeverTwoSequences ==
  ASSUME OneDriver
  PROVE  Spec => []OneSequence
<1>1. IInv => OneSequence
  BY OnlyOne DEF IInv
<1> QED
  BY <1>1, InvariantHolds, PTL

(***************************************************************************)
(* A sequence begins at most one more step after a stop.                   *)
(***************************************************************************)
THEOREM StopIsBounded ==
  ASSUME OneDriver
  PROVE  Spec => []StopBound
<1>1. IInv => StopBound
  BY FieldsTyped DEF IInv, StopKept, StopBound
<1> QED
  BY <1>1, InvariantHolds, PTL

(***************************************************************************)
(* A wait that succeeds has seen all steps done.                           *)
(***************************************************************************)
THEOREM SuccessIsReal ==
  ASSUME OneDriver
  PROVE  Spec => []SuccessMeansDone
<1>1. IInv => SuccessMeansDone
  BY DEF IInv, Trusted, Succeeded, AllDone, SuccessMeansDone, Complete
<1> QED
  BY <1>1, InvariantHolds, PTL
================================================================================
