-------------------------- MODULE ScriptUpdate_proofs --------------------------
(***************************************************************************)
(* Proofs about ScriptUpdate, for scripts of any length and any number of  *)
(* handlers and updates.                                                   *)
(***************************************************************************)
EXTENDS ScriptUpdate, TLAPS

--------------------------------------------------------------------------------
(***************************************************************************)
(* The inductive invariant.                                                *)
(***************************************************************************)
\* One handler at a time is past the lock, and it has a script to put in place.
Exclusive ==
    \A h \in Handlers :
       /\ hnd[h].pc \notin {"idle", "lock"} => qlock = h
       /\ hnd[h].pc # "idle" => hnd[h].new \in Scripts

\* The blocks that were started are those up to the current one, which may be
\* about to start.
Position ==
    /\ pc \in {"wait", "waiting", "passed"} => curblock < MaxLen - 1
    /\ Len(executed) <= curblock + 1
    /\ pc = "start" => Len(executed) <= curblock

\* While an update compares and replaces, the script executes no further than
\* the block after the one the update has seen.
HeldBy(h) ==
    /\ hnd[h].pc \in {"read", "check", "announce", "list", "replace"} => ~ run
    /\ hnd[h].pc = "unlock" => run
    /\ hnd[h].pc \in {"check", "announce", "list", "replace"} =>
          /\ curblock <= hnd[h].seen + 1
          /\ pc = "passed" => curblock <= hnd[h].seen
    /\ hnd[h].pc \in {"announce", "list", "replace"} =>
          \A i \in 1..hnd[h].seen + 1 : /\ i <= Len(code) /\ i <= Len(hnd[h].new)
                                        /\ code[i] = hnd[h].new[i]

Held == \A h \in Handlers : HeldBy(h)

\* Text, list and code differ only between the assignments of an update.
Shown ==
    pc # "ended" =>
       /\ scripts \in Scripts
       /\ \A h \in Handlers :
             /\ hnd[h].pc = "list" => text = hnd[h].new /\ scripts = code
             /\ hnd[h].pc = "replace" => text = hnd[h].new /\ scripts = hnd[h].new
       /\ (\A h \in Handlers : hnd[h].pc \notin {"list", "replace"}) =>
             text = code /\ scripts = code

IInv == TypeOK /\ Exclusive /\ Position /\ Held /\ Shown

--------------------------------------------------------------------------------
(***************************************************************************)
(* Scripts are sequences of at most MaxLen blocks.                         *)
(***************************************************************************)
LEMMA ScriptSeq ==
    ASSUME NEW s \in Scripts
    PROVE  s \in Seq(Blocks) /\ Len(s) \in 1..MaxLen
<1>1. PICK n \in 1..MaxLen : s \in [1..n -> Blocks]
  BY DEF Scripts
<1>2. n \in Nat
  BY UpdateAssumption
<1> QED
  BY <1>1, <1>2

LEMMA SeqScript ==
    ASSUME NEW s \in Seq(Blocks), Len(s) \in 1..MaxLen
    PROVE  s \in Scripts
<1>1. s \in [1..Len(s) -> Blocks]
  OBVIOUS
<1> QED
  BY <1>1 DEF Scripts

\* Nothing was started, or a script.
LEMMA Grows ==
    ASSUME NEW s \in Scripts \cup {<<>>}, NEW b \in Blocks, Len(s) < MaxLen
    PROVE  Append(s, b) \in Scripts
<1>1. s \in Seq(Blocks)
  <2>1. CASE s \in Scripts
    BY <2>1, ScriptSeq
  <2>2. CASE s = <<>>
    BY <2>2
  <2> QED
    BY <2>1, <2>2
<1>2. Append(s, b) \in Seq(Blocks) /\ Len(Append(s, b)) = Len(s) + 1
  BY <1>1
<1> QED
  <2>1. Len(s) + 1 \in 1..MaxLen
    BY <1>1, UpdateAssumption
  <2> QED
    BY <1>2, <2>1, SeqScript

--------------------------------------------------------------------------------
(***************************************************************************)
(* The initial states have the invariant.                                  *)
(***************************************************************************)
LEMMA InvInit == Init => IInv
<1> SUFFICES ASSUME Init PROVE IInv
  OBVIOUS
<1>1. TypeOK
  BY UpdateAssumption DEF Init, TypeOK, ExecuteSteps, UpdateSteps, Idle
<1>2. Exclusive /\ Position /\ Held /\ Shown
  BY DEF Init, Exclusive, Position, Held, HeldBy, Shown, Idle
<1> QED
  BY <1>1, <1>2 DEF IInv

\* A handler that goes to another position keeps its script.
LEMMA ToTyping ==
    ASSUME TypeOK, NEW h \in Handlers, NEW p \in UpdateSteps, To(h, p)
    PROVE  hnd' \in [Handlers -> [pc : UpdateSteps, new : Scripts \cup {Gone}, seen : -1..MaxLen]]
<1>1. hnd[h] \in [pc : UpdateSteps, new : Scripts \cup {Gone}, seen : -1..MaxLen]
  BY DEF TypeOK
<1>2. [hnd[h] EXCEPT !.pc = p] \in [pc : UpdateSteps, new : Scripts \cup {Gone}, seen : -1..MaxLen]
  BY <1>1
<1> QED
  BY <1>2 DEF TypeOK, To

\* Every step keeps the types.
LEMMA TypeStep ==
    ASSUME TypeOK, Exclusive, Position, Held, [Next]_vars
    PROVE  TypeOK'
<1> USE UpdateAssumption DEF TypeOK, Exclusive, Over, ExecuteSteps, UpdateSteps, Gone
<1>1. CASE Tests
  BY <1>1 DEF Tests, updates
<1>2. CASE Waits
  BY <1>2 DEF Waits, updates
<1>3. CASE Increments
  BY <1>3 DEF Increments, updates, Position
<1>4. CASE Starts
  <2>1. code \in Seq(Blocks) /\ Len(code) \in 1..MaxLen
    BY ScriptSeq
  <2>2. curblock + 1 \in 1..Len(code)
    BY <1>4, <2>1 DEF Starts, Position
  <2>3. executed' \in Scripts
    <3>1. Len(executed) < MaxLen /\ code[curblock + 1] \in Blocks
      BY <1>4, <2>1, <2>2 DEF Starts, Position
    <3> QED
      BY <1>4, <3>1, Grows DEF Starts
  <2> QED
    BY <1>4, <2>3 DEF Starts, updates
<1>5. CASE StartFails
  BY <1>5 DEF StartFails, updates
<1>6. CASE BlockEnds
  BY <1>6 DEF BlockEnds, updates
<1>7. CASE Leaves
  BY <1>7 DEF Leaves, updates
<1>8. ASSUME NEW h \in Handlers, Asks(h)
      PROVE  TypeOK'
  <2>1. PICK new \in Scripts : hnd' = [hnd EXCEPT ![h].pc = "lock", ![h].new = new]
    BY <1>8 DEF Asks
  <2>2. hnd' \in [Handlers -> [pc : UpdateSteps, new : Scripts \cup {Gone}, seen : -1..MaxLen]]
    <3>1. hnd[h] \in [pc : UpdateSteps, new : Scripts \cup {Gone}, seen : -1..MaxLen]
      OBVIOUS
    <3>2. [hnd[h] EXCEPT !.pc = "lock", !.new = new]
             \in [pc : UpdateSteps, new : Scripts \cup {Gone}, seen : -1..MaxLen]
      BY <3>1
    <3> QED
      BY <2>1, <3>2
  <2> QED
    BY <1>8, <2>2 DEF Asks, thread
<1>9. ASSUME NEW h \in Handlers, Locks(h)
      PROVE  TypeOK'
  BY <1>9, ToTyping DEF Locks, At, thread
<1>10. ASSUME NEW h \in Handlers, Clears(h)
      PROVE  TypeOK'
  BY <1>10, ToTyping DEF Clears, At, thread
<1>11. ASSUME NEW h \in Handlers, ReadsBlock(h)
      PROVE  TypeOK'
  <2>1. /\ hnd' = [hnd EXCEPT ![h].pc = "check", ![h].seen = curblock]
        /\ UNCHANGED <<thread, code, text, scripts, run, qlock, left>>
    BY <1>11 DEF ReadsBlock
  <2>2. hnd' \in [Handlers -> [pc : UpdateSteps, new : Scripts \cup {Gone}, seen : -1..MaxLen]]
    <3>1. hnd[h] \in [pc : UpdateSteps, new : Scripts \cup {Gone}, seen : -1..MaxLen]
      OBVIOUS
    <3>2. [hnd[h] EXCEPT !.pc = "check", !.seen = curblock]
             \in [pc : UpdateSteps, new : Scripts \cup {Gone}, seen : -1..MaxLen]
      BY <3>1
    <3> QED
      BY <2>1, <3>2
  <2> QED
    BY <2>1, <2>2 DEF thread
<1>12. ASSUME NEW h \in Handlers, Checks(h)
      PROVE  TypeOK'
  BY <1>12, ToTyping DEF Checks, At, thread
<1>13. ASSUME NEW h \in Handlers, Announces(h)
      PROVE  TypeOK'
  BY <1>13, ToTyping DEF Announces, At, thread
<1>14. ASSUME NEW h \in Handlers, Lists(h)
      PROVE  TypeOK'
  BY <1>14, ToTyping DEF Lists, At, thread
<1>15. ASSUME NEW h \in Handlers, Replaces(h)
      PROVE  TypeOK'
  BY <1>15, ToTyping DEF Replaces, At, thread
<1>16. ASSUME NEW h \in Handlers, Sets(h)
      PROVE  TypeOK'
  BY <1>16, ToTyping DEF Sets, At, thread
<1>17. ASSUME NEW h \in Handlers, Unlocks(h)
      PROVE  TypeOK'
  <2>1. Idle \in [pc : UpdateSteps, new : Scripts \cup {Gone}, seen : -1..MaxLen]
    BY DEF Idle
  <2>2. hnd' \in [Handlers -> [pc : UpdateSteps, new : Scripts \cup {Gone}, seen : -1..MaxLen]]
    BY <1>17, <2>1 DEF Unlocks
  <2> QED
    BY <1>17, <2>2 DEF Unlocks, At, thread, Held, HeldBy
<1>18. CASE UNCHANGED vars
  BY <1>18 DEF vars
<1> QED
  BY <1>1, <1>2, <1>3, <1>4, <1>5, <1>6, <1>7, <1>8, <1>9, <1>10, <1>11, <1>12, <1>13, <1>14, <1>15, <1>16, <1>17, <1>18 DEF Next, ExecuteStep, UpdateStep

\* The lock is held by the handler that is past it.
LEMMA ExclusiveStep ==
    ASSUME TypeOK, Exclusive, [Next]_vars
    PROVE  Exclusive'
<1> USE UpdateAssumption DEF TypeOK, Exclusive, Idle
<1>1. CASE Tests
  BY <1>1 DEF Tests, updates
<1>2. CASE Waits
  BY <1>2 DEF Waits, updates
<1>3. CASE Increments
  BY <1>3 DEF Increments, updates
<1>4. CASE Starts
  BY <1>4 DEF Starts, updates
<1>5. CASE StartFails
  BY <1>5 DEF StartFails, updates
<1>6. CASE BlockEnds
  BY <1>6 DEF BlockEnds, updates
<1>7. CASE Leaves
  BY <1>7 DEF Leaves, updates
<1>8. ASSUME NEW h \in Handlers, Asks(h)
      PROVE  Exclusive'
  BY <1>8 DEF Asks, At, To, thread
<1>9. ASSUME NEW h \in Handlers, Locks(h)
      PROVE  Exclusive'
  BY <1>9 DEF Locks, At, To, thread
<1>10. ASSUME NEW h \in Handlers, Clears(h)
      PROVE  Exclusive'
  BY <1>10 DEF Clears, At, To, thread
<1>11. ASSUME NEW h \in Handlers, ReadsBlock(h)
      PROVE  Exclusive'
  BY <1>11 DEF ReadsBlock, At, To, thread
<1>12. ASSUME NEW h \in Handlers, Checks(h)
      PROVE  Exclusive'
  BY <1>12 DEF Checks, At, To, thread
<1>13. ASSUME NEW h \in Handlers, Announces(h)
      PROVE  Exclusive'
  BY <1>13 DEF Announces, At, To, thread
<1>14. ASSUME NEW h \in Handlers, Lists(h)
      PROVE  Exclusive'
  BY <1>14 DEF Lists, At, To, thread
<1>15. ASSUME NEW h \in Handlers, Replaces(h)
      PROVE  Exclusive'
  BY <1>15 DEF Replaces, At, To, thread
<1>16. ASSUME NEW h \in Handlers, Sets(h)
      PROVE  Exclusive'
  BY <1>16 DEF Sets, At, To, thread
<1>17. ASSUME NEW h \in Handlers, Unlocks(h)
      PROVE  Exclusive'
  BY <1>17 DEF Unlocks, At, To, thread
<1>18. CASE UNCHANGED vars
  BY <1>18 DEF vars
<1> QED
  BY <1>1, <1>2, <1>3, <1>4, <1>5, <1>6, <1>7, <1>8, <1>9, <1>10, <1>11, <1>12, <1>13, <1>14, <1>15, <1>16, <1>17, <1>18 DEF Next, ExecuteStep, UpdateStep

\* The current block is within a script, and after those that were started.
LEMMA PositionStep ==
    ASSUME TypeOK, Exclusive, Position, [Next]_vars
    PROVE  Position'
<1> USE UpdateAssumption DEF TypeOK, Position
<1>1. CASE Tests
  <2>1. Len(code) \in 1..MaxLen
    BY ScriptSeq
  <2> QED
    BY <1>1, <2>1 DEF Tests, updates
<1>2. CASE Waits
  BY <1>2 DEF Waits, updates
<1>3. CASE Increments
  BY <1>3 DEF Increments, updates
<1>4. CASE Starts
  <2>1. executed \in Seq(Blocks)
    <3>1. CASE executed \in Scripts
      BY <3>1, ScriptSeq
    <3>2. CASE executed = <<>>
      BY <3>2
    <3> QED
      BY <3>1, <3>2
  <2>2. Len(Append(executed, code[curblock + 1])) = Len(executed) + 1
    BY <2>1
  <2> QED
    BY <1>4, <2>1, <2>2 DEF Starts, updates
<1>5. CASE StartFails
  BY <1>5 DEF StartFails, updates
<1>6. CASE BlockEnds
  BY <1>6 DEF BlockEnds, updates
<1>7. CASE Leaves
  BY <1>7 DEF Leaves, updates
<1>8. ASSUME NEW h \in Handlers, Asks(h)
      PROVE  Position'
  BY <1>8 DEF Asks, At, To, thread
<1>9. ASSUME NEW h \in Handlers, Locks(h)
      PROVE  Position'
  BY <1>9 DEF Locks, At, To, thread
<1>10. ASSUME NEW h \in Handlers, Clears(h)
      PROVE  Position'
  BY <1>10 DEF Clears, At, To, thread
<1>11. ASSUME NEW h \in Handlers, ReadsBlock(h)
      PROVE  Position'
  BY <1>11 DEF ReadsBlock, At, To, thread
<1>12. ASSUME NEW h \in Handlers, Checks(h)
      PROVE  Position'
  BY <1>12 DEF Checks, At, To, thread
<1>13. ASSUME NEW h \in Handlers, Announces(h)
      PROVE  Position'
  BY <1>13 DEF Announces, At, To, thread
<1>14. ASSUME NEW h \in Handlers, Lists(h)
      PROVE  Position'
  BY <1>14 DEF Lists, At, To, thread
<1>15. ASSUME NEW h \in Handlers, Replaces(h)
      PROVE  Position'
  BY <1>15 DEF Replaces, At, To, thread
<1>16. ASSUME NEW h \in Handlers, Sets(h)
      PROVE  Position'
  BY <1>16 DEF Sets, At, To, thread
<1>17. ASSUME NEW h \in Handlers, Unlocks(h)
      PROVE  Position'
  BY <1>17 DEF Unlocks, At, To, thread
<1>18. CASE UNCHANGED vars
  BY <1>18 DEF vars
<1> QED
  BY <1>1, <1>2, <1>3, <1>4, <1>5, <1>6, <1>7, <1>8, <1>9, <1>10, <1>11, <1>12, <1>13, <1>14, <1>15, <1>16, <1>17, <1>18 DEF Next, ExecuteStep, UpdateStep

\* An update that compares holds the script thread before its next block.
LEMMA HeldStep ==
    ASSUME TypeOK, Exclusive, Position, Held, [Next]_vars
    PROVE  Held'
<1> USE UpdateAssumption DEF TypeOK, Exclusive, Held, HeldBy
<1>1. CASE Tests
  BY <1>1 DEF Tests, updates
<1>2. CASE Waits
  BY <1>2 DEF Waits, updates
<1>3. CASE Increments
  BY <1>3 DEF Increments, updates
<1>4. CASE Starts
  BY <1>4 DEF Starts, updates
<1>5. CASE StartFails
  BY <1>5 DEF StartFails, updates
<1>6. CASE BlockEnds
  BY <1>6 DEF BlockEnds, updates
<1>7. CASE Leaves
  BY <1>7 DEF Leaves, updates
<1>8. ASSUME NEW h \in Handlers, Asks(h)
      PROVE  Held'
  <2>1. PICK new \in Scripts : hnd' = [hnd EXCEPT ![h].pc = "lock", ![h].new = new]
    BY <1>8 DEF Asks
  <2>2. hnd'[h].pc = "lock" /\ \A g \in Handlers : g # h => hnd'[g] = hnd[g]
    BY <2>1
  <2>3. UNCHANGED <<pc, curblock, code, run>>
    BY <1>8 DEF Asks, thread
  <2> QED
    BY <2>2, <2>3
<1>9. ASSUME NEW h \in Handlers, Locks(h)
      PROVE  Held'
  BY <1>9 DEF Locks, At, To, thread
<1>10. ASSUME NEW h \in Handlers, Clears(h)
      PROVE  Held'
  BY <1>10 DEF Clears, At, To, thread
<1>11. ASSUME NEW h \in Handlers, ReadsBlock(h)
      PROVE  Held'
  <2>1. /\ hnd' = [hnd EXCEPT ![h].pc = "check", ![h].seen = curblock]
        /\ hnd[h].pc = "read" /\ UNCHANGED <<pc, curblock, code, run>>
    BY <1>11 DEF ReadsBlock, At, thread
  <2>2. /\ hnd'[h].pc = "check" /\ hnd'[h].seen = curblock
        /\ \A g \in Handlers : g # h => hnd'[g] = hnd[g]
    BY <2>1
  <2>3. HeldBy(h)'
    BY <2>1, <2>2
  <2>4. ASSUME NEW g \in Handlers, g # h PROVE HeldBy(g)'
    BY <2>1, <2>2, <2>4
  <2> QED
    BY <2>3, <2>4
<1>12. ASSUME NEW h \in Handlers, Checks(h)
      PROVE  Held'
  <2>1. Matches(h) => \A i \in 1..hnd[h].seen + 1 : /\ i <= Len(code) /\ i <= Len(hnd[h].new)
                                                      /\ code[i] = hnd[h].new[i]
    <3>1. Len(hnd[h].new) \in Nat /\ hnd[h].seen \in -1..MaxLen
      BY <1>12, ScriptSeq DEF Checks, At
    <3> QED
      BY <3>1 DEF Matches
  <2>2. /\ hnd[h].pc = "check" /\ hnd' = [hnd EXCEPT ![h].pc = IF Matches(h) THEN "announce" ELSE "set"]
        /\ UNCHANGED <<pc, curblock, code, run>>
    BY <1>12 DEF Checks, At, To, thread
  <2>3. HeldBy(h)'
    BY <2>1, <2>2
  <2>4. ASSUME NEW g \in Handlers, g # h PROVE HeldBy(g)'
    BY <2>2, <2>4
  <2> QED
    BY <2>3, <2>4
<1>13. ASSUME NEW h \in Handlers, Announces(h)
      PROVE  Held'
  BY <1>13 DEF Announces, At, To, thread
<1>14. ASSUME NEW h \in Handlers, Lists(h)
      PROVE  Held'
  BY <1>14 DEF Lists, At, To, thread
<1>15. ASSUME NEW h \in Handlers, Replaces(h)
      PROVE  Held'
  <2>1. /\ hnd[h].pc = "replace" /\ hnd' = [hnd EXCEPT ![h].pc = "set"]
        /\ UNCHANGED <<pc, curblock, run>>
    BY <1>15 DEF Replaces, At, To, thread
  <2>2. HeldBy(h)'
    BY <2>1
  <2>3. ASSUME NEW g \in Handlers, g # h PROVE HeldBy(g)'
    <3>1. hnd'[g] = hnd[g] /\ hnd[g].pc \in {"idle", "lock"}
      BY <2>1, <2>3
    <3> QED
      BY <3>1
  <2> QED
    BY <2>2, <2>3
<1>16. ASSUME NEW h \in Handlers, Sets(h)
      PROVE  Held'
  BY <1>16 DEF Sets, At, To, thread
<1>17. ASSUME NEW h \in Handlers, Unlocks(h)
      PROVE  Held'
  <2>1. hnd' = [hnd EXCEPT ![h] = Idle] /\ UNCHANGED <<pc, curblock, code, run>>
    BY <1>17 DEF Unlocks, At, thread
  <2>2. HeldBy(h)'
    BY <2>1 DEF Idle
  <2>3. ASSUME NEW g \in Handlers, g # h PROVE HeldBy(g)'
    BY <2>1, <2>3
  <2> QED
    BY <2>2, <2>3
<1>18. CASE UNCHANGED vars
  BY <1>18 DEF vars
<1> QED
  BY <1>1, <1>2, <1>3, <1>4, <1>5, <1>6, <1>7, <1>8, <1>9, <1>10, <1>11, <1>12, <1>13, <1>14, <1>15, <1>16, <1>17, <1>18 DEF Next, ExecuteStep, UpdateStep

\* The assignments of an update follow each other.
LEMMA ShownStep ==
    ASSUME TypeOK, Exclusive, Shown, [Next]_vars
    PROVE  Shown'
<1> USE UpdateAssumption DEF TypeOK, Exclusive, Shown
<1>1. CASE Tests
  BY <1>1 DEF Tests, updates
<1>2. CASE Waits
  BY <1>2 DEF Waits, updates
<1>3. CASE Increments
  BY <1>3 DEF Increments, updates
<1>4. CASE Starts
  BY <1>4 DEF Starts, updates
<1>5. CASE StartFails
  BY <1>5 DEF StartFails, updates
<1>6. CASE BlockEnds
  BY <1>6 DEF BlockEnds, updates
<1>7. CASE Leaves
  BY <1>7 DEF Leaves, updates
<1>8. ASSUME NEW h \in Handlers, Asks(h)
      PROVE  Shown'
  <2>1. PICK new \in Scripts : hnd' = [hnd EXCEPT ![h].pc = "lock", ![h].new = new]
    BY <1>8 DEF Asks
  <2>2. hnd[h].pc = "idle" /\ hnd'[h].pc = "lock"
    BY <1>8, <2>1 DEF Asks, At
  <2>3. \A g \in Handlers : g # h => hnd'[g] = hnd[g]
    BY <2>1
  <2>4. UNCHANGED <<pc, code, text, scripts>>
    BY <1>8 DEF Asks, thread
  <2>5. \A g \in Handlers : /\ hnd'[g].pc \in {"list", "replace"} <=> hnd[g].pc \in {"list", "replace"}
                            /\ hnd'[g].pc \in {"list", "replace"} => hnd'[g] = hnd[g]
    BY <2>2, <2>3
  <2> QED
    BY <2>4, <2>5
<1>9. ASSUME NEW h \in Handlers, Locks(h)
      PROVE  Shown'
  BY <1>9 DEF Locks, At, To, thread
<1>10. ASSUME NEW h \in Handlers, Clears(h)
      PROVE  Shown'
  BY <1>10 DEF Clears, At, To, thread
<1>11. ASSUME NEW h \in Handlers, ReadsBlock(h)
      PROVE  Shown'
  BY <1>11 DEF ReadsBlock, At, To, thread
<1>12. ASSUME NEW h \in Handlers, Checks(h)
      PROVE  Shown'
  BY <1>12 DEF Checks, At, To, thread
<1>13. ASSUME NEW h \in Handlers, Announces(h)
      PROVE  Shown'
  <2>1. /\ hnd[h].pc = "announce" /\ text' = hnd[h].new
        /\ hnd' = [hnd EXCEPT ![h].pc = IF scripts = Gone THEN "set" ELSE "list"]
        /\ UNCHANGED <<pc, code, scripts>>
    BY <1>13 DEF Announces, At, To, thread
  <2>2. \A g \in Handlers : g # h => hnd'[g] = hnd[g] /\ hnd[g].pc \in {"idle", "lock"}
    BY <2>1
  <2>3. pc # "ended" => scripts # Gone /\ scripts = code
    <3>1. Gone \notin Scripts
      BY ScriptSeq DEF Gone
    <3> QED
      BY <2>1, <2>2, <3>1
  <2>4. hnd'[h].pc = (IF scripts = Gone THEN "set" ELSE "list") /\ hnd'[h].new = hnd[h].new
    BY <2>1
  <2> QED
    BY <2>1, <2>2, <2>3, <2>4
<1>14. ASSUME NEW h \in Handlers, Lists(h)
      PROVE  Shown'
  BY <1>14 DEF Lists, At, To, thread
<1>15. ASSUME NEW h \in Handlers, Replaces(h)
      PROVE  Shown'
  BY <1>15 DEF Replaces, At, To, thread
<1>16. ASSUME NEW h \in Handlers, Sets(h)
      PROVE  Shown'
  BY <1>16 DEF Sets, At, To, thread
<1>17. ASSUME NEW h \in Handlers, Unlocks(h)
      PROVE  Shown'
  <2>1. /\ hnd[h].pc = "unlock" /\ hnd' = [hnd EXCEPT ![h] = Idle]
        /\ UNCHANGED <<pc, text, code, scripts>>
    BY <1>17 DEF Unlocks, At, thread
  <2>2. hnd'[h].pc = "idle" /\ \A g \in Handlers : g # h => hnd'[g] = hnd[g]
    BY <2>1 DEF Idle
  <2>3. \A g \in Handlers : hnd'[g].pc \in {"list", "replace"} => hnd'[g] = hnd[g]
    BY <2>2
  <2>4. \A g \in Handlers : hnd[g].pc \in {"list", "replace"} => hnd'[g].pc = hnd[g].pc
    BY <2>1, <2>2
  <2> QED
    BY <2>1, <2>3, <2>4
<1>18. CASE UNCHANGED vars
  BY <1>18 DEF vars
<1> QED
  BY <1>1, <1>2, <1>3, <1>4, <1>5, <1>6, <1>7, <1>8, <1>9, <1>10, <1>11, <1>12, <1>13, <1>14, <1>15, <1>16, <1>17, <1>18 DEF Next, ExecuteStep, UpdateStep

--------------------------------------------------------------------------------
(***************************************************************************)
(* The types are correct, and the invariant holds.                         *)
(***************************************************************************)
THEOREM InvariantHolds == Spec => []IInv
<1>1. IInv /\ [Next]_vars => IInv'
  BY TypeStep, ExclusiveStep, PositionStep, HeldStep, ShownStep DEF IInv
<1> QED
  BY <1>1, InvInit, PTL DEF Spec

(***************************************************************************)
(* Without an update in progress clients and the list of scripts show the  *)
(* script that is executed.                                                *)
(***************************************************************************)
THEOREM ShownIsExecuted == Spec => []ShownIsRun
<1>1. IInv => ShownIsRun
  BY DEF IInv, TypeOK, UpdateSteps, Shown, ShownIsRun, Updating
<1> QED
  BY <1>1, InvariantHolds, PTL

--------------------------------------------------------------------------------
\* The script was not made shorter than what was executed, but for the last block.
Covers == Len(executed) <= Len(code) + 1

LEMMA Lengths ==
    ASSUME TypeOK
    PROVE  /\ Len(executed) \in 0..MaxLen /\ Len(code) \in 1..MaxLen
           /\ executed \in Seq(Blocks) /\ code \in Seq(Blocks)
<1>1. executed = <<>> => executed \in Seq(Blocks) /\ Len(executed) = 0
  OBVIOUS
<1>2. executed \in Scripts => executed \in Seq(Blocks) /\ Len(executed) \in 1..MaxLen
  BY ScriptSeq
<1>3. code \in Seq(Blocks) /\ Len(code) \in 1..MaxLen
  BY ScriptSeq DEF TypeOK
<1> QED
  BY <1>1, <1>2, <1>3, UpdateAssumption DEF TypeOK

\* An update replaces what it compared, and the block in progress at most.
LEMMA ReplacesRest ==
    ASSUME IInv, NEW h \in Handlers, Replaces(h)
    PROVE  /\ UNCHANGED executed
           /\ code' \in Scripts /\ Len(executed) <= Len(code') + 1
           /\ \A i \in 1..Len(executed) - 1 : i <= Len(code') /\ code'[i] = code[i]
<1>1. code' = hnd[h].new /\ hnd[h].pc = "replace" /\ UNCHANGED executed
  BY DEF Replaces, At, thread
<1>2. hnd[h].new \in Scripts /\ hnd[h].seen \in -1..MaxLen
  BY <1>1 DEF IInv, Exclusive, TypeOK
<1>3. Len(hnd[h].new) \in 1..MaxLen
  BY <1>2, ScriptSeq
<1>4. /\ curblock <= hnd[h].seen + 1
      /\ \A i \in 1..hnd[h].seen + 1 : i <= Len(hnd[h].new) /\ code[i] = hnd[h].new[i]
  BY <1>1 DEF IInv, Held, HeldBy
<1>5. Len(executed) \in Nat /\ Len(executed) <= hnd[h].seen + 2 /\ MaxLen \in Nat
  <2>1. Len(executed) <= curblock + 1 /\ curblock \in -1..MaxLen
    BY DEF IInv, Position, TypeOK
  <2> QED
    BY <1>2, <1>4, <2>1, Lengths, UpdateAssumption DEF IInv
<1>6. Len(executed) <= Len(hnd[h].new) + 1
  <2>1. CASE hnd[h].seen = -1
    BY <1>3, <1>5, <2>1
  <2>2. CASE hnd[h].seen # -1
    <3>1. hnd[h].seen + 1 \in 1..hnd[h].seen + 1
      BY <1>2, <1>5, <2>2
    <3> QED
      BY <1>2, <1>3, <1>4, <1>5, <3>1
  <2> QED
    BY <2>1, <2>2
<1>7. ASSUME NEW i \in 1..Len(executed) - 1
      PROVE  i \in 1..hnd[h].seen + 1
  BY <1>2, <1>5
<1> QED
  BY <1>1, <1>2, <1>4, <1>6, <1>7

LEMMA CodeIsKept ==
    ASSUME [Next]_vars, \A h \in Handlers : ~ Replaces(h)
    PROVE  code' = code /\ (executed' = executed \/ Starts)
BY DEF Next, ExecuteStep, UpdateStep, Tests, Waits, Increments, Starts, StartFails, BlockEnds,
       Leaves, Asks, Locks, Clears, ReadsBlock, Checks, Announces, Lists, Sets, Unlocks,
       thread, vars

LEMMA CoversHolds == Spec => []Covers
<1>1. Init => Covers
  <2> SUFFICES ASSUME Init PROVE Covers
    OBVIOUS
  <2>1. TypeOK /\ Len(executed) = 0
    BY InvInit DEF Init, IInv
  <2> QED
    BY <2>1, Lengths, UpdateAssumption DEF Covers
<1>2. IInv /\ Covers /\ [Next]_vars => Covers'
  <2> SUFFICES ASSUME IInv, Covers, [Next]_vars PROVE Covers'
    OBVIOUS
  <2>1. ASSUME NEW h \in Handlers, Replaces(h) PROVE Covers'
    BY <2>1, ReplacesRest DEF Covers
  <2>2. CASE \A h \in Handlers : ~ Replaces(h)
    <3>1. code' = code /\ (executed' = executed \/ Starts)
      BY <2>2, CodeIsKept
    <3>2. CASE Starts
      <4>1. Len(executed) <= curblock /\ curblock < Len(code) /\ curblock \in Int
        BY <3>2 DEF Starts, IInv, Position, TypeOK
      <4>2. Len(executed') = Len(executed) + 1
        BY <3>2, Lengths DEF Starts, IInv
      <4> QED
        BY <3>1, <4>1, <4>2, Lengths, UpdateAssumption DEF Covers, IInv
    <3> QED
      BY <3>1, <3>2 DEF Covers
  <2> QED
    BY <2>1, <2>2
<1> QED
  BY <1>1, <1>2, InvariantHolds, PTL DEF Spec

(***************************************************************************)
(* No update changes the text of a block that was executed before the last *)
(* one started.                                                            *)
(***************************************************************************)
THEOREM ExecutedIsKept == Spec => PastKept
<1>1. ASSUME IInv, Covers, [Next]_vars, NEW i \in 1..Len(executed) - 1, executed[i] = code[i]
      PROVE  i <= Len(code') /\ code'[i] = executed[i]
  <2>1. ASSUME NEW h \in Handlers, Replaces(h) PROVE i <= Len(code') /\ code'[i] = code[i]
    BY <1>1, <2>1, ReplacesRest
  <2>2. CASE \A h \in Handlers : ~ Replaces(h)
    <3>1. i <= Len(code)
      BY <1>1, Lengths, UpdateAssumption DEF Covers, IInv
    <3> QED
      BY <1>1, <2>2, <3>1, CodeIsKept
  <2> QED
    BY <1>1, <2>1, <2>2
<1>2. IInv /\ Covers /\ [Next]_vars =>
         [\A i \in 1..Len(executed) - 1 : executed[i] = code[i] =>
             i <= Len(code') /\ code'[i] = executed[i]]_vars
  BY <1>1
<1> QED
  BY <1>2, InvariantHolds, CoversHolds, PTL DEF Spec, PastKept
================================================================================
