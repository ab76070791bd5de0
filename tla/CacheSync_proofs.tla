--------------------------- MODULE CacheSync_proofs ---------------------------
(***************************************************************************)
(* Proofs about CacheSync, for any writers, readers and values, any number *)
(* of puts and any number of lost connections.                             *)
(***************************************************************************)
EXTENDS CacheSync, SequenceTheorems, TLAPS

--------------------------------------------------------------------------------
(***************************************************************************)
(* Types.                                                                  *)
(***************************************************************************)
Told == Values \cup {Absent}
Times == Nat \ {0}
PutData == [val : Told, time : Times, ttl : BOOLEAN]
Update == [val : Told, time : Times, version : Nat]
Telling == [todo : SUBSET Readers, val : Told, time : Nat, version : Nat, changed : BOOLEAN]

TypeOK ==
    /\ clock \in Nat /\ faults \in Nat /\ version \in Nat
    /\ pending \in [Writers -> Seq(PutData)] /\ link \in [Writers -> Seq(PutData)]
    /\ online \subseteq Writers /\ subscribed \subseteq Readers
    /\ entry \in [val : Told, time : Nat, ttl : BOOLEAN, expired : BOOLEAN]
    /\ telling \in [Writers -> Telling]
    /\ phase \in [Readers -> {"off", "asked", "answered", "on"}]
    /\ out \in [Readers -> Seq(Update)]
    /\ copy \in [Readers -> [val : Told, time : Nat]]
    /\ seen \in [Readers -> Nat] /\ missed \in [Readers -> Nat]

(***************************************************************************)
(* Every put has its own time: no two messages on their way to the server, *)
(* and no message and announcement, have the same.                         *)
(***************************************************************************)
TimesIn(s) == {s[i].time : i \in 1..Len(s)}
Distinct(s) == \A i, j \in 1..Len(s) : s[i].time = s[j].time => i = j
Disjoint(s, t) == TimesIn(s) \cap TimesIn(t) = {}

OwnTimes ==
    /\ \A w \in Writers :
          /\ Distinct(pending[w]) /\ Distinct(link[w])
          /\ \A t \in TimesIn(pending[w]) \cup TimesIn(link[w]) : t \in Times /\ t <= clock
          /\ telling[w].time <= clock
    /\ \A w, x \in Writers :
          /\ Disjoint(pending[w], link[x])
          /\ w # x => Disjoint(pending[w], pending[x]) /\ Disjoint(link[w], link[x])
          /\ telling[x].time \notin TimesIn(pending[w]) \cup TimesIn(link[w])

(***************************************************************************)
(* What is announced.  An announcement of the latest version tells what    *)
(* the server has, and one with the time of the entry is of that version.  *)
(***************************************************************************)
Announcing ==
    /\ version = 0 => entry.val = Absent
    /\ entry.val # Absent => entry.time > 0 /\ clock > 0
    /\ \A w \in Writers :
          /\ telling[w].version <= version
          /\ telling[w].version = version => telling[w].val = Shown
          /\ telling[w].time = 0 => telling[w].todo = {}
          /\ telling[w].time = entry.time /\ Shown # Absent => telling[w].version = version
          /\ \A r \in telling[w].todo : phase[r] # "off"
    /\ \A w, x \in Writers : w # x /\ telling[w].time = telling[x].time => telling[w].time = 0

(***************************************************************************)
(* What a reader has and gets.  Of two values with the same time the later *)
(* version comes later.                                                    *)
(***************************************************************************)
InPhase(r) ==
    /\ phase[r] \in {"off", "asked"} => out[r] = <<>>
    /\ phase[r] \in {"asked", "answered"} => copy[r] = Nothing
    /\ r \in subscribed => phase[r] = "on"
    /\ copy[r].val = Absent => copy[r] = Nothing

Versions(r) ==
    /\ seen[r] <= version /\ missed[r] <= version
    /\ seen[r] = version => copy[r].val = Shown
    /\ \A i \in 1..Len(out[r]) :
          /\ out[r][i].version <= version
          /\ out[r][i].version = version => out[r][i].val = Shown

InOrder(r) ==
    /\ \A i, j \in 1..Len(out[r]) :
          i < j /\ out[r][i].val # Absent /\ out[r][i].time = out[r][j].time
             => out[r][i].version <= out[r][j].version
    /\ \A i \in 1..Len(out[r]) :
          copy[r].val # Absent /\ out[r][i].time = copy[r].time => seen[r] <= out[r][i].version
    /\ \A w \in Writers : r \in telling[w].todo =>
          /\ copy[r].val # Absent /\ telling[w].time = copy[r].time
                => seen[r] <= telling[w].version
          /\ \A i \in 1..Len(out[r]) :
                out[r][i].val # Absent /\ out[r][i].time = telling[w].time
                   => out[r][i].version <= telling[w].version

(***************************************************************************)
(* A reader that has its answer has accepted the latest version, or will   *)
(* get it, or has missed it.                                               *)
(***************************************************************************)
Accounted(r) ==
    phase[r] \in {"answered", "on"} =>
       \/ version \in {seen[r], missed[r]}
       \/ \E i \in 1..Len(out[r]) : out[r][i].version = version
       \/ \E w \in Writers : r \in telling[w].todo /\ telling[w].version = version

Reader(r) == InPhase(r) /\ Versions(r) /\ InOrder(r) /\ Accounted(r)

IInv == TypeOK /\ OwnTimes /\ Announcing /\ \A r \in Readers : Reader(r)

--------------------------------------------------------------------------------
(***************************************************************************)
(* The times in the parts of a sequence.                                   *)
(***************************************************************************)
LEMMA TimesOfAppended ==
  ASSUME NEW s \in Seq(PutData), NEW e \in PutData
  PROVE  /\ Append(s, e) \in Seq(PutData)
         /\ TimesIn(Append(s, e)) = TimesIn(s) \cup {e.time}
         /\ Distinct(s) /\ e.time \notin TimesIn(s) => Distinct(Append(s, e))
<1> DEFINE t == Append(s, e)
<1>1. /\ t \in Seq(PutData) /\ Len(t) = Len(s) + 1 /\ t[Len(s) + 1] = e
      /\ \A i \in 1..Len(s) : t[i] = s[i]
      /\ Len(s) \in Nat
  BY AppendProperties, LenProperties
<1> HIDE DEF t
<1>2. TimesIn(t) = TimesIn(s) \cup {e.time}
  <2>1. ASSUME NEW i \in 1..Len(t) PROVE t[i].time \in TimesIn(s) \cup {e.time}
    BY <1>1 DEF TimesIn
  <2>2. ASSUME NEW i \in 1..Len(s) PROVE s[i].time \in TimesIn(t)
    BY <1>1 DEF TimesIn
  <2>3. e.time \in TimesIn(t)
    BY <1>1 DEF TimesIn
  <2> QED
    BY <2>1, <2>2, <2>3 DEF TimesIn
<1>3. Distinct(s) /\ e.time \notin TimesIn(s) => Distinct(t)
  BY <1>1 DEF Distinct, TimesIn
<1> QED
  BY <1>1, <1>2, <1>3 DEF t

LEMMA TimesOfPart ==
  ASSUME NEW s \in Seq(PutData), NEW m \in 1..(Len(s) + 1), NEW n \in 0..Len(s)
  PROVE  /\ SubSeq(s, m, n) \in Seq(PutData)
         /\ TimesIn(SubSeq(s, m, n)) \subseteq TimesIn(s)
         /\ Distinct(s) => Distinct(SubSeq(s, m, n))
         /\ \A t \in TimesIn(SubSeq(s, m, n)) : \E i \in m..n : t = s[i].time
<1> DEFINE p == SubSeq(s, m, n)
<1>1. Len(s) \in Nat /\ m \in Int /\ n \in Int /\ \A i \in m..n : s[i] \in PutData
  BY LenProperties, ElementOfSeq
<1>2. /\ p \in Seq(PutData) /\ Len(p) = IF m <= n THEN n - m + 1 ELSE 0
      /\ \A i \in 1..(n - m + 1) : p[i] = s[m + i - 1]
  BY <1>1, SubSeqProperties
<1> HIDE DEF p
<1>3. ASSUME NEW i \in 1..Len(p)
      PROVE  m + i - 1 \in m..n /\ m + i - 1 \in 1..Len(s) /\ p[i] = s[m + i - 1]
  BY <1>1, <1>2
<1>4. \A t \in TimesIn(p) : \E i \in m..n : t = s[i].time
  BY <1>3 DEF TimesIn
<1>5. TimesIn(p) \subseteq TimesIn(s)
  BY <1>3 DEF TimesIn
<1>6. ASSUME Distinct(s), NEW i \in 1..Len(p), NEW j \in 1..Len(p), p[i].time = p[j].time
      PROVE  i = j
  <2>1. m + i - 1 = m + j - 1
    <3>1. s[m + i - 1].time = s[m + j - 1].time
      BY <1>3, <1>6
    <3> QED
      BY <1>3, <1>6, <3>1 DEF Distinct
  <2> QED
    BY <1>1, <1>2, <2>1
<1> QED
  BY <1>2, <1>4, <1>5, <1>6 DEF Distinct, p

LEMMA TimesOfSplit ==
  ASSUME NEW s \in Seq(PutData), NEW n \in 0..Len(s), Distinct(s)
  PROVE  Disjoint(SubSeq(s, 1, n), SubSeq(s, n + 1, Len(s)))
<1>1. Len(s) \in Nat /\ 1 \in 1..(Len(s) + 1) /\ n + 1 \in 1..(Len(s) + 1) /\ Len(s) \in 0..Len(s)
  BY LenProperties
<1>2. \A t \in TimesIn(SubSeq(s, 1, n)) : \E i \in 1..n : t = s[i].time
  BY <1>1, TimesOfPart
<1>3. \A t \in TimesIn(SubSeq(s, n + 1, Len(s))) : \E i \in (n + 1)..Len(s) : t = s[i].time
  BY <1>1, TimesOfPart
<1>4. \A i \in 1..n, j \in (n + 1)..Len(s) : s[i].time # s[j].time
  BY <1>1 DEF Distinct
<1> QED
  BY <1>2, <1>3, <1>4 DEF Disjoint

LEMMA TimesOfJoined ==
  ASSUME NEW s \in Seq(PutData), NEW t \in Seq(PutData)
  PROVE  /\ s \o t \in Seq(PutData)
         /\ TimesIn(s \o t) = TimesIn(s) \cup TimesIn(t)
         /\ Distinct(s) /\ Distinct(t) /\ Disjoint(s, t) => Distinct(s \o t)
<1> DEFINE p == s \o t
<1>1. /\ p \in Seq(PutData) /\ Len(p) = Len(s) + Len(t)
      /\ \A i \in 1..(Len(s) + Len(t)) : p[i] = IF i <= Len(s) THEN s[i] ELSE t[i - Len(s)]
      /\ Len(s) \in Nat /\ Len(t) \in Nat
  BY ConcatProperties, LenProperties
<1> HIDE DEF p
<1>2. \A i \in 1..Len(s) : i \in 1..Len(p) /\ p[i] = s[i]
  BY <1>1
<1>3. ASSUME NEW i \in 1..Len(t)
      PROVE  Len(s) + i \in 1..Len(p) /\ p[Len(s) + i] = t[i]
  <2>1. Len(s) + i \in 1..(Len(s) + Len(t)) /\ ~ (Len(s) + i <= Len(s))
        /\ (Len(s) + i) - Len(s) = i
    BY <1>1
  <2> QED
    BY <1>1, <2>1
<1>4. \A i \in 1..Len(p) : \/ i \in 1..Len(s) /\ p[i] = s[i]
                           \/ i - Len(s) \in 1..Len(t) /\ p[i] = t[i - Len(s)]
  BY <1>1
<1>5. TimesIn(p) = TimesIn(s) \cup TimesIn(t)
  <2>1. ASSUME NEW i \in 1..Len(p) PROVE p[i].time \in TimesIn(s) \cup TimesIn(t)
    BY <1>4 DEF TimesIn
  <2>2. ASSUME NEW i \in 1..Len(s) PROVE s[i].time \in TimesIn(p)
    BY <1>2 DEF TimesIn
  <2>3. ASSUME NEW i \in 1..Len(t) PROVE t[i].time \in TimesIn(p)
    BY <1>3 DEF TimesIn
  <2> QED
    BY <2>1, <2>2, <2>3 DEF TimesIn
<1>6. ASSUME Distinct(s), Distinct(t), Disjoint(s, t),
             NEW i \in 1..Len(p), NEW j \in 1..Len(p), p[i].time = p[j].time
      PROVE  i = j
  <2>1. CASE i <= Len(s) /\ j <= Len(s)
    <3>1. i \in 1..Len(s) /\ j \in 1..Len(s) /\ s[i].time = s[j].time
      BY <1>1, <1>6, <2>1
    <3> QED
      BY <1>6, <3>1 DEF Distinct
  <2>2. CASE i > Len(s) /\ j > Len(s)
    <3>1. i - Len(s) \in 1..Len(t) /\ j - Len(s) \in 1..Len(t) /\ p[i] = t[i - Len(s)]
          /\ p[j] = t[j - Len(s)]
      BY <1>1, <2>2
    <3>2. i - Len(s) = j - Len(s)
      BY <1>6, <3>1 DEF Distinct
    <3> QED
      BY <1>1, <3>2
  <2>3. CASE i <= Len(s) /\ j > Len(s)
    <3>1. i \in 1..Len(s) /\ p[i] = s[i] /\ j - Len(s) \in 1..Len(t) /\ p[j] = t[j - Len(s)]
      BY <1>1, <2>3
    <3>2. p[i].time \in TimesIn(s) /\ p[j].time \in TimesIn(t)
      BY <3>1 DEF TimesIn
    <3> QED
      BY <1>6, <3>2 DEF Disjoint
  <2>4. CASE i > Len(s) /\ j <= Len(s)
    <3>1. j \in 1..Len(s) /\ p[j] = s[j] /\ i - Len(s) \in 1..Len(t) /\ p[i] = t[i - Len(s)]
      BY <1>1, <2>4
    <3>2. p[j].time \in TimesIn(s) /\ p[i].time \in TimesIn(t)
      BY <3>1 DEF TimesIn
    <3> QED
      BY <1>6, <3>2 DEF Disjoint
  <2> QED
    BY <1>1, <2>1, <2>2, <2>3, <2>4
<1> QED
  BY <1>1, <1>5, <1>6 DEF Distinct, p

LEMMA TimesOfHead ==
  ASSUME NEW s \in Seq(PutData), s # <<>>
  PROVE  /\ Head(s) \in PutData /\ Tail(s) \in Seq(PutData)
         /\ Head(s).time \in TimesIn(s) /\ TimesIn(Tail(s)) \subseteq TimesIn(s)
         /\ Distinct(s) => Distinct(Tail(s)) /\ Head(s).time \notin TimesIn(Tail(s))
<1>1. Len(s) \in Nat \ {0} /\ Head(s) = s[1]
  BY EmptySeq
<1>2. Tail(s) = SubSeq(s, 2, Len(s))
  BY TailIsSubSeq
<1>3. 2 \in 1..(Len(s) + 1) /\ Len(s) \in 0..Len(s)
  BY <1>1
<1>4. /\ Tail(s) \in Seq(PutData) /\ TimesIn(Tail(s)) \subseteq TimesIn(s)
      /\ Distinct(s) => Distinct(Tail(s))
      /\ \A t \in TimesIn(Tail(s)) : \E i \in 2..Len(s) : t = s[i].time
  <2> DEFINE p == SubSeq(s, 2, Len(s))
  <2>1. /\ p \in Seq(PutData) /\ TimesIn(p) \subseteq TimesIn(s)
        /\ Distinct(s) => Distinct(p)
        /\ \A t \in TimesIn(p) : \E i \in 2..Len(s) : t = s[i].time
    BY <1>3, TimesOfPart
  <2>2. Tail(s) = p
    BY <1>2
  <2> HIDE DEF p
  <2> QED
    BY <2>1, <2>2, Zenon
<1>5. s[1] \in PutData /\ s[1].time \in TimesIn(s)
  BY <1>1, ElementOfSeq DEF TimesIn
<1>6. Distinct(s) => \A i \in 2..Len(s) : s[1].time # s[i].time
  BY <1>1 DEF Distinct
<1> QED
  BY <1>1, <1>4, <1>5, <1>6

--------------------------------------------------------------------------------
(***************************************************************************)
(* What the steps of the writers leave alone.                              *)
(***************************************************************************)
SameTelling == \A w \in Writers : /\ telling'[w].todo = telling[w].todo
                                  /\ telling'[w].val = telling[w].val
                                  /\ telling'[w].time = telling[w].time
                                  /\ telling'[w].version = telling[w].version

LEMMA ChangeKeeps ==
  ASSUME TypeOK, telling' = Change
  PROVE  telling' \in [Writers -> Telling] /\ SameTelling
<1>1. ASSUME NEW w \in Writers
      PROVE  /\ Change[w] \in Telling /\ Change[w].todo = telling[w].todo
             /\ Change[w].val = telling[w].val /\ Change[w].time = telling[w].time
             /\ Change[w].version = telling[w].version
  <2>1. telling[w] \in Telling
    BY DEF TypeOK
  <2>2. CASE telling[w] = Silent
    <3>1. Change[w] = telling[w]
      BY <2>2 DEF Change
    <3> QED
      BY <2>1, <3>1
  <2>3. CASE telling[w] # Silent
    <3>1. Change[w] = [telling[w] EXCEPT !.changed = TRUE]
      BY <2>3 DEF Change
    <3> QED
      BY <2>1, <3>1 DEF Telling
  <2> QED
    BY <2>2, <2>3
<1>2. Change \in [Writers -> Telling]
  <2> DEFINE f(w) == IF telling[w] = Silent THEN Silent ELSE [telling[w] EXCEPT !.changed = TRUE]
  <2>1. Change = [w \in Writers |-> f(w)]
    BY DEF Change
  <2>2. \A w \in Writers : f(w) \in Telling
    BY <1>1, <2>1
  <2> HIDE DEF f
  <2> QED
    BY <2>1, <2>2
<1> QED
  BY <1>1, <1>2 DEF SameTelling

LEMMA RestFramed ==
  ASSUME TypeOK, Announcing, \A r \in Readers : Reader(r), SameTelling,
         UNCHANGED <<entry, version, reading>>, clock' \in Nat, clock <= clock'
  PROVE  Announcing' /\ \A r \in Readers : Reader(r)'
<1> USE DEF reading, SameTelling, Shown
<1>1. clock \in Nat
  BY DEF TypeOK
<1>2. Announcing'
  BY <1>1 DEF Announcing
<1>3. ASSUME NEW r \in Readers PROVE Reader(r)'
  <2>1. Reader(r)
    OBVIOUS
  <2>2. InPhase(r)'
    BY <2>1 DEF Reader, InPhase
  <2>3. Versions(r)'
    BY <2>1 DEF Reader, Versions
  <2>4. InOrder(r)'
    BY <2>1 DEF Reader, InOrder
  <2>5. Accounted(r)'
    BY <2>1 DEF Reader, Accounted
  <2> QED
    BY <2>2, <2>3, <2>4, <2>5 DEF Reader
<1> QED
  BY <1>2, <1>3

LEMMA TimesKept ==
  ASSUME TypeOK, OwnTimes, UNCHANGED <<clock, pending, link>>,
         \A w \in Writers : telling'[w].time \in {telling[w].time, 0}
  PROVE  OwnTimes'
<1>1. \A w \in Writers : 0 \notin TimesIn(pending[w]) \cup TimesIn(link[w])
  BY DEF OwnTimes, Times
<1>2. clock \in Nat
  BY DEF TypeOK
<1> QED
  BY <1>1, <1>2 DEF OwnTimes

(***************************************************************************)
(* Messages of one writer that are sent, put back or lost keep their time. *)
(***************************************************************************)
LEMMA TimesMoved ==
  ASSUME OwnTimes, NEW w \in Writers, clock' = clock,
         \A x \in Writers : telling'[x].time = telling[x].time,
         \A x \in Writers : x # w => link'[x] = link[x] /\ pending'[x] = pending[x],
         Distinct(pending'[w]), Distinct(link'[w]), Disjoint(pending'[w], link'[w]),
         TimesIn(pending'[w]) \subseteq TimesIn(pending[w]),
         TimesIn(link'[w]) \subseteq TimesIn(link[w]) \cup TimesIn(pending[w])
  PROVE  OwnTimes'
<1>1. \A x \in Writers : /\ TimesIn(pending'[x]) \subseteq TimesIn(pending[x])
                         /\ TimesIn(link'[x]) \subseteq TimesIn(link[x]) \cup TimesIn(pending[x])
                         /\ Distinct(pending'[x]) /\ Distinct(link'[x])
                         /\ Disjoint(pending'[x], link'[x])
  BY DEF OwnTimes
<1>2. ASSUME NEW x \in Writers
      PROVE  /\ Distinct(pending'[x]) /\ Distinct(link'[x])
             /\ \A t \in TimesIn(pending'[x]) \cup TimesIn(link'[x]) : t \in Times /\ t <= clock'
             /\ telling'[x].time <= clock'
  BY <1>1 DEF OwnTimes
<1>3. ASSUME NEW x \in Writers, NEW y \in Writers
      PROVE  /\ Disjoint(pending'[x], link'[y])
             /\ x # y => Disjoint(pending'[x], pending'[y]) /\ Disjoint(link'[x], link'[y])
             /\ telling'[y].time \notin TimesIn(pending'[x]) \cup TimesIn(link'[x])
  <2>1. telling'[y].time \notin TimesIn(pending'[x]) \cup TimesIn(link'[x])
    BY <1>1 DEF OwnTimes
  <2>2. x # y => Disjoint(pending'[x], pending'[y]) /\ Disjoint(link'[x], link'[y])
    BY <1>1 DEF OwnTimes, Disjoint
  <2>3. x # y => Disjoint(pending'[x], link'[y])
    BY <1>1 DEF OwnTimes, Disjoint
  <2> QED
    BY <1>1, <2>1, <2>2, <2>3
<1> QED
  BY <1>2, <1>3 DEF OwnTimes

--------------------------------------------------------------------------------
(***************************************************************************)
(* The steps of the writers.                                               *)
(***************************************************************************)
LEMMA PutsStep ==
  ASSUME IInv, NEW w \in Writers, Puts(w)
  PROVE  IInv'
<1> USE DEF IInv, writing, server, reading
<1>1. clock \in Nat /\ clock' = clock + 1 /\ pending[w] \in Seq(PutData)
      /\ UNCHANGED <<link, online, server, reading, faults>>
  BY DEF Puts, TypeOK
<1>2. PICK e \in PutData : /\ e.time = clock'
                           /\ pending' = [pending EXCEPT ![w] = Append(pending[w], e)]
  <2>1. PICK v \in Values \cup {Absent}, t \in BOOLEAN :
             pending' = [pending EXCEPT ![w] =
                            Append(pending[w], [val |-> v, time |-> clock', ttl |-> t])]
    BY DEF Puts
  <2>2. [val |-> v, time |-> clock', ttl |-> t] \in PutData
    BY <1>1 DEF PutData, Told, Times
  <2> QED
    BY <2>1, <2>2
<1>3. e.time \notin TimesIn(pending[w])
  BY <1>1, <1>2 DEF OwnTimes, Times
<1>4. /\ Append(pending[w], e) \in Seq(PutData)
      /\ TimesIn(Append(pending[w], e)) = TimesIn(pending[w]) \cup {clock'}
      /\ Distinct(Append(pending[w], e))
  BY <1>1, <1>2, <1>3, TimesOfAppended DEF OwnTimes
<1>5. /\ pending' \in [Writers -> Seq(PutData)]
      /\ TimesIn(pending'[w]) = TimesIn(pending[w]) \cup {clock'}
      /\ Distinct(pending'[w])
      /\ \A x \in Writers : x # w => pending'[x] = pending[x]
  BY <1>2, <1>4 DEF TypeOK
<1>6. TypeOK'
  BY <1>1, <1>5 DEF TypeOK
<1>7. OwnTimes'
  <2>1. ASSUME NEW x \in Writers
        PROVE  /\ Distinct(pending'[x]) /\ Distinct(link'[x])
               /\ \A t \in TimesIn(pending'[x]) \cup TimesIn(link'[x]) : t \in Times /\ t <= clock'
               /\ telling'[x].time <= clock'
    <3>1. telling[x].time \in Nat
      BY DEF TypeOK, Telling
    <3>2. \A t \in TimesIn(pending[x]) \cup TimesIn(link[x]) : t \in Nat /\ t > 0 /\ t <= clock
      BY DEF OwnTimes, Times
    <3>3. TimesIn(pending'[x]) \subseteq TimesIn(pending[x]) \cup {clock'}
      BY <1>5
    <3>4. Distinct(pending'[x])
      BY <1>5 DEF OwnTimes
    <3> QED
      BY <1>1, <3>1, <3>2, <3>3, <3>4 DEF OwnTimes, Times
  <2>2. \A x \in Writers : /\ clock' \notin TimesIn(pending[x]) \cup TimesIn(link[x])
                           /\ clock' # telling[x].time
    <3>1. clock' = clock + 1 /\ clock \in Nat
      BY <1>1 DEF TypeOK
    <3>2. ASSUME NEW x \in Writers, NEW t \in TimesIn(pending[x]) \cup TimesIn(link[x])
          PROVE  t # clock'
      <4>1. t \in Nat /\ t <= clock
        BY DEF OwnTimes, Times
      <4> QED
        BY <3>1, <4>1
    <3>3. ASSUME NEW x \in Writers PROVE clock' # telling[x].time
      <4>1. telling[x].time \in Nat /\ telling[x].time <= clock
        BY DEF OwnTimes, TypeOK, Telling
      <4> QED
        BY <3>1, <4>1
    <3> QED
      BY <3>2, <3>3
  <2>3. ASSUME NEW x \in Writers, NEW y \in Writers
        PROVE  /\ Disjoint(pending'[x], link'[y])
               /\ x # y => Disjoint(pending'[x], pending'[y]) /\ Disjoint(link'[x], link'[y])
               /\ telling'[y].time \notin TimesIn(pending'[x]) \cup TimesIn(link'[x])
    <3>1. \A z \in Writers : TimesIn(pending'[z]) \subseteq TimesIn(pending[z]) \cup {clock'}
      BY <1>5
    <3>2. \A z \in Writers : telling'[z] = telling[z] /\ link'[z] = link[z]
      BY <1>1
    <3>3. Disjoint(pending'[x], link'[y])
      BY <2>2, <3>1, <3>2 DEF OwnTimes, Disjoint
    <3>4. telling'[y].time \notin TimesIn(pending'[x]) \cup TimesIn(link'[x])
      BY <2>2, <3>1, <3>2 DEF OwnTimes
    <3>5. ASSUME x # y
          PROVE  Disjoint(pending'[x], pending'[y]) /\ Disjoint(link'[x], link'[y])
      <4>1. Disjoint(pending[x], pending[y]) /\ Disjoint(link[x], link[y])
            /\ clock' \notin TimesIn(pending[x]) \cup TimesIn(pending[y])
        BY <2>2, <3>5 DEF OwnTimes
      <4>2. \/ pending'[x] = pending[x] /\ pending'[y] = pending[y]
            \/ pending'[x] = pending[x] /\ TimesIn(pending'[y]) = TimesIn(pending[y]) \cup {clock'}
            \/ pending'[y] = pending[y] /\ TimesIn(pending'[x]) = TimesIn(pending[x]) \cup {clock'}
        BY <1>5, <3>5
      <4>3. Disjoint(pending'[x], pending'[y])
        BY <4>1, <4>2 DEF Disjoint
      <4> QED
        BY <3>2, <4>1, <4>3
    <3> QED
      BY <3>3, <3>4, <3>5
  <2> QED
    BY <2>1, <2>3 DEF OwnTimes
<1>8. SameTelling
  BY <1>1 DEF SameTelling
<1>9. Announcing' /\ \A r \in Readers : Reader(r)'
  BY <1>1, <1>8, RestFramed
<1> QED
  BY <1>6, <1>7, <1>9

LEMMA SendsStep ==
  ASSUME IInv, NEW w \in Writers, Sends(w)
  PROVE  IInv'
<1> USE DEF IInv, writing, server, reading
<1>1. UNCHANGED <<clock, online, server, reading, faults>>
      /\ pending[w] \in Seq(PutData) /\ link[w] \in Seq(PutData)
      /\ Len(pending[w]) \in Nat
  BY LenProperties DEF Sends, TypeOK
<1>2. PICK n \in 1..Len(pending[w]) :
         /\ link' = [link EXCEPT ![w] = link[w] \o SubSeq(pending[w], 1, n)]
         /\ pending' = [pending EXCEPT ![w] = SubSeq(pending[w], n + 1, Len(pending[w]))]
  BY DEF Sends
<1> DEFINE first == SubSeq(pending[w], 1, n)
           rest == SubSeq(pending[w], n + 1, Len(pending[w]))
           joined == link[w] \o first
<1>3. 1 \in 1..(Len(pending[w]) + 1) /\ n \in 0..Len(pending[w])
      /\ n + 1 \in 1..(Len(pending[w]) + 1) /\ Len(pending[w]) \in 0..Len(pending[w])
  BY <1>1
<1>4. Distinct(pending[w]) /\ Distinct(link[w]) /\ Disjoint(pending[w], link[w])
  BY DEF OwnTimes
<1>5. /\ first \in Seq(PutData) /\ TimesIn(first) \subseteq TimesIn(pending[w]) /\ Distinct(first)
      /\ rest \in Seq(PutData) /\ TimesIn(rest) \subseteq TimesIn(pending[w]) /\ Distinct(rest)
  BY <1>1, <1>3, <1>4, TimesOfPart
<1>6. Disjoint(first, rest)
  BY <1>1, <1>3, <1>4, TimesOfSplit
<1> HIDE DEF first, rest
<1>7. /\ joined \in Seq(PutData) /\ TimesIn(joined) = TimesIn(link[w]) \cup TimesIn(first)
      /\ Distinct(link[w]) /\ Distinct(first) /\ Disjoint(link[w], first) => Distinct(joined)
  BY <1>1, <1>5, TimesOfJoined
<1>8. Distinct(joined) /\ Disjoint(rest, joined)
  BY <1>4, <1>5, <1>6, <1>7 DEF Disjoint
<1> HIDE DEF joined
<1>9. /\ link' \in [Writers -> Seq(PutData)] /\ pending' \in [Writers -> Seq(PutData)]
      /\ link'[w] = joined /\ pending'[w] = rest
      /\ \A x \in Writers : x # w => link'[x] = link[x] /\ pending'[x] = pending[x]
  BY <1>2, <1>5, <1>7 DEF TypeOK, joined, first, rest
<1>10. TypeOK'
  BY <1>1, <1>9 DEF TypeOK
<1>11. OwnTimes'
  BY <1>1, <1>5, <1>6, <1>7, <1>8, <1>9, TimesMoved DEF TypeOK
<1>12. SameTelling
  BY <1>1 DEF SameTelling
<1>13. Announcing' /\ \A r \in Readers : Reader(r)'
  BY <1>1, <1>12, RestFramed DEF TypeOK
<1> QED
  BY <1>10, <1>11, <1>13

LEMMA SendFailsStep ==
  ASSUME IInv, NEW w \in Writers, SendFails(w)
  PROVE  IInv'
<1> USE DEF IInv, reading
<1>1. UNCHANGED <<clock, link, entry, version, reading>> /\ telling' = Change
      /\ online' \subseteq Writers /\ faults' \in Nat
      /\ pending[w] \in Seq(PutData) /\ link[w] \in Seq(PutData) /\ Len(pending[w]) \in Nat
  BY LenProperties DEF SendFails, TypeOK
<1>2. PICK n \in 1..Len(pending[w]) :
         pending' = [pending EXCEPT ![w] = SubSeq(pending[w], n + 1, Len(pending[w]))
                                             \o SubSeq(pending[w], 1, n)]
  BY DEF SendFails
<1> DEFINE first == SubSeq(pending[w], 1, n)
           rest == SubSeq(pending[w], n + 1, Len(pending[w]))
           joined == rest \o first
<1>3. 1 \in 1..(Len(pending[w]) + 1) /\ n \in 0..Len(pending[w])
      /\ n + 1 \in 1..(Len(pending[w]) + 1) /\ Len(pending[w]) \in 0..Len(pending[w])
  BY <1>1
<1>4. Distinct(pending[w]) /\ Distinct(link[w]) /\ Disjoint(pending[w], link[w])
  BY DEF OwnTimes
<1>5. /\ first \in Seq(PutData) /\ TimesIn(first) \subseteq TimesIn(pending[w]) /\ Distinct(first)
      /\ rest \in Seq(PutData) /\ TimesIn(rest) \subseteq TimesIn(pending[w]) /\ Distinct(rest)
  BY <1>1, <1>3, <1>4, TimesOfPart
<1>6. Disjoint(first, rest)
  BY <1>1, <1>3, <1>4, TimesOfSplit
<1> HIDE DEF first, rest
<1>7. /\ joined \in Seq(PutData) /\ TimesIn(joined) = TimesIn(rest) \cup TimesIn(first)
      /\ Distinct(rest) /\ Distinct(first) /\ Disjoint(rest, first) => Distinct(joined)
  BY <1>1, <1>5, TimesOfJoined
<1>8. Distinct(joined) /\ Disjoint(joined, link[w])
  BY <1>4, <1>5, <1>6, <1>7 DEF Disjoint
<1> HIDE DEF joined
<1>9. /\ pending' \in [Writers -> Seq(PutData)] /\ pending'[w] = joined
      /\ \A x \in Writers : x # w => pending'[x] = pending[x]
  BY <1>2, <1>7 DEF TypeOK, joined, first, rest
<1>10. telling' \in [Writers -> Telling] /\ SameTelling
  BY <1>1, ChangeKeeps
<1>11. TypeOK'
  BY <1>1, <1>9, <1>10 DEF TypeOK
<1>12. OwnTimes'
  BY <1>1, <1>4, <1>5, <1>7, <1>8, <1>9, <1>10, TimesMoved DEF SameTelling
<1>13. Announcing' /\ \A r \in Readers : Reader(r)'
  BY <1>1, <1>10, RestFramed DEF TypeOK
<1> QED
  BY <1>11, <1>12, <1>13

LEMMA LosesWriterStep ==
  ASSUME IInv, NEW w \in Writers, LosesWriter(w)
  PROVE  IInv'
<1> USE DEF IInv, reading
<1>1. UNCHANGED <<clock, pending, entry, version, reading>> /\ telling' = Change
      /\ online' \subseteq Writers /\ faults' \in Nat
      /\ link[w] \in Seq(PutData) /\ Len(link[w]) \in Nat
  BY LenProperties DEF LosesWriter, TypeOK
<1>2. PICK n \in 0..Len(link[w]) : link' = [link EXCEPT ![w] = SubSeq(link[w], 1, n)]
  BY DEF LosesWriter
<1> DEFINE kept == SubSeq(link[w], 1, n)
<1>3. 1 \in 1..(Len(link[w]) + 1)
  BY <1>1
<1>4. /\ kept \in Seq(PutData) /\ TimesIn(kept) \subseteq TimesIn(link[w])
      /\ Distinct(link[w]) => Distinct(kept)
  BY <1>1, <1>3, TimesOfPart
<1> HIDE DEF kept
<1>5. Distinct(kept) /\ Distinct(pending[w]) /\ Disjoint(pending[w], kept)
  BY <1>4 DEF OwnTimes, Disjoint
<1>6. /\ link' \in [Writers -> Seq(PutData)] /\ link'[w] = kept
      /\ \A x \in Writers : x # w => link'[x] = link[x]
  BY <1>2, <1>4 DEF TypeOK, kept
<1>7. telling' \in [Writers -> Telling] /\ SameTelling
  BY <1>1, ChangeKeeps
<1>8. TypeOK'
  BY <1>1, <1>6, <1>7 DEF TypeOK
<1>9. OwnTimes'
  BY <1>1, <1>4, <1>5, <1>6, <1>7, TimesMoved DEF SameTelling
<1>10. Announcing' /\ \A r \in Readers : Reader(r)'
  BY <1>1, <1>7, RestFramed DEF TypeOK
<1> QED
  BY <1>8, <1>9, <1>10

LEMMA WriterConnectsStep ==
  ASSUME IInv, NEW w \in Writers, WriterConnects(w)
  PROVE  IInv'
<1> USE DEF IInv, reading
<1>1. UNCHANGED <<clock, pending, link, entry, version, reading, faults>> /\ telling' = Change
      /\ online' \subseteq Writers
  BY DEF WriterConnects, TypeOK
<1>2. telling' \in [Writers -> Telling] /\ SameTelling
  BY <1>1, ChangeKeeps
<1>3. TypeOK'
  BY <1>1, <1>2 DEF TypeOK
<1>4. OwnTimes'
  BY <1>1, <1>2, TimesKept DEF SameTelling
<1>5. Announcing' /\ \A r \in Readers : Reader(r)'
  BY <1>1, <1>2, RestFramed DEF TypeOK
<1> QED
  BY <1>3, <1>4, <1>5

--------------------------------------------------------------------------------
(***************************************************************************)
(* The server stores a value.                                              *)
(***************************************************************************)
LEMMA HandledTimes ==
  ASSUME TypeOK, OwnTimes, NEW w \in Writers, link[w] # <<>>
  PROVE  LET m == Head(link[w]) IN
         /\ m \in PutData /\ m.time \in Times /\ m.time <= clock /\ clock > 0
         /\ \A x \in Writers : telling[x].time # m.time
         /\ Tail(link[w]) \in Seq(PutData)
         /\ clock' = clock /\ pending' = pending /\ link' = [link EXCEPT ![w] = Tail(link[w])]
            /\ (\A x \in Writers : telling'[x].time \in {telling[x].time, m.time})
            => OwnTimes'
<1> DEFINE m == Head(link[w])
<1>1. link[w] \in Seq(PutData)
  BY DEF TypeOK
<1>2. /\ m \in PutData /\ Tail(link[w]) \in Seq(PutData)
      /\ m.time \in TimesIn(link[w]) /\ TimesIn(Tail(link[w])) \subseteq TimesIn(link[w])
      /\ Distinct(Tail(link[w])) /\ m.time \notin TimesIn(Tail(link[w]))
  BY <1>1, TimesOfHead DEF OwnTimes
<1> HIDE DEF m
<1>3. m.time \in Times /\ m.time <= clock /\ clock > 0
  BY <1>2 DEF OwnTimes, Times, TypeOK
<1>4. \A x \in Writers : telling[x].time # m.time
  BY <1>2 DEF OwnTimes
<1>5. \A x \in Writers : x # w => m.time \notin TimesIn(pending[x]) \cup TimesIn(link[x])
  BY <1>2 DEF OwnTimes, Disjoint
<1>6. m.time \notin TimesIn(pending[w])
  BY <1>2 DEF OwnTimes, Disjoint
<1>7. ASSUME clock' = clock, pending' = pending, link' = [link EXCEPT ![w] = Tail(link[w])],
             \A x \in Writers : telling'[x].time \in {telling[x].time, m.time}
      PROVE  OwnTimes'
  <2>1. link'[w] = Tail(link[w]) /\ \A x \in Writers : x # w => link'[x] = link[x]
    BY <1>7 DEF TypeOK
  <2>2. \A x \in Writers : /\ TimesIn(link'[x]) \subseteq TimesIn(link[x]) /\ Distinct(link'[x])
                           /\ m.time \notin TimesIn(pending'[x]) \cup TimesIn(link'[x])
    BY <1>2, <1>5, <1>6, <1>7, <2>1 DEF OwnTimes
  <2>3. ASSUME NEW x \in Writers
        PROVE  /\ Distinct(pending'[x]) /\ Distinct(link'[x])
               /\ \A t \in TimesIn(pending'[x]) \cup TimesIn(link'[x]) :
                     t \in Times /\ t <= clock'
               /\ telling'[x].time <= clock'
    BY <1>3, <1>7, <2>2 DEF OwnTimes
  <2>4. ASSUME NEW x \in Writers, NEW y \in Writers
        PROVE  /\ Disjoint(pending'[x], link'[y])
               /\ x # y => Disjoint(pending'[x], pending'[y]) /\ Disjoint(link'[x], link'[y])
               /\ telling'[y].time \notin TimesIn(pending'[x]) \cup TimesIn(link'[x])
    <3>1. telling[y].time \notin TimesIn(pending'[x]) \cup TimesIn(link'[x])
      BY <1>7, <2>2 DEF OwnTimes
    <3>2. telling'[y].time \notin TimesIn(pending'[x]) \cup TimesIn(link'[x])
      BY <1>7, <2>2, <3>1
    <3>3. x # y => Disjoint(pending'[x], pending'[y]) /\ Disjoint(link'[x], link'[y])
      BY <1>7, <2>2 DEF OwnTimes, Disjoint
    <3>4. Disjoint(pending'[x], link'[y])
      BY <1>7, <2>2 DEF OwnTimes, Disjoint
    <3> QED
      BY <3>2, <3>3, <3>4
  <2> QED
    BY <2>3, <2>4 DEF OwnTimes
<1> QED
  BY <1>2, <1>3, <1>4, <1>7 DEF m

LEMMA UpdateTypes ==
  ASSUME TypeOK, NEW r \in Readers
  PROVE  /\ out[r] \in Seq(Update) /\ Len(out[r]) \in Nat
         /\ \A i \in 1..Len(out[r]) :
               /\ out[r][i] \in Update /\ out[r][i].version \in Nat
               /\ out[r][i].time \in Nat /\ out[r][i].time > 0 /\ out[r][i].val \in Told
<1>1. out[r] \in Seq(Update)
  BY DEF TypeOK
<1>2. Len(out[r]) \in Nat /\ \A i \in 1..Len(out[r]) : out[r][i] \in Update
  BY <1>1, LenProperties, ElementOfSeq
<1> QED
  BY <1>1, <1>2 DEF Update, Times

LEMMA StoresStep ==
  ASSUME IInv, NEW w \in Writers, Stores(w)
  PROVE  IInv'
<1> USE DEF IInv, reading
<1> DEFINE m == Head(link[w])
<1>1. /\ link[w] # <<>> /\ telling[w] = Silent /\ link' = [link EXCEPT ![w] = Tail(link[w])]
      /\ UNCHANGED <<clock, pending, online, reading, faults>>
  BY DEF Stores
<1>2. /\ m \in PutData /\ m.time \in Times /\ m.time <= clock /\ clock > 0
      /\ \A x \in Writers : telling[x].time # m.time
      /\ Tail(link[w]) \in Seq(PutData)
      /\ (\A x \in Writers : telling'[x].time \in {telling[x].time, m.time}) => OwnTimes'
  BY <1>1, HandledTimes
<1>3. link' \in [Writers -> Seq(PutData)]
  BY <1>1, <1>2 DEF TypeOK
<1>4. \/ Renews(m) /\ entry' = [entry EXCEPT !.time = m.time, !.ttl = m.ttl]
         /\ UNCHANGED <<telling, version>>
      \/ UNCHANGED <<entry, telling, version>>
      \/ /\ entry' = [val |-> m.val, time |-> m.time, ttl |-> m.ttl, expired |-> FALSE]
         /\ version' = version + 1
         /\ telling' = [telling EXCEPT ![w] =
                [todo |-> Connected, val |-> m.val, time |-> m.time,
                 version |-> version + 1, changed |-> FALSE]]
  BY DEF Stores, Set
<1> HIDE DEF m
<1>5. CASE UNCHANGED <<entry, telling, version>>
  <2>1. TypeOK'
    BY <1>1, <1>3, <1>5 DEF TypeOK
  <2>2. OwnTimes'
    BY <1>2, <1>5
  <2>3. Announcing' /\ \A r \in Readers : Reader(r)'
    BY <1>1, <1>5, RestFramed DEF TypeOK, SameTelling
  <2> QED
    BY <2>1, <2>2, <2>3
<1>6. CASE Renews(m) /\ entry' = [entry EXCEPT !.time = m.time, !.ttl = m.ttl]
           /\ UNCHANGED <<telling, version>>
  <2>1. /\ entry' \in [val : Told, time : Nat, ttl : BOOLEAN, expired : BOOLEAN]
        /\ entry'.val = entry.val /\ entry'.time = m.time /\ Shown' = Shown
    BY <1>2, <1>6 DEF TypeOK, PutData, Times, Renews, Shown
  <2>2. TypeOK'
    BY <1>1, <1>3, <1>6, <2>1 DEF TypeOK
  <2>3. OwnTimes'
    BY <1>2, <1>6
  <2>4. Announcing'
    BY <1>1, <1>2, <1>6, <2>1 DEF Announcing, Times
  <2>5. ASSUME NEW r \in Readers PROVE Reader(r)'
    BY <1>1, <1>6, <2>1 DEF Reader, InPhase, Versions, InOrder, Accounted
  <2> QED
    BY <2>2, <2>3, <2>4, <2>5
<1>7. CASE /\ entry' = [val |-> m.val, time |-> m.time, ttl |-> m.ttl, expired |-> FALSE]
           /\ version' = version + 1
           /\ telling' = [telling EXCEPT ![w] =
                [todo |-> Connected, val |-> m.val, time |-> m.time,
                 version |-> version + 1, changed |-> FALSE]]
  <2>1. /\ entry' \in [val : Told, time : Nat, ttl : BOOLEAN, expired : BOOLEAN]
        /\ entry'.time = m.time /\ Shown' = m.val /\ entry'.val = m.val
    BY <1>2, <1>7 DEF PutData, Times, Shown
  <2>2. /\ telling' \in [Writers -> Telling]
        /\ telling'[w].todo = Connected /\ telling'[w].val = m.val
        /\ telling'[w].time = m.time /\ telling'[w].version = version + 1
        /\ \A x \in Writers : x # w => telling'[x] = telling[x]
    BY <1>2, <1>7 DEF TypeOK, Telling, PutData, Times, Connected
  <2>3. TypeOK'
    BY <1>1, <1>3, <1>7, <2>1, <2>2 DEF TypeOK
  <2>4. OwnTimes'
    BY <1>2, <2>2
  <2>5. version \in Nat /\ clock \in Nat /\ version' = version + 1
    BY <1>7 DEF TypeOK
  <2>6. Announcing'
    <3>1. \A x \in Writers : telling[x].version \in Nat
      BY DEF TypeOK, Telling
    <3>2. m.time \in Nat /\ m.time > 0
      BY <1>2 DEF Times
    <3>3. ASSUME NEW x \in Writers
          PROVE  /\ telling'[x].version <= version'
                 /\ telling'[x].version = version' => telling'[x].val = Shown'
                 /\ telling'[x].time = 0 => telling'[x].todo = {}
                 /\ telling'[x].time = entry'.time /\ Shown' # Absent
                       => telling'[x].version = version'
                 /\ \A r \in telling'[x].todo : phase'[r] # "off"
      <4>1. CASE x = w
        BY <1>1, <2>1, <2>2, <2>5, <3>2, <4>1 DEF Connected
      <4>2. CASE x # w
        BY <1>1, <1>2, <2>1, <2>2, <2>5, <3>1, <4>2 DEF Announcing
      <4> QED
        BY <4>1, <4>2
    <3>4. \A x, y \in Writers :
             x # y /\ telling'[x].time = telling'[y].time => telling'[x].time = 0
      BY <1>2, <2>2 DEF Announcing
    <3> QED
      BY <1>1, <1>2, <2>1, <2>5, <3>2, <3>3, <3>4 DEF Announcing
  <2>7. ASSUME NEW r \in Readers PROVE Reader(r)'
    <3>1. Reader(r)
      OBVIOUS
    <3>2. InPhase(r)'
      BY <1>1, <3>1 DEF Reader, InPhase
    <3>3. /\ seen[r] \in Nat /\ missed[r] \in Nat
          /\ \A i \in 1..Len(out[r]) : out[r][i].version \in Nat
      BY UpdateTypes DEF TypeOK
    <3>4. Versions(r)'
      BY <1>1, <2>5, <3>1, <3>3 DEF Reader, Versions
    <3>5. InOrder(r)'
      <4>1. /\ seen[r] <= version + 1 /\ InOrder(r)
            /\ \A i \in 1..Len(out[r]) : out[r][i].version <= version + 1
        <5>1. /\ seen[r] <= version /\ version \in Nat
              /\ \A i \in 1..Len(out[r]) : out[r][i].version <= version
          BY <3>1 DEF Reader, Versions, TypeOK
        <5> QED
          BY <3>1, <3>3, <5>1 DEF Reader
      <4>2. /\ out'[r] = out[r] /\ seen'[r] = seen[r] /\ copy'[r] = copy[r]
            /\ \A x \in Writers : telling'[x].version = version + 1 \/ telling'[x] = telling[x]
        BY <1>1, <2>2
      <4> QED
        BY <4>1, <4>2 DEF InOrder
    <3>6. Accounted(r)'
      BY <1>1, <2>2, <2>5 DEF Accounted, Connected
    <3> QED
      BY <3>2, <3>4, <3>5, <3>6 DEF Reader
  <2> QED
    BY <2>3, <2>4, <2>6, <2>7
<1> QED
  BY <1>4, <1>5, <1>6, <1>7

--------------------------------------------------------------------------------
(***************************************************************************)
(* The server announces a value to one reader after the other.             *)
(***************************************************************************)
LEMMA SilentIs == /\ Silent \in Telling /\ Silent.todo = {} /\ Silent.val = Absent
                  /\ Silent.time = 0 /\ Silent.version = 0
BY DEF Silent, Telling, Told

LEMMA SilentAnnounces ==
  ASSUME Announcing, NEW w \in Writers, telling'[w] = Silent,
         \A x \in Writers : x # w => telling'[x] = telling[x],
         UNCHANGED <<clock, entry, version, phase>>, version \in Nat
  PROVE  Announcing'
<1>1. Shown' = Shown
  BY DEF Shown
<1>2. version = 0 => Shown = Absent
  BY DEF Shown, Announcing
<1>3. Shown # Absent => entry.time > 0
  BY DEF Shown, Announcing
<1>4. ASSUME NEW x \in Writers
      PROVE  /\ telling'[x].version <= version
             /\ telling'[x].version = version => telling'[x].val = Shown
             /\ telling'[x].time = 0 => telling'[x].todo = {}
             /\ telling'[x].time = entry.time /\ Shown # Absent => telling'[x].version = version
             /\ \A r \in telling'[x].todo : phase[r] # "off"
  <2>1. CASE x = w
    BY <1>2, <1>3, <2>1, SilentIs
  <2>2. CASE x # w
    BY <2>2 DEF Announcing
  <2> QED
    BY <2>1, <2>2
<1>5. \A x, y \in Writers :
         x # y /\ telling'[x].time = telling'[y].time => telling'[x].time = 0
  BY SilentIs DEF Announcing
<1> QED
  BY <1>1, <1>4, <1>5 DEF Announcing

LEMMA Greater ==
  ASSUME NEW m \in Nat, NEW n \in Nat
  PROVE  /\ Larger(m, n) \in {m, n} /\ Larger(m, n) \in Nat
         /\ m <= Larger(m, n) /\ n <= Larger(m, n)
BY DEF Larger

LEMMA AnnouncesStep ==
  ASSUME IInv, NEW w \in Writers, Announces(w)
  PROVE  IInv'
<1> USE DEF IInv, writing
<1>1. /\ UNCHANGED <<clock, pending, link, online, entry, version, phase, subscribed, copy, seen,
                     faults>>
      /\ Shown' = Shown /\ version \in Nat
  BY DEF Announces, TypeOK, Shown
<1>2. PICK r \in telling[w].todo :
          /\ telling' = [telling EXCEPT ![w].todo = telling[w].todo \ {r}]
          /\ IF r \in subscribed
             THEN /\ out' = [out EXCEPT ![r] = Append(out[r], Message(telling[w]))]
                  /\ UNCHANGED missed
             ELSE /\ missed' = [missed EXCEPT ![r] =
                        IF phase[r] = "asked" THEN missed[r]
                        ELSE Larger(missed[r], telling[w].version)]
                  /\ UNCHANGED out
  BY DEF Announces
<1>3. /\ telling[w] \in Telling /\ r \in Readers /\ telling[w].version \in Nat
      /\ telling[w].version <= version /\ telling[w].time \in Times
      /\ telling[w].version = version => telling[w].val = Shown
      /\ phase[r] # "off"
  BY <1>2 DEF TypeOK, Telling, Announcing, Times
<1>4. /\ telling' \in [Writers -> Telling]
      /\ telling'[w].todo = telling[w].todo \ {r}
      /\ \A x \in Writers : /\ x # w => telling'[x].todo = telling[x].todo
                            /\ telling'[x].val = telling[x].val
                            /\ telling'[x].time = telling[x].time
                            /\ telling'[x].version = telling[x].version
  BY <1>2, <1>3 DEF TypeOK, Telling
<1>5. OwnTimes'
  BY <1>1, <1>4, TimesKept
<1>6. Announcing'
  BY <1>1, <1>4 DEF Announcing
<1> DEFINE u == Message(telling[w])
<1>7. /\ u \in Update /\ u.val = telling[w].val /\ u.time = telling[w].time
      /\ u.version = telling[w].version
  BY <1>3 DEF Message, Update, Telling
<1> HIDE DEF u
<1>8. ASSUME NEW q \in Readers, q # r
      PROVE  Reader(q)'
  <2>1. out'[q] = out[q] /\ missed'[q] = missed[q] /\ copy'[q] = copy[q] /\ seen'[q] = seen[q]
    BY <1>1, <1>2, <1>8 DEF TypeOK
  <2>2. \A x \in Writers : q \in telling'[x].todo <=> q \in telling[x].todo
    BY <1>4, <1>8
  <2>3. InPhase(q)' /\ Versions(q)'
    BY <1>1, <2>1 DEF Reader, InPhase, Versions
  <2>4. InOrder(q)'
    BY <1>4, <2>1, <2>2 DEF Reader, InOrder
  <2>5. Accounted(q)'
    BY <1>1, <1>4, <2>1, <2>2 DEF Reader, Accounted
  <2> QED
    BY <2>3, <2>4, <2>5 DEF Reader
<1>9. CASE r \in subscribed
  <2> DEFINE t == Append(out[r], u)
  <2>1. /\ t \in Seq(Update) /\ Len(t) = Len(out[r]) + 1 /\ Len(out[r]) \in Nat
        /\ \A i \in 1..Len(out[r]) : t[i] = out[r][i]
        /\ t[Len(out[r]) + 1] = u
    BY <1>3, <1>7, UpdateTypes, AppendProperties
  <2> HIDE DEF t
  <2>2. missed' = missed /\ out' \in [Readers -> Seq(Update)] /\ out'[r] = t
    <3>1. missed' = missed /\ out' = [out EXCEPT ![r] = t]
      BY <1>2, <1>9 DEF t, u
    <3>2. out \in [Readers -> Seq(Update)]
      BY DEF TypeOK
    <3> QED
      BY <1>3, <2>1, <3>1, <3>2
  <2>3. TypeOK'
    BY <1>1, <1>4, <2>2 DEF TypeOK
  <2>4. phase[r] = "on" /\ Reader(r)
    BY <1>3, <1>9 DEF Reader, InPhase
  <2>5. InPhase(r)'
    BY <1>1, <2>4 DEF Reader, InPhase
  <2>6. ASSUME NEW i \in 1..Len(t)
        PROVE  \/ i \in 1..Len(out[r]) /\ t[i] = out[r][i]
               \/ i = Len(out[r]) + 1 /\ t[i] = u
    <3>1. i \in 1..Len(out[r]) \/ i = Len(out[r]) + 1
      BY <2>1
    <3> QED
      BY <2>1, <3>1
  <2>7. Versions(r)'
    BY <1>1, <1>3, <1>7, <2>2, <2>4, <2>6 DEF Reader, Versions
  <2>8. InOrder(r)'
    <3>1. ASSUME NEW i \in 1..Len(t), NEW j \in 1..Len(t),
                 i < j, t[i].val # Absent, t[i].time = t[j].time
          PROVE  t[i].version <= t[j].version
      <4>1. i \in 1..Len(out[r]) /\ t[i] = out[r][i]
        BY <2>1, <3>1
      <4>2. CASE j \in 1..Len(out[r]) /\ t[j] = out[r][j]
        BY <2>4, <3>1, <4>1, <4>2 DEF Reader, InOrder
      <4>3. CASE t[j] = u
        BY <1>2, <1>7, <2>4, <3>1, <4>1, <4>3 DEF Reader, InOrder
      <4> QED
        BY <2>6, <4>2, <4>3
    <3>2. ASSUME NEW i \in 1..Len(t), copy[r].val # Absent, t[i].time = copy[r].time
          PROVE  seen[r] <= t[i].version
      BY <1>2, <1>7, <2>4, <2>6, <3>2 DEF Reader, InOrder
    <3>3. ASSUME NEW x \in Writers, r \in telling'[x].todo
          PROVE  /\ copy[r].val # Absent /\ telling[x].time = copy[r].time
                       => seen[r] <= telling[x].version
                 /\ \A i \in 1..Len(t) : t[i].val # Absent /\ t[i].time = telling[x].time
                       => t[i].version <= telling[x].version
      <4>1. x # w /\ r \in telling[x].todo
        BY <1>4, <3>3
      <4>2. telling[x].time # telling[w].time
        BY <1>3, <4>1 DEF Announcing, Times
      <4> QED
        BY <1>7, <2>4, <2>6, <4>1, <4>2 DEF Reader, InOrder
    <3> QED
      BY <1>1, <1>4, <2>2, <3>1, <3>2, <3>3 DEF InOrder
  <2>9. Accounted(r)'
    <3>1. CASE telling[w].version = version
      <4>1. Len(t) \in 1..Len(t) /\ t[Len(t)].version = version
        BY <1>7, <2>1, <3>1
      <4> QED
        BY <1>1, <2>2, <4>1 DEF Accounted
    <3>2. CASE telling[w].version # version
      <4>1. \A i \in 1..Len(out[r]) : i \in 1..Len(t) /\ t[i] = out[r][i]
        BY <2>1
      <4>2. \A x \in Writers : r \in telling[x].todo /\ telling[x].version = version
                               => r \in telling'[x].todo /\ telling'[x].version = version
        BY <1>4, <3>2
      <4> QED
        BY <1>1, <2>2, <2>4, <4>1, <4>2 DEF Reader, Accounted
    <3> QED
      BY <3>1, <3>2
  <2>10. Reader(r)'
    BY <2>5, <2>7, <2>8, <2>9 DEF Reader
  <2> QED
    BY <1>5, <1>6, <1>8, <2>3, <2>10
<1>10. CASE r \notin subscribed
  <2> DEFINE n == IF phase[r] = "asked" THEN missed[r]
                  ELSE Larger(missed[r], telling[w].version)
  <2>0. missed[r] \in Nat /\ n \in Nat /\ missed[r] <= n
        /\ (phase[r] # "asked" => telling[w].version <= n)
        /\ n \in {missed[r], telling[w].version}
    <3>1. missed[r] \in Nat
      BY <1>3 DEF TypeOK
    <3>2. /\ Larger(missed[r], telling[w].version) \in {missed[r], telling[w].version}
          /\ missed[r] <= Larger(missed[r], telling[w].version)
          /\ telling[w].version <= Larger(missed[r], telling[w].version)
      BY <1>3, <3>1, Greater
    <3> QED
      BY <1>3, <3>1, <3>2
  <2>11. out' = out /\ missed' = [missed EXCEPT ![r] = n]
    BY <1>2, <1>10
  <2> HIDE DEF n
  <2>1. /\ out' = out /\ missed' \in [Readers -> Nat] /\ missed'[r] = n
    BY <1>3, <2>0, <2>11 DEF TypeOK
  <2>2. TypeOK'
    BY <1>1, <1>4, <2>1 DEF TypeOK
  <2>3. Reader(r) /\ InPhase(r)'
    BY <1>1, <1>3, <2>1 DEF Reader, InPhase
  <2>4. missed'[r] <= version /\ missed[r] <= missed'[r]
    BY <1>3, <2>0, <2>1, <2>3 DEF Reader, Versions
  <2>5. Versions(r)'
    BY <1>1, <2>1, <2>3, <2>4 DEF Reader, Versions
  <2>6. InOrder(r)'
    <3>1. \A x \in Writers : r \in telling'[x].todo => r \in telling[x].todo
      BY <1>4
    <3> QED
      BY <1>1, <1>4, <2>1, <2>3, <3>1 DEF Reader, InOrder
  <2>7. Accounted(r)'
    <3>1. CASE phase[r] = "asked"
      BY <1>1, <3>1 DEF Accounted
    <3>2. CASE phase[r] # "asked" /\ version \in {missed[r], telling[w].version}
      <4>1. missed'[r] = version
        BY <1>1, <1>3, <2>0, <2>1, <2>4, <3>2
      <4> QED
        BY <1>1, <4>1 DEF Accounted
    <3>3. CASE phase[r] # "asked" /\ version \notin {missed[r], telling[w].version}
      <4>1. \A x \in Writers : r \in telling[x].todo /\ telling[x].version = version
                               => r \in telling'[x].todo /\ telling'[x].version = version
        BY <1>4, <3>3
      <4> QED
        BY <1>1, <2>1, <2>3, <3>3, <4>1 DEF Reader, Accounted
    <3> QED
      BY <3>1, <3>2, <3>3
  <2>8. Reader(r)'
    BY <2>3, <2>5, <2>6, <2>7 DEF Reader
  <2> QED
    BY <1>5, <1>6, <1>8, <2>2, <2>8
<1> QED
  BY <1>9, <1>10

LEMMA AnnouncedStep ==
  ASSUME IInv, NEW w \in Writers, Announced(w)
  PROVE  IInv'
<1> USE DEF IInv, writing, reading
<1>1. /\ telling[w].todo = {} /\ telling' = [telling EXCEPT ![w] = Silent]
      /\ UNCHANGED <<clock, pending, link, online, entry, version, reading, faults>>
      /\ Shown' = Shown
  BY DEF Announced, Set, Shown
<1>2. /\ telling' \in [Writers -> Telling] /\ telling'[w] = Silent
      /\ \A x \in Writers : x # w => telling'[x] = telling[x]
  BY <1>1, SilentIs DEF TypeOK
<1>3. TypeOK'
  BY <1>1, <1>2 DEF TypeOK
<1>4. OwnTimes'
  BY <1>1, <1>2, SilentIs, TimesKept
<1>5. Announcing'
  BY <1>1, <1>2, SilentAnnounces DEF TypeOK
<1>6. \A x \in Writers : /\ telling'[x].todo = telling[x].todo
                         /\ telling[x].todo = {} \/ telling'[x] = telling[x]
  BY <1>1, <1>2, SilentIs
<1>7. ASSUME NEW r \in Readers PROVE Reader(r)'
  <2>1. Reader(r)
    OBVIOUS
  <2>2. InPhase(r)' /\ Versions(r)'
    BY <1>1, <2>1 DEF Reader, InPhase, Versions
  <2>3. InOrder(r)'
    BY <1>1, <1>6, <2>1 DEF Reader, InOrder
  <2>4. Accounted(r)'
    BY <1>1, <1>6, <2>1 DEF Reader, Accounted
  <2> QED
    BY <2>2, <2>3, <2>4 DEF Reader
<1> QED
  BY <1>3, <1>4, <1>5, <1>7

LEMMA AbortsStep ==
  ASSUME IInv, NEW w \in Writers, Aborts(w)
  PROVE  IInv'
<1> USE DEF IInv, writing
<1>1. /\ telling' = [telling EXCEPT ![w] = Silent]
      /\ missed' = [r \in Readers |-> IF r \in telling[w].todo
                                      THEN Larger(missed[r], telling[w].version)
                                      ELSE missed[r]]
      /\ UNCHANGED <<clock, pending, link, online, entry, version, phase, subscribed, out, copy,
                     seen, faults>>
      /\ Shown' = Shown
  BY DEF Aborts, Set, Shown
<1>2. /\ telling' \in [Writers -> Telling] /\ telling'[w] = Silent
      /\ \A x \in Writers : x # w => telling'[x] = telling[x]
  BY <1>1, SilentIs DEF TypeOK
<1>3. telling[w].version \in Nat /\ telling[w].version <= version /\ version \in Nat
  BY DEF TypeOK, Telling, Announcing
<1>4. ASSUME NEW r \in Readers
      PROVE  /\ missed'[r] \in Nat /\ missed[r] <= missed'[r] /\ missed'[r] <= version
             /\ r \in telling[w].todo => telling[w].version <= missed'[r]
  <2>1. missed[r] \in Nat /\ missed[r] <= version
    BY DEF TypeOK, Reader, Versions
  <2>2. /\ Larger(missed[r], telling[w].version) \in {missed[r], telling[w].version}
        /\ missed[r] <= Larger(missed[r], telling[w].version)
        /\ telling[w].version <= Larger(missed[r], telling[w].version)
    BY <1>3, <2>1, Greater
  <2>3. missed'[r] = IF r \in telling[w].todo THEN Larger(missed[r], telling[w].version)
                     ELSE missed[r]
    BY <1>1
  <2> QED
    BY <1>3, <2>1, <2>2, <2>3
<1>5. missed' \in [Readers -> Nat]
  <2> DEFINE f(r) == IF r \in telling[w].todo THEN Larger(missed[r], telling[w].version)
                     ELSE missed[r]
  <2>1. missed' = [r \in Readers |-> f(r)] /\ \A r \in Readers : f(r) \in Nat
    BY <1>1, <1>4
  <2> HIDE DEF f
  <2> QED
    BY <2>1
<1>6. TypeOK'
  BY <1>1, <1>2, <1>5 DEF TypeOK
<1>7. OwnTimes'
  BY <1>1, <1>2, SilentIs, TimesKept
<1>8. Announcing'
  BY <1>1, <1>2, <1>3, SilentAnnounces
<1>9. ASSUME NEW r \in Readers PROVE Reader(r)'
  <2>1. Reader(r)
    OBVIOUS
  <2>2. InPhase(r)' /\ Versions(r)'
    BY <1>1, <1>4, <2>1 DEF Reader, InPhase, Versions
  <2>3. InOrder(r)'
    <3>1. \A x \in Writers : r \in telling'[x].todo => telling'[x] = telling[x]
      BY <1>2, SilentIs
    <3> QED
      BY <1>1, <2>1, <3>1 DEF Reader, InOrder
  <2>4. Accounted(r)'
    <3>1. CASE version = missed[r] \/ (r \in telling[w].todo /\ telling[w].version = version)
      <4>1. missed'[r] = version
        BY <1>3, <1>4, <2>1, <3>1 DEF Reader, Versions
      <4> QED
        BY <1>1, <4>1 DEF Accounted
    <3>2. CASE ~ (version = missed[r] \/ (r \in telling[w].todo /\ telling[w].version = version))
      <4>1. \A x \in Writers : r \in telling[x].todo /\ telling[x].version = version
                               => telling'[x] = telling[x]
        BY <1>2, <3>2
      <4> QED
        BY <1>1, <2>1, <3>2, <4>1 DEF Reader, Accounted
    <3> QED
      BY <3>1, <3>2
  <2> QED
    BY <2>2, <2>3, <2>4 DEF Reader
<1> QED
  BY <1>6, <1>7, <1>8, <1>9

LEMMA ExpiresStep ==
  ASSUME IInv, Expires
  PROVE  IInv'
<1> USE DEF IInv, writing
<1> DEFINE u == [val |-> Absent, time |-> clock, version |-> version + 1]
<1>1. /\ entry.val # Absent /\ entry' = [entry EXCEPT !.expired = TRUE] /\ version' = version + 1
      /\ \A w \in Writers : telling[w].version # version
      /\ out' = [r \in Readers |-> IF r \in subscribed THEN Append(out[r], u) ELSE out[r]]
      /\ missed' = [r \in Readers |->
                       IF r \in subscribed \/ phase[r] \in {"off", "asked"} THEN missed[r]
                       ELSE version + 1]
      /\ UNCHANGED <<clock, pending, link, online, telling, phase, subscribed, copy, seen, faults>>
  BY DEF Expires
<1>2. version \in Nat /\ clock \in Nat /\ clock > 0
  BY <1>1 DEF TypeOK, Announcing
<1>3. u \in Update /\ u.val = Absent /\ u.version = version + 1
  BY <1>2 DEF Update, Told, Times
<1> HIDE DEF u
<1>4. /\ entry' \in [val : Told, time : Nat, ttl : BOOLEAN, expired : BOOLEAN]
      /\ Shown' = Absent /\ entry'.val = entry.val /\ entry'.time = entry.time
  BY <1>1 DEF TypeOK, Shown
<1>5. ASSUME NEW r \in Readers
      PROVE  /\ Append(out[r], u) \in Seq(Update) /\ Len(Append(out[r], u)) = Len(out[r]) + 1
             /\ Len(out[r]) \in Nat
             /\ \A i \in 1..Len(out[r]) : Append(out[r], u)[i] = out[r][i]
             /\ Append(out[r], u)[Len(out[r]) + 1] = u
  BY <1>3, UpdateTypes, AppendProperties
<1>6. out' \in [Readers -> Seq(Update)]
  <2> DEFINE f(r) == IF r \in subscribed THEN Append(out[r], u) ELSE out[r]
  <2>1. out' = [r \in Readers |-> f(r)] /\ \A r \in Readers : f(r) \in Seq(Update)
    BY <1>1, <1>5, UpdateTypes
  <2> HIDE DEF f
  <2> QED
    BY <2>1
<1>7. missed' \in [Readers -> Nat]
  BY <1>1, <1>2 DEF TypeOK
<1>8. TypeOK'
  BY <1>1, <1>2, <1>4, <1>6, <1>7 DEF TypeOK
<1>9. OwnTimes'
  BY <1>1, TimesKept
<1>10. ASSUME NEW w \in Writers
       PROVE  telling[w].version \in Nat /\ telling[w].version < version + 1
  <2>1. telling[w] \in Telling
    BY DEF TypeOK
  <2>2. telling[w].version \in Nat
    BY <2>1 DEF Telling
  <2>3. telling[w].version <= version
    BY DEF Announcing
  <2> QED
    BY <1>2, <2>2, <2>3
<1>11. Announcing'
  BY <1>1, <1>2, <1>4, <1>10 DEF Announcing
<1>12. ASSUME NEW r \in Readers PROVE Reader(r)'
  <2>1. /\ Reader(r) /\ copy' = copy /\ seen' = seen /\ phase' = phase
        /\ out'[r] = IF r \in subscribed THEN Append(out[r], u) ELSE out[r]
    BY <1>1
  <2>2. /\ seen[r] \in Nat /\ missed[r] \in Nat /\ seen[r] < version + 1 /\ missed[r] < version + 1
        /\ \A i \in 1..Len(out[r]) : out[r][i].version \in Nat /\ out[r][i].version < version + 1
    BY <1>2, <2>1, UpdateTypes DEF TypeOK, Reader, Versions
  <2>3. \A i \in 1..Len(out'[r]) : \/ i \in 1..Len(out[r]) /\ out'[r][i] = out[r][i]
                                   \/ /\ i = Len(out[r]) + 1 /\ r \in subscribed
                                      /\ out'[r][i] = u
    <3>1. CASE r \in subscribed
      <4> DEFINE t == Append(out[r], u)
      <4>1. /\ Len(t) = Len(out[r]) + 1 /\ Len(out[r]) \in Nat
            /\ \A i \in 1..Len(out[r]) : t[i] = out[r][i]
            /\ t[Len(out[r]) + 1] = u /\ out'[r] = t
        BY <1>5, <2>1, <3>1
      <4> HIDE DEF t
      <4>2. ASSUME NEW i \in 1..Len(t)
            PROVE  i \in 1..Len(out[r]) \/ i = Len(out[r]) + 1
        BY <4>1
      <4> QED
        BY <3>1, <4>1, <4>2
    <3>2. CASE r \notin subscribed
      BY <2>1, <3>2
    <3> QED
      BY <3>1, <3>2
  <2>4. InPhase(r)'
    BY <1>1, <2>1 DEF Reader, InPhase
  <2>5. Versions(r)'
    <3>1. \A i \in 1..Len(out'[r]) : /\ out'[r][i].version <= version + 1
                                     /\ out'[r][i].version = version + 1 => out'[r][i].val = Absent
      BY <1>2, <1>3, <2>2, <2>3, SMTT(30)
    <3>2. missed'[r] <= version + 1
      BY <1>1, <1>2, <2>2
    <3> QED
      BY <1>1, <1>2, <1>4, <2>1, <2>2, <3>1, <3>2 DEF Versions
  <2>6. InOrder(r)'
    <3>1. InOrder(r)
      BY <2>1 DEF Reader
    <3>2. ASSUME NEW i \in 1..Len(out'[r]), NEW j \in 1..Len(out'[r]),
                 i < j, out'[r][i].val # Absent, out'[r][i].time = out'[r][j].time
          PROVE  out'[r][i].version <= out'[r][j].version
      <4>1. i \in 1..Len(out[r]) /\ out'[r][i] = out[r][i]
        BY <1>3, <2>3, <3>2
      <4>2. CASE j \in 1..Len(out[r]) /\ out'[r][j] = out[r][j]
        BY <3>1, <3>2, <4>1, <4>2 DEF InOrder
      <4>3. CASE out'[r][j] = u
        BY <1>2, <1>3, <2>2, <4>1, <4>3
      <4> QED
        BY <2>3, <4>2, <4>3
    <3>3. ASSUME NEW i \in 1..Len(out'[r]), copy[r].val # Absent, out'[r][i].time = copy[r].time
          PROVE  seen[r] <= out'[r][i].version
      BY <1>2, <1>3, <2>2, <2>3, <3>1, <3>3 DEF InOrder
    <3>4. ASSUME NEW w \in Writers, r \in telling[w].todo
          PROVE  /\ copy[r].val # Absent /\ telling[w].time = copy[r].time
                       => seen[r] <= telling[w].version
                 /\ \A i \in 1..Len(out'[r]) :
                       out'[r][i].val # Absent /\ out'[r][i].time = telling[w].time
                       => out'[r][i].version <= telling[w].version
      BY <1>3, <2>3, <3>1, <3>4 DEF InOrder
    <3> QED
      BY <1>1, <2>1, <3>2, <3>3, <3>4 DEF InOrder
  <2>7. Accounted(r)'
    <3>1. CASE r \in subscribed
      <4>1. Len(out'[r]) \in 1..Len(out'[r]) /\ out'[r][Len(out'[r])].version = version + 1
        BY <1>3, <1>5, <2>1, <3>1
      <4> QED
        BY <1>1, <4>1 DEF Accounted
    <3>2. CASE r \notin subscribed /\ phase[r] \notin {"off", "asked"}
      BY <1>1, <3>2 DEF Accounted
    <3>3. CASE phase[r] \in {"off", "asked"}
      BY <2>1, <3>3 DEF Accounted
    <3> QED
      BY <3>1, <3>2, <3>3
  <2> QED
    BY <2>4, <2>5, <2>6, <2>7 DEF Reader
<1> QED
  BY <1>8, <1>9, <1>11, <1>12

--------------------------------------------------------------------------------
(***************************************************************************)
(* The steps of the readers, which leave the server and the writers alone. *)
(***************************************************************************)
LEMMA OtherReader ==
  ASSUME TypeOK, \A r \in Readers : Reader(r), NEW q \in Readers,
         UNCHANGED <<entry, version>>,
         phase'[q] = phase[q], q \in subscribed' <=> q \in subscribed, out'[q] = out[q],
         copy'[q] = copy[q], seen'[q] = seen[q], missed'[q] = missed[q],
         \A w \in Writers : /\ q \in telling'[w].todo <=> q \in telling[w].todo
                            /\ telling'[w].time = telling[w].time
                            /\ telling'[w].version = telling[w].version
  PROVE  Reader(q)'
<1>1. Reader(q) /\ Shown' = Shown
  BY DEF Shown
<1>2. InPhase(q)' /\ Versions(q)'
  BY <1>1 DEF Reader, InPhase, Versions
<1>3. InOrder(q)'
  BY <1>1 DEF Reader, InOrder
<1>4. Accounted(q)'
  BY <1>1 DEF Reader, Accounted
<1> QED
  BY <1>2, <1>3, <1>4 DEF Reader

LEMMA ConnectsStep ==
  ASSUME IInv, NEW r \in Readers, Connects(r)
  PROVE  IInv'
<1> USE DEF IInv, writing
<1>1. /\ phase[r] = "off" /\ phase' = [phase EXCEPT ![r] = "asked"] /\ telling' = Change
      /\ copy' = [copy EXCEPT ![r] = Nothing]
      /\ seen' = [seen EXCEPT ![r] = 0] /\ missed' = [missed EXCEPT ![r] = 0]
      /\ UNCHANGED <<clock, pending, link, online, entry, version, subscribed, out, faults>>
      /\ Shown' = Shown
  BY DEF Connects, Set, Shown
<1>2. telling' \in [Writers -> Telling] /\ SameTelling
  BY <1>1, ChangeKeeps
<1>3. Nothing \in [val : Told, time : Nat] /\ Nothing.val = Absent
  BY DEF Nothing, Told
<1>4. TypeOK'
  BY <1>1, <1>2, <1>3 DEF TypeOK
<1>5. OwnTimes'
  BY <1>1, <1>2, TimesKept DEF SameTelling
<1>6. \A q \in Readers : phase'[q] = "off" => phase[q] = "off"
  BY <1>1 DEF TypeOK
<1>7. Announcing'
  BY <1>1, <1>2, <1>6 DEF Announcing, SameTelling, TypeOK, Telling
<1>8. ASSUME NEW q \in Readers, q # r PROVE Reader(q)'
  BY <1>1, <1>2, <1>8, OtherReader DEF TypeOK, SameTelling
<1>9. Reader(r)'
  <2>1. /\ phase'[r] = "asked" /\ copy'[r] = Nothing /\ seen'[r] = 0 /\ missed'[r] = 0
        /\ out'[r] = <<>> /\ r \notin subscribed
    BY <1>1 DEF TypeOK, Reader, InPhase
  <2>2. InPhase(r)'
    BY <1>1, <2>1 DEF InPhase
  <2>3. Versions(r)'
    BY <1>1, <1>3, <2>1, EmptySeq DEF Versions, Announcing, TypeOK, Shown
  <2>4. InOrder(r)'
    BY <1>3, <2>1, EmptySeq DEF InOrder
  <2>5. Accounted(r)'
    BY <2>1 DEF Accounted
  <2> QED
    BY <2>2, <2>3, <2>4, <2>5 DEF Reader
<1> QED
  BY <1>4, <1>5, <1>7, <1>8, <1>9

LEMMA AnswersStep ==
  ASSUME IInv, NEW r \in Readers, Answers(r)
  PROVE  IInv'
<1> USE DEF IInv, writing, server
<1> DEFINE u == [val |-> Shown, time |-> entry.time, version |-> version]
<1>1. /\ phase[r] = "asked" /\ phase' = [phase EXCEPT ![r] = "answered"]
      /\ \/ entry.val = Absent /\ UNCHANGED out /\ seen' = [seen EXCEPT ![r] = version]
         \/ entry.val # Absent /\ out' = [out EXCEPT ![r] = <<u>>] /\ UNCHANGED seen
      /\ UNCHANGED <<clock, pending, link, online, entry, telling, version, subscribed, copy,
                     missed, faults>>
      /\ Shown' = Shown
  BY DEF Answers, Set, Shown
<1>2. version \in Nat /\ Shown \in Told /\ (entry.val = Absent => Shown = Absent)
  BY DEF TypeOK, Told, Shown
<1>3. entry.val # Absent => u \in Update
  BY <1>2 DEF TypeOK, Announcing, Update, Times
<1>4. u.val = Shown /\ u.time = entry.time /\ u.version = version
  OBVIOUS
<1> HIDE DEF u
<1>5. \/ entry.val = Absent /\ out' = out /\ seen' = [seen EXCEPT ![r] = version]
      \/ /\ entry.val # Absent /\ out' \in [Readers -> Seq(Update)] /\ out'[r] = <<u>>
         /\ \A q \in Readers : q # r => out'[q] = out[q]
         /\ seen' = seen
  <2>1. CASE entry.val = Absent /\ UNCHANGED out /\ seen' = [seen EXCEPT ![r] = version]
    BY <2>1
  <2>2. CASE entry.val # Absent /\ out' = [out EXCEPT ![r] = <<u>>] /\ UNCHANGED seen
    <3>1. <<u>> \in Seq(Update)
      BY <1>3, <2>2
    <3>2. out \in [Readers -> Seq(Update)]
      BY DEF TypeOK
    <3> QED
      BY <2>2, <3>1, <3>2
  <2> QED
    BY <1>1, <2>1, <2>2
<1>6. TypeOK'
  <2>1. out \in [Readers -> Seq(Update)] /\ seen \in [Readers -> Nat]
    BY DEF TypeOK
  <2>3. out' \in [Readers -> Seq(Update)] /\ seen' \in [Readers -> Nat]
    BY <1>2, <1>5, <2>1
  <2>2. phase' \in [Readers -> {"off", "asked", "answered", "on"}]
    BY <1>1 DEF TypeOK
  <2> QED
    BY <1>1, <2>2, <2>3 DEF TypeOK
<1>7. OwnTimes'
  BY <1>1, TimesKept
<1>8. Announcing'
  BY <1>1 DEF Announcing, TypeOK, Telling
<1>9. ASSUME NEW q \in Readers, q # r PROVE Reader(q)'
  <2>1. phase'[q] = phase[q] /\ out'[q] = out[q] /\ seen'[q] = seen[q]
    BY <1>1, <1>5, <1>9 DEF TypeOK
  <2> QED
    BY <1>1, <2>1, OtherReader
<1>10. Reader(r)'
  <2>1. /\ phase'[r] = "answered" /\ copy[r] = Nothing /\ out[r] = <<>> /\ r \notin subscribed
        /\ seen[r] <= version /\ missed[r] <= version /\ (seen[r] = version => copy[r].val = Shown)
        /\ Nothing.val = Absent
    BY <1>1 DEF TypeOK, Reader, InPhase, Versions, Nothing
  <2>2. InPhase(r)'
    BY <1>1, <2>1 DEF InPhase
  <2>3. CASE entry.val = Absent /\ out' = out /\ seen' = [seen EXCEPT ![r] = version]
    <3>1. seen'[r] = version /\ out'[r] = <<>> /\ Len(<<>>) = 0
      BY <2>1, <2>3, EmptySeq DEF TypeOK
    <3>2. Versions(r)'
      BY <1>1, <1>2, <2>1, <3>1 DEF Versions
    <3>3. InOrder(r)'
      BY <1>1, <2>1, <3>1 DEF InOrder
    <3>4. Accounted(r)'
      BY <1>1, <3>1 DEF Accounted
    <3> QED
      BY <2>2, <3>2, <3>3, <3>4 DEF Reader
  <2>4. CASE entry.val # Absent /\ out'[r] = <<u>> /\ seen' = seen
    <3>1. Len(out'[r]) = 1 /\ out'[r][1] = u /\ \A i \in 1..Len(out'[r]) : i = 1
      BY <2>4
    <3>2. Versions(r)'
      BY <1>1, <1>2, <1>4, <2>1, <2>4, <3>1 DEF Versions
    <3>3. InOrder(r)'
      <4>1. \A i \in 1..Len(out'[r]) : out'[r][i] = u
        BY <3>1
      <4>2. \A w \in Writers : u.val # Absent /\ u.time = telling[w].time
                               => u.version <= telling[w].version
        BY <1>2, <1>4 DEF Announcing
      <4> QED
        BY <1>1, <1>2, <1>4, <2>1, <2>4, <4>1, <4>2 DEF InOrder
    <3>4. Accounted(r)'
      BY <1>1, <1>4, <3>1 DEF Accounted
    <3> QED
      BY <2>2, <3>2, <3>3, <3>4 DEF Reader
  <2> QED
    BY <1>5, <2>3, <2>4
<1> QED
  BY <1>6, <1>7, <1>8, <1>9, <1>10

LEMMA SubscribesStep ==
  ASSUME IInv, NEW r \in Readers, Subscribes(r) \/ ServerSubscribes(r)
  PROVE  IInv'
<1> USE DEF IInv, writing, server
<1>1. /\ \/ phase[r] = "answered" /\ phase' = [phase EXCEPT ![r] = "on"] /\ subscribed' = subscribed
         \/ phase[r] = "on" /\ phase' = phase /\ subscribed' = subscribed \cup {r}
      /\ UNCHANGED <<clock, pending, link, online, entry, telling, version, out, copy, seen,
                     missed, faults>>
      /\ Shown' = Shown
  BY DEF Subscribes, ServerSubscribes, Set, Shown
<1>2. /\ phase' \in [Readers -> {"off", "asked", "answered", "on"}] /\ phase'[r] = "on"
      /\ subscribed' \subseteq Readers
      /\ \A q \in Readers : q # r => phase'[q] = phase[q] /\ (q \in subscribed' <=> q \in subscribed)
  BY <1>1 DEF TypeOK
<1>3. TypeOK'
  BY <1>1, <1>2 DEF TypeOK
<1>4. OwnTimes'
  BY <1>1, TimesKept
<1>5. Announcing'
  <2>1. \A w \in Writers : \A q \in telling[w].todo : q \in Readers /\ phase[q] # "off"
    BY DEF Announcing, TypeOK, Telling
  <2> QED
    BY <1>1, <1>2, <2>1 DEF Announcing
<1>6. ASSUME NEW q \in Readers, q # r PROVE Reader(q)'
  BY <1>1, <1>2, <1>6, OtherReader
<1>7. Reader(r)'
  <2>1. Reader(r) /\ phase[r] \in {"answered", "on"}
    BY <1>1
  <2>2. InPhase(r)' /\ Versions(r)' /\ InOrder(r)'
    BY <1>1, <1>2, <2>1 DEF Reader, InPhase, Versions, InOrder
  <2>3. Accounted(r)'
    BY <1>1, <2>1 DEF Reader, Accounted
  <2> QED
    BY <2>2, <2>3 DEF Reader
<1> QED
  BY <1>3, <1>4, <1>5, <1>6, <1>7

LEMMA LosesReaderStep ==
  ASSUME IInv, NEW r \in Readers, LosesReader(r)
  PROVE  IInv'
<1> USE DEF IInv, writing
<1>1. /\ phase' = [phase EXCEPT ![r] = "off"] /\ subscribed' = subscribed \ {r}
      /\ out' = [out EXCEPT ![r] = <<>>] /\ faults' = faults + 1
      /\ telling' = [w \in Writers |-> [Change[w] EXCEPT !.todo = Change[w].todo \ {r}]]
      /\ UNCHANGED <<clock, pending, link, online, entry, version, copy, seen, missed>>
      /\ Shown' = Shown
  BY DEF LosesReader, Set, Shown
<1>2. ASSUME NEW w \in Writers
      PROVE  /\ telling'[w] \in Telling /\ telling'[w].todo = telling[w].todo \ {r}
             /\ telling'[w].val = telling[w].val /\ telling'[w].time = telling[w].time
             /\ telling'[w].version = telling[w].version
  <2>1. telling[w] \in Telling
    BY DEF TypeOK
  <2>2. Change[w] = telling[w] \/ Change[w] = [telling[w] EXCEPT !.changed = TRUE]
    BY DEF Change
  <2>3. /\ Change[w] \in Telling /\ Change[w].todo = telling[w].todo
        /\ Change[w].val = telling[w].val /\ Change[w].time = telling[w].time
        /\ Change[w].version = telling[w].version
    BY <2>1, <2>2 DEF Telling
  <2>4. telling'[w] = [Change[w] EXCEPT !.todo = Change[w].todo \ {r}]
    BY <1>1
  <2> HIDE DEF Change
  <2> QED
    BY <2>3, <2>4 DEF Telling
<1>3. telling' \in [Writers -> Telling]
  <2> DEFINE f(w) == [Change[w] EXCEPT !.todo = Change[w].todo \ {r}]
  <2>1. telling' = [w \in Writers |-> f(w)]
    BY <1>1
  <2>2. \A w \in Writers : f(w) \in Telling
    BY <1>2, <2>1
  <2> HIDE DEF f
  <2> QED
    BY <2>1, <2>2
<1>4. /\ phase' \in [Readers -> {"off", "asked", "answered", "on"}] /\ phase'[r] = "off"
      /\ out' \in [Readers -> Seq(Update)] /\ out'[r] = <<>>
      /\ \A q \in Readers : q # r => phase'[q] = phase[q] /\ out'[q] = out[q]
  <2>1. <<>> \in Seq(Update)
    BY EmptySeq
  <2> QED
    BY <1>1, <2>1 DEF TypeOK
<1>5. TypeOK'
  BY <1>1, <1>3, <1>4, SMTT(30) DEF TypeOK
<1>6. OwnTimes'
  BY <1>1, <1>2, TimesKept
<1>7. Announcing'
  <2>1. \A w \in Writers : \A q \in telling'[w].todo : q \in Readers /\ q # r
    BY <1>2 DEF TypeOK, Telling
  <2> QED
    BY <1>1, <1>2, <1>4, <2>1 DEF Announcing
<1>8. ASSUME NEW q \in Readers, q # r PROVE Reader(q)'
  <2>1. \A w \in Writers : q \in telling'[w].todo <=> q \in telling[w].todo
    BY <1>2, <1>8
  <2> QED
    BY <1>1, <1>2, <1>4, <1>8, <2>1, OtherReader
<1>9. Reader(r)'
  <2>1. /\ Reader(r) /\ r \notin subscribed' /\ Len(out'[r]) = 0
        /\ \A w \in Writers : r \notin telling'[w].todo
    BY <1>1, <1>2, <1>4, EmptySeq
  <2>2. InPhase(r)'
    BY <1>1, <1>4, <2>1 DEF Reader, InPhase
  <2>3. Versions(r)'
    BY <1>1, <2>1 DEF Reader, Versions
  <2>4. InOrder(r)'
    BY <2>1 DEF InOrder
  <2>5. Accounted(r)'
    BY <1>4 DEF Accounted
  <2> QED
    BY <2>2, <2>3, <2>4, <2>5 DEF Reader
<1> QED
  BY <1>5, <1>6, <1>7, <1>8, <1>9

LEMMA HandlesStep ==
  ASSUME IInv, NEW r \in Readers, Handles(r)
  PROVE  IInv'
<1> USE DEF IInv, writing, server
<1> DEFINE u == Head(out[r])
           t == Tail(out[r])
<1>1. /\ phase[r] = "on" /\ out[r] # <<>> /\ out' = [out EXCEPT ![r] = t]
      /\ UNCHANGED <<clock, pending, link, online, entry, telling, version, phase, subscribed,
                     faults>>
      /\ Shown' = Shown
  BY DEF Handles, Shown
<1>2. \/ /\ copy[r].time > u.time /\ UNCHANGED <<copy, seen>>
         /\ missed' = [missed EXCEPT ![r] = IF u.version > seen[r]
                                            THEN Larger(missed[r], u.version) ELSE missed[r]]
      \/ /\ ~ (copy[r].time > u.time)
         /\ copy' = [copy EXCEPT ![r] = IF u.val = Absent THEN Nothing
                                        ELSE [val |-> u.val, time |-> u.time]]
         /\ seen' = [seen EXCEPT ![r] = u.version]
         /\ missed' = [missed EXCEPT ![r] = IF u.version < seen[r] /\ copy[r].time < u.time
                                            THEN Larger(missed[r], seen[r]) ELSE missed[r]]
  BY DEF Handles, Outdated, Set
<1>3. /\ t \in Seq(Update) /\ Len(t) = Len(out[r]) - 1 /\ Len(out[r]) \in Nat /\ Len(out[r]) > 0
      /\ \A i \in 1..Len(t) : t[i] = out[r][i + 1]
      /\ u = out[r][1]
  <2>1. out[r] \in Seq(Update) /\ Len(out[r]) \in Nat
    BY UpdateTypes
  <2>2. Len(out[r]) > 0
    BY <1>1, <2>1, EmptySeq
  <2>3. /\ Tail(out[r]) \in Seq(Update) /\ Len(Tail(out[r])) = Len(out[r]) - 1
        /\ \A i \in 1..Len(Tail(out[r])) : Tail(out[r])[i] = out[r][i + 1]
    BY <1>1, <2>1, HeadTailProperties
  <2> QED
    BY <2>1, <2>2, <2>3
<1>4. /\ u.version \in Nat /\ u.time \in Nat /\ u.time > 0 /\ u.val \in Told
      /\ u.version <= version /\ (u.version = version => u.val = Shown)
  <2>1. 1 \in 1..Len(out[r])
    BY <1>3
  <2> QED
    BY <1>3, <2>1, UpdateTypes DEF Reader, Versions
<1> HIDE DEF u, t
<1>5. /\ Reader(r) /\ seen[r] \in Nat /\ missed[r] \in Nat /\ version \in Nat
      /\ seen[r] <= version /\ missed[r] <= version /\ (seen[r] = version => copy[r].val = Shown)
      /\ copy[r].time \in Nat /\ copy[r].val \in Told
  BY DEF TypeOK, Reader, Versions
<1> DEFINE stale == copy[r].time > u.time
           n == IF stale
                THEN IF u.version > seen[r] THEN Larger(missed[r], u.version) ELSE missed[r]
                ELSE IF u.version < seen[r] /\ copy[r].time < u.time
                     THEN Larger(missed[r], seen[r]) ELSE missed[r]
<1>6. /\ n \in Nat /\ missed[r] <= n /\ n <= version
      /\ stale /\ u.version > seen[r] => u.version <= n
      /\ ~ stale /\ u.version < seen[r] /\ copy[r].time < u.time => seen[r] <= n
  <2>1. /\ Larger(missed[r], u.version) \in {missed[r], u.version}
        /\ missed[r] <= Larger(missed[r], u.version) /\ u.version <= Larger(missed[r], u.version)
    BY <1>4, <1>5, Greater
  <2>2. /\ Larger(missed[r], seen[r]) \in {missed[r], seen[r]}
        /\ missed[r] <= Larger(missed[r], seen[r]) /\ seen[r] <= Larger(missed[r], seen[r])
    BY <1>5, Greater
  <2> QED
    BY <1>4, <1>5, <2>1, <2>2
<1>7. missed' = [missed EXCEPT ![r] = n]
  BY <1>2
<1> HIDE DEF n
<1>8. Nothing \in [val : Told, time : Nat] /\ Nothing.val = Absent
  BY DEF Nothing, Told
<1> DEFINE c == IF stale THEN copy[r]
                ELSE IF u.val = Absent THEN Nothing ELSE [val |-> u.val, time |-> u.time]
           k == IF stale THEN seen[r] ELSE u.version
<1>9. c \in [val : Told, time : Nat] /\ k \in Nat
  BY <1>4, <1>5, <1>8 DEF TypeOK
<1>10. copy' = [copy EXCEPT ![r] = c] /\ seen' = [seen EXCEPT ![r] = k]
  BY <1>2 DEF TypeOK
<1>11. /\ c.val = Absent => c = Nothing \/ stale
       /\ ~ stale => c.val = u.val
       /\ ~ stale /\ c.val # Absent => c.time = u.time
       /\ stale => c = copy[r] /\ k = seen[r]
       /\ ~ stale => k = u.version
  BY <1>8
<1> HIDE DEF c, k
<1>12. /\ out' \in [Readers -> Seq(Update)] /\ copy' \in [Readers -> [val : Told, time : Nat]]
       /\ seen' \in [Readers -> Nat] /\ missed' \in [Readers -> Nat]
       /\ out'[r] = t /\ copy'[r] = c /\ seen'[r] = k /\ missed'[r] = n
       /\ \A q \in Readers : q # r => /\ out'[q] = out[q] /\ copy'[q] = copy[q]
                                      /\ seen'[q] = seen[q] /\ missed'[q] = missed[q]
  BY <1>1, <1>3, <1>6, <1>7, <1>9, <1>10 DEF TypeOK
<1>13. TypeOK'
  BY <1>1, <1>12 DEF TypeOK
<1>14. OwnTimes'
  BY <1>1, TimesKept
<1>15. Announcing'
  BY <1>1 DEF Announcing
<1>16. ASSUME NEW q \in Readers, q # r PROVE Reader(q)'
  BY <1>1, <1>12, <1>16, OtherReader
<1>17. \A i \in 1..Len(t) : i + 1 \in 1..Len(out[r]) /\ t[i] = out[r][i + 1]
  BY <1>3
<1>18. InPhase(r)'
  BY <1>1, <1>5, <1>11, <1>12 DEF Reader, InPhase
<1>19. Versions(r)'
  <2>1. \A i \in 1..Len(t) : t[i].version <= version /\ (t[i].version = version => t[i].val = Shown)
    BY <1>5, <1>17 DEF Reader, Versions
  <2>2. k <= version /\ (k = version => c.val = Shown)
    BY <1>4, <1>5, <1>11
  <2> QED
    BY <1>1, <1>6, <1>12, <2>1, <2>2 DEF Versions
<1>20. InOrder(r)'
  <2>1. InOrder(r)
    BY <1>5 DEF Reader
  <2>2. ASSUME NEW i \in 1..Len(t), NEW j \in 1..Len(t),
               i < j, t[i].val # Absent, t[i].time = t[j].time
        PROVE  t[i].version <= t[j].version
    <3>1. i + 1 \in 1..Len(out[r]) /\ j + 1 \in 1..Len(out[r]) /\ i + 1 < j + 1
      BY <1>3, <2>2
    <3> QED
      BY <1>17, <2>1, <2>2, <3>1 DEF InOrder
  <2>3. ASSUME NEW i \in 1..Len(t), c.val # Absent, t[i].time = c.time
        PROVE  k <= t[i].version
    <3>1. i + 1 \in 1..Len(out[r]) /\ t[i] = out[r][i + 1] /\ 1 \in 1..Len(out[r]) /\ 1 < i + 1
      BY <1>3, <1>17
    <3>2. CASE stale
      BY <1>11, <2>1, <2>3, <3>1, <3>2 DEF InOrder
    <3>3. CASE ~ stale
      BY <1>3, <1>11, <2>1, <2>3, <3>1, <3>3 DEF InOrder
    <3> QED
      BY <3>2, <3>3
  <2>4. ASSUME NEW w \in Writers, r \in telling[w].todo
        PROVE  /\ c.val # Absent /\ telling[w].time = c.time => k <= telling[w].version
               /\ \A i \in 1..Len(t) : t[i].val # Absent /\ t[i].time = telling[w].time
                                       => t[i].version <= telling[w].version
    <3>1. 1 \in 1..Len(out[r])
      BY <1>3
    <3>2. c.val # Absent /\ telling[w].time = c.time => k <= telling[w].version
      BY <1>3, <1>11, <2>1, <2>4, <3>1 DEF InOrder
    <3> QED
      BY <1>17, <2>1, <2>4, <3>2 DEF InOrder
  <2> QED
    BY <1>1, <1>12, <2>2, <2>3, <2>4 DEF InOrder
<1>21. Accounted(r)'
  <2>1. Accounted(r)
    BY <1>5 DEF Reader
  <2>2. CASE missed[r] = version
    <3>1. n = version
      BY <1>5, <1>6, <2>2
    <3> QED
      BY <1>1, <1>12, <3>1 DEF Accounted
  <2>3. CASE u.version = version
    <3>1. k = version \/ n = version
      BY <1>4, <1>5, <1>6, <1>11, <2>3
    <3> QED
      BY <1>1, <1>12, <3>1 DEF Accounted
  <2>4. CASE seen[r] = version /\ u.version # version
    <3>1. CASE stale
      BY <1>1, <1>11, <1>12, <2>4, <3>1 DEF Accounted
    <3>2. CASE ~ stale
      <4>1. u.version < seen[r]
        BY <1>4, <1>5, <2>4
      <4>2. copy[r].time # u.time
        <5>1. CASE copy[r].val = Absent
          BY <1>4, <1>5, <5>1 DEF Reader, InPhase, Nothing
        <5>2. CASE copy[r].val # Absent
          <6>1. 1 \in 1..Len(out[r]) /\ InOrder(r)
            BY <1>3, <1>5 DEF Reader
          <6>2. copy[r].time = u.time => seen[r] <= u.version
            BY <1>3, <5>2, <6>1 DEF InOrder
          <6> QED
            BY <1>4, <1>5, <4>1, <6>2
        <5> QED
          BY <5>1, <5>2
      <4>3. n = version
        BY <1>4, <1>5, <1>6, <2>4, <3>2, <4>1, <4>2
      <4> QED
        BY <1>1, <1>12, <4>3 DEF Accounted
    <3> QED
      BY <3>1, <3>2
  <2>5. ASSUME NEW i \in 1..Len(out[r]), out[r][i].version = version, u.version # version
        PROVE  Accounted(r)'
    <3>1. i # 1
      BY <1>3, <2>5
    <3>2. i - 1 \in 1..Len(t)
      BY <1>3, <3>1
    <3>3. t[i - 1] = out[r][(i - 1) + 1] /\ (i - 1) + 1 = i
      BY <1>3, <3>2
    <3> QED
      BY <1>1, <1>12, <2>5, <3>2, <3>3 DEF Accounted
  <2>6. CASE \E w \in Writers : r \in telling[w].todo /\ telling[w].version = version
    BY <1>1, <2>6 DEF Accounted
  <2> QED
    BY <1>1, <2>1, <2>2, <2>3, <2>4, <2>5, <2>6 DEF Accounted
<1>22. Reader(r)'
  BY <1>18, <1>19, <1>20, <1>21 DEF Reader
<1> QED
  BY <1>13, <1>14, <1>15, <1>16, <1>22

--------------------------------------------------------------------------------
(***************************************************************************)
(* The invariant holds.                                                    *)
(***************************************************************************)
LEMMA InvInit == Init => IInv
<1> SUFFICES ASSUME Init PROVE IInv
  OBVIOUS
<1>1. <<>> \in Seq(PutData) /\ <<>> \in Seq(Update) /\ Len(<<>>) = 0
  BY EmptySeq
<1>2. Nothing \in [val : Told, time : Nat] /\ Nothing.val = Absent
  BY DEF Nothing, Told
<1>3. entry \in [val : Told, time : Nat, ttl : BOOLEAN, expired : BOOLEAN]
  BY DEF Init, Told
<1>4. TypeOK
  BY <1>1, <1>2, <1>3, SilentIs DEF Init, TypeOK
<1>5. TimesIn(<<>>) = {} /\ Distinct(<<>>)
  BY <1>1 DEF TimesIn, Distinct
<1>6. OwnTimes
  BY <1>5, SilentIs DEF Init, OwnTimes, Disjoint
<1>7. Announcing
  BY SilentIs DEF Init, Announcing, Shown
<1>8. ASSUME NEW r \in Readers PROVE Reader(r)
  <2>1. out[r] = <<>> /\ copy[r] = Nothing /\ seen[r] = 0 /\ missed[r] = 0 /\ phase[r] = "off"
        /\ subscribed = {} /\ version = 0 /\ Shown = Absent
    BY DEF Init, Shown
  <2> QED
    BY <1>1, <1>2, <2>1 DEF Reader, InPhase, Versions, InOrder, Accounted
<1> QED
  BY <1>4, <1>6, <1>7, <1>8 DEF IInv

LEMMA InvStep == IInv /\ [Next]_vars => IInv'
<1> SUFFICES ASSUME IInv, [Next]_vars PROVE IInv'
  OBVIOUS
<1>1. CASE UNCHANGED vars
  BY <1>1 DEF vars, IInv, TypeOK, OwnTimes, Announcing, Reader, InPhase, Versions, InOrder,
     Accounted, Shown
<1>2. ASSUME NEW w \in Writers,
             WriterStep(w) \/ ReceiverStep(w) \/ Aborts(w) \/ Puts(w) \/ SendFails(w)
                \/ LosesWriter(w)
      PROVE  IInv'
  BY <1>2, PutsStep, SendsStep, SendFailsStep, LosesWriterStep, WriterConnectsStep, StoresStep,
     AnnouncesStep, AnnouncedStep, AbortsStep DEF WriterStep, ReceiverStep
<1>3. ASSUME NEW r \in Readers, ReaderStep(r) \/ LosesReader(r)
      PROVE  IInv'
  BY <1>3, ConnectsStep, AnswersStep, SubscribesStep, HandlesStep, LosesReaderStep
     DEF ReaderStep
<1>4. CASE Expires
  BY <1>4, ExpiresStep
<1> QED
  BY <1>1, <1>2, <1>3, <1>4 DEF Next

(***************************************************************************)
(* The types are correct, and the invariant holds.                         *)
(***************************************************************************)
THEOREM InvariantHolds == Spec => []IInv
<1> QED
  BY InvInit, InvStep, PTL DEF Spec

(***************************************************************************)
(* A reader to which nothing is on its way has the server's value, unless  *)
(* it missed the last version or took it for outdated.                     *)
(***************************************************************************)
THEOREM CopiesFollowServer == Spec => []CopiesAgree
<1>1. IInv => CopiesAgree
  <2> SUFFICES ASSUME IInv, NEW r \in Readers, UpToDate(r), ~ Excused(r)
               PROVE  copy[r].val = Shown
    BY DEF CopiesAgree
  <2>1. /\ seen[r] \in Nat /\ missed[r] \in Nat /\ version \in Nat
        /\ Reader(r) /\ phase[r] = "on" /\ out[r] = <<>>
        /\ \A w \in Writers : r \notin telling[w].todo
    BY DEF IInv, TypeOK, UpToDate
  <2>2. version \in {seen[r], missed[r]}
    BY <2>1, EmptySeq DEF Reader, Accounted
  <2>3. seen[r] = version
    BY <2>1, <2>2 DEF Reader, Versions, Excused
  <2> QED
    BY <2>1, <2>3 DEF Reader, Versions
<1> QED
  BY <1>1, InvariantHolds, PTL

================================================================================
