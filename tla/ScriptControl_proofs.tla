------------------------- MODULE ScriptControl_proofs --------------------------
(***************************************************************************)
(* Proofs about ScriptControl, for any handlers, requests, commands,       *)
(* levels and scripts.  First the types of its state, the commands that    *)
(* handlers work on, and that breaks and stops do what was meant by them.  *)
(* Then its requests: none is lost, duplicated or executed after it was    *)
(* removed, clients see its life in order, and the script thread and the   *)
(* handlers implement the abstract RequestLifecycle.                       *)
(***************************************************************************)
EXTENDS ScriptControl, SequenceTheorems, TLAPS

--------------------------------------------------------------------------------
(***************************************************************************)
(* Facts about the operators and operations of ScriptQueue, for lists of   *)
(* any length.                                                             *)
(***************************************************************************)

(***************************************************************************)
(* The sequence operators of the queue: deleting position i of a list      *)
(* keeps the other elements, in their order.                               *)
(***************************************************************************)
LEMMA RemoveAtProps ==
    ASSUME NEW S, NEW s \in Seq(S), NEW i \in 1..Len(s)
    PROVE  /\ RemoveAt(s, i) \in Seq(S)
           /\ Len(RemoveAt(s, i)) = Len(s) - 1
           /\ \A k \in 1..(Len(s) - 1) :
                 RemoveAt(s, i)[k] = IF k < i THEN s[k] ELSE s[k + 1]
<1> DEFINE a == SubSeq(s, 1, i - 1)
           b == SubSeq(s, i + 1, Len(s))
<1>1. a \in Seq(S) /\ Len(a) = i - 1 /\ \A k \in 1..(i - 1) : a[k] = s[k]
  OBVIOUS
<1>2. b \in Seq(S) /\ Len(b) = Len(s) - i /\ \A k \in 1..(Len(s) - i) : b[k] = s[k + i]
  OBVIOUS
<1>3. RemoveAt(s, i) = a \o b
  BY DEF RemoveAt
<1> HIDE DEF a, b
<1>4. /\ a \o b \in Seq(S)
      /\ Len(a \o b) = Len(a) + Len(b)
      /\ \A k \in 1..(Len(a) + Len(b)) :
            (a \o b)[k] = IF k <= Len(a) THEN a[k] ELSE b[k - Len(a)]
  BY <1>1, <1>2, ConcatProperties
<1>5. ASSUME NEW k \in 1..(Len(s) - 1)
      PROVE  RemoveAt(s, i)[k] = IF k < i THEN s[k] ELSE s[k + 1]
  <2>1. CASE k < i
    <3>1. (a \o b)[k] = a[k] /\ k \in 1..(i - 1)
      BY <1>1, <1>2, <1>4, <2>1
    <3> QED
      BY <1>1, <1>3, <2>1, <3>1
  <2>2. CASE ~(k < i)
    <3>1. (a \o b)[k] = b[k - (i - 1)] /\ k - (i - 1) \in 1..(Len(s) - i)
      BY <1>1, <1>2, <1>4, <2>2
    <3>2. b[k - (i - 1)] = s[k - (i - 1) + i] /\ k - (i - 1) + i = k + 1
      BY <1>2, <3>1
    <3> QED
      BY <1>3, <2>2, <3>1, <3>2
  <2> QED
    BY <2>1, <2>2
<1> QED
  BY <1>1, <1>2, <1>3, <1>4, <1>5

(***************************************************************************)
(* Inserting e at position i of a list keeps the elements, in their order. *)
(***************************************************************************)
LEMMA InsertAtProps ==
    ASSUME NEW S, NEW s \in Seq(S), NEW i \in 1..(Len(s) + 1), NEW e \in S
    PROVE  /\ InsertAt(s, i, e) \in Seq(S)
           /\ Len(InsertAt(s, i, e)) = Len(s) + 1
           /\ \A k \in 1..(Len(s) + 1) :
                 InsertAt(s, i, e)[k] =
                    IF k < i THEN s[k] ELSE IF k = i THEN e ELSE s[k - 1]
<1> DEFINE a == SubSeq(s, 1, i - 1)
           b == SubSeq(s, i, Len(s))
<1>1. a \in Seq(S) /\ Len(a) = i - 1 /\ \A k \in 1..(i - 1) : a[k] = s[k]
  OBVIOUS
<1>2. b \in Seq(S) /\ Len(b) = Len(s) + 1 - i /\ \A k \in 1..(Len(s) + 1 - i) : b[k] = s[k + i - 1]
  OBVIOUS
<1>3. InsertAt(s, i, e) = (a \o <<e>>) \o b
  BY DEF InsertAt
<1>4. a \o <<e>> \in Seq(S) /\ Len(a \o <<e>>) = i
      /\ \A k \in 1..i : (a \o <<e>>)[k] = IF k < i THEN s[k] ELSE e
  BY <1>1 DEF a
<1> HIDE DEF a, b
<1> DEFINE c == a \o <<e>>
<1> HIDE DEF c
<1>5. c \in Seq(S) /\ Len(c) = i /\ \A k \in 1..i : c[k] = IF k < i THEN s[k] ELSE e
  BY <1>4 DEF c
<1>6. InsertAt(s, i, e) = c \o b
  BY <1>3 DEF c
<1>7. /\ c \o b \in Seq(S)
      /\ Len(c \o b) = Len(c) + Len(b)
      /\ \A k \in 1..(Len(c) + Len(b)) :
            (c \o b)[k] = IF k <= Len(c) THEN c[k] ELSE b[k - Len(c)]
  BY <1>2, <1>5, ConcatProperties
<1>8. ASSUME NEW k \in 1..(Len(s) + 1)
      PROVE  InsertAt(s, i, e)[k] = IF k < i THEN s[k] ELSE IF k = i THEN e ELSE s[k - 1]
  <2>1. CASE k <= i
    <3>1. (c \o b)[k] = c[k] /\ k \in 1..i
      BY <1>2, <1>5, <1>7, <2>1
    <3> QED
      BY <1>5, <1>6, <2>1, <3>1
  <2>2. CASE ~(k <= i)
    <3>1. (c \o b)[k] = b[k - i] /\ k - i \in 1..(Len(s) + 1 - i)
      BY <1>2, <1>5, <1>7, <2>2
    <3>2. b[k - i] = s[k - i + i - 1] /\ k - i + i - 1 = k - 1
      BY <1>2, <3>1
    <3> QED
      BY <1>6, <2>2, <3>1, <3>2
  <2> QED
    BY <2>1, <2>2
<1> QED
  BY <1>2, <1>5, <1>6, <1>7, <1>8

(***************************************************************************)
(* t has the elements of s, in some order, and no new duplicates.          *)
(***************************************************************************)
Permutes(t, s) ==
    /\ Len(t) = Len(s)
    /\ \A k \in 1..Len(s) : \E j \in 1..Len(s) : t[k] = s[j]
    /\ \A j \in 1..Len(s) : \E k \in 1..Len(s) : t[k] = s[j]
    /\ (\A j, k \in 1..Len(s) : s[j] = s[k] => j = k)
          => (\A j, k \in 1..Len(s) : t[j] = t[k] => j = k)

(***************************************************************************)
(* scripts.insert(n, scripts.pop(i)) permutes the list, for any n.         *)
(***************************************************************************)
LEMMA PopInsertProps ==
    ASSUME NEW S, NEW s \in Seq(S), NEW i \in 1..Len(s), NEW n \in Nat,
           NEW t, t = PopInsert(s, i, n)
    PROVE  t \in Seq(S) /\ Permutes(t, s)
<1> DEFINE rest == RemoveAt(s, i)
           at == IF n < Len(rest) THEN n + 1 ELSE Len(rest) + 1
           from(k) == IF k < at THEN (IF k < i THEN k ELSE k + 1)
                      ELSE IF k = at THEN i
                      ELSE IF k - 1 < i THEN k - 1 ELSE k
           to(j) == IF j = i THEN at
                    ELSE IF j < i THEN (IF j < at THEN j ELSE j + 1)
                    ELSE IF j - 1 < at THEN j - 1 ELSE j
<1>1. /\ rest \in Seq(S)
      /\ Len(rest) = Len(s) - 1
      /\ \A k \in 1..(Len(s) - 1) : rest[k] = IF k < i THEN s[k] ELSE s[k + 1]
  BY RemoveAtProps
<1>2. Len(s) \in Nat /\ s[i] \in S
  OBVIOUS
<1>3. at \in 1..Len(s) /\ Len(rest) + 1 = Len(s)
  BY <1>1, <1>2
<1>5. t = InsertAt(rest, at, s[i])
  BY DEF PopInsert
<1> HIDE DEF rest, at
<1>4. /\ t \in Seq(S)
      /\ Len(t) = Len(s)
      /\ \A k \in 1..Len(s) :
            t[k] = IF k < at THEN rest[k] ELSE IF k = at THEN s[i] ELSE rest[k - 1]
  <2>1. at \in 1..(Len(rest) + 1)
    BY <1>3
  <2>3. rest \in Seq(S) /\ s[i] \in S
    BY <1>1, <1>2
  <2>2. /\ InsertAt(rest, at, s[i]) \in Seq(S)
        /\ Len(InsertAt(rest, at, s[i])) = Len(rest) + 1
        /\ \A k \in 1..(Len(rest) + 1) :
              InsertAt(rest, at, s[i])[k] =
                 IF k < at THEN rest[k] ELSE IF k = at THEN s[i] ELSE rest[k - 1]
    <3>1. InsertAt(rest, at, s[i]) \in Seq(S)
      BY <2>1, <2>3, InsertAtProps
    <3>2. Len(InsertAt(rest, at, s[i])) = Len(rest) + 1
      BY <2>1, <2>3, InsertAtProps
    <3>3. ASSUME NEW k \in 1..(Len(rest) + 1)
          PROVE  InsertAt(rest, at, s[i])[k] =
                    IF k < at THEN rest[k] ELSE IF k = at THEN s[i] ELSE rest[k - 1]
      BY <2>1, <2>3, InsertAtProps
    <3> QED
      BY <3>1, <3>2, <3>3
  <2> QED
    BY <1>3, <1>5, <2>2
<1>6. ASSUME NEW k \in 1..Len(s)
      PROVE  from(k) \in 1..Len(s) /\ t[k] = s[from(k)]
  <2>1. CASE k < at
    <3>1. t[k] = rest[k] /\ k \in 1..(Len(s) - 1)
      BY <1>2, <1>3, <1>4, <2>1
    <3> QED
      BY <1>1, <1>2, <2>1, <3>1
  <2>2. CASE k = at
    BY <1>3, <1>4, <2>2
  <2>3. CASE k > at
    <3>1. t[k] = rest[k - 1] /\ k - 1 \in 1..(Len(s) - 1)
      BY <1>2, <1>3, <1>4, <2>3
    <3>2. rest[k - 1] = IF k - 1 < i THEN s[k - 1] ELSE s[k - 1 + 1]
      BY <1>1, <3>1
    <3>3. k - 1 + 1 = k /\ ~(k < at) /\ k # at
      BY <1>3, <2>3
    <3> QED
      BY <1>2, <3>1, <3>2, <3>3
  <2> QED
    BY <1>3, <2>1, <2>2, <2>3
<1>7. ASSUME NEW j \in 1..Len(s)
      PROVE  to(j) \in 1..Len(s) /\ from(to(j)) = j
  BY <1>2, <1>3
<1>8. ASSUME NEW j \in 1..Len(s), NEW k \in 1..Len(s), from(j) = from(k)
      PROVE  j = k
  BY <1>2, <1>3, <1>8
<1> HIDE DEF from, to
<1>9. \A j \in 1..Len(s) : \E k \in 1..Len(s) : t[k] = s[j]
  BY <1>6, <1>7
<1>10. \A k \in 1..Len(s) : \E j \in 1..Len(s) : t[k] = s[j]
  BY <1>6
<1>11. (\A j, k \in 1..Len(s) : s[j] = s[k] => j = k)
          => (\A j, k \in 1..Len(s) : t[j] = t[k] => j = k)
  <2> SUFFICES ASSUME \A j, k \in 1..Len(s) : s[j] = s[k] => j = k,
                      NEW j \in 1..Len(s), NEW k \in 1..Len(s), t[j] = t[k]
               PROVE  j = k
    OBVIOUS
  <2>1. from(j) \in 1..Len(s) /\ from(k) \in 1..Len(s) /\ s[from(j)] = s[from(k)]
    BY <1>6
  <2>2. from(j) = from(k)
    BY <2>1
  <2> QED
    BY <1>8, <2>2
<1> QED
  BY <1>4, <1>9, <1>10, <1>11 DEF Permutes

(***************************************************************************)
(* move_item loses nothing, adds nothing and duplicates nothing.           *)
(***************************************************************************)
LEMMA MoveItemProps ==
    ASSUME NEW S, NEW s \in Seq(S), NEW r, NEW n \in Nat
    PROVE  /\ MoveItem(s, r, n) \in Seq(S)
           /\ Len(MoveItem(s, r, n)) = Len(s)
           /\ Range(MoveItem(s, r, n)) = Range(s)
           /\ (\A j, k \in 1..Len(s) : s[j] = s[k] => j = k)
                 => (\A j, k \in 1..Len(s) :
                        MoveItem(s, r, n)[j] = MoveItem(s, r, n)[k] => j = k)
<1>1. CASE r \in Range(s)
  <2> DEFINE i == CHOOSE i \in 1..Len(s) : s[i] = r
             t == PopInsert(s, i, n)
  <2>1. \E x \in 1..Len(s) : s[x] = r
    BY <1>1 DEF Range
  <2>2. i \in 1..Len(s)
    BY <2>1
  <2>3. MoveItem(s, r, n) = t
    BY <1>1 DEF MoveItem
  <2> HIDE DEF i
  <2>4. t \in Seq(S) /\ Permutes(t, s)
    <3> HIDE DEF t
    <3>1. t = PopInsert(s, i, n)
      BY DEF t
    <3> QED
      BY <2>2, <3>1, PopInsertProps
  <2> HIDE DEF t
  <2>5. Range(t) = Range(s)
    <3>1. DOMAIN t = 1..Len(s) /\ DOMAIN s = 1..Len(s)
      BY <2>4 DEF Permutes
    <3>2. Range(t) = {t[k] : k \in 1..Len(s)} /\ Range(s) = {s[k] : k \in 1..Len(s)}
      BY <3>1 DEF Range
    <3>3. \A x \in Range(t) : x \in Range(s)
      BY <2>4, <3>2 DEF Permutes
    <3>4. \A x \in Range(s) : x \in Range(t)
      <4> SUFFICES ASSUME NEW j \in 1..Len(s) PROVE s[j] \in Range(t)
        BY <3>2
      <4>1. PICK k \in 1..Len(s) : t[k] = s[j]
        BY <2>4 DEF Permutes
      <4> QED
        BY <3>2, <4>1
    <3> QED
      BY <3>3, <3>4
  <2> QED
    BY <2>3, <2>4, <2>5 DEF Permutes
<1>2. CASE r \notin Range(s)
  BY <1>2 DEF MoveItem
<1> QED
  BY <1>1, <1>2

--------------------------------------------------------------------------------
(***************************************************************************)
(* Each operation of the queue keeps its type.                             *)
(***************************************************************************)
LEMMA WaitTyping ==
    ASSUME QueueTypeOK, UNCHANGED queueVars
    PROVE  QueueTypeOK'
BY DEF QueueTypeOK, queueVars

\* put keeps the type of the queue.
LEMMA PutTyping ==
    ASSUME QueueTypeOK, NEW r \in Requests, Put(r)
    PROVE  QueueTypeOK'
BY DEF QueueTypeOK, Put

\* get takes a request, and keeps the type of the queue.
LEMMA PopTyping ==
    ASSUME QueueTypeOK, NEW r, Pop(r)
    PROVE  QueueTypeOK' /\ r \in Requests
<1>1. scripts' \in Seq(Requests) /\ r \in Requests
  BY DEF QueueTypeOK, Pop
<1>2. qevent' \in BOOLEAN
  BY DEF QueueTypeOK, Pop
<1>3. qlock' \in Handlers \cup {Free}
  BY DEF QueueTypeOK, Pop
<1> QED
  BY <1>1, <1>2, <1>3 DEF QueueTypeOK

\* delete_one deletes a request, and keeps the type of the queue.
LEMMA DeleteOneTyping ==
    ASSUME QueueTypeOK, NEW r, DeleteOne(r)
    PROVE  QueueTypeOK' /\ r \in Requests
<1>1. PICK i \in 1..Len(scripts) : scripts[i] = r /\ scripts' = RemoveAt(scripts, i)
  BY DEF DeleteOne
<1>2. scripts' \in Seq(Requests) /\ r \in Requests
  BY <1>1, RemoveAtProps DEF QueueTypeOK
<1>3. qevent' \in BOOLEAN
  BY DEF QueueTypeOK, DeleteOne
<1>4. qlock' \in Handlers \cup {Free}
  BY DEF QueueTypeOK, DeleteOne
<1> QED
  BY <1>2, <1>3, <1>4 DEF QueueTypeOK

\* delete_all keeps the type of the queue.
LEMMA DeleteAllTyping ==
    ASSUME QueueTypeOK, DeleteAll
    PROVE  QueueTypeOK'
<1>1. scripts' \in Seq(Requests)
  BY DEF DeleteAll
<1>2. qevent' \in BOOLEAN
  BY DEF DeleteAll
<1>3. qlock' \in Handlers \cup {Free}
  BY DEF QueueTypeOK, DeleteAll
<1> QED
  BY <1>1, <1>2, <1>3 DEF QueueTypeOK

\* Taking and giving back the lock keeps the type of the queue.
LEMMA LockTyping ==
    ASSUME QueueTypeOK, NEW h \in Handlers, Acquire(h) \/ Release(h)
    PROVE  QueueTypeOK'
BY DEF QueueTypeOK, Acquire, Release

\* move_item keeps the type of the queue, for any index.
LEMMA MoveTyping ==
    ASSUME QueueTypeOK, NEW h \in Handlers, NEW r, NEW n \in Nat, Move(h, r, n)
    PROVE  QueueTypeOK'
<1>1. scripts' \in Seq(Requests)
  BY MoveItemProps DEF QueueTypeOK, Move
<1> QED
  BY <1>1 DEF QueueTypeOK, Move

(***************************************************************************)
(* What each operation does to the set of queued requests.                 *)
(***************************************************************************)
LEMMA QueuedIs ==
    ASSUME scripts \in Seq(Requests)
    PROVE  Queued = {scripts[i] : i \in 1..Len(scripts)} /\ Queued \in SUBSET Requests
BY DEF Queued, Range

\* put adds its request, once, if it was not queued, and sets the event.
LEMMA PutEffect ==
    ASSUME QueueTypeOK, NEW r \in Requests, Put(r)
    PROVE  /\ Queued' = Queued \cup {r}
           /\ r \notin Queued /\ NoDuplicates => NoDuplicates'
           /\ EventExact'
<1> DEFINE n == Len(scripts)
<1>1. /\ scripts \in Seq(Requests) /\ scripts' = Append(scripts, r)
      /\ scripts' \in Seq(Requests)
  BY DEF QueueTypeOK, Put
<1>2. /\ n \in Nat /\ Len(scripts') = n + 1 /\ scripts'[n + 1] = r
      /\ \A i \in 1..n : scripts'[i] = scripts[i]
  BY <1>1
<1>3. Queued = {scripts[i] : i \in 1..n} /\ Queued' = {scripts'[i] : i \in 1..(n + 1)}
  BY <1>1, <1>2 DEF Queued, Range
<1> HIDE DEF n
<1>4. \A x \in Queued' : x \in Queued \cup {r}
  BY <1>2, <1>3
<1>5. \A x \in Queued \cup {r} : x \in Queued'
  BY <1>2, <1>3
<1>6. ASSUME r \notin Queued, NoDuplicates
      PROVE  NoDuplicates'
  BY <1>2, <1>3, <1>6 DEF NoDuplicates, n
<1>7. EventExact'
  <2>1. scripts' # << >>
    BY <1>1
  <2>2. qevent' = TRUE
    BY DEF Put
  <2> QED
    BY <2>1, <2>2 DEF EventExact
<1> QED
  BY <1>4, <1>5, <1>6, <1>7

\* get takes the first request out and leaves the event exact.
LEMMA PopEffect ==
    ASSUME QueueTypeOK, NEW r, Pop(r), NoDuplicates, EventExact
    PROVE  /\ r \in Queued /\ Queued' = Queued \ {r}
           /\ NoDuplicates' /\ EventExact'
<1> DEFINE n == Len(scripts)
<1>1. /\ scripts \in Seq(Requests) /\ scripts # << >> /\ r = scripts[1]
      /\ scripts' = Tail(scripts) /\ scripts' \in Seq(Requests)
  BY DEF QueueTypeOK, Pop
<1>2. /\ n \in Nat /\ 1 \in 1..n /\ Len(scripts') = n - 1
      /\ \A i \in 1..(n - 1) : scripts'[i] = scripts[i + 1]
  BY <1>1
<1>3. Queued = {scripts[i] : i \in 1..n} /\ Queued' = {scripts'[i] : i \in 1..(n - 1)}
  <2>1. DOMAIN scripts = 1..n /\ DOMAIN scripts' = 1..(n - 1)
    <3> HIDE DEF n
    <3> QED
      BY <1>1, <1>2 DEF n
  <2> QED
    BY <2>1 DEF Queued, Range
<1>4. \A i, j \in 1..n : scripts[i] = scripts[j] => i = j
  BY DEF NoDuplicates
<1> HIDE DEF n
<1>5. \A x \in Queued' : x \in Queued \ {r}
  <2> SUFFICES ASSUME NEW i \in 1..(n - 1) PROVE scripts'[i] \in Queued \ {r}
    BY <1>3
  <2>1. i + 1 \in 1..n /\ i + 1 # 1 /\ scripts'[i] = scripts[i + 1]
    BY <1>2
  <2> QED
    BY <1>1, <1>2, <1>3, <1>4, <2>1
<1>6. \A x \in Queued \ {r} : x \in Queued'
  <2> SUFFICES ASSUME NEW i \in 1..n, scripts[i] # r PROVE scripts[i] \in Queued'
    BY <1>3
  <2>1. i # 1
    BY <1>1
  <2>2. i - 1 \in 1..(n - 1) /\ i - 1 + 1 = i
    BY <1>2, <2>1
  <2>3. scripts'[i - 1] = scripts[i]
    BY <1>2, <2>2
  <2> QED
    BY <1>3, <2>2, <2>3
<1>7. r \in Queued
  BY <1>1, <1>2, <1>3
<1>8. NoDuplicates'
  <2> SUFFICES ASSUME NEW i \in 1..(n - 1), NEW j \in 1..(n - 1), scripts'[i] = scripts'[j]
               PROVE  i = j
    BY <1>2 DEF NoDuplicates
  <2>1. i + 1 \in 1..n /\ j + 1 \in 1..n /\ scripts[i + 1] = scripts[j + 1]
    BY <1>2
  <2>2. i + 1 = j + 1
    BY <1>4, <2>1
  <2> QED
    BY <2>2
<1>9. EventExact'
  <2>1. qevent' = IF scripts' = << >> THEN FALSE ELSE qevent
    BY DEF Pop
  <2>2. qevent
    BY <1>1 DEF EventExact
  <2> QED
    BY <2>1, <2>2 DEF EventExact
<1> QED
  BY <1>5, <1>6, <1>7, <1>8, <1>9

\* delete_one takes one request out and leaves the event exact.
LEMMA DeleteOneEffect ==
    ASSUME QueueTypeOK, NEW r, DeleteOne(r), NoDuplicates, EventExact
    PROVE  /\ r \in Queued /\ Queued' = Queued \ {r}
           /\ NoDuplicates' /\ EventExact'
<1> DEFINE n == Len(scripts)
<1>0. PICK k \in 1..n : scripts[k] = r /\ scripts' = RemoveAt(scripts, k)
  BY DEF DeleteOne
<1>1. scripts \in Seq(Requests) /\ n \in Nat
  BY DEF QueueTypeOK
<1>2. /\ scripts' \in Seq(Requests) /\ Len(scripts') = n - 1
      /\ \A i \in 1..(n - 1) : scripts'[i] = IF i < k THEN scripts[i] ELSE scripts[i + 1]
  BY <1>0, <1>1, RemoveAtProps
<1>3. Queued = {scripts[i] : i \in 1..n} /\ Queued' = {scripts'[i] : i \in 1..(n - 1)}
  BY <1>1, <1>2 DEF Queued, Range
<1>4. \A i, j \in 1..n : scripts[i] = scripts[j] => i = j
  BY DEF NoDuplicates
<1> HIDE DEF n
<1>a. ASSUME NEW i \in 1..(n - 1)
      PROVE  \E j \in 1..n : j # k /\ scripts'[i] = scripts[j]
  <2>1. CASE i < k
    <3>1. i \in 1..n /\ i # k
      BY <1>1, <2>1
    <3> QED
      BY <1>2, <2>1, <3>1
  <2>2. CASE ~(i < k)
    <3>1. i + 1 \in 1..n /\ i + 1 # k
      BY <1>0, <1>1, <2>2
    <3> QED
      BY <1>2, <2>2, <3>1
  <2> QED
    BY <2>1, <2>2
<1>b. ASSUME NEW j \in 1..n, j # k
      PROVE  \E i \in 1..(n - 1) : scripts'[i] = scripts[j]
  <2>1. CASE j < k
    <3>1. j \in 1..(n - 1)
      BY <1>0, <1>1, <2>1
    <3> QED
      BY <1>2, <2>1, <3>1
  <2>2. CASE ~(j < k)
    <3>1. j - 1 \in 1..(n - 1) /\ ~(j - 1 < k) /\ j - 1 + 1 = j
      BY <1>0, <1>1, <1>b, <2>2
    <3>2. scripts'[j - 1] = scripts[j]
      BY <1>2, <3>1
    <3> QED
      BY <3>1, <3>2
  <2> QED
    BY <2>1, <2>2
<1>5. \A x \in Queued' : x \in Queued \ {r}
  <2> SUFFICES ASSUME NEW i \in 1..(n - 1) PROVE scripts'[i] \in Queued \ {r}
    BY <1>3
  <2>1. PICK j \in 1..n : j # k /\ scripts'[i] = scripts[j]
    BY <1>a
  <2> QED
    BY <1>0, <1>3, <1>4, <2>1
<1>6. \A x \in Queued \ {r} : x \in Queued'
  <2> SUFFICES ASSUME NEW j \in 1..n, scripts[j] # r PROVE scripts[j] \in Queued'
    BY <1>3
  <2>1. PICK i \in 1..(n - 1) : scripts'[i] = scripts[j]
    BY <1>0, <1>b
  <2> QED
    BY <1>3, <2>1
<1>7. r \in Queued
  BY <1>0, <1>3
<1>8. NoDuplicates'
  <2> SUFFICES ASSUME NEW i \in 1..(n - 1), NEW j \in 1..(n - 1), scripts'[i] = scripts'[j]
               PROVE  i = j
    BY <1>2 DEF NoDuplicates
  <2> DEFINE at(x) == IF x < k THEN x ELSE x + 1
  <2>1. at(i) \in 1..n /\ at(j) \in 1..n
    BY <1>1
  <2>2. scripts[at(i)] = scripts[at(j)]
    BY <1>2
  <2>3. at(i) = at(j)
    BY <1>4, <2>1, <2>2
  <2> QED
    BY <1>0, <1>1, <2>3
<1>9. EventExact'
  <2>1. qevent' = IF scripts' = << >> THEN FALSE ELSE qevent
    BY DEF DeleteOne
  <2>2. scripts # << >>
    BY <1>0, <1>1 DEF n
  <2>3. qevent
    BY <2>2 DEF EventExact
  <2> QED
    BY <2>1, <2>3 DEF EventExact
<1> QED
  BY <1>5, <1>6, <1>7, <1>8, <1>9

\* delete_all empties the queue and clears the event.
LEMMA DeleteAllEffect ==
    ASSUME DeleteAll
    PROVE  Queued' = {} /\ NoDuplicates' /\ EventExact'
<1>1. scripts' = << >> /\ Len(scripts') = 0
  BY DEF DeleteAll
<1>2. Queued' = {}
  BY <1>1 DEF Queued, Range
<1>3. NoDuplicates'
  BY <1>1 DEF NoDuplicates
<1>4. qevent' = FALSE
  BY DEF DeleteAll
<1> QED
  BY <1>1, <1>2, <1>3, <1>4 DEF EventExact

\* move_item changes the order only.
LEMMA MoveEffect ==
    ASSUME QueueTypeOK, NEW h, NEW r, NEW i \in Nat, Move(h, r, i), NoDuplicates, EventExact
    PROVE  Queued' = Queued /\ NoDuplicates' /\ EventExact'
<1>1. scripts \in Seq(Requests) /\ scripts' = MoveItem(scripts, r, i)
  BY DEF QueueTypeOK, Move
<1>2. /\ scripts' \in Seq(Requests) /\ Len(scripts') = Len(scripts)
      /\ Range(scripts') = Range(scripts)
      /\ (\A j, k \in 1..Len(scripts) : scripts[j] = scripts[k] => j = k)
            => (\A j, k \in 1..Len(scripts) : scripts'[j] = scripts'[k] => j = k)
  BY <1>1, MoveItemProps
<1>3. Queued' = Queued
  BY <1>2 DEF Queued
<1>4. NoDuplicates'
  BY <1>2 DEF NoDuplicates
<1>5. scripts = << >> <=> scripts' = << >>
  BY <1>1, <1>2
<1>6. qevent' = qevent
  BY DEF Move
<1> QED
  BY <1>3, <1>4, <1>5, <1>6 DEF EventExact

--------------------------------------------------------------------------------
(***************************************************************************)
(* Types, and the commands that handlers work on.                          *)
(***************************************************************************)

(***************************************************************************)
(* Type correctness, one part of the state at a time.  A part that a step  *)
(* leaves alone keeps its type.                                            *)
(***************************************************************************)
LEMMA Untouched ==
    ASSUME TypeOK
    PROVE  /\ UNCHANGED queueVars => QueueTypeOK'
           /\ UNCHANGED ctrlVars => CtrlTypeOK'
           /\ UNCHANGED contEvent => contEvent' \in BOOLEAN
           /\ UNCHANGED threadVars => ThreadTypeOK'
           /\ UNCHANGED handlerVars => HandlerTypeOK'
           /\ UNCHANGED observed => ObservedTypeOK'
<1>1. UNCHANGED queueVars => QueueTypeOK'
  BY WaitTyping DEF TypeOK
<1>2. UNCHANGED ctrlVars => CtrlTypeOK'
  BY DEF TypeOK, CtrlTypeOK, ctrlVars
<1>3. UNCHANGED contEvent => contEvent' \in BOOLEAN
  BY DEF TypeOK
<1>4. UNCHANGED threadVars => ThreadTypeOK'
  BY DEF TypeOK, ThreadTypeOK, threadVars
<1>5. UNCHANGED handlerVars => HandlerTypeOK'
  BY DEF TypeOK, HandlerTypeOK, handlerVars
<1>6. UNCHANGED observed => ObservedTypeOK'
  BY DEF TypeOK, ObservedTypeOK, observed
<1> QED
  BY <1>1, <1>2, <1>3, <1>4, <1>5, <1>6

(***************************************************************************)
(* Flags, commands and steps stay in their sets.                           *)
(***************************************************************************)
LEMMA FlagOfType ==
    ASSUME NEW c \in Cmds
    PROVE  FlagOf(c) \in Flags
BY DEF FlagOf, Cmds, Flags, BreakFlag, StopFlag, EstopFlag, ContinueFlag, AllLevels,
       AfterLine, AfterStep, Now, Immediate

\* Each command begins with a step of its handler.
LEMMA FirstStepType ==
    ASSUME NEW op \in Commands
    PROVE  FirstStep(op) \in HandlerSteps
BY DEF FirstStep, Commands, HandlerSteps

\* The arguments that can arrive with a command have their type.
LEMMA ArgumentsType ==
    ASSUME NEW op \in Commands, NEW c \in Arguments(op)
    PROVE  c \in Cmds
BY ControlAssumption DEF Arguments, Cmds, AllLevels, AfterStep

\* An idle handler holds a command of the type.
LEMMA NoCmdType == NoCmd \in Cmds
BY DEF NoCmd, Cmds

\* What the assumption on the constants gives the typing lemmas.
LEMMA ConstantTypes == Setup \in Requests /\ NBlocks \in Nat /\ Levels \subseteq AllLevels
BY ControlAssumption

\* Sending an event keeps the type of the event history.
LEMMA EmitType ==
    ASSUME ObservedTypeOK, NEW kind \in EventKinds, NEW reqs, Emit(kind, reqs)
    PROVE  events' \in [Requests -> SUBSET EventKinds]
BY DEF ObservedTypeOK, Emit

\* The initial states are of the type.
LEMMA InitTypes == Init => TypeOK
<1> SUFFICES ASSUME Init PROVE TypeOK
  OBVIOUS
<1>1. QueueTypeOK
  <2>1. scripts \in Seq(Requests) /\ qlock \in Handlers \cup {Free}
    BY DEF Init, QueueInit
  <2>2. qevent \in BOOLEAN
    BY DEF Init, QueueInit
  <2> QED
    BY <2>1, <2>2 DEF QueueTypeOK
<1>2. CtrlTypeOK
  BY DEF Init, CtrlTypeOK
<1>3. contEvent \in BOOLEAN
  BY DEF Init
<1>4. ThreadTypeOK
  BY ConstantTypes DEF Init, ThreadTypeOK, ThreadSteps, Resting, AllLevels
<1>5. HandlerTypeOK
  BY ControlAssumption, NoCmdType DEF Init, HandlerTypeOK, HandlerSteps
<1>6. ObservedTypeOK
  BY DEF Init, ObservedTypeOK
<1> QED
  BY <1>1, <1>2, <1>3, <1>4, <1>5, <1>6 DEF TypeOK

(***************************************************************************)
(* Every step of the script thread keeps the types.                        *)
(***************************************************************************)
LEMMA ThreadTyping ==
    ASSUME TypeOK, ThreadStep
    PROVE  TypeOK'
<1> USE ConstantTypes
<1>t. QueueTypeOK /\ CtrlTypeOK /\ ThreadTypeOK /\ ObservedTypeOK
  BY DEF TypeOK
<1>1. CASE ThreadStart
  <2>1. QueueTypeOK'
    BY <1>1, <1>t, PutTyping DEF ThreadStart
  <2>2. UNCHANGED contEvent
    BY <1>1 DEF ThreadStart, ctrlVars
  <2>3. ThreadTypeOK'
    BY <1>1, <1>t DEF ThreadStart, ThreadTypeOK, ThreadSteps, Resting, Goto
  <2> QED
    BY <1>1, <2>1, <2>2, <2>3, Untouched DEF ThreadStart, TypeOK
<1>2. CASE GetWaits
  <2>1. QueueTypeOK'
    BY <1>2, <1>t, WaitTyping DEF GetWaits, Wait
  <2>2. UNCHANGED contEvent
    BY <1>2 DEF GetWaits, ctrlVars
  <2>3. ThreadTypeOK'
    BY <1>2, <1>t DEF GetWaits, ThreadTypeOK, ThreadSteps, Resting, Goto
  <2> QED
    BY <1>2, <2>1, <2>2, <2>3, Untouched DEF GetWaits, TypeOK
<1>3. CASE GetPops
  <2>1. QueueTypeOK'
    BY <1>3, <1>t, PopTyping DEF GetPops
  <2>2. UNCHANGED contEvent
    BY <1>3 DEF GetPops, ctrlVars
  <2>3. ThreadTypeOK'
    BY <1>3, <1>t, PopTyping DEF GetPops, ThreadTypeOK, ThreadSteps, Resting, Goto
  <2>4. ObservedTypeOK'
    BY <1>3, <1>t, PopTyping DEF GetPops, ObservedTypeOK
  <2> QED
    BY <1>3, <2>1, <2>2, <2>3, <2>4, Untouched DEF GetPops, TypeOK
<1>4. CASE GetRaises
  <2>1. QueueTypeOK'
    BY <1>4, <1>t, WaitTyping DEF GetRaises, PopRaises
  <2>2. UNCHANGED contEvent
    BY <1>4 DEF GetRaises, ctrlVars
  <2>3. ThreadTypeOK'
    BY <1>4, <1>t DEF GetRaises, ThreadTypeOK, ThreadSteps, Resting, Goto
  <2> QED
    BY <1>4, <2>1, <2>2, <2>3, Untouched DEF GetRaises, TypeOK
<1>5. CASE ExecuteEstop
  <2>1. UNCHANGED contEvent
    BY <1>5 DEF ExecuteEstop, ctrlVars
  <2>2. ThreadTypeOK'
    BY <1>5, <1>t DEF ExecuteEstop, ThreadTypeOK, ThreadSteps, Resting, Goto
  <2>3. treq \in Requests
    BY <1>5, <1>t DEF ExecuteEstop, ThreadTypeOK, Resting
  <2>4. ObservedTypeOK'
    BY <1>5, <1>t, <2>3 DEF ExecuteEstop, ObservedTypeOK
  <2> QED
    BY <1>5, <2>1, <2>2, <2>4, Untouched DEF ExecuteEstop, TypeOK
<1>6. CASE Processing
  <2>1. UNCHANGED contEvent
    BY <1>6 DEF Processing, ctrlVars
  <2>2. ThreadTypeOK'
    BY <1>6, <1>t DEF Processing, ThreadTypeOK, ThreadSteps, Resting, Goto
  <2>3. ObservedTypeOK'
    BY <1>6, <1>t, EmitType DEF Processing, ObservedTypeOK, EventKinds
  <2> QED
    BY <1>6, <2>1, <2>2, <2>3, Untouched DEF Processing, TypeOK
<1>7. CASE ParseSucceeds
  <2>1. UNCHANGED contEvent
    BY <1>7 DEF ParseSucceeds, ctrlVars
  <2>2. curblock' = 0
    BY <1>7 DEF ParseSucceeds
  <2>3. curblock' \in 0..NBlocks
    BY <2>2
  <2>4. ThreadTypeOK'
    BY <1>7, <1>t, <2>3 DEF ParseSucceeds, ThreadTypeOK, ThreadSteps, Resting, Goto
  <2> QED
    BY <1>7, <2>1, <2>4, Untouched DEF ParseSucceeds, TypeOK
<1>8. CASE ParseFails
  <2>1. UNCHANGED contEvent
    BY <1>8 DEF ParseFails, ctrlVars
  <2>2. ThreadTypeOK'
    BY <1>8, <1>t DEF ParseFails, ThreadTypeOK, ThreadSteps, Resting, Goto
  <2>3. ObservedTypeOK'
    BY <1>8, <1>t, EmitType DEF ParseFails, ObservedTypeOK, EventKinds
  <2> QED
    BY <1>8, <2>1, <2>2, <2>3, Untouched DEF ParseFails, TypeOK
<1>9. CASE ExecuteBegins
  <2>1. CtrlTypeOK'
    BY <1>9, <1>t DEF ExecuteBegins, CtrlTypeOK
  <2>2. UNCHANGED contEvent
    BY <1>9 DEF ExecuteBegins
  <2>3. ThreadTypeOK'
    BY <1>9, <1>t DEF ExecuteBegins, ThreadTypeOK, ThreadSteps, Resting, Goto
  <2> QED
    BY <1>9, <2>1, <2>2, <2>3, Untouched DEF ExecuteBegins, TypeOK
<1>10. CASE StartBlock
  <2>1. CtrlTypeOK'
    BY <1>10, <1>t DEF StartBlock, CtrlTypeOK
  <2>2. UNCHANGED contEvent
    BY <1>10 DEF StartBlock
  <2>3. curblock < NBlocks /\ curblock' = curblock + 1
    BY <1>10 DEF StartBlock
  <2>4. curblock \in 0..NBlocks
    BY <1>t DEF ThreadTypeOK
  <2>5. curblock' \in 0..NBlocks
    BY <2>3, <2>4
  <2>6. ThreadTypeOK'
    BY <1>10, <1>t, <2>5 DEF StartBlock, ThreadTypeOK, ThreadSteps, Resting, Goto
  <2> QED
    BY <1>10, <2>1, <2>2, <2>6, Untouched DEF StartBlock, TypeOK
<1>11. CASE ExecuteEnds
  <2>1. UNCHANGED contEvent
    BY <1>11 DEF ExecuteEnds, ctrlVars
  <2>2. ThreadTypeOK'
    BY <1>11, <1>t DEF ExecuteEnds, ThreadTypeOK, ThreadSteps, Resting, Goto
  <2> QED
    BY <1>11, <2>1, <2>2, Untouched DEF ExecuteEnds, TypeOK
<1>12. CASE LinePasses
  <2>1. UNCHANGED contEvent
    BY <1>12 DEF LinePasses, ctrlVars
  <2>2. ThreadTypeOK'
    BY <1>12, <1>t DEF LinePasses, ThreadTypeOK, ThreadSteps, Resting, Goto
  <2> QED
    BY <1>12, <2>1, <2>2, Untouched DEF LinePasses, TypeOK
<1>13. CASE LineBreaks
  <2>1. CtrlTypeOK'
    BY <1>13, <1>t DEF LineBreaks, Breaks, CtrlTypeOK
  <2>2. UNCHANGED contEvent
    BY <1>13 DEF LineBreaks, Breaks
  <2>3. ThreadTypeOK'
    BY <1>13, <1>t DEF LineBreaks, Breaks, ThreadTypeOK, ThreadSteps, Resting, Goto, CtrlTypeOK, AllLevels, AfterLine, AfterStep, Now, Immediate
  <2> QED
    BY <1>13, <2>1, <2>2, <2>3, Untouched DEF LineBreaks, Breaks, TypeOK
<1>14. CASE BreakpointBreaks
  <2>1. CtrlTypeOK'
    BY <1>14, <1>t DEF BreakpointBreaks, Breaks, CtrlTypeOK
  <2>2. UNCHANGED contEvent
    BY <1>14 DEF BreakpointBreaks, Breaks
  <2>3. ThreadTypeOK'
    BY <1>14, <1>t DEF BreakpointBreaks, Breaks, ThreadTypeOK, ThreadSteps, Resting, Goto, CtrlTypeOK, AllLevels, AfterLine, AfterStep, Now, Immediate
  <2> QED
    BY <1>14, <2>1, <2>2, <2>3, Untouched DEF BreakpointBreaks, Breaks, TypeOK
<1>15. CASE RequiredBreakpointBreaks
  <2>1. CtrlTypeOK'
    BY <1>15, <1>t DEF RequiredBreakpointBreaks, Breaks, CtrlTypeOK
  <2>2. UNCHANGED contEvent
    BY <1>15 DEF RequiredBreakpointBreaks, Breaks
  <2>3. ThreadTypeOK'
    BY <1>15, <1>t DEF RequiredBreakpointBreaks, Breaks, ThreadTypeOK, ThreadSteps, Resting, Goto, CtrlTypeOK, AllLevels, AfterLine, AfterStep, Now, Immediate
  <2> QED
    BY <1>15, <2>1, <2>2, <2>3, Untouched DEF RequiredBreakpointBreaks, Breaks, TypeOK
<1>16. CASE RequiredBreakpointPasses
  <2>1. UNCHANGED contEvent
    BY <1>16 DEF RequiredBreakpointPasses, ctrlVars
  <2>2. ThreadTypeOK'
    BY <1>16, <1>t DEF RequiredBreakpointPasses, ThreadTypeOK, ThreadSteps, Resting, Goto
  <2> QED
    BY <1>16, <2>1, <2>2, Untouched DEF RequiredBreakpointPasses, TypeOK
<1>17. CASE ScriptPauses
  <2>1. CtrlTypeOK'
    BY <1>17, <1>t DEF ScriptPauses, CtrlTypeOK, Flags, BreakFlag, AllLevels, Now
  <2>2. UNCHANGED contEvent
    BY <1>17 DEF ScriptPauses
  <2>3. ThreadTypeOK'
    BY <1>17, <1>t DEF ScriptPauses, ThreadTypeOK, ThreadSteps, Resting, Goto
  <2> QED
    BY <1>17, <2>1, <2>2, <2>3, Untouched DEF ScriptPauses, TypeOK
<1>18. CASE CountReads
  <2>1. UNCHANGED contEvent
    BY <1>18 DEF CountReads, ctrlVars
  <2>2. ThreadTypeOK'
    BY <1>18, <1>t DEF CountReads, ThreadTypeOK, ThreadSteps, Resting, Goto, CtrlTypeOK
  <2> QED
    BY <1>18, <2>1, <2>2, Untouched DEF CountReads, TypeOK
<1>19. CASE CountResets
  <2>1. CtrlTypeOK'
    BY <1>19, <1>t DEF CountResets, CtrlTypeOK
  <2>2. UNCHANGED contEvent
    BY <1>19 DEF CountResets
  <2>3. ThreadTypeOK'
    BY <1>19, <1>t DEF CountResets, ThreadTypeOK, ThreadSteps, Resting, Goto
  <2> QED
    BY <1>19, <2>1, <2>2, <2>3, Untouched DEF CountResets, TypeOK
<1>20. CASE BlockEnds
  <2>1. CtrlTypeOK'
    BY <1>20, <1>t DEF BlockEnds, CtrlTypeOK
  <2>2. UNCHANGED contEvent
    BY <1>20 DEF BlockEnds
  <2>3. ThreadTypeOK'
    BY <1>20, <1>t DEF BlockEnds, ThreadTypeOK, ThreadSteps, Resting, Goto
  <2> QED
    BY <1>20, <2>1, <2>2, <2>3, Untouched DEF BlockEnds, TypeOK
<1>21. CASE BlockRaises
  <2>1. CtrlTypeOK'
    BY <1>21, <1>t DEF BlockRaises, CtrlTypeOK
  <2>2. UNCHANGED contEvent
    BY <1>21 DEF BlockRaises
  <2>3. ThreadTypeOK'
    BY <1>21, <1>t DEF BlockRaises, ThreadTypeOK, ThreadSteps, Resting, Goto
  <2> QED
    BY <1>21, <2>1, <2>2, <2>3, Untouched DEF BlockRaises, TypeOK
<1>22. CASE BfEnter
  <2>1. UNCHANGED contEvent
    BY <1>22 DEF BfEnter, ctrlVars
  <2>2. ThreadTypeOK'
    BY <1>22, <1>t DEF BfEnter, ThreadTypeOK, ThreadSteps, Resting, Goto
  <2> QED
    BY <1>22, <2>1, <2>2, Untouched DEF BfEnter, TypeOK
<1>23. CASE BfSetArg
  <2>1. CtrlTypeOK'
    BY <1>23, <1>t DEF BfSetArg, CtrlTypeOK, ThreadTypeOK
  <2>2. UNCHANGED contEvent
    BY <1>23 DEF BfSetArg
  <2>3. ThreadTypeOK'
    BY <1>23, <1>t DEF BfSetArg, ThreadTypeOK, ThreadSteps, Resting, Goto
  <2> QED
    BY <1>23, <2>1, <2>2, <2>3, Untouched DEF BfSetArg, TypeOK
<1>24. CASE BfSetEvent
  <2>1. CtrlTypeOK'
    BY <1>24, <1>t DEF BfSetEvent, CtrlTypeOK
  <2>2. contEvent' \in BOOLEAN
    BY <1>24 DEF BfSetEvent
  <2>3. ThreadTypeOK'
    BY <1>24, <1>t DEF BfSetEvent, ThreadTypeOK, ThreadSteps, Resting, Goto
  <2> QED
    BY <1>24, <2>1, <2>2, <2>3, Untouched DEF BfSetEvent, TypeOK
<1>25. CASE BfWait
  <2>1. UNCHANGED contEvent
    BY <1>25 DEF BfWait, ctrlVars
  <2>2. ThreadTypeOK'
    BY <1>25, <1>t DEF BfWait, ThreadTypeOK, ThreadSteps, Resting, Goto
  <2> QED
    BY <1>25, <2>1, <2>2, Untouched DEF BfWait, TypeOK
<1>26. CASE BfClear
  <2>1. CtrlTypeOK'
    BY <1>26, <1>t DEF BfClear, CtrlTypeOK
  <2>2. contEvent' \in BOOLEAN
    BY <1>26 DEF BfClear
  <2>3. ThreadTypeOK'
    BY <1>26, <1>t DEF BfClear, ThreadTypeOK, ThreadSteps, Resting, Goto
  <2> QED
    BY <1>26, <2>1, <2>2, <2>3, Untouched DEF BfClear, TypeOK
<1>27. CASE BfRead
  <2>1. UNCHANGED contEvent
    BY <1>27 DEF BfRead, ctrlVars
  <2>2. ThreadTypeOK'
    BY <1>27, <1>t DEF BfRead, ThreadTypeOK, ThreadSteps, Resting, Goto, CtrlTypeOK
  <2> QED
    BY <1>27, <2>1, <2>2, Untouched DEF BfRead, TypeOK
<1>28. CASE BfResumes
  <2>1. CtrlTypeOK'
    BY <1>28, <1>t DEF BfResumes, CtrlTypeOK, ThreadTypeOK
  <2>2. UNCHANGED contEvent
    BY <1>28 DEF BfResumes
  <2>3. ThreadTypeOK'
    BY <1>28, <1>t DEF BfResumes, ThreadTypeOK, ThreadSteps, Resting, Goto
  <2> QED
    BY <1>28, <2>1, <2>2, <2>3, Untouched DEF BfResumes, TypeOK
<1>29. CASE BfStops
  <2>1. CtrlTypeOK'
    BY <1>29, <1>t DEF BfStops, CtrlTypeOK
  <2>2. UNCHANGED contEvent
    BY <1>29 DEF BfStops
  <2>3. ThreadTypeOK'
    BY <1>29, <1>t DEF BfStops, ThreadTypeOK, ThreadSteps, Resting, Goto, StopModes
  <2> QED
    BY <1>29, <2>1, <2>2, <2>3, Untouched DEF BfStops, TypeOK
<1>30. CASE Unwinds
  <2>1. CtrlTypeOK'
    BY <1>30, <1>t DEF Unwinds, CtrlTypeOK
  <2>2. UNCHANGED contEvent
    BY <1>30 DEF Unwinds
  <2>3. ThreadTypeOK'
    BY <1>30, <1>t DEF Unwinds, ThreadTypeOK, ThreadSteps, Resting, Goto
  <2> QED
    BY <1>30, <2>1, <2>2, <2>3, Untouched DEF Unwinds, TypeOK
<1>31. CASE StopCaught
  <2>1. UNCHANGED contEvent
    BY <1>31 DEF StopCaught, ctrlVars
  <2>2. ThreadTypeOK'
    BY <1>31, <1>t DEF StopCaught, ThreadTypeOK, ThreadSteps, Resting, Goto
  <2> QED
    BY <1>31, <2>1, <2>2, Untouched DEF StopCaught, TypeOK
<1>32. CASE EstopBlocks
  <2>1. QueueTypeOK'
    BY <1>32, <1>t, DeleteAllTyping DEF EstopBlocks
  <2>2. UNCHANGED contEvent
    BY <1>32 DEF EstopBlocks, ctrlVars
  <2>3. ThreadTypeOK'
    BY <1>32, <1>t, QueuedIs DEF EstopBlocks, ThreadTypeOK, ThreadSteps, Resting, Goto, QueueTypeOK
  <2> QED
    BY <1>32, <2>1, <2>2, <2>3, Untouched DEF EstopBlocks, TypeOK
<1>33. CASE EstopEmits
  <2>1. UNCHANGED contEvent
    BY <1>33 DEF EstopEmits, ctrlVars
  <2>2. ThreadTypeOK'
    BY <1>33, <1>t DEF EstopEmits, ThreadTypeOK, ThreadSteps, Resting, Goto
  <2>3. ObservedTypeOK'
    BY <1>33, <1>t, EmitType DEF EstopEmits, ObservedTypeOK, EventKinds
  <2> QED
    BY <1>33, <2>1, <2>2, <2>3, Untouched DEF EstopEmits, TypeOK
<1>34. CASE EstopRuns
  <2>1. UNCHANGED contEvent
    BY <1>34 DEF EstopRuns, ctrlVars
  <2>2. ThreadTypeOK'
    BY <1>34, <1>t DEF EstopRuns, ThreadTypeOK, ThreadSteps, Resting, Goto
  <2>3. treq \in Requests
    BY <1>34, <1>t DEF EstopRuns, ThreadTypeOK, Resting
  <2>4. ObservedTypeOK'
    BY <1>34, <1>t, <2>3 DEF EstopRuns, ObservedTypeOK
  <2> QED
    BY <1>34, <2>1, <2>2, <2>4, Untouched DEF EstopRuns, TypeOK
<1>35. CASE Finish
  <2>1. UNCHANGED contEvent
    BY <1>35 DEF Finish, ctrlVars
  <2>2. ThreadTypeOK'
    BY <1>35, <1>t DEF Finish, ThreadTypeOK, ThreadSteps, Resting, Goto
  <2>3. ObservedTypeOK'
    BY <1>35, <1>t, EmitType DEF Finish, ObservedTypeOK, EventKinds
  <2> QED
    BY <1>35, <2>1, <2>2, <2>3, Untouched DEF Finish, TypeOK
<1> QED
  BY <1>1, <1>2, <1>3, <1>4, <1>5, <1>6, <1>7, <1>8, <1>9, <1>10, <1>11, <1>12, <1>13, <1>14, <1>15, <1>16, <1>17, <1>18, <1>19, <1>20, <1>21, <1>22, <1>23, <1>24, <1>25, <1>26, <1>27, <1>28, <1>29, <1>30, <1>31, <1>32, <1>33, <1>34, <1>35
     DEF ThreadStep, TakeStep, BlockStep, BreakStep, StopStep

(***************************************************************************)
(* A handler that moves on with the command it has, or replies.            *)
(***************************************************************************)
LEMMA StepTyping ==
    ASSUME HandlerTypeOK, NEW h \in Handlers, NEW a, NEW b \in HandlerSteps,
           Step(h, a, b)
    PROVE  /\ hpc' \in [Handlers -> HandlerSteps]
           /\ budget' \in [Handlers -> Nat]
BY DEF Step, HandlerTypeOK

\* A handler that replies keeps positions and commands typed.
LEMMA ReplyTyping ==
    ASSUME HandlerTypeOK, NEW h \in Handlers, NEW a, Reply(h, a)
    PROVE  /\ hpc' \in [Handlers -> HandlerSteps]
           /\ budget' \in [Handlers -> Nat]
           /\ cmd' \in [Handlers -> Cmds]
<1>1. "idle" \in HandlerSteps
  BY DEF HandlerSteps
<1>2. Step(h, a, "idle")
  BY DEF Reply
<1>3. cmd' \in [Handlers -> Cmds]
  BY NoCmdType DEF Reply, HandlerTypeOK
<1> QED
  BY <1>1, <1>2, <1>3, StepTyping

\* Each step of a handler leads to a step, and keeps its command typed.
LEMMA HandlerMoves ==
    ASSUME HandlerTypeOK, NEW h \in Handlers, NEW a, NEW b \in HandlerSteps,
           UNCHANGED batch, Reply(h, a) \/ (Step(h, a, b) /\ UNCHANGED cmd)
    PROVE  HandlerTypeOK'
<1>1. CASE Reply(h, a)
  BY <1>1, ReplyTyping DEF HandlerTypeOK
<1>2. CASE Step(h, a, b) /\ UNCHANGED cmd
  BY <1>2, StepTyping DEF HandlerTypeOK
<1> QED
  BY <1>1, <1>2

(***************************************************************************)
(* The script thread leaves the handlers alone.                            *)
(***************************************************************************)
LEMMA ThreadLocal ==
    ASSUME ThreadStep
    PROVE  UNCHANGED <<hpc, cmd, batch, budget>>
<1>1. CASE TakeStep
  BY <1>1 DEF TakeStep, handlerVars, Breaks,
     ThreadStart, GetWaits, GetPops, GetRaises, ExecuteEstop, Processing, ParseSucceeds, ParseFails
<1>2. CASE BlockStep
  BY <1>2 DEF BlockStep, handlerVars, Breaks,
     ExecuteBegins, StartBlock, ExecuteEnds, LinePasses, LineBreaks, BreakpointBreaks, RequiredBreakpointBreaks, RequiredBreakpointPasses, ScriptPauses, CountReads, CountResets, BlockEnds, BlockRaises
<1>3. CASE BreakStep
  BY <1>3 DEF BreakStep, handlerVars, Breaks,
     BfEnter, BfSetArg, BfSetEvent, BfWait, BfClear, BfRead, BfResumes, BfStops
<1>4. CASE StopStep
  BY <1>4 DEF StopStep, handlerVars, Breaks,
     Unwinds, StopCaught, EstopBlocks, EstopEmits, EstopRuns, Finish
<1> QED
  BY <1>1, <1>2, <1>3, <1>4 DEF ThreadStep

(***************************************************************************)
(* A handler step changes the record of no other handler.                  *)
(***************************************************************************)
Elsewhere(h) ==
    \A g \in Handlers \ {h} :
       hpc'[g] = hpc[g] /\ cmd'[g] = cmd[g] /\ batch'[g] = batch[g]

\* A step of one handler leaves position and command of the others.
LEMMA HandlerLocal ==
    ASSUME HandlerTypeOK, NEW h \in Handlers, Receive(h) \/ HandlerStep(h)
    PROVE  Elsewhere(h)
<1> USE DEF HandlerTypeOK, Elsewhere, Step, Reply
<1>1. CASE Receive(h)
  BY <1>1 DEF Receive
<1>2. CASE CheckIdle(h)
  BY <1>2 DEF CheckIdle
<1>3. CASE CheckBusy(h)
  BY <1>3 DEF CheckBusy
<1>4. CASE Announce(h)
  BY <1>4 DEF Announce
<1>5. CASE PutRequest(h)
  BY <1>5 DEF PutRequest
<1>6. CASE UnqueueOne(h)
  BY <1>6 DEF UnqueueOne
<1>7. CASE UnqueueAll(h)
  BY <1>7 DEF UnqueueAll
<1>8. CASE EmitBlocked(h)
  BY <1>8 DEF EmitBlocked
<1>9. CASE Break1(h)
  BY <1>9 DEF Break1
<1>10. CASE Break2(h)
  BY <1>10 DEF Break2
<1>11. CASE SetBreak(h)
  BY <1>11 DEF SetBreak
<1>12. CASE SetCountloop(h)
  BY <1>12 DEF SetCountloop
<1>13. CASE Continue1(h)
  BY <1>13 DEF Continue1
<1>14. CASE Continue2(h)
  BY <1>14 DEF Continue2
<1>15. CASE SetArg(h)
  BY <1>15 DEF SetArg
<1>16. CASE SetEvent(h)
  BY <1>16 DEF SetEvent
<1>17. CASE Stop1(h)
  BY <1>17 DEF Stop1
<1>18. CASE Stop2(h)
  BY <1>18 DEF Stop2
<1>19. CASE Immediate1(h)
  BY <1>19 DEF Immediate1
<1>20. CASE Immediate2(h)
  BY <1>20 DEF Immediate2
<1>21. CASE Immediate3(h)
  BY <1>21 DEF Immediate3
<1>22. CASE Finish1(h)
  BY <1>22 DEF Finish1
<1>23. CASE RearrangeAcquires(h)
  BY <1>23 DEF RearrangeAcquires
<1>24. CASE RearrangeMatches(h)
  BY <1>24 DEF RearrangeMatches
<1>25. CASE RearrangeRefuses(h)
  BY <1>25 DEF RearrangeRefuses
<1>26. CASE RearrangeMoves(h)
  BY <1>26 DEF RearrangeMoves
<1>27. CASE RearrangeReleases(h)
  BY <1>27 DEF RearrangeReleases
<1> QED
  BY <1>1, <1>2, <1>3, <1>4, <1>5, <1>6, <1>7, <1>8, <1>9, <1>10, <1>11, <1>12, <1>13, <1>14, <1>15, <1>16, <1>17, <1>18, <1>19, <1>20, <1>21, <1>22, <1>23, <1>24, <1>25, <1>26, <1>27
     DEF HandlerStep, SubmitStep, ControlStep, RearrangeStep

(***************************************************************************)
(* A handler stays at the steps of the command it works on.                *)
(***************************************************************************)
LEMMA FitsReply ==
    ASSUME HandlerTypeOK, NEW h \in Handlers, NEW a, Reply(h, a)
    PROVE  Fits(h)'
BY DEF HandlerTypeOK, Reply, Step, Fits, Submits, SubmitOps, NoCmd

\* A handler that goes on to a step its command may be at keeps CommandFits.
LEMMA FitsMove ==
    ASSUME HandlerTypeOK, NEW h \in Handlers, NEW a, NEW b, Fits(h),
           Step(h, a, b), cmd'[h].op = cmd[h].op, cmd'[h].req = cmd[h].req,
           b # "idle",
           b \in {"check_idle", "announce", "put"} => Submits(h),
           b \in {"imm1", "imm2", "imm3"} => cmd[h].op = "emergency"
    PROVE  Fits(h)'
BY DEF HandlerTypeOK, Step, Fits, Submits

\* A command that arrives names its operation, and one that submits brings a fresh request.
LEMMA FitsArguments ==
    ASSUME NEW op \in Commands, NEW c \in Arguments(op)
    PROVE  /\ c.op = op
           /\ op \in SubmitOps => c.req \in Scripts \cup Estops /\ Fresh(c.req)
BY DEF Arguments, SubmitOps

\* Each step of a handler keeps its position and its command together.
LEMMA FitsHandler ==
    ASSUME HandlerTypeOK, NEW h \in Handlers, Fits(h), Receive(h) \/ HandlerStep(h)
    PROVE  Fits(h)'
<1>1. CASE Receive(h)
  <2>1. PICK op \in Ops[h] : \E c \in Arguments(op) :
              /\ cmd' = [cmd EXCEPT ![h] = c]
              /\ hpc' = [hpc EXCEPT ![h] = FirstStep(op)]
    BY <1>1 DEF Receive
  <2>2. PICK c \in Arguments(op) : cmd' = [cmd EXCEPT ![h] = c]
    BY <2>1
  <2>3. op \in Commands
    BY <2>1, ControlAssumption
  <2>4. cmd'[h].op = op /\ (op \in SubmitOps => cmd'[h].req \in Scripts \cup Estops)
    BY <2>2, <2>3, FitsArguments DEF HandlerTypeOK
  <2>5. hpc'[h] = FirstStep(op)
    BY <2>1 DEF HandlerTypeOK
  <2>6. FirstStep(op) # "idle"
    BY <2>3 DEF FirstStep, Commands
  <2>7. FirstStep(op) \in {"check_idle", "announce", "put"} => op \in SubmitOps
    BY <2>3 DEF FirstStep, Commands, SubmitOps
  <2>8. FirstStep(op) \in {"imm1", "imm2", "imm3"} => op = "emergency"
    BY <2>3 DEF FirstStep, Commands
  <2> QED
    BY <2>4, <2>5, <2>6, <2>7, <2>8 DEF Fits, Submits
<1>2. CASE CheckIdle(h)
  BY <1>2, FitsReply, FitsMove DEF CheckIdle, Fits, Step
<1>3. CASE CheckBusy(h)
  BY <1>3, FitsReply, FitsMove DEF CheckBusy
<1>4. CASE Announce(h)
  BY <1>4, FitsMove DEF Announce, Fits, Step
<1>5. CASE PutRequest(h)
  BY <1>5, FitsReply DEF PutRequest
<1>6. CASE UnqueueOne(h)
  BY <1>6, FitsReply, FitsMove DEF UnqueueOne
<1>7. CASE UnqueueAll(h)
  BY <1>7, FitsMove DEF UnqueueAll
<1>8. CASE EmitBlocked(h)
  BY <1>8, FitsReply, FitsMove DEF EmitBlocked, Fits, Step
<1>9. CASE Break1(h)
  BY <1>9, FitsReply, FitsMove DEF Break1
<1>10. CASE Break2(h)
  BY <1>10, FitsReply, FitsMove DEF Break2
<1>11. CASE SetBreak(h)
  BY <1>11, FitsReply, FitsMove DEF SetBreak
<1>12. CASE SetCountloop(h)
  BY <1>12, FitsReply DEF SetCountloop
<1>13. CASE Continue1(h)
  BY <1>13, FitsReply, FitsMove DEF Continue1
<1>14. CASE Continue2(h)
  BY <1>14, FitsReply, FitsMove DEF Continue2
<1>15. CASE SetArg(h)
  BY <1>15, FitsMove DEF SetArg
<1>16. CASE SetEvent(h)
  BY <1>16, FitsReply DEF SetEvent
<1>17. CASE Stop1(h)
  BY <1>17, FitsReply, FitsMove DEF Stop1
<1>18. CASE Stop2(h)
  BY <1>18, FitsMove DEF Stop2, HandlerTypeOK, Cmds
<1>19. CASE Immediate1(h)
  BY <1>19, FitsMove DEF Immediate1, Fits, Step, Submits, SubmitOps
<1>20. CASE Immediate2(h)
  BY <1>20, FitsReply, FitsMove DEF Immediate2, Fits, Step
<1>21. CASE Immediate3(h)
  BY <1>21, FitsMove DEF Immediate3, Fits, Step
<1>22. CASE Finish1(h)
  BY <1>22, FitsReply, FitsMove DEF Finish1
<1>23. CASE RearrangeAcquires(h)
  BY <1>23, FitsMove DEF RearrangeAcquires
<1>24. CASE RearrangeMatches(h)
  BY <1>24, FitsMove DEF RearrangeMatches
<1>25. CASE RearrangeRefuses(h)
  BY <1>25, FitsReply DEF RearrangeRefuses
<1>26. CASE RearrangeMoves(h)
  BY <1>26, FitsMove DEF RearrangeMoves, HandlerTypeOK, Cmds
<1>27. CASE RearrangeReleases(h)
  BY <1>27, FitsReply DEF RearrangeReleases
<1> QED
  BY <1>1, <1>2, <1>3, <1>4, <1>5, <1>6, <1>7, <1>8, <1>9, <1>10, <1>11, <1>12, <1>13, <1>14, <1>15, <1>16, <1>17, <1>18, <1>19, <1>20, <1>21, <1>22, <1>23, <1>24, <1>25, <1>26, <1>27
     DEF HandlerStep, SubmitStep, ControlStep, RearrangeStep

\* Each step of the system keeps CommandFits.
LEMMA CommandsFit ==
    ASSUME HandlerTypeOK, CommandFits, Next
    PROVE  CommandFits'
<1>1. CASE ThreadStep
  <2>1. UNCHANGED <<hpc, cmd>>
    BY <1>1, ThreadLocal
  <2> QED
    BY <2>1 DEF CommandFits, Fits, Submits
<1>2. ASSUME NEW h \in Handlers, Receive(h) \/ HandlerStep(h)
      PROVE  CommandFits'
  <2>1. Fits(h)'
    BY <1>2, FitsHandler DEF CommandFits
  <2>2. \A g \in Handlers \ {h} : Fits(g)'
    BY <1>2, HandlerLocal DEF CommandFits, Fits, Submits, Elsewhere
  <2> QED
    BY <2>1, <2>2 DEF CommandFits
<1> QED
  BY <1>1, <1>2 DEF Next

(***************************************************************************)
(* Every step of a handler keeps the types.                                *)
(***************************************************************************)
LEMMA HandlerTyping ==
    ASSUME TypeOK, NEW h \in Handlers, Fits(h), Receive(h) \/ HandlerStep(h)
    PROVE  TypeOK'
<1>t. QueueTypeOK /\ CtrlTypeOK /\ HandlerTypeOK /\ ObservedTypeOK /\ cmd[h] \in Cmds
  BY DEF TypeOK, HandlerTypeOK
<1>1. CASE Receive(h)
  <2>1. UNCHANGED contEvent
    BY <1>1 DEF Receive, ctrlVars
  <2>2. PICK op \in Ops[h] : \E c \in Arguments(op) :
              /\ cmd' = [cmd EXCEPT ![h] = c]
              /\ hpc' = [hpc EXCEPT ![h] = FirstStep(op)]
    BY <1>1 DEF Receive
  <2>3. op \in Commands
    BY <2>2, ControlAssumption
  <2>4. cmd' \in [Handlers -> Cmds] /\ hpc' \in [Handlers -> HandlerSteps]
    BY <1>t, <2>2, <2>3, ArgumentsType, FirstStepType DEF HandlerTypeOK
  <2>5. budget' \in [Handlers -> Nat]
    BY <1>1, <1>t DEF Receive, HandlerTypeOK
  <2>6. HandlerTypeOK'
    BY <1>1, <1>t, <2>4, <2>5 DEF Receive, HandlerTypeOK
  <2> QED
    BY <1>1, <2>1, <2>6, Untouched DEF Receive, TypeOK
<1>2. CASE CheckIdle(h)
  <2>1. UNCHANGED contEvent
    BY <1>2 DEF CheckIdle, ctrlVars
  <2>2. HandlerTypeOK'
    BY <1>2, <1>t, HandlerMoves DEF CheckIdle, HandlerSteps
  <2> QED
    BY <1>2, <2>1, <2>2, Untouched DEF CheckIdle, TypeOK
<1>3. CASE CheckBusy(h)
  <2>1. UNCHANGED contEvent
    BY <1>3 DEF CheckBusy, ctrlVars
  <2>2. HandlerTypeOK'
    BY <1>3, <1>t, HandlerMoves DEF CheckBusy, HandlerSteps
  <2> QED
    BY <1>3, <2>1, <2>2, Untouched DEF CheckBusy, TypeOK
<1>4. CASE Announce(h)
  <2>1. UNCHANGED contEvent
    BY <1>4 DEF Announce, ctrlVars
  <2>2. HandlerTypeOK'
    BY <1>4, <1>t, HandlerMoves DEF Announce, HandlerSteps
  <2>3. ObservedTypeOK'
    BY <1>4, <1>t, EmitType DEF Announce, ObservedTypeOK, EventKinds
  <2> QED
    BY <1>4, <2>1, <2>2, <2>3, Untouched DEF Announce, TypeOK
<1>5. CASE PutRequest(h)
  <2>1. cmd[h].req \in Requests
    BY <1>5, ControlAssumption DEF PutRequest, Reply, Step, Fits
  <2>2. QueueTypeOK'
    BY <1>5, <1>t, <2>1, PutTyping DEF PutRequest
  <2>3. UNCHANGED contEvent
    BY <1>5 DEF PutRequest, ctrlVars
  <2>4. HandlerTypeOK'
    BY <1>5, <1>t, HandlerMoves DEF PutRequest, HandlerSteps
  <2> QED
    BY <1>5, <2>2, <2>3, <2>4, Untouched DEF PutRequest, TypeOK
<1>6. CASE UnqueueOne(h)
  <2>1. QueueTypeOK'
    BY <1>6, <1>t, DeleteOneTyping, WaitTyping DEF UnqueueOne, DeleteOneRaises
  <2>2. UNCHANGED contEvent
    BY <1>6 DEF UnqueueOne, ctrlVars
  <2>3. HandlerTypeOK'
    BY <1>6, <1>t, DeleteOneTyping, StepTyping, ReplyTyping DEF UnqueueOne, HandlerTypeOK, HandlerSteps
  <2> QED
    BY <1>6, <2>1, <2>2, <2>3, Untouched DEF UnqueueOne, TypeOK
<1>7. CASE UnqueueAll(h)
  <2>1. QueueTypeOK'
    BY <1>7, <1>t, DeleteAllTyping DEF UnqueueAll
  <2>2. UNCHANGED contEvent
    BY <1>7 DEF UnqueueAll, ctrlVars
  <2>3. HandlerTypeOK'
    BY <1>7, <1>t, QueuedIs, StepTyping DEF UnqueueAll, HandlerTypeOK, QueueTypeOK, HandlerSteps
  <2> QED
    BY <1>7, <2>1, <2>2, <2>3, Untouched DEF UnqueueAll, TypeOK
<1>8. CASE EmitBlocked(h)
  <2>1. UNCHANGED contEvent
    BY <1>8 DEF EmitBlocked, ctrlVars
  <2>2. HandlerTypeOK'
    BY <1>8, <1>t, StepTyping, ReplyTyping DEF EmitBlocked, HandlerTypeOK, HandlerSteps
  <2>3. ObservedTypeOK'
    BY <1>8, <1>t, EmitType DEF EmitBlocked, ObservedTypeOK, EventKinds
  <2> QED
    BY <1>8, <2>1, <2>2, <2>3, Untouched DEF EmitBlocked, TypeOK
<1>9. CASE Break1(h)
  <2>1. UNCHANGED contEvent
    BY <1>9 DEF Break1, ctrlVars
  <2>2. HandlerTypeOK'
    BY <1>9, <1>t, HandlerMoves DEF Break1, HandlerSteps
  <2> QED
    BY <1>9, <2>1, <2>2, Untouched DEF Break1, TypeOK
<1>10. CASE Break2(h)
  <2>1. UNCHANGED contEvent
    BY <1>10 DEF Break2, ctrlVars
  <2>2. HandlerTypeOK'
    BY <1>10, <1>t, HandlerMoves DEF Break2, HandlerSteps
  <2> QED
    BY <1>10, <2>1, <2>2, Untouched DEF Break2, TypeOK
<1>11. CASE SetBreak(h)
  <2>1. CtrlTypeOK'
    BY <1>11, <1>t, FlagOfType DEF SetBreak, CtrlTypeOK
  <2>2. UNCHANGED contEvent
    BY <1>11 DEF SetBreak
  <2>3. HandlerTypeOK'
    BY <1>11, <1>t, HandlerMoves DEF SetBreak, HandlerSteps
  <2> QED
    BY <1>11, <2>1, <2>2, <2>3, Untouched DEF SetBreak, TypeOK
<1>12. CASE SetCountloop(h)
  <2>1. CtrlTypeOK'
    BY <1>12, <1>t DEF SetCountloop, CtrlTypeOK
  <2>2. UNCHANGED contEvent
    BY <1>12 DEF SetCountloop
  <2>3. HandlerTypeOK'
    BY <1>12, <1>t, HandlerMoves DEF SetCountloop, HandlerSteps
  <2> QED
    BY <1>12, <2>1, <2>2, <2>3, Untouched DEF SetCountloop, TypeOK
<1>13. CASE Continue1(h)
  <2>1. UNCHANGED contEvent
    BY <1>13 DEF Continue1, ctrlVars
  <2>2. HandlerTypeOK'
    BY <1>13, <1>t, HandlerMoves DEF Continue1, HandlerSteps
  <2> QED
    BY <1>13, <2>1, <2>2, Untouched DEF Continue1, TypeOK
<1>14. CASE Continue2(h)
  <2>1. UNCHANGED contEvent
    BY <1>14 DEF Continue2, ctrlVars
  <2>2. HandlerTypeOK'
    BY <1>14, <1>t, HandlerMoves DEF Continue2, HandlerSteps
  <2> QED
    BY <1>14, <2>1, <2>2, Untouched DEF Continue2, TypeOK
<1>15. CASE SetArg(h)
  <2>1. CtrlTypeOK'
    BY <1>15, <1>t, FlagOfType DEF SetArg, CtrlTypeOK
  <2>2. UNCHANGED contEvent
    BY <1>15 DEF SetArg
  <2>3. HandlerTypeOK'
    BY <1>15, <1>t, HandlerMoves DEF SetArg, HandlerSteps
  <2> QED
    BY <1>15, <2>1, <2>2, <2>3, Untouched DEF SetArg, TypeOK
<1>16. CASE SetEvent(h)
  <2>1. CtrlTypeOK'
    BY <1>16, <1>t DEF SetEvent, CtrlTypeOK
  <2>2. contEvent' \in BOOLEAN
    BY <1>16 DEF SetEvent
  <2>3. HandlerTypeOK'
    BY <1>16, <1>t, HandlerMoves DEF SetEvent, HandlerSteps
  <2> QED
    BY <1>16, <2>1, <2>2, <2>3, Untouched DEF SetEvent, TypeOK
<1>17. CASE Stop1(h)
  <2>1. UNCHANGED contEvent
    BY <1>17 DEF Stop1, ctrlVars
  <2>2. HandlerTypeOK'
    BY <1>17, <1>t, HandlerMoves DEF Stop1, HandlerSteps
  <2> QED
    BY <1>17, <2>1, <2>2, Untouched DEF Stop1, TypeOK
<1>18. CASE Stop2(h)
  <2>1. UNCHANGED contEvent
    BY <1>18 DEF Stop2, ctrlVars
  <2>2. HandlerTypeOK'
    BY <1>18, <1>t, StepTyping DEF Stop2, HandlerTypeOK, HandlerSteps, Cmds
  <2> QED
    BY <1>18, <2>1, <2>2, Untouched DEF Stop2, TypeOK
<1>19. CASE Immediate1(h)
  <2>1. UNCHANGED contEvent
    BY <1>19 DEF Immediate1, ctrlVars
  <2>2. HandlerTypeOK'
    BY <1>19, <1>t, HandlerMoves DEF Immediate1, HandlerSteps
  <2> QED
    BY <1>19, <2>1, <2>2, Untouched DEF Immediate1, TypeOK
<1>20. CASE Immediate2(h)
  <2>1. UNCHANGED contEvent
    BY <1>20 DEF Immediate2, ctrlVars
  <2>2. HandlerTypeOK'
    BY <1>20, <1>t, HandlerMoves DEF Immediate2, HandlerSteps
  <2> QED
    BY <1>20, <2>1, <2>2, Untouched DEF Immediate2, TypeOK
<1>21. CASE Immediate3(h)
  <2>1. UNCHANGED contEvent
    BY <1>21 DEF Immediate3, ctrlVars
  <2>2. HandlerTypeOK'
    BY <1>21, <1>t, HandlerMoves DEF Immediate3, HandlerSteps
  <2> QED
    BY <1>21, <2>1, <2>2, Untouched DEF Immediate3, TypeOK
<1>22. CASE Finish1(h)
  <2>1. UNCHANGED contEvent
    BY <1>22 DEF Finish1, ctrlVars
  <2>2. HandlerTypeOK'
    BY <1>22, <1>t, HandlerMoves DEF Finish1, HandlerSteps
  <2> QED
    BY <1>22, <2>1, <2>2, Untouched DEF Finish1, TypeOK
<1>23. CASE RearrangeAcquires(h)
  <2>1. QueueTypeOK'
    BY <1>23, <1>t, LockTyping DEF RearrangeAcquires
  <2>2. UNCHANGED contEvent
    BY <1>23 DEF RearrangeAcquires, ctrlVars
  <2>3. HandlerTypeOK'
    BY <1>23, <1>t, HandlerMoves DEF RearrangeAcquires, HandlerSteps
  <2> QED
    BY <1>23, <2>1, <2>2, <2>3, Untouched DEF RearrangeAcquires, TypeOK
<1>24. CASE RearrangeMatches(h)
  <2>1. UNCHANGED contEvent
    BY <1>24 DEF RearrangeMatches, ctrlVars
  <2>2. HandlerTypeOK'
    BY <1>24, <1>t, HandlerMoves DEF RearrangeMatches, HandlerSteps
  <2> QED
    BY <1>24, <2>1, <2>2, Untouched DEF RearrangeMatches, TypeOK
<1>25. CASE RearrangeRefuses(h)
  <2>1. QueueTypeOK'
    BY <1>25, <1>t, LockTyping DEF RearrangeRefuses
  <2>2. UNCHANGED contEvent
    BY <1>25 DEF RearrangeRefuses, ctrlVars
  <2>3. HandlerTypeOK'
    BY <1>25, <1>t, HandlerMoves DEF RearrangeRefuses, HandlerSteps
  <2> QED
    BY <1>25, <2>1, <2>2, <2>3, Untouched DEF RearrangeRefuses, TypeOK
<1>26. CASE RearrangeMoves(h)
  <2>1. cmd[h].pos \in Nat
    BY <1>t DEF Cmds
  <2>2. QueueTypeOK'
    BY <1>26, <1>t, <2>1, MoveTyping DEF RearrangeMoves
  <2>3. UNCHANGED contEvent
    BY <1>26 DEF RearrangeMoves, ctrlVars
  <2>4. [cmd[h] EXCEPT !.pos = @ + 1] \in Cmds
    BY <1>t DEF Cmds
  <2>5. cmd' \in [Handlers -> Cmds]
    BY <1>26, <1>t, <2>4 DEF RearrangeMoves, HandlerTypeOK
  <2>6. hpc' \in [Handlers -> HandlerSteps] /\ budget' \in [Handlers -> Nat]
    BY <1>26, <1>t, StepTyping DEF RearrangeMoves, HandlerSteps
  <2>7. HandlerTypeOK'
    BY <1>26, <1>t, <2>5, <2>6 DEF RearrangeMoves, HandlerTypeOK
  <2> QED
    BY <1>26, <2>2, <2>3, <2>4, <2>5, <2>6, <2>7, Untouched DEF RearrangeMoves, TypeOK
<1>27. CASE RearrangeReleases(h)
  <2>1. QueueTypeOK'
    BY <1>27, <1>t, LockTyping DEF RearrangeReleases
  <2>2. UNCHANGED contEvent
    BY <1>27 DEF RearrangeReleases, ctrlVars
  <2>3. HandlerTypeOK'
    BY <1>27, <1>t, HandlerMoves DEF RearrangeReleases, HandlerSteps
  <2> QED
    BY <1>27, <2>1, <2>2, <2>3, Untouched DEF RearrangeReleases, TypeOK
<1> QED
  BY <1>1, <1>2, <1>3, <1>4, <1>5, <1>6, <1>7, <1>8, <1>9, <1>10, <1>11, <1>12, <1>13, <1>14, <1>15, <1>16, <1>17, <1>18, <1>19, <1>20, <1>21, <1>22, <1>23, <1>24, <1>25, <1>26, <1>27
     DEF HandlerStep, SubmitStep, ControlStep, RearrangeStep

(***************************************************************************)
(* Type correctness, with the fit of steps and commands that makes it      *)
(* inductive: only that says that a put is given a request.                *)
(***************************************************************************)
TypeInv == TypeOK /\ CommandFits

\* The inductive invariant holds initially.
LEMMA TypeInvInit == Init => TypeInv
BY InitTypes DEF Init, TypeInv, CommandFits, Fits, Submits, SubmitOps, NoCmd

\* Each step of the system keeps the inductive invariant.
LEMMA TypeInvStep ==
    ASSUME TypeInv, [Next]_vars
    PROVE  TypeInv'
<1>1. CASE Next
  <2>1. CommandFits'
    BY <1>1, CommandsFit DEF TypeInv, TypeOK
  <2>2. CASE ThreadStep
    BY <2>1, <2>2, ThreadTyping DEF TypeInv
  <2>3. CASE \E h \in Handlers : Receive(h) \/ HandlerStep(h)
    BY <2>1, <2>3, HandlerTyping DEF TypeInv, CommandFits
  <2> QED
    BY <1>1, <2>2, <2>3 DEF Next
<1>2. CASE UNCHANGED vars
  <2>1. /\ UNCHANGED queueVars /\ UNCHANGED ctrlVars /\ UNCHANGED threadVars
        /\ UNCHANGED handlerVars /\ UNCHANGED observed
    BY <1>2 DEF vars
  <2>2. UNCHANGED contEvent
    BY <2>1 DEF ctrlVars
  <2>3. TypeOK'
    BY <2>1, <2>2, Untouched DEF TypeInv, TypeOK
  <2>4. CommandFits'
    BY <2>1 DEF TypeInv, CommandFits, Fits, Submits, handlerVars
  <2> QED
    BY <2>3, <2>4 DEF TypeInv
<1> QED
  BY <1>1, <1>2

(***************************************************************************)
(* Type correctness, and that the step a handler is at fits the command it *)
(* works on, hold in every reachable state, for all constants.             *)
(***************************************************************************)
THEOREM TypeInvariant == Spec => []TypeInv
BY TypeInvInit, TypeInvStep, PTL DEF Spec

(***************************************************************************)
(* The shared state of controller, script thread and handlers is typed;    *)
(* the thread has a request at work exactly outside its resting steps.     *)
(***************************************************************************)
THEOREM TypeCorrect == Spec => []TypeOK
BY TypeInvariant, PTL DEF TypeInv

--------------------------------------------------------------------------------
(***************************************************************************)
(* Breaks and stops: a breakpoint nobody meant does not wait, and a pending *)
(* stop is not lost.                                                       *)
(***************************************************************************)

(***************************************************************************)
(* The break function at work, and the state it shares with the handlers.  *)
(***************************************************************************)
BreakSteps == {"bf_enter", "bf_setarg", "bf_setevent", "bf_wait", "bf_clear",
               "bf_read", "bf_act"}
breakVars == <<brk, contEvent, contArg, flag>>

\* The argument of the continue event is going to be read.
ArgInUse ==
    \/ contEvent
    \/ tpc \in {"bf_setevent", "bf_clear", "bf_read"}
    \/ \E h \in Handlers : hpc[h] = "set_event"

(***************************************************************************)
(* The break function never works on the flag that means nothing.  That    *)
(* needs the second part: what it reads from the continue event was        *)
(* written by a handler or by the function itself.                         *)
(***************************************************************************)
FlagsMeant ==
    /\ tpc \in {"bf_enter", "bf_setarg", "bf_act"} => flag \in Flags
    /\ ArgInUse => contArg \in Flags

\* No flag of a request is the flag that means nothing.
LEMMA FlagsAreNotNoFlag == NoFlag \notin Flags
BY DEF NoFlag, Flags

(***************************************************************************)
(* Steps of the script thread outside the break function leave breaks and  *)
(* flags alone, but for those that come to a breakpoint, ask for a pause   *)
(* or start a block.                                                       *)
(***************************************************************************)
Quiet ==
    /\ UNCHANGED breakVars /\ UNCHANGED hpc
    /\ tpc \notin BreakSteps /\ tpc' \notin BreakSteps

\* Taking a request leaves breaks and flags alone.
LEMMA TakeQuiet == TakeStep => Quiet
<1> USE DEF Quiet, breakVars, ctrlVars, handlerVars, BreakSteps, Goto
<1> QED
  BY DEF TakeStep, ThreadStart, GetWaits, GetPops, GetRaises, ExecuteEstop, Processing,
         ParseSucceeds, ParseFails

\* So does ending a script.
LEMMA StopQuiet == StopStep => Quiet
<1> USE DEF Quiet, breakVars, ctrlVars, handlerVars, BreakSteps, Goto
<1> QED
  BY DEF StopStep, Unwinds, StopCaught, EstopBlocks, EstopEmits, EstopRuns, Finish

\* What the steps of a block do to breaks and flags.
LEMMA BlockCases ==
    ASSUME BlockStep
    PROVE  \/ Quiet
           \/ StartBlock
           \/ ScriptPauses
           \/ /\ tpc \notin BreakSteps /\ tpc' = "bf_enter"
              /\ brk # NoFlag /\ flag' = brk /\ brk' = NoFlag
              /\ UNCHANGED <<contEvent, contArg, hpc>>
<1> USE DEF BreakSteps, Goto, handlerVars
<1>1. CASE ExecuteBegins \/ ExecuteEnds \/ LinePasses \/ RequiredBreakpointPasses
           \/ CountReads \/ CountResets \/ BlockEnds \/ BlockRaises
  BY <1>1 DEF Quiet, breakVars, ctrlVars, ExecuteBegins, ExecuteEnds, LinePasses,
     RequiredBreakpointPasses, CountReads, CountResets, BlockEnds, BlockRaises
<1>2. CASE LineBreaks \/ BreakpointBreaks \/ RequiredBreakpointBreaks
  BY <1>2 DEF LineBreaks, BreakpointBreaks, RequiredBreakpointBreaks, Breaks
<1> QED
  BY <1>1, <1>2 DEF BlockStep

(***************************************************************************)
(* Handlers touch breaks and flags in three steps only.                    *)
(***************************************************************************)
Aside(h) ==
    /\ UNCHANGED breakVars /\ UNCHANGED tpc
    /\ hpc[h] # "set_event" /\ hpc'[h] # "set_event"

\* No command begins with the event of set_continue.
LEMMA FirstStepAside ==
    ASSUME NEW op \in Commands
    PROVE  FirstStep(op) # "set_event"
BY DEF FirstStep, Commands

\* What a handler does to breaks and flags.
LEMMA HandlerBreaks ==
    ASSUME HandlerTypeOK, NEW h \in Handlers, Receive(h) \/ HandlerStep(h)
    PROVE  Aside(h) \/ SetBreak(h) \/ SetArg(h) \/ SetEvent(h)
<1> USE DEF Aside, breakVars, ctrlVars, threadVars, HandlerTypeOK, Step, Reply
<1>1. CASE Receive(h)
  <2>1. PICK op \in Ops[h] : hpc' = [hpc EXCEPT ![h] = FirstStep(op)]
    BY <1>1 DEF Receive
  <2>2. op \in Commands
    BY <2>1, ControlAssumption
  <2>3. hpc'[h] # "set_event"
    BY <2>1, <2>2, FirstStepAside
  <2> QED
    BY <1>1, <2>3 DEF Receive
<1>2. CASE SubmitStep(h)
  BY <1>2 DEF SubmitStep, CheckIdle, CheckBusy, Announce, PutRequest, UnqueueOne,
     UnqueueAll, EmitBlocked
<1>3. CASE Break1(h) \/ Break2(h) \/ SetCountloop(h) \/ Continue1(h) \/ Continue2(h)
           \/ Stop1(h) \/ Stop2(h)
  BY <1>3 DEF Break1, Break2, SetCountloop, Continue1, Continue2, Stop1, Stop2
<1>4. CASE Immediate1(h) \/ Immediate2(h) \/ Immediate3(h) \/ Finish1(h)
  BY <1>4 DEF Immediate1, Immediate2, Immediate3, Finish1
<1>5. CASE RearrangeStep(h)
  BY <1>5 DEF RearrangeStep, RearrangeAcquires, RearrangeMatches, RearrangeRefuses,
     RearrangeMoves, RearrangeReleases
<1> QED
  BY <1>1, <1>2, <1>3, <1>4, <1>5 DEF HandlerStep, ControlStep

(***************************************************************************)
(* Only commands that want a break or a stop come to set_break.            *)
(***************************************************************************)
StopOps == {"stop", "watchdog_stop", "emergency"}

Wants(h) ==
    /\ hpc[h] \in {"break1", "break2"} => cmd[h].op = "break"
    /\ hpc[h] \in {"stop1", "stop2"} => cmd[h].op \in StopOps
    /\ hpc[h] = "delete_one" => cmd[h].op = "unqueue"
    /\ hpc[h] = "delete_all" => cmd[h].op \in StopOps \cup {"unqueue_all"}
    /\ hpc[h] = "emit_blocked" => cmd[h].op \in StopOps \cup {"unqueue", "unqueue_all"}
    /\ hpc[h] = "set_break" => cmd[h].op \in StopOps \cup {"break"}

BreaksWanted == \A h \in Handlers : Wants(h)

\* A step to one that is not listed above needs no argument.
Unlisted == HandlerSteps \ {"break1", "break2", "stop1", "stop2", "delete_one",
                            "delete_all", "emit_blocked", "set_break"}

\* Such a step keeps to what the command wants.
LEMMA WantsUnlisted ==
    ASSUME HandlerTypeOK, NEW h \in Handlers, hpc'[h] \in Unlisted
    PROVE  Wants(h)'
BY DEF Wants, Unlisted

\* So does a reply.
LEMMA WantsReply ==
    ASSUME HandlerTypeOK, NEW h \in Handlers, NEW a, Reply(h, a)
    PROVE  Wants(h)'
BY WantsUnlisted DEF Reply, Step, Unlisted, HandlerTypeOK, HandlerSteps

\* The first step of a command fits what it wants.
LEMMA WantsFirst ==
    ASSUME NEW op \in Commands
    PROVE  /\ FirstStep(op) \notin {"break1", "break2", "stop2", "emit_blocked", "set_break"}
           /\ FirstStep(op) = "stop1" => op \in StopOps
           /\ FirstStep(op) = "delete_one" => op = "unqueue"
           /\ FirstStep(op) = "delete_all" => op = "unqueue_all"
BY DEF FirstStep, Commands, StopOps

\* The handler that makes a step keeps to what its command wants.
LEMMA WantsHandler ==
    ASSUME HandlerTypeOK, NEW h \in Handlers, Fits(h), Wants(h), Receive(h) \/ HandlerStep(h)
    PROVE  Wants(h)'
<1> USE DEF Step, HandlerTypeOK, HandlerSteps, Unlisted, StopOps
<1>1. CASE Receive(h)
  <2>1. PICK op \in Ops[h] : \E c \in Arguments(op) :
              /\ cmd' = [cmd EXCEPT ![h] = c]
              /\ hpc' = [hpc EXCEPT ![h] = FirstStep(op)]
    BY <1>1 DEF Receive
  <2>2. PICK c \in Arguments(op) :
              /\ cmd' = [cmd EXCEPT ![h] = c]
              /\ hpc' = [hpc EXCEPT ![h] = FirstStep(op)]
    BY <2>1
  <2>3. op \in Commands
    BY <2>1, ControlAssumption
  <2>4. cmd'[h].op = op /\ hpc'[h] = FirstStep(op)
    BY <2>2, <2>3, FitsArguments
  <2> QED
    BY <2>3, <2>4, WantsFirst DEF Wants
<1>2. CASE CheckIdle(h)
  BY <1>2, WantsReply, WantsUnlisted DEF CheckIdle
<1>3. CASE CheckBusy(h)
  <2>1. CASE status \in Idle
    BY <1>3, <2>1, WantsReply DEF CheckBusy
  <2>2. CASE status \notin Idle /\ cmd[h].op = "break"
    BY <1>3, <2>2 DEF CheckBusy, Wants
  <2>3. CASE status \notin Idle /\ cmd[h].op = "stop"
    BY <1>3, <2>3 DEF CheckBusy, Wants
  <2>4. CASE status \notin Idle /\ cmd[h].op \notin {"break", "stop"}
    <3>1. hpc'[h] \in {"cont1", "fin1"}
      BY <1>3, <2>4 DEF CheckBusy
    <3> QED
      BY <3>1, WantsUnlisted
  <2> QED
    BY <2>1, <2>2, <2>3, <2>4
<1>4. CASE Announce(h) \/ PutRequest(h) \/ SetArg(h) \/ SetEvent(h) \/ SetCountloop(h)
  BY <1>4, WantsReply, WantsUnlisted DEF Announce, PutRequest, SetArg, SetEvent, SetCountloop
<1>5. CASE UnqueueOne(h)
  BY <1>5, WantsReply DEF UnqueueOne, Wants
<1>6. CASE UnqueueAll(h)
  BY <1>6 DEF UnqueueAll, Wants
<1>7. CASE EmitBlocked(h)
  <2>1. CASE cmd[h].op \in {"unqueue", "unqueue_all"}
    BY <1>7, <2>1, WantsReply DEF EmitBlocked
  <2>2. CASE cmd[h].op \in StopOps
    <3>1. cmd[h].op \in StopOps /\ cmd' = cmd
      BY <1>7, <2>2 DEF EmitBlocked
    <3>2. hpc'[h] \in {"imm3", "set_break", "set_arg"}
      BY <1>7, <2>2 DEF EmitBlocked
    <3> QED
      BY <3>1, <3>2 DEF Wants
  <2>3. cmd[h].op \in StopOps \cup {"unqueue", "unqueue_all"}
    BY <1>7 DEF EmitBlocked, Wants, Reply
  <2> QED
    BY <2>1, <2>2, <2>3
<1>8. CASE Break1(h) \/ Break2(h)
  BY <1>8, WantsReply DEF Break1, Break2, Wants
<1>9. CASE SetBreak(h)
  BY <1>9, WantsReply, WantsUnlisted DEF SetBreak
<1>10. CASE Continue1(h) \/ Continue2(h) \/ Finish1(h)
  BY <1>10, WantsReply, WantsUnlisted DEF Continue1, Continue2, Finish1
<1>11. CASE Stop1(h)
  BY <1>11, WantsReply DEF Stop1, Wants
<1>12. CASE Stop2(h)
  <2>1. cmd'[h].op = cmd[h].op
    BY <1>12 DEF Stop2, Cmds
  <2> QED
    BY <1>12, <2>1 DEF Stop2, Wants
<1>13. CASE Immediate1(h)
  BY <1>13, WantsUnlisted DEF Immediate1
<1>14. CASE Immediate2(h)
  BY <1>14, WantsReply DEF Immediate2, Wants, Fits
<1>15. CASE Immediate3(h)
  BY <1>15 DEF Immediate3, Wants, Fits
<1>16. CASE RearrangeStep(h)
  BY <1>16, WantsReply, WantsUnlisted DEF RearrangeStep, RearrangeAcquires, RearrangeMatches,
     RearrangeRefuses, RearrangeMoves, RearrangeReleases
<1> QED
  BY <1>1, <1>2, <1>3, <1>4, <1>5, <1>6, <1>7, <1>8, <1>9, <1>10, <1>11, <1>12, <1>13,
     <1>14, <1>15, <1>16 DEF HandlerStep, SubmitStep, ControlStep

\* Each step of the system keeps BreaksWanted.
LEMMA BreaksStayWanted ==
    ASSUME HandlerTypeOK, CommandFits, BreaksWanted, Next
    PROVE  BreaksWanted'
<1>1. CASE ThreadStep
  <2>1. UNCHANGED <<hpc, cmd>>
    BY <1>1, ThreadLocal
  <2> QED
    BY <2>1 DEF BreaksWanted, Wants
<1>2. ASSUME NEW h \in Handlers, Receive(h) \/ HandlerStep(h)
      PROVE  BreaksWanted'
  <2>1. Wants(h)'
    BY <1>2, WantsHandler DEF BreaksWanted, CommandFits
  <2>2. \A g \in Handlers \ {h} : Wants(g)'
    BY <1>2, HandlerLocal DEF BreaksWanted, Wants, Elsewhere
  <2> QED
    BY <2>1, <2>2 DEF BreaksWanted
<1> QED
  BY <1>1, <1>2 DEF Next

(***************************************************************************)
(* The inductive invariant: what commands want, and that flags mean        *)
(* something, on top of the types.                                         *)
(***************************************************************************)
StopInv == TypeInv /\ BreaksWanted /\ FlagsMeant /\ TransientNeverBlocks

\* The invariant holds initially.
LEMMA StopInvInit == Init => StopInv
<1> SUFFICES ASSUME Init PROVE StopInv
  OBVIOUS
<1>1. TypeInv
  BY TypeInvInit
<1>2. BreaksWanted
  BY DEF Init, BreaksWanted, Wants
<1>3. FlagsMeant /\ TransientNeverBlocks
  BY DEF Init, FlagsMeant, ArgInUse, TransientNeverBlocks
<1> QED
  BY <1>1, <1>2, <1>3 DEF StopInv

\* Where nothing that matters changes, both parts stay true.
LEMMA QuietMeans ==
    ASSUME FlagsMeant, Quiet
    PROVE  FlagsMeant' /\ TransientNeverBlocks'
BY DEF FlagsMeant, ArgInUse, TransientNeverBlocks, Quiet, BreakSteps, breakVars

(***************************************************************************)
(* The steps of the script thread keep FlagsMeant, and the break function  *)
(* waits for a user only where a break was meant.                          *)
(***************************************************************************)
LEMMA ThreadMeans ==
    ASSUME TypeOK, FlagsMeant, TransientNeverBlocks, ThreadStep
    PROVE  FlagsMeant' /\ TransientNeverBlocks'
<1> USE DEF FlagsMeant, ArgInUse, TransientNeverBlocks, Goto, BreakSteps
<1>1. CASE TakeStep \/ StopStep
  BY <1>1, TakeQuiet, StopQuiet, QuietMeans
<1>2. CASE BlockStep
  <2>1. CASE Quiet
    BY <2>1, QuietMeans
  <2>2. CASE StartBlock
    BY <2>2 DEF StartBlock, handlerVars
  <2>3. CASE ScriptPauses
    BY <2>3 DEF ScriptPauses, handlerVars
  <2>4. CASE /\ tpc \notin BreakSteps /\ tpc' = "bf_enter"
             /\ brk # NoFlag /\ flag' = brk /\ brk' = NoFlag
             /\ UNCHANGED <<contEvent, contArg, hpc>>
    BY <2>4 DEF TypeOK, CtrlTypeOK
  <2> QED
    BY <1>2, <2>1, <2>2, <2>3, <2>4, BlockCases
<1>3. CASE BreakStep
  <2> USE DEF handlerVars, ctrlVars
  <2>1. CASE BfEnter
    <3>1. UNCHANGED <<contEvent, contArg, flag, bplevel, hpc>>
      BY <2>1 DEF BfEnter
    <3>2. PassesThrough' = PassesThrough
      BY <3>1 DEF PassesThrough
    <3> QED
      BY <2>1, <3>1, <3>2 DEF BfEnter
  <2>2. CASE BfSetArg
    BY <2>2 DEF BfSetArg
  <2>3. CASE BfSetEvent
    BY <2>3 DEF BfSetEvent
  <2>4. CASE BfWait
    BY <2>4 DEF BfWait
  <2>5. CASE BfClear
    BY <2>5 DEF BfClear
  <2>6. CASE BfRead
    BY <2>6 DEF BfRead
  <2>7. CASE BfResumes
    BY <2>7 DEF BfResumes
  <2>8. CASE BfStops
    BY <2>8 DEF BfStops
  <2> QED
    BY <1>3, <2>1, <2>2, <2>3, <2>4, <2>5, <2>6, <2>7, <2>8 DEF BreakStep
<1> QED
  BY <1>1, <1>2, <1>3 DEF ThreadStep

\* The steps of a handler do the same.
LEMMA HandlerMeans ==
    ASSUME TypeOK, FlagsMeant, TransientNeverBlocks,
           NEW h \in Handlers, Receive(h) \/ HandlerStep(h)
    PROVE  FlagsMeant' /\ TransientNeverBlocks'
<1> USE DEF FlagsMeant, ArgInUse, TransientNeverBlocks
<1>t. HandlerTypeOK /\ cmd[h] \in Cmds
  BY DEF TypeOK, HandlerTypeOK
<1>p. UNCHANGED <<flag, bplevel>> => PassesThrough' = PassesThrough
  BY DEF PassesThrough
<1>e. \A g \in Handlers \ {h} : hpc'[g] = hpc[g]
  BY <1>t, HandlerLocal DEF Elsewhere
<1>l. UNCHANGED threadVars
  BY DEF HandlerStep, SubmitStep, ControlStep, RearrangeStep, Receive, CheckIdle, CheckBusy,
     Announce, PutRequest, UnqueueOne, UnqueueAll, EmitBlocked, Break1, Break2, SetBreak,
     SetCountloop, Continue1, Continue2, SetArg, SetEvent, Stop1, Stop2, Immediate1,
     Immediate2, Immediate3, Finish1, RearrangeAcquires, RearrangeMatches,
     RearrangeRefuses, RearrangeMoves, RearrangeReleases
<1>u. UNCHANGED <<tpc, flag, bplevel>>
  BY <1>l DEF threadVars
<1>1. CASE Aside(h)
  BY <1>1, <1>p, <1>e, <1>u DEF Aside, breakVars
<1>2. CASE SetBreak(h)
  <2>1. hpc'[h] # "set_event"
    BY <1>2, <1>t DEF SetBreak, Reply, Step, HandlerTypeOK
  <2> QED
    BY <1>2, <2>1, <1>p, <1>e, <1>u DEF SetBreak
<1>3. CASE SetArg(h)
  BY <1>3, <1>t, <1>p, <1>u, FlagOfType DEF SetArg
<1>4. CASE SetEvent(h)
  BY <1>4, <1>p, <1>u DEF SetEvent, Reply, Step
<1> QED
  BY <1>t, <1>1, <1>2, <1>3, <1>4, HandlerBreaks

\* Each step of the system keeps the inductive invariant.
LEMMA StopInvStep ==
    ASSUME StopInv, [Next]_vars
    PROVE  StopInv'
<1> USE DEF StopInv
<1>1. TypeInv' /\ TypeOK /\ HandlerTypeOK /\ CommandFits
  BY TypeInvStep DEF TypeInv, TypeOK
<1>2. CASE Next
  <2>1. BreaksWanted'
    BY <1>1, <1>2, BreaksStayWanted
  <2>2. FlagsMeant' /\ TransientNeverBlocks'
    BY <1>1, <1>2, ThreadMeans, HandlerMeans DEF Next
  <2> QED
    BY <1>1, <2>1, <2>2
<1>3. CASE UNCHANGED vars
  <2>1. UNCHANGED <<breakVars, tpc, bplevel, hpc, cmd>>
    BY <1>3 DEF vars, ctrlVars, threadVars, handlerVars, breakVars
  <2>2. BreaksWanted'
    BY <2>1 DEF BreaksWanted, Wants
  <2>3. FlagsMeant'
    BY <2>1 DEF FlagsMeant, ArgInUse, breakVars
  <2>4. TransientNeverBlocks'
    BY <2>1 DEF TransientNeverBlocks, PassesThrough, breakVars
  <2> QED
    BY <1>1, <2>2, <2>3, <2>4
<1> QED
  BY <1>2, <1>3

\* The inductive invariant holds in every reachable state.
LEMMA StopInvariant == Spec => []StopInv
BY StopInvInit, StopInvStep, PTL DEF Spec

(***************************************************************************)
(* A breakpoint of a level nobody asked for, and a stop, never make the    *)
(* script thread wait for a user, whatever the handlers do to the continue *)
(* event meanwhile.                                                        *)
(***************************************************************************)
THEOREM TransientsPass == Spec => []TransientNeverBlocks
BY StopInvariant, PTL DEF StopInv

(***************************************************************************)
(* What a step may do to a pending stop.                                   *)
(***************************************************************************)
KeepsStop == StopPending => StopPending' \/ outcome' # "none" \/ Overridden

\* A step that leaves breaks and flags alone keeps a pending stop.
LEMMA QuietKeepsStop == Quiet => KeepsStop
BY DEF KeepsStop, StopPending, Quiet, breakVars, BreakSteps

\* The script thread hands a pending stop on, or acts on it.
LEMMA ThreadKeepsStop ==
    ASSUME TypeOK, FlagsMeant, ThreadStep
    PROVE  KeepsStop
<1> USE DEF Goto, BreakSteps, KeepsStop, StopPending, StopModes
<1>1. CASE TakeStep \/ StopStep
  BY <1>1, TakeQuiet, StopQuiet, QuietKeepsStop
<1>2. CASE BlockStep
  <2>1. CASE Quiet
    BY <2>1, QuietKeepsStop
  <2>2. CASE StartBlock
    BY <2>2 DEF StartBlock, handlerVars, Overridden
  <2>3. CASE ScriptPauses
    BY <2>3 DEF ScriptPauses, handlerVars, Overridden, BreakFlag
  <2>4. CASE /\ tpc \notin BreakSteps /\ tpc' = "bf_enter"
             /\ brk # NoFlag /\ flag' = brk /\ brk' = NoFlag
             /\ UNCHANGED <<contEvent, contArg, hpc>>
    BY <2>4
  <2> QED
    BY <1>2, <2>1, <2>2, <2>3, <2>4, BlockCases
<1>3. CASE BreakStep
  <2> USE DEF handlerVars, ctrlVars
  <2>1. CASE BfEnter
    BY <2>1 DEF BfEnter, PassesThrough
  <2>2. CASE BfSetArg
    <3>1. flag.mode \in {"break", "continue"} \cup StopModes
      BY <2>2 DEF BfSetArg, FlagsMeant, Flags
    <3> QED
      BY <2>2, <3>1 DEF BfSetArg, Overridden
  <2>3. CASE BfSetEvent
    BY <2>3 DEF BfSetEvent
  <2>4. CASE BfWait
    BY <2>4 DEF BfWait
  <2>5. CASE BfClear
    BY <2>5 DEF BfClear
  <2>6. CASE BfRead
    BY <2>6 DEF BfRead
  <2>7. CASE BfResumes
    <3>1. flag.mode \in {"break", "continue"} \cup StopModes
      BY <2>7 DEF BfResumes, FlagsMeant, Flags
    <3> QED
      BY <2>7, <3>1 DEF BfResumes, Overridden
  <2>8. CASE BfStops
    BY <2>8 DEF BfStops
  <2> QED
    BY <1>3, <2>1, <2>2, <2>3, <2>4, <2>5, <2>6, <2>7, <2>8 DEF BreakStep
<1> QED
  BY <1>1, <1>2, <1>3 DEF ThreadStep

\* A handler replaces a pending stop only by what may override it.
LEMMA HandlerKeepsStop ==
    ASSUME TypeOK, BreaksWanted, NEW h \in Handlers, Receive(h) \/ HandlerStep(h)
    PROVE  KeepsStop
<1> USE DEF KeepsStop, StopPending, StopModes
<1>t. HandlerTypeOK /\ hpc \in [Handlers -> HandlerSteps] /\ cmd[h] \in Cmds
  BY DEF TypeOK, HandlerTypeOK
<1>e. \A g \in Handlers \ {h} : hpc'[g] = hpc[g]
  BY <1>t, HandlerLocal DEF Elsewhere
<1>1. CASE Aside(h)
  BY <1>1, <1>e DEF Aside, breakVars
<1>2. CASE SetBreak(h)
  <2>1. cmd[h].op \in StopOps \cup {"break"}
    BY <1>2 DEF SetBreak, Reply, Step, BreaksWanted, Wants
  <2>2. brk' = FlagOf(cmd[h]) /\ UNCHANGED <<contEvent, contArg, threadVars>>
    BY <1>2 DEF SetBreak
  <2>3. CASE cmd[h].op = "break"
    <3>1. brk'.mode = "break"
      BY <2>2, <2>3 DEF FlagOf, BreakFlag
    <3>2. hpc[h] # "set_event"
      BY <1>2 DEF SetBreak, Reply, Step
    <3> QED
      BY <2>2, <3>1, <3>2, <1>e DEF Overridden, threadVars
  <2>4. CASE cmd[h].op \in StopOps
    <3>1. brk'.mode \in StopModes
      BY <2>2, <2>4 DEF FlagOf, StopFlag, EstopFlag, StopOps
    <3> QED
      BY <3>1
  <2> QED
    BY <2>1, <2>3, <2>4
<1>3. CASE SetArg(h)
  <2>1. contArg' = FlagOf(cmd[h]) /\ UNCHANGED <<brk, contEvent, threadVars>>
    BY <1>3 DEF SetArg
  <2>2. hpc'[h] = "set_event" /\ hpc[h] # "set_event"
    BY <1>3, <1>t DEF SetArg, Step
  <2>3. contArg'.mode \in {"break", "continue"} \cup StopModes
    BY <1>t, <2>1, FlagOfType DEF Flags
  <2> QED
    BY <2>1, <2>2, <2>3, <1>e DEF Overridden, threadVars
<1>4. CASE SetEvent(h)
  BY <1>4 DEF SetEvent, threadVars
<1> QED
  BY <1>t, <1>1, <1>2, <1>3, <1>4, HandlerBreaks

(***************************************************************************)
(* A pending stop is never forgotten: each step leaves it pending, ends    *)
(* the script, or is one that may override it.                             *)
(***************************************************************************)
THEOREM StopsAreKept == Spec => StopNotForgotten
<1>1. ASSUME StopInv, [Next]_vars
      PROVE  [KeepsStop]_vars
  <2>1. CASE Next
    <3>1. TypeOK /\ FlagsMeant /\ BreaksWanted
      BY <1>1 DEF StopInv, TypeInv
    <3> QED
      BY <2>1, <3>1, ThreadKeepsStop, HandlerKeepsStop DEF Next
  <2>2. CASE UNCHANGED vars
    BY <2>2
  <2> QED
    BY <1>1, <2>1, <2>2
<1> QED
  BY <1>1, StopInvariant, PTL DEF Spec, StopNotForgotten, KeepsStop

--------------------------------------------------------------------------------
(***************************************************************************)
(* Every request is at one place. Most steps do not touch the requests;    *)
(* they are handled together as "asides".                                  *)
(***************************************************************************)

SameNews ==
    \A r \in Requests : \A k \in {"request", "blocked"} :
       k \in events'[r] <=> k \in events[r]

ThreadAside ==
    /\ UNCHANGED <<scripts, qevent, taken, tbatch, hpc, cmd, batch>>
    /\ SameNews
    /\ tpc # "start" /\ tpc' # "start"
    /\ tpc' = "estop_emit" <=> tpc = "estop_emit"

HandlerAside(h) ==
    /\ UNCHANGED <<scripts, qevent, taken, tbatch, tpc, events, batch>>
    /\ Elsewhere(h)
    /\ hpc[h] \notin {"put", "emit_blocked"}
    /\ hpc'[h] \notin {"put", "emit_blocked"}
    /\ \/ cmd'[h] = NoCmd
       \/ cmd'[h].op = cmd[h].op /\ cmd'[h].req = cmd[h].req

\* Sending a processing or done event tells no news of a request's place.
LEMMA OtherNews ==
    ASSUME ObservedTypeOK, NEW kind \in {"processing", "done"}, NEW reqs, Emit(kind, reqs)
    PROVE  SameNews
BY DEF ObservedTypeOK, Emit, SameNews

\* Nor does a step that sends nothing.
LEMMA NoNews == UNCHANGED events => SameNews
BY DEF SameNews

\* Each step of the script thread is one of five classes by its effect on requests.
LEMMA ThreadCases ==
    ASSUME TypeOK, ThreadStep
    PROVE  ThreadStart \/ GetPops \/ EstopBlocks \/ EstopEmits \/ ThreadAside
<1> USE NoNews DEF Goto, ThreadAside, queueVars, handlerVars, observed
<1>t. ObservedTypeOK
  BY DEF TypeOK
<1>1. CASE GetWaits
  BY <1>1 DEF GetWaits, Wait
<1>2. CASE GetRaises
  BY <1>2 DEF GetRaises, PopRaises
<1>3. CASE ExecuteEstop
  BY <1>3 DEF ExecuteEstop
<1>4. CASE Processing
  BY <1>4, <1>t, OtherNews DEF Processing
<1>5. CASE ParseSucceeds
  BY <1>5 DEF ParseSucceeds
<1>6. CASE ParseFails
  BY <1>6, <1>t, OtherNews DEF ParseFails
<1>7. CASE ExecuteBegins
  BY <1>7 DEF ExecuteBegins
<1>8. CASE StartBlock
  BY <1>8 DEF StartBlock
<1>9. CASE ExecuteEnds
  BY <1>9 DEF ExecuteEnds
<1>10. CASE LinePasses
  BY <1>10 DEF LinePasses
<1>11. CASE LineBreaks
  BY <1>11 DEF LineBreaks, Breaks
<1>12. CASE BreakpointBreaks
  BY <1>12 DEF BreakpointBreaks, Breaks
<1>13. CASE RequiredBreakpointBreaks
  BY <1>13 DEF RequiredBreakpointBreaks, Breaks
<1>14. CASE RequiredBreakpointPasses
  BY <1>14 DEF RequiredBreakpointPasses
<1>15. CASE ScriptPauses
  BY <1>15 DEF ScriptPauses
<1>16. CASE CountReads
  BY <1>16 DEF CountReads
<1>17. CASE CountResets
  BY <1>17 DEF CountResets
<1>18. CASE BlockEnds
  BY <1>18 DEF BlockEnds
<1>19. CASE BlockRaises
  BY <1>19 DEF BlockRaises
<1>20. CASE BfEnter
  BY <1>20 DEF BfEnter
<1>21. CASE BfSetArg
  BY <1>21 DEF BfSetArg
<1>22. CASE BfSetEvent
  BY <1>22 DEF BfSetEvent
<1>23. CASE BfWait
  BY <1>23 DEF BfWait
<1>24. CASE BfClear
  BY <1>24 DEF BfClear
<1>25. CASE BfRead
  BY <1>25 DEF BfRead
<1>26. CASE BfResumes
  BY <1>26 DEF BfResumes
<1>27. CASE BfStops
  BY <1>27 DEF BfStops
<1>28. CASE Unwinds
  BY <1>28 DEF Unwinds
<1>29. CASE StopCaught
  BY <1>29 DEF StopCaught
<1>30. CASE EstopRuns
  BY <1>30 DEF EstopRuns
<1>31. CASE Finish
  BY <1>31, <1>t, OtherNews DEF Finish
<1> QED
  BY <1>1, <1>2, <1>3, <1>4, <1>5, <1>6, <1>7, <1>8, <1>9, <1>10, <1>11, <1>12, <1>13, <1>14, <1>15, <1>16, <1>17, <1>18, <1>19, <1>20, <1>21, <1>22, <1>23, <1>24, <1>25, <1>26, <1>27, <1>28, <1>29, <1>30, <1>31
     DEF ThreadStep, TakeStep, BlockStep, BreakStep, StopStep

\* Each step of a handler is one of a few classes by its effect on requests.
LEMMA HandlerCases ==
    ASSUME TypeInv, NEW h \in Handlers, Receive(h) \/ HandlerStep(h)
    PROVE  \/ Receive(h) \/ Announce(h) \/ PutRequest(h) \/ UnqueueOne(h)
           \/ UnqueueAll(h) \/ EmitBlocked(h) \/ RearrangeMoves(h) \/ HandlerAside(h)
<1> USE DEF HandlerAside, Step, Reply, queueVars, threadVars, observed, HandlerTypeOK
<1>t. HandlerTypeOK /\ Elsewhere(h)
  BY HandlerLocal DEF TypeInv, TypeOK
<1>1. CASE CheckIdle(h)
  BY <1>1, <1>t DEF CheckIdle
<1>2. CASE CheckBusy(h)
  BY <1>2, <1>t DEF CheckBusy
<1>3. CASE Break1(h)
  BY <1>3, <1>t DEF Break1
<1>4. CASE Break2(h)
  BY <1>4, <1>t DEF Break2
<1>5. CASE SetBreak(h)
  BY <1>5, <1>t DEF SetBreak
<1>6. CASE SetCountloop(h)
  BY <1>6, <1>t DEF SetCountloop
<1>7. CASE Continue1(h)
  BY <1>7, <1>t DEF Continue1
<1>8. CASE Continue2(h)
  BY <1>8, <1>t DEF Continue2
<1>9. CASE SetArg(h)
  BY <1>9, <1>t DEF SetArg
<1>10. CASE SetEvent(h)
  BY <1>10, <1>t DEF SetEvent
<1>11. CASE Stop1(h)
  BY <1>11, <1>t DEF Stop1
<1>12. CASE Stop2(h)
  BY <1>12, <1>t DEF Stop2, Cmds
<1>13. CASE Immediate1(h)
  BY <1>13, <1>t DEF Immediate1
<1>14. CASE Immediate2(h)
  BY <1>14, <1>t DEF Immediate2
<1>15. CASE Immediate3(h)
  BY <1>15, <1>t DEF Immediate3
<1>16. CASE Finish1(h)
  BY <1>16, <1>t DEF Finish1
<1>17. CASE RearrangeAcquires(h)
  BY <1>17, <1>t DEF RearrangeAcquires, Acquire, Release
<1>18. CASE RearrangeMatches(h)
  BY <1>18, <1>t DEF RearrangeMatches, Acquire, Release
<1>19. CASE RearrangeRefuses(h)
  BY <1>19, <1>t DEF RearrangeRefuses, Acquire, Release
<1>20. CASE RearrangeReleases(h)
  BY <1>20, <1>t DEF RearrangeReleases, Acquire, Release
<1> QED
  BY <1>1, <1>2, <1>3, <1>4, <1>5, <1>6, <1>7, <1>8, <1>9, <1>10, <1>11, <1>12, <1>13, <1>14, <1>15, <1>16, <1>17, <1>18, <1>19, <1>20
     DEF HandlerStep, SubmitStep, ControlStep, RearrangeStep

(***************************************************************************)
(* The inductive invariant.  That a request is at one place needs that it  *)
(* is submitted once; that a put does not queue a request again needs that *)
(* only announced requests are anywhere and that a request is announced    *)
(* just before its put; that a batch is not lost needs that it is empty    *)
(* when the next deletion fills it.                                        *)
(***************************************************************************)
RequestInv ==
    /\ SubmittedOnce /\ OnlyAnnounced /\ BatchesReported /\ NoDuplicates
    /\ EventExact /\ AtOnePlace /\ NothingLost

\* The request invariant holds initially.
LEMMA RequestInit == Init => RequestInv
<1> SUFFICES ASSUME Init PROVE RequestInv
  OBVIOUS
<1>1. Queued = {} /\ NoDuplicates
  BY DEF Init, QueueInit, Queued, Range, NoDuplicates
<1>2. EventExact
  BY DEF Init, QueueInit, EventExact
<1>3. \A h \in Handlers : hpc[h] = "idle" /\ ~Submits(h) /\ batch[h] = {}
  BY DEF Init, Submits, SubmitOps, NoCmd
<1>4. \A r \in Requests : events[r] = {}
  BY DEF Init
<1>5. taken = {} /\ tbatch = {} /\ tpc = "start"
  BY DEF Init
<1>6. Setup \in Requests
  BY ConstantTypes
<1> QED
  BY <1>1, <1>2, <1>3, <1>4, <1>5, <1>6
     DEF RequestInv, SubmittedOnce, OnlyAnnounced, BatchesReported, AtOnePlace,
         NothingLost, Announced, Submitting, HeldBy, Dropped

\* A handler without a command submits nothing.
LEMMA NoCmdSubmits ==
    NoCmd.op \notin SubmitOps
BY DEF NoCmd, SubmitOps

\* Steps of the thread that touch no request keep the request invariant.
LEMMA ThreadAsideSafe ==
    ASSUME TypeInv, RequestInv, ThreadAside
    PROVE  RequestInv'
<1>i. /\ SubmittedOnce /\ OnlyAnnounced /\ BatchesReported /\ NoDuplicates
      /\ EventExact /\ AtOnePlace /\ NothingLost
  BY DEF RequestInv
<1>t. QueueTypeOK /\ ThreadTypeOK /\ HandlerTypeOK /\ ObservedTypeOK /\ CommandFits
  BY DEF TypeInv, TypeOK
<1>1. UNCHANGED <<scripts, qevent, taken, tbatch, hpc, cmd, batch>>
  BY DEF ThreadAside
<1>2. Queued' = Queued
  BY <1>1 DEF Queued
<1>3. SameNews /\ tpc # "start" /\ tpc' # "start" /\ (tpc' = "estop_emit" <=> tpc = "estop_emit")
  BY DEF ThreadAside
<1>4. \A h \in Handlers : Submits(h) => cmd[h].req \in Requests
  BY <1>t, ControlAssumption DEF CommandFits, Fits
<1>5. Setup \in Requests
  BY ConstantTypes
<1>6. SubmittedOnce'
  BY <1>i, <1>1, <1>2, <1>3, <1>4, <1>5 DEF SubmittedOnce, Submits, SameNews
<1>7. OnlyAnnounced'
  BY <1>i, <1>1, <1>2, <1>3, <1>4, <1>5 DEF OnlyAnnounced, Announced, Dropped, SameNews
<1>8. BatchesReported'
  BY <1>i, <1>1, <1>2, <1>3, <1>4, <1>5 DEF BatchesReported, SameNews
<1>9. NoDuplicates'
  BY <1>1, <1>i DEF NoDuplicates
<1>10. EventExact'
  BY <1>1, <1>i DEF EventExact
<1>11. AtOnePlace'
  BY <1>i, <1>1, <1>2, <1>3, <1>4, <1>5 DEF AtOnePlace, HeldBy, Submitting, SameNews
<1>12. NothingLost'
  BY <1>i, <1>1, <1>2, <1>3, <1>4, <1>5 DEF NothingLost, Announced, Dropped, Submitting, SameNews
<1> QED
  BY <1>6, <1>7, <1>8, <1>9, <1>10, <1>11, <1>12 DEF RequestInv

\* Steps of a handler that touch no request keep it.
LEMMA HandlerAsideSafe ==
    ASSUME TypeInv, RequestInv, NEW h \in Handlers, HandlerAside(h)
    PROVE  RequestInv'
<1>i. /\ SubmittedOnce /\ OnlyAnnounced /\ BatchesReported /\ NoDuplicates
      /\ EventExact /\ AtOnePlace /\ NothingLost
  BY DEF RequestInv
<1>t. QueueTypeOK /\ ThreadTypeOK /\ HandlerTypeOK /\ ObservedTypeOK /\ CommandFits
  BY DEF TypeInv, TypeOK
<1>1. UNCHANGED <<scripts, qevent, taken, tbatch, tpc, events, batch>>
  BY DEF HandlerAside
<1>2. Queued' = Queued
  BY <1>1 DEF Queued
<1>3. \A g \in Handlers \ {h} : hpc'[g] = hpc[g] /\ cmd'[g] = cmd[g]
  BY DEF HandlerAside, Elsewhere
<1>4. hpc[h] \notin {"put", "emit_blocked"} /\ hpc'[h] \notin {"put", "emit_blocked"}
  BY DEF HandlerAside
<1>5. Submits(h)' => Submits(h) /\ cmd'[h].req = cmd[h].req
  BY NoCmdSubmits DEF HandlerAside, Submits
<1>6. SubmittedOnce'
  BY <1>i, <1>1, <1>2, <1>3, <1>4, <1>5 DEF SubmittedOnce, Submits
<1>7. OnlyAnnounced'
  BY <1>i, <1>1, <1>2, <1>3, <1>4, <1>5 DEF OnlyAnnounced, Announced, Dropped
<1>8. BatchesReported'
  BY <1>i, <1>1, <1>2, <1>3, <1>4, <1>5 DEF BatchesReported
<1>9. NoDuplicates'
  BY <1>1, <1>i DEF NoDuplicates
<1>10. EventExact'
  BY <1>1, <1>i DEF EventExact
<1>11. AtOnePlace'
  BY <1>i, <1>1, <1>2, <1>3, <1>4 DEF AtOnePlace, HeldBy, Submitting
<1>12. NothingLost'
  BY <1>i, <1>1, <1>2, <1>3, <1>4, <1>5 DEF NothingLost, Announced, Dropped, Submitting
<1> QED
  BY <1>6, <1>7, <1>8, <1>9, <1>10, <1>11, <1>12 DEF RequestInv

\* A command that arrives keeps it: a new request was not announced before.
LEMMA ReceiveSafe ==
    ASSUME TypeInv, RequestInv, NEW h \in Handlers, Receive(h)
    PROVE  RequestInv'
<1>i. /\ SubmittedOnce /\ OnlyAnnounced /\ BatchesReported /\ NoDuplicates
      /\ EventExact /\ AtOnePlace /\ NothingLost
  BY DEF RequestInv
<1>t. QueueTypeOK /\ ThreadTypeOK /\ HandlerTypeOK /\ ObservedTypeOK /\ CommandFits
  BY DEF TypeInv, TypeOK
<1>1. UNCHANGED <<scripts, qevent, taken, tbatch, tpc, events, batch>>
  BY DEF Receive, queueVars, threadVars, observed
<1>2. Queued' = Queued
  BY <1>1 DEF Queued
<1>3. \A g \in Handlers \ {h} : hpc'[g] = hpc[g] /\ cmd'[g] = cmd[g]
  BY <1>t, HandlerLocal DEF Elsewhere
<1>4. PICK op \in Ops[h] : \E c \in Arguments(op) :
         cmd' = [cmd EXCEPT ![h] = c] /\ hpc' = [hpc EXCEPT ![h] = FirstStep(op)]
  BY DEF Receive
<1>5. PICK c \in Arguments(op) : cmd'[h] = c
  BY <1>4, <1>t DEF HandlerTypeOK
<1>6. op \in Commands
  BY <1>4, ControlAssumption
<1>7. Submits(h)' => Fresh(cmd'[h].req)
  BY <1>5, <1>6, FitsArguments DEF Submits
<1>8. hpc[h] = "idle" /\ hpc'[h] \notin {"put", "emit_blocked"}
  BY <1>4, <1>6, <1>t DEF Receive, HandlerTypeOK, FirstStep, Commands
<1>9. SubmittedOnce'
  BY <1>i, <1>1, <1>3, <1>7, <1>8 DEF SubmittedOnce, Submits, Fresh
<1>10. OnlyAnnounced'
  BY <1>i, <1>1, <1>2 DEF OnlyAnnounced, Announced, Dropped
<1>11. BatchesReported'
  BY <1>i, <1>1, <1>3, <1>8 DEF BatchesReported
<1>12. NoDuplicates'
  BY <1>1, <1>i DEF NoDuplicates
<1>13. EventExact'
  BY <1>1, <1>i DEF EventExact
<1>14. AtOnePlace'
  BY <1>i, <1>1, <1>2, <1>3, <1>8 DEF AtOnePlace, HeldBy, Submitting
<1>15. NothingLost'
  BY <1>i, <1>1, <1>2, <1>3, <1>8 DEF NothingLost, Announced, Dropped, Submitting
<1> QED
  BY <1>9, <1>10, <1>11, <1>12, <1>13, <1>14, <1>15 DEF RequestInv

\* The start of the script thread keeps it.
LEMMA ThreadStartSafe ==
    ASSUME TypeInv, RequestInv, ThreadStart
    PROVE  RequestInv'
<1>i. /\ SubmittedOnce /\ OnlyAnnounced /\ BatchesReported /\ NoDuplicates
      /\ EventExact /\ AtOnePlace /\ NothingLost
  BY DEF RequestInv
<1>t. QueueTypeOK /\ ThreadTypeOK /\ HandlerTypeOK /\ ObservedTypeOK /\ CommandFits
  BY DEF TypeInv, TypeOK
<1>1. UNCHANGED <<taken, tbatch, hpc, cmd, batch, events>> /\ tpc = "start" /\ tpc' = "get"
  BY DEF ThreadStart, Goto, handlerVars, observed
<1>2. Setup \in Requests /\ Put(Setup)
  BY ConstantTypes DEF ThreadStart
<1>3. ~Announced(Setup)
  BY <1>1, <1>i DEF SubmittedOnce, Announced
<1>4. Setup \notin Queued \cup taken \cup tbatch /\ "blocked" \notin events[Setup]
      /\ \A h \in Handlers : Setup \notin batch[h]
  BY <1>2, <1>3, <1>i DEF OnlyAnnounced, Dropped
<1>5. \A h \in Handlers : ~Submitting(h, Setup)
  BY <1>t, ControlAssumption DEF CommandFits, Fits, Submitting
<1>6. Queued' = Queued \cup {Setup} /\ NoDuplicates' /\ EventExact'
  BY <1>2, <1>4, <1>i, <1>t, PutEffect
<1>7. SubmittedOnce'
  BY <1>i, <1>1 DEF SubmittedOnce, Submits
<1>8. OnlyAnnounced'
  BY <1>i, <1>1, <1>2, <1>6 DEF OnlyAnnounced, Announced, Dropped
<1>9. BatchesReported'
  BY <1>i, <1>1, <1>2, <1>3, <1>4, <1>5, <1>6 DEF BatchesReported
<1>10. NoDuplicates'
  BY <1>6
<1>11. EventExact'
  BY <1>6
<1>12. AtOnePlace'
  BY <1>i, <1>1, <1>2, <1>4, <1>5, <1>6 DEF AtOnePlace, HeldBy, Submitting
<1>13. NothingLost'
  BY <1>i, <1>1, <1>2, <1>6 DEF NothingLost, Announced, Dropped, Submitting
<1> QED
  BY <1>7, <1>8, <1>9, <1>10, <1>11, <1>12, <1>13 DEF RequestInv

\* get keeps it: the request leaves the queue and is taken.
LEMMA GetPopsSafe ==
    ASSUME TypeInv, RequestInv, GetPops
    PROVE  RequestInv'
<1>i. /\ SubmittedOnce /\ OnlyAnnounced /\ BatchesReported /\ NoDuplicates
      /\ EventExact /\ AtOnePlace /\ NothingLost
  BY DEF RequestInv
<1>t. QueueTypeOK /\ ThreadTypeOK /\ HandlerTypeOK /\ ObservedTypeOK /\ CommandFits
  BY DEF TypeInv, TypeOK
<1>1. PICK r \in Requests : Pop(r) /\ taken' = taken \cup {r}
  BY DEF GetPops
<1>2. UNCHANGED <<tbatch, hpc, cmd, batch, events>> /\ tpc = "pop" /\ tpc' \in {"estop", "processing"}
  BY DEF GetPops, Goto, handlerVars, observed
<1>3. r \in Queued /\ Queued' = Queued \ {r} /\ NoDuplicates' /\ EventExact'
  BY <1>1, <1>i, <1>t, PopEffect
<1>4. SubmittedOnce'
  BY <1>i, <1>1, <1>2, <1>3 DEF SubmittedOnce, Submits
<1>5. OnlyAnnounced'
  BY <1>i, <1>1, <1>2, <1>3 DEF OnlyAnnounced, Announced, Dropped
<1>6. BatchesReported'
  BY <1>i, <1>1, <1>2, <1>3 DEF BatchesReported
<1>7. NoDuplicates'
  BY <1>3
<1>8. EventExact'
  BY <1>3
<1>9. AtOnePlace'
  BY <1>i, <1>1, <1>2, <1>3 DEF AtOnePlace, HeldBy, Submitting
<1>10. NothingLost'
  BY <1>i, <1>1, <1>2, <1>3 DEF NothingLost, Announced, Dropped, Submitting
<1> QED
  BY <1>4, <1>5, <1>6, <1>7, <1>8, <1>9, <1>10 DEF RequestInv

\* The deletion by a stop that took effect keeps it.
LEMMA EstopBlocksSafe ==
    ASSUME TypeInv, RequestInv, EstopBlocks
    PROVE  RequestInv'
<1>i. /\ SubmittedOnce /\ OnlyAnnounced /\ BatchesReported /\ NoDuplicates
      /\ EventExact /\ AtOnePlace /\ NothingLost
  BY DEF RequestInv
<1>t. QueueTypeOK /\ ThreadTypeOK /\ HandlerTypeOK /\ ObservedTypeOK /\ CommandFits
  BY DEF TypeInv, TypeOK
<1>1. UNCHANGED <<taken, hpc, cmd, batch, events>> /\ tpc = "estop_block" /\ tpc' = "estop_emit"
  BY DEF EstopBlocks, Goto, handlerVars, observed
<1>2. tbatch = {} /\ tbatch' = Queued
  BY <1>1, <1>i DEF EstopBlocks, BatchesReported
<1>3. Queued' = {} /\ NoDuplicates' /\ EventExact'
  BY DeleteAllEffect DEF EstopBlocks
<1>4. SubmittedOnce'
  BY <1>i, <1>1, <1>2, <1>3 DEF SubmittedOnce, Submits
<1>5. OnlyAnnounced'
  BY <1>i, <1>1, <1>2, <1>3 DEF OnlyAnnounced, Announced, Dropped
<1>6. BatchesReported'
  BY <1>i, <1>1, <1>2, <1>3 DEF BatchesReported
<1>7. NoDuplicates'
  BY <1>3
<1>8. EventExact'
  BY <1>3
<1>9. AtOnePlace'
  BY <1>i, <1>1, <1>2, <1>3 DEF AtOnePlace, HeldBy, Submitting
<1>10. NothingLost'
  BY <1>i, <1>1, <1>2, <1>3 DEF NothingLost, Announced, Dropped, Submitting
<1> QED
  BY <1>4, <1>5, <1>6, <1>7, <1>8, <1>9, <1>10 DEF RequestInv

\* The blocked event that follows keeps it.
LEMMA EstopEmitsSafe ==
    ASSUME TypeInv, RequestInv, EstopEmits
    PROVE  RequestInv'
<1>i. /\ SubmittedOnce /\ OnlyAnnounced /\ BatchesReported /\ NoDuplicates
      /\ EventExact /\ AtOnePlace /\ NothingLost
  BY DEF RequestInv
<1>t. QueueTypeOK /\ ThreadTypeOK /\ HandlerTypeOK /\ ObservedTypeOK /\ CommandFits
  BY DEF TypeInv, TypeOK
<1>1. UNCHANGED <<scripts, qevent, taken, hpc, cmd, batch>> /\ tpc = "estop_emit" /\ tpc' = "estop_run"
  BY DEF EstopEmits, Goto, queueVars, handlerVars
<1>2. Queued' = Queued /\ tbatch' = {}
  BY <1>1 DEF EstopEmits, Queued
<1>3. \A r \in Requests : /\ "request" \in events'[r] <=> "request" \in events[r]
                          /\ "blocked" \in events'[r] <=> "blocked" \in events[r] \/ r \in tbatch
  BY <1>t DEF EstopEmits, Emit, ObservedTypeOK
<1>4. \A h \in Handlers : Submits(h) => cmd[h].req \in Requests
  BY <1>t, ControlAssumption DEF CommandFits, Fits
<1>5. Setup \in Requests
  BY ConstantTypes
<1>6. SubmittedOnce'
  BY <1>i, <1>1, <1>2, <1>3, <1>4, <1>5 DEF SubmittedOnce, Submits
<1>7. OnlyAnnounced'
  BY <1>i, <1>1, <1>2, <1>3, <1>4, <1>5 DEF OnlyAnnounced, Announced, Dropped
<1>8. BatchesReported'
  BY <1>i, <1>1, <1>2, <1>3, <1>4, <1>5 DEF BatchesReported
<1>9. NoDuplicates'
  BY <1>1, <1>i DEF NoDuplicates
<1>10. EventExact'
  BY <1>1, <1>i DEF EventExact
<1>11. AtOnePlace'
  BY <1>i, <1>1, <1>2, <1>3, <1>4, <1>5 DEF AtOnePlace, HeldBy, Submitting
<1>12. NothingLost'
  BY <1>i, <1>1, <1>2, <1>3, <1>4, <1>5 DEF NothingLost, Announced, Dropped, Submitting
<1> QED
  BY <1>6, <1>7, <1>8, <1>9, <1>10, <1>11, <1>12 DEF RequestInv

\* The request event keeps it.
LEMMA AnnounceSafe ==
    ASSUME TypeInv, RequestInv, NEW h \in Handlers, Announce(h)
    PROVE  RequestInv'
<1>i. /\ SubmittedOnce /\ OnlyAnnounced /\ BatchesReported /\ NoDuplicates
      /\ EventExact /\ AtOnePlace /\ NothingLost
  BY DEF RequestInv
<1>t. QueueTypeOK /\ ThreadTypeOK /\ HandlerTypeOK /\ ObservedTypeOK /\ CommandFits
  BY DEF TypeInv, TypeOK
<1>1. UNCHANGED <<scripts, qevent, taken, tbatch, tpc, cmd, batch>>
  BY DEF Announce, queueVars, threadVars
<1>2. Queued' = Queued
  BY <1>1 DEF Queued
<1>3. \A g \in Handlers \ {h} : hpc'[g] = hpc[g]
  BY <1>t DEF Announce, Step, HandlerTypeOK
<1>4. hpc[h] = "announce" /\ hpc'[h] = "put"
  BY <1>t DEF Announce, Step, HandlerTypeOK
<1>5. PICK q : q = cmd[h].req
  OBVIOUS
<1>6. Submits(h) /\ q \in Requests /\ q # Setup /\ Setup \in Requests
  BY <1>4, <1>5, <1>t, ControlAssumption DEF CommandFits, Fits
<1>7. \A r \in Requests : /\ "request" \in events'[r] <=> "request" \in events[r] \/ r = q
                          /\ "blocked" \in events'[r] <=> "blocked" \in events[r]
  BY <1>5, <1>t DEF Announce, Emit, ObservedTypeOK
<1>8. ~Announced(q)
  BY <1>4, <1>5, <1>6, <1>i DEF SubmittedOnce, Announced
<1>9. q \notin Queued \cup taken \cup tbatch /\ "blocked" \notin events[q]
      /\ \A g \in Handlers : q \notin batch[g]
  BY <1>6, <1>8, <1>i DEF OnlyAnnounced, Dropped
<1>10. \A g \in Handlers : Submits(g) => cmd[g].req \in Requests
  BY <1>t, ControlAssumption DEF CommandFits, Fits
<1>11. \A g \in Handlers : hpc[g] = "put" => Submits(g)
  BY <1>t DEF CommandFits, Fits
<1>12. \A g \in Handlers : ~Submitting(g, q)
  BY <1>4, <1>5, <1>6, <1>11, <1>i DEF SubmittedOnce, Submitting
<1>13. SubmittedOnce'
  BY <1>i, <1>1, <1>3, <1>4, <1>5, <1>6, <1>7, <1>10 DEF SubmittedOnce, Submits
<1>14. OnlyAnnounced'
  BY <1>i, <1>1, <1>2, <1>7 DEF OnlyAnnounced, Announced, Dropped
<1>15. BatchesReported'
  BY <1>i, <1>1, <1>3, <1>4 DEF BatchesReported
<1>16. NoDuplicates'
  BY <1>1, <1>i DEF NoDuplicates
<1>17. EventExact'
  BY <1>1, <1>i DEF EventExact
<1>18. AtOnePlace'
  BY <1>i, <1>1, <1>2, <1>3, <1>4, <1>5, <1>7, <1>9, <1>12 DEF AtOnePlace, HeldBy, Submitting
<1>19. NothingLost'
  BY <1>i, <1>1, <1>2, <1>3, <1>4, <1>5, <1>7 DEF NothingLost, Announced, Dropped, Submitting
<1> QED
  BY <1>13, <1>14, <1>15, <1>16, <1>17, <1>18, <1>19 DEF RequestInv

\* put keeps it: the announced request enters the queue.
LEMMA PutSafe ==
    ASSUME TypeInv, RequestInv, NEW h \in Handlers, PutRequest(h)
    PROVE  RequestInv'
<1>i. /\ SubmittedOnce /\ OnlyAnnounced /\ BatchesReported /\ NoDuplicates
      /\ EventExact /\ AtOnePlace /\ NothingLost
  BY DEF RequestInv
<1>t. QueueTypeOK /\ ThreadTypeOK /\ HandlerTypeOK /\ ObservedTypeOK /\ CommandFits
  BY DEF TypeInv, TypeOK
<1>1. UNCHANGED <<taken, tbatch, tpc, events, batch>>
  BY DEF PutRequest, threadVars, observed
<1>2. \A g \in Handlers \ {h} : hpc'[g] = hpc[g] /\ cmd'[g] = cmd[g]
  BY <1>t DEF PutRequest, Reply, Step, HandlerTypeOK
<1>3. hpc[h] = "put" /\ hpc'[h] = "idle" /\ cmd'[h] = NoCmd
  BY <1>t DEF PutRequest, Reply, Step, HandlerTypeOK
<1>4. PICK q : q = cmd[h].req
  OBVIOUS
<1>5. Submits(h) /\ q \in Requests
  BY <1>3, <1>4, <1>t, ControlAssumption DEF CommandFits, Fits
<1>6. Submitting(h, q) /\ HeldBy(h, q)
  BY <1>3, <1>4 DEF Submitting, HeldBy
<1>7. q \notin Queued \cup taken \cup tbatch /\ "blocked" \notin events[q]
      /\ \A g \in Handlers \ {h} : ~HeldBy(g, q)
  BY <1>5, <1>6, <1>i DEF AtOnePlace
<1>8. Queued' = Queued \cup {q} /\ NoDuplicates' /\ EventExact'
  BY <1>4, <1>5, <1>7, <1>i, <1>t, PutEffect DEF PutRequest
<1>9. ~Submits(h)'
  BY <1>3, NoCmdSubmits DEF Submits
<1>10. batch[h] = {}
  BY <1>3, <1>i DEF BatchesReported
<1>11. "request" \in events[q]
  BY <1>3, <1>4, <1>5, <1>i DEF SubmittedOnce
<1>12. SubmittedOnce'
  BY <1>i, <1>1, <1>2, <1>9 DEF SubmittedOnce, Submits
<1>13. OnlyAnnounced'
  BY <1>i, <1>1, <1>8, <1>11 DEF OnlyAnnounced, Announced, Dropped
<1>14. BatchesReported'
  BY <1>i, <1>1, <1>2, <1>3, <1>10 DEF BatchesReported
<1>15. NoDuplicates'
  BY <1>8
<1>16. EventExact'
  BY <1>8
<1>17. AtOnePlace'
  BY <1>i, <1>1, <1>2, <1>3, <1>7, <1>8, <1>10 DEF AtOnePlace, HeldBy, Submitting
<1>18. NothingLost'
  BY <1>i, <1>1, <1>2, <1>3, <1>4, <1>8 DEF NothingLost, Announced, Dropped, Submitting
<1> QED
  BY <1>12, <1>13, <1>14, <1>15, <1>16, <1>17, <1>18 DEF RequestInv

(***************************************************************************)
(* The two operations that delete from the queue, and the report of what   *)
(* they deleted.                                                           *)
(***************************************************************************)
LEMMA UnqueueOneSafe ==
    ASSUME TypeInv, RequestInv, NEW h \in Handlers, UnqueueOne(h),
           Step(h, "delete_one", "emit_blocked"), DeleteOne(cmd[h].req),
           batch' = [batch EXCEPT ![h] = {cmd[h].req}], UNCHANGED cmd
    PROVE  RequestInv'
<1>i. /\ SubmittedOnce /\ OnlyAnnounced /\ BatchesReported /\ NoDuplicates
      /\ EventExact /\ AtOnePlace /\ NothingLost
  BY DEF RequestInv
<1>t. QueueTypeOK /\ ThreadTypeOK /\ HandlerTypeOK /\ ObservedTypeOK /\ CommandFits
  BY DEF TypeInv, TypeOK
<1>1. UNCHANGED <<taken, tbatch, tpc, events, cmd>>
  BY DEF UnqueueOne, threadVars, observed
<1>2. hpc[h] = "delete_one" /\ \A g \in Handlers \ {h} : hpc'[g] = hpc[g]
  BY <1>t DEF UnqueueOne, Reply, Step, HandlerTypeOK
<1>3. PICK q : q = cmd[h].req
  OBVIOUS
<1>4. Step(h, "delete_one", "emit_blocked") /\ DeleteOne(q) /\ batch' = [batch EXCEPT ![h] = {q}]
  BY <1>3
<1>5. hpc'[h] = "emit_blocked"
  BY <1>4, <1>t DEF Step, HandlerTypeOK
<1>6. batch'[h] = {q} /\ batch[h] = {} /\ \A g \in Handlers \ {h} : batch'[g] = batch[g]
  BY <1>2, <1>4, <1>i, <1>t DEF HandlerTypeOK, BatchesReported
<1>7. q \in Queued /\ Queued' = Queued \ {q} /\ NoDuplicates' /\ EventExact'
  BY <1>4, <1>i, <1>t, DeleteOneEffect
<1>8. SubmittedOnce'
  BY <1>i, <1>1, <1>2, <1>5 DEF SubmittedOnce, Submits
<1>9. OnlyAnnounced'
  BY <1>i, <1>1, <1>6, <1>7 DEF OnlyAnnounced, Announced, Dropped
<1>10. BatchesReported'
  BY <1>i, <1>1, <1>2, <1>5, <1>6 DEF BatchesReported
<1>11. NoDuplicates'
  BY <1>7
<1>12. EventExact'
  BY <1>7
<1>13. AtOnePlace'
  BY <1>i, <1>1, <1>2, <1>5, <1>6, <1>7 DEF AtOnePlace, HeldBy, Submitting
<1>14. NothingLost'
  BY <1>i, <1>1, <1>2, <1>5, <1>6, <1>7 DEF NothingLost, Announced, Dropped, Submitting
<1> QED
  BY <1>8, <1>9, <1>10, <1>11, <1>12, <1>13, <1>14 DEF RequestInv

\* Deleting all requests keeps it.
LEMMA UnqueueAllSafe ==
    ASSUME TypeInv, RequestInv, NEW h \in Handlers, UnqueueAll(h)
    PROVE  RequestInv'
<1>i. /\ SubmittedOnce /\ OnlyAnnounced /\ BatchesReported /\ NoDuplicates
      /\ EventExact /\ AtOnePlace /\ NothingLost
  BY DEF RequestInv
<1>t. QueueTypeOK /\ ThreadTypeOK /\ HandlerTypeOK /\ ObservedTypeOK /\ CommandFits
  BY DEF TypeInv, TypeOK
<1>1. UNCHANGED <<taken, tbatch, tpc, events, cmd>>
  BY DEF UnqueueAll, threadVars, observed
<1>2. hpc[h] = "delete_all" /\ hpc'[h] = "emit_blocked" /\ \A g \in Handlers \ {h} : hpc'[g] = hpc[g]
  BY <1>t DEF UnqueueAll, Step, HandlerTypeOK
<1>3. batch'[h] = Queued /\ batch[h] = {} /\ \A g \in Handlers \ {h} : batch'[g] = batch[g]
  BY <1>2, <1>i, <1>t DEF UnqueueAll, HandlerTypeOK, BatchesReported
<1>4. Queued' = {} /\ NoDuplicates' /\ EventExact'
  BY DeleteAllEffect DEF UnqueueAll
<1>5. SubmittedOnce'
  BY <1>i, <1>1, <1>2, <1>3, <1>4 DEF SubmittedOnce, Submits
<1>6. OnlyAnnounced'
  BY <1>i, <1>1, <1>2, <1>3, <1>4 DEF OnlyAnnounced, Announced, Dropped
<1>7. BatchesReported'
  BY <1>i, <1>1, <1>2, <1>3, <1>4 DEF BatchesReported
<1>8. NoDuplicates'
  BY <1>4
<1>9. EventExact'
  BY <1>4
<1>10. AtOnePlace'
  BY <1>i, <1>1, <1>2, <1>3, <1>4 DEF AtOnePlace, HeldBy, Submitting
<1>11. NothingLost'
  BY <1>i, <1>1, <1>2, <1>3, <1>4 DEF NothingLost, Announced, Dropped, Submitting
<1> QED
  BY <1>5, <1>6, <1>7, <1>8, <1>9, <1>10, <1>11 DEF RequestInv

\* The blocked event of a handler keeps it.
LEMMA EmitBlockedSafe ==
    ASSUME TypeInv, RequestInv, NEW h \in Handlers, EmitBlocked(h)
    PROVE  RequestInv'
<1>i. /\ SubmittedOnce /\ OnlyAnnounced /\ BatchesReported /\ NoDuplicates
      /\ EventExact /\ AtOnePlace /\ NothingLost
  BY DEF RequestInv
<1>t. QueueTypeOK /\ ThreadTypeOK /\ HandlerTypeOK /\ ObservedTypeOK /\ CommandFits
  BY DEF TypeInv, TypeOK
<1>1. UNCHANGED <<scripts, qevent, taken, tbatch, tpc>>
  BY DEF EmitBlocked, queueVars, threadVars
<1>2. Queued' = Queued
  BY <1>1 DEF Queued
<1>3. \A g \in Handlers \ {h} : hpc'[g] = hpc[g] /\ cmd'[g] = cmd[g] /\ batch'[g] = batch[g]
  BY <1>t, HandlerLocal DEF Elsewhere, HandlerStep, SubmitStep
<1>4. hpc[h] = "emit_blocked" /\ hpc'[h] \notin {"put", "emit_blocked"} /\ batch'[h] = {}
  BY <1>t DEF EmitBlocked, Reply, Step, HandlerTypeOK
<1>5. \A r \in Requests : /\ "request" \in events'[r] <=> "request" \in events[r]
                          /\ "blocked" \in events'[r] <=> "blocked" \in events[r] \/ r \in batch[h]
  BY <1>t DEF EmitBlocked, Emit, ObservedTypeOK
<1>6. Submits(h)' => Submits(h) /\ cmd'[h].req = cmd[h].req
  BY <1>t, NoCmdSubmits DEF EmitBlocked, Reply, Step, HandlerTypeOK, Submits
<1>7. \A g \in Handlers : Submits(g) => cmd[g].req \in Requests
  BY <1>t, ControlAssumption DEF CommandFits, Fits
<1>8. Setup \in Requests
  BY ConstantTypes
<1>9. SubmittedOnce'
  BY <1>i, <1>3, <1>4, <1>5, <1>6, <1>7, <1>8 DEF SubmittedOnce, Submits
<1>10. OnlyAnnounced'
  BY <1>i, <1>1, <1>2, <1>3, <1>4, <1>5 DEF OnlyAnnounced, Announced, Dropped
<1>11. BatchesReported'
  BY <1>i, <1>1, <1>3, <1>4 DEF BatchesReported
<1>12. NoDuplicates'
  BY <1>1, <1>i DEF NoDuplicates
<1>13. EventExact'
  BY <1>1, <1>i DEF EventExact
<1>14. AtOnePlace'
  BY <1>i, <1>1, <1>2, <1>3, <1>4, <1>5 DEF AtOnePlace, HeldBy, Submitting
<1>15. NothingLost'
  BY <1>i, <1>1, <1>2, <1>3, <1>4, <1>5 DEF NothingLost, Announced, Dropped, Submitting
<1> QED
  BY <1>9, <1>10, <1>11, <1>12, <1>13, <1>14, <1>15 DEF RequestInv

\* A move of a rearrangement keeps it: only the order changes.
LEMMA RearrangeMovesSafe ==
    ASSUME TypeInv, RequestInv, NEW h \in Handlers, RearrangeMoves(h)
    PROVE  RequestInv'
<1>i. /\ SubmittedOnce /\ OnlyAnnounced /\ BatchesReported /\ NoDuplicates
      /\ EventExact /\ AtOnePlace /\ NothingLost
  BY DEF RequestInv
<1>t. QueueTypeOK /\ ThreadTypeOK /\ HandlerTypeOK /\ ObservedTypeOK /\ CommandFits
  BY DEF TypeInv, TypeOK
<1>1. UNCHANGED <<taken, tbatch, tpc, events, batch>>
  BY DEF RearrangeMoves, threadVars, observed
<1>2. \A g \in Handlers : hpc'[g] = hpc[g]
  BY <1>t DEF RearrangeMoves, Step, HandlerTypeOK
<1>3. \A g \in Handlers : cmd'[g].op = cmd[g].op /\ cmd'[g].req = cmd[g].req
  BY <1>t DEF RearrangeMoves, HandlerTypeOK, Cmds
<1>4. hpc[h] = "move"
  BY DEF RearrangeMoves, Step
<1>5. cmd[h].pos \in Nat
  BY <1>t DEF HandlerTypeOK, Cmds
<1>6. Queued' = Queued /\ NoDuplicates' /\ EventExact'
  BY <1>5, <1>i, <1>t, MoveEffect DEF RearrangeMoves
<1>7. SubmittedOnce'
  BY <1>i, <1>1, <1>2, <1>3 DEF SubmittedOnce, Submits
<1>8. OnlyAnnounced'
  BY <1>i, <1>1, <1>6 DEF OnlyAnnounced, Announced, Dropped
<1>9. BatchesReported'
  BY <1>i, <1>1, <1>2 DEF BatchesReported
<1>10. NoDuplicates'
  BY <1>6
<1>11. EventExact'
  BY <1>6
<1>12. AtOnePlace'
  BY <1>i, <1>1, <1>2, <1>3, <1>6 DEF AtOnePlace, HeldBy, Submitting
<1>13. NothingLost'
  BY <1>i, <1>1, <1>2, <1>3, <1>6 DEF NothingLost, Announced, Dropped, Submitting
<1> QED
  BY <1>7, <1>8, <1>9, <1>10, <1>11, <1>12, <1>13 DEF RequestInv

(***************************************************************************)
(* The invariant is inductive.                                             *)
(***************************************************************************)
LEMMA RequestStep ==
    ASSUME TypeInv, RequestInv, [Next]_vars
    PROVE  RequestInv'
<1>1. CASE ThreadStep
  <2>1. ThreadStart \/ GetPops \/ EstopBlocks \/ EstopEmits \/ ThreadAside
    BY <1>1, ThreadCases DEF TypeInv
  <2> QED
    BY <2>1, ThreadStartSafe, GetPopsSafe, EstopBlocksSafe, EstopEmitsSafe, ThreadAsideSafe
<1>2. ASSUME NEW h \in Handlers, Receive(h) \/ HandlerStep(h)
      PROVE  RequestInv'
  <2>1. CASE UnqueueOne(h)
    <3>1. CASE /\ Step(h, "delete_one", "emit_blocked") /\ DeleteOne(cmd[h].req)
               /\ batch' = [batch EXCEPT ![h] = {cmd[h].req}] /\ UNCHANGED cmd
      BY <2>1, <3>1, UnqueueOneSafe
    <3>2. CASE Reply(h, "delete_one") /\ DeleteOneRaises(cmd[h].req) /\ UNCHANGED batch
      <4>1. UnqueueOne(h) /\ Reply(h, "delete_one") /\ UNCHANGED <<scripts, qevent, batch>>
        BY <2>1, <3>2 DEF DeleteOneRaises, queueVars
      <4>2. HandlerAside(h)
        <5>1. HandlerTypeOK /\ Elsewhere(h)
          BY <1>2, HandlerLocal DEF TypeInv, TypeOK
        <5> QED
          BY <4>1, <5>1
             DEF UnqueueOne, HandlerAside, Reply, Step, threadVars, observed, HandlerTypeOK
      <4> QED
        BY <4>2, HandlerAsideSafe
    <3> QED
      BY <2>1, <3>1, <3>2 DEF UnqueueOne
  <2>2. CASE ~UnqueueOne(h)
    <3>1. \/ Receive(h) \/ Announce(h) \/ PutRequest(h) \/ UnqueueAll(h)
          \/ EmitBlocked(h) \/ RearrangeMoves(h) \/ HandlerAside(h)
      BY <1>2, <2>2, HandlerCases
    <3> QED
      BY <3>1, ReceiveSafe, AnnounceSafe, PutSafe, UnqueueAllSafe, EmitBlockedSafe,
         RearrangeMovesSafe, HandlerAsideSafe
  <2> QED
    BY <2>1, <2>2
<1>3. CASE UNCHANGED vars
  <2>1. UNCHANGED <<scripts, qevent, tpc, tbatch, hpc, cmd, batch, events, taken>>
    BY <1>3 DEF vars, queueVars, threadVars, handlerVars, observed
  <2>2. Queued' = Queued
    BY <2>1 DEF Queued
  <2> QED
    BY <2>1, <2>2
       DEF RequestInv, SubmittedOnce, OnlyAnnounced, BatchesReported, NoDuplicates,
           EventExact, AtOnePlace, NothingLost, Announced, Submitting, HeldBy, Dropped,
           Submits
<1> QED
  BY <1>1, <1>2, <1>3 DEF Next

\* The inductive invariant of the specification.
LEMMA RequestInvariant == Spec => [](TypeInv /\ RequestInv)
<1>1. Init => TypeInv /\ RequestInv
  BY TypeInvInit, RequestInit
<1>2. TypeInv /\ RequestInv /\ [Next]_vars => (TypeInv /\ RequestInv)'
  BY TypeInvStep, RequestStep
<1> QED
  BY <1>1, <1>2, PTL DEF Spec

(***************************************************************************)
(* get() blocks exactly when there is nothing to get.                      *)
(***************************************************************************)
THEOREM EventIsExact == Spec => []EventExact
BY RequestInvariant, PTL DEF RequestInv

(***************************************************************************)
(* No request is queued twice.                                             *)
(***************************************************************************)
THEOREM QueueHasNoDuplicates == Spec => []NoDuplicates
BY RequestInvariant, PTL DEF RequestInv

(***************************************************************************)
(* A request is at one place at a time: what a stop or an unqueue removed  *)
(* never runs, and nothing runs twice, with any number of handlers.        *)
(***************************************************************************)
THEOREM RequestsAtOnePlace == Spec => []AtOnePlace
BY RequestInvariant, PTL DEF RequestInv

(***************************************************************************)
(* No request that clients were told about is lost.                        *)
(***************************************************************************)
THEOREM RequestsNotLost == Spec => []NothingLost
BY RequestInvariant, PTL DEF RequestInv

--------------------------------------------------------------------------------
(***************************************************************************)
(* Clients see the life of a request in order, and script thread and       *)
(* handlers implement the abstract life cycle, on top of the invariant that requests *)
(* are at one place. And a rearrangement ends in the order the client      *)
(* asked for.                                                              *)
(***************************************************************************)

\* The steps between the processing event of a request and its done event.
Working == ThreadSteps \ (Resting \cup {"estop", "processing"})

(***************************************************************************)
(* The request at work was taken from the queue, and clients were told of  *)
(* it before anything can end it; no other request was ever processed.     *)
(***************************************************************************)
LifeInv ==
    /\ tpc \notin Resting => treq \in taken
    /\ tpc \in Working => "processing" \in events[treq]
    /\ \A r \in Requests : "processing" \in events[r] => r \in taken

\* Most steps of the thread work on a request and tell no news of it.
Works ==
    /\ UNCHANGED <<taken, events, treq>>
    /\ tpc \in Working /\ tpc' \in Working

\* Each step of the script thread is named here or only works on its request.
LEMMA WorkCases ==
    ASSUME ThreadStep
    PROVE  \/ ThreadStart \/ GetWaits \/ GetPops \/ GetRaises \/ ExecuteEstop
           \/ Processing \/ ParseFails \/ EstopEmits \/ Finish \/ Works
<1> USE DEF Works, Working, ThreadSteps, Resting, Goto, observed
<1>1. CASE ParseSucceeds
  BY <1>1 DEF ParseSucceeds
<1>2. CASE ExecuteBegins \/ StartBlock \/ ExecuteEnds \/ LinePasses
           \/ RequiredBreakpointPasses \/ ScriptPauses
  BY <1>2 DEF ExecuteBegins, StartBlock, ExecuteEnds, LinePasses,
     RequiredBreakpointPasses, ScriptPauses
<1>3. CASE LineBreaks \/ BreakpointBreaks \/ RequiredBreakpointBreaks
  BY <1>3 DEF LineBreaks, BreakpointBreaks, RequiredBreakpointBreaks, Breaks
<1>4. CASE CountReads \/ CountResets \/ BlockEnds \/ BlockRaises
  BY <1>4 DEF CountReads, CountResets, BlockEnds, BlockRaises
<1>5. CASE BreakStep
  BY <1>5 DEF BreakStep, BfEnter, BfSetArg, BfSetEvent, BfWait, BfClear, BfRead,
     BfResumes, BfStops
<1>6. CASE Unwinds \/ StopCaught \/ EstopBlocks \/ EstopRuns
  BY <1>6 DEF Unwinds, StopCaught, EstopBlocks, EstopRuns
<1> QED
  BY <1>1, <1>2, <1>3, <1>4, <1>5, <1>6 DEF ThreadStep, TakeStep, BlockStep, StopStep

\* A handler only announces requests, or reports those it has removed.
LEMMA NewsOfHandler ==
    ASSUME NEW h \in Handlers, Receive(h) \/ HandlerStep(h)
    PROVE  /\ UNCHANGED <<taken, tpc, treq>>
           /\ Announce(h) \/ EmitBlocked(h) \/ UNCHANGED events
<1> USE DEF observed, threadVars
<1>1. CASE Receive(h)
  BY <1>1 DEF Receive
<1>2. CASE SubmitStep(h)
  BY <1>2 DEF SubmitStep, CheckIdle, CheckBusy, Announce, PutRequest, UnqueueOne,
     UnqueueAll, EmitBlocked
<1>3. CASE ControlStep(h)
  BY <1>3 DEF ControlStep, Break1, Break2, SetBreak, SetCountloop, Continue1, Continue2,
     SetArg, SetEvent, Stop1, Stop2, Immediate1, Immediate2, Immediate3, Finish1
<1>4. CASE RearrangeStep(h)
  BY <1>4 DEF RearrangeStep, RearrangeAcquires, RearrangeMatches, RearrangeRefuses,
     RearrangeMoves, RearrangeReleases
<1> QED
  BY <1>1, <1>2, <1>3, <1>4 DEF HandlerStep

\* An event that is sent is news of its kind only, and for its requests only.
LEMMA EmitNews ==
    ASSUME ObservedTypeOK, NEW kind, NEW reqs, Emit(kind, reqs),
           NEW r \in Requests, NEW k
    PROVE  k \in events'[r] <=> k \in events[r] \/ (k = kind /\ r \in reqs)
BY DEF ObservedTypeOK, Emit

(***************************************************************************)
(* LifeInv is inductive.                                                   *)
(***************************************************************************)
LEMMA LifeThread ==
    ASSUME TypeOK, LifeInv, ThreadStep
    PROVE  LifeInv'
<1> USE DEF LifeInv, Working, ThreadSteps, Resting, Goto
<1>t. ObservedTypeOK /\ ThreadTypeOK
  BY DEF TypeOK
<1>r. treq \in Requests \cup {NoReq} /\ (tpc \notin Resting => treq \in Requests)
  BY <1>t DEF ThreadTypeOK
<1>1. CASE ThreadStart \/ GetWaits \/ GetRaises
  BY <1>1 DEF ThreadStart, GetWaits, GetRaises, observed
<1>2. CASE GetPops
  BY <1>2 DEF GetPops
<1>3. CASE ExecuteEstop
  BY <1>3 DEF ExecuteEstop
<1>4. CASE Processing
  <2>1. /\ UNCHANGED <<taken, treq>> /\ tpc = "processing" /\ tpc' = "parse"
        /\ Emit("processing", {treq})
    BY <1>4 DEF Processing
  <2>2. \A r \in Requests : "processing" \in events'[r]
                              <=> "processing" \in events[r] \/ r = treq
    BY <1>t, <2>1, EmitNews
  <2> QED
    BY <1>r, <2>1, <2>2
<1>5. CASE ParseFails \/ Finish
  <2>1. UNCHANGED taken /\ tpc' = "get" /\ Emit("done", {treq})
    BY <1>5 DEF ParseFails, Finish
  <2>2. \A r \in Requests : "processing" \in events'[r] <=> "processing" \in events[r]
    BY <1>t, <2>1, EmitNews
  <2> QED
    BY <2>1, <2>2
<1>6. CASE EstopEmits
  <2>1. /\ UNCHANGED <<taken, treq>> /\ tpc = "estop_emit" /\ tpc' = "estop_run"
        /\ Emit("blocked", tbatch)
    BY <1>6 DEF EstopEmits
  <2>2. \A r \in Requests : "processing" \in events'[r] <=> "processing" \in events[r]
    BY <1>t, <2>1, EmitNews
  <2> QED
    BY <1>r, <2>1, <2>2
<1>7. CASE Works
  BY <1>7 DEF Works
<1> QED
  BY <1>1, <1>2, <1>3, <1>4, <1>5, <1>6, <1>7, WorkCases

\* The handlers leave what was processed and taken alone.
LEMMA LifeHandler ==
    ASSUME TypeOK, LifeInv, NEW h \in Handlers, Receive(h) \/ HandlerStep(h)
    PROVE  LifeInv'
<1>1. ObservedTypeOK
  BY DEF TypeOK
<1>2. tpc \in Working => treq \in Requests
  BY DEF TypeOK, ThreadTypeOK, Working
<1>3. UNCHANGED <<taken, tpc, treq>>
  BY NewsOfHandler
<1>4. \A r \in Requests : "processing" \in events'[r] <=> "processing" \in events[r]
  <2>1. CASE UNCHANGED events
    BY <2>1
  <2>2. CASE Announce(h)
    <3>1. Emit("request", {cmd[h].req})
      BY <2>2 DEF Announce
    <3> QED
      BY <1>1, <3>1, EmitNews
  <2>3. CASE EmitBlocked(h)
    <3>1. Emit("blocked", batch[h])
      BY <2>3 DEF EmitBlocked
    <3> QED
      BY <1>1, <3>1, EmitNews
  <2> QED
    BY <2>1, <2>2, <2>3, NewsOfHandler
<1> QED
  BY <1>2, <1>3, <1>4 DEF LifeInv

\* The invariant of the order of events.
LEMMA LifeInvariant == Spec => [](TypeInv /\ RequestInv /\ LifeInv)
<1>1. Init => LifeInv
  BY DEF Init, LifeInv, Resting, Working
<1>2. TypeInv /\ LifeInv /\ [Next]_vars => LifeInv'
  <2> SUFFICES ASSUME TypeInv, LifeInv, [Next]_vars PROVE LifeInv'
    OBVIOUS
  <2>1. CASE Next
    BY <2>1, LifeThread, LifeHandler DEF Next, TypeInv
  <2>2. CASE UNCHANGED vars
    BY <2>2 DEF LifeInv, vars, threadVars, observed
  <2> QED
    BY <2>1, <2>2
<1> QED
  BY <1>1, <1>2, RequestInvariant, PTL DEF Spec

(***************************************************************************)
(* What the events of one step may be.                                     *)
(***************************************************************************)
OrderKept ==
    \A r \in Requests :
       /\ News(r, "processing") => r = Setup \/ "request" \in events[r]
       /\ News(r, "done") => "processing" \in events[r]
       /\ News(r, "blocked") => /\ r = Setup \/ "request" \in events[r]
                               /\ "processing" \notin events[r]

\* Nothing new is in order.
LEMMA SilenceInOrder == UNCHANGED events => OrderKept
BY DEF OrderKept, News

\* Reporting requests that were announced and never taken is in order.
LEMMA BlockedInOrder ==
    ASSUME ObservedTypeOK, LifeInv, NEW reqs, Emit("blocked", reqs),
           \A r \in Requests \cap reqs : Announced(r) /\ r \notin taken
    PROVE  OrderKept
<1>1. \A r \in Requests, k \in EventKinds :
         k \in events'[r] <=> k \in events[r] \/ (k = "blocked" /\ r \in reqs)
  BY EmitNews
<1> QED
  BY <1>1 DEF OrderKept, News, Announced, LifeInv, EventKinds

\* The events of the script thread are in order.
LEMMA ThreadInOrder ==
    ASSUME TypeOK, RequestInv, LifeInv, ThreadStep
    PROVE  OrderKept
<1>t. ObservedTypeOK /\ ThreadTypeOK
  BY DEF TypeOK
<1>r. tpc \notin Resting => treq \in Requests
  BY <1>t DEF ThreadTypeOK
<1>1. CASE ThreadStart \/ GetWaits \/ GetPops \/ GetRaises \/ ExecuteEstop \/ Works
  BY <1>1, SilenceInOrder
     DEF ThreadStart, GetWaits, GetPops, GetRaises, ExecuteEstop, Works, observed
<1>2. CASE Processing
  <2>1. tpc = "processing" /\ Emit("processing", {treq})
    BY <1>2 DEF Processing
  <2>2. treq \in Requests /\ Announced(treq)
    BY <1>r, <2>1 DEF Resting, LifeInv, RequestInv, OnlyAnnounced
  <2>3. \A r \in Requests, k \in EventKinds :
           k \in events'[r] <=> k \in events[r] \/ (k = "processing" /\ r = treq)
    BY <1>t, <2>1, EmitNews
  <2> QED
    BY <2>2, <2>3 DEF OrderKept, News, Announced, EventKinds
<1>3. CASE ParseFails \/ Finish
  <2>1. tpc \in {"parse", "finish"} /\ Emit("done", {treq})
    BY <1>3 DEF ParseFails, Finish
  <2>2. "processing" \in events[treq]
    BY <2>1 DEF LifeInv, Working, ThreadSteps, Resting
  <2>3. \A r \in Requests, k \in EventKinds :
           k \in events'[r] <=> k \in events[r] \/ (k = "done" /\ r = treq)
    BY <1>t, <2>1, EmitNews
  <2> QED
    BY <2>2, <2>3 DEF OrderKept, News, EventKinds
<1>4. CASE EstopEmits
  <2>1. Emit("blocked", tbatch)
    BY <1>4 DEF EstopEmits
  <2>2. \A r \in Requests \cap tbatch : Announced(r) /\ r \notin taken
    BY DEF RequestInv, OnlyAnnounced, Dropped, AtOnePlace
  <2> QED
    BY <1>t, <2>1, <2>2, BlockedInOrder
<1> QED
  BY <1>1, <1>2, <1>3, <1>4, WorkCases

\* So are those of a handler.
LEMMA HandlerInOrder ==
    ASSUME TypeOK, RequestInv, LifeInv, NEW h \in Handlers, Receive(h) \/ HandlerStep(h)
    PROVE  OrderKept
<1>t. ObservedTypeOK
  BY DEF TypeOK
<1>1. CASE UNCHANGED events
  BY <1>1, SilenceInOrder
<1>2. CASE Announce(h)
  <2>1. Emit("request", {cmd[h].req})
    BY <1>2 DEF Announce
  <2>2. \A r \in Requests, k \in EventKinds \ {"request"} :
           k \in events'[r] <=> k \in events[r]
    BY <1>t, <2>1, EmitNews
  <2> QED
    BY <2>2 DEF OrderKept, News, EventKinds
<1>3. CASE EmitBlocked(h)
  <2>1. Emit("blocked", batch[h])
    BY <1>3 DEF EmitBlocked
  <2>2. \A r \in Requests \cap batch[h] : Announced(r) /\ r \notin taken
    BY DEF RequestInv, OnlyAnnounced, Dropped, AtOnePlace, HeldBy
  <2> QED
    BY <1>t, <2>1, <2>2, BlockedInOrder
<1> QED
  BY <1>1, <1>2, <1>3, NewsOfHandler

(***************************************************************************)
(* Clients see "processing" only of a request they know, "done" only after *)
(* "processing", and "blocked" only of a known request that is never       *)
(* processed, although commands of several clients and the script thread   *)
(* send these events with no lock held.                                    *)
(***************************************************************************)
THEOREM EventsAreInOrder == Spec => EventsInOrder
<1>1. ASSUME TypeInv, RequestInv, LifeInv, [Next]_vars
      PROVE  [OrderKept]_vars
  <2>1. CASE Next
    <3>1. TypeOK
      BY <1>1 DEF TypeInv
    <3> QED
      BY <1>1, <2>1, <3>1, ThreadInOrder, HandlerInOrder DEF Next
  <2>2. CASE UNCHANGED vars
    BY <2>2
  <2> QED
    BY <1>1, <2>1, <2>2
<1> QED
  BY <1>1, LifeInvariant, PTL DEF Spec, EventsInOrder, OrderKept

(***************************************************************************)
(* The refinement of RequestLifecycle.  The values its variables stand for *)
(* that are not variables here:                                            *)
(***************************************************************************)
DroppedRequests == {r \in Requests : Dropped(r)}
CompletedRequests == taken \ {treq}

\* A step the life cycle does not see, one it allows.
Unseen == UNCHANGED <<BeingPut, scripts, treq, DroppedRequests, CompletedRequests>>
Implements == Lifecycle!LNext \/ Unseen

\* Requests that are being put are those of their handlers, or the first one.
LEMMA PutsAreSubmitted ==
    ASSUME CommandFits, NEW h \in Handlers, NEW r, Submitting(h, r)
    PROVE  Submits(h) /\ r \in Requests \ {Setup}
BY ControlAssumption DEF CommandFits, Fits, Submitting

\* Where no position or command of a handler that puts changes, nothing is put.
LEMMA PutsUnseen ==
    ASSUME tpc = "start" <=> tpc' = "start",
           \A h \in Handlers : \A r \in Requests : Submitting(h, r)' <=> Submitting(h, r)
    PROVE  UNCHANGED BeingPut
BY DEF BeingPut

\* The steps of the life cycle, with the mapping in place.
LEMMA AnnounceIs ==
    ASSUME NEW r \in Requests,
           r \notin BeingPut \cup Queued \cup {treq} \cup DroppedRequests \cup CompletedRequests,
           BeingPut' = BeingPut \cup {r},
           UNCHANGED <<scripts, treq, DroppedRequests, CompletedRequests>>
    PROVE  Lifecycle!LNext
BY DEF Lifecycle!LNext, Lifecycle!LAnnounce, Lifecycle!Known, Lifecycle!Range, Queued, Range,
       DroppedRequests, CompletedRequests

\* A put appends one of the requests being put.
LEMMA EnqueueIs ==
    ASSUME NEW r \in Requests, r \in BeingPut, BeingPut' = BeingPut \ {r},
           scripts' = Append(scripts, r),
           UNCHANGED <<treq, DroppedRequests, CompletedRequests>>
    PROVE  Lifecycle!LNext
BY DEF Lifecycle!LNext, Lifecycle!LEnqueue, DroppedRequests, CompletedRequests

\* A get takes the first of the queue.
LEMMA TakeIs ==
    ASSUME treq = NoReq, scripts # << >>, treq' = Head(scripts), scripts' = Tail(scripts),
           UNCHANGED <<BeingPut, DroppedRequests, CompletedRequests>>
    PROVE  Lifecycle!LNext
BY DEF Lifecycle!LNext, Lifecycle!LTake, DroppedRequests, CompletedRequests

\* The end of a script completes it.
LEMMA CompleteIs ==
    ASSUME treq # NoReq, treq' = NoReq,
           CompletedRequests' = CompletedRequests \cup {treq},
           UNCHANGED <<BeingPut, scripts, DroppedRequests>>
    PROVE  Lifecycle!LNext
BY DEF Lifecycle!LNext, Lifecycle!LComplete, DroppedRequests, CompletedRequests

\* Removing one entry drops it.
LEMMA DropIs ==
    ASSUME NEW i \in 1..Len(scripts), scripts' = RemoveAt(scripts, i),
           DroppedRequests' = DroppedRequests \cup {scripts[i]},
           UNCHANGED <<BeingPut, treq, CompletedRequests>>
    PROVE  Lifecycle!LNext
<1>1. Lifecycle!LDrop(i)
  BY DEF Lifecycle!LDrop, Lifecycle!RemoveAt, RemoveAt, DroppedRequests, CompletedRequests
<1> QED
  BY <1>1 DEF Lifecycle!LNext

\* Emptying the queue drops all that was in it.
LEMMA DropAllIs ==
    ASSUME scripts' = << >>, DroppedRequests' = DroppedRequests \cup Queued,
           UNCHANGED <<BeingPut, treq, CompletedRequests>>
    PROVE  Lifecycle!LNext
BY DEF Lifecycle!LNext, Lifecycle!LDropAll, Lifecycle!Range, Queued, Range,
       DroppedRequests, CompletedRequests

\* A move keeps length and contents.
LEMMA ReorderIs ==
    ASSUME Len(scripts') = Len(scripts), Queued' = Queued,
           UNCHANGED <<BeingPut, treq, DroppedRequests, CompletedRequests>>
    PROVE  Lifecycle!LNext
BY DEF Lifecycle!LNext, Lifecycle!LReorder, Lifecycle!Range, Queued, Range,
       DroppedRequests, CompletedRequests

(***************************************************************************)
(* Each step of the script thread implements a step of the life cycle.     *)
(***************************************************************************)
LEMMA ThreadStartImplements ==
    ASSUME TypeInv, RequestInv, ThreadStart
    PROVE  Lifecycle!LNext
<1>1. /\ tpc = "start" /\ tpc' = "get" /\ scripts' = Append(scripts, Setup)
      /\ UNCHANGED <<treq, taken, tbatch, hpc, cmd, batch, events>>
  BY DEF ThreadStart, Goto, Put, handlerVars, observed
<1>2. CommandFits /\ Setup \in Requests
  BY ConstantTypes DEF TypeInv
<1>3. \A h \in Handlers : \A r \in Requests : Submitting(h, r)' <=> Submitting(h, r)
  BY <1>1 DEF Submitting
<1>4. \A h \in Handlers : ~Submitting(h, Setup)
  BY <1>2, PutsAreSubmitted
<1>5. BeingPut' = BeingPut \ {Setup} /\ Setup \in BeingPut
  BY <1>1, <1>2, <1>3, <1>4 DEF BeingPut
<1>6. UNCHANGED <<DroppedRequests, CompletedRequests>>
  BY <1>1 DEF DroppedRequests, CompletedRequests, Dropped
<1> QED
  BY <1>1, <1>2, <1>5, <1>6, EnqueueIs

\* get() takes the first request of the queue.
LEMMA GetPopsImplements ==
    ASSUME TypeInv, RequestInv, GetPops
    PROVE  Lifecycle!LNext
<1>t. QueueTypeOK /\ ThreadTypeOK /\ ObservedTypeOK /\ NoReq \notin Requests
  BY ControlAssumption DEF TypeInv, TypeOK
<1>1. PICK r \in Requests :
         /\ Pop(r) /\ treq' = r /\ taken' = taken \cup {r}
         /\ Goto(IF r \in Estops THEN "estop" ELSE "processing")
  BY DEF GetPops
<1>2. tpc = "pop" /\ UNCHANGED <<tbatch, hpc, cmd, batch, events>>
  BY DEF GetPops, handlerVars
<1>3. treq = NoReq
  BY <1>t, <1>2 DEF ThreadTypeOK, Resting
<1>4. scripts # << >> /\ r = Head(scripts) /\ scripts' = Tail(scripts)
  BY <1>1 DEF Pop
<1>5. r \in Queued
  BY <1>1, <1>t, PopEffect DEF RequestInv
<1>6. UNCHANGED CompletedRequests
  BY <1>t, <1>1, <1>3, <1>5 DEF CompletedRequests, RequestInv, AtOnePlace, ObservedTypeOK
<1>7. UNCHANGED DroppedRequests
  BY <1>2 DEF DroppedRequests, Dropped
<1>8. tpc' # "start"
  BY <1>1 DEF Goto
<1>9. UNCHANGED BeingPut
  BY <1>2, <1>8, PutsUnseen DEF Submitting
<1> QED
  BY <1>1, <1>3, <1>4, <1>6, <1>7, <1>9, TakeIs

\* After an emergency stop the thread drops what is queued.
LEMMA EstopBlocksImplements ==
    ASSUME TypeInv, RequestInv, EstopBlocks
    PROVE  Lifecycle!LNext
<1>1. /\ tpc = "estop_block" /\ tpc' = "estop_emit" /\ tbatch' = Queued /\ scripts' = << >>
      /\ UNCHANGED <<treq, taken, hpc, cmd, batch, events>>
  BY DEF EstopBlocks, Goto, DeleteAll, handlerVars, observed
<1>2. tbatch = {} /\ Queued \in SUBSET Requests
  BY <1>1, QueuedIs DEF RequestInv, BatchesReported, TypeInv, TypeOK, QueueTypeOK
<1>3. DroppedRequests' = DroppedRequests \cup Queued
  BY <1>1, <1>2 DEF DroppedRequests, Dropped
<1>4. UNCHANGED BeingPut
  BY <1>1, PutsUnseen DEF Submitting
<1>5. UNCHANGED CompletedRequests
  BY <1>1 DEF CompletedRequests
<1> QED
  BY <1>1, <1>3, <1>4, <1>5, DropAllIs

\* Reporting what was dropped does not drop it again.
LEMMA EstopEmitsImplements ==
    ASSUME TypeInv, EstopEmits
    PROVE  Unseen
<1>1. /\ tpc = "estop_emit" /\ tpc' = "estop_run" /\ tbatch' = {} /\ Emit("blocked", tbatch)
      /\ UNCHANGED <<scripts, treq, taken, hpc, cmd, batch>>
  BY DEF EstopEmits, Goto, queueVars, handlerVars
<1>2. \A r \in Requests : "blocked" \in events'[r] <=> "blocked" \in events[r] \/ r \in tbatch
  BY <1>1, EmitNews DEF TypeInv, TypeOK
<1>3. UNCHANGED DroppedRequests
  BY <1>1, <1>2 DEF DroppedRequests, Dropped
<1>4. UNCHANGED BeingPut
  BY <1>1, PutsUnseen DEF Submitting
<1> QED
  BY <1>1, <1>3, <1>4 DEF Unseen, CompletedRequests

\* The other steps of the thread complete the request or change nothing.
LEMMA ThreadAsideImplements ==
    ASSUME TypeInv, LifeInv, ThreadAside, ThreadStep,
           ~(ThreadStart \/ GetPops \/ EstopEmits)
    PROVE  Implements
<1>t. ThreadTypeOK /\ ObservedTypeOK /\ NoReq \notin Requests
  BY ControlAssumption DEF TypeInv, TypeOK
<1>1. /\ UNCHANGED <<scripts, taken, tbatch, hpc, cmd, batch>> /\ SameNews
      /\ tpc # "start" /\ tpc' # "start"
  BY DEF ThreadAside
<1>2. UNCHANGED DroppedRequests
  BY <1>1 DEF DroppedRequests, Dropped, SameNews
<1>3. UNCHANGED BeingPut
  BY <1>1, PutsUnseen DEF Submitting
<1>4. CASE ExecuteEstop \/ ParseFails \/ Finish
  <2>1. tpc \in {"estop", "parse", "finish"} /\ treq' = NoReq
    BY <1>4 DEF ExecuteEstop, ParseFails, Finish
  <2>2. treq \in Requests /\ treq \in taken
    BY <1>t, <2>1 DEF ThreadTypeOK, LifeInv, Resting
  <2>3. CompletedRequests' = CompletedRequests \cup {treq}
    BY <1>t, <1>1, <2>1, <2>2 DEF CompletedRequests, ObservedTypeOK
  <2> QED
    BY <1>t, <1>1, <1>2, <1>3, <2>1, <2>2, <2>3, CompleteIs DEF Implements
<1>5. CASE GetWaits \/ GetRaises \/ Processing \/ Works
  <2>1. UNCHANGED treq
    BY <1>5 DEF GetWaits, GetRaises, Processing, Works
  <2> QED
    BY <1>1, <1>2, <1>3, <2>1 DEF Implements, Unseen, CompletedRequests
<1> QED
  BY <1>4, <1>5, WorkCases

\* All steps of the script thread.
LEMMA ThreadImplements ==
    ASSUME TypeInv, RequestInv, LifeInv, ThreadStep
    PROVE  Implements
<1>1. ThreadStart \/ GetPops \/ EstopBlocks \/ EstopEmits \/ ThreadAside
  BY ThreadCases DEF TypeInv
<1> QED
  BY <1>1, ThreadStartImplements, GetPopsImplements, EstopBlocksImplements,
     EstopEmitsImplements, ThreadAsideImplements DEF Implements

(***************************************************************************)
(* So does each step of a handler.                                         *)
(***************************************************************************)
LEMMA HandlerAsideImplements ==
    ASSUME NEW h \in Handlers, HandlerAside(h), UNCHANGED treq
    PROVE  Unseen
<1>1. /\ UNCHANGED <<scripts, taken, tbatch, tpc, events, batch>> /\ Elsewhere(h)
      /\ hpc[h] # "put" /\ hpc'[h] # "put"
  BY DEF HandlerAside
<1>2. \A g \in Handlers : \A r \in Requests : Submitting(g, r)' <=> Submitting(g, r)
  BY <1>1 DEF Submitting, Elsewhere
<1>3. UNCHANGED BeingPut
  BY <1>1, <1>2, PutsUnseen
<1> QED
  BY <1>1, <1>3 DEF Unseen, DroppedRequests, CompletedRequests, Dropped

\* A command that arrives changes nothing yet.
LEMMA ReceiveImplements ==
    ASSUME TypeInv, NEW h \in Handlers, Receive(h)
    PROVE  Unseen
<1>1. HandlerTypeOK /\ Elsewhere(h)
  BY HandlerLocal DEF TypeInv, TypeOK
<1>2. PICK op \in Ops[h] : hpc' = [hpc EXCEPT ![h] = FirstStep(op)]
  BY DEF Receive
<1>3. op \in Commands
  BY <1>2, ControlAssumption
<1>4. FirstStep(op) # "put"
  BY <1>3 DEF FirstStep, Commands
<1>5. hpc[h] # "put" /\ hpc'[h] # "put"
  BY <1>1, <1>2, <1>4 DEF Receive, HandlerTypeOK
<1>6. UNCHANGED <<scripts, taken, tbatch, tpc, treq, events, batch>>
  BY DEF Receive, queueVars, threadVars, observed
<1>7. \A g \in Handlers : \A r \in Requests : Submitting(g, r)' <=> Submitting(g, r)
  BY <1>1, <1>5 DEF Submitting, Elsewhere
<1>8. UNCHANGED BeingPut
  BY <1>6, <1>7, PutsUnseen
<1> QED
  BY <1>6, <1>8 DEF Unseen, DroppedRequests, CompletedRequests, Dropped

\* A request event announces a request that was never seen before.
LEMMA AnnounceImplements ==
    ASSUME TypeInv, RequestInv, LifeInv, NEW h \in Handlers, Announce(h)
    PROVE  Lifecycle!LNext
<1>t. HandlerTypeOK /\ ObservedTypeOK /\ ThreadTypeOK /\ CommandFits
  BY DEF TypeInv, TypeOK
<1> DEFINE r == cmd[h].req
<1>1. /\ hpc[h] = "announce" /\ hpc' = [hpc EXCEPT ![h] = "put"] /\ Emit("request", {r})
      /\ UNCHANGED <<scripts, taken, tbatch, tpc, treq, cmd, batch>>
  BY DEF Announce, Step, queueVars, threadVars
<1>2. Submits(h) /\ r \in Requests \ {Setup} /\ NoReq \notin Requests
  BY <1>1, <1>t, ControlAssumption DEF CommandFits, Fits
<1>3. "request" \notin events[r]
  BY <1>1, <1>2 DEF RequestInv, SubmittedOnce
<1>4. r \notin Queued \cup taken /\ ~Dropped(r)
  BY <1>2, <1>3 DEF RequestInv, OnlyAnnounced, Announced
<1>5. r # treq
  BY <1>t, <1>2, <1>4 DEF LifeInv, ThreadTypeOK, Resting
<1>6. \A g \in Handlers : ~Submitting(g, r)
  <2> SUFFICES ASSUME NEW g \in Handlers, Submitting(g, r) PROVE FALSE
    OBVIOUS
  <2>1. Submits(g) /\ cmd[g].req = r /\ hpc[g] = "put"
    BY <1>t, PutsAreSubmitted DEF Submitting
  <2>2. g = h
    BY <1>2, <2>1 DEF RequestInv, SubmittedOnce
  <2> QED
    BY <1>1, <2>1, <2>2
<1>7. r \notin BeingPut
  BY <1>2, <1>6 DEF BeingPut
<1>8. \A g \in Handlers : \A q \in Requests :
         Submitting(g, q)' <=> Submitting(g, q) \/ (g = h /\ q = r)
  BY <1>t, <1>1 DEF Submitting, HandlerTypeOK
<1>9. BeingPut' = BeingPut \cup {r}
  BY <1>1, <1>2, <1>8 DEF BeingPut
<1>10. \A q \in Requests : "blocked" \in events'[q] <=> "blocked" \in events[q]
  BY <1>t, <1>1, EmitNews
<1>11. UNCHANGED <<DroppedRequests, CompletedRequests>>
  BY <1>1, <1>10 DEF DroppedRequests, CompletedRequests, Dropped
<1>12. r \notin DroppedRequests /\ r \notin CompletedRequests
  BY <1>4 DEF DroppedRequests, CompletedRequests
<1> HIDE DEF r
<1> QED
  BY <1>1, <1>2, <1>4, <1>5, <1>7, <1>9, <1>11, <1>12, AnnounceIs

\* The put after the event moves the request into the queue.
LEMMA PutImplements ==
    ASSUME TypeInv, RequestInv, NEW h \in Handlers, PutRequest(h)
    PROVE  Lifecycle!LNext
<1>t. HandlerTypeOK /\ CommandFits
  BY DEF TypeInv, TypeOK
<1> DEFINE r == cmd[h].req
<1>1. /\ hpc[h] = "put" /\ hpc'[h] = "idle" /\ scripts' = Append(scripts, r)
      /\ UNCHANGED <<taken, tbatch, tpc, treq, batch, events>>
  BY <1>t DEF PutRequest, Reply, Step, Put, threadVars, observed, HandlerTypeOK
<1>e. Elsewhere(h)
  BY <1>t, HandlerLocal DEF HandlerStep, SubmitStep
<1>2. Submits(h) /\ r \in Requests \ {Setup} /\ Submitting(h, r)
  BY <1>1, <1>t, ControlAssumption DEF CommandFits, Fits, Submitting
<1>3. \A g \in Handlers : Submitting(g, r) => g = h
  BY <1>t, <1>2, PutsAreSubmitted DEF Submitting, RequestInv, SubmittedOnce
<1>4. \A q \in Requests : Submitting(h, q) => q = r
  BY DEF Submitting
<1>5. \A g \in Handlers : \A q \in Requests :
         Submitting(g, q)' <=> Submitting(g, q) /\ g # h
  BY <1>1, <1>e DEF Submitting, Elsewhere
<1>6. BeingPut' = BeingPut \ {r} /\ r \in BeingPut
  BY <1>1, <1>2, <1>3, <1>4, <1>5 DEF BeingPut
<1>7. UNCHANGED <<DroppedRequests, CompletedRequests>>
  BY <1>1 DEF DroppedRequests, CompletedRequests, Dropped
<1> HIDE DEF r
<1> QED
  BY <1>1, <1>2, <1>6, <1>7, EnqueueIs

\* A handler that neither announces nor puts leaves the requests being put.
LEMMA PutsElsewhere ==
    ASSUME TypeInv, NEW h \in Handlers, HandlerStep(h),
           hpc[h] # "put", hpc'[h] # "put"
    PROVE  UNCHANGED <<BeingPut, CompletedRequests>>
<1>1. Elsewhere(h)
  BY HandlerLocal DEF TypeInv, TypeOK
<1>2. UNCHANGED <<taken, tpc, treq>>
  BY NewsOfHandler
<1>3. \A g \in Handlers : \A r \in Requests : Submitting(g, r)' <=> Submitting(g, r)
  BY <1>1 DEF Submitting, Elsewhere
<1>4. UNCHANGED BeingPut
  BY <1>2, <1>3, PutsUnseen
<1> QED
  BY <1>2, <1>4 DEF CompletedRequests

\* delete_one drops one request, or raises and changes nothing.
LEMMA UnqueueOneImplements ==
    ASSUME TypeInv, RequestInv, NEW h \in Handlers, UnqueueOne(h)
    PROVE  Implements
<1>t. HandlerTypeOK /\ QueueTypeOK
  BY DEF TypeInv, TypeOK
<1>1. hpc[h] = "delete_one" /\ hpc'[h] \in {"emit_blocked", "idle"}
      /\ UNCHANGED <<tbatch, treq, events>>
  BY <1>t DEF UnqueueOne, Reply, Step, threadVars, observed, HandlerTypeOK
<1>2. UNCHANGED <<BeingPut, CompletedRequests>>
  BY <1>1, PutsElsewhere DEF HandlerStep, SubmitStep
<1>3. CASE DeleteOne(cmd[h].req) /\ batch' = [batch EXCEPT ![h] = {cmd[h].req}]
  <2>1. PICK i \in 1..Len(scripts) :
           scripts[i] = cmd[h].req /\ scripts' = RemoveAt(scripts, i)
    BY <1>3 DEF DeleteOne
  <2>2. batch[h] = {}
    BY <1>1 DEF RequestInv, BatchesReported
  <2>3. scripts[i] \in Requests
    BY <1>t DEF QueueTypeOK
  <2>4. DroppedRequests' = DroppedRequests \cup {scripts[i]}
    BY <1>t, <1>1, <1>3, <2>1, <2>2, <2>3 DEF DroppedRequests, Dropped, HandlerTypeOK
  <2> QED
    BY <1>1, <1>2, <2>1, <2>4, DropIs DEF Implements
<1>4. CASE DeleteOneRaises(cmd[h].req) /\ UNCHANGED batch
  BY <1>1, <1>2, <1>4
     DEF DeleteOneRaises, queueVars, Implements, Unseen, DroppedRequests, Dropped
<1> QED
  BY <1>3, <1>4 DEF UnqueueOne

\* delete_all drops all requests in the queue.
LEMMA UnqueueAllImplements ==
    ASSUME TypeInv, RequestInv, NEW h \in Handlers, UnqueueAll(h)
    PROVE  Lifecycle!LNext
<1>t. HandlerTypeOK /\ QueueTypeOK
  BY DEF TypeInv, TypeOK
<1>1. /\ hpc[h] = "delete_all" /\ hpc'[h] = "emit_blocked" /\ scripts' = << >>
      /\ batch' = [batch EXCEPT ![h] = Queued] /\ UNCHANGED <<tbatch, treq, events>>
  BY <1>t DEF UnqueueAll, Step, DeleteAll, threadVars, observed, HandlerTypeOK
<1>2. UNCHANGED <<BeingPut, CompletedRequests>>
  BY <1>1, PutsElsewhere DEF HandlerStep, SubmitStep
<1>3. batch[h] = {} /\ Queued \in SUBSET Requests
  BY <1>t, <1>1, QueuedIs DEF RequestInv, BatchesReported, QueueTypeOK
<1>4. DroppedRequests' = DroppedRequests \cup Queued
  BY <1>t, <1>1, <1>3 DEF DroppedRequests, Dropped, HandlerTypeOK
<1> QED
  BY <1>1, <1>2, <1>4, DropAllIs

\* The blocked event reports what was dropped before.
LEMMA EmitBlockedImplements ==
    ASSUME TypeInv, NEW h \in Handlers, EmitBlocked(h)
    PROVE  Unseen
<1>t. HandlerTypeOK /\ ObservedTypeOK
  BY DEF TypeInv, TypeOK
<1>1. /\ hpc[h] = "emit_blocked" /\ hpc'[h] # "put" /\ Emit("blocked", batch[h])
      /\ batch' = [batch EXCEPT ![h] = {}] /\ UNCHANGED <<scripts, tbatch, treq>>
  BY <1>t DEF EmitBlocked, Reply, Step, queueVars, threadVars, HandlerTypeOK
<1>2. UNCHANGED <<BeingPut, CompletedRequests>>
  BY <1>1, PutsElsewhere DEF HandlerStep, SubmitStep
<1>3. \A r \in Requests : "blocked" \in events'[r] <=> "blocked" \in events[r] \/ r \in batch[h]
  BY <1>t, <1>1, EmitNews
<1>4. UNCHANGED DroppedRequests
  BY <1>t, <1>1, <1>3 DEF DroppedRequests, Dropped, HandlerTypeOK
<1> QED
  BY <1>1, <1>2, <1>4 DEF Unseen

\* A move of a rearrangement reorders the queue.
LEMMA RearrangeMovesImplements ==
    ASSUME TypeInv, NEW h \in Handlers, RearrangeMoves(h)
    PROVE  Lifecycle!LNext
<1>t. HandlerTypeOK /\ QueueTypeOK /\ cmd[h].pos \in Nat
  BY DEF TypeInv, TypeOK, HandlerTypeOK, Cmds
<1>1. /\ hpc[h] = "move" /\ hpc'[h] = "move"
      /\ scripts' = MoveItem(scripts, cmd[h].ids[cmd[h].pos + 1], cmd[h].pos)
      /\ UNCHANGED <<tbatch, treq, events, batch>>
  BY <1>t DEF RearrangeMoves, Step, Move, threadVars, observed, HandlerTypeOK
<1>2. UNCHANGED <<BeingPut, CompletedRequests>>
  BY <1>1, PutsElsewhere DEF HandlerStep, RearrangeStep
<1>3. Len(scripts') = Len(scripts) /\ Queued' = Queued
  BY <1>t, <1>1, MoveItemProps DEF QueueTypeOK, Queued
<1>4. UNCHANGED DroppedRequests
  BY <1>1 DEF DroppedRequests, Dropped
<1> QED
  BY <1>1, <1>2, <1>3, <1>4, ReorderIs

\* All steps of a handler.
LEMMA HandlerImplements ==
    ASSUME TypeInv, RequestInv, LifeInv, NEW h \in Handlers, Receive(h) \/ HandlerStep(h)
    PROVE  Implements
<1>1. \/ Receive(h) \/ Announce(h) \/ PutRequest(h) \/ UnqueueOne(h)
      \/ UnqueueAll(h) \/ EmitBlocked(h) \/ RearrangeMoves(h) \/ HandlerAside(h)
  BY HandlerCases
<1>2. UNCHANGED treq
  BY NewsOfHandler
<1> QED
  BY <1>1, <1>2, ReceiveImplements, AnnounceImplements, PutImplements, UnqueueOneImplements,
     UnqueueAllImplements, EmitBlockedImplements, RearrangeMovesImplements,
     HandlerAsideImplements DEF Implements

\* The initial states are initial states of the life cycle.
LEMMA InitImplements ==
    ASSUME Init
    PROVE  Lifecycle!LInit
<1>1. BeingPut = {Setup}
  BY DEF Init, BeingPut, Submitting
<1>2. \A r \in Requests : ~Dropped(r)
  BY DEF Init, Dropped
<1> QED
  BY <1>1, <1>2 DEF Init, QueueInit, Lifecycle!LInit

(***************************************************************************)
(* Script thread and handlers implement the abstract life cycle: every     *)
(* request is announced, queued, then dropped or taken, one at a time and  *)
(* in the order of the queue, and none comes back, for any number of       *)
(* handlers and requests.                                                  *)
(***************************************************************************)
THEOREM LifecycleImplemented == Spec => RefinesLifecycle
<1>1. Init => Lifecycle!LInit
  BY InitImplements
<1>2. TypeInv /\ RequestInv /\ LifeInv /\ [Next]_vars => [Lifecycle!LNext]_(Lifecycle!lvars)
  <2> SUFFICES ASSUME TypeInv, RequestInv, LifeInv, [Next]_vars
               PROVE  [Lifecycle!LNext]_(Lifecycle!lvars)
    OBVIOUS
  <2>1. Implements => [Lifecycle!LNext]_(Lifecycle!lvars)
    BY DEF Implements, Unseen, Lifecycle!lvars, DroppedRequests, CompletedRequests
  <2>2. CASE Next
    BY <2>1, <2>2, ThreadImplements, HandlerImplements DEF Next
  <2>3. CASE UNCHANGED vars
    <3>1. UNCHANGED <<scripts, treq, taken, tbatch, tpc, hpc, cmd, batch, events>>
      BY <2>3 DEF vars, queueVars, threadVars, handlerVars, observed
    <3>2. UNCHANGED BeingPut
      BY <3>1, PutsUnseen DEF Submitting
    <3>3. Unseen
      BY <3>1, <3>2 DEF Unseen, DroppedRequests, CompletedRequests, Dropped
    <3> QED
      BY <2>1, <3>3 DEF Implements
  <2> QED
    BY <2>2, <2>3
<1> QED
  BY <1>1, <1>2, LifeInvariant, PTL DEF Spec, RefinesLifecycle, Lifecycle!LSpec

(***************************************************************************)
(* Rearranging.  Where pop and insert leave the entries of a list without  *)
(* duplicates: the moved one at index n, or at the end of a short list,    *)
(* the ones before it where they were, or one further to the front.        *)
(***************************************************************************)
MovedTo(t, s, c, n, at) ==
    /\ at = n + 1 \/ (at = Len(s) /\ at < n + 1)
    /\ t[at] = s[c]
    /\ \A k \in 1..(at - 1) : t[k] = IF k < c THEN s[k] ELSE s[k + 1]
    /\ \A k \in (at + 1)..Len(s) : t[k] = IF k - 1 < c THEN s[k - 1] ELSE s[k]

\* scripts.insert(n, scripts.pop(c - 1)) moves the entry at c to such a place.
LEMMA PopInsertPlaces ==
    ASSUME NEW S, NEW s \in Seq(S), NEW c \in 1..Len(s), NEW n \in Nat,
           NEW t, t = PopInsert(s, c, n)
    PROVE  \E at \in 1..Len(s) : MovedTo(t, s, c, n, at)
<1> DEFINE rest == RemoveAt(s, c)
           at == IF n < Len(rest) THEN n + 1 ELSE Len(rest) + 1
<1>1. /\ rest \in Seq(S)
      /\ Len(rest) = Len(s) - 1
      /\ \A k \in 1..(Len(s) - 1) : rest[k] = IF k < c THEN s[k] ELSE s[k + 1]
  BY RemoveAtProps
<1>2. s[c] \in S /\ Len(s) \in Nat
  OBVIOUS
<1>3. t = InsertAt(rest, at, s[c])
  BY DEF PopInsert
<1> HIDE DEF rest
<1>4. at \in 1..(Len(rest) + 1) /\ at \in 1..Len(s)
      /\ (at = n + 1 \/ (at = Len(s) /\ at < n + 1))
  BY <1>1, <1>2
<1> HIDE DEF at
<1>5. \A k \in 1..Len(s) : t[k] = IF k < at THEN rest[k] ELSE IF k = at THEN s[c] ELSE rest[k - 1]
  <2>1. /\ rest \in Seq(S) /\ at \in 1..(Len(rest) + 1) /\ s[c] \in S
        /\ Len(rest) + 1 = Len(s)
    BY <1>1, <1>2, <1>4
  <2>2. \A k \in 1..(Len(rest) + 1) : InsertAt(rest, at, s[c])[k] =
           IF k < at THEN rest[k] ELSE IF k = at THEN s[c] ELSE rest[k - 1]
    BY <2>1, InsertAtProps
  <2> QED
    BY <1>3, <2>1, <2>2
<1>6. t[at] = s[c]
  BY <1>4, <1>5
<1>7. \A k \in 1..(at - 1) : t[k] = IF k < c THEN s[k] ELSE s[k + 1]
  <2> SUFFICES ASSUME NEW k \in 1..(at - 1)
               PROVE  t[k] = IF k < c THEN s[k] ELSE s[k + 1]
    OBVIOUS
  <2>1. k \in 1..(Len(s) - 1) /\ k \in 1..Len(s) /\ k < at
    BY <1>2, <1>4
  <2> QED
    BY <1>1, <1>5, <2>1
<1>8. \A k \in (at + 1)..Len(s) : t[k] = IF k - 1 < c THEN s[k - 1] ELSE s[k]
  <2> SUFFICES ASSUME NEW k \in (at + 1)..Len(s)
               PROVE  t[k] = IF k - 1 < c THEN s[k - 1] ELSE s[k]
    OBVIOUS
  <2>1. /\ k - 1 \in 1..(Len(s) - 1) /\ k \in 1..Len(s) /\ ~(k < at) /\ k # at
        /\ (k - 1) + 1 = k
    BY <1>2, <1>4
  <2>2. t[k] = rest[k - 1]
    BY <1>5, <2>1
  <2>3. rest[k - 1] = IF k - 1 < c THEN s[k - 1] ELSE s[(k - 1) + 1]
    BY <1>1, <2>1
  <2> QED
    BY <2>1, <2>2, <2>3
<1> QED
  BY <1>4, <1>6, <1>7, <1>8 DEF MovedTo

(***************************************************************************)
(* After the first k moves: the first k ids, as far as they are still in   *)
(* the queue, are among its first k entries, in the client's order.        *)
(***************************************************************************)
Placed(ids, k, queue) ==
    /\ \A i \in 1..Len(ids), a \in 1..Len(queue) :
          i <= k /\ queue[a] = ids[i] => a <= k
    /\ \A i, j \in 1..Len(ids), a, b \in 1..Len(queue) :
          i < j /\ j <= k /\ queue[a] = ids[i] /\ queue[b] = ids[j] => a < b

\* The next move extends this by one id.
LEMMA MovePlaces ==
    ASSUME NEW S, NEW s \in Seq(S), NEW ids \in Seq(S), NEW k \in Nat, k < Len(ids),
           \A i, j \in 1..Len(ids) : ids[i] = ids[j] => i = j,
           \A i, j \in 1..Len(s) : s[i] = s[j] => i = j,
           Placed(ids, k, s)
    PROVE  Placed(ids, k + 1, MoveItem(s, ids[k + 1], k))
<1> DEFINE r == ids[k + 1]
<1>0. k + 1 \in 1..Len(ids) /\ Len(ids) \in Nat /\ Len(s) \in Nat
  OBVIOUS
<1>1. CASE r \notin Range(s)
  <2>1. MoveItem(s, r, k) = s
    BY <1>1 DEF MoveItem
  <2>2. \A a \in 1..Len(s) : s[a] # r
    BY <1>1 DEF Range
  <2>3. \A i \in 1..Len(ids), a \in 1..Len(s) : s[a] = ids[i] /\ i <= k + 1 => i <= k
    BY <1>0, <2>2
  <2> QED
    BY <1>0, <2>1, <2>3 DEF Placed
<1>2. CASE r \in Range(s)
  <2> DEFINE c == CHOOSE x \in 1..Len(s) : s[x] = r
             t == MoveItem(s, r, k)
  <2>1. c \in 1..Len(s) /\ s[c] = r
    BY <1>2 DEF Range
  <2>2. t = PopInsert(s, c, k)
    BY <1>2 DEF MoveItem
  <2>3. /\ Len(t) = Len(s)
        /\ \A i, j \in 1..Len(s) : t[i] = t[j] => i = j
    BY MoveItemProps
  <2> HIDE DEF c, t
  <2>m. PICK at \in 1..Len(s) : MovedTo(t, s, c, k, at)
    BY <2>1, <2>2, PopInsertPlaces
  <2>4. /\ at = k + 1 \/ (at = Len(s) /\ at < k + 1)
        /\ t[at] = s[c]
        /\ \A x \in 1..(at - 1) : t[x] = IF x < c THEN s[x] ELSE s[x + 1]
        /\ \A x \in (at + 1)..Len(s) : t[x] = IF x - 1 < c THEN s[x - 1] ELSE s[x]
    BY <2>m DEF MovedTo
  \* An entry of the first k ids stands before the moved one.
  <2>5. ASSUME NEW i \in 1..Len(ids), NEW a \in 1..Len(s), i <= k, t[a] = ids[i]
        PROVE  /\ a < at
               /\ s[IF a < c THEN a ELSE a + 1] = ids[i]
               /\ (IF a < c THEN a ELSE a + 1) \in 1..Len(s)
    <3>1. a # at
      BY <1>0, <2>1, <2>4, <2>5
    <3>2. CASE a < at
      <4>1. a \in 1..(at - 1) /\ a + 1 \in 1..Len(s)
        BY <1>0, <3>2
      <4>2. t[a] = IF a < c THEN s[a] ELSE s[a + 1]
        BY <2>4, <4>1
      <4> QED
        BY <2>5, <3>2, <4>1, <4>2
    <3>3. CASE a > at
      <4>1. a \in (at + 1)..Len(s) /\ at = k + 1
        BY <1>0, <2>4, <3>3
      <4>2. t[a] = IF a - 1 < c THEN s[a - 1] ELSE s[a]
        BY <2>4, <4>1
      <4>3. a - 1 \in 1..Len(s) /\ a - 1 > k /\ a > k
        BY <1>0, <4>1
      <4>4. \A x \in 1..Len(s) : s[x] = ids[i] => x <= k
        BY <2>5 DEF Placed
      <4>5. a \in 1..Len(s) /\ (s[a - 1] = ids[i] \/ s[a] = ids[i])
        BY <2>5, <4>2
      <4> QED
        BY <4>3, <4>4, <4>5
    <3> QED
      BY <3>1, <3>2, <3>3
  <2>6. \A a \in 1..Len(s) : t[a] = r => a = at
    BY <2>1, <2>3, <2>4
  <2>7. at <= k + 1
    BY <1>0, <2>4
  <2>8. ASSUME NEW i \in 1..Len(ids), NEW a \in 1..Len(t), i <= k + 1, t[a] = ids[i]
        PROVE  a <= k + 1
    <3>1. CASE i = k + 1
      BY <2>3, <2>6, <2>7, <2>8, <3>1
    <3>2. CASE i <= k
      BY <1>0, <2>3, <2>5, <2>7, <2>8, <3>2
    <3> QED
      BY <1>0, <2>8, <3>1, <3>2
  <2>9. ASSUME NEW i \in 1..Len(ids), NEW j \in 1..Len(ids),
               NEW a \in 1..Len(t), NEW b \in 1..Len(t),
               i < j, j <= k + 1, t[a] = ids[i], t[b] = ids[j]
        PROVE  a < b
    <3>1. /\ i <= k /\ a \in 1..Len(s) /\ b \in 1..Len(s) /\ a < at
          /\ s[IF a < c THEN a ELSE a + 1] = ids[i]
          /\ (IF a < c THEN a ELSE a + 1) \in 1..Len(s)
      BY <1>0, <2>3, <2>5, <2>9
    <3>2. CASE j = k + 1
      BY <2>6, <2>9, <3>1, <3>2
    <3>3. CASE j <= k
      <4>1. /\ s[IF b < c THEN b ELSE b + 1] = ids[j]
            /\ (IF b < c THEN b ELSE b + 1) \in 1..Len(s)
        BY <2>5, <2>9, <3>1, <3>3
      <4>2. (IF a < c THEN a ELSE a + 1) < (IF b < c THEN b ELSE b + 1)
        BY <2>9, <3>1, <3>3, <4>1 DEF Placed
      <4> QED
        BY <2>1, <3>1, <4>2
    <3> QED
      BY <1>0, <2>9, <3>2, <3>3
  <2> QED
    BY <2>8, <2>9 DEF Placed, t
<1> QED
  BY <1>1, <1>2

(***************************************************************************)
(* While a handler holds the queue's lock, nobody else changes the list.   *)
(***************************************************************************)
RearrangeSteps == {"acquire", "match", "move"}

\* Every operation of the script thread on the queue wants the lock.
LEMMA ThreadRespectsLock ==
    ASSUME ThreadStep, qlock # Free
    PROVE  UNCHANGED <<scripts, qlock>>
<1> USE DEF queueVars
<1>1. CASE TakeStep
  BY <1>1 DEF TakeStep, ThreadStart, GetWaits, GetPops, GetRaises, ExecuteEstop, Processing,
     ParseSucceeds, ParseFails, Put, Pop, PopRaises, Wait
<1>2. CASE BlockStep
  BY <1>2 DEF BlockStep, ExecuteBegins, StartBlock, ExecuteEnds, LinePasses, LineBreaks,
     BreakpointBreaks, RequiredBreakpointBreaks, Breaks, RequiredBreakpointPasses,
     ScriptPauses, CountReads, CountResets, BlockEnds, BlockRaises
<1>3. CASE BreakStep
  BY <1>3 DEF BreakStep, BfEnter, BfSetArg, BfSetEvent, BfWait, BfClear, BfRead,
     BfResumes, BfStops
<1>4. CASE StopStep
  BY <1>4 DEF StopStep, Unwinds, StopCaught, EstopBlocks, DeleteAll, EstopEmits,
     EstopRuns, Finish
<1> QED
  BY <1>1, <1>2, <1>3, <1>4 DEF ThreadStep

\* So does every operation of a handler, or it holds the lock itself.
LEMMA HandlerRespectsLock ==
    ASSUME NEW h \in Handlers, Receive(h) \/ HandlerStep(h), qlock # Free, qlock # h
    PROVE  UNCHANGED <<scripts, qlock>>
<1> USE DEF queueVars
<1>1. CASE Receive(h)
  BY <1>1 DEF Receive
<1>2. CASE SubmitStep(h)
  BY <1>2 DEF SubmitStep, CheckIdle, CheckBusy, Announce, PutRequest, UnqueueOne,
     UnqueueAll, EmitBlocked, Put, DeleteOne, DeleteOneRaises, DeleteAll
<1>3. CASE ControlStep(h)
  BY <1>3 DEF ControlStep, Break1, Break2, SetBreak, SetCountloop, Continue1, Continue2,
     SetArg, SetEvent, Stop1, Stop2, Immediate1, Immediate2, Immediate3, Finish1
<1>4. CASE RearrangeStep(h)
  BY <1>4 DEF RearrangeStep, RearrangeAcquires, RearrangeMatches, RearrangeRefuses,
     RearrangeMoves, RearrangeReleases, Acquire, Release, Move
<1> QED
  BY <1>1, <1>2, <1>3, <1>4 DEF HandlerStep

\* The other steps of a handler neither begin nor continue a rearrangement.
LEMMA OtherCommands ==
    ASSUME HandlerTypeOK, NEW h \in Handlers, SubmitStep(h) \/ ControlStep(h)
    PROVE  hpc[h] \notin RearrangeSteps /\ hpc'[h] \notin RearrangeSteps
<1> USE DEF RearrangeSteps, HandlerTypeOK, Step, Reply
<1>1. CASE SubmitStep(h)
  BY <1>1 DEF SubmitStep, CheckIdle, CheckBusy, Announce, PutRequest, UnqueueOne,
     UnqueueAll, EmitBlocked
<1>2. CASE ControlStep(h)
  BY <1>2 DEF ControlStep, Break1, Break2, SetBreak, SetCountloop, Continue1, Continue2,
     SetArg, SetEvent, Stop1, Stop2, Immediate1, Immediate2, Immediate3, Finish1
<1> QED
  BY <1>1, <1>2

(***************************************************************************)
(* The loop invariant of rearrange_queue: the handler holds the lock from  *)
(* the check to the last move, and the ids moved so far are in place.      *)
(***************************************************************************)
Rearranging(h) ==
    /\ hpc[h] \in {"match", "move"} => qlock = h
    /\ hpc[h] \in {"acquire", "match"} => cmd[h].pos = 0
    /\ hpc[h] = "move" => Placed(cmd[h].ids, cmd[h].pos, scripts)

MovesInPlace == \A h \in Handlers : Rearranging(h)

\* The list of a client names no request twice.
IdsDiffer == \A ids \in IdLists : IsInjective(ids)

\* The list of a command, and how far it was handled.
LEMMA CommandLists ==
    ASSUME NEW c \in Cmds
    PROVE  c.ids \in Seq(Requests) /\ c.ids \in IdLists \cup {<< >>} /\ c.pos \in Nat
<1>1. c.ids \in IdLists \cup {<< >>} /\ c.pos \in Nat
  BY DEF Cmds
<1>2. CASE c.ids \in IdLists
  BY <1>1, <1>2, ControlAssumption
<1>3. CASE c.ids = << >>
  BY <1>1, <1>3
<1> QED
  BY <1>1, <1>2, <1>3

LEMMA RearrangingHandler ==
    ASSUME IdsDiffer, TypeInv, RequestInv, NEW h \in Handlers, Rearranging(h),
           Receive(h) \/ HandlerStep(h)
    PROVE  Rearranging(h)'
<1>t. /\ HandlerTypeOK /\ QueueTypeOK /\ cmd[h] \in Cmds
      /\ hpc \in [Handlers -> HandlerSteps] /\ cmd \in [Handlers -> Cmds]
  BY DEF TypeInv, TypeOK, HandlerTypeOK
<1>f. qlock = h => qlock # Free
  BY FreeAssumption
<1>1. CASE Receive(h)
  <2>1. PICK op \in Ops[h] : \E c \in Arguments(op) :
              /\ cmd' = [cmd EXCEPT ![h] = c]
              /\ hpc' = [hpc EXCEPT ![h] = FirstStep(op)]
    BY <1>1 DEF Receive
  <2>2. PICK c \in Arguments(op) :
              /\ cmd' = [cmd EXCEPT ![h] = c]
              /\ hpc' = [hpc EXCEPT ![h] = FirstStep(op)]
    BY <2>1
  <2>3. op \in Commands /\ c.pos = 0
    BY <2>1, ControlAssumption DEF Arguments
  <2>4. FirstStep(op) \notin {"match", "move"}
    BY <2>3 DEF FirstStep, Commands
  <2>5. hpc'[h] \notin {"match", "move"} /\ cmd'[h].pos = 0
    BY <1>t, <2>2, <2>3, <2>4
  <2> QED
    BY <2>5 DEF Rearranging
<1>2. CASE SubmitStep(h) \/ ControlStep(h)
  BY <1>2, <1>t, OtherCommands DEF Rearranging, RearrangeSteps
<1>3. CASE RearrangeAcquires(h)
  <2>1. hpc'[h] = "match" /\ cmd'[h].pos = 0 /\ qlock' = h
    BY <1>3, <1>t DEF RearrangeAcquires, Step, Acquire, Rearranging
  <2> QED
    BY <2>1 DEF Rearranging
<1>4. CASE RearrangeMatches(h)
  <2>1. /\ hpc'[h] = "move" /\ cmd'[h].pos = 0 /\ qlock' = h
    BY <1>4, <1>t DEF RearrangeMatches, Step, Rearranging, queueVars
  <2>2. Placed(cmd'[h].ids, 0, scripts')
    <3>1. cmd'[h] \in Cmds
      BY <1>4, <1>t DEF RearrangeMatches
    <3>2. cmd'[h].ids \in Seq(Requests)
      BY <3>1, CommandLists
    <3>3. \A i \in 1..Len(cmd'[h].ids) : ~(i <= 0)
      BY <3>2
    <3> QED
      BY <3>2, <3>3 DEF Placed
  <2> QED
    BY <2>1, <2>2 DEF Rearranging
<1>5. CASE RearrangeRefuses(h) \/ RearrangeReleases(h)
  <2>1. hpc'[h] = "idle"
    BY <1>5, <1>t DEF RearrangeRefuses, RearrangeReleases, Reply, Step
  <2> QED
    BY <2>1 DEF Rearranging
<1>6. CASE RearrangeMoves(h)
  <2> DEFINE ids == cmd[h].ids
             k == cmd[h].pos
  <2>1. /\ hpc[h] = "move" /\ hpc'[h] = "move" /\ k < Len(ids) /\ qlock = h /\ qlock' = h
        /\ scripts' = MoveItem(scripts, ids[k + 1], k)
        /\ cmd' = [cmd EXCEPT ![h].pos = k + 1]
    BY <1>6, <1>t DEF RearrangeMoves, Step, Move
  <2>2. cmd'[h].ids = ids /\ cmd'[h].pos = k + 1
    BY <1>t, <2>1 DEF Cmds
  <2>3. k \in Nat /\ ids \in Seq(Requests) /\ ids \in IdLists \cup {<< >>}
    BY <1>t, CommandLists
  <2>4. \A i, j \in 1..Len(ids) : ids[i] = ids[j] => i = j
    BY <2>3 DEF IdsDiffer, IsInjective
  <2>5. /\ scripts \in Seq(Requests) /\ Placed(ids, k, scripts)
        /\ \A i, j \in 1..Len(scripts) : scripts[i] = scripts[j] => i = j
    BY <1>t, <2>1 DEF QueueTypeOK, RequestInv, NoDuplicates, Rearranging
  <2>6. k < Len(ids)
    BY <2>1
  <2> HIDE DEF ids, k
  <2>7. Placed(ids, k + 1, MoveItem(scripts, ids[k + 1], k))
    BY <2>3, <2>4, <2>5, <2>6, MovePlaces
  <2> QED
    BY <2>1, <2>2, <2>7 DEF Rearranging
<1> QED
  BY <1>1, <1>2, <1>3, <1>4, <1>5, <1>6 DEF HandlerStep, RearrangeStep

\* Each step of the system keeps the loop invariant of every rearrangement.
LEMMA RearrangingStep ==
    ASSUME IdsDiffer, TypeInv, RequestInv, MovesInPlace, [Next]_vars
    PROVE  MovesInPlace'
<1>f. \A h \in Handlers : h # Free
  BY FreeAssumption
<1>1. CASE ThreadStep
  <2> SUFFICES ASSUME NEW h \in Handlers PROVE Rearranging(h)'
    BY DEF MovesInPlace
  <2>1. UNCHANGED <<hpc, cmd>> /\ Rearranging(h)
    BY <1>1, ThreadLocal DEF MovesInPlace
  <2>2. hpc[h] \in {"match", "move"} => UNCHANGED <<scripts, qlock>>
    BY <1>f, <1>1, <2>1, ThreadRespectsLock DEF Rearranging
  <2> QED
    BY <2>1, <2>2 DEF Rearranging
<1>2. ASSUME NEW g \in Handlers, Receive(g) \/ HandlerStep(g)
      PROVE  MovesInPlace'
  <2> SUFFICES ASSUME NEW h \in Handlers PROVE Rearranging(h)'
    BY DEF MovesInPlace
  <2>1. CASE h = g
    BY <1>2, <2>1, RearrangingHandler DEF MovesInPlace
  <2>2. CASE h # g
    <3>1. hpc'[h] = hpc[h] /\ cmd'[h] = cmd[h] /\ Rearranging(h)
      BY <1>2, <2>2, HandlerLocal DEF Elsewhere, MovesInPlace, TypeInv, TypeOK
    <3>2. hpc[h] \in {"match", "move"} => UNCHANGED <<scripts, qlock>>
      BY <1>f, <1>2, <2>2, <3>1, HandlerRespectsLock DEF Rearranging
    <3> QED
      BY <3>1, <3>2 DEF Rearranging
  <2> QED
    BY <2>1, <2>2
<1>3. CASE UNCHANGED vars
  BY <1>3 DEF vars, queueVars, handlerVars, MovesInPlace, Rearranging
<1> QED
  BY <1>1, <1>2, <1>3 DEF Next

\* A rearrangement ends where its moves have been made, with a release.
LEMMA RearrangementEnds ==
    ASSUME TypeInv, MovesInPlace, [Next]_vars,
           NEW h \in Handlers, hpc[h] = "move", hpc'[h] = "idle"
    PROVE  InOrder(cmd[h].ids, scripts')
<1>t. /\ HandlerTypeOK /\ cmd[h] \in Cmds
      /\ hpc \in [Handlers -> HandlerSteps]
  BY DEF TypeInv, TypeOK, HandlerTypeOK
<1>1. hpc' # hpc
  OBVIOUS
<1>2. ~ThreadStep /\ ~UNCHANGED vars
  BY <1>1, ThreadLocal DEF vars, handlerVars
<1>3. \A g \in Handlers \ {h} : ~(Receive(g) \/ HandlerStep(g))
  BY <1>t, HandlerLocal DEF Elsewhere
<1>4. Receive(h) \/ HandlerStep(h)
  BY <1>2, <1>3 DEF Next
<1>5. RearrangeReleases(h)
  <2>1. ~Receive(h)
    BY DEF Receive
  <2>2. RearrangeStep(h)
    BY <1>t, <1>4, <2>1, OtherCommands DEF HandlerStep, RearrangeSteps
  <2> QED
    BY <1>t, <2>2 DEF RearrangeStep, RearrangeAcquires, RearrangeMatches, RearrangeRefuses,
       RearrangeMoves, Reply, Step
<1>6. cmd[h].pos = Len(cmd[h].ids) /\ scripts' = scripts
  BY <1>5 DEF RearrangeReleases, Release
<1>7. cmd[h].ids \in Seq(Requests)
  BY <1>t, CommandLists
<1>8. Placed(cmd[h].ids, Len(cmd[h].ids), scripts)
  BY <1>6 DEF MovesInPlace, Rearranging
<1>9. Len(cmd[h].ids) \in Nat /\ \A j \in 1..Len(cmd[h].ids) : j <= Len(cmd[h].ids)
  BY <1>7
<1>10. InOrder(cmd[h].ids, scripts)
  <2> DEFINE ids == cmd[h].ids
  <2> HIDE DEF ids
  <2> SUFFICES ASSUME NEW i \in 1..Len(ids), NEW j \in 1..Len(ids),
                      NEW a \in 1..Len(scripts), NEW b \in 1..Len(scripts),
                      i < j, scripts[a] = ids[i], scripts[b] = ids[j]
               PROVE  a < b
    BY DEF InOrder, ids
  <2>1. j <= Len(ids)
    BY <1>9 DEF ids
  <2>2. Placed(ids, Len(ids), scripts)
    BY <1>8 DEF ids
  <2> QED
    BY <2>1, <2>2 DEF Placed
<1> QED
  BY <1>6, <1>10

(***************************************************************************)
(* A rearrangement leaves the requests the client listed in the order of   *)
(* its list, for lists and queues of any length and whatever was taken     *)
(* from the queue since the client saw it, if the list names no request    *)
(* twice: the code checks that nowhere.                                    *)
(***************************************************************************)
THEOREM RearrangementsAreAsAsked ==
    ASSUME IdsDiffer
    PROVE  Spec => RearrangedAsAsked
<1>1. Init => MovesInPlace
  BY DEF Init, MovesInPlace, Rearranging
<1>2. TypeInv /\ RequestInv /\ MovesInPlace /\ [Next]_vars => MovesInPlace'
  BY RearrangingStep
<1>3. ASSUME TypeInv, MovesInPlace, [Next]_vars
      PROVE  [\A h \in Handlers :
                 hpc[h] = "move" /\ hpc'[h] = "idle" => InOrder(cmd[h].ids, scripts')]_vars
  BY <1>3, RearrangementEnds
<1> QED
  BY <1>1, <1>2, <1>3, RequestInvariant, PTL DEF Spec, RearrangedAsAsked

================================================================================
