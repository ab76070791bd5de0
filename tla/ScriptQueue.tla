------------------------------ MODULE ScriptQueue ------------------------------
(***************************************************************************)
(* The queue between the command handlers of the NICOS daemon and its      *)
(* script thread: class ScriptQueue of nicos/services/daemon/utils.py.     *)
(*                                                                         *)
(* The Python object has a list, a lock and a threading.Event.  The event  *)
(* is meant to be set exactly while the list has an entry, but get() waits *)
(* for it BEFORE it takes the lock.  Each operator below is one critical   *)
(* section of the lock (or the wait outside of it); the modules that       *)
(* compose the queue with its users turn them into actions.                *)
(***************************************************************************)
EXTENDS Naturals, SequencesExt

CONSTANTS Requests,      \* every request the daemon may be given
          Handlers,      \* the threads that operate on the queue from outside
          Free           \* value of qlock while no handler holds the lock

ASSUME FreeAssumption == Free \notin Handlers

VARIABLES scripts,       \* ScriptQueue.scripts, a list of requests
          qevent,        \* ScriptQueue._event
          qlock          \* the handler that holds _lock over several steps

queueVars == <<scripts, qevent, qlock>>

QueueTypeOK ==
    /\ scripts \in Seq(Requests)
    /\ qevent \in BOOLEAN
    /\ qlock \in Handlers \cup {Free}

QueueInit ==
    /\ scripts = << >>
    /\ qevent = FALSE
    /\ qlock = Free

Queued == Range(scripts)

\* Mutant: put forgets the event.
PutSilently(r) ==
    /\ qlock = Free
    /\ scripts' = Append(scripts, r)
    /\ UNCHANGED <<qevent, qlock>>

(***************************************************************************)
(* put: append and set the event, under the lock.                          *)
(***************************************************************************)
Put(r) ==
    /\ qlock = Free
    /\ scripts' = Append(scripts, r)
    /\ qevent' = TRUE
    /\ UNCHANGED qlock

(***************************************************************************)
(* get, first half: event.wait() returns; the lock is not held yet.        *)
(***************************************************************************)
Wait ==
    /\ qevent
    /\ UNCHANGED queueVars

(***************************************************************************)
(* get, second half: pop(0) under the lock; the event is cleared when the  *)
(* list becomes empty.  pop(0) of an empty list raises IndexError.         *)
(***************************************************************************)
PopRaises ==
    /\ qlock = Free
    /\ scripts = << >>
    /\ UNCHANGED queueVars

\* Mutants: get never clears the event; get takes the newest request.
PopKeepsEvent(r) ==
    /\ qlock = Free
    /\ scripts # << >>
    /\ r = Head(scripts)
    /\ scripts' = Tail(scripts)
    /\ UNCHANGED <<qevent, qlock>>

PopNewest(r) ==
    /\ qlock = Free
    /\ scripts # << >>
    /\ r = Last(scripts)
    /\ scripts' = Front(scripts)
    /\ qevent' = IF Len(scripts) = 1 THEN FALSE ELSE qevent
    /\ UNCHANGED qlock

Pop(r) ==
    /\ qlock = Free
    /\ scripts # << >>
    /\ r = Head(scripts)
    /\ scripts' = Tail(scripts)
    /\ qevent' = IF Tail(scripts) = << >> THEN FALSE ELSE qevent
    /\ UNCHANGED qlock

\* Mutant: the entry is found and reported, but not removed.
DeleteOneKeeps(r) ==
    /\ qlock = Free
    /\ r \in Queued
    /\ UNCHANGED queueVars

(***************************************************************************)
(* delete_one: remove the request with the given id; an unknown id raises  *)
(* IndexError and changes nothing.                                         *)
(***************************************************************************)
DeleteOne(r) ==
    /\ qlock = Free
    /\ \E i \in 1..Len(scripts) :
          /\ scripts[i] = r
          /\ \A j \in 1..(i - 1) : scripts[j] # r
          /\ scripts' = RemoveAt(scripts, i)
    /\ qevent' = IF scripts' = << >> THEN FALSE ELSE qevent
    /\ UNCHANGED qlock

DeleteOneRaises(r) ==
    /\ qlock = Free
    /\ r \notin Queued
    /\ UNCHANGED queueVars

(***************************************************************************)
(* delete_all: empty the list; the caller gets the deleted ids.            *)
(***************************************************************************)
DeleteAll ==
    /\ qlock = Free
    /\ scripts' = << >>
    /\ qevent' = FALSE
    /\ UNCHANGED qlock

(***************************************************************************)
(* with queue as qop: ... holds the lock over several operations.          *)
(***************************************************************************)
Acquire(h) ==
    /\ qlock = Free
    /\ qlock' = h
    /\ UNCHANGED <<scripts, qevent>>

Release(h) ==
    /\ qlock = h
    /\ qlock' = Free
    /\ UNCHANGED <<scripts, qevent>>

(***************************************************************************)
(* QueueOperator.move_item: scripts.insert(newindex, scripts.pop(i)) for   *)
(* the item with the given id.  Python's insert clips newindex (0-based)   *)
(* to the length; an id that is not in the list moves nothing.             *)
(***************************************************************************)
PopInsert(s, i, newindex) ==
    LET rest == RemoveAt(s, i)
        at   == IF newindex < Len(rest) THEN newindex + 1 ELSE Len(rest) + 1
    IN  InsertAt(rest, at, s[i])

MoveItem(s, r, newindex) ==
    IF r \in Range(s)
    THEN PopInsert(s, CHOOSE i \in 1..Len(s) : s[i] = r, newindex)
    ELSE s

Move(h, r, newindex) ==
    /\ qlock = h
    /\ scripts' = MoveItem(scripts, r, newindex)
    /\ UNCHANGED <<qevent, qlock>>

(***************************************************************************)
(* match_ids of ExecutionController.rearrange_queue: ids the client knows  *)
(* but the queue does not must be a prefix of the client's list (they were *)
(* executed meanwhile).  For ids the queue has and the client lacks, the   *)
(* code compares them with the queue minus as many entries at its end.     *)
(***************************************************************************)
MatchIds(ids, queued) ==
    LET gone  == Range(ids) \ Range(queued)
        extra == Range(queued) \ Range(ids)
        g     == Cardinality(gone)
        e     == Cardinality(extra)
    IN  /\ gone # {} => Range(SubSeq(ids, 1, g)) = gone
        /\ extra # {} => Range(SubSeq(queued, 1, Len(queued) - e)) = extra

(***************************************************************************)
(* The event is exact: get() blocks iff there is nothing to get.  No       *)
(* wakeup is lost and the thread never spins on an empty list.             *)
(***************************************************************************)
EventExact == qevent <=> scripts # << >>

(***************************************************************************)
(* No request is in the queue twice.                                       *)
(***************************************************************************)
NoDuplicates ==
    \A i, j \in 1..Len(scripts) : scripts[i] = scripts[j] => i = j

================================================================================
