--------------------------- MODULE RequestLifecycle ---------------------------
(***************************************************************************)
(* What the daemon promises about the requests it is given, without        *)
(* threads, locks or events: a request is announced, queued, and then      *)
(* either dropped or taken; at most one request is being worked on; a      *)
(* request that was dropped or completed never comes back; the order of    *)
(* the queue changes only by an explicit reordering that loses nothing.    *)
(***************************************************************************)
EXTENDS Naturals, SequencesExt

CONSTANTS Requests, NoReq, Initially

VARIABLES pending,     \* announced, not yet in the queue
          queue,       \* sequence of waiting requests
          running,     \* the request being worked on, or NoReq
          dropped,     \* removed from the queue before they were taken
          completed    \* taken, and finished with

lvars == <<pending, queue, running, dropped, completed>>

Known == pending \cup Range(queue) \cup {running} \cup dropped \cup completed

LInit ==
    /\ pending = Initially
    /\ queue = << >>
    /\ running = NoReq
    /\ dropped = {}
    /\ completed = {}

LAnnounce(r) ==
    /\ r \notin Known
    /\ pending' = pending \cup {r}
    /\ UNCHANGED <<queue, running, dropped, completed>>

LEnqueue(r) ==
    /\ r \in pending
    /\ pending' = pending \ {r}
    /\ queue' = Append(queue, r)
    /\ UNCHANGED <<running, dropped, completed>>

LTake ==
    /\ running = NoReq
    /\ queue # << >>
    /\ running' = Head(queue)
    /\ queue' = Tail(queue)
    /\ UNCHANGED <<pending, dropped, completed>>

LComplete ==
    /\ running # NoReq
    /\ completed' = completed \cup {running}
    /\ running' = NoReq
    /\ UNCHANGED <<pending, queue, dropped>>

LDrop(i) ==
    /\ dropped' = dropped \cup {queue[i]}
    /\ queue' = RemoveAt(queue, i)
    /\ UNCHANGED <<pending, running, completed>>

LDropAll ==
    /\ dropped' = dropped \cup Range(queue)
    /\ queue' = << >>
    /\ UNCHANGED <<pending, running, completed>>

LReorder ==
    /\ Len(queue') = Len(queue)
    /\ Range(queue') = Range(queue)
    /\ UNCHANGED <<pending, running, dropped, completed>>

LNext ==
    \/ \E r \in Requests : LAnnounce(r) \/ LEnqueue(r)
    \/ LTake
    \/ LComplete
    \/ \E i \in 1..Len(queue) : LDrop(i)
    \/ LDropAll
    \/ LReorder

LSpec == LInit /\ [][LNext]_lvars

================================================================================
