------------------------------- MODULE CacheSync -------------------------------
(***************************************************************************)
(* One key of the cache: clients that put it, the server with a            *)
(* FlatfileCacheDatabase, and clients that read it and keep a local copy.  *)
(*                                                                         *)
(* Every put has its own time (the clocks agree).  The server has one      *)
(* receiver thread per connection; tell stores the value and then          *)
(* announces it to one connection after the other, while other threads do  *)
(* the same.  A client's worker thread, which handles what it receives, is *)
(* alone, since readers do not put the key.  Rewrites, prefix callbacks,   *)
(* no_store, invalidate and the database's files are left out.  A writer   *)
(* is back only when the server is done with what it received from it, and *)
(* a value lives longer than its announcement takes.                       *)
(***************************************************************************)
EXTENDS Naturals, Sequences

CONSTANTS Writers,     \* clients that put or delete the key
          Readers,     \* clients that keep a copy
          Values,      \* values, without Absent
          Absent,      \* no value
          MaxPuts,     \* puts and deletions, a bound
          MaxFaults    \* lost connections, a bound

ASSUME SyncAssumption == Absent \notin Values /\ MaxPuts \in Nat /\ MaxFaults \in Nat

VARIABLES clock,       \* the time of the last put
          pending,     \* _queue of a writer: what it has yet to send
          link,        \* what it sent and the server has not handled
          online,      \* writers with a connection
          entry,       \* the server's entry
          telling,     \* what a receiver thread announces, and to whom it has to
          phase,       \* where a reader's worker thread is
          subscribed,  \* readers in whose connection ts_updates_on has the key
          out,         \* send_queue of a reader's connection, and what it received
          copy,        \* _db of a reader
          faults,      \* lost connections so far
          version,     \* number of the entry: a history, as the next two
          seen,        \* version of what the reader accepted last
          missed       \* a later version that it did not get, or took for outdated

vars == <<clock, pending, link, online, entry, telling, phase, subscribed, out, copy,
          faults, version, seen, missed>>
writing == <<clock, pending, link, online>>
server == <<entry, telling, version>>
reading == <<phase, subscribed, out, copy, seen, missed>>

Nothing == [val |-> Absent, time |-> 0]
Silent == [todo |-> {}, val |-> Absent, time |-> 0, version |-> 0, changed |-> FALSE]

Init ==
    /\ clock = 0 /\ faults = 0
    /\ pending = [w \in Writers |-> <<>>] /\ link = [w \in Writers |-> <<>>]
    /\ online = Writers
    /\ entry = [val |-> Absent, time |-> 0, ttl |-> FALSE, expired |-> FALSE]
    /\ telling = [w \in Writers |-> Silent] /\ version = 0
    /\ phase = [r \in Readers |-> "off"] /\ subscribed = {}
    /\ out = [r \in Readers |-> <<>>] /\ copy = [r \in Readers |-> Nothing]
    /\ seen = [r \in Readers |-> 0] /\ missed = [r \in Readers |-> 0]

Larger(m, n) == IF m > n THEN m ELSE n
Set(f, x, v) == [f EXCEPT ![x] = v]

\* The value a client is told: none, if it is deleted or expired.
Shown == IF entry.expired THEN Absent ELSE entry.val

--------------------------------------------------------------------------------
(***************************************************************************)
(* Writers: put and delete, and the worker thread that sends what is in    *)
(* the queue, several messages at a time.                                  *)
(***************************************************************************)
Puts(w) ==
    /\ clock < MaxPuts /\ clock' = clock + 1
    /\ \E v \in Values \cup {Absent}, t \in BOOLEAN :
          /\ v = Absent => ~ t
          /\ pending' = [pending EXCEPT ![w] =
                            Append(@, [val |-> v, time |-> clock', ttl |-> t])]
    /\ UNCHANGED <<link, online, server, reading, faults>>

Sends(w) ==
    /\ w \in online
    /\ \E n \in 1..Len(pending[w]) :
          /\ link' = [link EXCEPT ![w] = @ \o SubSeq(pending[w], 1, n)]
          /\ pending' = [pending EXCEPT ![w] = SubSeq(@, n + 1, Len(@))]
    /\ UNCHANGED <<clock, online, server, reading, faults>>

\* The connections of the server change; an iteration over them may notice.
Change == [w \in Writers |-> IF telling[w] = Silent THEN Silent
                             ELSE [telling[w] EXCEPT !.changed = TRUE]]

\* sendall raises: the messages are put in the queue again, behind newer ones.
SendFails(w) ==
    /\ w \in online /\ faults < MaxFaults /\ faults' = faults + 1
    /\ \E n \in 1..Len(pending[w]) :
          pending' = [pending EXCEPT ![w] = SubSeq(@, n + 1, Len(@)) \o SubSeq(@, 1, n)]
    /\ online' = online \ {w} /\ telling' = Change
    /\ UNCHANGED <<clock, link, entry, version, reading>>

\* What the server has not received is lost.
LosesWriter(w) ==
    /\ w \in online /\ faults < MaxFaults /\ faults' = faults + 1
    /\ \E n \in 0..Len(link[w]) : link' = [link EXCEPT ![w] = SubSeq(@, 1, n)]
    /\ online' = online \ {w} /\ telling' = Change
    /\ UNCHANGED <<clock, pending, entry, version, reading>>

WriterConnects(w) ==
    /\ w \notin online /\ link[w] = <<>> /\ telling[w] = Silent
    /\ online' = online \cup {w} /\ telling' = Change
    /\ UNCHANGED <<clock, pending, link, entry, version, reading, faults>>

--------------------------------------------------------------------------------
(***************************************************************************)
(* The server: tell in a receiver thread, and the cleaner thread.          *)
(***************************************************************************)
\* The database has an entry once it stored one.  Equal values only renew
\* it; an expired one need not be deleted.
Renews(m) == version # 0 /\ entry.val = m.val /\ ~ entry.expired
StaysExpired(m) == m.val = Absent /\ entry.expired

Connected == {r \in Readers : phase[r] # "off"}

Stores(w) ==
    /\ link[w] # <<>> /\ telling[w] = Silent
    /\ LET m == Head(link[w])
       IN  IF Renews(m)
           THEN /\ entry' = [entry EXCEPT !.time = m.time, !.ttl = m.ttl]
                /\ UNCHANGED <<telling, version>>
           ELSE IF StaysExpired(m)
                THEN UNCHANGED <<entry, telling, version>>
                ELSE /\ entry' = [val |-> m.val, time |-> m.time, ttl |-> m.ttl,
                                  expired |-> FALSE]
                     /\ version' = version + 1
                     /\ telling' = Set(telling, w,
                           [todo |-> Connected, val |-> m.val, time |-> m.time,
                            version |-> version + 1, changed |-> FALSE])
    /\ link' = [link EXCEPT ![w] = Tail(@)]
    /\ UNCHANGED <<clock, pending, online, reading, faults>>

Message(t) == [val |-> t.val, time |-> t.time, version |-> t.version]

\* client.update: a connection that has not subscribed gets nothing.
Announces(w) ==
    /\ \E r \in telling[w].todo :
          /\ telling' = [telling EXCEPT ![w].todo = @ \ {r}]
          /\ IF r \in subscribed
             THEN /\ out' = [out EXCEPT ![r] = Append(@, Message(telling[w]))]
                  /\ UNCHANGED missed
             ELSE /\ missed' = [missed EXCEPT ![r] =
                        IF phase[r] = "asked" THEN @ ELSE Larger(@, telling[w].version)]
                  /\ UNCHANGED out
    /\ UNCHANGED <<writing, entry, version, phase, subscribed, copy, seen, faults>>

Announced(w) ==
    /\ telling[w] # Silent /\ telling[w].todo = {}
    /\ telling' = Set(telling, w, Silent)
    /\ UNCHANGED <<writing, entry, version, reading, faults>>

\* "dictionary changed size during iteration" is caught and logged.
Aborts(w) ==
    /\ telling[w].changed
    /\ telling' = Set(telling, w, Silent)
    /\ missed' = [r \in Readers |-> IF r \in telling[w].todo
                                    THEN Larger(missed[r], telling[w].version)
                                    ELSE missed[r]]
    /\ UNCHANGED <<writing, entry, version, phase, subscribed, out, copy, seen, faults>>

\* The cleaner keeps the entry's lock while it tells all connections.
Expires ==
    /\ entry.ttl /\ ~ entry.expired /\ entry.val # Absent
    /\ \A w \in Writers : telling[w].version # version
    /\ entry' = [entry EXCEPT !.expired = TRUE]
    /\ version' = version + 1
    /\ out' = [r \in Readers |->
                 IF r \in subscribed
                 THEN Append(out[r], [val |-> Absent, time |-> clock, version |-> version + 1])
                 ELSE out[r]]
    /\ missed' = [r \in Readers |->
                    IF r \in subscribed \/ phase[r] \in {"off", "asked"} THEN missed[r]
                    ELSE version + 1]
    /\ UNCHANGED <<writing, telling, phase, subscribed, copy, seen, faults>>

--------------------------------------------------------------------------------
(***************************************************************************)
(* Readers: _connect_action, and _handle_msg.                              *)
(***************************************************************************)
Connects(r) ==
    /\ phase[r] = "off"
    /\ phase' = Set(phase, r, "asked") /\ telling' = Change
    /\ copy' = Set(copy, r, Nothing)
    /\ seen' = Set(seen, r, 0) /\ missed' = Set(missed, r, 0)
    /\ UNCHANGED <<writing, entry, version, subscribed, out, faults>>

\* ask_wc leaves out a value that was deleted.
Answers(r) ==
    /\ phase[r] = "asked"
    /\ phase' = Set(phase, r, "answered")
    /\ IF entry.val = Absent
       THEN UNCHANGED out /\ seen' = Set(seen, r, version)
       ELSE /\ out' = Set(out, r, <<[val |-> Shown, time |-> entry.time, version |-> version]>>)
            /\ UNCHANGED seen
    /\ UNCHANGED <<writing, server, subscribed, copy, missed, faults>>

\* Mutant: the end of the answer is only found behind a value.
SubscribesIfTold(r) ==
    /\ phase[r] = "answered" /\ out[r] # <<>>
    /\ phase' = Set(phase, r, "on")
    /\ UNCHANGED <<writing, server, subscribed, out, copy, seen, missed, faults>>

Subscribes(r) ==
    /\ phase[r] = "answered"
    /\ phase' = Set(phase, r, "on")
    /\ UNCHANGED <<writing, server, subscribed, out, copy, seen, missed, faults>>

ServerSubscribes(r) ==
    /\ phase[r] = "on" /\ r \notin subscribed
    /\ subscribed' = subscribed \cup {r}
    /\ UNCHANGED <<writing, server, phase, out, copy, seen, missed, faults>>

\* Mutant: outdated updates are taken.
NeverOutdated(r, m) == FALSE

Outdated(r, m) == copy[r].time > m.time

\* What tells a version apart: one that is taken for outdated although it is
\* later, or is taken although a later one was, since that had an earlier time
\* or no value.
Handles(r) ==
    /\ phase[r] = "on" /\ out[r] # <<>>
    /\ out' = [out EXCEPT ![r] = Tail(@)]
    /\ LET m == Head(out[r])
       IN  IF Outdated(r, m)
           THEN /\ missed' = [missed EXCEPT ![r] = IF m.version > seen[r]
                                                  THEN Larger(@, m.version) ELSE @]
                /\ UNCHANGED <<copy, seen>>
           ELSE /\ copy' = Set(copy, r, IF m.val = Absent THEN Nothing
                                        ELSE [val |-> m.val, time |-> m.time])
                /\ seen' = Set(seen, r, m.version)
                /\ missed' = [missed EXCEPT ![r] =
                       IF m.version < seen[r] /\ copy[r].time < m.time
                       THEN Larger(@, seen[r]) ELSE @]
    /\ UNCHANGED <<writing, server, phase, subscribed, faults>>

LosesReader(r) ==
    /\ phase[r] # "off" /\ faults < MaxFaults /\ faults' = faults + 1
    /\ phase' = Set(phase, r, "off") /\ subscribed' = subscribed \ {r}
    /\ out' = Set(out, r, <<>>)
    /\ telling' = [w \in Writers |-> [Change[w] EXCEPT !.todo = @ \ {r}]]
    /\ UNCHANGED <<writing, entry, version, copy, seen, missed>>

--------------------------------------------------------------------------------
WriterStep(w) == Sends(w) \/ WriterConnects(w)
ReceiverStep(w) == Stores(w) \/ Announces(w) \/ Announced(w)
ReaderStep(r) == Connects(r) \/ Answers(r) \/ Subscribes(r) \/ ServerSubscribes(r) \/ Handles(r)

Next ==
    \/ \E w \in Writers : \/ WriterStep(w) \/ ReceiverStep(w) \/ Aborts(w)
                          \/ Puts(w) \/ SendFails(w) \/ LosesWriter(w)
    \/ \E r \in Readers : ReaderStep(r) \/ LosesReader(r)
    \/ Expires

Spec == Init /\ [][Next]_vars

(***************************************************************************)
(* All threads go on and lost connections are made again.  Nobody needs to *)
(* put anything, nothing needs to get lost or to expire.                   *)
(***************************************************************************)
Fairness ==
    /\ \A w \in Writers : WF_vars(WriterStep(w)) /\ WF_vars(ReceiverStep(w) \/ Aborts(w))
    /\ \A r \in Readers : WF_vars(ReaderStep(r))

FairSpec == Spec /\ Fairness

--------------------------------------------------------------------------------
Excused(r) == missed[r] > seen[r]

UpToDate(r) ==
    /\ phase[r] = "on" /\ r \in subscribed /\ out[r] = <<>>
    /\ \A w \in Writers : r \notin telling[w].todo

(***************************************************************************)
(* "Ignore outdated updates": when everything that is on its way to a      *)
(* reader has arrived, its copy is what the server would tell it, in       *)
(* whatever order the threads of the server announced it, unless the       *)
(* reader did not get the last value, since that was announced between its *)
(* question and its subscription or while the set of connections changed,  *)
(* or unless the server stored values in another order than their times or *)
(* announced a value after its removal.                                    *)
(***************************************************************************)
CopiesAgree ==
    \A r \in Readers : UpToDate(r) /\ ~ Excused(r) => copy[r].val = Shown

(***************************************************************************)
(* When puts and faults have come to an end, everything that was put has   *)
(* arrived, or was lost with a connection, and every reader is up to date: *)
(* no thread hangs, no connection stays away.                              *)
(***************************************************************************)
CatchesUp ==
    <>[](/\ \A w \in Writers : pending[w] = <<>> /\ link[w] = <<>>
         /\ \A r \in Readers : UpToDate(r) /\ (Excused(r) \/ copy[r].val = Shown))

================================================================================
