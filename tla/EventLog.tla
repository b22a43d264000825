------------------------------- MODULE EventLog -------------------------------
(***************************************************************************)
(* The durable event log (src/coordination/event_log.rs): the subscriber   *)
(* that mirrors the event bus into SQLite through a bounded queue and one  *)
(* writer task, the handlers that append directly, the pruning of old      *)
(* rows, and the clients that page through the log with next_since.        *)
(*                                                                         *)
(* The drain loop, the writer, the pruner and the handlers run             *)
(* concurrently.  The connection is behind a mutex, so an append (one      *)
(* transaction), a prune and a query are one step each.  Events are told   *)
(* apart by the order in which they happen; what is in them, and the       *)
(* sealing of it, is left out: a key that is not available is one of the   *)
(* failures of an append.                                                  *)
(***************************************************************************)
EXTENDS Integers, Sequences, FiniteSets, SequencesExt

CONSTANTS
    Capacity,    \* of the bus, per receiver
    WriteQueue,  \* WRITE_QUEUE
    MaxAge,      \* the retention: age and rows
    MaxRows,
    PageMax,     \* MAX_REPLAY_LIMIT
    Readers,     \* the clients that page through the log
    LimitOf,     \* the limit each of them asks for
    Wanted,      \* the events each of them filters for, by number
    MaxEvents,   \* bound on events
    MaxTime,     \* bound on time
    MaxFailures  \* bound on failed appends and prunes, and on restarts

ASSUME LogAssumption ==
    /\ Capacity \in Nat \ {0} /\ WriteQueue \in Nat \ {0}
    /\ MaxAge \in Nat \ {0} /\ MaxRows \in Nat \ {0} /\ PageMax \in Nat \ {0}
    /\ LimitOf \in [Readers -> Nat]
    /\ Wanted \in [Readers -> SUBSET Nat]
    /\ MaxEvents \in Nat /\ MaxTime \in Nat /\ MaxFailures \in Nat

VARIABLES
    happened, \* the events that there have been
    inbox,    \* what the bus holds for the subscriber
    queue,    \* between the drain loop and the writer
    writer,   \* what the writer task does: "wait", "take" a batch or "write" it
    batch,
    rows,     \* the table
    lastId,   \* the last id it gave (AUTOINCREMENT)
    now,
    cursor,   \* per reader: the next_since it was given last
    since,    \* per reader: the time it asks for first, or NoTime
    seen,     \* per reader: the rows it was given, in order
    logged,   \* every event that was ever appended
    lost,     \* every event of the bus that was dropped, with a warning or a restart
    failures

vars == <<happened, inbox, queue, writer, batch, rows, lastId, now, cursor, since, seen,
          logged, lost, failures>>
subscriber == <<inbox, queue, writer, batch>>
table == <<rows, lastId>>
clients == <<cursor, since, seen>>

NoTime == -1
Event == [num : 1..MaxEvents, bus : BOOLEAN]
Row == [id : 1..MaxEvents, event : Event, ts : 0..MaxTime]

-----------------------------------------------------------------------------
(* The bus and the subscriber. *)

NewEvent(bus) == [num |-> Cardinality(happened) + 1, bus |-> bus]
Happens(e) == e.num <= MaxEvents /\ happened' = happened \cup {e}

(* An event is published; a full buffer drops its oldest, and the receiver    *)
(* learns of it as Lagged, which it only logs.                                *)
Publish ==
    /\ Happens(NewEvent(TRUE))
    /\ IF Len(inbox) < Capacity
       THEN inbox' = Append(inbox, NewEvent(TRUE)) /\ lost' = lost
       ELSE inbox' = Append(Tail(inbox), NewEvent(TRUE)) /\ lost' = lost \cup {Head(inbox)}
    /\ UNCHANGED <<queue, writer, batch, table, now, clients, logged, failures>>

(* The drain loop: try_send. *)
Drain ==
    /\ inbox # <<>>
    /\ inbox' = Tail(inbox)
    /\ IF Len(queue) < WriteQueue
       THEN queue' = Append(queue, Head(inbox)) /\ lost' = lost
       ELSE queue' = queue /\ lost' = lost \cup {Head(inbox)}
    /\ UNCHANGED <<happened, writer, batch, table, now, clients, logged, failures>>

(* Faulty variant: the batch starts without the event that woke the writer. *)
FirstOf_Nothing(q) == <<>>

(* The batch starts with the event that woke the writer. *)
FirstOf(q) == <<Head(q)>>

Receive ==
    /\ writer = "wait" /\ queue # <<>>
    /\ writer' = "take"
    /\ batch' = FirstOf(queue)
    /\ queue' = Tail(queue)
    /\ UNCHANGED <<happened, inbox, table, now, clients, logged, lost, failures>>

(* try_recv, until there is no more. *)
TakeMore ==
    /\ writer = "take"
    /\ IF queue # <<>>
       THEN /\ batch' = Append(batch, Head(queue))
            /\ queue' = Tail(queue)
            /\ writer' = writer
       ELSE /\ writer' = IF batch = <<>> THEN "wait" ELSE "write"
            /\ UNCHANGED <<queue, batch>>
    /\ UNCHANGED <<happened, inbox, table, now, clients, logged, lost, failures>>

-----------------------------------------------------------------------------
(* The table. *)

(* Faulty variant: a table without AUTOINCREMENT. *)
NextId_MaxRow == IF rows = {} THEN 1 ELSE Max({r.id : r \in rows}) + 1

NextId == lastId + 1

(* append_with_key *)
AppendRow(e) ==
    /\ rows' = rows \cup {[id |-> NextId, event |-> e, ts |-> now]}
    /\ lastId' = NextId
    /\ logged' = logged \cup {e}

Fails == failures < MaxFailures /\ failures' = failures + 1

(* Faulty variant: what could not be written is tried again after the rest. *)
AfterFailure_Again(b) == Append(Tail(b), Head(b))

(* What is left of the batch when an append has failed. *)
AfterFailure(b) == Tail(b)

(* The writer appends the next event of its batch, or fails to. *)
WriteNext ==
    /\ writer = "write"
    /\ \/ /\ AppendRow(Head(batch))
          /\ batch' = Tail(batch)
          /\ UNCHANGED <<lost, failures>>
       \/ /\ Fails
          /\ batch' = AfterFailure(batch)
          /\ lost' = lost \cup {Head(batch)}
          /\ UNCHANGED <<table, logged>>
    /\ writer' = IF batch' = <<>> THEN "wait" ELSE "write"
    /\ UNCHANGED <<happened, inbox, queue, now, clients>>

(* record_session_event and v1_events_add append without the bus. *)
AppendDirectly ==
    /\ Happens(NewEvent(FALSE))
    /\ \/ AppendRow(NewEvent(FALSE)) /\ UNCHANGED failures
       \/ Fails /\ UNCHANGED <<table, logged>>
    /\ UNCHANGED <<subscriber, now, clients, lost>>

(* The rows that MaxRows newer ones follow. *)
Overflow(s) == {r \in s : Cardinality({t \in s : t.id > r.id}) >= MaxRows}

(* prune_with: by age, then by rows unless the second statement fails. *)
Prune ==
    /\ LET young == {r \in rows : r.ts >= now - MaxAge}
       IN \/ rows' = young \ Overflow(young) /\ UNCHANGED failures
          \/ Fails /\ rows' = young
    /\ UNCHANGED <<happened, subscriber, lastId, now, clients, logged, lost>>

-----------------------------------------------------------------------------
(* The clients. *)

(* Faulty variant: the limit is taken as it comes. *)
PageSize_Asked(limit) == limit

(* clamp(1, MAX_REPLAY_LIMIT) *)
PageSize(limit) == Max({1, Min({limit, PageMax})})

(* Faulty variant: from the cursor on. *)
After_Inclusive(r) ==
    IF since[r] # NoTime /\ seen[r] = <<>> THEN {t \in rows : t.ts > since[r]}
    ELSE {t \in rows : t.id >= cursor[r]}

(* replay: a client may ask with a time until it has an id. *)
After(r) ==
    IF since[r] # NoTime /\ seen[r] = <<>> THEN {t \in rows : t.ts > since[r]}
    ELSE {t \in rows : t.id > cursor[r]}

(* query_with_key: the oldest of them, up to the limit. *)
Page(r) == {t \in After(r) : Cardinality({u \in After(r) : u.id < t.id}) < PageSize(LimitOf[r])}

(* ORDER BY id: these rows as a list. *)
InOrder(s) ==
    {list \in [1..Cardinality(s) -> s] :
        /\ \A t \in s : \E i \in DOMAIN list : list[i] = t
        /\ \A i, j \in DOMAIN list : i < j => list[i].id < list[j].id}

(* events_replay_handler, and v1_events_list, whose filter is applied to the  *)
(* page: next_since is the last id of what is returned, if anything is.       *)
Read(r) ==
    /\ LET found == {t \in Page(r) : t.event.num \in Wanted[r]}
       IN /\ found # {}
          /\ \E list \in InOrder(found) :
                /\ seen' = [seen EXCEPT ![r] = @ \o list]
                /\ cursor' = [cursor EXCEPT ![r] = list[Len(list)].id]
    /\ UNCHANGED <<happened, subscriber, table, now, since, logged, lost, failures>>

(* A client starts with a time instead of an id. *)
StartFrom(r, t) ==
    /\ since[r] = NoTime /\ seen[r] = <<>>
    /\ since' = [since EXCEPT ![r] = t]
    /\ UNCHANGED <<happened, subscriber, table, now, cursor, seen, logged, lost, failures>>

-----------------------------------------------------------------------------

(* The process stops and starts again: the table is all that is left. *)
Restart ==
    /\ Fails
    /\ inbox' = <<>> /\ queue' = <<>> /\ batch' = <<>> /\ writer' = "wait"
    /\ lost' = lost \cup UNION {{s[i] : i \in DOMAIN s} : s \in {inbox, queue, batch}}
    /\ UNCHANGED <<happened, table, now, clients, logged>>

Tick ==
    /\ now < MaxTime
    /\ now' = now + 1
    /\ UNCHANGED <<happened, subscriber, table, clients, logged, lost, failures>>

Init ==
    /\ happened = {} /\ inbox = <<>> /\ queue = <<>> /\ writer = "wait" /\ batch = <<>>
    /\ rows = {} /\ lastId = 0 /\ now = 0
    /\ cursor = [r \in Readers |-> 0]
    /\ since = [r \in Readers |-> NoTime]
    /\ seen = [r \in Readers |-> <<>>]
    /\ logged = {} /\ lost = {} /\ failures = 0

Next ==
    \/ Publish \/ Drain \/ Receive \/ TakeMore \/ WriteNext
    \/ AppendDirectly \/ Prune \/ Restart \/ Tick
    \/ \E r \in Readers : Read(r) \/ \E t \in 0..now : StartFrom(r, t)

Spec == Init /\ [][Next]_vars

(* The tasks of the subscriber run, and a client asks again and again. *)
FairSpec ==
    /\ Spec
    /\ WF_vars(Drain)
    /\ WF_vars(Receive \/ TakeMore \/ WriteNext)
    /\ \A r \in Readers : WF_vars(Read(r))

-----------------------------------------------------------------------------
(* Properties. *)

(* Every variable has its type, no buffer exceeds its capacity, and the writer *)
(* waits exactly while it has nothing to write.                                *)
TypeOK ==
    /\ happened \subseteq Event
    /\ inbox \in Seq(Event) /\ Len(inbox) <= Capacity
    /\ queue \in Seq(Event) /\ Len(queue) <= WriteQueue
    /\ writer \in {"wait", "take", "write"}
    /\ batch \in Seq(Event)
    /\ (writer = "wait") <=> (batch = <<>>)
    /\ rows \subseteq Row
    /\ lastId \in 0..MaxEvents
    /\ now \in 0..MaxTime
    /\ cursor \in [Readers -> 0..MaxEvents]
    /\ since \in [Readers -> 0..MaxTime \cup {NoTime}]
    /\ \A r \in Readers : \A i \in DOMAIN seen[r] : seen[r][i] \in Row
    /\ logged \subseteq Event /\ lost \subseteq Event
    /\ failures \in 0..MaxFailures

(* The log has an event once, and those of the bus in the order in which they *)
(* were published, whatever was dropped, failed or pruned between them        *)
(* (spawn_subscriber: one queue, one writer).                                 *)
LogInOrder ==
    \A r, t \in rows :
        /\ r.event = t.event => r = t
        /\ (r.event.bus /\ t.event.bus) => (r.id < t.id <=> r.event.num < t.event.num)

(* A client that follows next_since is never taken past a row that it asks    *)
(* for and that is still there: the rows behind its cursor it has been given, *)
(* whatever is appended and pruned meanwhile (replay, AUTOINCREMENT).         *)
NothingSkipped ==
    \A r \in Readers, t \in rows :
        (t.id <= cursor[r] /\ t.event.num \in Wanted[r] /\ t.ts > since[r]) =>
            \E i \in DOMAIN seen[r] : seen[r][i] = t

(* It is given each row once, in order (query_with_key). *)
ReadOnce ==
    \A r \in Readers : \A i, j \in DOMAIN seen[r] :
        i < j => seen[r][i].id < seen[r][j].id

(* Once no more are published, every event of the bus is in the log, unless a *)
(* full buffer or queue, a failed append or a restart has lost it, which is   *)
(* logged but for the restart (spawn_subscriber).                             *)
MirroredOrReported ==
    <>[](\A e \in happened : e.bus => e \in logged \cup lost)

(* A client without a filter that asks again and again is given every row     *)
(* that is not pruned first (events_replay_handler).                          *)
ReplayCatchesUp ==
    <>[](\A r \in Readers, t \in rows :
            (Wanted[r] = 1..MaxEvents /\ t.ts > since[r]) =>
                \E i \in DOMAIN seen[r] : seen[r][i] = t)
=============================================================================
