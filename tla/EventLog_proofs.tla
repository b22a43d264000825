---------------------------- MODULE EventLog_proofs ----------------------------
(***************************************************************************)
(* Proofs about EventLog, for any capacity, queue, retention, page size    *)
(* and number of clients, with failing appends and restarts.               *)
(***************************************************************************)
EXTENDS EventLog, FiniteSetTheorems, TLAPS

(* Every event has its own number, and every row is that of an event. *)
Counted ==
    /\ IsFiniteSet(happened) /\ Cardinality(happened) <= MaxEvents
    /\ \A e \in happened : e.num <= Cardinality(happened)
    /\ logged \subseteq happened
    /\ lastId = Cardinality(logged)
    /\ IsFiniteSet(rows)

(* Events of the bus, in the order in which they were published. *)
Ahead(e, s) == \A i \in 1..Len(s) : e.num < s[i].num
Past(s, e) == \A i \in 1..Len(s) : s[i].num < e.num
Before(s, t) == \A i \in 1..Len(s) : Ahead(s[i], t)
Rising(s) == \A i, j \in 1..Len(s) : i < j => s[i].num < s[j].num
FromBus(s, h) == \A i \in 1..Len(s) : s[i] \in h /\ s[i].bus
Unlogged(s, l) == \A e \in l : e.bus => Ahead(e, s)

Buffer(s, h, l) == Rising(s) /\ FromBus(s, h) /\ Unlogged(s, l)

(* An event passes through inbox, queue and batch, in this order, and the log *)
(* is behind all of them.                                                     *)
Pipeline ==
    /\ Buffer(inbox, happened, logged)
    /\ Buffer(queue, happened, logged)
    /\ Buffer(batch, happened, logged)
    /\ Before(batch, queue) /\ Before(batch, inbox) /\ Before(queue, inbox)

(* An id is given once, a row's event was logged, and the rows are in order. *)
Table ==
    /\ \A t \in rows : t.event \in logged /\ t.id <= lastId
    /\ \A t, u \in rows : t.id = u.id => t = u
    /\ LogInOrder

(* A cursor is the id of the last row that was given. *)
Cursors ==
    \A r \in Readers :
        /\ cursor[r] <= lastId
        /\ \A i \in 1..Len(seen[r]) : seen[r][i].id <= cursor[r]
        /\ seen[r] = <<>> => cursor[r] = 0

TypeInv == TypeOK /\ seen \in [Readers -> Seq(Row)]

IInv == TypeInv /\ Counted /\ Pipeline /\ Table /\ Cursors /\ ReadOnce /\ NothingSkipped

-----------------------------------------------------------------------------
(* Sequences. *)

(* The fields of an event and of a row. *)
LEMMA EventFacts ==
    ASSUME NEW e \in Event
    PROVE  e.num \in 1..MaxEvents /\ e.num \in Int /\ e.bus \in BOOLEAN
  BY LogAssumption DEF Event

LEMMA RowFacts ==
    ASSUME NEW t \in Row
    PROVE  t.id \in 1..MaxEvents /\ t.id \in Int /\ t.event \in Event /\ t.ts \in 0..MaxTime
  BY LogAssumption DEF Row

(* What is left of a sequence behind its head. *)
LEMMA TailFacts ==
    ASSUME NEW S, NEW s \in Seq(S), s # <<>>
    PROVE  /\ Head(s) \in S /\ Head(s) = s[1] /\ 1 \in 1..Len(s)
           /\ Tail(s) \in Seq(S) /\ Len(Tail(s)) = Len(s) - 1
           /\ \A i \in 1..Len(Tail(s)) : i + 1 \in 1..Len(s) /\ Tail(s)[i] = s[i + 1]
  OBVIOUS

(* A sequence with one more element. *)
LEMMA AppendFacts ==
    ASSUME NEW S, NEW s \in Seq(S), NEW e \in S
    PROVE  /\ Append(s, e) \in Seq(S) /\ Len(Append(s, e)) = Len(s) + 1
           /\ Append(s, e)[Len(s) + 1] = e
           /\ \A i \in 1..Len(s) : Append(s, e)[i] = s[i]
           /\ \A i \in 1..(Len(s) + 1) : i \in 1..Len(s) \/ i = Len(s) + 1
  OBVIOUS

(* Taking the head keeps every order, and the head comes before the rest. *)
LEMMA TailOrder ==
    ASSUME NEW s \in Seq(Event), s # <<>>, NEW h, NEW l, Buffer(s, h, l)
    PROVE  /\ Buffer(Tail(s), h, l)
           /\ Ahead(Head(s), Tail(s)) /\ Head(s) \in h /\ Head(s).bus
           /\ \A e \in l : e.bus => e.num < Head(s).num
           /\ \A t \in Seq(Event) : Before(s, t) => Before(Tail(s), t) /\ Ahead(Head(s), t)
           /\ \A t \in Seq(Event) : Before(t, s) => Before(t, Tail(s)) /\ Past(t, Head(s))
  <1> USE TailFacts DEF Buffer
  <1>0. \A i \in 1..Len(s) : s[i].num \in Int
    <2>1. \A i \in 1..Len(s) : s[i] \in Event
      OBVIOUS
    <2>2. QED
      BY <2>1, EventFacts
  <1>1. Rising(Tail(s)) /\ Ahead(Head(s), Tail(s))
    BY <1>0 DEF Rising, Ahead
  <1>2. FromBus(Tail(s), h) /\ Head(s) \in h /\ Head(s).bus
    BY DEF FromBus
  <1>3. Unlogged(Tail(s), l) /\ \A e \in l : e.bus => e.num < Head(s).num
    BY DEF Unlogged, Ahead
  <1>4. \A t \in Seq(Event) : Before(s, t) => Before(Tail(s), t) /\ Ahead(Head(s), t)
    BY DEF Before
  <1>5. \A t \in Seq(Event) : Before(t, s) => Before(t, Tail(s)) /\ Past(t, Head(s))
    BY DEF Before, Ahead, Past
  <1>6. QED
    BY <1>1, <1>2, <1>3, <1>4, <1>5

(* An event behind all others keeps every order. *)
LEMMA AppendOrder ==
    ASSUME NEW s \in Seq(Event), NEW e \in Event, NEW h, NEW l, Buffer(s, h, l),
           Past(s, e), e \in h, e.bus, \A k \in l : k.bus => k.num < e.num
    PROVE  /\ Buffer(Append(s, e), h, l)
           /\ \A t \in Seq(Event) : Before(s, t) /\ Ahead(e, t) => Before(Append(s, e), t)
           /\ \A t \in Seq(Event) : Before(t, s) /\ Past(t, e) => Before(t, Append(s, e))
  <1> USE AppendFacts DEF Buffer
  <1>1. Rising(Append(s, e))
    BY DEF Rising, Past
  <1>2. FromBus(Append(s, e), h)
    BY DEF FromBus
  <1>3. Unlogged(Append(s, e), l)
    BY DEF Unlogged, Ahead
  <1>4. \A t \in Seq(Event) : Before(s, t) /\ Ahead(e, t) => Before(Append(s, e), t)
    BY DEF Before
  <1>5. \A t \in Seq(Event) : Before(t, s) /\ Past(t, e) => Before(t, Append(s, e))
    BY DEF Before, Ahead, Past
  <1>6. QED
    BY <1>1, <1>2, <1>3, <1>4, <1>5

(* No buffer has an event, and none has been logged, that is yet to happen. *)
LEMMA MoreHappened ==
    ASSUME NEW s, NEW h, NEW k, NEW l, h \subseteq k, Buffer(s, h, l)
    PROVE  Buffer(s, k, l)
  BY DEF Buffer, FromBus

-----------------------------------------------------------------------------
(* The next event is a new one. *)
LEMMA NewEventFacts ==
    ASSUME TypeInv, Counted, Pipeline, NEW bus \in BOOLEAN, Happens(NewEvent(bus))
    PROVE  LET e == NewEvent(bus) IN
           /\ e \in Event /\ e.bus = bus /\ e \notin happened
           /\ \A k \in happened : k.num < e.num
           /\ IsFiniteSet(happened') /\ Cardinality(happened') = Cardinality(happened) + 1
           /\ Cardinality(happened') <= MaxEvents
           /\ \A k \in happened' : k.num <= Cardinality(happened')
           /\ happened \subseteq happened' /\ e \in happened' /\ happened' \subseteq Event
           /\ Past(inbox, e) /\ Past(queue, e) /\ Past(batch, e)
  <1> DEFINE e == NewEvent(bus)
             n == Cardinality(happened)
  <1>1. n \in Nat /\ IsFiniteSet(happened) /\ \A k \in happened : k \in Event /\ k.num <= n
    BY FS_CardinalityType DEF Counted, TypeInv, TypeOK
  <1>2. \A k \in happened : k.num \in Int
    BY <1>1, EventFacts
  <1>3. e.num = n + 1 /\ e.bus = bus /\ happened' = happened \cup {e} /\ n + 1 <= MaxEvents
    BY DEF NewEvent, Happens
  <1>4. e \in Event
    BY <1>1, <1>3, LogAssumption DEF Event, NewEvent
  <1> HIDE DEF e
  <1>5. e \notin happened /\ \A k \in happened : k.num < e.num
    BY <1>1, <1>2, <1>3
  <1>6. IsFiniteSet(happened') /\ Cardinality(happened') = n + 1
    BY <1>1, <1>3, <1>5, FS_AddElement
  <1>7. \A k \in happened' : k.num <= n + 1
    BY <1>1, <1>2, <1>3
  <1>8. \A s : (\A i \in 1..Len(s) : s[i] \in happened) => Past(s, e)
    BY <1>5 DEF Past
  <1>9. Past(inbox, e) /\ Past(queue, e) /\ Past(batch, e)
    BY <1>8 DEF Pipeline, Buffer, FromBus
  <1>10. QED
    BY <1>1, <1>3, <1>4, <1>5, <1>6, <1>7, <1>9 DEF e, TypeInv, TypeOK

(* What the subscriber does before it writes concerns neither the table nor   *)
(* the clients.                                                               *)
LEMMA TableUntouched ==
    ASSUME Table, Cursors, ReadOnce, NothingSkipped, UNCHANGED <<table, clients, logged>>
    PROVE  Table' /\ Cursors' /\ ReadOnce' /\ NothingSkipped'
  BY DEF Table, LogInOrder, Cursors, ReadOnce, NothingSkipped, table, clients

LEMMA PublishStep == ASSUME IInv, Publish PROVE IInv'
  <1> DEFINE e == NewEvent(TRUE)
  <1> USE DEF IInv
  <1>0. Happens(e) /\ UNCHANGED <<queue, writer, batch, rows, lastId, now, cursor, since, seen,
                                   logged, failures>>
    BY DEF Publish, table, clients
  <1>1. /\ e \in Event /\ e.bus /\ \A k \in happened : k.num < e.num
        /\ IsFiniteSet(happened') /\ Cardinality(happened') <= MaxEvents
        /\ \A k \in happened' : k.num <= Cardinality(happened')
        /\ happened \subseteq happened' /\ e \in happened' /\ happened' \subseteq Event
        /\ Past(inbox, e) /\ Past(queue, e) /\ Past(batch, e)
    BY <1>0, NewEventFacts
  <1>2. /\ inbox \in Seq(Event) /\ queue \in Seq(Event) /\ batch \in Seq(Event)
        /\ Len(inbox) <= Capacity
    BY DEF TypeInv, TypeOK
  <1>3. PICK base \in Seq(Event) :
           /\ inbox' = Append(base, e) /\ Len(base) < Capacity
           /\ Buffer(base, happened, logged) /\ Past(base, e)
           /\ Before(batch, base) /\ Before(queue, base)
           /\ lost' \subseteq Event
    <2>1. CASE Len(inbox) < Capacity
      BY <1>1, <1>2, <2>1 DEF Publish, Pipeline, TypeInv, TypeOK
    <2>2. CASE ~(Len(inbox) < Capacity)
      <3>1. inbox # <<>> /\ Len(Tail(inbox)) < Capacity
        BY <1>2, <2>2, LogAssumption
      <3>2. /\ Tail(inbox) \in Seq(Event) /\ Head(inbox) \in Event
            /\ \A i \in 1..Len(Tail(inbox)) : i + 1 \in 1..Len(inbox)
                                              /\ Tail(inbox)[i] = inbox[i + 1]
        BY <1>2, <3>1, TailFacts
      <3>3. Buffer(Tail(inbox), happened, logged) /\ Before(batch, Tail(inbox))
            /\ Before(queue, Tail(inbox))
        BY <1>2, <3>1, TailOrder DEF Pipeline
      <3>4. Past(Tail(inbox), e)
        BY <1>1, <3>2 DEF Past
      <3>5. inbox' = Append(Tail(inbox), e) /\ lost' = lost \cup {Head(inbox)}
        BY <2>2 DEF Publish
      <3>6. QED
        BY <3>1, <3>2, <3>3, <3>4, <3>5 DEF TypeInv, TypeOK
    <2>3. QED
      BY <2>1, <2>2
  <1> HIDE DEF e
  <1>4. TypeInv'
    <2>1. inbox' \in Seq(Event) /\ Len(inbox') <= Capacity
      BY <1>1, <1>3, AppendFacts, LogAssumption
    <2>2. QED
      BY <1>0, <1>1, <1>3, <2>1 DEF TypeInv, TypeOK
  <1>5. Counted'
    BY <1>0, <1>1 DEF Counted
  <1>6. Pipeline'
    <2>1. \A k \in logged : k.num < e.num
      BY <1>1 DEF Counted
    <2>2. /\ Buffer(base, happened', logged)
          /\ Buffer(queue, happened', logged) /\ Buffer(batch, happened', logged)
      BY <1>1, <1>3, MoreHappened DEF Pipeline
    <2>3. /\ Buffer(inbox', happened', logged)
          /\ Before(batch, inbox') /\ Before(queue, inbox')
      BY <1>1, <1>2, <1>3, <2>1, <2>2, AppendOrder
    <2>4. QED
      BY <1>0, <2>2, <2>3 DEF Pipeline
  <1>7. QED
    BY <1>0, <1>4, <1>5, <1>6, TableUntouched DEF table, clients

LEMMA DrainStep == ASSUME IInv, Drain PROVE IInv'
  <1> USE DEF IInv
  <1>0. /\ inbox # <<>> /\ inbox' = Tail(inbox)
        /\ UNCHANGED <<happened, writer, batch, rows, lastId, now, cursor, since, seen, logged,
                       failures>>
    BY DEF Drain, table, clients
  <1>1. /\ inbox \in Seq(Event) /\ queue \in Seq(Event) /\ batch \in Seq(Event)
        /\ Len(inbox) <= Capacity /\ Len(queue) <= WriteQueue
    BY DEF TypeInv, TypeOK
  <1>2. Head(inbox) \in Event /\ Tail(inbox) \in Seq(Event) /\ Len(Tail(inbox)) <= Capacity
    BY <1>0, <1>1, TailFacts, LogAssumption
  <1>3. /\ Buffer(Tail(inbox), happened, logged) /\ Ahead(Head(inbox), Tail(inbox))
        /\ Head(inbox) \in happened /\ Head(inbox).bus
        /\ \A e \in logged : e.bus => e.num < Head(inbox).num
        /\ Before(batch, Tail(inbox)) /\ Past(batch, Head(inbox))
        /\ Before(queue, Tail(inbox)) /\ Past(queue, Head(inbox))
    BY <1>0, <1>1, TailOrder DEF Pipeline
  <1>4. /\ queue' \in Seq(Event) /\ Len(queue') <= WriteQueue /\ lost' \subseteq Event
        /\ Buffer(queue', happened, logged)
        /\ Before(batch, queue') /\ Before(queue', Tail(inbox))
    <2>1. CASE Len(queue) < WriteQueue
      <3>1. queue' = Append(queue, Head(inbox)) /\ lost' = lost
        BY <2>1 DEF Drain
      <3>2. queue' \in Seq(Event) /\ Len(queue') <= WriteQueue
        BY <1>1, <1>2, <2>1, <3>1, AppendFacts, LogAssumption
      <3>3. /\ Buffer(queue', happened, logged)
            /\ Before(batch, queue') /\ Before(queue', Tail(inbox))
        BY <1>1, <1>2, <1>3, <3>1, AppendOrder DEF Pipeline
      <3>4. QED
        BY <3>1, <3>2, <3>3 DEF TypeInv, TypeOK
    <2>2. CASE ~(Len(queue) < WriteQueue)
      BY <1>1, <1>2, <1>3, <2>2 DEF Drain, Pipeline, TypeInv, TypeOK
    <2>3. QED
      BY <2>1, <2>2
  <1>5. TypeInv'
    BY <1>0, <1>2, <1>4 DEF TypeInv, TypeOK
  <1>6. Counted'
    BY <1>0 DEF Counted
  <1>7. Pipeline'
    BY <1>0, <1>3, <1>4 DEF Pipeline
  <1>8. QED
    BY <1>0, <1>5, <1>6, <1>7, TableUntouched DEF table, clients

LEMMA ReceiveStep == ASSUME IInv, Receive PROVE IInv'
  <1> USE DEF IInv
  <1>0. /\ queue # <<>> /\ queue' = Tail(queue) /\ batch' = <<Head(queue)>> /\ writer' = "take"
        /\ UNCHANGED <<happened, inbox, rows, lastId, now, cursor, since, seen, logged, lost,
                       failures>>
    BY DEF Receive, FirstOf, table, clients
  <1>1. /\ inbox \in Seq(Event) /\ queue \in Seq(Event) /\ Len(queue) <= WriteQueue
    BY DEF TypeInv, TypeOK
  <1>2. Head(queue) \in Event /\ Tail(queue) \in Seq(Event) /\ Len(Tail(queue)) <= WriteQueue
    BY <1>0, <1>1, TailFacts, LogAssumption
  <1>3. /\ Buffer(Tail(queue), happened, logged) /\ Ahead(Head(queue), Tail(queue))
        /\ Head(queue) \in happened /\ Head(queue).bus
        /\ \A e \in logged : e.bus => e.num < Head(queue).num
        /\ Before(Tail(queue), inbox) /\ Ahead(Head(queue), inbox)
    BY <1>0, <1>1, TailOrder DEF Pipeline
  <1>4. /\ batch' \in Seq(Event) /\ batch' # <<>> /\ Len(batch') = 1 /\ batch'[1] = Head(queue)
    BY <1>0, <1>2
  <1>5. /\ Buffer(batch', happened, logged)
        /\ Before(batch', Tail(queue)) /\ Before(batch', inbox)
    BY <1>3, <1>4 DEF Buffer, Rising, FromBus, Unlogged, Ahead, Before
  <1>6. TypeInv'
    BY <1>0, <1>2, <1>4 DEF TypeInv, TypeOK
  <1>7. Counted'
    BY <1>0 DEF Counted
  <1>8. Pipeline'
    BY <1>0, <1>3, <1>5 DEF Pipeline
  <1>9. QED
    BY <1>0, <1>6, <1>7, <1>8, TableUntouched DEF table, clients

LEMMA TakeMoreStep == ASSUME IInv, TakeMore PROVE IInv'
  <1> USE DEF IInv
  <1>0. /\ writer = "take"
        /\ UNCHANGED <<happened, inbox, rows, lastId, now, cursor, since, seen, logged, lost,
                       failures>>
    BY DEF TakeMore, table, clients
  <1>1. /\ inbox \in Seq(Event) /\ queue \in Seq(Event) /\ batch \in Seq(Event)
        /\ Len(queue) <= WriteQueue /\ batch # <<>>
    BY <1>0 DEF TypeInv, TypeOK
  <1>2. Counted'
    BY <1>0 DEF Counted
  <1>3. CASE queue = <<>>
    <2>1. UNCHANGED <<queue, batch>> /\ writer' = "write"
      BY <1>1, <1>3 DEF TakeMore
    <2>2. TypeInv' /\ Pipeline'
      BY <1>0, <1>1, <2>1 DEF TypeInv, TypeOK, Pipeline
    <2>3. QED
      BY <1>0, <1>2, <2>2, TableUntouched DEF table, clients
  <1>4. CASE queue # <<>>
    <2>0. batch' = Append(batch, Head(queue)) /\ queue' = Tail(queue) /\ writer' = writer
      BY <1>4 DEF TakeMore
    <2>1. Head(queue) \in Event /\ Tail(queue) \in Seq(Event) /\ Len(Tail(queue)) <= WriteQueue
      BY <1>1, <1>4, TailFacts, LogAssumption
    <2>2. /\ Buffer(Tail(queue), happened, logged) /\ Ahead(Head(queue), Tail(queue))
          /\ Head(queue) \in happened /\ Head(queue).bus
          /\ \A e \in logged : e.bus => e.num < Head(queue).num
          /\ Before(batch, Tail(queue)) /\ Past(batch, Head(queue))
          /\ Before(Tail(queue), inbox) /\ Ahead(Head(queue), inbox)
      BY <1>1, <1>4, TailOrder DEF Pipeline
    <2>3. batch' \in Seq(Event) /\ batch' # <<>>
      BY <1>1, <2>0, <2>1
    <2>4. /\ Buffer(batch', happened, logged)
          /\ Before(batch', Tail(queue)) /\ Before(batch', inbox)
      BY <1>1, <2>0, <2>1, <2>2, AppendOrder DEF Pipeline
    <2>5. TypeInv'
      BY <1>0, <2>0, <2>1, <2>3 DEF TypeInv, TypeOK
    <2>6. Pipeline'
      BY <1>0, <2>0, <2>2, <2>4 DEF Pipeline
    <2>7. QED
      BY <1>0, <1>2, <2>5, <2>6, TableUntouched DEF table, clients
  <1>5. QED
    BY <1>3, <1>4

-----------------------------------------------------------------------------
(* The table. *)

(* A row of a new event, of a later one than all before if it is of the bus. *)
LEMMA AppendRowFacts ==
    ASSUME IInv, NEW e \in Event, e \notin logged, AppendRow(e),
           e.bus => \A k \in logged : k.bus => k.num < e.num,
           happened \subseteq happened', e \in happened', IsFiniteSet(happened'),
           Cardinality(happened') <= MaxEvents, UNCHANGED clients
    PROVE  /\ rows' \subseteq Row /\ lastId' \in 0..MaxEvents /\ logged' \subseteq Event
           /\ logged' \subseteq happened' /\ lastId' = Cardinality(logged') /\ IsFiniteSet(rows')
           /\ Table' /\ Cursors' /\ ReadOnce' /\ NothingSkipped'
  <1> DEFINE new == [id |-> lastId + 1, event |-> e, ts |-> now]
  <1> USE DEF IInv
  <1>0. /\ rows' = rows \cup {new} /\ lastId' = lastId + 1 /\ logged' = logged \cup {e}
        /\ UNCHANGED <<cursor, since, seen>>
    BY DEF AppendRow, NextId, clients
  <1>1. /\ rows \subseteq Row /\ lastId \in 0..MaxEvents /\ logged \subseteq Event
        /\ now \in 0..MaxTime /\ logged \subseteq happened /\ lastId = Cardinality(logged)
        /\ IsFiniteSet(rows) /\ IsFiniteSet(happened)
    BY DEF TypeInv, TypeOK, Counted
  <1>2. IsFiniteSet(logged) /\ Cardinality(logged') = Cardinality(logged) + 1
    BY <1>0, <1>1, FS_Subset, FS_AddElement
  <1>3. logged' \subseteq happened' /\ lastId' = Cardinality(logged')
    BY <1>0, <1>1, <1>2
  <1>4. lastId' <= MaxEvents
    <2>1. Cardinality(logged') <= Cardinality(happened')
      BY <1>3, FS_Subset
    <2>2. Cardinality(happened') \in Nat
      BY FS_CardinalityType
    <2>3. QED
      BY <1>0, <1>1, <1>3, <2>1, <2>2, LogAssumption
  <1>5. lastId' \in 0..MaxEvents /\ new.id = lastId + 1 /\ new.event = e /\ new.ts = now
        /\ new.id \in 1..MaxEvents
    BY <1>0, <1>1, <1>4, LogAssumption
  <1>6. new \in Row
    BY <1>1, <1>5 DEF Row
  <1> HIDE DEF new
  <1>7. IsFiniteSet(rows')
    BY <1>0, <1>1, FS_AddElement
  <1>8. \A t \in rows : t.id \in Int /\ t.id <= lastId /\ t.id # new.id /\ t.id < new.id
                        /\ t.event \in logged /\ t.event # e /\ t.event \in Event
    BY <1>1, <1>5, RowFacts DEF Table
  <1>9. Table'
    <2>1. \A t \in rows' : t.event \in logged' /\ t.id <= lastId'
      BY <1>0, <1>1, <1>5, <1>8
    <2>2. \A t, u \in rows' : t.id = u.id => t = u
      BY <1>0, <1>8 DEF Table
    <2>3. ASSUME NEW t \in rows', NEW u \in rows'
          PROVE  /\ t.event = u.event => t = u
                 /\ (t.event.bus /\ u.event.bus) => (t.id < u.id <=> t.event.num < u.event.num)
      <3>0. e.num \in Int /\ lastId \in Int /\ \A k \in logged : k.num \in Int
        BY <1>1, EventFacts
      <3>1. CASE t \in rows /\ u \in rows
        BY <3>1 DEF Table, LogInOrder
      <3>2. CASE t = new /\ u = new
        BY <1>5, <3>0, <3>2
      <3>3. CASE t \in rows /\ u = new
        BY <1>5, <1>8, <3>0, <3>3
      <3>4. CASE t = new /\ u \in rows
        <4>1. t.event # u.event /\ ~(t.id < u.id)
          BY <1>5, <1>8, <3>4
        <4>2. t.event.bus /\ u.event.bus => ~(t.event.num < u.event.num)
          BY <1>5, <1>8, <3>0, <3>4
        <4>3. QED
          BY <4>1, <4>2
      <3>5. QED
        BY <1>0, <3>1, <3>2, <3>3, <3>4
    <2>4. QED
      BY <2>1, <2>2, <2>3 DEF Table, LogInOrder
  <1>10. \A r \in Readers : cursor[r] \in Int /\ cursor[r] <= lastId
    BY DEF Cursors, TypeInv, TypeOK
  <1>11. Cursors'
    BY <1>0, <1>1, <1>10 DEF Cursors
  <1>12. ReadOnce'
    BY <1>0 DEF ReadOnce
  <1>13. NothingSkipped'
    BY <1>0, <1>1, <1>5, <1>10 DEF NothingSkipped
  <1>14. QED
    BY <1>0, <1>1, <1>3, <1>5, <1>6, <1>7, <1>9, <1>11, <1>12, <1>13

LEMMA WriteNextStep == ASSUME IInv, WriteNext PROVE IInv'
  <1> DEFINE e == Head(batch)
  <1> USE DEF IInv
  <1>0. /\ writer = "write" /\ batch' = Tail(batch)
        /\ writer' = IF batch' = <<>> THEN "wait" ELSE "write"
        /\ UNCHANGED <<happened, inbox, queue, now, cursor, since, seen>>
    BY DEF WriteNext, AfterFailure, clients
  <1>1. /\ inbox \in Seq(Event) /\ queue \in Seq(Event) /\ batch \in Seq(Event) /\ batch # <<>>
    BY <1>0 DEF TypeInv, TypeOK
  <1>2. e \in Event /\ Tail(batch) \in Seq(Event)
    BY <1>1, TailFacts
  <1>3. /\ Buffer(Tail(batch), happened, logged) /\ Ahead(e, Tail(batch))
        /\ e \in happened /\ e.bus
        /\ \A k \in logged : k.bus => k.num < e.num
        /\ Before(Tail(batch), queue) /\ Ahead(e, queue)
        /\ Before(Tail(batch), inbox) /\ Ahead(e, inbox)
    BY <1>1, TailOrder DEF Pipeline
  <1> HIDE DEF e
  <1>4. e \notin logged
    BY <1>2, <1>3, EventFacts
  <1>5. CASE AppendRow(e) /\ UNCHANGED <<lost, failures>>
    <2>1. logged' = logged \cup {e}
      BY <1>5 DEF AppendRow
    <2>2. /\ rows' \subseteq Row /\ lastId' \in 0..MaxEvents /\ logged' \subseteq Event
          /\ logged' \subseteq happened' /\ lastId' = Cardinality(logged') /\ IsFiniteSet(rows')
          /\ Table' /\ Cursors' /\ ReadOnce' /\ NothingSkipped'
      BY <1>0, <1>2, <1>3, <1>4, <1>5, AppendRowFacts DEF Counted, clients
    <2>3. TypeInv'
      BY <1>0, <1>2, <1>5, <2>2 DEF TypeInv, TypeOK
    <2>4. Counted'
      BY <1>0, <2>2 DEF Counted
    <2>5. Pipeline'
      BY <1>0, <1>3, <2>1 DEF Pipeline, Buffer, Unlogged
    <2>6. QED
      BY <2>2, <2>3, <2>4, <2>5
  <1>6. CASE Fails /\ lost' = lost \cup {e} /\ UNCHANGED <<table, logged>>
    <2>1. failures' \in 0..MaxFailures
      BY <1>6, LogAssumption DEF Fails, TypeInv, TypeOK
    <2>2. TypeInv'
      BY <1>0, <1>2, <1>6, <2>1 DEF TypeInv, TypeOK, table
    <2>3. Counted'
      BY <1>0, <1>6 DEF Counted, table
    <2>4. Pipeline'
      BY <1>0, <1>3, <1>6 DEF Pipeline
    <2>5. QED
      BY <1>0, <1>6, <2>2, <2>3, <2>4, TableUntouched DEF clients
  <1>7. QED
    BY <1>5, <1>6 DEF WriteNext, e

LEMMA AppendDirectlyStep == ASSUME IInv, AppendDirectly PROVE IInv'
  <1> DEFINE e == NewEvent(FALSE)
  <1> USE DEF IInv
  <1>0. Happens(e) /\ UNCHANGED <<inbox, queue, writer, batch, now, cursor, since, seen, lost>>
    BY DEF AppendDirectly, subscriber, clients
  <1>1. /\ e \in Event /\ ~e.bus /\ e \notin happened
        /\ IsFiniteSet(happened') /\ Cardinality(happened') <= MaxEvents
        /\ \A k \in happened' : k.num <= Cardinality(happened')
        /\ happened \subseteq happened' /\ e \in happened' /\ happened' \subseteq Event
    BY <1>0, NewEventFacts, FALSE \in BOOLEAN
  <1> HIDE DEF e
  <1>2. e \notin logged /\ logged \subseteq happened
    BY <1>1 DEF Counted
  <1>3. /\ Buffer(inbox, happened', logged) /\ Buffer(queue, happened', logged)
        /\ Buffer(batch, happened', logged)
    BY <1>1, MoreHappened DEF Pipeline
  <1>4. CASE AppendRow(e) /\ UNCHANGED failures
    <2>1. logged' = logged \cup {e}
      BY <1>4 DEF AppendRow
    <2>2. /\ rows' \subseteq Row /\ lastId' \in 0..MaxEvents /\ logged' \subseteq Event
          /\ logged' \subseteq happened' /\ lastId' = Cardinality(logged') /\ IsFiniteSet(rows')
          /\ Table' /\ Cursors' /\ ReadOnce' /\ NothingSkipped'
      BY <1>0, <1>1, <1>2, <1>4, AppendRowFacts DEF clients
    <2>3. TypeInv'
      BY <1>0, <1>1, <1>4, <2>2 DEF TypeInv, TypeOK
    <2>4. Counted'
      BY <1>1, <2>2 DEF Counted
    <2>5. Pipeline'
      BY <1>0, <1>1, <1>3, <2>1 DEF Pipeline, Buffer, Unlogged
    <2>6. QED
      BY <2>2, <2>3, <2>4, <2>5
  <1>5. CASE Fails /\ UNCHANGED <<table, logged>>
    <2>1. failures' \in 0..MaxFailures
      BY <1>5, LogAssumption DEF Fails, TypeInv, TypeOK
    <2>2. TypeInv'
      BY <1>0, <1>1, <1>5, <2>1 DEF TypeInv, TypeOK, table
    <2>3. Counted'
      BY <1>1, <1>2, <1>5 DEF Counted, table
    <2>4. Pipeline'
      BY <1>0, <1>3, <1>5 DEF Pipeline
    <2>5. QED
      BY <1>0, <1>5, <2>2, <2>3, <2>4, TableUntouched DEF clients
  <1>6. QED
    BY <1>4, <1>5 DEF AppendDirectly, e

LEMMA PruneStep == ASSUME IInv, Prune PROVE IInv'
  <1> USE DEF IInv
  <1>0. UNCHANGED <<happened, inbox, queue, writer, batch, lastId, now, cursor, since, seen,
                    logged, lost>>
    BY DEF Prune, subscriber, clients
  <1>1. rows' \subseteq rows /\ failures' \in 0..MaxFailures
    <2>1. rows' \subseteq {r \in rows : r.ts >= now - MaxAge}
      BY DEF Prune
    <2>2. failures' = failures \/ (failures < MaxFailures /\ failures' = failures + 1)
      BY DEF Prune, Fails
    <2>3. failures' \in 0..MaxFailures
      BY <2>2, LogAssumption DEF TypeInv, TypeOK
    <2>4. QED
      BY <2>1, <2>3
  <1>2. TypeInv' /\ Pipeline'
    BY <1>0, <1>1 DEF TypeInv, TypeOK, Pipeline
  <1>3. Counted'
    BY <1>0, <1>1, FS_Subset DEF Counted
  <1>4. Table' /\ Cursors'
    BY <1>0, <1>1 DEF Table, LogInOrder, Cursors
  <1>5. ReadOnce' /\ NothingSkipped'
    BY <1>0, <1>1 DEF ReadOnce, NothingSkipped
  <1>6. QED
    BY <1>2, <1>3, <1>4, <1>5

-----------------------------------------------------------------------------
(* The clients. *)

(* A page has room for a row at least. *)
LEMMA PageSizeType == ASSUME NEW n \in Nat PROVE PageSize(n) \in Nat \ {0}
  <1> DEFINE least == Min({n, PageMax})
  <1>1. least \in Nat
    <2>1. \E x \in {n, PageMax} : \A y \in {n, PageMax} : x <= y
      BY LogAssumption
    <2>2. least \in {n, PageMax}
      BY <2>1 DEF Min
    <2>3. QED
      BY <2>2, LogAssumption
  <1> HIDE DEF least
  <1>2. \E x \in {1, least} : \A y \in {1, least} : x >= y
    BY <1>1
  <1>3. Max({1, least}) \in {1, least} /\ \A y \in {1, least} : Max({1, least}) >= y
    BY <1>2 DEF Max
  <1>4. QED
    BY <1>1, <1>3 DEF PageSize, least

(* A page is closed downwards: with a row it has all that are asked for and   *)
(* come before it.                                                            *)
LEMMA PageFacts ==
    ASSUME IInv, NEW r \in Readers
    PROVE  /\ Page(r) \subseteq After(r) /\ After(r) \subseteq rows
           /\ \A t \in Page(r), u \in After(r) : u.id <= t.id => u \in Page(r)
  <1> DEFINE Below(t) == {u \in After(r) : u.id < t.id}
             size == PageSize(LimitOf[r])
  <1>1. After(r) \subseteq rows /\ IsFiniteSet(After(r)) /\ rows \subseteq Row
    BY FS_Subset DEF After, IInv, Counted, TypeInv, TypeOK
  <1>2. size \in Nat
    BY PageSizeType, LogAssumption
  <1>3. Page(r) = {t \in After(r) : Cardinality(Below(t)) < size}
    BY DEF Page
  <1>4. ASSUME NEW t \in Page(r), NEW u \in After(r), u.id <= t.id
        PROVE  u \in Page(r)
    <2>1. t \in After(r) /\ Cardinality(Below(t)) < size
      BY <1>3
    <2>2. t.id \in Int /\ u.id \in Int /\ \A v \in After(r) : v.id \in Int
      BY <1>1, <2>1, RowFacts
    <2>3. Below(u) \subseteq Below(t) /\ Below(t) \subseteq After(r)
      BY <1>4, <2>2
    <2> HIDE DEF Below, size
    <2>4. IsFiniteSet(Below(t))
      BY <1>1, <2>3, FS_Subset
    <2>5. IsFiniteSet(Below(u)) /\ Cardinality(Below(u)) <= Cardinality(Below(t))
      BY <2>3, <2>4, FS_Subset
    <2>6. Cardinality(Below(u)) \in Nat /\ Cardinality(Below(t)) \in Nat
      BY <2>4, <2>5, FS_CardinalityType
    <2>7. QED
      BY <1>2, <1>3, <2>1, <2>5, <2>6
  <1>5. QED
    BY <1>1, <1>3, <1>4

(* A list of rows: its last one has the greatest id. *)
LEMMA InOrderFacts ==
    ASSUME NEW s \in SUBSET Row, s # {}, IsFiniteSet(s), NEW list \in InOrder(s)
    PROVE  /\ list \in Seq(Row) /\ Len(list) = Cardinality(s) /\ Len(list) \in 1..Len(list)
           /\ \A i \in 1..Len(list) : list[i] \in s
           /\ \A t \in s : \E i \in 1..Len(list) : list[i] = t
           /\ \A i, j \in 1..Len(list) : i < j => list[i].id < list[j].id
           /\ list[Len(list)] \in s
           /\ \A t \in s : t.id <= list[Len(list)].id
  <1>1. Cardinality(s) \in Nat \ {0}
    BY FS_CardinalityType, FS_EmptySet
  <1>2. /\ list \in [1..Cardinality(s) -> s]
        /\ \A t \in s : \E i \in DOMAIN list : list[i] = t
        /\ \A i, j \in DOMAIN list : i < j => list[i].id < list[j].id
    BY DEF InOrder
  <1>3. list \in [1..Cardinality(s) -> Row] /\ DOMAIN list = 1..Cardinality(s)
    BY <1>2
  <1>4. list \in Seq(Row) /\ Len(list) = Cardinality(s)
    BY <1>1, <1>3
  <1>5. Len(list) \in 1..Len(list)
    BY <1>1, <1>4
  <1>6. ASSUME NEW t \in s PROVE t.id <= list[Len(list)].id
    <2>1. PICK i \in 1..Len(list) : list[i] = t
      BY <1>2, <1>3, <1>4
    <2>2. t.id \in Int /\ list[Len(list)].id \in Int
      BY <1>2, <1>4, <1>5, RowFacts
    <2>3. i = Len(list) \/ i < Len(list)
      BY <1>1, <1>4
    <2>4. QED
      BY <1>2, <1>3, <1>4, <1>5, <2>1, <2>2, <2>3
  <1>7. QED
    BY <1>2, <1>3, <1>4, <1>5, <1>6

LEMMA ReadStep == ASSUME IInv, NEW r \in Readers, Read(r) PROVE IInv'
  <1> DEFINE found == {t \in Page(r) : t.event.num \in Wanted[r]}
  <1> USE DEF IInv
  <1>0. UNCHANGED <<happened, inbox, queue, writer, batch, rows, lastId, now, since, logged, lost,
                    failures>>
    BY DEF Read, subscriber, table
  <1>1. /\ Page(r) \subseteq After(r) /\ After(r) \subseteq rows
        /\ \A t \in Page(r), u \in After(r) : u.id <= t.id => u \in Page(r)
    BY PageFacts
  <1>2. rows \subseteq Row /\ IsFiniteSet(rows)
    BY DEF TypeInv, TypeOK, Counted
  <1>3. found \in SUBSET Row /\ found \subseteq After(r) /\ found # {} /\ IsFiniteSet(found)
        /\ found \subseteq rows
    <2>1. found \subseteq rows /\ found # {}
      BY <1>1 DEF Read
    <2>2. QED
      BY <1>1, <1>2, <2>1, FS_Subset
  <1>4. PICK list \in InOrder(found) :
           /\ seen' = [seen EXCEPT ![r] = @ \o list]
           /\ cursor' = [cursor EXCEPT ![r] = list[Len(list)].id]
    BY DEF Read
  <1> DEFINE last == list[Len(list)]
  <1>5. \A t \in found : t \in Page(r) /\ t.event.num \in Wanted[r]
    OBVIOUS
  <1>6. \A t \in Page(r) : t.event.num \in Wanted[r] => t \in found
    OBVIOUS
  <1> HIDE DEF found
  <1>7. /\ list \in Seq(Row) /\ Len(list) \in 1..Len(list)
        /\ \A i \in 1..Len(list) : list[i] \in found
        /\ \A t \in found : \E i \in 1..Len(list) : list[i] = t
        /\ \A i, j \in 1..Len(list) : i < j => list[i].id < list[j].id
        /\ last \in found
        /\ \A t \in found : t.id <= last.id
    BY <1>3, InOrderFacts
  <1> HIDE DEF last
  <1>8. seen \in [Readers -> Seq(Row)] /\ cursor \in [Readers -> 0..MaxEvents] /\ seen[r] \in Seq(Row)
        /\ cursor[r] \in 0..MaxEvents /\ lastId \in 0..MaxEvents
    BY DEF TypeInv, TypeOK
  <1> DEFINE old == seen[r]
             new == seen[r] \o list
  <1>9. /\ new \in Seq(Row) /\ Len(new) = Len(old) + Len(list) /\ new # <<>>
        /\ \A i \in 1..Len(old) : new[i] = old[i]
        /\ \A i \in 1..Len(new) : i \in 1..Len(old) \/ i - Len(old) \in 1..Len(list)
        /\ \A i \in 1..Len(list) : i + Len(old) \in 1..Len(new) /\ new[i + Len(old)] = list[i]
    BY <1>7, <1>8
  <1>10. seen'[r] = new /\ cursor'[r] = last.id
         /\ \A q \in Readers : q # r => seen'[q] = seen[q] /\ cursor'[q] = cursor[q]
    BY <1>4, <1>8 DEF last
  <1>11. last.id \in 1..MaxEvents /\ last.id <= lastId /\ last \in After(r) /\ last \in rows
    BY <1>3, <1>7, RowFacts DEF Table
  <1>12. \A t \in After(r) : t.id > cursor[r]
    <2>1. CASE since[r] # NoTime /\ old = <<>>
      <3>1. cursor[r] = 0
        BY <2>1 DEF Cursors
      <3>2. \A t \in rows : t.id \in 1..MaxEvents
        BY <1>2, RowFacts
      <3>3. QED
        BY <1>1, <3>1, <3>2, LogAssumption
    <2>2. CASE ~(since[r] # NoTime /\ old = <<>>)
      BY <2>2 DEF After
    <2>3. QED
      BY <2>1, <2>2
  <1> HIDE DEF old, new
  <1>13. \A i \in 1..Len(old) : old[i].id \in Int /\ old[i].id <= cursor[r]
    <2>1. \A i \in 1..Len(old) : old[i] \in Row
      BY <1>8 DEF old
    <2>2. QED
      BY <2>1, RowFacts DEF Cursors, old
  <1>14. \A i \in 1..Len(list) : list[i].id \in Int /\ list[i].id > cursor[r] /\ list[i].id <= last.id
    BY <1>3, <1>7, <1>12, RowFacts
  <1>15. TypeInv'
    <2>1. seen' \in [Readers -> Seq(Row)]
      BY <1>4, <1>8, <1>9 DEF new
    <2>2. cursor' \in [Readers -> 0..MaxEvents]
      BY <1>4, <1>8, <1>11, LogAssumption DEF last
    <2>3. \A q \in Readers : \A i \in DOMAIN seen'[q] : seen'[q][i] \in Row
      BY <2>1
    <2>4. QED
      BY <1>0, <2>1, <2>2, <2>3 DEF TypeInv, TypeOK
  <1>16. Counted' /\ Pipeline' /\ Table'
    BY <1>0 DEF Counted, Pipeline, Table, LogInOrder
  <1>17. Cursors'
    <2>1. \A i \in 1..Len(new) : new[i].id <= last.id
      <3>0. Len(old) \in Nat /\ Len(new) \in Nat
        BY <1>8, <1>9 DEF old
      <3>1. ASSUME NEW i \in 1..Len(new) PROVE new[i].id <= last.id
        <4>1. CASE i \in 1..Len(old)
          <5>1. cursor[r] < last.id
            BY <1>11, <1>12
          <5>2. QED
            BY <1>8, <1>9, <1>11, <1>13, <4>1, <5>1
        <4>2. CASE i \notin 1..Len(old)
          <5>1. i - Len(old) \in 1..Len(list) /\ (i - Len(old)) + Len(old) = i
            BY <1>9, <3>0, <4>2
          <5>2. new[i] = list[i - Len(old)]
            BY <1>9, <5>1
          <5>3. QED
            BY <1>14, <5>1, <5>2
        <4>3. QED
          BY <4>1, <4>2
      <3>2. QED
        BY <3>1
    <2>2. QED
      BY <1>0, <1>9, <1>10, <1>11, <2>1 DEF Cursors
  <1>18. ReadOnce'
    <2>1. ASSUME NEW i \in 1..Len(new), NEW j \in 1..Len(new), i < j
          PROVE  new[i].id < new[j].id
      <3>0. \A k \in 1..Len(list) : list[k] = new[k + Len(old)]
        BY <1>9
      <3>1. CASE i \in 1..Len(old) /\ j \in 1..Len(old)
        <4>1. old[i].id < old[j].id
          BY <1>8, <2>1, <3>1 DEF ReadOnce, old
        <4>2. QED
          BY <1>9, <3>1, <4>1
      <3>2. CASE i \in 1..Len(old) /\ j \notin 1..Len(old)
        <4>0. Len(old) \in Nat /\ Len(new) \in Nat
          BY <1>8, <1>9 DEF old
        <4>1. new[i] = old[i] /\ j - Len(old) \in 1..Len(list)
          BY <1>9, <3>2
        <4>2. new[(j - Len(old)) + Len(old)] = list[j - Len(old)] /\ (j - Len(old)) + Len(old) = j
          BY <1>9, <4>0, <4>1
        <4>3. new[j] = list[j - Len(old)]
          BY <4>2
        <4>4. QED
          BY <1>8, <1>13, <1>14, <3>2, <4>1, <4>3
      <3>3. CASE i \notin 1..Len(old)
        <4>1. /\ i - Len(old) \in 1..Len(list) /\ new[i] = list[i - Len(old)]
              /\ j - Len(old) \in 1..Len(list) /\ new[j] = list[j - Len(old)]
              /\ i - Len(old) < j - Len(old)
          <5>0. Len(old) \in Nat /\ Len(new) \in Nat
            BY <1>8, <1>9 DEF old
          <5>1. /\ i - Len(old) \in 1..Len(list) /\ j - Len(old) \in 1..Len(list)
                /\ i - Len(old) < j - Len(old)
            BY <1>9, <2>1, <3>3, <5>0
          <5>2. /\ (i - Len(old)) + Len(old) = i /\ (j - Len(old)) + Len(old) = j
            BY <5>0
          <5>3. QED
            BY <3>0, <5>1, <5>2
        <4>2. QED
          BY <1>7, <4>1
      <3>4. QED
        BY <3>1, <3>2, <3>3
    <2>2. DOMAIN new = 1..Len(new)
      BY <1>9
    <2>3. QED
      BY <1>10, <2>1, <2>2 DEF ReadOnce
  <1>19. NothingSkipped'
    <2>1. ASSUME NEW t \in rows, t.id <= last.id, t.event.num \in Wanted[r], t.ts > since[r]
          PROVE  \E i \in DOMAIN new : new[i] = t
      <3>0. t.id \in Int /\ cursor[r] \in Int
        BY <1>2, <1>8, RowFacts
      <3>1. CASE t.id <= cursor[r]
        <4>1. PICK i \in DOMAIN old : old[i] = t
          BY <2>1, <3>1 DEF NothingSkipped, old
        <4>2. i \in 1..Len(old)
          BY <1>8 DEF old
        <4>3. i \in 1..Len(new) /\ new[i] = t
          BY <1>7, <1>8, <1>9, <4>1, <4>2 DEF old
        <4>4. QED
          BY <1>9, <4>3
      <3>2. CASE t.id > cursor[r]
        <4>1. t \in After(r)
          BY <2>1, <3>2 DEF After
        <4>2. t \in found
          BY <1>1, <1>5, <1>6, <1>7, <2>1, <4>1
        <4>3. PICK i \in 1..Len(list) : list[i] = t
          BY <1>7, <4>2
        <4>4. QED
          BY <1>9, <4>3
      <3>3. QED
        BY <3>0, <3>1, <3>2
    <2>2. QED
      BY <1>0, <1>10, <2>1 DEF NothingSkipped
  <1>20. QED
    BY <1>15, <1>16, <1>17, <1>18, <1>19

LEMMA StartFromStep ==
    ASSUME IInv, NEW r \in Readers, NEW t \in 0..now, StartFrom(r, t) PROVE IInv'
  <1> USE DEF IInv
  <1>0. /\ seen[r] = <<>> /\ since' = [since EXCEPT ![r] = t]
        /\ UNCHANGED <<happened, inbox, queue, writer, batch, rows, lastId, now, cursor, seen,
                       logged, lost, failures>>
    BY DEF StartFrom, subscriber, table
  <1>1. cursor[r] = 0 /\ rows \subseteq Row
    BY <1>0 DEF Cursors, TypeInv, TypeOK
  <1>2. since' \in [Readers -> 0..MaxTime \cup {NoTime}]
    BY <1>0, LogAssumption DEF TypeInv, TypeOK
  <1>3. TypeInv'
    BY <1>0, <1>2 DEF TypeInv, TypeOK
  <1>4. Counted' /\ Pipeline' /\ Table' /\ Cursors' /\ ReadOnce'
    BY <1>0 DEF Counted, Pipeline, Table, LogInOrder, Cursors, ReadOnce
  <1>5. NothingSkipped'
    <2>1. \A u \in rows : ~(u.id <= cursor[r])
      BY <1>1, RowFacts, LogAssumption
    <2>2. \A q \in Readers : q # r => since'[q] = since[q]
      BY <1>0 DEF TypeInv, TypeOK
    <2>3. QED
      BY <1>0, <2>1, <2>2 DEF NothingSkipped
  <1>6. QED
    BY <1>3, <1>4, <1>5

LEMMA RestartStep == ASSUME IInv, Restart PROVE IInv'
  <1> USE DEF IInv
  <1>0. /\ inbox' = <<>> /\ queue' = <<>> /\ batch' = <<>> /\ writer' = "wait"
        /\ UNCHANGED <<happened, rows, lastId, now, cursor, since, seen, logged>>
    BY DEF Restart, table, clients
  <1>1. failures' \in 0..MaxFailures
    BY LogAssumption DEF Restart, Fails, TypeInv, TypeOK
  <1>2. lost' \subseteq Event
    <2>1. \A s \in {inbox, queue, batch} : s \in Seq(Event)
      BY DEF TypeInv, TypeOK
    <2>2. \A s \in {inbox, queue, batch} : \A i \in DOMAIN s : s[i] \in Event
      BY <2>1
    <2>3. lost' = lost \cup UNION {{s[i] : i \in DOMAIN s} : s \in {inbox, queue, batch}}
      BY DEF Restart
    <2>4. QED
      BY <2>2, <2>3 DEF TypeInv, TypeOK
  <1>3. TypeInv'
    BY <1>0, <1>1, <1>2, LogAssumption DEF TypeInv, TypeOK
  <1>4. Counted'
    BY <1>0 DEF Counted
  <1>5. Pipeline'
    BY <1>0 DEF Pipeline, Buffer, Rising, FromBus, Unlogged, Ahead, Before
  <1>6. QED
    BY <1>0, <1>3, <1>4, <1>5, TableUntouched DEF table, clients

LEMMA TickStep == ASSUME IInv, Tick PROVE IInv'
  <1> USE DEF IInv
  <1>0. now' \in 0..MaxTime
        /\ UNCHANGED <<happened, inbox, queue, writer, batch, rows, lastId, cursor, since, seen,
                       logged, lost, failures>>
    BY LogAssumption DEF Tick, subscriber, table, clients, TypeInv, TypeOK
  <1>1. TypeInv' /\ Counted' /\ Pipeline'
    BY <1>0 DEF TypeInv, TypeOK, Counted, Pipeline
  <1>2. QED
    BY <1>0, <1>1, TableUntouched DEF table, clients

LEMMA InvInit == Init => IInv
  <1> SUFFICES ASSUME Init PROVE IInv
    OBVIOUS
  <1> USE LogAssumption DEF Init
  <1>1. TypeInv
    BY DEF TypeInv, TypeOK
  <1>2. Counted
    BY FS_EmptySet DEF Counted
  <1>3. Pipeline
    BY DEF Pipeline, Buffer, Rising, FromBus, Unlogged, Ahead, Before
  <1>4. Table /\ Cursors /\ ReadOnce /\ NothingSkipped
    BY DEF Table, LogInOrder, Cursors, ReadOnce, NothingSkipped
  <1>5. QED
    BY <1>1, <1>2, <1>3, <1>4 DEF IInv

LEMMA InvStep == ASSUME IInv, [Next]_vars PROVE IInv'
  <1>1. CASE UNCHANGED vars
    BY <1>1 DEF vars, IInv, TypeInv, TypeOK, Counted, Pipeline, Table, LogInOrder, Cursors,
                ReadOnce, NothingSkipped
  <1>2. CASE Next
    BY <1>2, PublishStep, DrainStep, ReceiveStep, TakeMoreStep, WriteNextStep,
       AppendDirectlyStep, PruneStep, RestartStep, TickStep, ReadStep, StartFromStep DEF Next
  <1>3. QED
    BY <1>1, <1>2

LEMMA Invariance == Spec => []IInv
  BY InvInit, InvStep, PTL DEF Spec

-----------------------------------------------------------------------------
(* The buffers keep to their capacities, the table never runs out of ids      *)
(* before the events do, and the writer waits exactly while its batch is      *)
(* empty (spawn_subscriber, append_with_key).                                 *)
THEOREM TypeCorrect == Spec => []TypeOK
  <1>1. IInv => TypeOK
    BY DEF IInv, TypeInv
  <1>2. QED
    BY <1>1, Invariance, PTL

(* Whatever is dropped by a full buffer or a full queue, fails or is pruned,  *)
(* and whatever handlers append in between: the log has an event once, and    *)
(* the events of the bus in the order in which they were published.           *)
THEOREM LogKeepsOrder == Spec => []LogInOrder
  <1>1. IInv => LogInOrder
    BY DEF IInv, Table
  <1>2. QED
    BY <1>1, Invariance, PTL

(* For every page size, limit and filter: a client that follows next_since is *)
(* never taken past a row that it asks for and that is still there, whatever  *)
(* is appended and pruned between its pages (replay, query_with_key).         *)
THEOREM NothingIsSkipped == Spec => []NothingSkipped
  <1>1. IInv => NothingSkipped
    BY DEF IInv
  <1>2. QED
    BY <1>1, Invariance, PTL

(* And it is given each row once, in the order of the ids. *)
THEOREM RowsAreReadOnce == Spec => []ReadOnce
  <1>1. IInv => ReadOnce
    BY DEF IInv
  <1>2. QED
    BY <1>1, Invariance, PTL
=============================================================================
