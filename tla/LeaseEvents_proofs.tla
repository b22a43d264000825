-------------------------- MODULE LeaseEvents_proofs --------------------------
(***************************************************************************)
(* Proofs about the engine composed with the event bus and the listener,   *)
(* for any number of requests, cleanup loops, agents and tokens and for    *)
(* any capacity of the bus, with failing statements and restarts.          *)
(***************************************************************************)
EXTENDS LeaseEvents, KeyLending_proofs

(* The bus and what the callers owe: a cleanup loop owes nothing. *)
BusOK ==
    /\ inbox \in Seq(Agents \cup {Other}) /\ Len(inbox) <= Capacity
    /\ lagged \in BOOLEAN /\ listening \in BOOLEAN
    /\ owes \in [Callers -> [op : {"revoke", "renew"}, agent : Agents] \cup {Nothing}]
    /\ \A p \in Callers : owes[p] # Nothing => pc[p] # "write"
    /\ \A p \in Cleaners : owes[p] = Nothing
    /\ owes[Listener] # Nothing => listening
    /\ taskEvents \in 0..MaxTaskEvents
    /\ due \subseteq Tokens

EventsInv == TypeInv /\ BusOK

(* A process that was never restarted finds no row to restore: nothing is     *)
(* written before the restore of the one engine is over.                      *)
FirstProcess ==
    restarts = 0 =>
        /\ \A e \in Engines : snap[e] = {}
        /\ \A e \in Engines : restored[e] # "done" => rows = {}
        /\ \A p \in Callers : pc[p] # "lapse"

(* A revocation is one caller's, and a token that is reported is in no map    *)
(* and in no other revocation of the same process.                            *)
RevocationsDiffer ==
    \A p, q \in Callers : \A w \in todo[p], v \in todo[q] :
        w.kind = "revoke" /\ v.kind = "revoke" /\ v.lease.token = w.lease.token
            => q = p /\ v = w

ReportedIsOut ==
    restarts = 0 =>
        /\ \A e \in Engines : \A l \in leases[e] : l.token \notin revoked
        /\ \A p \in Callers : \A w \in todo[p] : w.kind = "revoke" => w.lease.token \notin revoked

ReportedIsMinted == \A t \in revoked : t < nextToken

ReportInv == FirstProcess /\ RevocationsDiffer /\ ReportedIsOut /\ ReportedIsMinted

(* The end of a task of agent a is not forgotten, or need not be remembered. *)
Tracked(a) ==
    \/ lagged \/ restarts > 0
    \/ \E p \in Callers : owes[p] = Owed("revoke", a)
    \/ \E i \in DOMAIN inbox : inbox[i] = a

(* A listener that is gone has lagged, and what is due was minted. *)
DueInv ==
    /\ listening \/ lagged
    /\ \A t \in due : t < nextToken
    /\ \A l \in leases[Server] : l.token \in due => Tracked(l.agent)

-----------------------------------------------------------------------------
(* The bus. *)

LEMMA OwedFacts ==
    /\ \A op \in {"revoke", "renew"}, a \in Agents :
          /\ Owed(op, a) \in [op : {"revoke", "renew"}, agent : Agents]
          /\ Owed(op, a).op = op /\ Owed(op, a).agent = a
          /\ Owed(op, a) # Nothing
    /\ \A a, b \in Agents : /\ Owed("renew", a) # Owed("revoke", b)
                            /\ Owed("revoke", a) = Owed("revoke", b) => a = b
  <1>1. \A op \in {"revoke", "renew"}, a \in Agents :
          /\ Owed(op, a) \in [op : {"revoke", "renew"}, agent : Agents]
          /\ Owed(op, a).op = op /\ Owed(op, a).agent = a
    BY DEF Owed
  <1>2. Nothing.op = "none"
    BY DEF Nothing
  <1>3. \A op \in {"revoke", "renew"}, a \in Agents : Owed(op, a) # Nothing
    BY <1>1, <1>2
  <1>4. QED
    BY <1>1, <1>3

(* What publishing does to the listener's inbox: it stays within the          *)
(* capacity, and unless the listener lags nothing in it is lost and the new   *)
(* event is in it.                                                            *)
LEMMA PublishFacts ==
    ASSUME BusOK, NEW event \in Agents \cup {Other}, Publish(event)
    PROVE  /\ inbox' \in Seq(Agents \cup {Other}) /\ Len(inbox') <= Capacity
           /\ lagged' \in BOOLEAN /\ listening' = listening
           /\ lagged => lagged'
           /\ listening =>
                 \/ lagged'
                 \/ /\ \A i \in DOMAIN inbox : i \in DOMAIN inbox' /\ inbox'[i] = inbox[i]
                    /\ \E j \in DOMAIN inbox' : inbox'[j] = event
  <1>0. /\ inbox \in Seq(Agents \cup {Other}) /\ Len(inbox) \in Nat /\ Len(inbox) <= Capacity
        /\ Capacity \in Nat \ {0}
    BY EventsAssumption DEF BusOK
  <1>1. lagged' \in BOOLEAN /\ listening' = listening
    BY DEF Publish
  <1>2. lagged => lagged'
    BY DEF Publish
  <1>3. CASE ~listening
    BY <1>0, <1>1, <1>2, <1>3 DEF Publish
  <1>4. CASE listening /\ Len(inbox) = Capacity
    <2>1. inbox' = Append(Tail(inbox), event) /\ lagged'
      BY <1>4 DEF Publish
    <2>2. inbox # <<>>
      BY <1>0, <1>4
    <2>3. Tail(inbox) \in Seq(Agents \cup {Other}) /\ Len(Tail(inbox)) = Len(inbox) - 1
      BY <1>0, <2>2
    <2>4. inbox' \in Seq(Agents \cup {Other}) /\ Len(inbox') = Len(Tail(inbox)) + 1
      BY <2>1, <2>3
    <2>5. Len(inbox') <= Capacity
      BY <1>0, <2>3, <2>4
    <2>6. QED
      BY <1>1, <1>2, <2>1, <2>4, <2>5
  <1>5. CASE listening /\ Len(inbox) # Capacity
    <2>1. inbox' = Append(inbox, event)
      BY <1>5 DEF Publish
    <2>2. /\ inbox' \in Seq(Agents \cup {Other}) /\ Len(inbox') = Len(inbox) + 1
          /\ inbox'[Len(inbox) + 1] = event
          /\ \A i \in 1..Len(inbox) : inbox'[i] = inbox[i]
      BY <1>0, <2>1
    <2>3. Len(inbox') <= Capacity
      BY <1>0, <1>5, <2>2
    <2>4. DOMAIN inbox = 1..Len(inbox) /\ DOMAIN inbox' = 1..(Len(inbox) + 1)
      BY <1>0, <2>2
    <2>5. \A i \in DOMAIN inbox : i \in DOMAIN inbox' /\ inbox'[i] = inbox[i]
      BY <1>0, <2>2, <2>4
    <2>6. \E j \in DOMAIN inbox' : inbox'[j] = event
      BY <1>0, <2>2, <2>4
    <2>7. QED
      BY <1>1, <1>2, <2>2, <2>3, <2>5, <2>6
  <1>6. QED
    BY <1>3, <1>4, <1>5

-----------------------------------------------------------------------------
(* A step of the composition is a step of the engine, or leaves it alone. *)

LEMMA HandleIsEngineStep ==
    ASSUME EventsInv, NEW p \in Callers, Handle(p)
    PROVE  p \notin Cleaners /\ (ClientCall(p) \/ UNCHANGED vars)
  <1>1. PICK a \in Agents :
          \/ owes[p] = Owed("revoke", a) /\ RevokeForAgent(p, a)
          \/ owes[p] = Owed("renew", a) /\ \E ttl \in Ttls : RenewForAgent(p, a, ttl)
          \/ owes[p] # Nothing /\ UNCHANGED vars
    BY DEF Handle
  <1>2. owes[p] # Nothing
    BY <1>1, OwedFacts
  <1>3. p \notin Cleaners
    BY <1>2 DEF EventsInv, BusOK
  <1>4. QED
    BY <1>1, <1>3, RevokeForAgentIsCall, RenewForAgentIsCall DEF EventsInv

LEMMA QuietIsEngineStep == ASSUME EventsInv, Quiet PROVE EngineNext
  <1>1. ASSUME NEW p \in Requests, Call(p) PROVE p \in Callers \ Cleaners /\ ClientCall(p)
    BY <1>1, CallIsCall DEF Requests, EventsInv
  <1>2. QED
    BY <1>1 DEF Quiet, EngineNext

LEMMA AllIsEngineStep == ASSUME EventsInv, [NextAll]_allVars PROVE [EngineNext]_vars
  <1>1. ASSUME NEW a \in Agents, TaskDone(a) PROVE UNCHANGED vars
    BY <1>1 DEF TaskDone
  <1>2. ASSUME NEW p \in Requests, NEW a \in Agents, OnTaskStart(p, a) \/ OnTaskComplete(p, a)
        PROVE  UNCHANGED vars
    BY <1>2 DEF OnTaskStart, OnTaskComplete
  <1>3. Receive => UNCHANGED vars
    BY DEF Receive
  <1>4. ASSUME NEW p \in Callers, Handle(p) PROVE [EngineNext]_vars
    BY <1>4, HandleIsEngineStep DEF EngineNext
  <1>5. ASSUME NEW p \in Callers, NEW w \in todo[p], WriteAndReport(p, w) PROVE EngineNext
    BY <1>5 DEF WriteAndReport, EngineNext
  <1>6. RestartAll => EngineNext
    BY DEF RestartAll, EngineNext
  <1>7. UNCHANGED allVars => UNCHANGED vars
    BY DEF allVars
  <1>8. QED
    BY <1>1, <1>2, <1>3, <1>4, <1>5, <1>6, <1>7, QuietIsEngineStep DEF NextAll

-----------------------------------------------------------------------------
(* Type correctness of the composition. *)

LEMMA EventsInit == InitAll => EventsInv
  <1>1. InitAll => TypeInv
    BY TypeInit DEF InitAll
  <1>2. InitAll => BusOK
    <2> SUFFICES ASSUME InitAll PROVE BusOK
      OBVIOUS
    <2>1. lagged \in BOOLEAN /\ listening \in BOOLEAN
      BY DEF InitAll
    <2>2. inbox \in Seq(Agents \cup {Other}) /\ Len(inbox) <= Capacity
      BY EventsAssumption DEF InitAll
    <2>3. owes \in [Callers -> {Nothing}] /\ \A p \in Callers : owes[p] = Nothing
      BY DEF InitAll
    <2>4. taskEvents \in 0..MaxTaskEvents /\ due \subseteq Tokens
      BY EventsAssumption DEF InitAll
    <2>5. QED
      BY <2>1, <2>2, <2>3, <2>4, LendingAssumption, EventsAssumption DEF BusOK
  <1>3. QED
    BY <1>1, <1>2 DEF EventsInv

(* The tokens of the leases an agent holds. *)
LEMMA DueType ==
    ASSUME TypeInv, NEW a, Due(a), due \subseteq Tokens
    PROVE  due' \subseteq Tokens
  <1>1. Server \in Engines
    BY EngineType, EventsAssumption DEF Server
  <1>2. QED
    BY <1>1 DEF Due, TypeInv, TypeOK, Lease

(* The steps that publish a task event. *)
LEMMA TaskEventFacts ==
    ASSUME BusOK, NEW event \in Agents \cup {Other}, TaskEvent(event)
    PROVE  /\ inbox' \in Seq(Agents \cup {Other}) /\ Len(inbox') <= Capacity
           /\ lagged' \in BOOLEAN /\ listening' = listening
           /\ taskEvents' \in 0..MaxTaskEvents
  <1>1. taskEvents' \in 0..MaxTaskEvents
    BY EventsAssumption DEF TaskEvent, BusOK
  <1>2. QED
    BY <1>1, PublishFacts DEF TaskEvent

(* A caller outside the background tasks takes up a call to make. *)
LEMMA OwesType ==
    ASSUME BusOK, NEW p \in Callers \ Cleaners, pc[p] # "write", pc' = pc,
           NEW o \in [op : {"revoke", "renew"}, agent : Agents] \cup {Nothing},
           owes' = [owes EXCEPT ![p] = o],
           p = Listener /\ o # Nothing => listening, listening' = listening
    PROVE  /\ owes' \in [Callers -> [op : {"revoke", "renew"}, agent : Agents] \cup {Nothing}]
           /\ \A q \in Callers : owes'[q] # Nothing => pc'[q] # "write"
           /\ \A q \in Cleaners : owes'[q] = Nothing
           /\ owes'[Listener] # Nothing => listening'
  BY LendingAssumption, EventsAssumption DEF BusOK

LEMMA TaskDoneBus == ASSUME EventsInv, NEW a \in Agents, TaskDone(a) PROVE BusOK'
  <1>1. due' \subseteq Tokens
    BY DueType DEF TaskDone, EventsInv, BusOK
  <1>2. UNCHANGED <<pc, owes>>
    BY DEF TaskDone, vars
  <1>3. QED
    BY <1>1, <1>2, TaskEventFacts DEF TaskDone, EventsInv, BusOK

LEMMA OnTaskBus ==
    ASSUME EventsInv, NEW p \in Requests, NEW a \in Agents,
           OnTaskStart(p, a) \/ OnTaskComplete(p, a)
    PROVE  BusOK'
  <1>0. p \in Callers \ Cleaners /\ p # Listener
    BY DEF Requests
  <1>1. PICK op \in {"revoke", "renew"} : owes' = [owes EXCEPT ![p] = Owed(op, a)]
    BY DEF OnTaskStart, OnTaskComplete
  <1>2. pc[p] = "idle" /\ pc' = pc
    BY DEF OnTaskStart, OnTaskComplete, vars
  <1>3. PICK event \in Agents \cup {Other} : TaskEvent(event)
    BY DEF OnTaskStart, OnTaskComplete
  <1>4. due' \subseteq Tokens
    BY DueType DEF OnTaskStart, OnTaskComplete, EventsInv, BusOK
  <1>5. /\ inbox' \in Seq(Agents \cup {Other}) /\ Len(inbox') <= Capacity
        /\ lagged' \in BOOLEAN /\ listening' = listening
        /\ taskEvents' \in 0..MaxTaskEvents
    BY <1>3, TaskEventFacts DEF EventsInv
  <1>6. Owed(op, a) \in [op : {"revoke", "renew"}, agent : Agents] \cup {Nothing}
    BY OwedFacts
  <1>7. /\ owes' \in [Callers -> [op : {"revoke", "renew"}, agent : Agents] \cup {Nothing}]
        /\ \A q \in Callers : owes'[q] # Nothing => pc'[q] # "write"
        /\ \A q \in Cleaners : owes'[q] = Nothing
        /\ owes'[Listener] # Nothing => listening'
    <2> DEFINE o == Owed(op, a)
    <2>1. o \in [op : {"revoke", "renew"}, agent : Agents] \cup {Nothing}
          /\ owes' = [owes EXCEPT ![p] = o]
      BY <1>1, <1>6
    <2> HIDE DEF o
    <2>2. QED
      BY <1>0, <1>2, <1>5, <2>1, OwesType DEF EventsInv
  <1>8. listening' \in BOOLEAN
    BY <1>5 DEF EventsInv, BusOK
  <1>9. QED
    BY <1>4, <1>5, <1>7, <1>8 DEF BusOK

LEMMA ReceiveBus == ASSUME EventsInv, Receive PROVE BusOK'
  <1>0. /\ Listener \in Callers \ Cleaners /\ listening /\ pc[Listener] = "idle"
        /\ owes[Listener] = Nothing /\ pc' = pc
        /\ UNCHANGED <<lagged, taskEvents, due>>
    BY EventsAssumption DEF Receive, vars
  <1>1. CASE lagged /\ listening' = FALSE /\ inbox' = <<>> /\ UNCHANGED owes
    <2>1. listening' \in BOOLEAN /\ lagged' \in BOOLEAN
      BY <1>0, <1>1 DEF EventsInv, BusOK
    <2>2. inbox' \in Seq(Agents \cup {Other}) /\ Len(inbox') <= Capacity
      BY <1>1, EventsAssumption
    <2>3. QED
      BY <1>0, <1>1, <2>1, <2>2 DEF EventsInv, BusOK
  <1>2. CASE /\ inbox # <<>>
             /\ owes' = [owes EXCEPT ![Listener] =
                            IF Head(inbox) = Other THEN Nothing ELSE Owed("revoke", Head(inbox))]
             /\ inbox' = Tail(inbox)
             /\ UNCHANGED listening
    <2> DEFINE o == IF Head(inbox) = Other THEN Nothing ELSE Owed("revoke", Head(inbox))
    <2>1. Head(inbox) \in Agents \cup {Other}
      BY <1>2 DEF EventsInv, BusOK
    <2>2. o \in [op : {"revoke", "renew"}, agent : Agents] \cup {Nothing}
      BY <2>1, OwedFacts
    <2>3. owes' = [owes EXCEPT ![Listener] = o]
      BY <1>2
    <2> HIDE DEF o
    <2>4. /\ owes' \in [Callers -> [op : {"revoke", "renew"}, agent : Agents] \cup {Nothing}]
          /\ \A q \in Callers : owes'[q] # Nothing => pc'[q] # "write"
          /\ \A q \in Cleaners : owes'[q] = Nothing
          /\ owes'[Listener] # Nothing => listening'
      BY <1>0, <1>2, <2>2, <2>3, OwesType DEF EventsInv
    <2>5. inbox' \in Seq(Agents \cup {Other}) /\ Len(inbox') <= Capacity
      <3>1. inbox' \in Seq(Agents \cup {Other}) /\ Len(inbox') = Len(inbox) - 1
            /\ Len(inbox) \in Nat
        BY <1>2 DEF EventsInv, BusOK
      <3>2. QED
        BY <3>1, EventsAssumption DEF EventsInv, BusOK
    <2>6. QED
      BY <1>0, <1>2, <2>4, <2>5 DEF EventsInv, BusOK
  <1>3. QED
    BY <1>1, <1>2 DEF Receive

LEMMA HandleBus == ASSUME EventsInv, NEW p \in Callers, Handle(p) PROVE BusOK'
  <1>1. /\ owes' = [owes EXCEPT ![p] = Nothing]
        /\ UNCHANGED <<inbox, lagged, listening, taskEvents, due>>
    BY DEF Handle
  <1>2. \A q \in Callers : q # p => pc'[q] = pc[q]
    <2>1. ClientCall(p) => pc' = [pc EXCEPT ![p] = "write"]
      BY DEF ClientCall, Lend, Remove, Extend, Hold
    <2>2. QED
      BY <2>1, HandleIsEngineStep DEF vars, EventsInv, TypeInv, TypeOK
  <1>3. QED
    BY <1>1, <1>2, LendingAssumption, EventsAssumption DEF EventsInv, BusOK

LEMMA WriteAndReportBus ==
    ASSUME EventsInv, NEW p \in Callers, NEW w \in todo[p], WriteAndReport(p, w)
    PROVE  BusOK'
  <1>1. UNCHANGED <<owes, taskEvents, due>>
    BY DEF WriteAndReport
  <1>2. \A q \in Callers : pc'[q] = "write" => pc[q] = "write"
    BY DEF WriteAndReport, WriteRow, EventsInv, TypeInv, TypeOK
  <1>3. /\ inbox' \in Seq(Agents \cup {Other}) /\ Len(inbox') <= Capacity
        /\ lagged' \in BOOLEAN /\ listening' = listening
    <2>1. CASE Publish(Other)
      BY <2>1, PublishFacts DEF EventsInv
    <2>2. CASE UNCHANGED <<inbox, lagged, listening>>
      BY <2>2 DEF EventsInv, BusOK
    <2>3. QED
      BY <2>1, <2>2 DEF WriteAndReport
  <1>4. listening' \in BOOLEAN
    BY <1>3 DEF EventsInv, BusOK
  <1>5. QED
    BY <1>1, <1>2, <1>3, <1>4 DEF EventsInv, BusOK

LEMMA QuietBus == ASSUME EventsInv, Quiet PROVE BusOK'
  <1>1. UNCHANGED busVars
    BY DEF Quiet
  <1>2. \A q \in Callers : pc'[q] = "write" => pc[q] = "write" \/ owes[q] = Nothing
    <2>1. ASSUME NEW p \in Callers, BeginRestore(p) \/ RestoreInstall(p)
          PROVE  \A q \in Callers : pc'[q] = "write" => pc[q] = "write"
      BY <2>1 DEF BeginRestore, RestoreInstall, EventsInv, TypeInv, TypeOK
    <2>2. ASSUME NEW p \in Requests, Call(p)
          PROVE  \A q \in Callers : q # p => pc'[q] = pc[q]
      <3>1. p \in Callers /\ ClientCall(p)
        BY <2>2, CallIsCall DEF Requests, EventsInv
      <3>2. pc' = [pc EXCEPT ![p] = "write"]
        BY <3>1 DEF ClientCall, Lend, Remove, Extend, Hold
      <3>3. QED
        BY <3>1, <3>2 DEF EventsInv, TypeInv, TypeOK
    <2>3. ASSUME NEW p \in Cleaners, CleanupExpired(p)
          PROVE  \A q \in Callers : q # p => pc'[q] = pc[q]
      BY <2>3 DEF CleanupExpired, Remove, Hold, EventsInv, TypeInv, TypeOK
    <2>4. Tick => pc' = pc
      BY DEF Tick
    <2>5. \A p \in Cleaners : owes[p] = Nothing
      BY DEF EventsInv, BusOK
    <2>6. QED
      BY <2>1, <2>2, <2>3, <2>4, <2>5 DEF Quiet
  <1>3. QED
    BY <1>1, <1>2 DEF busVars, EventsInv, BusOK

LEMMA RestartAllBus == ASSUME EventsInv, RestartAll PROVE BusOK'
  <1>1. lagged' \in BOOLEAN /\ listening' \in BOOLEAN
    BY DEF RestartAll
  <1>2. inbox' \in Seq(Agents \cup {Other}) /\ Len(inbox') <= Capacity
    BY EventsAssumption DEF RestartAll
  <1>3. owes' \in [Callers -> {Nothing}] /\ \A p \in Callers : owes'[p] = Nothing
    BY DEF RestartAll
  <1>4. UNCHANGED <<taskEvents, due>>
    BY DEF RestartAll
  <1>5. QED
    BY <1>1, <1>2, <1>3, <1>4, LendingAssumption, EventsAssumption DEF EventsInv, BusOK

LEMMA EventsStep == ASSUME EventsInv, [NextAll]_allVars PROVE EventsInv'
  <1>1. TypeInv'
    BY AllIsEngineStep, EngineType1 DEF EventsInv
  <1>2. CASE UNCHANGED allVars
    <2>1. UNCHANGED <<pc, inbox, lagged, listening, owes, taskEvents, due>>
      BY <1>2 DEF allVars, vars, busVars
    <2>2. QED
      BY <1>1, <2>1 DEF EventsInv, BusOK
  <1>3. NextAll => BusOK'
    BY TaskDoneBus, OnTaskBus, ReceiveBus, HandleBus, WriteAndReportBus, QuietBus, RestartAllBus
       DEF NextAll
  <1>4. QED
    BY <1>1, <1>2, <1>3 DEF EventsInv, allVars

(* The inbox never holds more than the channel's capacity, and a caller that  *)
(* owes the engine a call is in no other call, for every capacity, number of  *)
(* callers and order of their steps; the listener owes one only while its     *)
(* loop runs (events.rs, cli/server.rs).                                   *)
THEOREM EventsTypeCorrect == SpecAll => []EventsTypeOK
  <1>1. EventsInv => EventsTypeOK
    BY DEF EventsInv, TypeInv, BusOK, EventsTypeOK
  <1>2. QED
    BY <1>1, EventsInit, EventsStep, PTL DEF SpecAll

-----------------------------------------------------------------------------
(* A revocation is reported once. *)

(* What the step under the write lock leaves alone. *)
LEMMA ClientCallHolds ==
    ASSUME TypeInv, NEW p \in Callers, ClientCall(p) \/ CleanupExpired(p)
    PROVE  /\ Ready(p) /\ pc' = [pc EXCEPT ![p] = "write"]
           /\ UNCHANGED <<restored, snap, rows, revoked, failed, restarts>>
  BY DEF ClientCall, CleanupExpired, Lend, Remove, Extend, Hold

LEMMA FirstStep ==
    ASSUME TypeInv, DeadInv, OneEngineOnly, FirstProcess, [EngineNext]_vars
    PROVE  FirstProcess'
  <1> USE EngineType
  <1>1. ASSUME NEW p \in Callers, BeginRestore(p) PROVE FirstProcess'
    <2>1. SUFFICES ASSUME restarts = 0
                   PROVE  /\ \A e \in Engines : snap'[e] = {}
                          /\ \A e \in Engines : restored'[e] # "done" => rows' = {}
                          /\ \A q \in Callers : pc'[q] # "lapse"
      BY <1>1 DEF BeginRestore, FirstProcess
    <2>2. rows = {} /\ rows' = rows /\ \A e \in Engines : snap[e] = {}
      BY <1>1, <2>1 DEF BeginRestore, FirstProcess
    <2>3. ActiveLeases = {}
      BY <2>2 DEF ActiveLeases
    <2>4. QED
      BY <1>1, <2>1, <2>2, <2>3 DEF BeginRestore, FirstProcess, TypeInv, TypeOK
  <1>2. ASSUME NEW p \in Callers, RestoreInstall(p) PROVE FirstProcess'
    <2>1. SUFFICES ASSUME restarts = 0
                   PROVE  /\ \A e \in Engines : snap'[e] = {}
                          /\ \A e \in Engines : restored'[e] # "done" => rows' = {}
                          /\ \A q \in Callers : pc'[q] # "lapse"
      BY <1>2 DEF RestoreInstall, FirstProcess
    <2>2. /\ snap[EngineOf[p]] = {} /\ \A q \in Callers : pc[q] # "lapse"
          /\ \A e \in Engines : snap[e] = {} /\ e = EngineOf[p]
      BY <2>1 DEF FirstProcess, OneEngineOnly
    <2>3. /\ pc' = [pc EXCEPT ![p] = "idle"]
          /\ snap' = [snap EXCEPT ![EngineOf[p]] = {}]
          /\ restored' = [restored EXCEPT ![EngineOf[p]] = "done"]
      BY <1>2, <2>2 DEF RestoreInstall, RestoredOnInstall
    <2>4. QED
      BY <2>2, <2>3 DEF TypeInv, TypeOK
  <1>3. ASSUME NEW p \in Callers, NEW w \in todo[p], WriteRow(p, w) PROVE FirstProcess'
    <2>1. SUFFICES ASSUME restarts = 0
                   PROVE  /\ \A e \in Engines : snap'[e] = {}
                          /\ \A e \in Engines : restored'[e] # "done" => rows' = {}
                          /\ \A q \in Callers : pc'[q] # "lapse"
      BY <1>3 DEF WriteRow, FirstProcess
    <2>2. pc[p] = "write"
      BY <2>1 DEF FirstProcess, TypeInv, TypeOK
    <2>3. \A e \in Engines : restored[e] = "done"
      BY <2>2 DEF OneEngineOnly, TypeInv, Gated
    <2>4. /\ snap' = snap /\ \A e \in Engines : restored'[e] = "done"
          /\ \A q \in Callers : pc'[q] = "lapse" => pc[q] = "lapse"
      BY <1>3, <2>3 DEF WriteRow, TypeInv, TypeOK
    <2>5. QED
      BY <2>1, <2>4 DEF FirstProcess
  <1>4. ASSUME NEW p \in Callers, ClientCall(p) \/ CleanupExpired(p) PROVE FirstProcess'
    BY <1>4, ClientCallHolds DEF FirstProcess, TypeInv, TypeOK
  <1>5. CASE Restart
    BY <1>5 DEF Restart, FirstProcess, TypeInv, TypeOK
  <1>6. CASE Tick \/ UNCHANGED vars
    BY <1>6 DEF Tick, vars, FirstProcess
  <1>7. QED
    BY <1>1, <1>2, <1>3, <1>4, <1>5, <1>6, LendingAssumption DEF EngineNext

(* The step under the write lock reports nothing and revokes held leases. *)
LEMMA HoldReport ==
    ASSUME TypeInv, DeadInv, ReportInv, OneEngineOnly, NEW p \in Callers, NEW ls, NEW kind, NEW new,
           Ready(p), Hold(p, ls, Writes(kind, new)),
           UNCHANGED <<revoked, restarts>>,
           nextToken' \in {nextToken, nextToken + 1},
           \A l \in ls : (\E k \in Held(p) : k.token = l.token) \/ l.token = nextToken,
           kind = "revoke" => new \subseteq Held(p)
    PROVE  RevocationsDiffer' /\ ReportedIsOut' /\ ReportedIsMinted'
  <1>0. \A t \in revoked : t \in Nat /\ t < nextToken /\ nextToken \in Nat
    BY DEF ReportInv, ReportedIsMinted, TypeInv, TypeOK, Tokens
  <1>1. \A w \in Writes(kind, new) : /\ w.kind = kind /\ w.lease \in new
                                     /\ w = [kind |-> kind, lease |-> w.lease]
    BY WritesAre
  <1>2. /\ \A e \in Engines : leases'[e] = ls /\ leases[e] = Held(p)
        /\ todo'[p] = Writes(kind, new)
        /\ \A q \in Callers : q # p => todo'[q] = todo[q]
    <2> DEFINE ws == Writes(kind, new)
    <2>1. Hold(p, ls, ws)
      OBVIOUS
    <2> HIDE DEF ws
    <2>2. /\ \A e \in Engines : leases'[e] = ls /\ leases[e] = Held(p)
          /\ todo'[p] = ws
          /\ \A q \in Callers : q # p => todo'[q] = todo[q]
      BY <2>1, HoldFacts
    <2>3. QED
      BY <2>2 DEF ws
  <1>3. RevocationsDiffer'
    <2>1. ASSUME NEW q \in Callers, NEW w \in todo[q], w.kind = "revoke", NEW l \in Held(p)
          PROVE  l.token # w.lease.token
      BY <2>1, EngineType DEF DeadInv, MarkedIsOut, Held
    <2>2. OnePerToken(Held(p))
      BY EngineType DEF DeadInv, Keyed, Held
    <2>3. ASSUME NEW w \in todo'[p], NEW v \in todo'[p], w.kind = "revoke",
                 v.lease.token = w.lease.token
          PROVE  v = w
      <3>1. kind = "revoke" /\ w.lease \in Held(p) /\ v.lease \in Held(p)
        BY <1>1, <1>2, <2>3
      <3>2. v.lease = w.lease
        BY <2>2, <2>3, <3>1 DEF OnePerToken
      <3>3. w = [kind |-> kind, lease |-> w.lease] /\ v = [kind |-> kind, lease |-> v.lease]
        BY <1>1, <1>2
      <3>4. QED
        BY <3>2, <3>3
    <2>4. ASSUME NEW q \in Callers, q # p, NEW v \in todo'[q], NEW w \in todo'[p],
                 v.kind = "revoke", w.kind = "revoke"
          PROVE  v.lease.token # w.lease.token
      <3>1. v \in todo[q] /\ w.lease \in Held(p)
        BY <1>1, <1>2, <2>4
      <3>2. QED
        BY <2>1, <2>4, <3>1
    <2>5. QED
      BY <1>2, <2>3, <2>4 DEF ReportInv, RevocationsDiffer
  <1>4. ReportedIsOut'
    <2>1. SUFFICES ASSUME restarts = 0
                   PROVE  /\ \A e \in Engines : \A l \in leases'[e] : l.token \notin revoked
                          /\ \A q \in Callers : \A w \in todo'[q] :
                                w.kind = "revoke" => w.lease.token \notin revoked
      BY DEF ReportedIsOut
    <2>2. /\ \A k \in Held(p) : k.token \notin revoked
          /\ \A q \in Callers : \A w \in todo[q] : w.kind = "revoke" => w.lease.token \notin revoked
      BY <2>1, EngineType DEF ReportInv, ReportedIsOut, Held
    <2>3. nextToken \notin revoked
      BY <1>0
    <2>4. \A l \in ls : l.token \notin revoked
      BY <2>2, <2>3
    <2>5. QED
      BY <1>1, <1>2, <2>2, <2>4
  <1>5. ReportedIsMinted'
    BY <1>0 DEF ReportedIsMinted
  <1>6. QED
    BY <1>3, <1>4, <1>5

LEMMA WriteRowReport ==
    ASSUME TypeInv, DeadInv, ReportInv, NEW p \in Callers, NEW w \in todo[p], WriteRow(p, w)
    PROVE  RevocationsDiffer' /\ ReportedIsOut' /\ ReportedIsMinted'
  <1>0. /\ UNCHANGED <<leases, nextToken, restarts>>
        /\ \A q \in Callers : todo'[q] \subseteq todo[q]
        /\ w \notin todo'[p]
        /\ revoked' = IF w.kind = "revoke" THEN revoked \cup {w.lease.token} ELSE revoked
    BY DEF TypeInv, TypeOK, WriteRow
  <1>1. RevocationsDiffer'
    BY <1>0 DEF ReportInv, RevocationsDiffer
  <1>2. ReportedIsMinted'
    BY <1>0 DEF ReportInv, ReportedIsMinted, DeadInv, Minted
  <1>3. ReportedIsOut'
    <2>1. SUFFICES ASSUME restarts = 0
                   PROVE  /\ \A e \in Engines : \A l \in leases[e] : l.token \notin revoked'
                          /\ \A q \in Callers : \A v \in todo'[q] :
                                v.kind = "revoke" => v.lease.token \notin revoked'
      BY <1>0 DEF ReportedIsOut
    <2>2. /\ \A e \in Engines : \A l \in leases[e] : l.token \notin revoked
          /\ \A q \in Callers : \A v \in todo[q] : v.kind = "revoke" => v.lease.token \notin revoked
      BY <2>1 DEF ReportInv, ReportedIsOut
    <2>3. CASE w.kind = "revoke"
      <3>1. \A e \in Engines : \A l \in leases[e] : l.token # w.lease.token
        BY <2>3 DEF DeadInv, MarkedIsOut
      <3>2. \A q \in Callers : \A v \in todo'[q] :
               v.kind = "revoke" => v.lease.token # w.lease.token
        BY <1>0, <2>3 DEF ReportInv, RevocationsDiffer
      <3>3. QED
        BY <1>0, <2>2, <2>3, <3>1, <3>2
    <2>4. CASE w.kind # "revoke"
      BY <1>0, <2>2, <2>4
    <2>5. QED
      BY <2>3, <2>4
  <1>4. QED
    BY <1>1, <1>2, <1>3

LEMMA RestoreReport ==
    ASSUME TypeInv, DeadInv, ReportInv, OneEngineOnly, NEW p \in Callers,
           BeginRestore(p) \/ RestoreInstall(p)
    PROVE  RevocationsDiffer' /\ ReportedIsOut' /\ ReportedIsMinted'
  <1>0. UNCHANGED <<revoked, nextToken, restarts>>
    BY DEF BeginRestore, RestoreInstall
  <1>1. CASE BeginRestore(p)
    <2>1. UNCHANGED <<leases, todo>>
      BY <1>1 DEF BeginRestore
    <2>2. QED
      BY <1>0, <2>1 DEF ReportInv, RevocationsDiffer, ReportedIsOut, ReportedIsMinted
  <1>2. CASE RestoreInstall(p)
    <2> DEFINE e == EngineOf[p]
    <2>1. \A q \in Callers : \A w \in todo'[q] : w.kind = "lapse"
      <3>1. \A w \in Writes("lapse", snap[e] \ {l \in snap[e] : l.expires > now}) : w.kind = "lapse"
        BY DEF Writes
      <3>2. \A q \in Callers : todo[q] = {}
        BY <1>2, InstallAlone DEF RestoreInstall
      <3>3. QED
        BY <1>2, <3>1, <3>2 DEF RestoreInstall, TypeInv, TypeOK
    <2>2. \A f \in Engines : leases'[f] \subseteq leases[f] \cup snap[f]
      BY <1>2, EngineType DEF RestoreInstall, TypeInv, TypeOK
    <2>3. ReportedIsOut'
      BY <1>0, <2>1, <2>2 DEF ReportInv, ReportedIsOut, FirstProcess
    <2>4. QED
      BY <1>0, <2>1, <2>3 DEF ReportInv, RevocationsDiffer, ReportedIsMinted
  <1>3. QED
    BY <1>1, <1>2

LEMMA ReportStep ==
    ASSUME TypeInv, DeadInv, ReportInv, OneEngineOnly, [EngineNext]_vars PROVE ReportInv'
  <1> DEFINE Goal == RevocationsDiffer' /\ ReportedIsOut' /\ ReportedIsMinted'
  <1>0. FirstProcess'
    BY FirstStep DEF ReportInv
  <1>1. ASSUME NEW p \in Callers, NEW kind \in {"revoke", "lapse"}, NEW ls \in SUBSET Held(p),
               Remove(p, kind, ls)
        PROVE  Goal
    <2>1. \A l \in Held(p) \ ls : \E k \in Held(p) : k.token = l.token
      OBVIOUS
    <2>2. QED
      BY <1>1, <2>1, HoldReport DEF Remove
  <1>2. ASSUME NEW p \in Callers, NEW ls \in SUBSET Held(p), NEW new \in SUBSET Lease,
               Prolongs(ls, new), Extend(p, ls, new)
        PROVE  Goal
    <2>1. \A l \in (Held(p) \ ls) \cup new : \E k \in Held(p) : k.token = l.token
      BY <1>2 DEF Prolongs
    <2>2. QED
      BY <1>2, <2>1, HoldReport DEF Extend
  <1>3. ASSUME NEW p \in Callers, NEW a \in Agents, NEW ttl \in Ttls, Lend(p, a, ttl)
        PROVE  Goal
    <2> DEFINE l == [token |-> nextToken, agent |-> a, expires |-> now + ttl]
    <2>1. /\ Ready(p) /\ Hold(p, Held(p) \cup {l}, Writes("insert", {l}))
          /\ UNCHANGED <<revoked, restarts>>
          /\ nextToken' = nextToken + 1
      BY <1>3 DEF Lend
    <2>2. l.token = nextToken
      OBVIOUS
    <2> HIDE DEF l
    <2>3. \A m \in Held(p) \cup {l} : (\E k \in Held(p) : k.token = m.token) \/ m.token = nextToken
      BY <2>2
    <2>4. QED
      BY <2>1, <2>3, HoldReport
  <1>4. ASSUME NEW p \in Callers, ClientCall(p) PROVE Goal
    BY <1>1, <1>2, <1>3, <1>4 DEF ClientCall
  <1>5. ASSUME NEW p \in Cleaners, CleanupExpired(p) PROVE Goal
    <2>1. p \in Callers /\ {l \in Held(p) : IsExpired(l)} \in SUBSET Held(p)
      BY LendingAssumption
    <2>2. QED
      BY <1>1, <1>5, <2>1 DEF CleanupExpired
  <1>6. ASSUME Tick \/ UNCHANGED vars PROVE Goal
    BY <1>6 DEF Tick, vars, ReportInv, RevocationsDiffer, ReportedIsOut, ReportedIsMinted
  <1>7. ASSUME Restart PROVE Goal
    BY <1>7 DEF Restart, ReportInv, RevocationsDiffer, ReportedIsOut, ReportedIsMinted,
                TypeInv, TypeOK
  <1>8. Goal
    BY <1>4, <1>5, <1>6, <1>7, WriteRowReport, RestoreReport DEF EngineNext
  <1>9. QED
    BY <1>0, <1>8 DEF ReportInv

LEMMA AllInit == InitAll => EventsInv /\ DeadInv /\ LiveInv /\ ReportInv
  <1>1. Init => ReportInv
    BY DEF Init, ReportInv, FirstProcess, RevocationsDiffer, ReportedIsOut, ReportedIsMinted
  <1>2. QED
    BY <1>1, EventsInit, DeadInit, LiveInit DEF InitAll

LEMMA AllStep ==
    ASSUME OneEngineOnly, EventsInv, DeadInv, LiveInv, ReportInv, [NextAll]_allVars
    PROVE  (EventsInv /\ DeadInv /\ LiveInv /\ ReportInv)'
  <1>1. TypeInv /\ [EngineNext]_vars
    BY AllIsEngineStep DEF EventsInv
  <1>2. EventsInv'
    BY EventsStep
  <1>3. DeadInv' /\ LiveInv' /\ ReportInv'
    BY <1>1, EngineDead1, LiveStep, ReportStep
  <1>4. QED
    BY <1>2, <1>3

(* With one engine over the rows: however many requests, cleanup loops and    *)
(* events of the listener end a lease at the same time, its revocation is     *)
(* written by one of them, and within a process it is reported once           *)
(* (revoke, revoke_for_agent, the listener of cli/server.rs).                 *)
THEOREM RevocationReportedOnce ==
    ASSUME OneEngineOnly
    PROVE  SpecAll => []ReportedOnce
  <1>1. ReportInv => ReportedOnce
    BY DEF ReportInv, RevocationsDiffer, ReportedIsOut, ReportedOnce
  <1>2. EventsInv /\ DeadInv /\ LiveInv /\ ReportInv /\ [NextAll]_allVars
            => (EventsInv /\ DeadInv /\ LiveInv /\ ReportInv)'
    BY AllStep
  <1>3. QED
    BY <1>1, <1>2, AllInit, PTL DEF SpecAll

(* The listener and the task events change nothing about it: a lease whose    *)
(* lend has returned is stored for its agent as long as no statement fails,   *)
(* also while the listener revokes and renews for agents (secrets.rs).        *)
THEOREM LentIsStoredWithEvents ==
    ASSUME OneEngineOnly
    PROVE  SpecAll => []LiveIsStored
  <1>1. LiveInv => LiveIsStored
    BY DEF LiveInv
  <1>2. EventsInv /\ DeadInv /\ LiveInv /\ ReportInv /\ [NextAll]_allVars
            => (EventsInv /\ DeadInv /\ LiveInv /\ ReportInv)'
    BY AllStep
  <1>3. QED
    BY <1>1, <1>2, AllInit, PTL DEF SpecAll

-----------------------------------------------------------------------------
(* The end of a task is not forgotten. *)

LEMMA ServerFacts ==
    ASSUME OneEngineOnly
    PROVE  /\ Server \in Engines /\ Listener \in Callers
           /\ \A e \in Engines : e = Server
           /\ \A p \in Callers : EngineOf[p] = Server
  BY EngineType, EventsAssumption DEF Server, OneEngineOnly

(* In a process that was never restarted, a lease the engine holds after a    *)
(* step has the token and the agent of one it held before, or a new token.    *)
LEMMA LeasesAfter ==
    ASSUME TypeInv, DeadInv, FirstProcess, OneEngineOnly, [EngineNext]_vars, restarts' = 0
    PROVE  /\ \A e \in Engines : \A l \in leases'[e] :
                 \/ \E k \in leases[e] : k.token = l.token /\ k.agent = l.agent
                 \/ l.token = nextToken
           /\ nextToken' \in {nextToken, nextToken + 1}
  <1> DEFINE Kept == \A e \in Engines : \A l \in leases'[e] :
                        \/ \E k \in leases[e] : k.token = l.token /\ k.agent = l.agent
                        \/ l.token = nextToken
             Goal == Kept /\ nextToken' \in {nextToken, nextToken + 1}
  <1>1. ASSUME NEW p \in Callers, NEW ls, NEW ws, Ready(p), Hold(p, ls, ws),
               \A l \in ls : \/ \E k \in Held(p) : k.token = l.token /\ k.agent = l.agent
                             \/ l.token = nextToken
        PROVE  Kept
    BY <1>1, HoldFacts
  <1> HIDE DEF Kept
  <1>2. ASSUME NEW p \in Callers, NEW kind, NEW ls \in SUBSET Held(p), Remove(p, kind, ls)
        PROVE  Goal
    <2>1. \A l \in Held(p) \ ls : \E k \in Held(p) : k.token = l.token /\ k.agent = l.agent
      OBVIOUS
    <2>2. QED
      BY <1>1, <1>2, <2>1 DEF Remove
  <1>3. ASSUME NEW p \in Callers, NEW ls \in SUBSET Held(p), NEW new \in SUBSET Lease,
               Prolongs(ls, new), Extend(p, ls, new)
        PROVE  Goal
    <2>1. \A l \in (Held(p) \ ls) \cup new :
            \E k \in Held(p) : k.token = l.token /\ k.agent = l.agent
      BY <1>3 DEF Prolongs
    <2>2. QED
      BY <1>1, <1>3, <2>1 DEF Extend
  <1>4. ASSUME NEW p \in Callers, NEW a \in Agents, NEW ttl \in Ttls, Lend(p, a, ttl)
        PROVE  Goal
    <2> DEFINE l == [token |-> nextToken, agent |-> a, expires |-> now + ttl]
    <2>1. /\ Ready(p) /\ Hold(p, Held(p) \cup {l}, Writes("insert", {l}))
          /\ nextToken' = nextToken + 1
      BY <1>4 DEF Lend
    <2>2. l.token = nextToken
      OBVIOUS
    <2> HIDE DEF l
    <2>3. \A m \in Held(p) \cup {l} :
            \/ \E k \in Held(p) : k.token = m.token /\ k.agent = m.agent
            \/ m.token = nextToken
      BY <2>2
    <2>4. QED
      BY <1>1, <2>1, <2>3
  <1>5. ASSUME NEW p \in Callers, ClientCall(p) PROVE Goal
    BY <1>2, <1>3, <1>4, <1>5 DEF ClientCall
  <1>6. ASSUME NEW p \in Cleaners, CleanupExpired(p) PROVE Goal
    <2>1. p \in Callers /\ {l \in Held(p) : IsExpired(l)} \in SUBSET Held(p)
      BY LendingAssumption
    <2>2. QED
      BY <1>2, <1>6, <2>1 DEF CleanupExpired
  <1>7. ASSUME NEW p \in Callers, RestoreInstall(p) PROVE Goal
    <2>1. \A e \in Engines : leases'[e] \subseteq leases[e] \cup snap[e]
      BY <1>7, EngineType DEF RestoreInstall, TypeInv, TypeOK
    <2>2. \A e \in Engines : snap[e] = {}
      BY <1>7 DEF RestoreInstall, FirstProcess
    <2>3. QED
      BY <1>7, <2>1, <2>2 DEF RestoreInstall, Kept
  <1>8. ASSUME UNCHANGED <<leases, nextToken>> PROVE Goal
    BY <1>8 DEF Kept
  <1>9. ~Restart
    BY DEF Restart, TypeInv, TypeOK
  <1>10. Goal
    BY <1>5, <1>6, <1>7, <1>8, <1>9 DEF EngineNext, BeginRestore, WriteRow, Tick, vars
  <1>11. QED
    BY <1>10 DEF Kept

(* Publishing keeps track of what was tracked, and of its own event. *)
LEMMA PublishTracks ==
    ASSUME EventsInv, DueInv, NEW event \in Agents \cup {Other}, Publish(event),
           UNCHANGED restarts,
           \A q \in Callers : owes[q] # Nothing => owes'[q] = owes[q]
    PROVE  /\ \A a \in Agents : Tracked(a) => Tracked(a)'
           /\ event \in Agents => Tracked(event)'
           /\ (listening \/ lagged)'
  <1>1. /\ lagged => lagged'
        /\ listening' = listening
        /\ listening =>
              \/ lagged'
              \/ /\ \A i \in DOMAIN inbox : i \in DOMAIN inbox' /\ inbox'[i] = inbox[i]
                 /\ \E j \in DOMAIN inbox' : inbox'[j] = event
    BY PublishFacts DEF EventsInv
  <1>2. listening \/ lagged
    BY DEF DueInv
  <1>3. ASSUME NEW a \in Agents, NEW q \in Callers, owes[q] = Owed("revoke", a)
        PROVE  owes'[q] = Owed("revoke", a)
    BY <1>3, OwedFacts
  <1>4. (listening \/ lagged)'
    BY <1>1, <1>2
  <1>5. CASE lagged'
    BY <1>4, <1>5 DEF Tracked
  <1>6. CASE ~lagged'
    <2>1. /\ \A i \in DOMAIN inbox : i \in DOMAIN inbox' /\ inbox'[i] = inbox[i]
          /\ \E j \in DOMAIN inbox' : inbox'[j] = event
          /\ ~lagged
      BY <1>1, <1>2, <1>6
    <2>2. ASSUME NEW a \in Agents, Tracked(a) PROVE Tracked(a)'
      <3>1. CASE restarts > 0
        BY <3>1 DEF Tracked
      <3>2. CASE \E q \in Callers : owes[q] = Owed("revoke", a)
        BY <1>3, <3>2 DEF Tracked, Owed
      <3>3. CASE \E i \in DOMAIN inbox : inbox[i] = a
        BY <2>1, <3>3 DEF Tracked
      <3>4. QED
        BY <2>1, <2>2, <3>1, <3>2, <3>3 DEF Tracked
    <2>3. Tracked(event)'
      BY <2>1 DEF Tracked
    <2>4. QED
      BY <1>4, <2>2, <2>3
  <1>7. QED
    BY <1>5, <1>6

(* From what the step kept to DueInv: nothing new is due. *)
LEMMA KeptDue ==
    ASSUME TypeInv, DueInv, OneEngineOnly, due' = due, due \subseteq Tokens,
           nextToken' \in {nextToken, nextToken + 1},
           (listening \/ lagged)',
           restarts' = 0 =>
               \A l \in leases'[Server] : l.token \in due =>
                   \/ l.token = nextToken
                   \/ \E k \in leases[Server] : /\ k.token = l.token /\ k.agent = l.agent
                                                /\ Tracked(k.agent) => Tracked(k.agent)',
           restarts' \in Nat
    PROVE  DueInv'
  <1>0. nextToken \in Nat /\ \A t \in due : t \in Nat /\ t < nextToken
    BY DEF DueInv, TypeInv, TypeOK, Tokens
  <1>1. \A t \in due' : t < nextToken'
    BY <1>0
  <1>2. ASSUME NEW l \in leases'[Server], l.token \in due PROVE Tracked(l.agent)'
    <2>1. CASE restarts' # 0
      BY <2>1 DEF Tracked
    <2>2. CASE restarts' = 0
      <3>1. l.token # nextToken
        BY <1>0, <1>2
      <3>2. PICK k \in leases[Server] : /\ k.token = l.token /\ k.agent = l.agent
                                        /\ Tracked(k.agent) => Tracked(k.agent)'
        BY <1>2, <2>2, <3>1
      <3>3. Tracked(k.agent)
        BY <1>2, <3>2 DEF DueInv
      <3>4. Tracked(k.agent)'
        BY <3>2, <3>3
      <3>5. QED
        BY <3>2, <3>4 DEF Tracked
    <2>3. QED
      BY <2>1, <2>2
  <1>3. QED
    BY <1>1, <1>2 DEF DueInv

(* A task ends: the leases its agent holds are due, and its event is sent. *)
LEMMA TaskEndDue ==
    ASSUME EventsInv, DeadInv, DueInv, OneEngineOnly, NEW a \in Agents, Publish(a), Due(a),
           UNCHANGED vars, \A q \in Callers : owes[q] # Nothing => owes'[q] = owes[q]
    PROVE  DueInv'
  <1>0. /\ \A b \in Agents : Tracked(b) => Tracked(b)'
        /\ Tracked(a)'
        /\ (listening \/ lagged)'
    BY PublishTracks DEF vars
  <1>1. /\ leases' = leases /\ nextToken' = nextToken
        /\ \A l \in leases[Server] : l \in Lease /\ l.token < nextToken
        /\ OnePerToken(leases[Server])
    BY ServerFacts DEF vars, EventsInv, TypeInv, TypeOK, DeadInv, Minted, Keyed
  <1>2. \A t \in due' : t \in due \/ \E x \in leases[Server] : x.agent = a /\ x.token = t
    BY DEF Due
  <1>3. \A t \in due' : t < nextToken'
    BY <1>1, <1>2 DEF DueInv
  <1>4. ASSUME NEW l \in leases[Server], l.token \in due' PROVE Tracked(l.agent)'
    <2>1. CASE l.token \in due
      <3>1. l.agent \in Agents /\ Tracked(l.agent)
        BY <1>1, <2>1 DEF DueInv, Lease
      <3>2. QED
        BY <1>0, <3>1
    <2>2. CASE \E x \in leases[Server] : x.agent = a /\ x.token = l.token
      <3>1. l.agent = a
        BY <1>1, <2>2 DEF OnePerToken
      <3>2. QED
        BY <1>0, <3>1 DEF Tracked
    <2>3. QED
      BY <1>2, <1>4, <2>1, <2>2
  <1>5. QED
    BY <1>0, <1>1, <1>3, <1>4 DEF DueInv

LEMMA OnTaskStartDue ==
    ASSUME EventsInv, DueInv, OneEngineOnly, NEW p \in Callers, NEW a \in Agents,
           OnTaskStart(p, a)
    PROVE  DueInv'
  <1>1. /\ Publish(Other) /\ UNCHANGED <<leases, nextToken, restarts, due>>
        /\ owes[p] = Nothing
        /\ owes' = [owes EXCEPT ![p] = Owed("renew", a)]
    BY DEF OnTaskStart, TaskEvent, vars
  <1>2. \A q \in Callers : owes[q] # Nothing => owes'[q] = owes[q]
    BY <1>1 DEF EventsInv, BusOK
  <1>3. /\ \A b \in Agents : Tracked(b) => Tracked(b)'
        /\ (listening \/ lagged)'
    BY <1>1, <1>2, PublishTracks
  <1>4. \A l \in leases[Server] : l.agent \in Agents
    BY ServerFacts DEF EventsInv, TypeInv, TypeOK, Lease
  <1>5. restarts' \in Nat /\ due \subseteq Tokens
    BY <1>1 DEF EventsInv, TypeInv, TypeOK, BusOK
  <1>6. QED
    BY <1>1, <1>3, <1>4, <1>5, KeptDue DEF EventsInv

LEMMA OnTaskCompleteDue ==
    ASSUME EventsInv, DeadInv, DueInv, OneEngineOnly, NEW p \in Callers, NEW a \in Agents,
           OnTaskComplete(p, a)
    PROVE  DueInv'
  <1>1. /\ Publish(a) /\ Due(a) /\ UNCHANGED vars
        /\ owes[p] = Nothing
        /\ owes' = [owes EXCEPT ![p] = Owed("revoke", a)]
    BY DEF OnTaskComplete, TaskEvent
  <1>2. \A q \in Callers : owes[q] # Nothing => owes'[q] = owes[q]
    BY <1>1 DEF EventsInv, BusOK
  <1>3. QED
    BY <1>1, <1>2, TaskEndDue

(* The listener that takes an agent's event owes its revocation instead. *)
LEMMA ReceiveDue ==
    ASSUME EventsInv, DueInv, OneEngineOnly, Receive
    PROVE  DueInv'
  <1>0. /\ UNCHANGED <<leases, nextToken, restarts, due, lagged>>
        /\ listening /\ owes[Listener] = Nothing /\ Listener \in Callers
        /\ inbox \in Seq(Agents \cup {Other})
    BY EventsAssumption DEF Receive, vars, EventsInv, BusOK
  <1>1. (listening \/ lagged)'
    <2>1. CASE lagged
      BY <1>0, <2>1
    <2>2. CASE ~lagged
      <3>1. listening' = listening
        BY <2>2 DEF Receive
      <3>2. QED
        BY <1>0, <3>1
    <2>3. QED
      BY <2>1, <2>2
  <1>2. ASSUME NEW a \in Agents, Tracked(a) PROVE Tracked(a)'
    <2>1. CASE lagged \/ restarts > 0
      BY <1>0, <2>1 DEF Tracked
    <2>2. CASE ~lagged /\ ~(restarts > 0)
      <3>0. /\ inbox # <<>> /\ inbox' = Tail(inbox)
            /\ owes' = [owes EXCEPT ![Listener] =
                          IF Head(inbox) = Other THEN Nothing ELSE Owed("revoke", Head(inbox))]
        BY <2>2 DEF Receive
      <3>1. ASSUME NEW q \in Callers, owes[q] = Owed("revoke", a) PROVE Tracked(a)'
        <4>1. q # Listener
          BY <1>0, <3>1, OwedFacts
        <4>2. owes'[q] = Owed("revoke", a)
          BY <3>0, <3>1, <4>1 DEF EventsInv, BusOK
        <4>3. QED
          BY <4>2 DEF Tracked, Owed
      <3>2. ASSUME NEW i \in DOMAIN inbox, inbox[i] = a PROVE Tracked(a)'
        <4>0. DOMAIN inbox = 1..Len(inbox) /\ Len(inbox) \in Nat
          BY <1>0
        <4>1. CASE i = 1
          <5>1. Head(inbox) = a /\ a # Other
            BY <1>0, <3>2, <4>1, EventsAssumption
          <5>2. owes'[Listener] = Owed("revoke", a)
            BY <1>0, <3>0, <5>1 DEF EventsInv, BusOK
          <5>3. QED
            BY <1>0, <5>2 DEF Tracked, Owed
        <4>2. CASE i # 1
          <5>1. i - 1 \in 1..(Len(inbox) - 1) /\ (i - 1) + 1 = i
            BY <3>2, <4>0, <4>2
          <5>2. Tail(inbox) \in Seq(Agents \cup {Other}) /\ Len(Tail(inbox)) = Len(inbox) - 1
            BY <1>0, <3>0
          <5>3. \A j \in 1..(Len(inbox) - 1) : Tail(inbox)[j] = inbox[j + 1]
            BY <1>0, <3>0
          <5>4. i - 1 \in DOMAIN inbox' /\ inbox'[i - 1] = a
            BY <3>0, <3>2, <5>1, <5>2, <5>3
          <5>5. QED
            BY <5>4 DEF Tracked
        <4>3. QED
          BY <4>1, <4>2
      <3>3. QED
        BY <1>2, <2>2, <3>1, <3>2 DEF Tracked
    <2>3. QED
      BY <2>1, <2>2
  <1>3. \A l \in leases[Server] : l.agent \in Agents
    BY ServerFacts DEF EventsInv, TypeInv, TypeOK, Lease
  <1>4. restarts' \in Nat /\ due \subseteq Tokens
    BY <1>0 DEF EventsInv, TypeInv, TypeOK, BusOK
  <1>5. QED
    BY <1>0, <1>1, <1>2, <1>3, <1>4, KeptDue DEF EventsInv

(* A call that was owed is no longer, but its agent's leases are gone. *)
LEMMA HandleDue ==
    ASSUME EventsInv, DeadInv, FirstProcess, DueInv, OneEngineOnly, NEW p \in Callers, Handle(p)
    PROVE  DueInv'
  <1>0. /\ owes' = [owes EXCEPT ![p] = Nothing]
        /\ UNCHANGED <<inbox, lagged, listening, due>>
    BY DEF Handle
  <1>1. [EngineNext]_vars /\ TypeInv
    BY HandleIsEngineStep DEF EngineNext, EventsInv
  <1>2. restarts' = restarts /\ restarts \in Nat /\ due \subseteq Tokens
    BY HandleIsEngineStep, ClientCallHolds DEF vars, EventsInv, TypeInv, TypeOK, BusOK
  <1>3. nextToken' \in {nextToken, nextToken + 1}
    BY HandleIsEngineStep DEF ClientCall, Lend, Remove, Extend, vars
  <1>4. (listening \/ lagged)'
    BY <1>0 DEF DueInv
  <1>5. ASSUME NEW b \in Agents, Tracked(b), owes[p] # Owed("revoke", b) PROVE Tracked(b)'
    <2>1. ASSUME NEW q \in Callers, owes[q] = Owed("revoke", b) PROVE Tracked(b)'
      <3>1. owes'[q] = Owed("revoke", b)
        BY <1>0, <1>5, <2>1 DEF EventsInv, BusOK
      <3>2. QED
        BY <3>1 DEF Tracked, Owed
    <2>2. QED
      BY <1>0, <1>2, <1>5, <2>1 DEF Tracked
  <1>6. ASSUME NEW l \in leases'[Server], l \in Lease PROVE owes[p] # Owed("revoke", l.agent)
    <2>1. SUFFICES ASSUME owes[p] = Owed("revoke", l.agent) PROVE FALSE
      OBVIOUS
    <2>2. l.agent \in Agents /\ Held(p) = leases[Server]
      BY <1>6, ServerFacts DEF Lease, Held
    <2>3. PICK a \in Agents :
            \/ owes[p] = Owed("revoke", a) /\ RevokeForAgent(p, a)
            \/ owes[p] = Owed("renew", a)
            \/ owes[p].agent = a /\ HeldBy(p, a) = {} /\ UNCHANGED vars
      BY DEF Handle
    <2>4. a = l.agent /\ owes[p] # Owed("renew", a)
      BY <2>1, <2>2, <2>3, OwedFacts
    <2>5. CASE RevokeForAgent(p, a)
      <3> DEFINE ls == Held(p) \ HeldBy(p, a)
                 ws == Writes("revoke", HeldBy(p, a))
      <3>1. Ready(p) /\ Hold(p, ls, ws)
        BY <2>5 DEF RevokeForAgent, Remove
      <3>2. \A k \in ls : k.agent # a
        BY DEF HeldBy
      <3> HIDE DEF ls, ws
      <3>3. leases'[Server] = ls
        BY <1>1, <3>1, HoldFacts, ServerFacts
      <3>4. QED
        BY <2>4, <3>2, <3>3
    <2>6. CASE HeldBy(p, a) = {} /\ UNCHANGED vars
      <3>1. l \in Held(p)
        BY <1>6, <2>2, <2>6 DEF vars
      <3>2. QED
        BY <2>4, <2>6, <3>1 DEF HeldBy
    <2>7. QED
      BY <2>3, <2>4, <2>5, <2>6
  <1>7. ASSUME restarts' = 0, NEW l \in leases'[Server], l.token \in due
        PROVE  \/ l.token = nextToken
               \/ \E k \in leases[Server] : /\ k.token = l.token /\ k.agent = l.agent
                                            /\ Tracked(k.agent) => Tracked(k.agent)'
    <2>1. l \in Lease
      BY <1>1, <1>7, EngineType1, ServerFacts DEF TypeInv, TypeOK
    <2>2. l.agent \in Agents /\ owes[p] # Owed("revoke", l.agent)
      BY <1>6, <1>7, <2>1 DEF Lease
    <2>3. Tracked(l.agent) => Tracked(l.agent)'
      <3> DEFINE b == l.agent
      <3>1. b \in Agents /\ owes[p] # Owed("revoke", b)
        BY <2>2
      <3> HIDE DEF b
      <3>2. Tracked(b) => Tracked(b)'
        BY <1>5, <3>1
      <3>3. QED
        BY <3>2 DEF b
    <2>4. \/ l.token = nextToken
          \/ \E k \in leases[Server] : k.token = l.token /\ k.agent = l.agent
      BY <1>1, <1>7, LeasesAfter, ServerFacts
    <2>5. CASE \E k \in leases[Server] : k.token = l.token /\ k.agent = l.agent
      <3>1. PICK k \in leases[Server] : k.token = l.token /\ k.agent = l.agent
        BY <2>5
      <3>2. Tracked(k.agent) => Tracked(k.agent)'
        BY <2>3, <3>1
      <3>3. QED
        BY <3>1, <3>2
    <2>6. QED
      BY <2>4, <2>5
  <1>8. QED
    BY <1>0, <1>1, <1>2, <1>3, <1>4, <1>7, KeptDue

LEMMA WriteAndReportDue ==
    ASSUME EventsInv, DueInv, OneEngineOnly, NEW p \in Callers, NEW w \in todo[p],
           WriteAndReport(p, w)
    PROVE  DueInv'
  <1>0. UNCHANGED <<leases, nextToken, restarts, due, owes>>
    BY DEF WriteAndReport, WriteRow
  <1>1. /\ \A b \in Agents : Tracked(b) => Tracked(b)'
        /\ (listening \/ lagged)'
    <2>1. CASE Publish(Other)
      BY <1>0, <2>1, PublishTracks
    <2>2. CASE UNCHANGED <<inbox, lagged, listening>>
      BY <1>0, <2>2 DEF Tracked, DueInv
    <2>3. QED
      BY <2>1, <2>2 DEF WriteAndReport
  <1>2. \A l \in leases[Server] : l.agent \in Agents
    BY ServerFacts DEF EventsInv, TypeInv, TypeOK, Lease
  <1>3. restarts' \in Nat /\ due \subseteq Tokens
    BY <1>0 DEF EventsInv, TypeInv, TypeOK, BusOK
  <1>4. QED
    BY <1>0, <1>1, <1>2, <1>3, KeptDue DEF EventsInv

LEMMA QuietDue ==
    ASSUME EventsInv, DeadInv, FirstProcess, DueInv, OneEngineOnly, Quiet
    PROVE  DueInv'
  <1>0. UNCHANGED <<inbox, lagged, listening, owes, due>>
    BY DEF Quiet, busVars
  <1>1. EngineNext /\ TypeInv
    BY QuietIsEngineStep DEF EventsInv
  <1>2. TypeInv' /\ due \subseteq Tokens
    BY <1>1, EngineType1 DEF EventsInv, BusOK
  <1>3. restarts' = restarts /\ nextToken' \in {nextToken, nextToken + 1}
    <2>1. ASSUME NEW p \in Requests, Call(p) PROVE p \in Callers /\ ClientCall(p)
      BY <2>1, CallIsCall DEF Requests, EventsInv
    <2>2. ASSUME NEW p, ClientCall(p) \/ CleanupExpired(p)
          PROVE  restarts' = restarts /\ nextToken' \in {nextToken, nextToken + 1}
      BY <2>2 DEF ClientCall, CleanupExpired, Lend, Remove, Extend
    <2>3. QED
      BY <2>1, <2>2 DEF Quiet, BeginRestore, RestoreInstall, Tick
  <1>4. \A b : Tracked(b) => Tracked(b)'
    BY <1>0, <1>3 DEF Tracked, Owed
  <1>5. (listening \/ lagged)'
    BY <1>0 DEF DueInv
  <1>6. restarts' = 0 =>
          \A l \in leases'[Server] :
              \/ \E k \in leases[Server] : k.token = l.token /\ k.agent = l.agent
              \/ l.token = nextToken
    BY <1>1, LeasesAfter, ServerFacts
  <1>7. restarts' \in Nat
    BY <1>2 DEF TypeInv, TypeOK
  <1>8. QED
    BY <1>0, <1>1, <1>2, <1>3, <1>4, <1>5, <1>6, <1>7, KeptDue

LEMMA DueStep ==
    ASSUME EventsInv, DeadInv, FirstProcess, DueInv, OneEngineOnly, [NextAll]_allVars
    PROVE  DueInv'
  <1>1. ASSUME NEW a \in Agents, TaskDone(a) PROVE DueInv'
    BY <1>1, TaskEndDue DEF TaskDone, TaskEvent
  <1>2. ASSUME NEW p \in Requests, NEW a \in Agents, OnTaskStart(p, a) \/ OnTaskComplete(p, a)
        PROVE  DueInv'
    BY <1>2, OnTaskStartDue, OnTaskCompleteDue DEF Requests
  <1>3. CASE RestartAll
    <2>1. /\ listening' /\ UNCHANGED <<due, nextToken>>
          /\ restarts' > 0
      BY <1>3 DEF RestartAll, Restart, EventsInv, TypeInv, TypeOK
    <2>2. QED
      BY <2>1 DEF DueInv, Tracked
  <1>4. CASE UNCHANGED allVars
    <2>1. UNCHANGED <<leases, nextToken, restarts, inbox, lagged, listening, owes, due>>
      BY <1>4 DEF allVars, vars, busVars
    <2>2. QED
      BY <2>1 DEF DueInv, Tracked
  <1>5. QED
    BY <1>1, <1>2, <1>3, <1>4, ReceiveDue, HandleDue, WriteAndReportDue, QuietDue DEF NextAll

(* With one engine over the rows, for every capacity of the bus: as long as   *)
(* the listener has not lagged and the process was not restarted, a lease     *)
(* that its agent held when a task of it ended is held only while the event   *)
(* is in the inbox or somebody has yet to begin the revocation: no            *)
(* interleaving of task ends, lends, renewals and revocations loses it        *)
(* (on_task_complete, the listener of cli/server.rs).                         *)
THEOREM TaskEndIsTracked ==
    ASSUME OneEngineOnly
    PROVE  SpecAll => []DueIsTracked
  <1>1. DueInv => DueIsTracked
    BY DEF DueInv, DueIsTracked, Tracked
  <1>2. InitAll => DueInv
    BY ServerFacts DEF InitAll, Init, DueInv
  <1>3. EventsInv /\ DeadInv /\ LiveInv /\ ReportInv /\ DueInv /\ [NextAll]_allVars
            => (EventsInv /\ DeadInv /\ LiveInv /\ ReportInv /\ DueInv)'
    BY AllStep, DueStep DEF ReportInv
  <1>4. QED
    BY <1>1, <1>2, <1>3, AllInit, PTL DEF SpecAll
=============================================================================
