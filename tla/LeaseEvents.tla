----------------------------- MODULE LeaseEvents -----------------------------
(***************************************************************************)
(* The key lending engine together with the event bus and the listener     *)
(* that revokes an agent's leases when its task ends (cli/server.rs).      *)
(*                                                                         *)
(* The bus is a tokio broadcast channel: publish never waits, and a        *)
(* receiver more than Capacity events behind loses the oldest and is told  *)
(* so by its next recv.  The listener is one more caller of the server's   *)
(* engine; the engine itself publishes LeaseRevoked for every lease it     *)
(* revokes, also for those the listener makes it revoke.                   *)
(***************************************************************************)
EXTENDS KeyLending, Sequences

CONSTANTS
    Listener,       \* the caller that is the listener's task
    Capacity,       \* the capacity of the broadcast channel
    MaxTaskEvents,  \* bound on the task events published
    Other           \* any event the listener ignores (LeaseRevoked, AgentTaskStarted)

ASSUME EventsAssumption ==
    /\ Listener \in Callers \ Cleaners
    /\ Capacity \in Nat \ {0}
    /\ MaxTaskEvents \in Nat
    /\ Other \notin Agents

VARIABLES
    inbox,      \* the events the listener has not received: an agent's task end, or Other
    lagged,     \* events were lost since the last recv
    listening,  \* the listener's loop runs
    owes,       \* per caller: the engine call its event leads to, not yet begun
    taskEvents, \* how many task events have been published
    due         \* history: tokens held by an agent when a task of it ended

busVars == <<inbox, lagged, listening, owes, taskEvents, due>>
allVars == <<vars, busVars>>

Server == EngineOf[Listener]

(* HTTP handlers and agent threads, as opposed to the background tasks. *)
Requests == Callers \ (Cleaners \cup {Listener})

(* revoke_for_agent or renew_for_agent, or no call. *)
Owed(op, a) == [op |-> op, agent |-> a]
Nothing == [op |-> "none"]

-----------------------------------------------------------------------------
(* Faulty variants: an unbounded channel, and one that loses events silently. *)
Publish_Unbounded(event) ==
    /\ inbox' = IF listening THEN Append(inbox, event) ELSE inbox
    /\ UNCHANGED <<lagged, listening>>

Publish_Silent(event) ==
    /\ inbox' = IF listening /\ Len(inbox) < Capacity THEN Append(inbox, event) ELSE inbox
    /\ UNCHANGED <<lagged, listening>>

(* sender.send: a receiver that is gone gets nothing, one that is full loses  *)
(* its oldest event.                                                          *)
Publish(event) ==
    /\ inbox' = IF ~listening THEN inbox
                ELSE IF Len(inbox) = Capacity THEN Append(Tail(inbox), event)
                ELSE Append(inbox, event)
    /\ lagged' = (lagged \/ (listening /\ Len(inbox) = Capacity))
    /\ UNCHANGED listening

TaskEvent(event) ==
    /\ taskEvents < MaxTaskEvents
    /\ taskEvents' = taskEvents + 1
    /\ Publish(event)

(* From here on the leases of agent a are due for revocation. *)
Due(a) == due' = due \cup {l.token : l \in {x \in leases[Server] : x.agent = a}}

(* move_task to Done: TaskCompleted of the task's assignee a, and no more. *)
TaskDone(a) ==
    /\ TaskEvent(a)
    /\ Due(a)
    /\ UNCHANGED <<vars, owes>>

(* on_task_start: AgentTaskStarted, then renew_for_agent. *)
OnTaskStart(p, a) ==
    /\ pc[p] = "idle" /\ owes[p] = Nothing
    /\ TaskEvent(Other)
    /\ owes' = [owes EXCEPT ![p] = Owed("renew", a)]
    /\ UNCHANGED <<vars, due>>

(* on_task_complete: AgentTaskCompleted or AgentTaskFailed, then              *)
(* revoke_for_agent by the same caller, which the listener does as well.      *)
OnTaskComplete(p, a) ==
    /\ pc[p] = "idle" /\ owes[p] = Nothing
    /\ TaskEvent(a)
    /\ owes' = [owes EXCEPT ![p] = Owed("revoke", a)]
    /\ Due(a)
    /\ UNCHANGED vars

(* receiver.recv: an error, and to have lagged is one, ends the loop. *)
Receive ==
    /\ listening
    /\ pc[Listener] = "idle" /\ owes[Listener] = Nothing
    /\ \/ /\ lagged
          /\ listening' = FALSE
          /\ inbox' = <<>>
          /\ UNCHANGED owes
       \/ /\ ~lagged
          /\ inbox # <<>>
          /\ owes' = [owes EXCEPT ![Listener] =
                          IF Head(inbox) = Other THEN Nothing ELSE Owed("revoke", Head(inbox))]
          /\ inbox' = Tail(inbox)
          /\ UNCHANGED listening
    /\ UNCHANGED <<vars, lagged, taskEvents, due>>

(* The engine call that is owed, up to its first await; it may find no lease. *)
Handle(p) ==
    /\ \E a \in Agents :
          \/ owes[p] = Owed("revoke", a) /\ RevokeForAgent(p, a)
          \/ owes[p] = Owed("renew", a) /\ \E ttl \in Ttls : RenewForAgent(p, a, ttl)
          \/ owes[p] # Nothing /\ owes[p].agent = a
             /\ Ready(p) /\ HeldBy(p, a) = {} /\ UNCHANGED vars
    /\ owes' = [owes EXCEPT ![p] = Nothing]
    /\ UNCHANGED <<inbox, lagged, listening, taskEvents, due>>

(* A statement of a call; a revocation by the server's engine is published. *)
WriteAndReport(p, w) ==
    /\ WriteRow(p, w)
    /\ IF w.kind = "revoke" /\ EngineOf[p] = Server
          THEN Publish(Other)
          ELSE UNCHANGED <<inbox, lagged, listening>>
    /\ UNCHANGED <<owes, taskEvents, due>>

(* The steps that do not touch the bus.  The listener restores the leases     *)
(* only for an event it handles.                                              *)
Quiet ==
    /\ \/ \E p \in Callers : (p = Listener => owes[p] # Nothing) /\ BeginRestore(p)
       \/ \E p \in Callers : RestoreInstall(p)
       \/ \E p \in Requests : owes[p] = Nothing /\ Call(p)
       \/ \E p \in Cleaners : CleanupExpired(p)
       \/ Tick
    /\ UNCHANGED busVars

(* A restart loses the events that were not handled. *)
RestartAll ==
    /\ Restart
    /\ inbox' = <<>>
    /\ lagged' = FALSE
    /\ listening' = TRUE
    /\ owes' = [p \in Callers |-> Nothing]
    /\ UNCHANGED <<taskEvents, due>>

-----------------------------------------------------------------------------
InitAll ==
    /\ Init
    /\ inbox = <<>>
    /\ lagged = FALSE
    /\ listening = TRUE
    /\ owes = [p \in Callers |-> Nothing]
    /\ taskEvents = 0
    /\ due = {}

NextAll ==
    \/ \E a \in Agents : TaskDone(a)
    \/ \E p \in Requests, a \in Agents : OnTaskStart(p, a) \/ OnTaskComplete(p, a)
    \/ Receive
    \/ \E p \in Callers : Handle(p)
    \/ \E p \in Callers : \E w \in todo[p] : WriteAndReport(p, w)
    \/ Quiet
    \/ RestartAll

SpecAll == InitAll /\ [][NextAll]_allVars

(* A running call goes on, a call that is owed begins, and the listener's     *)
(* loop receives.                                                             *)
FairSpecAll ==
    /\ SpecAll
    /\ \A p \in Callers : WF_allVars(\/ RestoreInstall(p) /\ UNCHANGED busVars
                                     \/ \E w \in todo[p] : WriteAndReport(p, w))
    /\ \A p \in Callers : WF_allVars(\/ Handle(p)
                                     \/ owes[p] # Nothing /\ BeginRestore(p) /\ UNCHANGED busVars)
    /\ WF_allVars(Receive)

-----------------------------------------------------------------------------
(* Properties. *)

(* The state has its types, and a caller that still owes a call is in no      *)
(* other: it waits for the leases or restores them.                           *)
EventsTypeOK ==
    /\ TypeOK
    /\ inbox \in Seq(Agents \cup {Other}) /\ Len(inbox) <= Capacity
    /\ lagged \in BOOLEAN /\ listening \in BOOLEAN
    /\ owes \in [Callers -> [op : {"revoke", "renew"}, agent : Agents] \cup {Nothing}]
    /\ \A p \in Callers : owes[p] # Nothing => pc[p] # "write"
    /\ owes[Listener] # Nothing => listening
    /\ taskEvents \in 0..MaxTaskEvents
    /\ due \subseteq Tokens

(* "Listens for agent task events and manages secret leases automatically":   *)
(* a lease its agent held when a task of it ended leaves the engine, without  *)
(* waiting for its expiry, as long as the listener of cli/server.rs keeps up  *)
(* and the process is not restarted.                                          *)
TaskEndRevokesUnlessLagged ==
    \A t \in Tokens : t \in due ~>
        \/ lagged \/ restarts > 0
        \/ \A l \in leases[Server] : l.token # t

(* As long as the listener has not lagged and the process has not been        *)
(* restarted, no task end is forgotten: a lease that is due is still held     *)
(* only while the event of its agent is in the inbox or a caller has yet to   *)
(* begin the revocation.                                                      *)
DueIsTracked ==
    \A l \in leases[Server] : l.token \in due =>
        \/ lagged \/ restarts > 0
        \/ \E p \in Callers : owes[p] = Owed("revoke", l.agent)
        \/ \E i \in DOMAIN inbox : inbox[i] = l.agent

(* A lease is revoked and reported once, however many callers end it: a       *)
(* revocation that is being written is nobody else's, and was not reported    *)
(* before by the same process (a restart may take up a revoked lease whose    *)
(* insert came late, and revokes it again).                                   *)
ReportedOnce ==
    \A p \in Callers : \A w \in todo[p] : w.kind = "revoke" =>
        /\ restarts = 0 => w.lease.token \notin revoked
        /\ \A q \in Callers : \A v \in todo[q] :
              v.kind = "revoke" /\ v.lease.token = w.lease.token => q = p /\ v = w
=============================================================================
