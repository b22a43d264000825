------------------------------ MODULE KeyLending ------------------------------
(***************************************************************************)
(* The key lending engine of Xavier (coordination/secrets.rs): leases on   *)
(* secrets, granted to agents for a time.  An engine keeps its leases in a *)
(* map behind a lock and mirrors every change into the rows of             *)
(* secret_leases, which outlive the process; a failing write is only       *)
(* logged.  An engine reads the rows back once, at its first use.          *)
(*                                                                         *)
(* Every action is the code of one caller between two awaits: the step     *)
(* under the write lock, then each statement on the store by itself.  The  *)
(* order of a HashMap is arbitrary, so what a call still has to write is a *)
(* set.  Secret names and values, the audit log and the leak detector's    *)
(* hashes do not influence these steps and are left out; the production    *)
(* engines have no AntiExfilDetector.                                      *)
(***************************************************************************)
EXTENDS Naturals, FiniteSets

CONSTANTS
    Engines,        \* engines over the same rows: the server's and the MCP tools'
    Callers,        \* requests and background tasks that call an engine
    EngineOf,       \* which engine each caller uses
    Cleaners,       \* the callers that are an engine's cleanup loop
    Agents,         \* agents that borrow secrets
    Ops,            \* which calls the other callers make
    Ttls,           \* the ttl_secs and backoff seconds they pass
    MaxTokens,      \* bound on the tokens ever minted
    MaxTime,        \* bound on the clock
    MaxExpiry,      \* bound on the expiry a backoff may reach
    StoreMayFail,   \* whether a statement on the store may fail
    MaxRestarts     \* bound on process restarts

AllOps == {"lend", "revoke", "revokeForAgent", "renew", "renewForAgent", "backoff"}

ASSUME LendingAssumption ==
    /\ EngineOf \in [Callers -> Engines]
    /\ Cleaners \subseteq Callers
    /\ Ops \subseteq AllOps
    /\ Ttls \subseteq Nat
    /\ MaxTokens \in Nat
    /\ MaxTime \in Nat
    /\ MaxExpiry \in Nat
    /\ StoreMayFail \in BOOLEAN
    /\ MaxRestarts \in Nat

Tokens == 1..MaxTokens
Lease == [token : Tokens, agent : Agents, expires : Nat]
Row == [lease : Lease, revoked : BOOLEAN]

(* What a call still has to do to the store: insert_lease, mark_lease_revoked *)
(* followed by the report of the revocation, mark_lease_revoked alone, and     *)
(* update_lease_expiry.                                                        *)
Write == [kind : {"insert", "revoke", "lapse", "expiry"}, lease : Lease]

VARIABLES
    leases,     \* KeyLendingEngine.leases, per engine
    restored,   \* KeyLendingEngine.restored: "no", "busy" or "done", per engine
    snap,       \* the rows an engine's restore has read and not yet used
    rows,       \* the table secret_leases
    now,        \* Utc::now()
    nextToken,  \* tokens 1..nextToken-1 have been minted (Uuid::new_v4)
    pc,         \* per caller: what it does next
    todo,       \* per caller: its outstanding writes to the store
    revoked,    \* history: the tokens whose revocation was reported
    failed,     \* history: whether a statement on the store has failed
    restarts    \* how often the process was restarted

vars == <<leases, restored, snap, rows, now, nextToken, pc, todo, revoked, failed,
          restarts>>

-----------------------------------------------------------------------------
(* The lease and the statements on the table. *)

(* Faulty variant: a lease is kept one tick too long. *)
IsExpired_Late(l) == now > l.expires + 1

IsExpired(l) == now > l.expires

Insert(l) == {r \in rows : r.lease.token # l.token} \cup {[lease |-> l, revoked |-> FALSE]}

(* Faulty variant: WHERE agent_id instead of WHERE token. *)
MarkRevoked_Agent(l) ==
    {IF r.lease.agent = l.agent THEN [r EXCEPT !.revoked = TRUE] ELSE r : r \in rows}

MarkRevoked(l) ==
    {IF r.lease.token = l.token THEN [r EXCEPT !.revoked = TRUE] ELSE r : r \in rows}

(* Faulty variant: the statement has lost its WHERE. *)
UpdateExpiry_All(l) == {[r EXCEPT !.lease.expires = l.expires] : r \in rows}

(* Faulty variant: INSERT OR REPLACE where it must be UPDATE. *)
UpdateExpiry_Upsert(l) == Insert(l)

UpdateExpiry(l) ==
    {IF r.lease.token = l.token THEN [r EXCEPT !.lease.expires = l.expires] ELSE r : r \in rows}

(* Faulty variant: revoked_at is not looked at. *)
ActiveLeases_All == {r.lease : r \in rows}

ActiveLeases == {r.lease : r \in {x \in rows : ~x.revoked}}

Apply(w) ==
    CASE w.kind = "insert" -> Insert(w.lease)
      [] w.kind \in {"revoke", "lapse"} -> MarkRevoked(w.lease)
      [] w.kind = "expiry" -> UpdateExpiry(w.lease)

Writes(kind, ls) == [kind : {kind}, lease : ls]

-----------------------------------------------------------------------------
(* A call may work on the leases of its engine once they are restored. *)
Ready(p) == pc[p] = "idle" /\ restored[EngineOf[p]] = "done"

Held(p) == leases[EngineOf[p]]
HeldBy(p, a) == {l \in Held(p) : l.agent = a}
HeldAs(p, t) == {l \in Held(p) : l.token = t}

(* The step under the write lock: caller p's engine now holds ls, and ws      *)
(* remains to be written.                                                     *)
Hold(p, ls, ws) ==
    /\ leases' = [leases EXCEPT ![EngineOf[p]] = ls]
    /\ pc' = [pc EXCEPT ![p] = "write"]
    /\ todo' = [todo EXCEPT ![p] = ws]

(* Faulty variant: the restore ends before the lapsed rows are marked. *)
RestoredOnInstall_Early(lapsed) == "done"

(* The OnceCell is filled when restore_leases returns. *)
RestoredOnInstall(lapsed) == IF lapsed = {} THEN "done" ELSE "busy"

(* restore_leases reads the rows; an error leaves the engine empty for good. *)
BeginRestore(p) ==
    LET e == EngineOf[p] IN
    /\ pc[p] = "idle"
    /\ restored[e] = "no"
    /\ \/ /\ restored' = [restored EXCEPT ![e] = "busy"]
          /\ snap' = [snap EXCEPT ![e] = ActiveLeases]
          /\ pc' = [pc EXCEPT ![p] = "install"]
          /\ UNCHANGED failed
       \/ /\ StoreMayFail
          /\ restored' = [restored EXCEPT ![e] = "done"]
          /\ failed' = TRUE
          /\ UNCHANGED <<snap, pc>>
    /\ UNCHANGED <<leases, rows, now, nextToken, todo, revoked, restarts>>

(* ... and takes up the leases that have not lapsed; the others it marks.     *)
RestoreInstall(p) ==
    LET e == EngineOf[p]
        current == {l \in snap[e] : l.expires > now}
        lapsed == snap[e] \ current
    IN
    /\ pc[p] = "install"
    /\ leases' = [leases EXCEPT ![e] = @ \cup current]
    /\ snap' = [snap EXCEPT ![e] = {}]
    /\ todo' = [todo EXCEPT ![p] = Writes("lapse", lapsed)]
    /\ pc' = [pc EXCEPT ![p] = IF lapsed = {} THEN "idle" ELSE "lapse"]
    /\ restored' = [restored EXCEPT ![e] = RestoredOnInstall(lapsed)]
    /\ UNCHANGED <<rows, now, nextToken, revoked, failed, restarts>>

-----------------------------------------------------------------------------
(* The calls, up to their first await on the store. *)

Lend(p, a, ttl) ==
    LET l == [token |-> nextToken, agent |-> a, expires |-> now + ttl] IN
    /\ Ready(p)
    /\ nextToken \in Tokens
    /\ Hold(p, Held(p) \cup {l}, Writes("insert", {l}))
    /\ nextToken' = nextToken + 1
    /\ UNCHANGED <<restored, snap, rows, now, revoked, failed, restarts>>

(* Faulty variant: the leases are looked up under a read lock and stay. *)
Remove_Copy(p, kind, ls) ==
    /\ Ready(p)
    /\ ls # {}
    /\ Hold(p, Held(p), Writes(kind, ls))
    /\ UNCHANGED <<restored, snap, rows, now, nextToken, revoked, failed, restarts>>

(* Remove these leases and mark their rows. *)
Remove(p, kind, ls) ==
    /\ Ready(p)
    /\ ls # {}
    /\ Hold(p, Held(p) \ ls, Writes(kind, ls))
    /\ UNCHANGED <<restored, snap, rows, now, nextToken, revoked, failed, restarts>>

(* revoke, and revoke_by_lease_id, whose id names one token. *)
Revoke(p, t) == Remove(p, "revoke", HeldAs(p, t))

(* Faulty variant: find where it must be filter. *)
RevokeForAgent_First(p, a) == \E l \in HeldBy(p, a) : Remove(p, "revoke", {l})

RevokeForAgent(p, a) == Remove(p, "revoke", HeldBy(p, a))

CleanupExpired(p) == Remove(p, "lapse", {l \in Held(p) : IsExpired(l)})

(* Replace these leases by others of the same tokens and persist their expiry. *)
Extend(p, ls, new) ==
    /\ Ready(p)
    /\ ls # {}
    /\ Hold(p, (Held(p) \ ls) \cup new, Writes("expiry", new))
    /\ UNCHANGED <<restored, snap, rows, now, nextToken, revoked, failed, restarts>>

Renewed(ls, ttl) == {[l EXCEPT !.expires = now + ttl] : l \in ls}

Renew(p, t, ttl) == Extend(p, HeldAs(p, t), Renewed(HeldAs(p, t), ttl))

RenewForAgent(p, a, ttl) == Extend(p, HeldBy(p, a), Renewed(HeldBy(p, a), ttl))

BackoffExpiry(l, seconds) == (IF IsExpired(l) THEN now ELSE l.expires) + seconds

BackedOff(ls, seconds) == {[l EXCEPT !.expires = BackoffExpiry(l, seconds)] : l \in ls}

Backoff(p, t, seconds) ==
    /\ \A l \in HeldAs(p, t) : BackoffExpiry(l, seconds) <= MaxExpiry
    /\ Extend(p, HeldAs(p, t), BackedOff(HeldAs(p, t), seconds))

-----------------------------------------------------------------------------
(* One statement of a call.  It may fail, which is logged and nothing more:   *)
(* the revocation is reported all the same.  The call, and a restore, end     *)
(* with the last statement.                                                   *)
WriteRow(p, w) ==
    LET e == EngineOf[p]
        last == todo[p] = {w}
    IN
    /\ \/ rows' = Apply(w) /\ UNCHANGED failed
       \/ StoreMayFail /\ failed' = TRUE /\ UNCHANGED rows
    /\ todo' = [todo EXCEPT ![p] = @ \ {w}]
    /\ pc' = IF last THEN [pc EXCEPT ![p] = "idle"] ELSE pc
    /\ restored' = IF last THEN [restored EXCEPT ![e] = "done"] ELSE restored
    /\ revoked' = IF w.kind = "revoke" THEN revoked \cup {w.lease.token} ELSE revoked
    /\ UNCHANGED <<leases, snap, now, nextToken, restarts>>

Tick ==
    /\ now < MaxTime
    /\ now' = now + 1
    /\ UNCHANGED <<leases, restored, snap, rows, nextToken, pc, todo, revoked, failed, restarts>>

(* The process ends and starts again: only the rows remain. *)
Restart ==
    /\ restarts < MaxRestarts
    /\ restarts' = restarts + 1
    /\ leases' = [e \in Engines |-> {}]
    /\ restored' = [e \in Engines |-> "no"]
    /\ snap' = [e \in Engines |-> {}]
    /\ pc' = [p \in Callers |-> "idle"]
    /\ todo' = [p \in Callers |-> {}]
    /\ UNCHANGED <<rows, now, nextToken, revoked, failed>>

-----------------------------------------------------------------------------
Init ==
    /\ leases = [e \in Engines |-> {}]
    /\ restored = [e \in Engines |-> "no"]
    /\ snap = [e \in Engines |-> {}]
    /\ rows = {}
    /\ now = 0
    /\ nextToken = 1
    /\ pc = [p \in Callers |-> "idle"]
    /\ todo = [p \in Callers |-> {}]
    /\ revoked = {}
    /\ failed = FALSE
    /\ restarts = 0

Call(p) ==
    \/ \E a \in Agents, ttl \in Ttls : "lend" \in Ops /\ Lend(p, a, ttl)
    \/ \E t \in Tokens : "revoke" \in Ops /\ Revoke(p, t)
    \/ \E a \in Agents : "revokeForAgent" \in Ops /\ RevokeForAgent(p, a)
    \/ \E t \in Tokens, ttl \in Ttls : "renew" \in Ops /\ Renew(p, t, ttl)
    \/ \E a \in Agents, ttl \in Ttls : "renewForAgent" \in Ops /\ RenewForAgent(p, a, ttl)
    \/ \E t \in Tokens, ttl \in Ttls : "backoff" \in Ops /\ Backoff(p, t, ttl)

Continue(p) ==
    \/ RestoreInstall(p)
    \/ \E w \in todo[p] : WriteRow(p, w)

Next ==
    \/ \E p \in Callers : BeginRestore(p) \/ Continue(p)
    \/ \E p \in Callers \ Cleaners : Call(p)
    \/ \E p \in Cleaners : CleanupExpired(p)
    \/ Tick
    \/ Restart

Spec == Init /\ [][Next]_vars

(* A running call goes on, and a cleanup loop ticks every minute. *)
FairSpec ==
    /\ Spec
    /\ \A p \in Callers : WF_vars(Continue(p))
    /\ \A p \in Cleaners : WF_vars(BeginRestore(p) \/ CleanupExpired(p))

-----------------------------------------------------------------------------
(* Properties. *)

(* The maps hold leases, the table rows, and a caller is in a call exactly    *)
(* while it has something to do: a restore is "busy" as long as one caller of *)
(* the engine is in it, and a caller that must write has something to write.  *)
TypeOK ==
    /\ leases \in [Engines -> SUBSET Lease]
    /\ restored \in [Engines -> {"no", "busy", "done"}]
    /\ snap \in [Engines -> SUBSET Lease]
    /\ rows \subseteq Row
    /\ now \in Nat
    /\ nextToken \in 1..(MaxTokens + 1)
    /\ pc \in [Callers -> {"idle", "install", "lapse", "write"}]
    /\ todo \in [Callers -> SUBSET Write]
    /\ revoked \subseteq Tokens
    /\ failed \in BOOLEAN
    /\ restarts \in Nat
    /\ \A p \in Callers : pc[p] \in {"lapse", "write"} <=> todo[p] # {}
    /\ \A e \in Engines :
          restored[e] = "busy" <=>
              \E p \in Callers : EngineOf[p] = e /\ pc[p] \in {"install", "lapse"}

Quiescent == \A p \in Callers : pc[p] = "idle"

Unexpired(ls) == {l \in ls : ~IsExpired(l)}

(* "Revoke a lease immediately": once its revocation was reported, a token is *)
(* in no engine again, not even after a restart, unless a statement failed.   *)
RevokedIsFinal ==
    failed \/ \A e \in Engines : \A l \in leases[e] : l.token \notin revoked

(* A row that says revoked speaks of a lease no engine holds: the map changes *)
(* first, whatever other calls, failing statements and restarts there are.    *)
RevokedRowIsDead ==
    \A r \in rows : r.revoked =>
        \A e \in Engines : \A l \in leases[e] : l.token # r.lease.token

(* Between calls, if no statement has failed, what a restart would restore is *)
(* what the engine holds: the same unexpired leases, of the same agents,      *)
(* until the same instant.                                                    *)
StoreMirrorsLeases ==
    \A e \in Engines : ~failed /\ Quiescent /\ restored[e] = "done" =>
        Unexpired(leases[e]) = Unexpired(ActiveLeases)

(* If no statement has failed, a lease whose lend has returned survives a     *)
(* restart: its row is there, is of the same agent and is not revoked.        *)
LiveIsStored ==
    \A e \in Engines : \A l \in leases[e] :
        \/ failed
        \/ \E p \in Callers : \E w \in todo[p] : w.kind = "insert" /\ w.lease.token = l.token
        \/ \E a \in ActiveLeases : a.token = l.token /\ a.agent = l.agent

(* An expired lease does not stay: the cleanup loop drops it from the map, or *)
(* somebody renews it, even if statements on the store fail.                  *)
ExpiredIsDropped ==
    \A e \in {EngineOf[p] : p \in Cleaners} : \A t \in Tokens :
        (\E l \in leases[e] : l.token = t /\ now > l.expires)
            ~> ~(\E l \in leases[e] : l.token = t /\ now > l.expires)

(* The leases from which a token may still be used, now or after a restart:   *)
(* those of an engine, of a restore, of a row that is not revoked and of an   *)
(* insert that is still to come.                                              *)
Known ==
    (UNION {leases[e] \cup snap[e] : e \in Engines})
        \cup {r.lease : r \in {x \in rows : ~x.revoked}}
        \cup {w.lease : w \in {x \in UNION {todo[p] : p \in Callers} : x.kind = "insert"}}

Contract == INSTANCE LeaseContract WITH
    held <- {<<l.token, l.agent>> : l \in Known},
    used <- 1..(nextToken - 1)

(* The engines keep the contract, with failing statements, restarts and       *)
(* several engines over the same rows: a token is granted once, never changes *)
(* hands, and does not come back when it is gone (secrets.rs).                *)
KeepsContract == Contract!Spec
=============================================================================
