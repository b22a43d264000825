--------------------------- MODULE KeyLending_proofs ---------------------------
(***************************************************************************)
(* Proofs about KeyLending, for any number of callers, agents and tokens,  *)
(* with failing statements and restarts.                                   *)
(***************************************************************************)
EXTENDS KeyLending, TLAPS

(* At most one caller of an engine is in its restore, and a call that is past *)
(* the write lock found the leases restored.                                  *)
InRestore(p) == pc[p] \in {"install", "lapse"}

Gated ==
    /\ \A p, q \in Callers : EngineOf[p] = EngineOf[q] /\ InRestore(p) /\ InRestore(q) => p = q
    /\ \A p \in Callers : pc[p] = "write" => restored[EngineOf[p]] = "done"

TypeInv == TypeOK /\ Gated

(* The safety proofs are about processes with one engine. *)
OneEngineOnly == \A e, f \in Engines : e = f

(* Tokens are minted: one the engine, the table or a pending write speaks of   *)
(* has been given out.                                                         *)
Minted ==
    /\ \A e \in Engines : \A l \in leases[e] : l.token < nextToken
    /\ \A r \in rows : r.lease.token < nextToken
    /\ \A e \in Engines : \A l \in snap[e] : l.token < nextToken
    /\ \A p \in Callers : \A w \in todo[p] : w.lease.token < nextToken

OnePerToken(ls) == \A k, l \in ls : k.token = l.token => k = l

(* token is the key of the map and of the table. *)
Keyed ==
    /\ \A e \in Engines : OnePerToken(leases[e]) /\ OnePerToken(snap[e])
    /\ \A r, s \in rows : r.lease.token = s.lease.token => r = s

(* The map is empty until the restore fills it, and what the restore has read *)
(* stays true until then.                                                     *)
SnapSound ==
    /\ \A e \in Engines : restored[e] = "no" => leases[e] = {}
    /\ \A p \in Callers : pc[p] = "install" => leases[EngineOf[p]] = {}
    /\ \A e \in Engines : snap[e] # {} => \E p \in Callers : EngineOf[p] = e /\ pc[p] = "install"
    /\ \A e \in Engines : \A l \in snap[e] : \A r \in rows :
          r.lease.token = l.token => ~r.revoked

(* A lease that is to be marked has left the map. *)
MarkedIsOut ==
    \A p \in Callers : \A w \in todo[p] : w.kind \in {"revoke", "lapse"} =>
        \A e \in Engines : \A l \in leases[e] : l.token # w.lease.token

DeadInv == Minted /\ Keyed /\ SnapSound /\ MarkedIsOut /\ RevokedRowIsDead

-----------------------------------------------------------------------------
(* What the operators build. *)

(* The pending writes of a call are one write per lease. *)
LEMMA WritesFacts ==
    ASSUME NEW kind \in {"insert", "revoke", "lapse", "expiry"}, NEW ls \in SUBSET Lease
    PROVE  /\ Writes(kind, ls) \in SUBSET Write
           /\ Writes(kind, ls) = {} <=> ls = {}
           /\ \A w \in Writes(kind, ls) : w.kind = kind /\ w.lease \in ls
  <1>1. Writes(kind, ls) \in SUBSET Write
    BY DEF Writes, Write
  <1>2. \A w \in Writes(kind, ls) : w.kind = kind /\ w.lease \in ls
    BY DEF Writes
  <1>3. ASSUME NEW l \in ls PROVE [kind |-> kind, lease |-> l] \in Writes(kind, ls)
    BY DEF Writes
  <1>4. QED
    BY <1>1, <1>2, <1>3

(* A statement leaves a table of rows. *)
LEMMA ApplyType ==
    ASSUME rows \subseteq Row, NEW w \in Write
    PROVE  Apply(w) \subseteq Row
  <1>0. w.lease \in Lease /\ w.kind \in {"insert", "revoke", "lapse", "expiry"}
    BY DEF Write
  <1>1. Insert(w.lease) \subseteq Row
    <2>1. [lease |-> w.lease, revoked |-> FALSE] \in Row
      BY <1>0, FALSE \in BOOLEAN DEF Row
    <2>2. QED
      BY <2>1 DEF Insert
  <1>2. MarkRevoked(w.lease) \subseteq Row
    BY <1>0 DEF MarkRevoked, Row
  <1>3. UpdateExpiry(w.lease) \subseteq Row
    <2>1. ASSUME NEW r \in rows PROVE [r EXCEPT !.lease.expires = w.lease.expires] \in Row
      <3>1. r.lease \in Lease /\ w.lease.expires \in Nat
        BY <1>0 DEF Row, Lease
      <3>2. [r.lease EXCEPT !.expires = w.lease.expires] \in Lease
        BY <3>1 DEF Lease
      <3>3. QED
        BY <3>2 DEF Row
    <2>2. QED
      BY <2>1 DEF UpdateExpiry
  <1>4. QED
    BY <1>0, <1>1, <1>2, <1>3 DEF Apply

(* The table's non-revoked rows are leases. *)
LEMMA ActiveType == rows \subseteq Row => ActiveLeases \in SUBSET Lease
  BY DEF ActiveLeases, Row

(* The engine a caller uses. *)
LEMMA EngineType == ASSUME NEW p \in Callers PROVE EngineOf[p] \in Engines
  BY LendingAssumption

-----------------------------------------------------------------------------
(* Type correctness. *)

LEMMA TypeInit == Init => TypeInv
  <1>1. Init => failed \in BOOLEAN
    BY DEF Init
  <1>2. QED
    BY <1>1, LendingAssumption DEF Init, TypeInv, TypeOK, Gated, InRestore

(* The step under the write lock keeps the types. *)
LEMMA HoldType ==
    ASSUME TypeInv, NEW p \in Callers, NEW ls \in SUBSET Lease, NEW ws \in SUBSET Write,
           ws # {}, Ready(p), Hold(p, ls, ws), nextToken' \in 1..(MaxTokens + 1),
           UNCHANGED <<restored, snap, rows, now, revoked, failed, restarts>>
    PROVE  TypeInv'
  <1> USE EngineType DEF TypeInv
  <1>1. /\ leases' \in [Engines -> SUBSET Lease]
        /\ pc' \in [Callers -> {"idle", "install", "lapse", "write"}]
        /\ todo' \in [Callers -> SUBSET Write]
    BY DEF TypeOK, Hold
  <1>2. \A q \in Callers : pc'[q] \in {"lapse", "write"} <=> todo'[q] # {}
    BY DEF TypeOK, Hold
  <1>3. \A q \in Callers : InRestore(q)' <=> InRestore(q)
    BY DEF TypeOK, Hold, InRestore, Ready
  <1>4. \A e \in Engines :
          restored'[e] = "busy" <=>
              \E q \in Callers : EngineOf[q] = e /\ pc'[q] \in {"install", "lapse"}
    BY <1>3 DEF TypeOK, InRestore
  <1>5. \A q \in Callers : pc'[q] = "write" => restored'[EngineOf[q]] = "done"
    BY DEF Gated, Hold, Ready, TypeOK
  <1>6. QED
    BY <1>1, <1>2, <1>3, <1>4, <1>5 DEF TypeOK, Gated

LEMMA BeginRestoreType ==
    ASSUME TypeInv, NEW p \in Callers, BeginRestore(p) PROVE TypeInv'
  <1> DEFINE e == EngineOf[p]
  <1> USE EngineType DEF TypeInv
  <1>0. \A q \in Callers : EngineOf[q] = e => pc[q] = "idle"
    BY DEF TypeOK, Gated, BeginRestore
  <1>a. failed' \in BOOLEAN
    BY DEF TypeOK, BeginRestore
  <1>1. CASE UNCHANGED <<snap, pc>> /\ restored' = [restored EXCEPT ![e] = "done"]
    BY <1>0, <1>a, <1>1 DEF TypeOK, Gated, BeginRestore, InRestore
  <1>2. CASE /\ restored' = [restored EXCEPT ![e] = "busy"]
             /\ snap' = [snap EXCEPT ![e] = ActiveLeases]
             /\ pc' = [pc EXCEPT ![p] = "install"]
    <2>1. snap' \in [Engines -> SUBSET Lease]
      BY <1>2, ActiveType DEF TypeOK
    <2>2. \A q \in Callers : InRestore(q)' <=> InRestore(q) \/ q = p
      BY <1>2 DEF TypeOK, InRestore
    <2>3. Gated'
      BY <1>0, <1>2, <2>2 DEF Gated, TypeOK, InRestore
    <2>4. \A f \in Engines :
            restored'[f] = "busy" <=>
                \E q \in Callers : EngineOf[q] = f /\ pc'[q] \in {"install", "lapse"}
      BY <1>2, <2>2 DEF TypeOK, InRestore
    <2>5. QED
      BY <1>2, <1>a, <2>1, <2>3, <2>4 DEF TypeOK, BeginRestore
  <1>3. QED
    BY <1>1, <1>2 DEF BeginRestore

LEMMA RestoreInstallType ==
    ASSUME TypeInv, NEW p \in Callers, RestoreInstall(p) PROVE TypeInv'
  <1> DEFINE e == EngineOf[p]
             current == {l \in snap[e] : l.expires > now}
             lapsed == snap[e] \ current
  <1> USE EngineType DEF TypeInv
  <1>1. current \in SUBSET Lease /\ lapsed \in SUBSET Lease
    BY DEF TypeOK
  <1> HIDE DEF current, lapsed
  <1>2. Writes("lapse", lapsed) \in SUBSET Write /\ (Writes("lapse", lapsed) = {} <=> lapsed = {})
    BY <1>1, WritesFacts
  <1>3. /\ leases' = [leases EXCEPT ![e] = @ \cup current]
        /\ snap' = [snap EXCEPT ![e] = {}]
        /\ todo' = [todo EXCEPT ![p] = Writes("lapse", lapsed)]
        /\ pc' = [pc EXCEPT ![p] = IF lapsed = {} THEN "idle" ELSE "lapse"]
        /\ restored' = [restored EXCEPT ![e] = IF lapsed = {} THEN "done" ELSE "busy"]
        /\ pc[p] = "install"
        /\ UNCHANGED <<rows, now, nextToken, revoked, failed, restarts>>
    BY DEF RestoreInstall, RestoredOnInstall, current, lapsed
  <1>4. \A q \in Callers : EngineOf[q] = e /\ InRestore(q) => q = p
    BY <1>3 DEF Gated, InRestore
  <1>5. /\ leases' \in [Engines -> SUBSET Lease]
        /\ snap' \in [Engines -> SUBSET Lease]
        /\ todo' \in [Callers -> SUBSET Write]
        /\ pc' \in [Callers -> {"idle", "install", "lapse", "write"}]
        /\ restored' \in [Engines -> {"no", "busy", "done"}]
    BY <1>1, <1>2, <1>3 DEF TypeOK
  <1>6. \A q \in Callers : pc'[q] \in {"lapse", "write"} <=> todo'[q] # {}
    BY <1>2, <1>3 DEF TypeOK
  <1>7. \A q \in Callers : InRestore(q)' <=> InRestore(q) /\ (q = p => lapsed # {})
    BY <1>3 DEF TypeOK, InRestore
  <1>8. \A f \in Engines :
          restored'[f] = "busy" <=>
              \E q \in Callers : EngineOf[q] = f /\ InRestore(q)'
    BY <1>3, <1>4, <1>7 DEF TypeOK, InRestore
  <1>9. \A q \in Callers : pc'[q] = "write" => restored'[EngineOf[q]] = "done"
    BY <1>3, <1>4 DEF TypeOK, Gated, InRestore
  <1>10. QED
    BY <1>3, <1>5, <1>6, <1>7, <1>8, <1>9 DEF TypeOK, Gated, InRestore

LEMMA WriteRowType ==
    ASSUME TypeInv, NEW p \in Callers, NEW w \in todo[p], WriteRow(p, w) PROVE TypeInv'
  <1> DEFINE e == EngineOf[p]
             last == todo[p] = {w}
  <1> USE EngineType DEF TypeInv
  <1>0. w \in Write /\ w.lease.token \in Tokens /\ pc[p] \in {"lapse", "write"}
    BY DEF TypeOK, Write, Lease
  <1>1. rows' \subseteq Row
    BY <1>0, ApplyType DEF WriteRow, TypeOK
  <1>2. /\ todo' = [todo EXCEPT ![p] = @ \ {w}]
        /\ pc' = IF last THEN [pc EXCEPT ![p] = "idle"] ELSE pc
        /\ restored' = IF last THEN [restored EXCEPT ![e] = "done"] ELSE restored
        /\ UNCHANGED <<leases, snap, now, nextToken, restarts>>
        /\ revoked' \subseteq Tokens
        /\ failed' \in BOOLEAN
    BY <1>0 DEF WriteRow, TypeOK
  <1>3. \A q \in Callers : pc'[q] \in {"lapse", "write"} <=> todo'[q] # {}
    BY <1>0, <1>2 DEF TypeOK
  <1>4. \A q \in Callers : EngineOf[q] = e /\ InRestore(q) => q = p
    <2>1. CASE pc[p] = "lapse"
      BY <2>1 DEF Gated, InRestore
    <2>2. CASE pc[p] = "write"
      BY <2>2 DEF Gated, InRestore, TypeOK
    <2>3. QED
      BY <1>0, <2>1, <2>2
  <1>5. \A q \in Callers : InRestore(q)' <=> InRestore(q) /\ ~(q = p /\ last)
    BY <1>2 DEF TypeOK, InRestore
  <1>6. \A f \in Engines :
          restored'[f] = "busy" <=>
              \E q \in Callers : EngineOf[q] = f /\ InRestore(q)'
    <2>1. CASE last
      BY <1>2, <1>4, <1>5, <2>1 DEF TypeOK, InRestore
    <2>2. CASE ~last
      BY <1>2, <1>5, <2>2 DEF TypeOK, InRestore
    <2>3. QED
      BY <2>1, <2>2
  <1>7. \A q \in Callers : pc'[q] = "write" => restored'[EngineOf[q]] = "done"
    BY <1>2 DEF TypeOK, Gated
  <1>8. /\ todo' \in [Callers -> SUBSET Write]
        /\ pc' \in [Callers -> {"idle", "install", "lapse", "write"}]
        /\ restored' \in [Engines -> {"no", "busy", "done"}]
    BY <1>2 DEF TypeOK
  <1>9. QED
    BY <1>1, <1>2, <1>3, <1>5, <1>6, <1>7, <1>8 DEF TypeOK, Gated, InRestore

(* A lend, a removal and an extension put leases into the map and writes on    *)
(* the caller's list.                                                          *)
LEMMA LendType ==
    ASSUME TypeInv, NEW p \in Callers, NEW a \in Agents, NEW ttl \in Ttls, Lend(p, a, ttl)
    PROVE  TypeInv'
  <1> DEFINE l == [token |-> nextToken, agent |-> a, expires |-> now + ttl]
  <1>1. l \in Lease
    BY LendingAssumption DEF Lend, Lease, TypeInv, TypeOK
  <1>2. Held(p) \in SUBSET Lease
    BY EngineType DEF TypeInv, TypeOK, Held
  <1>3. nextToken' \in 1..(MaxTokens + 1)
    BY LendingAssumption DEF Lend, Tokens, TypeInv, TypeOK
  <1> HIDE DEF l
  <1>4. Held(p) \cup {l} \in SUBSET Lease /\ Writes("insert", {l}) \in SUBSET Write
        /\ Writes("insert", {l}) # {}
    BY <1>1, <1>2, WritesFacts
  <1>5. Ready(p) /\ Hold(p, Held(p) \cup {l}, Writes("insert", {l}))
    BY DEF Lend, l
  <1>6. QED
    BY <1>3, <1>4, <1>5, HoldType DEF Lend

LEMMA RemoveType ==
    ASSUME TypeInv, NEW p \in Callers, NEW kind \in {"revoke", "lapse"},
           NEW ls \in SUBSET Held(p), Remove(p, kind, ls)
    PROVE  TypeInv'
  <1>1. Held(p) \in SUBSET Lease
    BY EngineType DEF TypeInv, TypeOK, Held
  <1>2. Writes(kind, ls) \in SUBSET Write /\ Writes(kind, ls) # {}
    BY <1>1, WritesFacts DEF Remove
  <1>3. nextToken' \in 1..(MaxTokens + 1)
    BY DEF Remove, TypeInv, TypeOK
  <1>4. QED
    BY <1>1, <1>2, <1>3, HoldType DEF Remove

LEMMA ExtendType ==
    ASSUME TypeInv, NEW p \in Callers, NEW ls \in SUBSET Held(p),
           NEW new \in SUBSET Lease, new # {}, Extend(p, ls, new)
    PROVE  TypeInv'
  <1>1. Held(p) \in SUBSET Lease
    BY EngineType DEF TypeInv, TypeOK, Held
  <1>2. Writes("expiry", new) \in SUBSET Write /\ Writes("expiry", new) # {}
    BY WritesFacts
  <1>3. nextToken' \in 1..(MaxTokens + 1)
    BY DEF Extend, TypeInv, TypeOK
  <1>4. QED
    BY <1>1, <1>2, <1>3, HoldType DEF Extend

LEMMA TickType == ASSUME TypeInv, Tick PROVE TypeInv'
  BY DEF TypeInv, TypeOK, Gated, InRestore, Tick

LEMMA RestartType == ASSUME TypeInv, Restart PROVE TypeInv'
  BY LendingAssumption DEF TypeInv, TypeOK, Gated, InRestore, Restart

(* Extending a set of held leases yields leases of the same tokens. *)
LEMMA RenewedFacts ==
    ASSUME NEW ls \in SUBSET Lease, NEW ttl \in Nat, now \in Nat
    PROVE  /\ Renewed(ls, ttl) \in SUBSET Lease
           /\ ls # {} => Renewed(ls, ttl) # {}
           /\ \A n \in Renewed(ls, ttl) : \E l \in ls : l.token = n.token
           /\ OnePerToken(ls) => OnePerToken(Renewed(ls, ttl))
  <1> DEFINE new(l) == [l EXCEPT !.expires = now + ttl]
  <1>1. \A l \in ls : new(l) \in Lease /\ new(l).token = l.token
    BY DEF Lease
  <1>2. Renewed(ls, ttl) = {new(l) : l \in ls}
    BY DEF Renewed
  <1> HIDE DEF new
  <1>3. OnePerToken(ls) => OnePerToken(Renewed(ls, ttl))
    BY <1>1, <1>2 DEF OnePerToken
  <1>4. QED
    BY <1>1, <1>2, <1>3

LEMMA BackedOffFacts ==
    ASSUME NEW ls \in SUBSET Lease, NEW seconds \in Nat, now \in Nat
    PROVE  /\ BackedOff(ls, seconds) \in SUBSET Lease
           /\ ls # {} => BackedOff(ls, seconds) # {}
           /\ \A n \in BackedOff(ls, seconds) : \E l \in ls : l.token = n.token
           /\ OnePerToken(ls) => OnePerToken(BackedOff(ls, seconds))
  <1> DEFINE new(l) == [l EXCEPT !.expires = BackoffExpiry(l, seconds)]
  <1>1. \A l \in ls : BackoffExpiry(l, seconds) \in Nat
    BY DEF BackoffExpiry, Lease
  <1>2. \A l \in ls : new(l) \in Lease /\ new(l).token = l.token
    BY <1>1 DEF Lease
  <1>3. BackedOff(ls, seconds) = {new(l) : l \in ls}
    BY DEF BackedOff
  <1> HIDE DEF new
  <1>4. OnePerToken(ls) => OnePerToken(BackedOff(ls, seconds))
    BY <1>2, <1>3 DEF OnePerToken
  <1>5. QED
    BY <1>2, <1>3, <1>4

LEMMA HeldType ==
    ASSUME TypeInv, NEW p \in Callers
    PROVE  /\ Held(p) \in SUBSET Lease
           /\ \A a \in Agents : HeldBy(p, a) \in SUBSET Held(p)
           /\ \A t \in Tokens : HeldAs(p, t) \in SUBSET Held(p)
  BY EngineType DEF TypeInv, TypeOK, Held, HeldBy, HeldAs

LEMMA CallType == ASSUME TypeInv, NEW p \in Callers, Call(p) PROVE TypeInv'
  <1> USE HeldType, LendingAssumption
  <1>0. now \in Nat
    BY DEF TypeInv, TypeOK
  <1>1. ASSUME NEW a \in Agents, NEW ttl \in Ttls, Lend(p, a, ttl) PROVE TypeInv'
    BY <1>1, LendType
  <1>2. ASSUME NEW t \in Tokens, Revoke(p, t) PROVE TypeInv'
    BY <1>2, RemoveType DEF Revoke
  <1>3. ASSUME NEW a \in Agents, RevokeForAgent(p, a) PROVE TypeInv'
    BY <1>3, RemoveType DEF RevokeForAgent
  <1>4. ASSUME NEW t \in Tokens, NEW ttl \in Ttls, Renew(p, t, ttl) PROVE TypeInv'
    <2>1. HeldAs(p, t) \in SUBSET Lease /\ HeldAs(p, t) # {}
      BY <1>4 DEF Renew, Extend
    <2>2. Renewed(HeldAs(p, t), ttl) \in SUBSET Lease /\ Renewed(HeldAs(p, t), ttl) # {}
      BY <1>0, <2>1, RenewedFacts
    <2>3. QED
      BY <1>4, <2>2, ExtendType DEF Renew
  <1>5. ASSUME NEW a \in Agents, NEW ttl \in Ttls, RenewForAgent(p, a, ttl) PROVE TypeInv'
    <2>1. HeldBy(p, a) \in SUBSET Lease /\ HeldBy(p, a) # {}
      BY <1>5 DEF RenewForAgent, Extend
    <2>2. Renewed(HeldBy(p, a), ttl) \in SUBSET Lease /\ Renewed(HeldBy(p, a), ttl) # {}
      BY <1>0, <2>1, RenewedFacts
    <2>3. QED
      BY <1>5, <2>2, ExtendType DEF RenewForAgent
  <1>6. ASSUME NEW t \in Tokens, NEW ttl \in Ttls, Backoff(p, t, ttl) PROVE TypeInv'
    <2>1. HeldAs(p, t) \in SUBSET Lease /\ HeldAs(p, t) # {}
      BY <1>6 DEF Backoff, Extend
    <2>2. BackedOff(HeldAs(p, t), ttl) \in SUBSET Lease /\ BackedOff(HeldAs(p, t), ttl) # {}
      BY <1>0, <2>1, BackedOffFacts
    <2>3. QED
      BY <1>6, <2>2, ExtendType DEF Backoff
  <1>7. QED
    BY <1>1, <1>2, <1>3, <1>4, <1>5, <1>6 DEF Call

LEMMA TypeStep == ASSUME TypeInv, [Next]_vars PROVE TypeInv'
  <1>1. ASSUME NEW p \in Callers, BeginRestore(p) PROVE TypeInv'
    BY <1>1, BeginRestoreType
  <1>2. ASSUME NEW p \in Callers, Continue(p) PROVE TypeInv'
    BY <1>2, RestoreInstallType, WriteRowType DEF Continue
  <1>3. ASSUME NEW p \in Callers \ Cleaners, Call(p) PROVE TypeInv'
    BY <1>3, CallType
  <1>4. ASSUME NEW p \in Cleaners, CleanupExpired(p) PROVE TypeInv'
    <2>1. p \in Callers /\ {l \in Held(p) : IsExpired(l)} \in SUBSET Held(p)
      BY LendingAssumption
    <2>2. QED
      BY <1>4, <2>1, RemoveType DEF CleanupExpired
  <1>5. CASE Tick
    BY <1>5, TickType
  <1>6. CASE Restart
    BY <1>6, RestartType
  <1>7. CASE UNCHANGED vars
    BY <1>7 DEF vars, TypeInv, TypeOK, Gated, InRestore
  <1>8. QED
    BY <1>1, <1>2, <1>3, <1>4, <1>5, <1>6, <1>7 DEF Next

(* Every call of every caller leaves leases in the maps and rows in the table, *)
(* an engine is in its restore exactly while one caller runs it, and a caller  *)
(* is in a call exactly while it has statements left (secrets.rs).             *)
THEOREM TypeCorrect == Spec => []TypeOK
  <1>1. TypeInv => TypeOK
    BY DEF TypeInv
  <1>2. QED
    BY <1>1, TypeInit, TypeStep, PTL DEF Spec

-----------------------------------------------------------------------------
(* A revoked row is dead, in a process with one engine. *)

LEMMA DeadInit == Init => DeadInv
  BY DEF Init, DeadInv, Minted, Keyed, OnePerToken, SnapSound, MarkedIsOut, RevokedRowIsDead

(* While a call is past the write lock nobody is restoring. *)
LEMMA NobodyInstalls ==
    ASSUME TypeInv, DeadInv, OneEngineOnly, NEW p \in Callers,
           restored[EngineOf[p]] = "done" \/ pc[p] = "lapse"
    PROVE  /\ \A q \in Callers : pc[q] # "install"
           /\ \A e \in Engines : snap[e] = {}
  <1> USE EngineType
  <1>1. \A q \in Callers : EngineOf[q] = EngineOf[p]
    BY DEF OneEngineOnly
  <1>2. \A q \in Callers : pc[q] # "install"
    <2>1. CASE restored[EngineOf[p]] = "done"
      BY <1>1, <2>1 DEF TypeInv, TypeOK
    <2>2. CASE pc[p] = "lapse"
      BY <1>1, <2>2 DEF TypeInv, Gated, InRestore
    <2>3. QED
      BY <2>1, <2>2
  <1>3. QED
    BY <1>2 DEF DeadInv, SnapSound

(* A restore that is at its install step is alone. *)
LEMMA InstallAlone ==
    ASSUME TypeInv, OneEngineOnly, NEW p \in Callers, pc[p] = "install"
    PROVE  \A q \in Callers : todo[q] = {}
  <1>1. \A q \in Callers : EngineOf[q] = EngineOf[p]
    BY EngineType DEF OneEngineOnly
  <1>2. restored[EngineOf[p]] = "busy"
    BY EngineType DEF TypeInv, TypeOK
  <1>3. \A q \in Callers : pc[q] \notin {"lapse", "write"}
    BY <1>1, <1>2 DEF TypeInv, Gated, InRestore
  <1>4. QED
    BY <1>3 DEF TypeInv, TypeOK

(* The step under the write lock: every lease of the new map has the token of *)
(* a lease of the old one or the token being minted, and what is to be marked *)
(* is not in the new map.                                                     *)
LEMMA HoldDead ==
    ASSUME TypeInv, DeadInv, OneEngineOnly, NEW p \in Callers,
           NEW ls \in SUBSET Lease, NEW ws \in SUBSET Write,
           Ready(p), Hold(p, ls, ws),
           UNCHANGED <<restored, snap, rows>>,
           nextToken' \in {nextToken, nextToken + 1},
           OnePerToken(ls),
           \A l \in ls : \/ \E k \in Held(p) : k.token = l.token
                         \/ l.token = nextToken /\ nextToken' = nextToken + 1,
           \A w \in ws : w.lease.token < nextToken',
           \A w \in ws : w.kind \in {"revoke", "lapse"} => \A l \in ls : l.token # w.lease.token
    PROVE  DeadInv'
  <1> DEFINE e == EngineOf[p]
  <1> USE EngineType
  <1>0. /\ nextToken \in Nat
        /\ \A f \in Engines : f = e
        /\ e \in Engines
        /\ leases'[e] = ls
        /\ todo' = [todo EXCEPT ![p] = ws]
        /\ pc' = [pc EXCEPT ![p] = "write"]
        /\ restored[e] = "done"
    BY DEF TypeInv, TypeOK, OneEngineOnly, Hold, Ready
  <1>1. \A q \in Callers : pc[q] # "install"
    BY <1>0, NobodyInstalls
  <1>2. \A f \in Engines : snap[f] = {}
    BY <1>0, NobodyInstalls
  <1>3. \A k \in Held(p) : k.token < nextToken
    BY <1>0 DEF DeadInv, Minted, Held
  <1>4. \A l \in ls : l.token \in Nat /\ l.token < nextToken'
    BY <1>0, <1>3 DEF Lease, Tokens
  <1>5. Minted'
    <2>1. \A q \in Callers : \A w \in todo'[q] : w.lease.token < nextToken'
      <3>1. \A q \in Callers : \A w \in todo[q] :
              w.lease.token \in Nat /\ w.lease.token < nextToken
        BY DEF DeadInv, Minted, TypeInv, TypeOK, Write, Lease, Tokens
      <3>2. QED
        BY <1>0, <3>1 DEF TypeInv, TypeOK
    <2>2. \A r \in rows' : r.lease.token < nextToken'
      <3>1. \A r \in rows : r.lease.token \in Nat /\ r.lease.token < nextToken
        BY DEF DeadInv, Minted, TypeInv, TypeOK, Row, Lease, Tokens
      <3>2. QED
        BY <1>0, <3>1
    <2>3. QED
      BY <1>0, <1>2, <1>4, <2>1, <2>2 DEF Minted
  <1>6. Keyed'
    BY <1>0, <1>2 DEF DeadInv, Keyed, OnePerToken
  <1>7. SnapSound'
    BY <1>0, <1>1, <1>2 DEF SnapSound, TypeInv, TypeOK
  <1>8. MarkedIsOut'
    <2>1. ASSUME NEW q \in Callers, NEW w \in todo[q], w.kind \in {"revoke", "lapse"},
                 NEW l \in ls
          PROVE  l.token # w.lease.token
      <3>1. w.lease.token \in Nat /\ w.lease.token < nextToken
        BY DEF DeadInv, Minted, TypeInv, TypeOK, Write, Lease, Tokens
      <3>2. \A k \in Held(p) : k.token # w.lease.token
        BY <1>0, <2>1 DEF DeadInv, MarkedIsOut, Held
      <3>3. QED
        BY <1>0, <3>1, <3>2
    <2>2. QED
      BY <1>0, <2>1 DEF MarkedIsOut, TypeInv, TypeOK
  <1>9. RevokedRowIsDead'
    <2>1. ASSUME NEW r \in rows, r.revoked, NEW l \in ls PROVE l.token # r.lease.token
      <3>1. r.lease.token \in Nat /\ r.lease.token < nextToken
        BY DEF DeadInv, Minted, TypeInv, TypeOK, Row, Lease, Tokens
      <3>2. \A k \in Held(p) : k.token # r.lease.token
        BY <1>0, <2>1 DEF DeadInv, RevokedRowIsDead, Held
      <3>3. QED
        BY <1>0, <3>1, <3>2
    <2>2. QED
      BY <1>0, <2>1 DEF RevokedRowIsDead
  <1>10. QED
    BY <1>5, <1>6, <1>7, <1>8, <1>9 DEF DeadInv

LEMMA LendDead ==
    ASSUME TypeInv, DeadInv, OneEngineOnly, NEW p \in Callers, NEW a \in Agents,
           NEW ttl \in Ttls, Lend(p, a, ttl)
    PROVE  DeadInv'
  <1> DEFINE l == [token |-> nextToken, agent |-> a, expires |-> now + ttl]
  <1>1. l \in Lease /\ l.token = nextToken /\ nextToken \in Nat
    BY LendingAssumption DEF Lend, Lease, TypeInv, TypeOK
  <1>2. Ready(p) /\ Hold(p, Held(p) \cup {l}, Writes("insert", {l}))
        /\ nextToken' = nextToken + 1 /\ UNCHANGED <<restored, snap, rows>>
    BY DEF Lend
  <1> HIDE DEF l
  <1>3. Held(p) \in SUBSET Lease
    BY HeldType
  <1>4. \A k \in Held(p) : k.token \in Nat /\ k.token < nextToken
    BY <1>3, EngineType DEF DeadInv, Minted, Held, Lease, Tokens
  <1>5. OnePerToken(Held(p) \cup {l})
    <2>1. OnePerToken(Held(p))
      BY EngineType DEF DeadInv, Keyed, Held
    <2>2. \A k \in Held(p) : k.token # l.token
      BY <1>1, <1>4
    <2>3. QED
      BY <2>1, <2>2 DEF OnePerToken
  <1>6. /\ Writes("insert", {l}) \in SUBSET Write
        /\ \A w \in Writes("insert", {l}) : w.kind = "insert" /\ w.lease \in {l}
    BY <1>1, WritesFacts
  <1>7. \A w \in Writes("insert", {l}) : w.kind = "insert" /\ w.lease.token < nextToken'
    <2>1. l.token < nextToken'
      BY <1>1, <1>2
    <2>2. QED
      BY <1>6, <2>1
  <1>8. Held(p) \cup {l} \in SUBSET Lease
    BY <1>1, <1>3
  <1>9. \A m \in Held(p) \cup {l} :
          \/ \E k \in Held(p) : k.token = m.token
          \/ m.token = nextToken /\ nextToken' = nextToken + 1
    BY <1>1, <1>2
  <1>10. nextToken' \in {nextToken, nextToken + 1}
    BY <1>2
  <1>11. \A w \in Writes("insert", {l}) : w.kind \in {"revoke", "lapse"} =>
           \A m \in Held(p) \cup {l} : m.token # w.lease.token
    BY <1>7
  <1>12. QED
    BY <1>2, <1>5, <1>6, <1>7, <1>8, <1>9, <1>10, <1>11, HoldDead

LEMMA RemoveDead ==
    ASSUME TypeInv, DeadInv, OneEngineOnly, NEW p \in Callers,
           NEW kind \in {"revoke", "lapse"}, NEW ls \in SUBSET Held(p), Remove(p, kind, ls)
    PROVE  DeadInv'
  <1>1. Held(p) \in SUBSET Lease /\ nextToken \in Nat
    BY HeldType DEF TypeInv, TypeOK
  <1>2. OnePerToken(Held(p)) /\ \A k \in Held(p) : k.token < nextToken
    BY EngineType DEF DeadInv, Keyed, Minted, Held
  <1>3. /\ Writes(kind, ls) \in SUBSET Write
        /\ \A w \in Writes(kind, ls) : w.lease \in ls
    BY <1>1, WritesFacts
  <1>4. Ready(p) /\ Hold(p, Held(p) \ ls, Writes(kind, ls))
        /\ nextToken' = nextToken /\ UNCHANGED <<restored, snap, rows>>
    BY DEF Remove
  <1>5. OnePerToken(Held(p) \ ls)
    BY <1>2 DEF OnePerToken
  <1>6. \A w \in Writes(kind, ls) : \A l \in Held(p) \ ls : l.token # w.lease.token
    BY <1>2, <1>3 DEF OnePerToken
  <1>7. \A w \in Writes(kind, ls) : w.lease.token < nextToken'
    BY <1>2, <1>3, <1>4
  <1>8. /\ Held(p) \ ls \in SUBSET Lease
        /\ nextToken' \in {nextToken, nextToken + 1}
        /\ \A l \in Held(p) \ ls : \E k \in Held(p) : k.token = l.token
    BY <1>1, <1>4
  <1>9. QED
    BY <1>3, <1>4, <1>5, <1>6, <1>7, <1>8, HoldDead

LEMMA ExtendDead ==
    ASSUME TypeInv, DeadInv, OneEngineOnly, NEW p \in Callers, NEW ls \in SUBSET Held(p),
           NEW new \in SUBSET Lease, Extend(p, ls, new), OnePerToken(new),
           \A n \in new : \E l \in ls : l.token = n.token
    PROVE  DeadInv'
  <1>1. Held(p) \in SUBSET Lease /\ nextToken \in Nat
    BY HeldType DEF TypeInv, TypeOK
  <1>2. OnePerToken(Held(p)) /\ \A k \in Held(p) : k.token < nextToken
    BY EngineType DEF DeadInv, Keyed, Minted, Held
  <1>3. /\ Writes("expiry", new) \in SUBSET Write
        /\ \A w \in Writes("expiry", new) : w.kind = "expiry" /\ w.lease \in new
    BY WritesFacts
  <1>4. Ready(p) /\ Hold(p, (Held(p) \ ls) \cup new, Writes("expiry", new))
        /\ nextToken' = nextToken /\ UNCHANGED <<restored, snap, rows>>
    BY DEF Extend
  <1>5. OnePerToken((Held(p) \ ls) \cup new)
    <2>1. \A k \in Held(p) \ ls : \A n \in new : k.token # n.token
      BY <1>2 DEF OnePerToken
    <2>2. QED
      BY <1>2, <2>1 DEF OnePerToken
  <1>6. \A w \in Writes("expiry", new) : w.kind = "expiry" /\ w.lease.token < nextToken'
    <2>1. \A n \in new : \E k \in Held(p) : k.token = n.token
      OBVIOUS
    <2>2. \A n \in new : n.token < nextToken
      BY <1>2, <2>1
    <2>3. QED
      BY <1>3, <1>4, <2>2
  <1>7. \A l \in (Held(p) \ ls) \cup new : \E k \in Held(p) : k.token = l.token
    OBVIOUS
  <1>8. /\ (Held(p) \ ls) \cup new \in SUBSET Lease
        /\ nextToken' \in {nextToken, nextToken + 1}
    BY <1>1, <1>4
  <1>9. \A w \in Writes("expiry", new) : w.kind \in {"revoke", "lapse"} =>
          \A l \in (Held(p) \ ls) \cup new : l.token # w.lease.token
    BY <1>6
  <1>10. QED
    BY <1>3, <1>4, <1>5, <1>6, <1>7, <1>8, <1>9, HoldDead

(* What a statement does to the table: no token appears but the one it is     *)
(* about, and only mark_lease_revoked makes a row revoked.                    *)
LEMMA ApplyFacts ==
    ASSUME rows \subseteq Row, NEW w \in Write,
           \A r, s \in rows : r.lease.token = s.lease.token => r = s
    PROVE  /\ \A r \in Apply(w) :
                 \/ r.lease.token = w.lease.token
                 \/ \E s \in rows : s.lease.token = r.lease.token
           /\ \A r, s \in Apply(w) : r.lease.token = s.lease.token => r = s
           /\ \A r \in Apply(w) : r.revoked =>
                 \/ w.kind \in {"revoke", "lapse"} /\ r.lease.token = w.lease.token
                 \/ \E s \in rows : s.revoked /\ s.lease.token = r.lease.token
  <1>1. CASE w.kind = "insert"
    <2> DEFINE row == [lease |-> w.lease, revoked |-> FALSE]
    <2>1. Apply(w) = {r \in rows : r.lease.token # w.lease.token} \cup {row}
      BY <1>1 DEF Apply, Insert
    <2>2. row.lease = w.lease /\ ~row.revoked
      OBVIOUS
    <2> HIDE DEF row
    <2>3. QED
      BY <2>1, <2>2
  <1>2. CASE w.kind \in {"revoke", "lapse"}
    <2> DEFINE mark(r) == IF r.lease.token = w.lease.token THEN [r EXCEPT !.revoked = TRUE] ELSE r
    <2>1. Apply(w) = {mark(r) : r \in rows}
      BY <1>2 DEF Apply, MarkRevoked
    <2>2. \A r \in rows : /\ mark(r).lease = r.lease
                          /\ r.lease.token # w.lease.token => mark(r) = r
      BY DEF Row
    <2> HIDE DEF mark
    <2>3. QED
      BY <1>2, <2>1, <2>2
  <1>3. CASE w.kind = "expiry"
    <2> DEFINE upd(r) == IF r.lease.token = w.lease.token
                            THEN [r EXCEPT !.lease.expires = w.lease.expires] ELSE r
    <2>1. Apply(w) = {upd(r) : r \in rows}
      BY <1>3 DEF Apply, UpdateExpiry
    <2>2. \A r \in rows : /\ upd(r).lease.token = r.lease.token
                          /\ upd(r).revoked = r.revoked
      BY DEF Row, Lease
    <2> HIDE DEF upd
    <2>3. QED
      BY <2>1, <2>2
  <1>4. QED
    BY <1>1, <1>2, <1>3 DEF Write

LEMMA WriteRowDead ==
    ASSUME TypeInv, DeadInv, OneEngineOnly, NEW p \in Callers, NEW w \in todo[p],
           WriteRow(p, w)
    PROVE  DeadInv'
  <1> USE EngineType
  <1>0. /\ w \in Write /\ rows \subseteq Row
        /\ pc[p] \in {"lapse", "write"}
        /\ UNCHANGED <<leases, snap, nextToken>>
        /\ \A q \in Callers : todo'[q] \subseteq todo[q]
        /\ \A q \in Callers : pc'[q] = "install" => pc[q] = "install"
        /\ \A e \in Engines : restored'[e] = "no" => restored[e] = "no"
    BY DEF TypeInv, TypeOK, WriteRow
  <1>1. /\ \A q \in Callers : pc[q] # "install"
        /\ \A e \in Engines : snap[e] = {}
    BY <1>0, NobodyInstalls DEF TypeInv, Gated
  <1>2. \A r, s \in rows : r.lease.token = s.lease.token => r = s
    BY DEF DeadInv, Keyed
  <1>3. /\ \A r \in rows' :
             \/ r.lease.token = w.lease.token
             \/ \E s \in rows : s.lease.token = r.lease.token
        /\ \A r, s \in rows' : r.lease.token = s.lease.token => r = s
        /\ \A r \in rows' : r.revoked =>
             \/ w.kind \in {"revoke", "lapse"} /\ r.lease.token = w.lease.token
             \/ \E s \in rows : s.revoked /\ s.lease.token = r.lease.token
    <2>1. CASE rows' = Apply(w)
      BY <1>0, <1>2, <2>1, ApplyFacts
    <2>2. CASE rows' = rows
      BY <1>2, <2>2
    <2>3. QED
      BY <2>1, <2>2 DEF WriteRow
  <1>4. Minted'
    <2>1. w.lease.token < nextToken /\ \A s \in rows : s.lease.token < nextToken
      BY DEF DeadInv, Minted
    <2>2. \A r \in rows' : r.lease.token < nextToken
      BY <1>3, <2>1
    <2>3. QED
      BY <1>0, <2>2 DEF DeadInv, Minted
  <1>5. Keyed'
    BY <1>0, <1>3 DEF DeadInv, Keyed, OnePerToken
  <1>6. SnapSound'
    BY <1>0, <1>1 DEF DeadInv, SnapSound
  <1>7. MarkedIsOut'
    BY <1>0 DEF DeadInv, MarkedIsOut
  <1>8. RevokedRowIsDead'
    <2>1. w.kind \in {"revoke", "lapse"} =>
            \A e \in Engines : \A l \in leases[e] : l.token # w.lease.token
      BY DEF DeadInv, MarkedIsOut
    <2>2. ASSUME NEW r \in rows', r.revoked, NEW e \in Engines, NEW l \in leases[e]
          PROVE  l.token # r.lease.token
      BY <1>3, <2>1, <2>2 DEF DeadInv, RevokedRowIsDead
    <2>3. QED
      BY <1>0, <2>2 DEF RevokedRowIsDead
  <1>9. QED
    BY <1>4, <1>5, <1>6, <1>7, <1>8 DEF DeadInv

LEMMA BeginRestoreDead ==
    ASSUME TypeInv, DeadInv, OneEngineOnly, NEW p \in Callers, BeginRestore(p)
    PROVE  DeadInv'
  <1> DEFINE e == EngineOf[p]
  <1> USE EngineType
  <1>0. /\ e \in Engines /\ restored[e] = "no" /\ leases[e] = {}
        /\ UNCHANGED <<leases, rows, nextToken, todo>>
        /\ \A f \in Engines : f = e
    BY DEF BeginRestore, DeadInv, SnapSound, OneEngineOnly
  <1>1. MarkedIsOut' /\ RevokedRowIsDead'
    BY <1>0 DEF DeadInv, MarkedIsOut, RevokedRowIsDead
  <1>2. CASE UNCHANGED <<snap, pc>>
    <2>1. Minted' /\ Keyed'
      BY <1>0, <1>2 DEF DeadInv, Minted, Keyed, OnePerToken
    <2>2. SnapSound'
      BY <1>0, <1>2 DEF DeadInv, SnapSound
    <2>3. QED
      BY <1>1, <2>1, <2>2 DEF DeadInv
  <1>3. CASE /\ snap' = [snap EXCEPT ![e] = ActiveLeases]
             /\ pc' = [pc EXCEPT ![p] = "install"]
    <2>1. snap'[e] = ActiveLeases
      BY <1>0, <1>3 DEF TypeInv, TypeOK
    <2>2. \A l \in ActiveLeases : \E r \in rows : r.lease = l /\ ~r.revoked
      BY DEF ActiveLeases
    <2>3. \A r, s \in rows : r.lease.token = s.lease.token => r = s
      BY DEF DeadInv, Keyed
    <2>4. Minted'
      <3>1. \A l \in ActiveLeases : l.token < nextToken
        BY <2>2 DEF DeadInv, Minted
      <3>2. QED
        BY <1>0, <2>1, <3>1 DEF DeadInv, Minted
    <2>5. Keyed'
      <3>1. OnePerToken(ActiveLeases)
        BY <2>2, <2>3 DEF OnePerToken
      <3>2. QED
        BY <1>0, <2>1, <3>1 DEF DeadInv, Keyed, OnePerToken
    <2>6. SnapSound'
      <3>1. \A l \in ActiveLeases : \A r \in rows : r.lease.token = l.token => ~r.revoked
        BY <2>2, <2>3
      <3>2. EngineOf[p] = e /\ pc'[p] = "install"
        BY <1>3 DEF TypeInv, TypeOK
      <3>3. \A f \in Engines : leases'[f] = {}
        BY <1>0
      <3>4. QED
        BY <1>0, <2>1, <3>1, <3>2, <3>3 DEF SnapSound
    <2>7. QED
      BY <1>1, <2>4, <2>5, <2>6 DEF DeadInv
  <1>4. QED
    BY <1>2, <1>3 DEF BeginRestore

LEMMA RestoreInstallDead ==
    ASSUME TypeInv, DeadInv, OneEngineOnly, NEW p \in Callers, RestoreInstall(p)
    PROVE  DeadInv'
  <1> DEFINE e == EngineOf[p]
             current == {l \in snap[e] : l.expires > now}
             lapsed == snap[e] \ current
  <1> USE EngineType
  <1>1. /\ e \in Engines
        /\ \A f \in Engines : f = e
        /\ leases[e] = {}
        /\ snap[e] \in SUBSET Lease
        /\ \A q \in Callers : todo[q] = {}
    BY InstallAlone DEF RestoreInstall, DeadInv, SnapSound, OneEngineOnly, TypeInv, TypeOK
  <1>2. current \in SUBSET snap[e] /\ lapsed \in SUBSET snap[e] /\ current \cap lapsed = {}
    OBVIOUS
  <1> HIDE DEF current, lapsed
  <1>3. /\ leases'[e] = current
        /\ snap'[e] = {}
        /\ todo' = [todo EXCEPT ![p] = Writes("lapse", lapsed)]
        /\ pc'[p] # "install" /\ restored'[e] # "no"
        /\ UNCHANGED <<rows, nextToken>>
    <2>1. /\ leases' = [leases EXCEPT ![e] = @ \cup current]
          /\ snap' = [snap EXCEPT ![e] = {}]
          /\ todo' = [todo EXCEPT ![p] = Writes("lapse", lapsed)]
          /\ pc' = [pc EXCEPT ![p] = IF lapsed = {} THEN "idle" ELSE "lapse"]
          /\ restored' = [restored EXCEPT ![e] = IF lapsed = {} THEN "done" ELSE "busy"]
          /\ UNCHANGED <<rows, nextToken>>
      BY DEF RestoreInstall, RestoredOnInstall, current, lapsed
    <2>2. QED
      BY <1>1, <2>1 DEF TypeInv, TypeOK
  <1>4. \A q \in Callers : pc'[q] # "install"
    <2>1. \A q \in Callers : pc[q] = "install" => q = p
      BY <1>1 DEF TypeInv, Gated, InRestore, RestoreInstall
    <2>2. QED
      BY <1>3, <2>1 DEF RestoreInstall, TypeInv, TypeOK
  <1>5. \A w \in Writes("lapse", lapsed) : w.lease \in lapsed
    BY <1>1, <1>2, WritesFacts
  <1>6. \A q \in Callers : \A w \in todo'[q] : w.lease \in lapsed
    BY <1>1, <1>3, <1>5 DEF TypeInv, TypeOK
  <1>7. OnePerToken(snap[e]) /\ \A l \in snap[e] : l.token < nextToken
    BY <1>1 DEF DeadInv, Keyed, Minted
  <1>8. Minted'
    BY <1>1, <1>2, <1>3, <1>6, <1>7 DEF DeadInv, Minted
  <1>9. Keyed'
    BY <1>1, <1>2, <1>3, <1>7 DEF DeadInv, Keyed, OnePerToken
  <1>10. SnapSound'
    BY <1>1, <1>3, <1>4 DEF SnapSound
  <1>11. MarkedIsOut'
    <2>1. \A k \in lapsed : \A l \in current : l.token # k.token
      BY <1>2, <1>7 DEF OnePerToken
    <2>2. QED
      BY <1>1, <1>3, <1>6, <2>1 DEF MarkedIsOut
  <1>12. RevokedRowIsDead'
    BY <1>1, <1>2, <1>3 DEF DeadInv, SnapSound, RevokedRowIsDead
  <1>13. QED
    BY <1>8, <1>9, <1>10, <1>11, <1>12 DEF DeadInv

LEMMA CallDead ==
    ASSUME TypeInv, DeadInv, OneEngineOnly, NEW p \in Callers, Call(p) PROVE DeadInv'
  <1> USE HeldType, LendingAssumption
  <1>0. now \in Nat /\ \A ls \in SUBSET Held(p) : OnePerToken(ls) /\ ls \in SUBSET Lease
    BY EngineType DEF TypeInv, TypeOK, DeadInv, Keyed, Held, OnePerToken
  <1>1. ASSUME NEW a \in Agents, NEW ttl \in Ttls, Lend(p, a, ttl) PROVE DeadInv'
    BY <1>1, LendDead
  <1>2. ASSUME NEW t \in Tokens, Revoke(p, t) PROVE DeadInv'
    BY <1>2, RemoveDead DEF Revoke
  <1>3. ASSUME NEW a \in Agents, RevokeForAgent(p, a) PROVE DeadInv'
    BY <1>3, RemoveDead DEF RevokeForAgent
  <1>4. ASSUME NEW t \in Tokens, NEW ttl \in Ttls, Renew(p, t, ttl) PROVE DeadInv'
    <2>1. HeldAs(p, t) \in SUBSET Held(p) /\ HeldAs(p, t) \in SUBSET Lease
          /\ OnePerToken(HeldAs(p, t))
      BY <1>0
    <2>2. /\ Renewed(HeldAs(p, t), ttl) \in SUBSET Lease
          /\ \A n \in Renewed(HeldAs(p, t), ttl) : \E l \in HeldAs(p, t) : l.token = n.token
          /\ OnePerToken(Renewed(HeldAs(p, t), ttl))
      BY <1>0, <2>1, RenewedFacts
    <2>3. QED
      BY <1>4, <2>1, <2>2, ExtendDead DEF Renew
  <1>5. ASSUME NEW a \in Agents, NEW ttl \in Ttls, RenewForAgent(p, a, ttl) PROVE DeadInv'
    <2>1. HeldBy(p, a) \in SUBSET Held(p) /\ HeldBy(p, a) \in SUBSET Lease
          /\ OnePerToken(HeldBy(p, a))
      BY <1>0
    <2>2. /\ Renewed(HeldBy(p, a), ttl) \in SUBSET Lease
          /\ \A n \in Renewed(HeldBy(p, a), ttl) : \E l \in HeldBy(p, a) : l.token = n.token
          /\ OnePerToken(Renewed(HeldBy(p, a), ttl))
      BY <1>0, <2>1, RenewedFacts
    <2>3. QED
      BY <1>5, <2>1, <2>2, ExtendDead DEF RenewForAgent
  <1>6. ASSUME NEW t \in Tokens, NEW ttl \in Ttls, Backoff(p, t, ttl) PROVE DeadInv'
    <2>1. HeldAs(p, t) \in SUBSET Held(p) /\ HeldAs(p, t) \in SUBSET Lease
          /\ OnePerToken(HeldAs(p, t))
      BY <1>0
    <2>2. /\ BackedOff(HeldAs(p, t), ttl) \in SUBSET Lease
          /\ \A n \in BackedOff(HeldAs(p, t), ttl) : \E l \in HeldAs(p, t) : l.token = n.token
          /\ OnePerToken(BackedOff(HeldAs(p, t), ttl))
      BY <1>0, <2>1, BackedOffFacts
    <2>3. QED
      BY <1>6, <2>1, <2>2, ExtendDead DEF Backoff
  <1>7. QED
    BY <1>1, <1>2, <1>3, <1>4, <1>5, <1>6 DEF Call

LEMMA DeadStep ==
    ASSUME TypeInv, DeadInv, OneEngineOnly, [Next]_vars PROVE DeadInv'
  <1> USE DEF DeadInv, Minted, Keyed, OnePerToken, SnapSound, MarkedIsOut, RevokedRowIsDead
  <1>1. CASE Tick
    BY <1>1 DEF Tick
  <1>2. CASE Restart
    BY <1>2 DEF Restart
  <1>3. CASE UNCHANGED vars
    BY <1>3 DEF vars
  <1> HIDE DEF DeadInv
  <1>4. ASSUME NEW p \in Callers, BeginRestore(p) PROVE DeadInv'
    BY <1>4, BeginRestoreDead
  <1>5. ASSUME NEW p \in Callers, Continue(p) PROVE DeadInv'
    BY <1>5, RestoreInstallDead, WriteRowDead DEF Continue
  <1>6. ASSUME NEW p \in Callers \ Cleaners, Call(p) PROVE DeadInv'
    BY <1>6, CallDead
  <1>7. ASSUME NEW p \in Cleaners, CleanupExpired(p) PROVE DeadInv'
    <2>1. p \in Callers /\ {l \in Held(p) : IsExpired(l)} \in SUBSET Held(p)
      BY LendingAssumption
    <2>2. QED
      BY <1>7, <2>1, RemoveDead DEF CleanupExpired
  <1>8. QED
    BY <1>1, <1>2, <1>3, <1>4, <1>5, <1>6, <1>7 DEF Next

(* With one engine over the rows, a row that says revoked is never that of a   *)
(* lease the engine holds: for any number of concurrent callers, with          *)
(* statements that fail and restarts at any point, no call and no restore      *)
(* brings such a token back (restore_leases, revoke, cleanup_expired).         *)
THEOREM RevokedStaysDead ==
    ASSUME OneEngineOnly
    PROVE  Spec => []RevokedRowIsDead
  <1>1. DeadInv => RevokedRowIsDead
    BY DEF DeadInv
  <1>2. TypeInv /\ DeadInv /\ [Next]_vars => (TypeInv /\ DeadInv)'
    BY TypeStep, DeadStep
  <1>3. Init => TypeInv /\ DeadInv
    BY TypeInit, DeadInit
  <1>4. QED
    BY <1>1, <1>2, <1>3, PTL DEF Spec
-----------------------------------------------------------------------------
(* What a step of the engine can be, whichever calls are made: the frame the  *)
(* invariants below are proved in, for KeyLending and for the modules that    *)
(* compose the engine with others.                                            *)

(* new is ls with other expiries. *)
Prolongs(ls, new) ==
    /\ new # {}
    /\ \A n \in new : \E l \in ls : l.token = n.token /\ l.agent = n.agent
    /\ \A l \in ls : \E n \in new : n.token = l.token
    /\ OnePerToken(ls) => OnePerToken(new)

ClientCall(p) ==
    \/ \E a \in Agents, ttl \in Ttls : Lend(p, a, ttl)
    \/ \E ls \in SUBSET Held(p) : Remove(p, "revoke", ls)
    \/ \E ls \in SUBSET Held(p), new \in SUBSET Lease : Prolongs(ls, new) /\ Extend(p, ls, new)

EngineNext ==
    \/ \E p \in Callers : BeginRestore(p)
    \/ \E p \in Callers : RestoreInstall(p)
    \/ \E p \in Callers : \E w \in todo[p] : WriteRow(p, w)
    \/ \E p \in Callers \ Cleaners : ClientCall(p)
    \/ \E p \in Cleaners : CleanupExpired(p)
    \/ Tick
    \/ Restart

(* Renewing and backing off change the expiry alone. *)
LEMMA RenewProlongs ==
    ASSUME NEW ls \in SUBSET Lease, NEW ttl \in Nat, now \in Nat, ls # {}
    PROVE  Renewed(ls, ttl) \in SUBSET Lease /\ Prolongs(ls, Renewed(ls, ttl))
  <1> DEFINE new(l) == [l EXCEPT !.expires = now + ttl]
  <1>1. \A l \in ls : new(l) \in Lease /\ new(l).token = l.token /\ new(l).agent = l.agent
    BY DEF Lease
  <1>2. Renewed(ls, ttl) = {new(l) : l \in ls}
    BY DEF Renewed
  <1> HIDE DEF new
  <1>3. \A n \in Renewed(ls, ttl) : \E l \in ls : l.token = n.token /\ l.agent = n.agent
    BY <1>1, <1>2
  <1>4. \A l \in ls : \E n \in Renewed(ls, ttl) : n.token = l.token
    BY <1>1, <1>2
  <1>5. QED
    BY <1>3, <1>4, RenewedFacts DEF Prolongs

LEMMA BackoffProlongs ==
    ASSUME NEW ls \in SUBSET Lease, NEW seconds \in Nat, now \in Nat, ls # {}
    PROVE  BackedOff(ls, seconds) \in SUBSET Lease /\ Prolongs(ls, BackedOff(ls, seconds))
  <1> DEFINE new(l) == [l EXCEPT !.expires = BackoffExpiry(l, seconds)]
  <1>1. \A l \in ls : new(l).token = l.token /\ new(l).agent = l.agent
    BY DEF Lease
  <1>2. BackedOff(ls, seconds) = {new(l) : l \in ls}
    BY DEF BackedOff
  <1> HIDE DEF new
  <1>3. \A n \in BackedOff(ls, seconds) : \E l \in ls : l.token = n.token /\ l.agent = n.agent
    BY <1>1, <1>2
  <1>4. \A l \in ls : \E n \in BackedOff(ls, seconds) : n.token = l.token
    BY <1>1, <1>2
  <1>5. QED
    BY <1>3, <1>4, BackedOffFacts DEF Prolongs

LEMMA RenewForAgentIsCall ==
    ASSUME TypeInv, NEW p \in Callers, NEW a \in Agents, NEW ttl \in Ttls,
           RenewForAgent(p, a, ttl)
    PROVE  ClientCall(p)
  <1>1. ttl \in Nat /\ now \in Nat
    BY LendingAssumption DEF TypeInv, TypeOK
  <1>2. HeldBy(p, a) \in SUBSET Held(p) /\ HeldBy(p, a) \in SUBSET Lease /\ HeldBy(p, a) # {}
    BY HeldType DEF RenewForAgent, Extend
  <1>3. QED
    BY <1>1, <1>2, RenewProlongs DEF RenewForAgent, ClientCall

LEMMA RevokeForAgentIsCall ==
    ASSUME TypeInv, NEW p \in Callers, NEW a \in Agents, RevokeForAgent(p, a)
    PROVE  ClientCall(p)
  BY HeldType DEF RevokeForAgent, ClientCall

LEMMA CallIsCall == ASSUME TypeInv, NEW p \in Callers, Call(p) PROVE ClientCall(p)
  <1>0. now \in Nat /\ \A ttl \in Ttls : ttl \in Nat
    BY LendingAssumption DEF TypeInv, TypeOK
  <1>1. ASSUME NEW t \in Tokens, Revoke(p, t) PROVE ClientCall(p)
    BY <1>1, HeldType DEF Revoke, ClientCall
  <1>2. ASSUME NEW t \in Tokens, NEW ttl \in Ttls, Renew(p, t, ttl) PROVE ClientCall(p)
    <2>1. HeldAs(p, t) \in SUBSET Held(p) /\ HeldAs(p, t) \in SUBSET Lease /\ HeldAs(p, t) # {}
      BY <1>2, HeldType DEF Renew, Extend
    <2>2. QED
      BY <1>0, <1>2, <2>1, RenewProlongs DEF Renew, ClientCall
  <1>3. ASSUME NEW t \in Tokens, NEW ttl \in Ttls, Backoff(p, t, ttl) PROVE ClientCall(p)
    <2>1. HeldAs(p, t) \in SUBSET Held(p) /\ HeldAs(p, t) \in SUBSET Lease /\ HeldAs(p, t) # {}
      BY <1>3, HeldType DEF Backoff, Extend
    <2>2. QED
      BY <1>0, <1>3, <2>1, BackoffProlongs DEF Backoff, ClientCall
  <1>4. (\E a \in Agents, ttl \in Ttls : Lend(p, a, ttl)) => ClientCall(p)
    BY DEF ClientCall
  <1>5. QED
    BY <1>1, <1>2, <1>3, <1>4, RevokeForAgentIsCall, RenewForAgentIsCall DEF Call

LEMMA NextIsEngineNext == ASSUME TypeInv, Next PROVE EngineNext
  BY CallIsCall DEF Next, Continue, EngineNext

(* The invariants of the engine alone are kept in that frame. *)
LEMMA EngineType1 == ASSUME TypeInv, [EngineNext]_vars PROVE TypeInv'
  <1>1. ASSUME NEW p \in Callers \ Cleaners, ClientCall(p) PROVE TypeInv'
    BY <1>1, LendType, RemoveType, ExtendType DEF ClientCall, Prolongs
  <1>2. ASSUME NEW p \in Cleaners, CleanupExpired(p) PROVE TypeInv'
    <2>1. p \in Callers /\ {l \in Held(p) : IsExpired(l)} \in SUBSET Held(p)
      BY LendingAssumption
    <2>2. QED
      BY <1>2, <2>1, RemoveType DEF CleanupExpired
  <1>3. CASE UNCHANGED vars
    BY <1>3 DEF vars, TypeInv, TypeOK, Gated, InRestore
  <1>4. QED
    BY <1>1, <1>2, <1>3, BeginRestoreType, RestoreInstallType, WriteRowType, TickType,
       RestartType DEF EngineNext

LEMMA EngineDead1 ==
    ASSUME TypeInv, DeadInv, OneEngineOnly, [EngineNext]_vars PROVE DeadInv'
  <1>1. ASSUME NEW p \in Callers \ Cleaners, ClientCall(p) PROVE DeadInv'
    <2>1. ASSUME NEW ls \in SUBSET Held(p), NEW new \in SUBSET Lease, Prolongs(ls, new),
                 Extend(p, ls, new)
          PROVE  DeadInv'
      <3>1. OnePerToken(ls)
        BY EngineType DEF DeadInv, Keyed, Held, OnePerToken
      <3>2. QED
        BY <2>1, <3>1, ExtendDead DEF Prolongs
    <2>2. QED
      BY <1>1, <2>1, LendDead, RemoveDead DEF ClientCall
  <1>2. ASSUME NEW p \in Cleaners, CleanupExpired(p) PROVE DeadInv'
    <2>1. p \in Callers /\ {l \in Held(p) : IsExpired(l)} \in SUBSET Held(p)
      BY LendingAssumption
    <2>2. QED
      BY <1>2, <2>1, RemoveDead DEF CleanupExpired
  <1>3. CASE Tick \/ Restart \/ UNCHANGED vars
    BY <1>3, DeadStep DEF Next
  <1>4. QED
    BY <1>1, <1>2, <1>3, BeginRestoreDead, RestoreInstallDead, WriteRowDead DEF EngineNext

-----------------------------------------------------------------------------
(* A lease whose lend has returned is stored. *)

(* A pending write is its kind and its lease. *)
LEMMA WritesAre ==
    ASSUME NEW kind, NEW ls
    PROVE  /\ \A l \in ls : [kind |-> kind, lease |-> l] \in Writes(kind, ls)
           /\ \A w \in Writes(kind, ls) :
                 /\ w.kind = kind /\ w.lease \in ls
                 /\ w = [kind |-> kind, lease |-> w.lease]
           /\ \A l \in ls : \E w \in Writes(kind, ls) : w.kind = kind /\ w.lease = l
  <1>1. \A l \in ls : [kind |-> kind, lease |-> l] \in Writes(kind, ls)
    BY DEF Writes
  <1>2. ASSUME NEW l \in ls PROVE \E w \in Writes(kind, ls) : w.kind = kind /\ w.lease = l
    <2> DEFINE w == [kind |-> kind, lease |-> l]
    <2>1. w \in Writes(kind, ls)
      BY <1>1
    <2>2. w.kind = kind /\ w.lease = l
      OBVIOUS
    <2> HIDE DEF w
    <2>3. QED
      BY <2>1, <2>2
  <1>3. \A w \in Writes(kind, ls) : /\ w.kind = kind /\ w.lease \in ls
                                    /\ w = [kind |-> kind, lease |-> w.lease]
    BY DEF Writes
  <1>4. QED
    BY <1>1, <1>2, <1>3

(* What a restore has read is still in the table, and the insert of a held    *)
(* lease names its agent.                                                     *)
SnapIsStored == \A e \in Engines : \A l \in snap[e] : l \in ActiveLeases

InsertNamesAgent ==
    \A p \in Callers : \A w \in todo[p] : w.kind = "insert" =>
        \A e \in Engines : \A l \in leases[e] :
            l.token = w.lease.token => l.agent = w.lease.agent

LiveInv == SnapIsStored /\ InsertNamesAgent /\ LiveIsStored

(* The rows that are not revoked after a statement. *)
LEMMA ActiveAfter ==
    ASSUME rows \subseteq Row, NEW w \in Write, rows' = Apply(w)
    PROVE  /\ w.kind = "insert" =>
                \A a : a \in ActiveLeases' <=>
                    (a \in ActiveLeases /\ a.token # w.lease.token) \/ a = w.lease
           /\ w.kind \in {"revoke", "lapse"} =>
                \A a : a \in ActiveLeases' <=> a \in ActiveLeases /\ a.token # w.lease.token
           /\ w.kind = "expiry" =>
                \A a : a \in ActiveLeases' <=>
                    \/ a \in ActiveLeases /\ a.token # w.lease.token
                    \/ \E b \in ActiveLeases : /\ b.token = w.lease.token
                                               /\ a = [b EXCEPT !.expires = w.lease.expires]
  <1>0. /\ \A a : a \in ActiveLeases <=> \E r \in rows : ~r.revoked /\ r.lease = a
        /\ \A a : a \in ActiveLeases' <=> \E r \in Apply(w) : ~r.revoked /\ r.lease = a
    BY DEF ActiveLeases
  <1>1. CASE w.kind = "insert"
    <2> DEFINE row == [lease |-> w.lease, revoked |-> FALSE]
    <2>1. Apply(w) = {r \in rows : r.lease.token # w.lease.token} \cup {row}
      BY <1>1 DEF Apply, Insert
    <2>2. row.lease = w.lease /\ ~row.revoked
      OBVIOUS
    <2> HIDE DEF row
    <2>3. QED
      BY <1>0, <1>1, <2>1, <2>2
  <1>2. CASE w.kind \in {"revoke", "lapse"}
    <2> DEFINE mark(r) == IF r.lease.token = w.lease.token THEN [r EXCEPT !.revoked = TRUE] ELSE r
    <2>1. Apply(w) = {mark(r) : r \in rows}
      BY <1>2 DEF Apply, MarkRevoked
    <2>2. \A r \in rows : /\ r.lease.token = w.lease.token => mark(r).revoked
                          /\ r.lease.token # w.lease.token => mark(r) = r
      BY DEF Row
    <2> HIDE DEF mark
    <2>3. ASSUME NEW a PROVE a \in ActiveLeases' <=> a \in ActiveLeases /\ a.token # w.lease.token
      BY <1>0, <2>1, <2>2
    <2>4. QED
      BY <1>2, <2>3
  <1>3. CASE w.kind = "expiry"
    <2> DEFINE upd(r) == IF r.lease.token = w.lease.token
                            THEN [r EXCEPT !.lease.expires = w.lease.expires] ELSE r
    <2>1. Apply(w) = {upd(r) : r \in rows}
      BY <1>3 DEF Apply, UpdateExpiry
    <2>2. \A r \in rows :
            /\ r.lease.token = w.lease.token =>
                   upd(r).lease = [r.lease EXCEPT !.expires = w.lease.expires]
            /\ upd(r).revoked = r.revoked
            /\ r.lease.token # w.lease.token => upd(r) = r
      BY DEF Row
    <2> HIDE DEF upd
    <2>3. ASSUME NEW a
          PROVE  a \in ActiveLeases' <=>
                    \/ a \in ActiveLeases /\ a.token # w.lease.token
                    \/ \E b \in ActiveLeases : /\ b.token = w.lease.token
                                               /\ a = [b EXCEPT !.expires = w.lease.expires]
      <3> DEFINE exp(b) == [b EXCEPT !.expires = w.lease.expires]
      <3>1. \A r \in rows : r.lease.token = w.lease.token => upd(r).lease = exp(r.lease)
        BY <2>2
      <3> HIDE DEF exp
      <3>2. a \in ActiveLeases' <=> \E r \in rows : ~upd(r).revoked /\ upd(r).lease = a
        BY <1>0, <2>1
      <3>3. a \in ActiveLeases' <=>
               \/ a \in ActiveLeases /\ a.token # w.lease.token
               \/ \E b \in ActiveLeases : b.token = w.lease.token /\ a = exp(b)
        <4>1. ASSUME NEW r \in rows, ~upd(r).revoked, upd(r).lease = a
              PROVE  \/ a \in ActiveLeases /\ a.token # w.lease.token
                     \/ \E b \in ActiveLeases : b.token = w.lease.token /\ a = exp(b)
          <5>1. r.lease \in ActiveLeases
            BY <1>0, <2>2, <4>1
          <5>2. CASE r.lease.token = w.lease.token
            BY <3>1, <4>1, <5>1, <5>2
          <5>3. CASE r.lease.token # w.lease.token
            BY <2>2, <4>1, <5>1, <5>3
          <5>4. QED
            BY <5>2, <5>3
        <4>2. ASSUME a \in ActiveLeases, a.token # w.lease.token
              PROVE  \E r \in rows : ~upd(r).revoked /\ upd(r).lease = a
          <5>1. PICK r \in rows : ~r.revoked /\ r.lease = a
            BY <1>0, <4>2
          <5>2. upd(r) = r
            BY <2>2, <4>2, <5>1
          <5>3. QED
            BY <5>1, <5>2
        <4>3. ASSUME NEW b \in ActiveLeases, b.token = w.lease.token, a = exp(b)
              PROVE  \E r \in rows : ~upd(r).revoked /\ upd(r).lease = a
          <5>1. PICK r \in rows : ~r.revoked /\ r.lease = b
            BY <1>0
          <5>2. ~upd(r).revoked /\ upd(r).lease = a
            BY <2>2, <3>1, <4>3, <5>1
          <5>3. QED
            BY <5>2
        <4>4. QED
          BY <3>2, <4>1, <4>2, <4>3
      <3>4. QED
        BY <3>3 DEF exp
    <2>4. QED
      BY <1>3, <2>3
  <1>4. QED
    BY <1>1, <1>2, <1>3 DEF Write

(* The step under the write lock, with one engine: the caller had nothing to  *)
(* write, nobody restores, and the other callers' writes stay.                *)
LEMMA HoldFacts ==
    ASSUME TypeInv, DeadInv, OneEngineOnly, NEW p \in Callers, NEW ls, NEW ws,
           Ready(p), Hold(p, ls, ws)
    PROVE  /\ \A e \in Engines : leases'[e] = ls /\ leases[e] = Held(p)
           /\ todo[p] = {} /\ todo'[p] = ws
           /\ \A q \in Callers : q # p => todo'[q] = todo[q]
           /\ \A e \in Engines : snap[e] = {} /\ restored[e] = "done"
           /\ \A q \in Callers : pc[q] # "install" /\ pc'[q] # "install"
  <1>1. \A e \in Engines : e = EngineOf[p]
    BY EngineType DEF OneEngineOnly
  <1>2. \A q \in Callers : pc[q] # "install"
    BY NobodyInstalls DEF Ready
  <1>3. \A e \in Engines : snap[e] = {}
    BY NobodyInstalls DEF Ready
  <1>4. \A q \in Callers : pc'[q] # "install"
    BY <1>2 DEF Hold, TypeInv, TypeOK
  <1>5. QED
    BY <1>1, <1>2, <1>3, <1>4 DEF Hold, Held, Ready, TypeInv, TypeOK

LEMMA LiveInit == Init => LiveInv
  BY DEF Init, LiveInv, SnapIsStored, InsertNamesAgent, LiveIsStored

(* A call that lends nothing new: every lease after it has the token and the  *)
(* agent of one before it.                                                    *)
LEMMA HoldLive ==
    ASSUME TypeInv, DeadInv, LiveInv, OneEngineOnly, NEW p \in Callers, NEW ls, NEW ws,
           Ready(p), Hold(p, ls, ws), UNCHANGED <<snap, rows, failed>>,
           \A l \in ls : \E k \in Held(p) : k.token = l.token /\ k.agent = l.agent,
           \A w \in ws : w.kind # "insert"
    PROVE  LiveInv'
  <1>1. SnapIsStored'
    BY HoldFacts DEF SnapIsStored
  <1>2. InsertNamesAgent'
    <2>1. SUFFICES ASSUME NEW q \in Callers, NEW w \in todo'[q], w.kind = "insert",
                          NEW e \in Engines, NEW l \in leases'[e], l.token = w.lease.token
                   PROVE  l.agent = w.lease.agent
      BY DEF InsertNamesAgent
    <2>2. q # p /\ w \in todo[q] /\ l \in ls
      BY <2>1, HoldFacts
    <2>3. PICK k \in leases[e] : k.token = l.token /\ k.agent = l.agent
      BY <2>2, HoldFacts
    <2>4. QED
      BY <2>1, <2>2, <2>3 DEF LiveInv, InsertNamesAgent
  <1>3. LiveIsStored'
    <2>1. SUFFICES ASSUME NEW e \in Engines, NEW l \in leases'[e], ~failed
                   PROVE  \/ \E q \in Callers : \E w \in todo'[q] :
                                 w.kind = "insert" /\ w.lease.token = l.token
                          \/ \E a \in ActiveLeases : a.token = l.token /\ a.agent = l.agent
      BY DEF LiveIsStored, ActiveLeases
    <2>2. PICK k \in leases[e] : k.token = l.token /\ k.agent = l.agent
      BY HoldFacts
    <2>3. \A q \in Callers : todo[q] \subseteq todo'[q]
      BY HoldFacts
    <2>4. QED
      BY <2>1, <2>2, <2>3 DEF LiveInv, LiveIsStored
  <1>4. QED
    BY <1>1, <1>2, <1>3 DEF LiveInv

LEMMA LendLive ==
    ASSUME TypeInv, DeadInv, LiveInv, OneEngineOnly, NEW p \in Callers, NEW a \in Agents,
           NEW ttl \in Ttls, Lend(p, a, ttl)
    PROVE  LiveInv'
  <1> DEFINE l == [token |-> nextToken, agent |-> a, expires |-> now + ttl]
             w == [kind |-> "insert", lease |-> l]
  <1>1. Ready(p) /\ Hold(p, Held(p) \cup {l}, Writes("insert", {l}))
        /\ UNCHANGED <<snap, rows, failed>>
    BY DEF Lend
  <1>3. l.token = nextToken /\ l.agent = a /\ w.lease = l /\ w.kind = "insert"
    OBVIOUS
  <1> HIDE DEF l
  <1>2. Writes("insert", {l}) = {w}
    BY WritesAre
  <1> HIDE DEF w
  <1>4. /\ \A e \in Engines : leases'[e] = leases[e] \cup {l}
        /\ todo[p] = {} /\ todo'[p] = {w}
        /\ \A q \in Callers : q # p => todo'[q] = todo[q]
        /\ \A e \in Engines : snap[e] = {}
    <2> DEFINE ls == Held(p) \cup {l}
    <2>1. Ready(p) /\ Hold(p, ls, {w})
      BY <1>1, <1>2
    <2>2. /\ \A e \in Engines : leases'[e] = ls /\ leases[e] = Held(p)
          /\ todo[p] = {} /\ todo'[p] = {w}
          /\ \A q \in Callers : q # p => todo'[q] = todo[q]
          /\ \A e \in Engines : snap[e] = {}
      <3> HIDE DEF ls
      <3>1. QED
        BY <2>1, HoldFacts
    <2>3. QED
      BY <2>2
  <1>5. \A q \in Callers : \A v \in todo[q] : v.lease.token # nextToken
    <2>1. \A q \in Callers : \A v \in todo[q] : v.lease.token \in Nat /\ v.lease.token < nextToken
      BY DEF DeadInv, Minted, TypeInv, TypeOK, Write, Lease, Tokens
    <2>2. QED
      BY <2>1 DEF TypeInv, TypeOK
  <1>6. \A e \in Engines : \A k \in leases[e] : k.token # nextToken
    <2>1. \A e \in Engines : \A k \in leases[e] : k.token \in Nat /\ k.token < nextToken
      BY DEF DeadInv, Minted, TypeInv, TypeOK, Lease, Tokens
    <2>2. QED
      BY <2>1 DEF TypeInv, TypeOK
  <1>7. SnapIsStored'
    BY <1>1, <1>4 DEF SnapIsStored
  <1>8. InsertNamesAgent'
    BY <1>3, <1>4, <1>5, <1>6 DEF LiveInv, InsertNamesAgent
  <1>9. LiveIsStored'
    <2>1. \A q \in Callers : todo[q] \subseteq todo'[q]
      BY <1>4
    <2>2. ActiveLeases' = ActiveLeases /\ failed' = failed
      BY <1>1 DEF ActiveLeases
    <2>3. ASSUME NEW e \in Engines, NEW k \in leases'[e], ~failed
          PROVE  \/ \E q \in Callers : \E v \in todo'[q] :
                       v.kind = "insert" /\ v.lease.token = k.token
                 \/ \E b \in ActiveLeases' : b.token = k.token /\ b.agent = k.agent
      <3>1. CASE k = l
        BY <1>3, <1>4, <3>1
      <3>2. CASE k \in leases[e]
        BY <2>1, <2>2, <2>3, <3>2 DEF LiveInv, LiveIsStored
      <3>3. QED
        BY <1>4, <3>1, <3>2
    <2>4. QED
      BY <2>2, <2>3 DEF LiveIsStored
  <1>10. QED
    BY <1>7, <1>8, <1>9 DEF LiveInv

LEMMA WriteRowLive ==
    ASSUME TypeInv, DeadInv, LiveInv, OneEngineOnly, NEW p \in Callers, NEW w \in todo[p],
           WriteRow(p, w)
    PROVE  LiveInv'
  <1>0. /\ w \in Write /\ rows \subseteq Row
        /\ pc[p] \in {"lapse", "write"}
        /\ UNCHANGED <<leases, snap>>
        /\ \A q \in Callers : todo'[q] \subseteq todo[q]
        /\ \A q \in Callers : \A v \in todo[q] : v # w => v \in todo'[q]
    BY DEF TypeInv, TypeOK, WriteRow
  <1>1. \A e \in Engines : snap[e] = {}
    BY <1>0, NobodyInstalls DEF TypeInv, Gated
  <1>2. SnapIsStored'
    BY <1>0, <1>1 DEF SnapIsStored
  <1>3. InsertNamesAgent'
    BY <1>0 DEF LiveInv, InsertNamesAgent
  <1>4. CASE failed'
    BY <1>2, <1>3, <1>4 DEF LiveInv, LiveIsStored
  <1>5. CASE ~failed'
    <2>1. rows' = Apply(w) /\ ~failed
      BY <1>5 DEF WriteRow
    <2>2. ASSUME NEW e \in Engines, NEW l \in leases[e]
          PROVE  \/ \E q \in Callers : \E v \in todo'[q] :
                       v.kind = "insert" /\ v.lease.token = l.token
                 \/ \E a \in ActiveLeases' : a.token = l.token /\ a.agent = l.agent
      <3>1. CASE w.kind = "insert" /\ w.lease.token = l.token
        <4>1. w.lease \in ActiveLeases'
          BY <1>0, <2>1, <3>1, ActiveAfter
        <4>2. l.agent = w.lease.agent
          BY <3>1 DEF LiveInv, InsertNamesAgent
        <4>3. QED
          BY <3>1, <4>1, <4>2
      <3>2. CASE ~(w.kind = "insert" /\ w.lease.token = l.token)
        <4>1. CASE \E q \in Callers : \E v \in todo[q] :
                      v.kind = "insert" /\ v.lease.token = l.token
          BY <1>0, <3>2, <4>1
        <4>2. CASE \E a \in ActiveLeases : a.token = l.token /\ a.agent = l.agent
          <5>1. PICK a \in ActiveLeases : a.token = l.token /\ a.agent = l.agent
            BY <4>2
          <5>2. CASE w.lease.token # l.token
            <6>1. a \in ActiveLeases'
              BY <1>0, <2>1, <5>1, <5>2, ActiveAfter DEF Write
            <6>2. QED
              BY <5>1, <6>1
          <5>3. CASE w.lease.token = l.token
            <6>1. w.kind = "expiry"
              BY <1>0, <3>2, <5>3 DEF Write, DeadInv, MarkedIsOut
            <6>2. [a EXCEPT !.expires = w.lease.expires] \in ActiveLeases'
              BY <1>0, <2>1, <5>1, <5>3, <6>1, ActiveAfter
            <6>3. a \in Lease
              BY <1>0, ActiveType
            <6>4. /\ [a EXCEPT !.expires = w.lease.expires].token = a.token
                  /\ [a EXCEPT !.expires = w.lease.expires].agent = a.agent
              BY <6>3 DEF Lease
            <6>5. QED
              BY <5>1, <6>2, <6>4
          <5>4. QED
            BY <5>2, <5>3
        <4>3. QED
          BY <2>1, <4>1, <4>2 DEF LiveInv, LiveIsStored
      <3>3. QED
        BY <3>1, <3>2
    <2>3. LiveIsStored'
      BY <1>0, <2>2 DEF LiveIsStored
    <2>4. QED
      BY <1>2, <1>3, <2>3 DEF LiveInv
  <1>6. QED
    BY <1>4, <1>5

LEMMA RestoreLive ==
    ASSUME TypeInv, DeadInv, LiveInv, OneEngineOnly, NEW p \in Callers,
           BeginRestore(p) \/ RestoreInstall(p)
    PROVE  LiveInv'
  <1> DEFINE e == EngineOf[p]
  <1>0. e \in Engines /\ \A f \in Engines : f = e
    BY EngineType DEF OneEngineOnly
  <1>1. CASE BeginRestore(p)
    <2>1. leases'[e] = {} /\ rows' = rows /\ (snap'[e] = snap[e] \/ snap'[e] = ActiveLeases)
      BY <1>0, <1>1 DEF BeginRestore, DeadInv, SnapSound, TypeInv, TypeOK
    <2>2. ActiveLeases' = ActiveLeases
      BY <2>1 DEF ActiveLeases
    <2>3. QED
      BY <1>0, <2>1, <2>2 DEF LiveInv, SnapIsStored, InsertNamesAgent, LiveIsStored
  <1>2. CASE RestoreInstall(p)
    <2>1. /\ leases[e] = {} /\ \A q \in Callers : todo[q] = {}
          /\ rows' = rows /\ snap'[e] = {}
          /\ leases'[e] \subseteq leases[e] \cup snap[e]
      BY <1>0, <1>2, InstallAlone DEF RestoreInstall, DeadInv, SnapSound, TypeInv, TypeOK
    <2>2. ActiveLeases' = ActiveLeases
      BY <2>1 DEF ActiveLeases
    <2>3. \A q \in Callers : \A w \in todo'[q] : w.kind = "lapse"
      <3>1. \A w \in Writes("lapse", snap[e] \ {l \in snap[e] : l.expires > now}) : w.kind = "lapse"
        BY DEF Writes
      <3>2. QED
        BY <1>2, <2>1, <3>1 DEF RestoreInstall, TypeInv, TypeOK
    <2>4. SnapIsStored' /\ InsertNamesAgent'
      BY <1>0, <2>1, <2>3 DEF SnapIsStored, InsertNamesAgent
    <2>5. LiveIsStored'
      BY <1>0, <2>1, <2>2 DEF LiveInv, SnapIsStored, LiveIsStored
    <2>6. QED
      BY <2>4, <2>5 DEF LiveInv
  <1>3. QED
    BY <1>1, <1>2

LEMMA LiveStep ==
    ASSUME TypeInv, DeadInv, LiveInv, OneEngineOnly, [EngineNext]_vars PROVE LiveInv'
  <1>1. ASSUME NEW p \in Callers, NEW kind \in {"revoke", "lapse"}, NEW ls \in SUBSET Held(p),
               Remove(p, kind, ls)
        PROVE  LiveInv'
    <2>1. \A w \in Writes(kind, ls) : w.kind # "insert"
      BY DEF Writes
    <2>2. \A l \in Held(p) \ ls : \E k \in Held(p) : k.token = l.token /\ k.agent = l.agent
      OBVIOUS
    <2>3. QED
      BY <1>1, <2>1, <2>2, HoldLive DEF Remove
  <1>2. ASSUME NEW p \in Callers, NEW ls \in SUBSET Held(p), NEW new \in SUBSET Lease,
               Prolongs(ls, new), Extend(p, ls, new)
        PROVE  LiveInv'
    <2>1. \A w \in Writes("expiry", new) : w.kind # "insert"
      BY DEF Writes
    <2>2. \A l \in (Held(p) \ ls) \cup new :
            \E k \in Held(p) : k.token = l.token /\ k.agent = l.agent
      BY <1>2 DEF Prolongs
    <2>3. QED
      BY <1>2, <2>1, <2>2, HoldLive DEF Extend
  <1>3. ASSUME NEW p \in Callers \ Cleaners, ClientCall(p) PROVE LiveInv'
    BY <1>1, <1>2, <1>3, LendLive DEF ClientCall
  <1>4. ASSUME NEW p \in Cleaners, CleanupExpired(p) PROVE LiveInv'
    <2>1. p \in Callers /\ {l \in Held(p) : IsExpired(l)} \in SUBSET Held(p)
      BY LendingAssumption
    <2>2. QED
      BY <1>1, <1>4, <2>1 DEF CleanupExpired
  <1>5. CASE Tick \/ UNCHANGED vars
    BY <1>5 DEF Tick, vars, LiveInv, SnapIsStored, InsertNamesAgent, LiveIsStored, ActiveLeases
  <1>6. CASE Restart
    BY <1>6 DEF Restart, LiveInv, SnapIsStored, InsertNamesAgent, LiveIsStored
  <1>7. QED
    BY <1>3, <1>4, <1>5, <1>6, WriteRowLive, RestoreLive DEF EngineNext

(* With one engine over the rows, and as long as no statement has failed, a   *)
(* lease the engine holds is in the table, not revoked and of the same agent, *)
(* or its insert is still to come: whatever the callers do at the same time,  *)
(* a restart does not lose it (lend, restore_leases, persist_expiry).         *)
THEOREM LentIsStored ==
    ASSUME OneEngineOnly
    PROVE  Spec => []LiveIsStored
  <1>1. LiveInv => LiveIsStored
    BY DEF LiveInv
  <1>2. TypeInv /\ DeadInv /\ LiveInv /\ [Next]_vars => (TypeInv /\ DeadInv /\ LiveInv)'
    BY TypeStep, DeadStep, LiveStep, NextIsEngineNext
  <1>3. Init => TypeInv /\ DeadInv /\ LiveInv
    BY TypeInit, DeadInit, LiveInit
  <1>4. QED
    BY <1>1, <1>2, <1>3, PTL DEF Spec

-----------------------------------------------------------------------------
(* A reported revocation is final, when the revocation of a lease cannot      *)
(* overtake its insert: with one client besides the cleanup loops.            *)

OneClient == \A p, q \in Callers \ Cleaners : p = q

(* The writes of a call are of one kind, and a cleanup loop only marks. *)
CallsAreUniform ==
    /\ \A p \in Callers : \A v, w \in todo[p] : v.kind = w.kind
    /\ \A p \in Cleaners : \A w \in todo[p] : w.kind = "lapse"

(* Nothing can bring token t back: no map, no restore, no row and no insert. *)
Gone(t) ==
    /\ \A e \in Engines : \A l \in leases[e] \cup snap[e] : l.token # t
    /\ \A a \in ActiveLeases : a.token # t
    /\ \A p \in Callers : \A w \in todo[p] : w.kind = "insert" => w.lease.token # t

FinalInv ==
    /\ CallsAreUniform
    /\ \A t \in revoked : t < nextToken
    /\ ~failed => \A t \in revoked : Gone(t)

LEMMA FinalInit == Init => FinalInv
  BY LendingAssumption DEF Init, FinalInv, CallsAreUniform

(* The step under the write lock. *)
LEMMA HoldFinal ==
    ASSUME TypeInv, DeadInv, FinalInv, OneEngineOnly, NEW p \in Callers, NEW ls, NEW kind, NEW new,
           Ready(p), Hold(p, ls, Writes(kind, new)), p \in Cleaners => kind = "lapse",
           UNCHANGED <<snap, rows, failed, revoked>>,
           nextToken' \in {nextToken, nextToken + 1},
           \A l \in ls : (\E k \in Held(p) : k.token = l.token) \/ l.token = nextToken,
           kind = "insert" => \A l \in new : l.token = nextToken
    PROVE  FinalInv'
  <1>0. \A t \in revoked : t \in Nat /\ t < nextToken /\ nextToken \in Nat
    BY DEF FinalInv, TypeInv, TypeOK, Tokens
  <1>1. \A w \in Writes(kind, new) : w.kind = kind /\ w.lease \in new
    BY WritesAre
  <1>2. /\ \A e \in Engines : leases'[e] = ls /\ leases[e] = Held(p)
        /\ todo'[p] = Writes(kind, new)
        /\ \A q \in Callers : q # p => todo'[q] = todo[q]
    <2> DEFINE ws == Writes(kind, new)
    <2>1. Hold(p, ls, ws)
      OBVIOUS
    <2> HIDE DEF ws
    <2>2. /\ \A e \in Engines : leases'[e] = ls /\ leases[e] = Held(p)
          /\ todo'[p] = ws
          /\ \A q \in Callers : q # p => todo'[q] = todo[q]
      BY <2>1, HoldFacts
    <2>3. QED
      BY <2>2 DEF ws
  <1>3. CallsAreUniform'
    BY <1>1, <1>2, LendingAssumption DEF FinalInv, CallsAreUniform
  <1>4. \A t \in revoked' : t < nextToken'
    BY <1>0
  <1>5. ASSUME NEW t \in revoked, ~failed PROVE Gone(t)'
    <2>0. Gone(t) /\ t # nextToken
      BY <1>0, <1>5 DEF FinalInv
    <2>1. \A e \in Engines : \A l \in leases'[e] \cup snap'[e] : l.token # t
      BY <1>2, <2>0 DEF Gone
    <2>2. \A a \in ActiveLeases' : a.token # t
      BY <2>0 DEF Gone, ActiveLeases
    <2>3. \A q \in Callers : \A w \in todo'[q] : w.kind = "insert" => w.lease.token # t
      BY <1>1, <1>2, <2>0 DEF Gone
    <2>4. QED
      BY <2>1, <2>2, <2>3 DEF Gone
  <1>6. QED
    BY <1>3, <1>4, <1>5 DEF FinalInv

LEMMA WriteRowFinal ==
    ASSUME TypeInv, DeadInv, FinalInv, OneEngineOnly, OneClient, NEW p \in Callers,
           NEW w \in todo[p], WriteRow(p, w)
    PROVE  FinalInv'
  <1>0. /\ w \in Write /\ rows \subseteq Row
        /\ pc[p] \in {"lapse", "write"}
        /\ UNCHANGED <<leases, snap, nextToken>>
        /\ \A q \in Callers : todo'[q] \subseteq todo[q]
        /\ revoked' = IF w.kind = "revoke" THEN revoked \cup {w.lease.token} ELSE revoked
    BY DEF TypeInv, TypeOK, WriteRow
  <1>1. \A e \in Engines : snap[e] = {}
    BY <1>0, NobodyInstalls DEF TypeInv, Gated
  <1>2. CallsAreUniform'
    BY <1>0, LendingAssumption DEF FinalInv, CallsAreUniform
  <1>3. \A t \in revoked' : t < nextToken'
    BY <1>0 DEF FinalInv, DeadInv, Minted
  <1>4. ASSUME ~failed', NEW t \in revoked' PROVE Gone(t)'
    <2>0. ~failed /\ rows' = Apply(w)
      BY <1>4 DEF WriteRow
    <2>1. CASE t \in revoked
      <3>1. Gone(t)
        BY <2>0, <2>1 DEF FinalInv
      <3>2. ASSUME NEW a \in ActiveLeases' PROVE a.token # t
        <4>1. CASE a \in ActiveLeases
          BY <3>1, <4>1 DEF Gone
        <4>2. CASE w.kind = "insert" /\ a = w.lease
          BY <3>1, <4>2 DEF Gone
        <4>3. CASE \E b \in ActiveLeases : a = [b EXCEPT !.expires = w.lease.expires]
          <5>1. PICK b \in ActiveLeases : a = [b EXCEPT !.expires = w.lease.expires]
            BY <4>3
          <5>2. b \in Lease
            BY <1>0, ActiveType
          <5>3. a.token = b.token
            BY <5>1, <5>2 DEF Lease
          <5>4. QED
            BY <3>1, <5>3 DEF Gone
        <4>4. w.kind \in {"insert", "revoke", "lapse", "expiry"}
          BY <1>0 DEF Write
        <4>5. QED
          BY <1>0, <2>0, <3>2, <4>1, <4>2, <4>3, <4>4, ActiveAfter
      <3>3. QED
        BY <1>0, <3>1, <3>2 DEF Gone
    <2>2. CASE w.kind = "revoke" /\ t = w.lease.token
      <3>1. \A e \in Engines : \A l \in leases'[e] \cup snap'[e] : l.token # t
        BY <1>0, <1>1, <2>2 DEF DeadInv, MarkedIsOut
      <3>2. \A a \in ActiveLeases' : a.token # t
        BY <1>0, <2>0, <2>2, ActiveAfter
      <3>3. \A q \in Callers : \A v \in todo[q] : v.kind # "insert"
        BY <2>2 DEF FinalInv, CallsAreUniform, OneClient
      <3>4. QED
        BY <1>0, <3>1, <3>2, <3>3 DEF Gone
    <2>3. QED
      BY <1>0, <1>4, <2>1, <2>2
  <1>5. QED
    BY <1>2, <1>3, <1>4 DEF FinalInv

LEMMA RestoreFinal ==
    ASSUME TypeInv, DeadInv, FinalInv, OneEngineOnly, NEW p \in Callers,
           BeginRestore(p) \/ RestoreInstall(p)
    PROVE  FinalInv'
  <1> DEFINE e == EngineOf[p]
  <1>0. e \in Engines /\ \A f \in Engines : f = e
    BY EngineType DEF OneEngineOnly
  <1>1. CASE BeginRestore(p)
    <2>1. /\ leases'[e] = {} /\ UNCHANGED <<rows, todo, revoked, nextToken>>
          /\ snap'[e] = snap[e] \/ snap'[e] = ActiveLeases
          /\ ~failed' => ~failed
      BY <1>0, <1>1 DEF BeginRestore, DeadInv, SnapSound, TypeInv, TypeOK
    <2>2. ActiveLeases' = ActiveLeases
      BY <2>1 DEF ActiveLeases
    <2>3. QED
      BY <1>0, <2>1, <2>2 DEF FinalInv, CallsAreUniform, Gone
  <1>2. CASE RestoreInstall(p)
    <2>1. /\ UNCHANGED <<rows, revoked, nextToken, failed>> /\ snap'[e] = {}
          /\ leases'[e] \subseteq leases[e] \cup snap[e]
      BY <1>0, <1>2 DEF RestoreInstall, TypeInv, TypeOK
    <2>2. ActiveLeases' = ActiveLeases
      BY <2>1 DEF ActiveLeases
    <2>3. \A q \in Callers : \A w \in todo'[q] : w.kind = "lapse"
      <3>1. \A w \in Writes("lapse", snap[e] \ {l \in snap[e] : l.expires > now}) : w.kind = "lapse"
        BY DEF Writes
      <3>2. \A q \in Callers : todo[q] = {}
        BY <1>2, InstallAlone DEF RestoreInstall
      <3>3. QED
        BY <1>2, <3>1, <3>2 DEF RestoreInstall, TypeInv, TypeOK
    <2>4. CallsAreUniform'
      BY <2>3, LendingAssumption DEF CallsAreUniform
    <2>5. QED
      BY <1>0, <2>1, <2>2, <2>3, <2>4 DEF FinalInv, Gone
  <1>3. QED
    BY <1>1, <1>2

LEMMA FinalStep ==
    ASSUME TypeInv, DeadInv, FinalInv, OneEngineOnly, OneClient, [EngineNext]_vars
    PROVE  FinalInv'
  <1>1. ASSUME NEW p \in Callers, NEW kind \in {"revoke", "lapse"}, NEW ls \in SUBSET Held(p),
               Remove(p, kind, ls), p \in Cleaners => kind = "lapse"
        PROVE  FinalInv'
    <2>1. \A l \in Held(p) \ ls : \E k \in Held(p) : k.token = l.token
      OBVIOUS
    <2>2. QED
      BY <1>1, <2>1, HoldFinal DEF Remove
  <1>2. ASSUME NEW p \in Callers \ Cleaners, NEW ls \in SUBSET Held(p), NEW new \in SUBSET Lease,
               Prolongs(ls, new), Extend(p, ls, new)
        PROVE  FinalInv'
    <2>1. \A l \in (Held(p) \ ls) \cup new : \E k \in Held(p) : k.token = l.token
      BY <1>2 DEF Prolongs
    <2>2. QED
      BY <1>2, <2>1, HoldFinal DEF Extend
  <1>3. ASSUME NEW p \in Callers \ Cleaners, NEW a \in Agents, NEW ttl \in Ttls, Lend(p, a, ttl)
        PROVE  FinalInv'
    <2> DEFINE l == [token |-> nextToken, agent |-> a, expires |-> now + ttl]
    <2>1. /\ Ready(p) /\ Hold(p, Held(p) \cup {l}, Writes("insert", {l}))
          /\ UNCHANGED <<snap, rows, failed, revoked>>
          /\ nextToken' = nextToken + 1
      BY <1>3 DEF Lend
    <2>2. l.token = nextToken
      OBVIOUS
    <2> HIDE DEF l
    <2>3. \A m \in Held(p) \cup {l} : (\E k \in Held(p) : k.token = m.token) \/ m.token = nextToken
      BY <2>2
    <2>4. \A m \in {l} : m.token = nextToken
      BY <2>2
    <2>5. QED
      BY <2>1, <2>3, <2>4, HoldFinal
  <1>4. ASSUME NEW p \in Callers \ Cleaners, ClientCall(p) PROVE FinalInv'
    BY <1>1, <1>2, <1>3, <1>4 DEF ClientCall
  <1>5. ASSUME NEW p \in Cleaners, CleanupExpired(p) PROVE FinalInv'
    <2>1. p \in Callers /\ {l \in Held(p) : IsExpired(l)} \in SUBSET Held(p)
      BY LendingAssumption
    <2>2. QED
      BY <1>1, <1>5, <2>1 DEF CleanupExpired
  <1>6. CASE Tick \/ UNCHANGED vars
    BY <1>6 DEF Tick, vars, FinalInv, CallsAreUniform, Gone, ActiveLeases
  <1>7. CASE Restart
    <2>1. ActiveLeases' = ActiveLeases
      BY <1>7 DEF Restart, ActiveLeases
    <2>2. QED
      BY <1>7, <2>1, LendingAssumption DEF Restart, FinalInv, CallsAreUniform, Gone
  <1>8. QED
    BY <1>4, <1>5, <1>6, <1>7, WriteRowFinal, RestoreFinal DEF EngineNext

(* With one engine and one client, next to any number of cleanup loops: once  *)
(* the revocation of a token was reported, and as long as no statement has    *)
(* failed, no call and no restart brings it back (revoke, restore_leases).    *)
(* With two clients it is false: a revocation may overtake the insert of the  *)
(* lease.                                                                     *)
THEOREM RevocationIsFinal ==
    ASSUME OneEngineOnly, OneClient
    PROVE  Spec => []RevokedIsFinal
  <1>1. FinalInv => RevokedIsFinal
    BY DEF FinalInv, Gone, RevokedIsFinal
  <1>2. TypeInv /\ DeadInv /\ FinalInv /\ [Next]_vars => (TypeInv /\ DeadInv /\ FinalInv)'
    BY TypeStep, DeadStep, FinalStep, NextIsEngineNext
  <1>3. Init => TypeInv /\ DeadInv /\ FinalInv
    BY TypeInit, DeadInit, FinalInit
  <1>4. QED
    BY <1>1, <1>2, <1>3, PTL DEF Spec

-----------------------------------------------------------------------------
(* Between calls the table mirrors the map, with one client. *)

(* An insert or a new expiry that is still to be written is that of the held  *)
(* lease, unless the lease has expired and left.                              *)
Dirty == {"insert", "expiry"}

DirtyIsHeld ==
    \A p \in Callers : \A w \in todo[p] : w.kind \in Dirty =>
        /\ now <= w.lease.expires => \E e \in Engines : w.lease \in leases[e]
        /\ \A e \in Engines : \A l \in leases[e] : l.token = w.lease.token => l = w.lease

(* What a restore is about to install is the table. *)
SnapIsTable ==
    \A p \in Callers : ~failed /\ pc[p] = "install" => snap[EngineOf[p]] = ActiveLeases

(* Map and table differ only by what is still to be written, and by rows of   *)
(* leases that have expired.                                                  *)
MapInTable(ls) ==
    \A l \in ls :
        \/ l \in ActiveLeases
        \/ \E p \in Callers : \E w \in todo[p] : w.kind \in Dirty /\ w.lease = l

TableInMap(ls) ==
    \A a \in ActiveLeases :
        \/ a \in ls
        \/ now > a.expires
        \/ \E p \in Callers : \E w \in todo[p] : w.kind # "insert" /\ w.lease.token = a.token

Installed(e) == restored[e] # "no" /\ \A p \in Callers : pc[p] # "install"

Mirrored ==
    \A e \in Engines : ~failed /\ Installed(e) => MapInTable(leases[e]) /\ TableInMap(leases[e])

MirrorInv == DirtyIsHeld /\ SnapIsTable /\ Mirrored

LEMMA MirrorInit == Init => MirrorInv
  BY DEF Init, MirrorInv, DirtyIsHeld, SnapIsTable, Mirrored, Installed

(* A client that is not in a call leaves nobody who inserts or extends. *)
LEMMA OthersOnlyMark ==
    ASSUME FinalInv, OneClient, NEW p \in Callers \ Cleaners, NEW q \in Callers, q # p,
           NEW w \in todo[q]
    PROVE  w.kind = "lapse"
  BY DEF FinalInv, CallsAreUniform, OneClient

LEMMA LendMirror ==
    ASSUME TypeInv, DeadInv, FinalInv, MirrorInv, OneEngineOnly, OneClient,
           NEW p \in Callers \ Cleaners, NEW a \in Agents, NEW ttl \in Ttls, Lend(p, a, ttl)
    PROVE  MirrorInv'
  <1> DEFINE l == [token |-> nextToken, agent |-> a, expires |-> now + ttl]
             w == [kind |-> "insert", lease |-> l]
             ls == Held(p) \cup {l}
  <1>1. Ready(p) /\ Hold(p, Held(p) \cup {l}, Writes("insert", {l}))
        /\ UNCHANGED <<restored, snap, rows, now, failed>>
    BY DEF Lend
  <1>2. l.token = nextToken /\ w.lease = l /\ w.kind = "insert"
    OBVIOUS
  <1> HIDE DEF l
  <1>3. Writes("insert", {l}) = {w}
    BY WritesAre
  <1> HIDE DEF w
  <1>4. Hold(p, ls, {w})
    BY <1>1, <1>3
  <1> HIDE DEF ls
  <1>5. /\ \A e \in Engines : leases'[e] = ls /\ leases[e] = Held(p)
        /\ todo[p] = {} /\ todo'[p] = {w}
        /\ \A q \in Callers : q # p => todo'[q] = todo[q]
        /\ \A e \in Engines : restored[e] = "done"
        /\ \A q \in Callers : pc[q] # "install" /\ pc'[q] # "install"
    BY <1>1, <1>4, HoldFacts
  <1>6. \A k \in Held(p) : k.token # nextToken
    <2>1. \A k \in Held(p) : k.token \in Nat /\ k.token < nextToken
      BY EngineType, HeldType DEF DeadInv, Minted, Held, Lease, Tokens
    <2>2. QED
      BY <2>1 DEF TypeInv, TypeOK
  <1>7. ls = Held(p) \cup {l}
    BY DEF ls
  <1>8. DirtyIsHeld'
    <2>1. SUFFICES ASSUME NEW q \in Callers, NEW v \in todo'[q], v.kind \in Dirty
                   PROVE  /\ \E e \in Engines : v.lease \in leases'[e]
                          /\ \A e \in Engines : \A k \in leases'[e] :
                                k.token = v.lease.token => k = v.lease
      BY DEF DirtyIsHeld
    <2>2. v = w
      BY <1>5, <2>1, OthersOnlyMark DEF Dirty
    <2>3. QED
      BY <1>2, <1>5, <1>6, <1>7, <2>2, EngineType
  <1>9. SnapIsTable'
    BY <1>5 DEF SnapIsTable
  <1>10. Mirrored'
    <2>1. SUFFICES ASSUME NEW e \in Engines, ~failed
                   PROVE  MapInTable(leases[e])' /\ TableInMap(leases[e])'
      BY <1>1 DEF Mirrored
    <2>2. MapInTable(leases[e]) /\ TableInMap(leases[e])
      BY <1>5, <2>1 DEF MirrorInv, Mirrored, Installed
    <2>3. ActiveLeases' = ActiveLeases /\ now' = now
      BY <1>1 DEF ActiveLeases
    <2>4. \A q \in Callers : todo[q] \subseteq todo'[q]
      BY <1>5
    <2>5. leases[e] \subseteq leases'[e] /\ \A k \in leases'[e] : k \in leases[e] \/ k = w.lease
      BY <1>2, <1>5, <1>7
    <2>6. MapInTable(leases[e])'
      BY <1>2, <1>5, <2>2, <2>3, <2>4, <2>5 DEF MapInTable, Dirty
    <2>7. TableInMap(leases[e])'
      BY <2>2, <2>3, <2>4, <2>5 DEF TableInMap
    <2>8. QED
      BY <2>6, <2>7
  <1>11. QED
    BY <1>8, <1>9, <1>10 DEF MirrorInv

LEMMA RemoveMirror ==
    ASSUME TypeInv, DeadInv, FinalInv, MirrorInv, OneEngineOnly, OneClient, NEW p \in Callers,
           NEW kind \in {"revoke", "lapse"}, NEW ls \in SUBSET Held(p), Remove(p, kind, ls),
           p \in Cleaners => \A l \in ls : IsExpired(l)
    PROVE  MirrorInv'
  <1> DEFINE rest == Held(p) \ ls
             ws == Writes(kind, ls)
  <1>1. Ready(p) /\ Hold(p, rest, ws) /\ UNCHANGED <<restored, snap, rows, now, failed>>
    BY DEF Remove
  <1>2. /\ \A l \in ls : \E w \in ws : w.kind = kind /\ w.lease = l
        /\ \A w \in ws : w.kind = kind
    <2>1. \A w \in ws : w.kind = kind
      BY DEF Writes
    <2>2. ASSUME NEW l \in ls PROVE \E w \in ws : w.kind = kind /\ w.lease = l
      <3> DEFINE w == [kind |-> kind, lease |-> l]
      <3>1. w \in ws
        BY DEF Writes
      <3>2. w.kind = kind /\ w.lease = l
        OBVIOUS
      <3> HIDE DEF w, ws
      <3>3. QED
        BY <3>1, <3>2
    <2>3. QED
      BY <2>1, <2>2
  <1>3. \A l \in rest : l \in Held(p) /\ l \notin ls
    OBVIOUS
  <1>4. \A l \in Held(p) : l \in rest \/ l \in ls
    OBVIOUS
  <1> HIDE DEF rest, ws
  <1>5. /\ \A e \in Engines : leases'[e] = rest /\ leases[e] = Held(p)
        /\ todo[p] = {} /\ todo'[p] = ws
        /\ \A q \in Callers : q # p => todo'[q] = todo[q]
        /\ \A e \in Engines : restored[e] = "done"
        /\ \A q \in Callers : pc[q] # "install" /\ pc'[q] # "install"
    BY <1>1, HoldFacts
  <1>6. DirtyIsHeld'
    <2>1. SUFFICES ASSUME NEW q \in Callers, NEW v \in todo'[q], v.kind \in Dirty
                   PROVE  /\ now <= v.lease.expires => \E e \in Engines : v.lease \in leases'[e]
                          /\ \A e \in Engines : \A k \in leases'[e] :
                                k.token = v.lease.token => k = v.lease
      BY <1>1 DEF DirtyIsHeld
    <2>2. q # p /\ v \in todo[q] /\ p \in Cleaners
      BY <1>2, <1>5, <2>1, OthersOnlyMark DEF Dirty
    <2>3. \A e \in Engines : \A k \in leases'[e] : k.token = v.lease.token => k = v.lease
      BY <1>3, <1>5, <2>1, <2>2 DEF MirrorInv, DirtyIsHeld
    <2>4. ASSUME now <= v.lease.expires PROVE \E e \in Engines : v.lease \in leases'[e]
      <3>1. PICK e \in Engines : v.lease \in leases[e]
        BY <2>1, <2>2, <2>4 DEF MirrorInv, DirtyIsHeld
      <3>2. ~IsExpired(v.lease)
        <4>1. v.lease.expires \in Nat /\ now \in Nat
          BY <2>2 DEF TypeInv, TypeOK, Write, Lease
        <4>2. QED
          BY <2>4, <4>1 DEF IsExpired
      <3>3. v.lease \notin ls
        BY <2>2, <3>2
      <3>4. QED
        BY <1>4, <1>5, <3>1, <3>3
    <2>5. QED
      BY <2>3, <2>4
  <1>7. SnapIsTable'
    BY <1>5 DEF SnapIsTable
  <1>8. Mirrored'
    <2>1. SUFFICES ASSUME NEW e \in Engines, ~failed
                   PROVE  MapInTable(leases[e])' /\ TableInMap(leases[e])'
      BY <1>1 DEF Mirrored
    <2>2. MapInTable(leases[e]) /\ TableInMap(leases[e])
      BY <1>5, <2>1 DEF MirrorInv, Mirrored, Installed
    <2>3. ActiveLeases' = ActiveLeases /\ now' = now
      BY <1>1 DEF ActiveLeases
    <2>4. \A q \in Callers : todo[q] \subseteq todo'[q]
      BY <1>5
    <2>5. leases'[e] \subseteq leases[e]
      BY <1>3, <1>5
    <2>6. MapInTable(leases[e])'
      BY <2>2, <2>3, <2>4, <2>5 DEF MapInTable
    <2>7. TableInMap(leases[e])'
      <3>1. SUFFICES ASSUME NEW a \in ActiveLeases
                     PROVE  \/ a \in leases'[e]
                            \/ now > a.expires
                            \/ \E q \in Callers : \E w \in todo'[q] :
                                  w.kind # "insert" /\ w.lease.token = a.token
        BY <2>3 DEF TableInMap
      <3>2. CASE a \in ls
        BY <1>2, <1>5, <3>2
      <3>3. CASE a \in leases[e] /\ a \notin ls
        BY <1>4, <1>5, <3>3
      <3>4. CASE a \notin leases[e]
        BY <2>2, <2>4, <3>4 DEF TableInMap
      <3>5. QED
        BY <3>2, <3>3, <3>4
    <2>8. QED
      BY <2>6, <2>7
  <1>9. QED
    BY <1>6, <1>7, <1>8 DEF MirrorInv

LEMMA ExtendMirror ==
    ASSUME TypeInv, DeadInv, FinalInv, MirrorInv, OneEngineOnly, OneClient,
           NEW p \in Callers \ Cleaners, NEW ls \in SUBSET Held(p), NEW new \in SUBSET Lease,
           Prolongs(ls, new), Extend(p, ls, new)
    PROVE  MirrorInv'
  <1> DEFINE all == (Held(p) \ ls) \cup new
             ws == Writes("expiry", new)
  <1>1. Ready(p) /\ Hold(p, all, ws) /\ UNCHANGED <<restored, snap, rows, now, failed>>
    BY DEF Extend
  <1>2. /\ \A l \in new : \E w \in ws : w.kind = "expiry" /\ w.lease = l
        /\ \A w \in ws : w.kind = "expiry" /\ w.lease \in new
    BY WritesAre
  <1>3. \A l \in all : l \in new \/ (l \in Held(p) /\ l \notin ls)
    OBVIOUS
  <1>4. /\ \A l \in Held(p) : l \in all \/ l \in ls
        /\ \A l \in new : l \in all
    OBVIOUS
  <1> HIDE DEF all, ws
  <1>5. /\ \A e \in Engines : leases'[e] = all /\ leases[e] = Held(p)
        /\ todo[p] = {} /\ todo'[p] = ws
        /\ \A q \in Callers : q # p => todo'[q] = todo[q]
        /\ \A e \in Engines : restored[e] = "done"
        /\ \A q \in Callers : pc[q] # "install" /\ pc'[q] # "install"
    BY <1>1, HoldFacts
  <1>6. DirtyIsHeld'
    <2>1. SUFFICES ASSUME NEW q \in Callers, NEW v \in todo'[q], v.kind \in Dirty
                   PROVE  /\ \E e \in Engines : v.lease \in leases'[e]
                          /\ \A e \in Engines : \A k \in leases'[e] :
                                k.token = v.lease.token => k = v.lease
      BY DEF DirtyIsHeld
    <2>2. v \in ws /\ v.lease \in new
      BY <1>2, <1>5, <2>1, OthersOnlyMark DEF Dirty
    <2>3. OnePerToken(Held(p))
      BY EngineType DEF DeadInv, Keyed, Held
    <2>4. OnePerToken(new)
      BY <2>3 DEF Prolongs, OnePerToken
    <2>5. \A k \in Held(p) : k \notin ls => k.token # v.lease.token
      BY <2>2, <2>3 DEF Prolongs, OnePerToken
    <2>6. \A k \in all : k.token = v.lease.token => k = v.lease
      BY <1>3, <2>2, <2>4, <2>5 DEF OnePerToken
    <2>7. QED
      BY <1>4, <1>5, <2>2, <2>6, EngineType
  <1>7. SnapIsTable'
    BY <1>5 DEF SnapIsTable
  <1>8. Mirrored'
    <2>1. SUFFICES ASSUME NEW e \in Engines, ~failed
                   PROVE  MapInTable(leases[e])' /\ TableInMap(leases[e])'
      BY <1>1 DEF Mirrored
    <2>2. MapInTable(leases[e]) /\ TableInMap(leases[e])
      BY <1>5, <2>1 DEF MirrorInv, Mirrored, Installed
    <2>3. ActiveLeases' = ActiveLeases /\ now' = now
      BY <1>1 DEF ActiveLeases
    <2>4. \A q \in Callers : todo[q] \subseteq todo'[q]
      BY <1>5
    <2>5. MapInTable(leases[e])'
      <3>1. SUFFICES ASSUME NEW l \in leases'[e]
                     PROVE  \/ l \in ActiveLeases
                            \/ \E q \in Callers : \E w \in todo'[q] :
                                  w.kind \in Dirty /\ w.lease = l
        BY <2>3 DEF MapInTable
      <3>2. CASE l \in new
        BY <1>2, <1>5, <3>2 DEF Dirty
      <3>3. CASE l \in leases[e]
        BY <2>2, <2>4, <3>3 DEF MapInTable
      <3>4. QED
        BY <1>3, <1>5, <3>2, <3>3
    <2>6. TableInMap(leases[e])'
      <3>1. SUFFICES ASSUME NEW a \in ActiveLeases
                     PROVE  \/ a \in leases'[e]
                            \/ now > a.expires
                            \/ \E q \in Callers : \E w \in todo'[q] :
                                  w.kind # "insert" /\ w.lease.token = a.token
        BY <2>3 DEF TableInMap
      <3>2. CASE a \in ls
        <4>1. PICK n \in new : n.token = a.token
          BY <3>2 DEF Prolongs
        <4>2. QED
          BY <1>2, <1>5, <4>1
      <3>3. CASE a \in leases[e] /\ a \notin ls
        BY <1>4, <1>5, <3>3
      <3>4. CASE a \notin leases[e]
        BY <2>2, <2>4, <3>4 DEF TableInMap
      <3>5. QED
        BY <3>2, <3>3, <3>4
    <2>7. QED
      BY <2>5, <2>6
  <1>9. QED
    BY <1>6, <1>7, <1>8 DEF MirrorInv

LEMMA WriteRowMirror ==
    ASSUME TypeInv, DeadInv, LiveInv, FinalInv, MirrorInv, OneEngineOnly, OneClient,
           NEW p \in Callers, NEW w \in todo[p], WriteRow(p, w)
    PROVE  MirrorInv'
  <1>0. /\ w \in Write /\ rows \subseteq Row
        /\ pc[p] \in {"lapse", "write"}
        /\ UNCHANGED <<leases, snap, now>>
        /\ \A q \in Callers : todo'[q] \subseteq todo[q]
        /\ \A q \in Callers : \A v \in todo[q] : v # w => v \in todo'[q]
        /\ \A q \in Callers : pc'[q] = "install" => pc[q] = "install"
    BY DEF TypeInv, TypeOK, WriteRow
  <1>1. \A q \in Callers : pc[q] # "install"
    BY <1>0, NobodyInstalls DEF TypeInv, Gated
  <1>2. DirtyIsHeld'
    BY <1>0 DEF MirrorInv, DirtyIsHeld
  <1>3. SnapIsTable'
    BY <1>0, <1>1 DEF SnapIsTable
  <1>4. Mirrored'
    <2>1. SUFFICES ASSUME NEW e \in Engines, ~failed'
                   PROVE  MapInTable(leases[e])' /\ TableInMap(leases[e])'
      BY DEF Mirrored
    <2>2. rows' = Apply(w) /\ ~failed
      BY <2>1 DEF WriteRow
    <2>3. e = EngineOf[p] /\ restored[e] # "no"
      BY <1>0, EngineType DEF OneEngineOnly, TypeInv, TypeOK, Gated
    <2>4. MapInTable(leases[e]) /\ TableInMap(leases[e])
      BY <1>1, <2>2, <2>3 DEF MirrorInv, Mirrored, Installed
    <2>5. \A a \in ActiveLeases : a \in Lease
      BY <1>0, ActiveType
    <2>6. w.kind \in {"insert", "revoke", "lapse", "expiry"} /\ w.lease \in Lease
      BY <1>0 DEF Write
    (* The rows of other tokens, and what is pending about them, stay. *)
    <2>7. \A a : a.token # w.lease.token => (a \in ActiveLeases' <=> a \in ActiveLeases)
      <3>1. ASSUME NEW b \in ActiveLeases, NEW a, a = [b EXCEPT !.expires = w.lease.expires]
            PROVE  a.token = b.token
        BY <2>5, <3>1 DEF Lease
      <3>2. CASE w.kind = "insert"
        BY <1>0, <2>2, <3>2, ActiveAfter
      <3>3. CASE w.kind \in {"revoke", "lapse"}
        BY <1>0, <2>2, <3>3, ActiveAfter
      <3>4. CASE w.kind = "expiry"
        <4>1. \A a : a \in ActiveLeases' =>
                  \/ a \in ActiveLeases /\ a.token # w.lease.token
                  \/ \E b \in ActiveLeases : /\ b.token = w.lease.token
                                             /\ a = [b EXCEPT !.expires = w.lease.expires]
          BY <1>0, <2>2, <3>4, ActiveAfter
        <4>2. \A a : a \in ActiveLeases' => a \in ActiveLeases \/ a.token = w.lease.token
          BY <3>1, <4>1
        <4>3. \A a \in ActiveLeases : a.token # w.lease.token => a \in ActiveLeases'
          BY <1>0, <2>2, <3>4, ActiveAfter
        <4>4. QED
          BY <4>2, <4>3
      <3>5. QED
        BY <2>6, <3>2, <3>3, <3>4
    (* A lease of w's token is w's lease, and its row is that of its agent. *)
    <2>8. ASSUME NEW l \in leases[e], l.token = w.lease.token
          PROVE  l \in ActiveLeases'
      <3>1. w.kind \in Dirty
        BY <2>6, <2>8 DEF DeadInv, MarkedIsOut, Dirty
      <3>2. l = w.lease
        BY <2>8, <3>1 DEF MirrorInv, DirtyIsHeld
      <3>3. CASE w.kind = "insert"
        BY <1>0, <2>2, <3>2, <3>3, ActiveAfter
      <3>4. CASE w.kind = "expiry"
        <4>1. \A q \in Callers : \A v \in todo[q] : v.kind # "insert"
          BY <3>4, LendingAssumption DEF FinalInv, CallsAreUniform, OneClient
        <4>2. PICK a \in ActiveLeases : a.token = l.token /\ a.agent = l.agent
          BY <2>2, <4>1 DEF LiveInv, LiveIsStored
        <4>3. [a EXCEPT !.expires = w.lease.expires] \in ActiveLeases'
          BY <1>0, <2>2, <2>8, <3>4, <4>2, ActiveAfter
        <4>4. [a EXCEPT !.expires = w.lease.expires] = l
          BY <2>5, <2>6, <3>2, <4>2 DEF Lease
        <4>5. QED
          BY <4>3, <4>4
      <3>5. QED
        BY <3>1, <3>3, <3>4 DEF Dirty
    <2>9. MapInTable(leases[e])'
      <3>1. SUFFICES ASSUME NEW l \in leases[e], l.token # w.lease.token
                     PROVE  \/ l \in ActiveLeases'
                            \/ \E q \in Callers : \E v \in todo'[q] :
                                  v.kind \in Dirty /\ v.lease = l
        BY <1>0, <2>8 DEF MapInTable
      <3>2. CASE l \in ActiveLeases
        BY <2>7, <3>1, <3>2
      <3>3. CASE \E q \in Callers : \E v \in todo[q] : v.kind \in Dirty /\ v.lease = l
        BY <1>0, <3>1, <3>3
      <3>4. QED
        BY <2>4, <3>2, <3>3 DEF MapInTable
    <2>10. TableInMap(leases[e])'
      <3>1. SUFFICES ASSUME NEW a \in ActiveLeases'
                     PROVE  \/ a \in leases[e]
                            \/ now > a.expires
                            \/ \E q \in Callers : \E v \in todo'[q] :
                                  v.kind # "insert" /\ v.lease.token = a.token
        BY <1>0 DEF TableInMap
      <3>2. CASE a.token # w.lease.token
        BY <1>0, <2>4, <2>7, <3>1, <3>2 DEF TableInMap
      <3>3. CASE a.token = w.lease.token
        <4>1. w.kind \in Dirty
          BY <1>0, <2>2, <2>6, <3>1, <3>3, ActiveAfter DEF Dirty
        <4>2. a.expires = w.lease.expires
          <5>1. CASE w.kind = "insert"
            BY <1>0, <2>2, <3>1, <3>3, <5>1, ActiveAfter
          <5>2. CASE w.kind = "expiry"
            <6>1. PICK b \in ActiveLeases : a = [b EXCEPT !.expires = w.lease.expires]
              BY <1>0, <2>2, <3>1, <3>3, <5>2, ActiveAfter
            <6>2. QED
              BY <2>5, <6>1 DEF Lease
          <5>3. QED
            BY <4>1, <5>1, <5>2 DEF Dirty
        <4>3. CASE now <= w.lease.expires
          <5>1. PICK f \in Engines : w.lease \in leases[f]
            BY <4>1, <4>3 DEF MirrorInv, DirtyIsHeld
          <5>2. w.lease \in leases[e]
            BY <5>1 DEF OneEngineOnly
          <5>3. w.lease \in ActiveLeases'
            BY <2>8, <5>2
          <5>4. \A r, s \in rows' : r.lease.token = s.lease.token => r = s
            <6>1. \A r, s \in rows : r.lease.token = s.lease.token => r = s
              BY DEF DeadInv, Keyed
            <6>2. QED
              BY <1>0, <2>2, <6>1, ApplyFacts
          <5>5. a = w.lease
            BY <3>1, <3>3, <5>3, <5>4 DEF ActiveLeases
          <5>6. QED
            BY <5>2, <5>5
        <4>4. CASE ~(now <= w.lease.expires)
          <5>1. now \in Nat /\ w.lease.expires \in Nat
            BY <2>6 DEF TypeInv, TypeOK, Lease
          <5>2. QED
            BY <4>2, <4>4, <5>1
        <4>5. QED
          BY <4>3, <4>4
      <3>4. QED
        BY <3>2, <3>3
    <2>11. QED
      BY <2>9, <2>10
  <1>5. QED
    BY <1>2, <1>3, <1>4 DEF MirrorInv

LEMMA RestoreMirror ==
    ASSUME TypeInv, DeadInv, MirrorInv, OneEngineOnly, NEW p \in Callers,
           BeginRestore(p) \/ RestoreInstall(p)
    PROVE  MirrorInv'
  <1> DEFINE e == EngineOf[p]
  <1>0. e \in Engines /\ \A f \in Engines : f = e
    BY EngineType DEF OneEngineOnly
  <1>1. CASE BeginRestore(p)
    <2>1. UNCHANGED <<leases, rows, now, todo>>
      BY <1>1 DEF BeginRestore
    <2>2. ActiveLeases' = ActiveLeases
      BY <2>1 DEF ActiveLeases
    <2>3. DirtyIsHeld'
      BY <2>1 DEF MirrorInv, DirtyIsHeld
    <2>4. ASSUME ~failed' PROVE snap'[e] = ActiveLeases /\ pc'[p] = "install"
      BY <1>0, <1>1, <2>4 DEF BeginRestore, TypeInv, TypeOK
    <2>5. SnapIsTable'
      BY <1>0, <2>2, <2>4, EngineType DEF SnapIsTable
    <2>6. Mirrored'
      BY <2>4 DEF Mirrored, Installed
    <2>7. QED
      BY <2>3, <2>5, <2>6 DEF MirrorInv
  <1>2. CASE RestoreInstall(p)
    <2> DEFINE current == {l \in snap[e] : l.expires > now}
               lapsed == snap[e] \ current
    <2>1. /\ leases[e] = {} /\ \A q \in Callers : todo[q] = {}
          /\ UNCHANGED <<rows, now, failed>>
      BY <1>0, <1>2, InstallAlone DEF RestoreInstall, DeadInv, SnapSound
    <2>2. leases'[e] = leases[e] \cup current /\ todo'[p] = Writes("lapse", lapsed)
      BY <1>0, <1>2 DEF RestoreInstall, TypeInv, TypeOK
    <2>3. /\ \A w \in Writes("lapse", lapsed) : w.kind = "lapse"
          /\ \A l \in lapsed : \E w \in Writes("lapse", lapsed) : w.kind = "lapse" /\ w.lease = l
      <3> HIDE DEF lapsed
      <3>1. QED
        BY WritesAre
    <2>4. \A q \in Callers : \A w \in todo'[q] : w.kind = "lapse"
      BY <1>2, <2>1, <2>2, <2>3 DEF RestoreInstall, TypeInv, TypeOK
    <2>5. \A q \in Callers : pc'[q] # "install"
      <3>1. \A q \in Callers : pc[q] = "install" => q = p
        BY <1>0, <1>2, EngineType DEF TypeInv, Gated, InRestore, RestoreInstall
      <3>2. pc'[p] # "install" /\ \A q \in Callers : q # p => pc'[q] = pc[q]
        BY <1>2 DEF RestoreInstall, TypeInv, TypeOK
      <3>3. QED
        BY <3>1, <3>2
    <2>6. DirtyIsHeld' /\ SnapIsTable'
      BY <2>4, <2>5 DEF DirtyIsHeld, SnapIsTable, Dirty
    <2>7. Mirrored'
      <3>1. SUFFICES ASSUME ~failed PROVE MapInTable(leases[e])' /\ TableInMap(leases[e])'
        BY <1>0, <2>1 DEF Mirrored
      <3>2. snap[e] = ActiveLeases /\ ActiveLeases' = ActiveLeases
        BY <1>2, <2>1, <3>1 DEF MirrorInv, SnapIsTable, RestoreInstall, ActiveLeases
      <3>3. MapInTable(leases[e])'
        BY <2>1, <2>2, <3>2 DEF MapInTable
      <3>4. TableInMap(leases[e])'
        <4>1. \A a \in ActiveLeases : a \in current \/ a \in lapsed
          BY <3>2
        <4> HIDE DEF current, lapsed
        <4>2. \A a \in lapsed : \E w \in todo'[p] : w.kind = "lapse" /\ w.lease = a
          BY <2>2, <2>3
        <4>3. QED
          BY <2>2, <3>2, <4>1, <4>2 DEF TableInMap
      <3>5. QED
        BY <3>3, <3>4
    <2>8. QED
      BY <2>6, <2>7 DEF MirrorInv
  <1>3. QED
    BY <1>1, <1>2

LEMMA TickMirror == ASSUME TypeInv, MirrorInv, Tick PROVE MirrorInv'
  <1>0. /\ UNCHANGED <<leases, restored, snap, rows, pc, todo, failed>>
        /\ now \in Nat /\ now' = now + 1
    BY DEF Tick, TypeInv, TypeOK
  <1>1. ActiveLeases' = ActiveLeases /\ \A a \in ActiveLeases : a.expires \in Nat
    BY <1>0, ActiveType DEF ActiveLeases, TypeInv, TypeOK, Lease
  <1>2. \A q \in Callers : \A w \in todo[q] : w.lease.expires \in Nat
    BY DEF TypeInv, TypeOK, Write, Lease
  <1>3. DirtyIsHeld'
    BY <1>0, <1>2 DEF MirrorInv, DirtyIsHeld
  <1>4. SnapIsTable'
    BY <1>0, <1>1 DEF MirrorInv, SnapIsTable
  <1>5. ASSUME NEW e \in Engines, ~failed, Installed(e)
        PROVE  MapInTable(leases[e])' /\ TableInMap(leases[e])'
    <2>1. MapInTable(leases[e]) /\ TableInMap(leases[e])
      BY <1>5 DEF MirrorInv, Mirrored
    <2>2. MapInTable(leases[e])'
      BY <1>0, <1>1, <2>1 DEF MapInTable
    <2>3. \A a \in ActiveLeases : now > a.expires => now' > a.expires
      BY <1>0, <1>1
    <2>4. TableInMap(leases[e])'
      BY <1>0, <1>1, <2>1, <2>3 DEF TableInMap
    <2>5. QED
      BY <2>2, <2>4
  <1>6. Mirrored'
    BY <1>0, <1>5 DEF Mirrored, Installed
  <1>7. QED
    BY <1>3, <1>4, <1>6 DEF MirrorInv

LEMMA MirrorStep ==
    ASSUME TypeInv, DeadInv, LiveInv, FinalInv, MirrorInv, OneEngineOnly, OneClient,
           [EngineNext]_vars
    PROVE  MirrorInv'
  <1>1. ASSUME NEW p \in Callers \ Cleaners, ClientCall(p) PROVE MirrorInv'
    BY <1>1, LendMirror, RemoveMirror, ExtendMirror DEF ClientCall
  <1>2. ASSUME NEW p \in Cleaners, CleanupExpired(p) PROVE MirrorInv'
    <2>1. p \in Callers /\ {l \in Held(p) : IsExpired(l)} \in SUBSET Held(p)
      BY LendingAssumption
    <2>2. \A l \in {k \in Held(p) : IsExpired(k)} : IsExpired(l)
      OBVIOUS
    <2>3. QED
      BY <1>2, <2>1, <2>2, RemoveMirror DEF CleanupExpired
  <1>3. CASE Restart
    BY <1>3 DEF Restart, MirrorInv, DirtyIsHeld, SnapIsTable, Mirrored, Installed
  <1>4. CASE UNCHANGED vars
    BY <1>4 DEF vars, MirrorInv, DirtyIsHeld, SnapIsTable, Mirrored, Installed, MapInTable,
                TableInMap, ActiveLeases
  <1>5. QED
    BY <1>1, <1>2, <1>3, <1>4, WriteRowMirror, RestoreMirror, TickMirror DEF EngineNext

(* With one engine and one client, next to any number of cleanup loops, and   *)
(* as long as no statement has failed: whenever no call is running, the rows  *)
(* a restart would restore are the unexpired leases of the map, with the same *)
(* agents and the same expiries (lend, revoke, renew, backoff,                *)
(* cleanup_expired, restore_leases).                                          *)
THEOREM TableMirrorsMap ==
    ASSUME OneEngineOnly, OneClient
    PROVE  Spec => []StoreMirrorsLeases
  <1>1. TypeInv /\ MirrorInv => StoreMirrorsLeases
    <2>1. SUFFICES ASSUME TypeInv, MirrorInv, NEW e \in Engines, ~failed, Quiescent,
                          restored[e] = "done"
                   PROVE  Unexpired(leases[e]) = Unexpired(ActiveLeases)
      BY DEF StoreMirrorsLeases
    <2>2. \A p \in Callers : todo[p] = {}
      BY <2>1 DEF Quiescent, TypeInv, TypeOK
    <2>3. MapInTable(leases[e]) /\ TableInMap(leases[e])
      BY <2>1 DEF MirrorInv, Mirrored, Installed, Quiescent
    <2>4. QED
      BY <2>2, <2>3 DEF MapInTable, TableInMap, Unexpired, IsExpired
  <1>2. TypeInv /\ DeadInv /\ LiveInv /\ FinalInv /\ MirrorInv /\ [Next]_vars
            => (TypeInv /\ DeadInv /\ LiveInv /\ FinalInv /\ MirrorInv)'
    BY TypeStep, DeadStep, LiveStep, FinalStep, MirrorStep, NextIsEngineNext
  <1>3. Init => TypeInv /\ DeadInv /\ LiveInv /\ FinalInv /\ MirrorInv
    BY TypeInit, DeadInit, LiveInit, FinalInit, MirrorInit
  <1>4. QED
    BY <1>1, <1>2, <1>3, PTL DEF Spec

=============================================================================
