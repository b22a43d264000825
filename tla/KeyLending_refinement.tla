------------------------ MODULE KeyLending_refinement ------------------------
(***************************************************************************)
(* KeyLending keeps the contract of LeaseContract, for any engines,        *)
(* callers, agents and tokens, with failing statements and restarts.       *)
(***************************************************************************)
EXTENDS KeyLending_proofs

(* The two leases are the same token in the same hands. *)
SameHands(k, l) == k.token = l.token /\ k.agent = l.agent

(* Every lease of ls is that of a known one, but for its expiry. *)
FromKnown(ls) == \A l \in ls : \E k \in Known : SameHands(k, l)

Inserts(p) == {w.lease : w \in {x \in todo[p] : x.kind = "insert"}}

(* Where a known lease is. *)
LEMMA KnownParts ==
    /\ \A l : l \in Known <=>
          \/ \E e \in Engines : l \in leases[e] \/ l \in snap[e]
          \/ l \in ActiveLeases
          \/ \E p \in Callers : l \in Inserts(p)
    /\ \A l : l \in Known' <=>
          \/ \E e \in Engines : l \in leases'[e] \/ l \in snap'[e]
          \/ l \in ActiveLeases'
          \/ \E p \in Callers : l \in Inserts(p)'
  <1>1. ASSUME NEW l
        PROVE  /\ l \in UNION {leases[e] \cup snap[e] : e \in Engines}
                      <=> \E e \in Engines : l \in leases[e] \/ l \in snap[e]
               /\ l \in UNION {leases'[e] \cup snap'[e] : e \in Engines}
                      <=> \E e \in Engines : l \in leases'[e] \/ l \in snap'[e]
    OBVIOUS
  <1>2. ASSUME NEW l
        PROVE  /\ l \in {w.lease : w \in {x \in UNION {todo[p] : p \in Callers} :
                                               x.kind = "insert"}}
                      <=> \E p \in Callers : l \in Inserts(p)
               /\ l \in {w.lease : w \in {x \in UNION {todo'[p] : p \in Callers} :
                                               x.kind = "insert"}}
                      <=> \E p \in Callers : l \in Inserts(p)'
    BY DEF Inserts
  <1>3. QED
    BY <1>1, <1>2 DEF Known, ActiveLeases

(* A step that makes up no lease ends some tokens, or none. *)
LEMMA EndsSome ==
    ASSUME \A e \in Engines : FromKnown(leases'[e]) /\ FromKnown(snap'[e]),
           FromKnown(ActiveLeases'),
           \A p \in Callers : FromKnown(Inserts(p)'),
           UNCHANGED nextToken
    PROVE  Contract!End
  <1>1. \A l \in Known' : \E k \in Known : SameHands(k, l)
    BY KnownParts DEF FromKnown
  <1>2. QED
    BY <1>1 DEF Contract!End, SameHands

(* What is known already. *)
LEMMA KnownIsKnown ==
    /\ \A e \in Engines : FromKnown(leases[e]) /\ FromKnown(snap[e])
    /\ FromKnown(ActiveLeases)
    /\ \A p \in Callers : FromKnown(Inserts(p))
  BY KnownParts DEF FromKnown, SameHands

-----------------------------------------------------------------------------
(* The steps. *)

(* A caller that has nothing to insert adds no insert to those there are. *)
LEMMA InsertsAfter ==
    ASSUME NEW p \in Callers, \A w \in todo'[p] : w.kind # "insert",
           \A q \in Callers : q # p => todo'[q] = todo[q]
    PROVE  \A q \in Callers : FromKnown(Inserts(q)')
  <1>1. Inserts(p)' = {}
    BY DEF Inserts
  <1>2. \A q \in Callers : q # p => Inserts(q)' = Inserts(q)
    BY DEF Inserts
  <1>3. QED
    BY <1>1, <1>2, KnownIsKnown DEF FromKnown

(* A lease held by an engine, or several, may be replaced by themselves with   *)
(* another expiry; nothing is inserted.                                        *)
LEMMA HoldEnds ==
    ASSUME TypeInv, NEW p \in Callers, Ready(p), NEW ls, NEW ws, Hold(p, ls, ws),
           \A l \in ls : \E k \in Held(p) : SameHands(k, l),
           \A w \in ws : w.kind # "insert",
           UNCHANGED <<snap, rows, nextToken>>
    PROVE  Contract!End
  <1> USE EngineType, KnownIsKnown
  <1>1. \A e \in Engines : FromKnown(leases'[e]) /\ FromKnown(snap'[e])
    BY DEF Hold, Held, FromKnown, SameHands, TypeInv, TypeOK
  <1>2. FromKnown(ActiveLeases')
    BY DEF ActiveLeases, FromKnown
  <1>3. \A q \in Callers : FromKnown(Inserts(q)')
    <2>1. \A q \in Callers : q # p => todo'[q] = todo[q]
      BY DEF Hold, TypeInv, TypeOK
    <2>2. todo'[p] = ws
      BY DEF Hold, TypeInv, TypeOK
    <2>3. QED
      BY <2>1, <2>2, InsertsAfter
  <1>4. QED
    BY <1>1, <1>2, <1>3, EndsSome

LEMMA RemoveEnds ==
    ASSUME TypeInv, NEW p \in Callers, NEW ls, NEW kind \in {"revoke", "lapse"},
           Remove(p, kind, ls)
    PROVE  Contract!End
  <1>1. \A w \in Writes(kind, ls) : w.kind # "insert"
    BY DEF Writes
  <1>2. QED
    BY <1>1, HoldEnds DEF Remove, SameHands

LEMMA ExtendEnds ==
    ASSUME TypeInv, NEW p \in Callers, NEW ls, NEW new, Extend(p, ls, new),
           \A l \in new : \E k \in Held(p) : SameHands(k, l)
    PROVE  Contract!End
  <1>1. \A w \in Writes("expiry", new) : w.kind # "insert"
    BY DEF Writes
  <1>2. \A l \in (Held(p) \ ls) \cup new : \E k \in Held(p) : SameHands(k, l)
    BY DEF SameHands
  <1>3. QED
    BY <1>1, <1>2, HoldEnds DEF Extend

(* A renewed lease, or one that was backed off, is in the same hands. *)
LEMMA SameHandsAfter ==
    ASSUME TypeInv, NEW p \in Callers, NEW ls \in SUBSET Held(p), NEW seconds
    PROVE  /\ \A l \in Renewed(ls, seconds) : \E k \in Held(p) : SameHands(k, l)
           /\ \A l \in BackedOff(ls, seconds) : \E k \in Held(p) : SameHands(k, l)
  <1>1. ls \in SUBSET Lease
    BY EngineType DEF Held, TypeInv, TypeOK
  <1>2. QED
    BY <1>1 DEF Renewed, BackedOff, SameHands, Lease

LEMMA CallKeeps ==
    ASSUME TypeInv, NEW p \in Callers, Call(p) PROVE Contract!Next
  <1>1. ASSUME NEW a \in Agents, NEW ttl \in Ttls, Lend(p, a, ttl) PROVE Contract!Next
    <2> DEFINE l == [token |-> nextToken, agent |-> a, expires |-> now + ttl]
    <2> USE EngineType
    <2>1. todo[p] = {} /\ nextToken \in Tokens /\ nextToken \in Nat
      BY <1>1 DEF Lend, Ready, TypeInv, TypeOK, Tokens
    <2>2. /\ leases' = [leases EXCEPT ![EngineOf[p]] = leases[EngineOf[p]] \cup {l}]
          /\ todo' = [todo EXCEPT ![p] = Writes("insert", {l})]
          /\ snap' = snap /\ rows' = rows /\ nextToken' = nextToken + 1
      BY <1>1 DEF Lend, Hold, Held
    <2>3. Inserts(p)' = {l} /\ Inserts(p) = {}
          /\ \A q \in Callers : q # p => Inserts(q)' = Inserts(q)
      <3>1. todo'[p] = Writes("insert", {l}) /\ \A q \in Callers : q # p => todo'[q] = todo[q]
        BY <2>2 DEF TypeInv, TypeOK
      <3> HIDE DEF l
      <3>2. \A w \in Writes("insert", {l}) : w.kind = "insert" /\ w.lease = l
        BY DEF Writes
      <3>3. \E w : w \in Writes("insert", {l})
        <4>1. [kind |-> "insert", lease |-> l] \in Writes("insert", {l})
          BY DEF Writes
        <4>2. QED
          BY <4>1
      <3>4. Inserts(p)' = {l}
        BY <3>1, <3>2, <3>3 DEF Inserts
      <3>5. QED
        BY <2>1, <3>1, <3>4 DEF Inserts
    <2>4. ActiveLeases' = ActiveLeases
      BY <2>2 DEF ActiveLeases
    <2>5. \A k : (\E e \in Engines : k \in leases'[e] \/ k \in snap'[e]) <=>
                     k = l \/ \E e \in Engines : k \in leases[e] \/ k \in snap[e]
      BY <2>2 DEF TypeInv, TypeOK
    <2>6. \A k : k \in Known' <=> k = l \/ k \in Known
      BY <2>3, <2>4, <2>5, KnownParts
    <2>7. {<<k.token, k.agent>> : k \in Known'} =
              {<<k.token, k.agent>> : k \in Known} \cup {<<nextToken, a>>}
      <3>1. Known' = Known \cup {l}
        BY <2>6
      <3>2. l.token = nextToken /\ l.agent = a
        OBVIOUS
      <3> HIDE DEF l
      <3>3. QED
        BY <3>1, <3>2
    <2>8. /\ nextToken \notin 1..(nextToken - 1)
          /\ 1..(nextToken' - 1) = (1..(nextToken - 1)) \cup {nextToken}
      BY <2>1, <2>2 DEF Tokens, TypeInv, TypeOK
    <2>9. QED
      BY <2>1, <2>7, <2>8 DEF Contract!Next, Contract!Grant
  <1>2. ASSUME NEW t \in Tokens, Revoke(p, t) PROVE Contract!End
    BY <1>2, RemoveEnds DEF Revoke
  <1>3. ASSUME NEW a \in Agents, RevokeForAgent(p, a) PROVE Contract!End
    BY <1>3, RemoveEnds DEF RevokeForAgent
  <1>4. ASSUME NEW t \in Tokens, NEW ttl \in Ttls, Renew(p, t, ttl) PROVE Contract!End
    <2>1. HeldAs(p, t) \in SUBSET Held(p)
      BY DEF HeldAs
    <2>2. QED
      BY <1>4, <2>1, SameHandsAfter, ExtendEnds DEF Renew
  <1>5. ASSUME NEW a \in Agents, NEW ttl \in Ttls, RenewForAgent(p, a, ttl)
        PROVE  Contract!End
    <2>1. HeldBy(p, a) \in SUBSET Held(p)
      BY DEF HeldBy
    <2>2. QED
      BY <1>5, <2>1, SameHandsAfter, ExtendEnds DEF RenewForAgent
  <1>6. ASSUME NEW t \in Tokens, NEW ttl \in Ttls, Backoff(p, t, ttl) PROVE Contract!End
    <2>1. HeldAs(p, t) \in SUBSET Held(p)
      BY DEF HeldAs
    <2>2. QED
      BY <1>6, <2>1, SameHandsAfter, ExtendEnds DEF Backoff
  <1>7. QED
    BY <1>1, <1>2, <1>3, <1>4, <1>5, <1>6 DEF Call, Contract!Next

(* A restore reads leases from rows, and takes some of them. *)
LEMMA RestoreEnds ==
    ASSUME TypeInv, NEW p \in Callers, BeginRestore(p) \/ RestoreInstall(p)
    PROVE  Contract!End
  <1> USE EngineType, KnownIsKnown DEF TypeInv, TypeOK
  <1>1. \A e \in Engines : FromKnown(leases'[e]) /\ FromKnown(snap'[e])
    BY DEF BeginRestore, RestoreInstall, FromKnown
  <1>2. FromKnown(ActiveLeases')
    BY DEF BeginRestore, RestoreInstall, ActiveLeases, FromKnown
  <1>3. \A q \in Callers : FromKnown(Inserts(q)')
    <2>1. CASE BeginRestore(p)
      BY <2>1 DEF BeginRestore, Inserts, FromKnown
    <2>2. CASE RestoreInstall(p)
      <3>1. \A w \in todo'[p] : w.kind # "insert"
        BY <2>2 DEF RestoreInstall, Writes
      <3>2. \A q \in Callers : q # p => todo'[q] = todo[q]
        BY <2>2 DEF RestoreInstall
      <3>3. QED
        BY <3>1, <3>2, InsertsAfter
    <2>3. QED
      BY <2>1, <2>2
  <1>4. UNCHANGED nextToken
    BY DEF BeginRestore, RestoreInstall
  <1>5. QED
    BY <1>1, <1>2, <1>3, <1>4, EndsSome

(* A statement moves an insert to the table, or changes rows in place. *)
LEMMA WriteRowEnds ==
    ASSUME TypeInv, NEW p \in Callers, NEW w \in todo[p], WriteRow(p, w)
    PROVE  Contract!End
  <1> USE KnownIsKnown
  <1>0. w \in Write /\ rows \subseteq Row
    BY DEF TypeInv, TypeOK
  <1>1. \A e \in Engines : FromKnown(leases'[e]) /\ FromKnown(snap'[e])
    BY DEF WriteRow
  <1>2. \A q \in Callers : FromKnown(Inserts(q)')
    BY DEF WriteRow, Inserts, FromKnown, TypeInv, TypeOK
  <1>3. FromKnown(ActiveLeases')
    <2>1. CASE UNCHANGED rows
      BY <2>1 DEF ActiveLeases
    <2>2. CASE w.kind = "insert" /\ rows' = Insert(w.lease)
      <3>1. w.lease \in Inserts(p)
        BY <2>2 DEF Inserts
      <3>2. \A l \in ActiveLeases' : l = w.lease \/ l \in ActiveLeases
        BY <2>2 DEF ActiveLeases, Insert
      <3>3. QED
        BY <3>1, <3>2 DEF FromKnown
    <2>3. CASE rows' = MarkRevoked(w.lease)
      <3>1. \A l \in ActiveLeases' : l \in ActiveLeases
        BY <1>0, <2>3 DEF ActiveLeases, MarkRevoked, Row
      <3>2. QED
        BY <3>1 DEF FromKnown
    <2>4. CASE rows' = UpdateExpiry(w.lease)
      <3>1. \A l \in ActiveLeases' : \E k \in ActiveLeases : SameHands(k, l)
        BY <1>0, <2>4 DEF ActiveLeases, UpdateExpiry, Row, Lease, SameHands
      <3>2. QED
        BY <3>1 DEF FromKnown, SameHands
    <2>5. QED
      BY <1>0, <2>1, <2>2, <2>3, <2>4 DEF WriteRow, Apply, Write
  <1>4. QED
    BY <1>1, <1>2, <1>3, EndsSome DEF WriteRow

LEMMA OtherEnds ==
    ASSUME TypeInv, Tick \/ Restart \/ UNCHANGED vars PROVE Contract!End
  <1> USE KnownIsKnown
  <1>1. \A e \in Engines : FromKnown(leases'[e]) /\ FromKnown(snap'[e])
    BY DEF Tick, Restart, vars, FromKnown
  <1>2. FromKnown(ActiveLeases')
    BY DEF Tick, Restart, vars, ActiveLeases
  <1>3. \A q \in Callers : FromKnown(Inserts(q)')
    BY DEF Tick, Restart, vars, Inserts, FromKnown
  <1>4. QED
    BY <1>1, <1>2, <1>3, EndsSome DEF Tick, Restart, vars

LEMMA ContractStep ==
    ASSUME TypeInv, [Next]_vars PROVE Contract!Next
  <1>1. ASSUME NEW p \in Callers, BeginRestore(p) \/ Continue(p) PROVE Contract!End
    BY <1>1, RestoreEnds, WriteRowEnds DEF Continue
  <1>2. ASSUME NEW p \in Callers \ Cleaners, Call(p) PROVE Contract!Next
    BY <1>2, CallKeeps
  <1>3. ASSUME NEW p \in Cleaners, CleanupExpired(p) PROVE Contract!End
    BY <1>3, RemoveEnds, LendingAssumption DEF CleanupExpired
  <1>4. QED
    BY <1>1, <1>2, <1>3, OtherEnds DEF Next, Contract!Next

LEMMA ContractInit ==
    ASSUME Init PROVE Contract!Init
  <1>1. Known = {}
    BY DEF Init, Known
  <1>2. 1..(nextToken - 1) = {}
    BY DEF Init
  <1>3. QED
    BY <1>1, <1>2 DEF Contract!Init

(* The engines keep the contract for any number of engines, callers, agents    *)
(* and tokens, with failing statements and restarts: lend grants a fresh token *)
(* to one agent, and every other step of secrets.rs leaves each token in the   *)
(* hands it is in or ends it.                                                  *)
THEOREM EnginesKeepContract == Spec => KeepsContract
  <1>1. Init => Contract!Init
    BY ContractInit
  <1>2. TypeInv /\ [Next]_vars => Contract!Next
    BY ContractStep
  <1>3. TypeInv /\ [Next]_vars => TypeInv'
    BY TypeStep
  <1>4. Init => TypeInv
    BY TypeInit
  <1>5. QED
    BY <1>1, <1>2, <1>3, <1>4, PTL DEF Spec, KeepsContract, Contract!Spec
=============================================================================
