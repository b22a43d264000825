--------------------------- MODULE MemorySync_proofs ---------------------------
(***************************************************************************)
(* Proofs about MemorySync, for any number of peers and paths, with        *)
(* failing requests and statements and restarts.                           *)
(***************************************************************************)
EXTENDS MemorySync, TLAPS

(* A record that is stored, sent or being applied was written: of n writes,   *)
(* the last of every path at last.                                            *)
Sound(n, last, x, r) == r # None => r.rev <= n /\ r.at <= last[x]
AllSound(n, last, diffs) ==
    \A d \in diffs : d.action = "update" => Sound(n, last, d.path, d.record)

OnePerPath(s) == \A d, e \in s : d.path = e.path => d = e

(* A session of p is with another peer, and speaks of a path once. *)
SessionShape(n, last, p, r) ==
    /\ r.step \notin {"idle", "apply"} => r.peer \in Peers \ {p}
    /\ r.step = "manifest" => OnePerPath(r.local)
    /\ r.step = "collect" => OnePerPath(r.push) /\ OnePerPath(r.pull)
    /\ r.step \in {"push", "pushing"} =>
          OnePerPath(r.diffs) /\ OnePerPath(r.pull) /\ AllSound(n, last, r.diffs)
    /\ r.step = "pull" => OnePerPath(r.pull)

(* What is still to be merged is also still to be mirrored. *)
WorkShape(n, last, w) ==
    /\ OnePerPath(w.mirror) /\ AllSound(n, last, w.mirror) /\ w.todo \subseteq w.mirror
    /\ w.step = "put" => /\ w.diff \in w.mirror \ w.todo /\ w.diff.action = "update"
                         /\ Sound(n, last, w.diff.path, w.local)
    /\ w.step = "upsert" => w.todo = {} /\ Sound(n, last, w.path, w.doc)

ClockOK ==
    /\ now \in Instant /\ latest \in [Paths -> Instant] /\ writes \in 0..MaxWrites
    /\ now >= 1 /\ now <= writes + 1 /\ \A x \in Paths : latest[x] <= now
    /\ deletes \in Nat /\ calls \in Nat /\ failures \in Nat
    /\ deletes + calls + failures <= MaxEvents
    /\ overlapped \in BOOLEAN

DataOK ==
    /\ store \in [Peers -> [Paths -> Record \cup {None}]]
    /\ index \in [Peers -> [Paths -> Record \cup {None}]]
    /\ \A p \in Peers, x \in Paths : /\ Sound(writes, latest, x, store[p][x])
                                     /\ Sound(writes, latest, x, index[p][x])

SessionOK ==
    /\ session \in [Peers -> Session]
    /\ \A p \in Peers : SessionShape(writes, latest, p, session[p])

WorkOK ==
    /\ work \in [Peers -> [Sources -> Work]]
    /\ \A p \in Peers, s \in Sources : WorkShape(writes, latest, work[p][s])

Linked == \A p \in Peers : work[p]["session"] # NoWork <=> session[p] = Applying

Inv1 == ClockOK /\ DataOK /\ SessionOK /\ WorkOK /\ Linked

-----------------------------------------------------------------------------
(* What the operators build. *)

LEMMA RecordFacts ==
    ASSUME NEW r \in Record
    PROVE  /\ r.rev \in 1..MaxWrites /\ r.at \in Instant /\ r.id \in Peers
           /\ r.rev \in Nat /\ r.at \in Nat /\ r # None
  BY SyncAssumption, NoneAssumption DEF Record, Instant

LEMMA DiffFacts ==
    ASSUME NEW d \in Diff
    PROVE  /\ d.path \in Paths /\ d.action \in {"update", "delete"}
           /\ d.action = "update" => d.record \in Record /\ d = Update(d.path, d.record)
           /\ d.action = "delete" => d = Delete(d.path)
  BY DEF Diff, Update, Delete

LEMMA MakeDiff ==
    ASSUME NEW x \in Paths
    PROVE  /\ \A r \in Record : /\ Update(x, r) \in Diff /\ Update(x, r).path = x
                                /\ Update(x, r).action = "update" /\ Update(x, r).record = r
           /\ Delete(x) \in Diff /\ Delete(x).path = x /\ Delete(x).action = "delete"
  BY DEF Diff, Update, Delete

LEMMA HashFacts ==
    ASSUME NEW x \in Paths, NEW r \in Record
    PROVE  ChunkHash(x, r) \in Entry /\ ChunkHash(x, r).path = x
  <1>1. r.at \div PerSecond \in Instant
    <2>1. r.at \in Nat /\ r.at <= MaxWrites + 1
      BY SyncAssumption DEF Record, Instant
    <2>2. PerSecond \in Nat \ {0}
      BY SyncAssumption
    <2>3. r.at \div PerSecond \in Nat /\ r.at \div PerSecond <= r.at
      BY <2>1, <2>2, SMT
    <2>4. QED
      BY <2>1, <2>3, SyncAssumption DEF Instant
  <1>2. QED
    BY <1>1, RecordFacts DEF ChunkHash, Entry

(* A manifest has one entry per path. *)
LEMMA ManifestFacts ==
    ASSUME NEW s \in [Paths -> Record \cup {None}]
    PROVE  /\ BuildManifest(s) \in SUBSET Entry /\ OnePerPath(BuildManifest(s))
           /\ \A e \in BuildManifest(s) :
                 s[e.path] # None /\ e.path \in Paths /\ e = ChunkHash(e.path, s[e.path])
  <1>1. \A e \in BuildManifest(s) : \E x \in Paths :
            s[x] # None /\ s[x] \in Record /\ e = ChunkHash(x, s[x])
    BY DEF BuildManifest
  <1>2. \A e \in BuildManifest(s) :
            s[e.path] # None /\ e.path \in Paths /\ e = ChunkHash(e.path, s[e.path]) /\ e \in Entry
    BY <1>1, HashFacts
  <1>3. QED
    BY <1>2 DEF OnePerPath

(* What is sent for some entries: one difference per path, with the record    *)
(* that is stored.                                                            *)
LEMMA PushDiffsFacts ==
    ASSUME NEW s \in [Paths -> Record \cup {None}], NEW entries \in SUBSET Entry,
           OnePerPath(entries)
    PROVE  /\ PushDiffs(s, entries) \in SUBSET Diff /\ OnePerPath(PushDiffs(s, entries))
           /\ \A d \in PushDiffs(s, entries) : \E e \in entries :
                 /\ e.path = d.path
                 /\ \/ /\ s[d.path] \in Record /\ ChunkHash(d.path, s[d.path]) = e
                       /\ d = Update(d.path, s[d.path])
                    \/ /\ ~(s[d.path] # None /\ ChunkHash(d.path, s[d.path]) = e)
                       /\ d = Delete(d.path)
  <1> DEFINE D(e) == IF s[e.path] # None /\ ChunkHash(e.path, s[e.path]) = e
                     THEN Update(e.path, s[e.path]) ELSE Delete(e.path)
  <1>1. PushDiffs(s, entries) = {D(e) : e \in entries}
    BY DEF PushDiffs
  <1>2. ASSUME NEW e \in entries
        PROVE  /\ e.path \in Paths /\ D(e) \in Diff /\ D(e).path = e.path
               /\ \/ /\ s[e.path] \in Record /\ ChunkHash(e.path, s[e.path]) = e
                     /\ D(e) = Update(e.path, s[e.path])
                  \/ /\ ~(s[e.path] # None /\ ChunkHash(e.path, s[e.path]) = e)
                     /\ D(e) = Delete(e.path)
    <2>1. e.path \in Paths
      BY DEF Entry
    <2>2. s[e.path] # None => s[e.path] \in Record
      BY <2>1
    <2>3. CASE s[e.path] # None /\ ChunkHash(e.path, s[e.path]) = e
      BY <2>1, <2>2, <2>3, MakeDiff
    <2>4. CASE ~(s[e.path] # None /\ ChunkHash(e.path, s[e.path]) = e)
      BY <2>1, <2>4, MakeDiff
    <2>5. QED
      BY <2>3, <2>4
  <1> HIDE DEF D
  <1>3. OnePerPath(PushDiffs(s, entries))
    BY <1>1, <1>2 DEF OnePerPath
  <1>4. QED
    BY <1>1, <1>2, <1>3

LEMMA ChangesFacts ==
    ASSUME NEW s \in [Paths -> Record \cup {None}], NEW t
    PROVE  /\ ChangesSince(s, t) \in SUBSET Diff /\ OnePerPath(ChangesSince(s, t))
           /\ \A d \in ChangesSince(s, t) : s[d.path] \in Record /\ d = Update(d.path, s[d.path])
  <1>1. \A d \in ChangesSince(s, t) : \E x \in Paths : s[x] \in Record /\ d = Update(x, s[x])
    BY DEF ChangesSince
  <1>2. \A d \in ChangesSince(s, t) :
            d \in Diff /\ s[d.path] \in Record /\ d = Update(d.path, s[d.path])
    BY <1>1, MakeDiff
  <1>3. QED
    BY <1>2 DEF OnePerPath

(* The fields that a session or a batch has at each of its steps. *)
LEMMA SessionKinds ==
    ASSUME NEW r \in Session
    PROVE  /\ r.step \in {"idle", "manifest", "collect", "push", "pushing", "pull", "since",
                          "apply"}
           /\ (r.step = "idle" <=> r = Idle) /\ (r.step = "apply" <=> r = Applying)
           /\ r.step = "manifest" => r.peer \in Peers /\ r.local \in SUBSET Entry
           /\ r.step = "collect" =>
                 r.peer \in Peers /\ r.push \in SUBSET Entry /\ r.pull \in SUBSET Entry
           /\ r.step \in {"push", "pushing"} =>
                 /\ r.peer \in Peers /\ r.diffs \in SUBSET Diff /\ r.pull \in SUBSET Entry
                 /\ r.full \in BOOLEAN
                 /\ r = [step |-> r.step, peer |-> r.peer, diffs |-> r.diffs, pull |-> r.pull,
                         full |-> r.full]
           /\ r.step = "pull" => r.peer \in Peers /\ r.pull \in SUBSET Entry
           /\ r.step = "since" => r.peer \in Peers
  BY DEF Session, Idle, Applying

LEMMA WorkKinds ==
    ASSUME NEW w \in Work
    PROVE  /\ w.step \in {"none", "merge", "put", "upsert"}
           /\ w.todo \in SUBSET Diff /\ w.mirror \in SUBSET Diff
           /\ (w.step = "none" <=> w = NoWork)
           /\ w.step = "put" => w.diff \in Diff /\ w.local \in Record \cup {None}
           /\ w.step = "upsert" => w.path \in Paths /\ w.doc \in Record
  BY DEF Work, NoWork

LEMMA IdleFacts ==
    ASSUME NEW n, NEW last, NEW p
    PROVE  /\ Idle \in Session /\ Applying \in Session /\ Idle # Applying
           /\ Idle.step = "idle" /\ Applying.step = "apply"
           /\ SessionShape(n, last, p, Idle) /\ SessionShape(n, last, p, Applying)
           /\ NoWork \in Work /\ NoWork.step = "none" /\ NoWork.todo = {} /\ NoWork.mirror = {}
           /\ WorkShape(n, last, NoWork)
  BY DEF Idle, Applying, NoWork, Session, Work, SessionShape, WorkShape, OnePerPath, AllSound

LEMMA BatchFacts ==
    ASSUME NEW todo \in SUBSET Diff, NEW mirror \in SUBSET Diff
    PROVE  /\ Batch(todo, mirror) \in Work
           /\ Batch(todo, mirror).todo = todo /\ Batch(todo, mirror).mirror = mirror
           /\ Batch(todo, mirror).step \in {"none", "merge"}
  BY DEF Batch, Work, NoWork

LEMMA BatchShape ==
    ASSUME NEW n, NEW last, NEW mirror \in SUBSET Diff, NEW todo \in SUBSET mirror,
           OnePerPath(mirror), AllSound(n, last, mirror)
    PROVE  Batch(todo, mirror) \in Work /\ WorkShape(n, last, Batch(todo, mirror))
  BY BatchFacts DEF WorkShape

(* What was written stays so as more is written. *)
LEMMA SoundGrows ==
    ASSUME NEW n \in Nat, NEW m \in Nat, n <= m,
           NEW last \in [Paths -> Instant], NEW next \in [Paths -> Instant],
           \A x \in Paths : last[x] <= next[x]
    PROVE  /\ \A x \in Paths, r \in Record \cup {None} :
                 Sound(n, last, x, r) => Sound(m, next, x, r)
           /\ \A p \in Peers, r \in Session :
                 SessionShape(n, last, p, r) => SessionShape(m, next, p, r)
           /\ \A w \in Work : WorkShape(n, last, w) => WorkShape(m, next, w)
  <1>1. ASSUME NEW x \in Paths, NEW r \in Record \cup {None}, Sound(n, last, x, r)
        PROVE  Sound(m, next, x, r)
    <2>1. CASE r = None
      BY <2>1 DEF Sound
    <2>2. CASE r \in Record
      <3>1. r.rev <= n /\ r.at <= last[x] /\ r.rev \in Nat /\ r.at \in Nat
        BY <1>1, <2>2, RecordFacts DEF Sound
      <3>2. last[x] \in Nat /\ next[x] \in Nat /\ last[x] <= next[x]
        BY SyncAssumption DEF Instant
      <3>3. QED
        BY <3>1, <3>2 DEF Sound
    <2>3. QED
      BY <1>1, <2>1, <2>2
  <1>2. ASSUME NEW D \in SUBSET Diff, AllSound(n, last, D)
        PROVE  AllSound(m, next, D)
    BY <1>1, <1>2, DiffFacts DEF AllSound
  <1>3. ASSUME NEW p \in Peers, NEW r \in Session, SessionShape(n, last, p, r)
        PROVE  SessionShape(m, next, p, r)
    BY <1>2, <1>3, SessionKinds DEF SessionShape
  <1>4. ASSUME NEW w \in Work, WorkShape(n, last, w)
        PROVE  WorkShape(m, next, w)
    <2>1. AllSound(m, next, w.mirror)
      BY <1>2, <1>4, WorkKinds DEF WorkShape
    <2>2. w.step = "put" => Sound(m, next, w.diff.path, w.local)
      BY <1>1, <1>4, WorkKinds, DiffFacts DEF WorkShape
    <2>3. w.step = "upsert" => Sound(m, next, w.path, w.doc)
      BY <1>1, <1>4, WorkKinds DEF WorkShape
    <2>4. QED
      BY <1>4, <2>1, <2>2, <2>3 DEF WorkShape
  <1>5. QED
    BY <1>1, <1>3, <1>4

-----------------------------------------------------------------------------
(* The two ways in which a step changes the sessions and the batches. *)

LEMMA ChangeSession ==
    ASSUME SessionOK, WorkOK, Linked,
           NEW p \in Peers, NEW r \in Session, r.step # "apply", session[p].step # "apply",
           SessionShape(writes, latest, p, r), SetStep(p, r),
           UNCHANGED <<work, writes, latest>>
    PROVE  SessionOK' /\ WorkOK' /\ Linked'
  <1>1. SessionOK'
    BY DEF SessionOK, SetStep
  <1>2. WorkOK'
    BY DEF WorkOK
  <1>3. r # Applying /\ session[p] # Applying
    BY IdleFacts
  <1>4. Linked'
    BY <1>3 DEF Linked, SessionOK, SetStep
  <1>5. QED
    BY <1>1, <1>2, <1>4

LEMMA ChangeWork ==
    ASSUME SessionOK, WorkOK, Linked,
           NEW p \in Peers, NEW s \in Sources, NEW w \in Work,
           WorkShape(writes, latest, w), SetWork(p, s, w), UNCHANGED <<writes, latest>>
    PROVE  SessionOK' /\ WorkOK' /\ Linked'
  <1>1. WorkOK'
    BY DEF WorkOK, SetWork
  <1>2. SessionOK'
    BY IdleFacts DEF SessionOK, SetWork
  <1>3. Linked'
    BY IdleFacts DEF Linked, SessionOK, WorkOK, SetWork, Sources
  <1>4. QED
    BY <1>1, <1>2, <1>3

-----------------------------------------------------------------------------
(* Every step keeps the types and the shapes. *)

LEMMA InitShape == Init => Inv1
  <1> SUFFICES ASSUME Init PROVE Inv1
    OBVIOUS
  <1>1. ClockOK
    <2>1. 0 \in Instant /\ 1 \in Instant /\ 0 \in 0..MaxWrites /\ 0 + 0 + 0 <= MaxEvents
      BY SyncAssumption DEF Instant
    <2>2. latest \in [Paths -> Instant] /\ \A x \in Paths : latest[x] <= now
      BY <2>1 DEF Init
    <2>3. overlapped \in BOOLEAN
      BY DEF Init
    <2>4. deletes \in Nat /\ calls \in Nat /\ failures \in Nat
          /\ now >= 1 /\ now <= writes + 1
      BY DEF Init
    <2>5. deletes + calls + failures <= MaxEvents
      BY <2>1 DEF Init
    <2>6. now \in Instant /\ writes \in 0..MaxWrites
      BY <2>1 DEF Init
    <2>7. QED
      BY <2>2, <2>3, <2>4, <2>5, <2>6 DEF ClockOK
  <1>2. DataOK
    BY DEF Init, DataOK, Sound
  <1>3. SessionOK
    BY IdleFacts DEF Init, SessionOK
  <1>4. WorkOK
    BY IdleFacts DEF Init, WorkOK
  <1>5. Linked
    BY IdleFacts DEF Init, Linked, Sources
  <1>6. QED
    BY <1>1, <1>2, <1>3, <1>4, <1>5 DEF Inv1

LEMMA WriteShape ==
    ASSUME Inv1, NEW p \in Peers, NEW x \in Paths, Write(p, x)
    PROVE  Inv1'
  <1> DEFINE old == store[p][x]
             new == [rev |-> NextRevision(old), at |-> now',
                     id |-> IF old = None THEN p ELSE old.id]
  <1>1. /\ writes' = writes + 1 /\ writes < MaxWrites /\ now' \in {now, now + 1}
        /\ latest' = [latest EXCEPT ![x] = now']
        /\ store' = [store EXCEPT ![p][x] = new] /\ index' = [index EXCEPT ![p][x] = new]
        /\ overlapped' \in BOOLEAN
        /\ UNCHANGED <<session, work, deletes, calls, failures>>
    BY DEF Write, Inv1, ClockOK
  <1>2. /\ writes \in Nat /\ writes' \in 0..MaxWrites /\ writes <= writes' /\ now' \in Instant
        /\ now' \in Nat /\ now' <= writes' + 1 /\ now <= now' /\ now \in Nat /\ writes' \in Nat
        /\ now' >= 1
    BY <1>1, SyncAssumption DEF Inv1, ClockOK, Instant
  <1>3. latest' \in [Paths -> Instant] /\ latest'[x] = now'
    BY <1>1, <1>2 DEF Inv1, ClockOK
  <1>4. \A y \in Paths : latest[y] <= latest'[y] /\ latest'[y] <= now'
    <2> SUFFICES ASSUME NEW y \in Paths PROVE latest[y] <= latest'[y] /\ latest'[y] <= now'
      OBVIOUS
    <2>1. latest[y] \in Nat /\ latest[y] <= now
      BY SyncAssumption DEF Inv1, ClockOK, Instant
    <2>2. latest'[y] = IF y = x THEN now' ELSE latest[y]
      BY <1>1 DEF Inv1, ClockOK
    <2>3. QED
      BY <2>1, <2>2, <1>2
  <1>5. ClockOK'
    <2>1. (deletes + calls + failures <= MaxEvents)'
      BY <1>1 DEF Inv1, ClockOK
    <2>2. QED
      BY <1>1, <1>2, <1>3, <1>4, <2>1 DEF Inv1, ClockOK
  <1>6. latest \in [Paths -> Instant]
    BY DEF Inv1, ClockOK
  <1>7. new \in Record /\ Sound(writes', latest', x, new)
    <2>1. old \in Record \cup {None} /\ Sound(writes, latest, x, old)
      BY DEF Inv1, DataOK
    <2>2. NextRevision(old) \in 1..MaxWrites /\ NextRevision(old) <= writes'
      <3>1. CASE old = None
        BY <3>1, <1>1, <1>2, SyncAssumption DEF NextRevision
      <3>2. CASE old # None
        <4>1. old.rev \in Nat /\ old.rev <= writes
          BY <2>1, <3>2, RecordFacts DEF Sound
        <4>2. QED
          BY <4>1, <3>2, <1>1, <1>2, SyncAssumption DEF NextRevision
      <3>3. QED
        BY <3>1, <3>2
    <2>3. (IF old = None THEN p ELSE old.id) \in Peers
      BY <2>1, RecordFacts
    <2> HIDE DEF old
    <2>4. new \in Record
      BY <2>2, <2>3, <1>2 DEF Record
    <2>5. new.rev = NextRevision(old) /\ new.at = now'
      OBVIOUS
    <2>6. QED
      BY <2>2, <2>4, <2>5, <1>2, <1>3 DEF Sound
  <1> HIDE DEF new
  <1>8. DataOK'
    <2>1. /\ store' \in [Peers -> [Paths -> Record \cup {None}]]
          /\ index' \in [Peers -> [Paths -> Record \cup {None}]]
      BY <1>1, <1>7 DEF Inv1, DataOK
    <2>2. ASSUME NEW q \in Peers, NEW y \in Paths
          PROVE  Sound(writes', latest', y, store'[q][y]) /\ Sound(writes', latest', y, index'[q][y])
      <3>1. CASE q = p /\ y = x
        BY <3>1, <1>1, <1>7 DEF Inv1, DataOK
      <3>2. CASE ~(q = p /\ y = x)
        <4>1. store'[q][y] = store[q][y] /\ index'[q][y] = index[q][y]
          BY <3>2, <1>1 DEF Inv1, DataOK
        <4>2. /\ store[q][y] \in Record \cup {None} /\ index[q][y] \in Record \cup {None}
              /\ Sound(writes, latest, y, store[q][y]) /\ Sound(writes, latest, y, index[q][y])
          BY DEF Inv1, DataOK
        <4>3. QED
          BY <4>1, <4>2, <1>2, <1>3, <1>4, <1>6, SoundGrows
      <3>3. QED
        BY <3>1, <3>2
    <2>3. QED
      BY <2>1, <2>2 DEF DataOK
  <1>9. \A q \in Peers : SessionShape(writes', latest', q, session[q])
    BY <1>2, <1>3, <1>4, <1>6, SoundGrows DEF Inv1, SessionOK
  <1>10. \A q \in Peers, s \in Sources : WorkShape(writes', latest', work[q][s])
    BY <1>2, <1>3, <1>4, <1>6, SoundGrows DEF Inv1, WorkOK
  <1>11. QED
    BY <1>1, <1>5, <1>8, <1>9, <1>10 DEF Inv1, SessionOK, WorkOK, Linked

(* A record of the store, or None, that a step puts into store or index. *)
LEMMA ChangeData ==
    ASSUME DataOK, NEW p \in Peers, NEW x \in Paths,
           NEW r \in Record \cup {None}, Sound(writes, latest, x, r),
           NEW u \in Record \cup {None}, Sound(writes, latest, x, u),
           store' \in {store, [store EXCEPT ![p][x] = r]},
           index' \in {index, [index EXCEPT ![p][x] = u]},
           UNCHANGED <<writes, latest>>
    PROVE  DataOK'
  <1>1. /\ store' \in [Peers -> [Paths -> Record \cup {None}]]
        /\ index' \in [Peers -> [Paths -> Record \cup {None}]]
    <2>1. /\ store \in [Peers -> [Paths -> Record \cup {None}]]
          /\ index \in [Peers -> [Paths -> Record \cup {None}]]
      BY DEF DataOK
    <2>2. /\ [store EXCEPT ![p][x] = r] \in [Peers -> [Paths -> Record \cup {None}]]
          /\ [index EXCEPT ![p][x] = u] \in [Peers -> [Paths -> Record \cup {None}]]
      BY <2>1
    <2>3. QED
      BY <2>1, <2>2
  <1>2. ASSUME NEW q \in Peers, NEW y \in Paths
        PROVE  /\ store'[q][y] = store[q][y] \/ (q = p /\ y = x /\ store'[q][y] = r)
               /\ index'[q][y] = index[q][y] \/ (q = p /\ y = x /\ index'[q][y] = u)
    BY DEF DataOK
  <1>3. QED
    BY <1>1, <1>2 DEF DataOK

LEMMA NoneSound == \A n, last, x : Sound(n, last, x, None)
  BY DEF Sound

(* A step of the sessions or of the failures touches no clock but the counters. *)
LEMMA ClockStep ==
    ASSUME ClockOK, UNCHANGED <<now, latest, writes>>, overlapped' \in BOOLEAN,
           \/ UNCHANGED <<deletes, calls, failures>>
           \/ /\ MayHappen
              /\ \/ deletes' = deletes + 1 /\ UNCHANGED <<calls, failures>>
                 \/ calls' = calls + 1 /\ UNCHANGED <<deletes, failures>>
                 \/ failures' = failures + 1 /\ UNCHANGED <<deletes, calls>>
    PROVE  ClockOK'
  <1>1. /\ deletes' \in Nat /\ calls' \in Nat /\ failures' \in Nat
        /\ deletes' + calls' + failures' <= MaxEvents
    BY SyncAssumption DEF ClockOK, MayHappen
  <1>2. QED
    BY <1>1 DEF ClockOK

LEMMA DeleteShape ==
    ASSUME Inv1, NEW p \in Peers, NEW x \in Paths, DeleteRecord(p, x)
    PROVE  Inv1'
  <1>1. ClockOK'
    BY ClockStep DEF Inv1, DeleteRecord, ClockOK
  <1>2. DataOK'
    BY ChangeData, NoneSound DEF Inv1, DeleteRecord
  <1>3. QED
    BY <1>1, <1>2 DEF Inv1, DeleteRecord, SessionOK, WorkOK, Linked

LEMMA ChangesSound ==
    ASSUME DataOK, NEW p \in Peers, NEW t
    PROVE  /\ ChangesSince(store[p], t) \in SUBSET Diff /\ OnePerPath(ChangesSince(store[p], t))
           /\ AllSound(writes, latest, ChangesSince(store[p], t))
  <1> DEFINE D == ChangesSince(store[p], t)
  <1>1. store[p] \in [Paths -> Record \cup {None}]
    BY DEF DataOK
  <1>2. D \in SUBSET Diff /\ OnePerPath(D)
    BY <1>1, ChangesFacts
  <1>3. ASSUME NEW d \in D
        PROVE  Sound(writes, latest, d.path, d.record)
    <2>1. d.path \in Paths /\ d = Update(d.path, store[p][d.path])
      BY <1>1, <1>2, ChangesFacts, DiffFacts
    <2>2. d.record = store[p][d.path]
      BY <2>1 DEF Update
    <2>3. QED
      BY <2>1, <2>2 DEF DataOK
  <1>4. QED
    BY <1>2, <1>3 DEF AllSound

LEMMA PushDiffsSound ==
    ASSUME DataOK, NEW p \in Peers, NEW E \in SUBSET Entry, OnePerPath(E)
    PROVE  /\ PushDiffs(store[p], E) \in SUBSET Diff /\ OnePerPath(PushDiffs(store[p], E))
           /\ AllSound(writes, latest, PushDiffs(store[p], E))
  <1> DEFINE D == PushDiffs(store[p], E)
  <1>1. store[p] \in [Paths -> Record \cup {None}]
    BY DEF DataOK
  <1>2. D \in SUBSET Diff /\ OnePerPath(D)
    BY <1>1, PushDiffsFacts
  <1>3. ASSUME NEW d \in D, d.action = "update"
        PROVE  Sound(writes, latest, d.path, d.record)
    <2>1. d.path \in Paths /\ (d = Update(d.path, store[p][d.path]) \/ d = Delete(d.path))
      BY <1>1, <1>2, PushDiffsFacts, DiffFacts
    <2>2. d.record = store[p][d.path]
      BY <2>1, <1>3 DEF Update, Delete
    <2>3. QED
      BY <2>1, <2>2 DEF DataOK
  <1>4. QED
    BY <1>2, <1>3 DEF AllSound

LEMMA BeginShape ==
    ASSUME Inv1, NEW p \in Peers, NEW q \in Peers \ {p},
           \/ BeginSync(p, q)
           \/ \E t \in Since : BeginPush(p, q, t)
           \/ BeginPull(p, q)
    PROVE  Inv1'
  <1>1. store[p] \in [Paths -> Record \cup {None}]
    BY DEF Inv1, DataOK
  <1>2. PICK r : /\ Begin(p, r) /\ r \in Session /\ r.step # "apply"
                 /\ SessionShape(writes, latest, p, r)
    <2>1. CASE BeginSync(p, q)
      <3> DEFINE r == [step |-> "manifest", peer |-> q, local |-> BuildManifest(store[p])]
      <3>1. Begin(p, r)
        BY <2>1 DEF BeginSync
      <3>2. r \in Session
        BY <1>1, ManifestFacts DEF Session
      <3>3. SessionShape(writes, latest, p, r) /\ r.step # "apply"
        BY <1>1, ManifestFacts DEF SessionShape
      <3>4. QED
        BY <3>1, <3>2, <3>3
    <2>2. CASE \E t \in Since : BeginPush(p, q, t)
      <3>0. PICK t \in Since : BeginPush(p, q, t)
        BY <2>2
      <3> DEFINE D == ChangesSince(store[p], t)
                 r == [step |-> "push", peer |-> q, diffs |-> D, pull |-> {}, full |-> FALSE]
      <3>1. Begin(p, r)
        BY <3>0 DEF BeginPush
      <3>2. D \in SUBSET Diff /\ OnePerPath(D) /\ AllSound(writes, latest, D)
        BY ChangesSound DEF Inv1
      <3> HIDE DEF D
      <3>4. r \in Session
        BY <3>2 DEF Session
      <3>5. SessionShape(writes, latest, p, r) /\ r.step # "apply"
        BY <3>2 DEF SessionShape, OnePerPath
      <3>6. QED
        BY <3>1, <3>4, <3>5
    <2>3. CASE BeginPull(p, q)
      BY <2>3 DEF BeginPull, Session, SessionShape
    <2>4. QED
      BY <2>1, <2>2, <2>3
  <1>3. ClockOK'
    <2>1. UNCHANGED <<now, latest, writes>> /\ overlapped' \in BOOLEAN
      BY <1>2 DEF Begin, Inv1, ClockOK
    <2>2. \/ UNCHANGED <<deletes, calls, failures>>
          \/ MayHappen /\ calls' = calls + 1 /\ UNCHANGED <<deletes, failures>>
      BY <1>2 DEF Begin, BeginSync, BeginPush, BeginPull
    <2>3. QED
      BY <2>1, <2>2, ClockStep DEF Inv1
  <1>4. SessionOK' /\ WorkOK' /\ Linked'
    BY <1>2, ChangeSession, IdleFacts DEF Inv1, Begin
  <1>5. QED
    BY <1>2, <1>3, <1>4 DEF Inv1, Begin, DataOK

LEMMA PullManifestShape ==
    ASSUME Inv1, NEW p \in Peers, PullManifest(p)
    PROVE  Inv1'
  <1> DEFINE q == session[p].peer
             remote == BuildManifest(store[q])
             local == session[p].local
             r == [step |-> "collect", peer |-> q, push |-> local \ remote,
                   pull |-> remote \ local]
  <1>1. /\ SetStep(p, r) /\ session[p].step = "manifest"
        /\ UNCHANGED <<store, index, work, now, latest, counters, overlapped>>
    BY DEF PullManifest
  <1>2. /\ session[p] \in Session /\ SessionShape(writes, latest, p, session[p])
        /\ \A z \in Peers : store[z] \in [Paths -> Record \cup {None}]
    BY DEF Inv1, SessionOK, DataOK
  <1>3. q \in Peers \ {p} /\ local \in SUBSET Entry /\ OnePerPath(local)
    BY <1>1, <1>2, SessionKinds DEF SessionShape
  <1>4. remote \in SUBSET Entry /\ OnePerPath(remote)
    BY <1>2, <1>3, ManifestFacts
  <1> HIDE DEF remote, local, q
  <1>5. OnePerPath(local \ remote) /\ OnePerPath(remote \ local)
    BY <1>3, <1>4 DEF OnePerPath
  <1>6. r \in Session /\ r.step # "apply"
    BY <1>3, <1>4 DEF Session
  <1>7. SessionShape(writes, latest, p, r)
    BY <1>3, <1>5 DEF SessionShape
  <1> HIDE DEF r
  <1>8. SessionOK' /\ WorkOK' /\ Linked'
    BY <1>1, <1>6, <1>7, ChangeSession DEF Inv1, counters
  <1>9. QED
    BY <1>1, <1>8 DEF Inv1, ClockOK, DataOK, counters

LEMMA CollectShape ==
    ASSUME Inv1, NEW p \in Peers, Collect(p)
    PROVE  Inv1'
  <1> DEFINE D == PushDiffs(store[p], session[p].push)
             r == [step |-> "push", peer |-> session[p].peer, diffs |-> D,
                   pull |-> session[p].pull, full |-> TRUE]
  <1>1. /\ SetStep(p, r) /\ session[p].step = "collect"
        /\ UNCHANGED <<store, index, work, now, latest, counters, overlapped>>
    BY DEF Collect
  <1>2. /\ session[p] \in Session /\ SessionShape(writes, latest, p, session[p])
        /\ store[p] \in [Paths -> Record \cup {None}]
    BY DEF Inv1, SessionOK, DataOK
  <1>3. /\ session[p].peer \in Peers \ {p} /\ session[p].push \in SUBSET Entry
        /\ OnePerPath(session[p].push)
        /\ session[p].pull \in SUBSET Entry /\ OnePerPath(session[p].pull)
    BY <1>1, <1>2, SessionKinds DEF SessionShape
  <1>4. D \in SUBSET Diff /\ OnePerPath(D) /\ AllSound(writes, latest, D)
    BY <1>2, <1>3, PushDiffsSound DEF Inv1
  <1> HIDE DEF D
  <1>6. r \in Session /\ r.step # "apply"
    BY <1>3, <1>4 DEF Session
  <1>7. SessionShape(writes, latest, p, r)
    BY <1>3, <1>4 DEF SessionShape
  <1> HIDE DEF r
  <1>8. SessionOK' /\ WorkOK' /\ Linked'
    BY <1>1, <1>6, <1>7, ChangeSession DEF Inv1, counters
  <1>9. QED
    BY <1>1, <1>8 DEF Inv1, ClockOK, DataOK, counters

LEMMA PushShape ==
    ASSUME Inv1, NEW p \in Peers, Push(p)
    PROVE  Inv1'
  <1> DEFINE q == session[p].peer
             D == session[p].diffs
             r == [session[p] EXCEPT !.step = "pushing"]
  <1>1. /\ SetStep(p, r) /\ session[p].step = "push"
        /\ work' = [work EXCEPT ![q]["push"] = Batch(D, D)]
        /\ UNCHANGED <<store, index, now, latest, counters, overlapped>>
    BY DEF Push
  <1>2. session[p] \in Session /\ SessionShape(writes, latest, p, session[p])
    BY DEF Inv1, SessionOK
  <1>3. /\ q \in Peers \ {p} /\ D \in SUBSET Diff
        /\ OnePerPath(D) /\ AllSound(writes, latest, D)
        /\ session[p].pull \in SUBSET Entry /\ OnePerPath(session[p].pull)
        /\ session[p].full \in BOOLEAN
    BY <1>1, <1>2, SessionKinds DEF SessionShape
  <1>4. r = [step |-> "pushing", peer |-> q, diffs |-> D, pull |-> session[p].pull,
             full |-> session[p].full]
    <2>1. session[p] = [step |-> session[p].step, peer |-> q, diffs |-> D,
                        pull |-> session[p].pull, full |-> session[p].full]
      BY <1>1, <1>2, SessionKinds
    <2>2. QED
      BY <2>1
  <1> HIDE DEF q, D
  <1>5. r \in Session /\ r.step # "apply"
    BY <1>3, <1>4 DEF Session
  <1>6. SessionShape(writes, latest, p, r)
    BY <1>3, <1>4 DEF SessionShape
  <1>7. Batch(D, D) \in Work /\ WorkShape(writes, latest, Batch(D, D))
    BY <1>3, BatchShape
  <1> HIDE DEF r
  <1>8. WorkOK'
    BY <1>1, <1>3, <1>7 DEF Inv1, WorkOK, Sources, counters
  <1>9. SessionOK'
    BY <1>1, <1>5, <1>6 DEF Inv1, SessionOK, SetStep, counters
  <1>10. Linked'
    <2>1. \A z \in Peers : work'[z]["session"] = work[z]["session"]
      BY <1>1, <1>3 DEF Inv1, WorkOK, Sources
    <2>2. session[p] # Applying /\ r # Applying
      BY <1>1, <1>5, IdleFacts
    <2>3. QED
      BY <1>1, <2>1, <2>2 DEF Inv1, Linked, SessionOK, SetStep
  <1>11. QED
    BY <1>1, <1>8, <1>9, <1>10 DEF Inv1, ClockOK, DataOK, counters

LEMMA PushedShape ==
    ASSUME Inv1, NEW p \in Peers, Pushed(p)
    PROVE  Inv1'
  <1> DEFINE u == [step |-> "pull", peer |-> session[p].peer, pull |-> session[p].pull]
             r == IF session[p].full THEN u ELSE Idle
  <1>1. /\ SetStep(p, r) /\ session[p].step = "pushing"
        /\ UNCHANGED <<store, index, work, now, latest, counters, overlapped>>
    BY DEF Pushed
  <1>2. session[p] \in Session /\ SessionShape(writes, latest, p, session[p])
    BY DEF Inv1, SessionOK
  <1>3. /\ session[p].peer \in Peers \ {p}
        /\ session[p].pull \in SUBSET Entry /\ OnePerPath(session[p].pull)
    BY <1>1, <1>2, SessionKinds DEF SessionShape
  <1>4. u \in Session /\ u.step # "apply"
    BY <1>3 DEF Session
  <1>5. SessionShape(writes, latest, p, u)
    BY <1>3 DEF SessionShape
  <1>6. r \in Session /\ r.step # "apply" /\ SessionShape(writes, latest, p, r)
    BY <1>4, <1>5, IdleFacts
  <1> HIDE DEF r
  <1>8. SessionOK' /\ WorkOK' /\ Linked'
    BY <1>1, <1>6, ChangeSession DEF Inv1, counters
  <1>9. QED
    BY <1>1, <1>8 DEF Inv1, ClockOK, DataOK, counters

LEMMA PullShape ==
    ASSUME Inv1, NEW p \in Peers, Pull(p) \/ \E t \in Since : PullSince(p, t)
    PROVE  Inv1'
  <1>1. PICK D \in SUBSET Diff :
            OnePerPath(D) /\ AllSound(writes, latest, D) /\ Apply(p, D)
    <2>1. /\ session[p] \in Session /\ SessionShape(writes, latest, p, session[p])
          /\ \A z \in Peers : store[z] \in [Paths -> Record \cup {None}]
      BY DEF Inv1, SessionOK, DataOK
    <2>2. CASE Pull(p)
      <3>1. /\ session[p].peer \in Peers /\ session[p].pull \in SUBSET Entry
            /\ OnePerPath(session[p].pull)
        BY <2>1, <2>2, SessionKinds DEF SessionShape, Pull
      <3>2. QED
        BY <2>1, <2>2, <3>1, PushDiffsSound DEF Inv1, Pull
    <2>3. CASE \E t \in Since : PullSince(p, t)
      <3>1. session[p].peer \in Peers
        BY <2>1, <2>3, SessionKinds DEF PullSince
      <3>2. QED
        BY <2>1, <2>3, <3>1, ChangesSound DEF Inv1, PullSince
    <2>4. QED
      BY <2>2, <2>3
  <1>2. Batch(D, D) \in Work /\ WorkShape(writes, latest, Batch(D, D))
    BY <1>1, BatchShape
  <1>3. SessionOK' /\ WorkOK' /\ Linked'
    BY <1>1, <1>2, ChangeWork DEF Inv1, Apply, counters, Sources
  <1>4. QED
    BY <1>1, <1>3 DEF Inv1, Apply, ClockOK, DataOK, counters

LEMMA MergeNextShape ==
    ASSUME Inv1, NEW p \in Peers, NEW s \in Sources, NEW d, MergeNext(p, s, d)
    PROVE  Inv1'
  <1> DEFINE todo == work[p][s].todo \ {d}
             mirror == work[p][s].mirror
  <1>1. /\ work[p][s] \in Work /\ WorkShape(writes, latest, work[p][s])
        /\ mirror \in SUBSET Diff /\ todo \in SUBSET mirror /\ d \in work[p][s].todo
        /\ d \in mirror /\ d \in Diff /\ d.path \in Paths
        /\ OnePerPath(mirror) /\ AllSound(writes, latest, mirror)
    BY WorkKinds, DiffFacts DEF Inv1, WorkOK, WorkShape, MergeNext
  <1>2. UNCHANGED <<index, now, latest, counters, overlapped>>
    BY DEF MergeNext
  <1>3. CASE /\ d.action = "delete" /\ store' = [store EXCEPT ![p][d.path] = None]
             /\ SetWork(p, s, Batch(todo, mirror))
    <2>1. Batch(todo, mirror) \in Work /\ WorkShape(writes, latest, Batch(todo, mirror))
      BY <1>1, BatchShape
    <2>2. SessionOK' /\ WorkOK' /\ Linked'
      BY <1>2, <1>3, <2>1, ChangeWork DEF Inv1, counters
    <2>3. DataOK'
      BY <1>1, <1>2, <1>3, ChangeData, NoneSound DEF Inv1, counters
    <2>4. QED
      BY <1>2, <2>2, <2>3 DEF Inv1, ClockOK, counters
  <1>4. CASE /\ d.action = "update" /\ UNCHANGED store
             /\ SetWork(p, s, [step |-> "put", todo |-> todo, mirror |-> mirror,
                               diff |-> d, local |-> store[p][d.path]])
    <2> DEFINE l == store[p][d.path]
               w == [step |-> "put", todo |-> todo, mirror |-> mirror, diff |-> d, local |-> l]
    <2>1. l \in Record \cup {None} /\ Sound(writes, latest, d.path, l)
      BY <1>1 DEF Inv1, DataOK
    <2>2. todo \in SUBSET Diff /\ d \notin todo
      BY <1>1
    <2> HIDE DEF l, todo, mirror
    <2>3. w \in Work
      BY <1>1, <2>1, <2>2 DEF Work
    <2>4. WorkShape(writes, latest, w)
      BY <1>1, <1>4, <2>1, <2>2 DEF WorkShape
    <2>5. SetWork(p, s, w)
      BY <1>4 DEF l
    <2> HIDE DEF w
    <2>6. SessionOK' /\ WorkOK' /\ Linked'
      BY <1>2, <2>3, <2>4, <2>5, ChangeWork DEF Inv1, counters
    <2>7. QED
      BY <1>2, <1>4, <2>6 DEF Inv1, ClockOK, DataOK, counters
  <1>5. QED
    BY <1>3, <1>4 DEF MergeNext

(* What a put leaves in the store of p: what was there, or the record that    *)
(* was received, under the identifier of the one that it replaces.            *)
LEMMA PutFacts ==
    ASSUME Inv1, NEW p \in Peers, NEW s \in Sources, MergePut(p, s)
    PROVE  /\ work[p][s].diff \in Diff /\ work[p][s].diff.action = "update"
           /\ work[p][s].diff.path \in Paths /\ work[p][s].diff.record \in Record
           /\ \E r \in Record :
                 /\ r.at = work[p][s].diff.record.at /\ r.rev = work[p][s].diff.record.rev
                 /\ Sound(writes, latest, work[p][s].diff.path, r)
                 /\ \/ /\ store' = [store EXCEPT ![p][work[p][s].diff.path] = r]
                       /\ work[p][s].local # None => work[p][s].local.at <= r.at
                    \/ store' = store /\ work[p][s].local # None
  <1> DEFINE d == work[p][s].diff
             local == work[p][s].local
             r == [d.record EXCEPT !.id = local.id]
  <1>1. /\ work[p][s] \in Work /\ WorkShape(writes, latest, work[p][s])
        /\ work[p][s].step = "put"
    BY DEF Inv1, WorkOK, MergePut
  <1>2. /\ d \in Diff /\ d.action = "update" /\ d.path \in Paths /\ d.record \in Record
        /\ local \in Record \cup {None} /\ Sound(writes, latest, d.path, d.record)
    BY <1>1, WorkKinds, DiffFacts DEF WorkShape, AllSound
  <1>3. store' = CASE local = None -> [store EXCEPT ![p][d.path] = d.record]
                   [] local # None /\ Wins(d.record, local) ->
                         [store EXCEPT ![p][d.path] = [d.record EXCEPT !.id = local.id]]
                   [] OTHER -> store
    BY DEF MergePut
  <1> HIDE DEF d, local
  <1>4. CASE local = None
    BY <1>2, <1>3, <1>4 DEF d, local
  <1>5. CASE local # None /\ Wins(d.record, local)
    <2>1. local \in Record /\ local.id \in Peers
      BY <1>2, <1>5, RecordFacts
    <2>2. d.record = [rev |-> d.record.rev, at |-> d.record.at, id |-> d.record.id]
      BY <1>2 DEF Record
    <2>3. r = [rev |-> d.record.rev, at |-> d.record.at, id |-> local.id]
      BY <2>2
    <2>4. r \in Record /\ r.at = d.record.at /\ r.rev = d.record.rev
      BY <1>2, <2>1, <2>3, RecordFacts DEF Record
    <2>5. Sound(writes, latest, d.path, r)
      BY <1>2, <2>4, RecordFacts DEF Sound
    <2>6. local.at <= r.at
      BY <1>2, <1>5, <2>1, <2>4, RecordFacts DEF Wins
    <2>7. store' = [store EXCEPT ![p][d.path] = r]
      BY <1>3, <1>5
    <2>8. QED
      BY <1>2, <2>4, <2>5, <2>6, <2>7 DEF d, local
  <1>6. CASE local # None /\ ~Wins(d.record, local)
    BY <1>2, <1>3, <1>6 DEF d, local
  <1>7. QED
    BY <1>4, <1>5, <1>6

LEMMA MergePutShape ==
    ASSUME Inv1, NEW p \in Peers, NEW s \in Sources, MergePut(p, s)
    PROVE  Inv1'
  <1> DEFINE x == work[p][s].diff.path
             w == Batch(work[p][s].todo, work[p][s].mirror)
  <1>1. PICK r \in Record : /\ Sound(writes, latest, x, r) /\ x \in Paths
                            /\ store' \in {store, [store EXCEPT ![p][x] = r]}
    BY PutFacts
  <1>2. SetWork(p, s, w) /\ UNCHANGED <<index, now, latest, counters, overlapped>>
    BY DEF MergePut
  <1>3. DataOK'
    BY <1>1, <1>2, ChangeData DEF Inv1, counters
  <1>4. w \in Work /\ WorkShape(writes, latest, w)
    BY BatchShape, WorkKinds DEF Inv1, WorkOK, WorkShape
  <1> HIDE DEF w
  <1>5. SessionOK' /\ WorkOK' /\ Linked'
    BY <1>2, <1>4, ChangeWork DEF Inv1, counters
  <1>6. QED
    BY <1>2, <1>3, <1>5 DEF Inv1, ClockOK, counters

LEMMA MirrorNextShape ==
    ASSUME Inv1, NEW p \in Peers, NEW s \in Sources, NEW d, MirrorNext(p, s, d)
    PROVE  Inv1'
  <1> DEFINE mirror == work[p][s].mirror \ {d}
             doc == store[p][d.path]
             w == [step |-> "upsert", todo |-> {}, mirror |-> mirror,
                   path |-> d.path, doc |-> doc]
  <1>1. /\ mirror \in SUBSET Diff /\ d \in Diff /\ d.path \in Paths
        /\ OnePerPath(mirror) /\ AllSound(writes, latest, mirror)
    BY WorkKinds, DiffFacts DEF Inv1, WorkOK, WorkShape, MirrorNext, OnePerPath, AllSound
  <1>2. UNCHANGED <<store, now, latest, counters, overlapped>>
    BY DEF MirrorNext
  <1>3. doc \in Record \cup {None} /\ Sound(writes, latest, d.path, doc)
    BY <1>1 DEF Inv1, DataOK
  <1>4. CASE doc # None /\ SetWork(p, s, w) /\ UNCHANGED index
    <2> HIDE DEF doc, mirror
    <2>1. w \in Work
      BY <1>1, <1>3, <1>4 DEF Work
    <2>2. WorkShape(writes, latest, w)
      BY <1>1, <1>3 DEF WorkShape
    <2> HIDE DEF w
    <2>3. SessionOK' /\ WorkOK' /\ Linked'
      BY <1>2, <1>4, <2>1, <2>2, ChangeWork DEF Inv1, counters
    <2>4. QED
      BY <1>2, <1>4, <2>3 DEF Inv1, ClockOK, DataOK, counters
  <1>5. CASE /\ SetWork(p, s, Batch({}, mirror))
             /\ index' \in {index, [index EXCEPT ![p][d.path] = None]}
    <2>1. DataOK'
      BY <1>1, <1>2, <1>3, <1>5, ChangeData, NoneSound DEF Inv1, counters
    <2>2. Batch({}, mirror) \in Work /\ WorkShape(writes, latest, Batch({}, mirror))
      BY <1>1, BatchShape
    <2>3. SessionOK' /\ WorkOK' /\ Linked'
      BY <1>2, <1>5, <2>2, ChangeWork DEF Inv1, counters
    <2>4. QED
      BY <1>2, <2>1, <2>3 DEF Inv1, ClockOK, counters
  <1>6. QED
    BY <1>4, <1>5 DEF MirrorNext, Indexed

LEMMA MirrorUpsertShape ==
    ASSUME Inv1, NEW p \in Peers, NEW s \in Sources, MirrorUpsert(p, s)
    PROVE  Inv1'
  <1> DEFINE b == Batch({}, work[p][s].mirror)
             x == work[p][s].path
             doc == work[p][s].doc
  <1>1. /\ work[p][s].mirror \in SUBSET Diff /\ OnePerPath(work[p][s].mirror)
        /\ AllSound(writes, latest, work[p][s].mirror)
        /\ x \in Paths /\ doc \in Record /\ Sound(writes, latest, x, doc)
    BY WorkKinds DEF Inv1, WorkOK, WorkShape, MirrorUpsert
  <1>2. /\ SetWork(p, s, b) /\ index' = [index EXCEPT ![p][x] = doc]
        /\ UNCHANGED <<store, now, latest, counters, overlapped>>
    BY DEF MirrorUpsert
  <1> HIDE DEF x, doc
  <1>3. DataOK'
    BY <1>1, <1>2, ChangeData DEF Inv1, counters
  <1>4. b \in Work /\ WorkShape(writes, latest, b)
    BY <1>1, BatchShape
  <1> HIDE DEF b
  <1>5. SessionOK' /\ WorkOK' /\ Linked'
    BY <1>2, <1>4, ChangeWork DEF Inv1, counters
  <1>6. QED
    BY <1>2, <1>3, <1>5 DEF Inv1, ClockOK, counters

LEMMA FailsClock ==
    ASSUME ClockOK, Fails
    PROVE  ClockOK' /\ UNCHANGED <<writes, latest>>
  BY ClockStep DEF Fails, ClockOK

LEMMA SessionFailsShape ==
    ASSUME Inv1, NEW p \in Peers, SessionFails(p)
    PROVE  Inv1'
  <1>1. ClockOK' /\ UNCHANGED <<writes, latest, store, index>>
    BY FailsClock DEF Inv1, SessionFails, Fails
  <1>2. SessionOK' /\ WorkOK' /\ Linked'
    BY <1>1, ChangeSession, IdleFacts DEF Inv1, SessionFails
  <1>3. QED
    BY <1>1, <1>2 DEF Inv1, DataOK

LEMMA ApplyFailsShape ==
    ASSUME Inv1, NEW p \in Peers, NEW s \in Sources, ApplyFails(p, s)
    PROVE  Inv1'
  <1>1. ClockOK' /\ UNCHANGED <<writes, latest, store, index>>
    BY FailsClock DEF Inv1, ApplyFails, Fails
  <1>2. work' = [work EXCEPT ![p][s] = NoWork]
    BY DEF ApplyFails
  <1>3. WorkOK'
    BY <1>1, <1>2, IdleFacts DEF Inv1, WorkOK
  <1>4. /\ session' \in [Peers -> Session]
        /\ \A q \in Peers : session'[q] \in {Idle, session[q]}
    BY IdleFacts DEF ApplyFails, Inv1, SessionOK
  <1>5. SessionOK'
    BY <1>1, <1>4, IdleFacts DEF Inv1, SessionOK
  <1>6. Linked'
    <2>1. CASE s = "session"
      <3>1. session' = [session EXCEPT ![p] = Idle]
        BY <2>1 DEF ApplyFails, Inv1, SessionOK
      <3>2. QED
        BY <2>1, <3>1, <1>2, IdleFacts DEF Inv1, Linked, SessionOK, WorkOK, Sources
    <2>2. CASE s = "push"
      <3>1. \A q \in Peers : work'[q]["session"] = work[q]["session"]
        BY <2>2, <1>2 DEF Inv1, WorkOK, Sources
      <3>2. \A q \in Peers : \/ session'[q] = session[q]
                             \/ session[q].step = "pushing" /\ session'[q] = Idle
        BY <2>2 DEF ApplyFails, Inv1, SessionOK
      <3>3. \A q \in Peers : session'[q] = Applying <=> session[q] = Applying
        BY <3>2, IdleFacts
      <3>4. QED
        BY <3>1, <3>3 DEF Inv1, Linked
    <2>3. QED
      BY <2>1, <2>2 DEF Sources
  <1>7. QED
    BY <1>1, <1>3, <1>5, <1>6 DEF Inv1, DataOK

LEMMA RestartShape ==
    ASSUME Inv1, NEW p \in Peers, Restart(p)
    PROVE  Inv1'
  <1>1. ClockOK' /\ UNCHANGED <<writes, latest, store>>
    BY FailsClock DEF Inv1, Restart, Fails
  <1>2. /\ work' = [work EXCEPT ![p] = [s \in Sources |-> NoWork]]
        /\ index' = [index EXCEPT ![p] = store[p]]
        /\ session' = [q \in Peers |->
                          IF q = p \/ (session[q].step = "pushing" /\ session[q].peer = p)
                          THEN Idle ELSE session[q]]
    BY DEF Restart
  <1>3. WorkOK'
    BY <1>1, <1>2, IdleFacts DEF Inv1, WorkOK
  <1>4. DataOK'
    BY <1>1, <1>2 DEF Inv1, DataOK
  <1>5. SessionOK'
    BY <1>1, <1>2, IdleFacts DEF Inv1, SessionOK
  <1>6. ASSUME NEW q \in Peers \ {p}
        PROVE  work'[q]["session"] = work[q]["session"] /\ (session'[q] = Applying <=> session[q] = Applying)
    <2>1. work'[q]["session"] = work[q]["session"]
      BY <1>2 DEF Inv1, WorkOK
    <2>2. \/ session'[q] = session[q]
          \/ session'[q] = Idle /\ session[q].step = "pushing"
      BY <1>2
    <2>3. QED
      BY <2>1, <2>2, IdleFacts
  <1>7. session'[p] # Applying /\ work'[p]["session"] = NoWork
    BY <1>2, IdleFacts DEF Inv1, WorkOK, Sources
  <1>8. Linked'
    BY <1>6, <1>7 DEF Inv1, Linked
  <1>9. QED
    BY <1>1, <1>3, <1>4, <1>5, <1>8 DEF Inv1

(* The steps of Next, one by one. *)
Steps(p) ==
    \/ \E x \in Paths : Write(p, x) \/ DeleteRecord(p, x)
    \/ \E q \in Peers \ {p} :
          BeginSync(p, q) \/ (\E t \in Since : BeginPush(p, q, t)) \/ BeginPull(p, q)
    \/ PullManifest(p) \/ Collect(p) \/ Push(p) \/ Pushed(p)
    \/ Pull(p) \/ (\E t \in Since : PullSince(p, t))
    \/ \E s \in Sources :
          \/ (\E d \in work[p][s].todo : MergeNext(p, s, d)) \/ MergePut(p, s)
          \/ (\E d \in work[p][s].mirror : MirrorNext(p, s, d)) \/ MirrorUpsert(p, s)
          \/ ApplyFails(p, s)
    \/ SessionFails(p) \/ Restart(p)

LEMMA NextSteps == Next => \E p \in Peers : Steps(p)
  <1> SUFFICES ASSUME NEW p \in Peers,
                      \/ \E x \in Paths : Write(p, x) \/ DeleteRecord(p, x)
                      \/ \E q \in Peers \ {p} :
                            (\E t \in Since : BeginPush(p, q, t)) \/ BeginPull(p, q)
                      \/ SessionStep(p)
                      \/ \E s \in Sources : ApplyStep(p, s) \/ ApplyFails(p, s)
                      \/ SessionFails(p)
                      \/ Restart(p)
               PROVE  Steps(p)
    BY DEF Next
  <1>1. CASE SessionStep(p)
    BY <1>1, Zenon DEF SessionStep, Steps
  <1>2. CASE \E s \in Sources : ApplyStep(p, s) \/ ApplyFails(p, s)
    BY <1>2, Zenon DEF ApplyStep, Steps
  <1>3. QED
    BY <1>1, <1>2, Zenon DEF Steps

LEMMA NextShape == Inv1 /\ [Next]_vars => Inv1'
  <1>1. ASSUME Inv1, UNCHANGED vars PROVE Inv1'
    BY <1>1 DEF vars, Inv1, ClockOK, DataOK, SessionOK, WorkOK, Linked
  <1>2. ASSUME Inv1, NEW p \in Peers, Steps(p) PROVE Inv1'
    <2>1. CASE \E x \in Paths : Write(p, x) \/ DeleteRecord(p, x)
      BY <1>2, <2>1, WriteShape, DeleteShape
    <2>2. CASE \E q \in Peers \ {p} :
                 BeginSync(p, q) \/ (\E t \in Since : BeginPush(p, q, t)) \/ BeginPull(p, q)
      BY <1>2, <2>2, BeginShape
    <2>3. CASE PullManifest(p) \/ Collect(p) \/ Push(p) \/ Pushed(p)
      BY <1>2, <2>3, PullManifestShape, CollectShape, PushShape, PushedShape
    <2>4. CASE Pull(p) \/ \E t \in Since : PullSince(p, t)
      BY <1>2, <2>4, PullShape
    <2>5. ASSUME NEW s \in Sources,
                 \/ (\E d \in work[p][s].todo : MergeNext(p, s, d)) \/ MergePut(p, s)
                 \/ (\E d \in work[p][s].mirror : MirrorNext(p, s, d)) \/ MirrorUpsert(p, s)
                 \/ ApplyFails(p, s)
          PROVE  Inv1'
      BY <1>2, <2>5, MergeNextShape, MergePutShape, MirrorNextShape, MirrorUpsertShape,
         ApplyFailsShape
    <2>6. CASE SessionFails(p) \/ Restart(p)
      BY <1>2, <2>6, SessionFailsShape, RestartShape
    <2>7. QED
      BY <1>2, <2>1, <2>2, <2>3, <2>4, <2>5, <2>6, Zenon DEF Steps
  <1>3. QED
    BY <1>1, <1>2, NextSteps, Zenon

(* The types, and a session applies changes exactly while its batch has some: *)
(* TypeOK in every reachable state.                                           *)
THEOREM TypeCorrect == Spec => []TypeOK
  <1>1. Inv1 => TypeOK
    BY DEF Inv1, ClockOK, DataOK, SessionOK, WorkOK, Linked, TypeOK
  <1>2. QED
    BY <1>1, InitShape, NextShape, PTL DEF Spec

-----------------------------------------------------------------------------
(* While nothing overlaps: one session, one batch, and the batch of a push    *)
(* belongs to the session that waits for it, if that one still runs.          *)
Alone ==
    /\ \A p, q \in Peers : session[p] # Idle /\ session[q] # Idle => p = q
    /\ \A p, q \in Peers, s, u \in Sources :
          work[p][s] # NoWork /\ work[q][u] # NoWork => p = q /\ s = u
    /\ \A p, q \in Peers :
          work[p]["push"] # NoWork /\ session[q] # Idle =>
             session[q].step = "pushing" /\ session[q].peer = p

(* A record that was looked up is the one that is stored. *)
Fresh ==
    \A p \in Peers, s \in Sources :
        work[p][s].step = "put" => work[p][s].local = store[p][work[p][s].diff.path]

Inv2 == Inv1 /\ (~overlapped => Alone /\ Fresh)

LEMMA QuietFacts ==
    ASSUME Quiet
    PROVE  /\ \A p \in Peers : session[p] = Idle /\ session[p].step = "idle"
           /\ \A p \in Peers, s \in Sources :
                 /\ work[p][s] = NoWork /\ work[p][s].step = "none"
                 /\ work[p][s].todo = {} /\ work[p][s].mirror = {}
  BY IdleFacts DEF Quiet

(* While a session that does not wait for a batch runs, there is no batch. *)
LEMMA NoBatch ==
    ASSUME Inv1, Alone, NEW p \in Peers, session[p] # Idle, session[p] # Applying,
           session[p].step = "pushing" => work[session[p].peer]["push"] = NoWork
    PROVE  \A q \in Peers, s \in Sources : work[q][s] = NoWork
  <1>1. ASSUME NEW q \in Peers PROVE work[q]["session"] = NoWork
    BY DEF Inv1, Linked, Alone, Idle, Applying
  <1>2. ASSUME NEW q \in Peers PROVE work[q]["push"] = NoWork
    BY DEF Alone
  <1>3. QED
    BY <1>1, <1>2 DEF Sources

LEMMA SessionAlone ==
    ASSUME Inv1, Alone, NEW p \in Peers, NEW r, SetStep(p, r), UNCHANGED work,
           session[p] # Idle, \A q \in Peers, s \in Sources : work[q][s] = NoWork
    PROVE  Alone'
  <1>1. \A q \in Peers : session'[q] # Idle => q = p
    BY DEF Inv1, SessionOK, SetStep, Alone
  <1>2. QED
    BY <1>1 DEF Alone, Sources

LEMMA WorkAlone ==
    ASSUME Inv1, Alone, NEW p \in Peers, NEW s \in Sources, NEW w, SetWork(p, s, w),
           \/ work[p][s] # NoWork
           \/ /\ s = "session" /\ session[p] # Idle
              /\ \A q \in Peers, u \in Sources : work[q][u] = NoWork
    PROVE  /\ Alone' /\ work'[p][s] = w
           /\ \A q \in Peers, u \in Sources :
                 (q # p \/ u # s) => work[q][u] = NoWork /\ work'[q][u] = NoWork
  <1>1. \A q \in Peers, u \in Sources : (q # p \/ u # s) => work[q][u] = NoWork
    BY DEF Alone
  <1>2. /\ work'[p][s] = w
        /\ \A q \in Peers, u \in Sources : (q # p \/ u # s) => work'[q][u] = work[q][u]
    BY DEF Inv1, WorkOK, SetWork
  <1>3. CASE s = "session"
    <2>1. session[p] # Idle
      BY <1>3, IdleFacts DEF Inv1, Linked
    <2>2. \A q \in Peers : session'[q] # Idle => q = p
      BY <1>3, <2>1 DEF Inv1, SessionOK, SetWork, Alone
    <2>3. \A q \in Peers : work'[q]["push"] = NoWork
      BY <1>1, <1>2, <1>3 DEF Sources
    <2>4. Alone'
      BY <1>1, <1>2, <2>2, <2>3 DEF Alone
    <2>5. QED
      BY <1>1, <1>2, <2>4
  <1>4. CASE s = "push"
    <2>1. session' = session /\ work[p]["push"] # NoWork
      BY <1>4 DEF SetWork
    <2>2. \A q \in Peers : session[q] # Idle => session[q].step = "pushing" /\ session[q].peer = p
      BY <2>1 DEF Alone
    <2>3. \A q \in Peers : work'[q]["push"] # NoWork => q = p
      BY <1>1, <1>2, <1>4 DEF Sources
    <2>4. Alone'
      <3>1. \A q, z \in Peers : session'[q] # Idle /\ session'[z] # Idle => q = z
        BY <2>1 DEF Alone
      <3>2. \A q, z \in Peers, u, v \in Sources :
                work'[q][u] # NoWork /\ work'[z][v] # NoWork => q = z /\ u = v
        BY <1>1, <1>2
      <3>3. \A q, z \in Peers :
                work'[q]["push"] # NoWork /\ session'[z] # Idle =>
                   session'[z].step = "pushing" /\ session'[z].peer = q
        BY <2>1, <2>2, <2>3
      <3>4. QED
        BY <3>1, <3>2, <3>3 DEF Alone
    <2>5. QED
      BY <1>1, <1>2, <2>4
  <1>5. QED
    BY <1>3, <1>4 DEF Sources

(* Failures only end sessions and batches. *)
LEMMA EndAlone ==
    ASSUME Alone,
           \A q \in Peers : session'[q] \in {Idle, session[q]},
           \A q \in Peers, u \in Sources : work'[q][u] \in {NoWork, work[q][u]}
    PROVE  Alone'
  <1>1. \A q \in Peers : session'[q] # Idle => session[q] # Idle /\ session'[q] = session[q]
    OBVIOUS
  <1>2. \A q \in Peers, u \in Sources :
            work'[q][u] # NoWork => work[q][u] # NoWork
    OBVIOUS
  <1>3. \A q \in Peers : work'[q]["push"] # NoWork => work[q]["push"] # NoWork
    BY <1>2 DEF Sources
  <1>4. \A p, q \in Peers : session'[p] # Idle /\ session'[q] # Idle => p = q
    BY <1>1 DEF Alone
  <1>5. \A p, q \in Peers, s, u \in Sources :
            work'[p][s] # NoWork /\ work'[q][u] # NoWork => p = q /\ s = u
    BY <1>2 DEF Alone
  <1>6. \A p, q \in Peers :
            work'[p]["push"] # NoWork /\ session'[q] # Idle =>
               session'[q].step = "pushing" /\ session'[q].peer = p
    BY <1>1, <1>3 DEF Alone
  <1>7. QED
    BY <1>4, <1>5, <1>6 DEF Alone

LEMMA FailsEnd ==
    ASSUME Inv1, NEW p \in Peers,
           SessionFails(p) \/ (\E s \in Sources : ApplyFails(p, s)) \/ Restart(p)
    PROVE  /\ \A q \in Peers : session'[q] \in {Idle, session[q]}
           /\ \A q \in Peers, u \in Sources : work'[q][u] \in {NoWork, work[q][u]}
           /\ failures' > 0 /\ overlapped' = overlapped
           /\ UNCHANGED <<store, now, latest, writes, deletes>>
  <1>1. /\ Fails /\ failures' = failures + 1 /\ overlapped' = overlapped
        /\ UNCHANGED <<store, now, latest, writes, deletes>>
    BY DEF SessionFails, ApplyFails, Restart, Fails
  <1>2. failures' > 0
    BY <1>1 DEF Inv1, ClockOK
  <1>3. CASE SessionFails(p)
    BY <1>1, <1>2, <1>3 DEF SessionFails, SetStep, Inv1, SessionOK, WorkOK
  <1>4. ASSUME NEW s \in Sources, ApplyFails(p, s)
        PROVE  /\ \A q \in Peers : session'[q] \in {Idle, session[q]}
               /\ \A q \in Peers, u \in Sources : work'[q][u] \in {NoWork, work[q][u]}
    <2>1. \A q \in Peers : session'[q] \in {Idle, session[q]}
      BY <1>4 DEF ApplyFails
    <2>2. \A q \in Peers, u \in Sources : work'[q][u] \in {NoWork, work[q][u]}
      BY <1>4 DEF ApplyFails, Inv1, WorkOK
    <2>3. QED
      BY <2>1, <2>2
  <1>5. CASE Restart(p)
    <2>1. \A q \in Peers : session'[q] \in {Idle, session[q]}
      BY <1>5 DEF Restart
    <2>2. \A q \in Peers, u \in Sources : work'[q][u] \in {NoWork, work[q][u]}
      BY <1>5 DEF Restart, Inv1, WorkOK
    <2>3. QED
      BY <1>1, <1>2, <2>1, <2>2
  <1>6. QED
    BY <1>1, <1>2, <1>3, <1>4, <1>5

(* The user, and whoever begins a session, keep out of the way. *)
LEMMA UserQuiet ==
    ASSUME Inv1, NEW p \in Peers, ~overlapped',
           \/ \E x \in Paths : Write(p, x) \/ DeleteRecord(p, x)
           \/ \E r : Begin(p, r)
    PROVE  ~overlapped /\ Quiet
  BY DEF Write, DeleteRecord, Begin

LEMMA BeginFacts ==
    ASSUME NEW p \in Peers, NEW q \in Peers \ {p},
           BeginSync(p, q) \/ (\E t \in Since : BeginPush(p, q, t)) \/ BeginPull(p, q)
    PROVE  \E r : Begin(p, r)
  BY DEF BeginSync, BeginPush, BeginPull

(* The batch that a step of apply_changes_received works on is the only one,  *)
(* and all that changes.                                                      *)
ApplyOne(p, s) ==
    \/ (\E d \in work[p][s].todo : MergeNext(p, s, d)) \/ MergePut(p, s)
    \/ (\E d \in work[p][s].mirror : MirrorNext(p, s, d)) \/ MirrorUpsert(p, s)

LEMMA ApplyAlone ==
    ASSUME Inv1, Alone, NEW p \in Peers, NEW s \in Sources, ApplyOne(p, s)
    PROVE  /\ Alone' /\ work[p][s] # NoWork
           /\ \A q \in Peers, u \in Sources :
                 (q # p \/ u # s) => work[q][u] = NoWork /\ work'[q][u] = NoWork
           /\ UNCHANGED <<now, latest, counters, overlapped>>
           /\ \E w : SetWork(p, s, w)
  <1>1. work[p][s] # NoWork
    BY IdleFacts DEF ApplyOne, MergeNext, MergePut, MirrorNext, MirrorUpsert
  <1>2. PICK w : SetWork(p, s, w)
    BY DEF ApplyOne, MergeNext, MergePut, MirrorNext, MirrorUpsert
  <1>3. UNCHANGED <<now, latest, counters, overlapped>>
    BY DEF ApplyOne, MergeNext, MergePut, MirrorNext, MirrorUpsert
  <1>4. QED
    BY <1>1, <1>2, <1>3, WorkAlone

LEMMA ApplyFresh ==
    ASSUME Inv1, Alone, NEW p \in Peers, NEW s \in Sources, ApplyOne(p, s)
    PROVE  Fresh'
  <1>1. ASSUME NEW q \in Peers, NEW u \in Sources, q # p \/ u # s
        PROVE  work'[q][u].step # "put"
    BY <1>1, ApplyAlone, IdleFacts
  <1>2. work'[p][s].step = "put" => work'[p][s].local = store'[p][work'[p][s].diff.path]
    <2>0. /\ work[p][s] \in Work /\ WorkShape(writes, latest, work[p][s])
          /\ work[p][s].todo \in SUBSET Diff /\ work[p][s].mirror \in SUBSET Diff
      BY WorkKinds DEF Inv1, WorkOK
    <2>1. ASSUME NEW w, SetWork(p, s, w) PROVE work'[p][s] = w
      BY <2>1 DEF SetWork, Inv1, WorkOK
    <2>2. ASSUME NEW d \in work[p][s].todo, MergeNext(p, s, d)
          PROVE  work'[p][s].step = "put" => work'[p][s].local = store'[p][work'[p][s].diff.path]
      <3> DEFINE todo == work[p][s].todo \ {d}
                 mirror == work[p][s].mirror
      <3>1. CASE SetWork(p, s, Batch(todo, mirror))
        BY <3>1, <2>0, <2>1, BatchFacts
      <3>2. CASE /\ SetWork(p, s, [step |-> "put", todo |-> todo, mirror |-> mirror,
                                   diff |-> d, local |-> store[p][d.path]])
                 /\ UNCHANGED store
        <4>1. work'[p][s] = [step |-> "put", todo |-> todo, mirror |-> mirror,
                             diff |-> d, local |-> store[p][d.path]]
          BY <3>2, <2>1
        <4>2. QED
          BY <3>2, <4>1
      <3>3. QED
        BY <2>2, <3>1, <3>2 DEF MergeNext
    <2>3. CASE MergePut(p, s)
      BY <2>0, <2>1, <2>3, BatchFacts DEF MergePut
    <2>4. CASE \E d \in work[p][s].mirror : MirrorNext(p, s, d)
      <3>1. PICK d \in work[p][s].mirror : MirrorNext(p, s, d)
        BY <2>4
      <3>2. CASE SetWork(p, s, Batch({}, work[p][s].mirror \ {d}))
        BY <3>2, <2>0, <2>1, BatchFacts
      <3>3. CASE SetWork(p, s, [step |-> "upsert", todo |-> {},
                                mirror |-> work[p][s].mirror \ {d},
                                path |-> d.path, doc |-> Indexed(p, d)])
        BY <3>3, <2>1
      <3>4. QED
        BY <3>1, <3>2, <3>3 DEF MirrorNext
    <2>5. CASE MirrorUpsert(p, s)
      BY <2>0, <2>1, <2>5, BatchFacts DEF MirrorUpsert
    <2>6. QED
      BY <2>2, <2>3, <2>4, <2>5 DEF ApplyOne
  <1>3. QED
    BY <1>1, <1>2 DEF Fresh

LEMMA PullAlone ==
    ASSUME Inv1, Alone, NEW p \in Peers, Pull(p) \/ \E t \in Since : PullSince(p, t)
    PROVE  /\ Alone'
           /\ \A q \in Peers, u \in Sources : work[q][u] = NoWork
           /\ \A q \in Peers, u \in Sources : (q # p \/ u # "session") => work'[q][u] = NoWork
           /\ \E D \in SUBSET Diff : work'[p]["session"] = Batch(D, D) /\ Apply(p, D)
  <1>1. session[p] # Idle /\ session[p] # Applying /\ session[p].step # "pushing"
    BY IdleFacts DEF Pull, PullSince
  <1>2. \A q \in Peers, u \in Sources : work[q][u] = NoWork
    BY <1>1, NoBatch
  <1>3. PICK D \in SUBSET Diff : Apply(p, D)
    <2>1. /\ session[p] \in Session /\ SessionShape(writes, latest, p, session[p])
          /\ \A z \in Peers : store[z] \in [Paths -> Record \cup {None}]
      BY DEF Inv1, SessionOK, DataOK
    <2>2. CASE Pull(p)
      <3>1. /\ session[p].peer \in Peers /\ session[p].pull \in SUBSET Entry
            /\ OnePerPath(session[p].pull)
        BY <2>1, <2>2, SessionKinds DEF SessionShape, Pull
      <3>2. QED
        BY <2>1, <2>2, <3>1, PushDiffsSound DEF Inv1, Pull
    <2>3. CASE \E t \in Since : PullSince(p, t)
      <3>1. session[p].peer \in Peers
        BY <2>1, <2>3, SessionKinds DEF PullSince
      <3>2. QED
        BY <2>1, <2>3, <3>1, ChangesSound DEF Inv1, PullSince
    <2>4. QED
      BY <2>2, <2>3
  <1>4. SetWork(p, "session", Batch(D, D)) /\ "session" \in Sources
    BY <1>3 DEF Apply, Sources
  <1>5. QED
    BY <1>1, <1>2, <1>3, <1>4, WorkAlone

LEMMA PushAlone ==
    ASSUME Inv1, Alone, NEW p \in Peers, Push(p)
    PROVE  /\ Alone'
           /\ session[p].peer \in Peers \ {p} /\ session[p].diffs \in SUBSET Diff
           /\ \A q \in Peers, u \in Sources : work[q][u] = NoWork
           /\ work'[session[p].peer]["push"] = Batch(session[p].diffs, session[p].diffs)
           /\ \A q \in Peers, u \in Sources :
                 (q # session[p].peer \/ u # "push") => work'[q][u] = NoWork
           /\ session'[p] = [step |-> "pushing", peer |-> session[p].peer,
                             diffs |-> session[p].diffs, pull |-> session[p].pull,
                             full |-> session[p].full]
           /\ \A q \in Peers \ {p} : session[q] = Idle /\ session'[q] = Idle
  <1> DEFINE z == session[p].peer
             D == session[p].diffs
             r == [step |-> "pushing", peer |-> z, diffs |-> D, pull |-> session[p].pull,
                   full |-> session[p].full]
  <1>1. session[p] # Idle /\ session[p] # Applying /\ session[p].step = "push"
    BY IdleFacts DEF Push
  <1>2. \A q \in Peers, u \in Sources : work[q][u] = NoWork
    BY <1>1, NoBatch
  <1>3. z \in Peers \ {p} /\ D \in SUBSET Diff
    BY <1>1, SessionKinds DEF Inv1, SessionOK, SessionShape
  <1>4. session'[p] = r /\ \A q \in Peers \ {p} : session'[q] = session[q]
    <2>1. session[p] = [step |-> session[p].step, peer |-> z, diffs |-> D,
                        pull |-> session[p].pull, full |-> session[p].full]
      BY <1>1, SessionKinds DEF Inv1, SessionOK
    <2>2. session' = [session EXCEPT ![p] = [session[p] EXCEPT !.step = "pushing"]]
      BY DEF Push, SetStep
    <2>3. [session[p] EXCEPT !.step = "pushing"] = r
      BY <2>1
    <2>4. QED
      BY <2>2, <2>3 DEF Inv1, SessionOK
  <1>5. \A q \in Peers \ {p} : session[q] = Idle
    BY <1>1 DEF Alone
  <1>6. work' = [work EXCEPT ![z]["push"] = Batch(D, D)]
    BY DEF Push
  <1>7. /\ work'[z]["push"] = Batch(D, D)
        /\ \A q \in Peers, u \in Sources : (q # z \/ u # "push") => work'[q][u] = NoWork
    BY <1>2, <1>3, <1>6 DEF Inv1, WorkOK, Sources
  <1>8. Alone'
    <2>1. r.step = "pushing" /\ r.peer = z
      OBVIOUS
    <2> HIDE DEF r, z, D
    <2>2. \A q, y \in Peers : session'[q] # Idle /\ session'[y] # Idle => q = y
      BY <1>4, <1>5
    <2>3. \A q, y \in Peers, u, v \in Sources :
              work'[q][u] # NoWork /\ work'[y][v] # NoWork => q = y /\ u = v
      BY <1>7
    <2>4. \A q, y \in Peers :
              work'[q]["push"] # NoWork /\ session'[y] # Idle =>
                 session'[y].step = "pushing" /\ session'[y].peer = q
      BY <1>4, <1>5, <1>7, <2>1 DEF Sources
    <2>5. QED
      BY <2>2, <2>3, <2>4 DEF Alone
  <1>9. QED
    BY <1>2, <1>3, <1>4, <1>5, <1>7, <1>8

LEMMA NextAlone == Inv2 /\ [Next]_vars => Inv2'
  <1> SUFFICES ASSUME Inv2, [Next]_vars, ~overlapped'
               PROVE  Alone' /\ Fresh'
    BY NextShape DEF Inv2
  <1>0. Inv1
    BY DEF Inv2
  <1>1. CASE UNCHANGED vars
    BY <1>1 DEF vars, Inv2, Alone, Fresh
  <1>2. ASSUME NEW p \in Peers, Steps(p) PROVE Alone' /\ Fresh'
    <2>1. CASE \E x \in Paths : Write(p, x) \/ DeleteRecord(p, x)
      <3>1. ~overlapped /\ Quiet /\ UNCHANGED <<session, work>>
        BY <1>0, <2>1, UserQuiet DEF Write, DeleteRecord
      <3>2. Alone'
        BY <3>1 DEF Inv2, Alone
      <3>3. Fresh'
        BY <3>1, QuietFacts DEF Fresh
      <3>4. QED
        BY <3>2, <3>3
    <2>2. ASSUME NEW r, Begin(p, r) PROVE Alone' /\ Fresh'
      <3>1. ~overlapped /\ Quiet /\ work' = work /\ SetStep(p, r)
        BY <1>0, <2>2, UserQuiet DEF Begin
      <3>2. \A q \in Peers : session'[q] # Idle => q = p
        BY <1>0, <3>1, QuietFacts DEF SetStep, Inv1, SessionOK
      <3>3. Alone'
        BY <3>1, <3>2, QuietFacts DEF Alone, Sources
      <3>4. Fresh'
        BY <3>1, QuietFacts DEF Fresh
      <3>5. QED
        BY <3>3, <3>4
    <2>3. CASE PullManifest(p) \/ Collect(p) \/ Pushed(p)
      <3>1. ~overlapped /\ UNCHANGED <<store, work>> /\ \E r : SetStep(p, r)
        BY <2>3 DEF PullManifest, Collect, Pushed
      <3>2. /\ session[p] # Idle /\ session[p] # Applying
            /\ session[p].step = "pushing" => work[session[p].peer]["push"] = NoWork
        BY <2>3, IdleFacts DEF PullManifest, Collect, Pushed
      <3>3. QED
        BY <1>0, <3>1, <3>2, NoBatch, SessionAlone DEF Inv2, Fresh
    <2>4. CASE Push(p)
      <3>1. ~overlapped /\ UNCHANGED store
        BY <2>4 DEF Push
      <3>2. Alone'
        BY <1>0, <2>4, <3>1, PushAlone DEF Inv2
      <3>3. \A q \in Peers, u \in Sources : work'[q][u].step # "put"
        <4> DEFINE b == Batch(session[p].diffs, session[p].diffs)
        <4>0. /\ work'[session[p].peer]["push"] = b /\ session[p].diffs \in SUBSET Diff
              /\ \A q \in Peers, u \in Sources :
                    (q # session[p].peer \/ u # "push") => work'[q][u] = NoWork
          BY <1>0, <2>4, <3>1, PushAlone, Zenon DEF Inv2
        <4>2. b.step # "put"
          BY <4>0, BatchFacts
        <4> HIDE DEF b
        <4>1. \A q \in Peers, u \in Sources : work'[q][u] \in {NoWork, b}
          BY <4>0
        <4>3. QED
          BY <4>1, <4>2, IdleFacts
      <3>4. QED
        BY <3>2, <3>3 DEF Fresh
    <2>5. CASE Pull(p) \/ \E t \in Since : PullSince(p, t)
      <3>1. ~overlapped
        BY <2>5 DEF Pull, PullSince, Apply
      <3>2. Alone'
        BY <1>0, <2>5, <3>1, PullAlone DEF Inv2
      <3>3. \A q \in Peers, u \in Sources : work'[q][u].step # "put"
        BY <1>0, <2>5, <3>1, PullAlone, BatchFacts, IdleFacts DEF Inv2
      <3>4. QED
        BY <3>2, <3>3 DEF Fresh
    <2>6. ASSUME NEW s \in Sources, ApplyOne(p, s) PROVE Alone' /\ Fresh'
      <3>1. ~overlapped
        BY <2>6 DEF ApplyOne, MergeNext, MergePut, MirrorNext, MirrorUpsert
      <3>2. QED
        BY <1>0, <2>6, <3>1, ApplyAlone, ApplyFresh DEF Inv2
    <2>7. CASE SessionFails(p) \/ (\E s \in Sources : ApplyFails(p, s)) \/ Restart(p)
      <3>1. /\ ~overlapped /\ store' = store
            /\ \A q \in Peers : session'[q] \in {Idle, session[q]}
            /\ \A q \in Peers, u \in Sources : work'[q][u] \in {NoWork, work[q][u]}
        BY <1>0, <2>7, FailsEnd
      <3>2. Alone'
        BY <3>1, EndAlone DEF Inv2
      <3>3. ASSUME NEW q \in Peers, NEW u \in Sources, work'[q][u].step = "put"
            PROVE  work'[q][u].local = store'[q][work'[q][u].diff.path]
        <4>1. work'[q][u] = work[q][u]
          BY <3>1, <3>3, IdleFacts
        <4>2. QED
          BY <3>1, <3>3, <4>1 DEF Inv2, Fresh
      <3>4. QED
        BY <3>2, <3>3 DEF Fresh
    <2>8. QED
      BY <1>2, <2>1, <2>2, <2>3, <2>4, <2>5, <2>6, <2>7, BeginFacts, Zenon DEF Steps, ApplyOne
  <1>3. QED
    BY <1>1, <1>2, NextSteps, Zenon

LEMMA InitAlone == Init => Inv2
  <1> SUFFICES ASSUME Init PROVE Alone /\ Fresh
    BY InitShape DEF Inv2
  <1>1. /\ \A p \in Peers : session[p] = Idle
        /\ \A p \in Peers, s \in Sources : work[p][s] = NoWork
    BY DEF Init
  <1>2. QED
    BY <1>1, IdleFacts DEF Alone, Fresh, Sources

(* What a put of the only batch does to the store. *)
LEMMA PutKeeps ==
    ASSUME Inv1, Fresh, NEW p \in Peers, NEW s \in Sources, MergePut(p, s)
    PROVE  LET d == work[p][s].diff
           IN /\ d.path \in Paths /\ d.record \in Record
              /\ \A q \in Peers, y \in Paths :
                    (q # p \/ y # d.path) => store'[q][y] = store[q][y]
              /\ store'[p][d.path] \in Record
              /\ store[p][d.path] # None => store[p][d.path].at <= store'[p][d.path].at
              /\ \/ store' = store
                 \/ store'[p][d.path].at = d.record.at
  <1> DEFINE d == work[p][s].diff
             local == work[p][s].local
  <1>1. PICK r \in Record :
            /\ d.path \in Paths /\ d.record \in Record /\ r.at = d.record.at
            /\ \/ /\ store' = [store EXCEPT ![p][d.path] = r]
                  /\ local # None => local.at <= r.at
               \/ store' = store /\ local # None
    BY PutFacts
  <1>2. local = store[p][d.path]
    BY DEF Fresh, MergePut
  <1>3. local # None => local.at <= local.at
    <2>1. local \in Record \cup {None}
      BY <1>1, <1>2 DEF Inv1, DataOK
    <2>2. QED
      BY <2>1, RecordFacts
  <1> HIDE DEF d, local
  <1>4. CASE store' = store /\ local # None
    <2>1. local \in Record
      BY <1>1, <1>2, <1>4 DEF Inv1, DataOK
    <2>2. QED
      BY <1>1, <1>2, <1>3, <1>4, <2>1 DEF d
  <1>5. CASE /\ store' = [store EXCEPT ![p][d.path] = r]
             /\ local # None => local.at <= r.at
    <2>1. /\ store'[p][d.path] = r
          /\ \A q \in Peers, y \in Paths :
                (q # p \/ y # d.path) => store'[q][y] = store[q][y]
      BY <1>1, <1>5 DEF Inv1, DataOK
    <2>2. QED
      BY <1>1, <1>2, <1>5, <2>1 DEF d
  <1>6. QED
    BY <1>1, <1>4, <1>5

(* A deletion of the batch takes the path away, and nothing else. *)
LEMMA DeleteKeeps ==
    ASSUME Inv1, NEW p \in Peers, NEW x \in Paths,
           store' = [store EXCEPT ![p][x] = None]
    PROVE  /\ store'[p][x] = None
           /\ \A q \in Peers, y \in Paths : (q # p \/ y # x) => store'[q][y] = store[q][y]
  BY DEF Inv1, DataOK

(* The steps that change a store. *)
LEMMA StoreSteps ==
    ASSUME Inv1, NEW p \in Peers, Steps(p)
    PROVE  \/ store' = store
           \/ \E x \in Paths : Write(p, x) \/ DeleteRecord(p, x)
           \/ \E s \in Sources : \/ \E d \in work[p][s].todo : MergeNext(p, s, d)
                                 \/ MergePut(p, s)
  <1>1. CASE \E q \in Peers \ {p} :
               BeginSync(p, q) \/ (\E t \in Since : BeginPush(p, q, t)) \/ BeginPull(p, q)
    BY <1>1, BeginFacts DEF Begin
  <1>2. CASE PullManifest(p) \/ Collect(p) \/ Push(p) \/ Pushed(p)
    BY <1>2 DEF PullManifest, Collect, Push, Pushed
  <1>3. CASE Pull(p) \/ \E t \in Since : PullSince(p, t)
    BY <1>3 DEF Pull, PullSince, Apply
  <1>4. CASE \E s \in Sources :
               \/ (\E d \in work[p][s].mirror : MirrorNext(p, s, d)) \/ MirrorUpsert(p, s)
               \/ ApplyFails(p, s)
    BY <1>4 DEF MirrorNext, MirrorUpsert, ApplyFails, Fails
  <1>5. CASE SessionFails(p) \/ Restart(p)
    BY <1>5 DEF SessionFails, Restart, Fails
  <1>6. QED
    BY <1>1, <1>2, <1>3, <1>4, <1>5, Zenon DEF Steps

LEMMA StaleStep ==
    ASSUME Inv2, [Next]_vars, ~overlapped', NEW p \in Peers, NEW x \in Paths,
           store[p][x] # None, store'[p][x] # None
    PROVE  store'[p][x].at >= store[p][x].at
  <1>0. Inv1 /\ Inv1' /\ store[p][x] \in Record /\ store'[p][x] \in Record
    BY NextShape DEF Inv2, Inv1, DataOK
  <1>1. CASE store' = store
    BY <1>0, <1>1, RecordFacts
  <1>2. ASSUME NEW q \in Peers, Steps(q), store' # store
        PROVE  store'[p][x].at >= store[p][x].at
    <2>1. ASSUME NEW y \in Paths, Write(q, y)
          PROVE  store'[p][x].at >= store[p][x].at
      <3> DEFINE new == [rev |-> NextRevision(store[q][y]), at |-> now',
                         id |-> IF store[q][y] = None THEN q ELSE store[q][y].id]
      <3>1. /\ store' = [store EXCEPT ![q][y] = new]
            /\ store[q][y] # None => now' > store[q][y].at
        BY <2>1 DEF Write
      <3>2. new.at = now' /\ now' \in Nat
        BY <1>0, SyncAssumption DEF Inv1, ClockOK, Instant
      <3> HIDE DEF new
      <3>3. CASE p = q /\ x = y
        <4>1. store'[p][x].at = now' /\ store[p][x].at \in Nat
          BY <1>0, <3>1, <3>2, <3>3, RecordFacts DEF Inv1, DataOK
        <4>2. QED
          BY <4>1, <3>1, <3>2, <3>3
      <3>4. CASE ~(p = q /\ x = y)
        <4>1. store'[p][x] = store[p][x]
          BY <1>0, <3>1, <3>4 DEF Inv1, DataOK
        <4>2. QED
          BY <1>0, <4>1, RecordFacts
      <3>5. QED
        BY <3>3, <3>4
    <2>2. ASSUME NEW y \in Paths, store' = [store EXCEPT ![q][y] = None]
          PROVE  store'[p][x].at >= store[p][x].at
      <3>1. store'[p][x] = store[p][x]
        BY <1>0, <2>2, DeleteKeeps
      <3>2. QED
        BY <1>0, <3>1, RecordFacts
    <2>3. ASSUME NEW s \in Sources, NEW d \in work[q][s].todo, MergeNext(q, s, d)
          PROVE  store'[p][x].at >= store[p][x].at
      <3>1. d.path \in Paths
        BY <1>0, WorkKinds, DiffFacts DEF Inv1, WorkOK
      <3>2. QED
        BY <1>2, <2>2, <2>3, <3>1 DEF MergeNext
    <2>4. ASSUME NEW s \in Sources, MergePut(q, s)
          PROVE  store'[p][x].at >= store[p][x].at
      <3>1. Fresh
        BY <2>4 DEF Inv2, MergePut
      <3> DEFINE z == work[q][s].diff.path
      <3>2. /\ \A w \in Peers, y \in Paths : (w # q \/ y # z) => store'[w][y] = store[w][y]
            /\ store[q][z] # None => store[q][z].at <= store'[q][z].at
        BY <1>0, <2>4, <3>1, PutKeeps
      <3> HIDE DEF z
      <3>3. CASE p = q /\ x = z
        BY <1>0, <3>2, <3>3, RecordFacts
      <3>4. CASE ~(p = q /\ x = z)
        <4>1. store'[p][x] = store[p][x]
          BY <3>2, <3>4
        <4>2. QED
          BY <1>0, <4>1, RecordFacts
      <3>5. QED
        BY <3>3, <3>4
    <2>5. ASSUME NEW y \in Paths, DeleteRecord(q, y)
          PROVE  store'[p][x].at >= store[p][x].at
      BY <2>2, <2>5 DEF DeleteRecord
    <2>6. QED
      BY <1>0, <1>2, <2>1, <2>3, <2>4, <2>5, StoreSteps
  <1>3. QED
    BY <1>1, <1>2, NextSteps DEF vars

(* Without overlaps no step replaces a record by an older one, in particular  *)
(* no put of apply_changes_received (NoStaleOverwrite).                       *)
THEOREM NoStaleOverwrites == Spec => NoStaleOverwrite
  <1> DEFINE Newer == ~overlapped' => \A p \in Peers, x \in Paths :
                 (store[p][x] # None /\ store'[p][x] # None) => store'[p][x].at >= store[p][x].at
  <1>1. Inv2 /\ [Next]_vars => [Newer]_vars
    BY StaleStep
  <1>2. QED
    BY <1>1, InitAlone, NextAlone, PTL DEF Spec, NoStaleOverwrite

-----------------------------------------------------------------------------
(* The search index.  The batch w still has to bring the path x into it. *)
Pending(x, w) ==
    \/ \E d \in w.mirror : d.path = x
    \/ w.step = "upsert" /\ w.path = x

(* What w has merged and not yet mirrored is what the store t holds. *)
Merged(t, w) ==
    /\ w.step = "upsert" => w.doc = t[w.path]
    /\ \A d \in w.mirror \ w.todo :
          /\ d.action = "delete" => t[d.path] = None
          /\ d.action = "update" => t[d.path] # None \/ (w.step = "put" /\ w.diff = d)

Mirroring ==
    /\ \A p \in Peers, x \in Paths :
          index[p][x] = store[p][x] \/ \E s \in Sources : Pending(x, work[p][s])
    /\ \A p \in Peers, s \in Sources : Merged(store[p], work[p][s])

Inv3 == Inv2 /\ (~overlapped /\ failures = 0 => Mirroring)

LEMMA NothingPending ==
    /\ \A x : ~Pending(x, NoWork)
    /\ \A t : Merged(t, NoWork)
  BY IdleFacts DEF Pending, Merged

LEMMA NewBatch ==
    ASSUME NEW D \in SUBSET Diff, NEW t
    PROVE  Merged(t, Batch(D, D))
  BY BatchFacts DEF Merged

(* With one batch, the changes of the batch and of its peer decide. *)
LEMMA MirrorOne ==
    ASSUME NEW p \in Peers, NEW s \in Sources, Mirroring,
           \A q \in Peers, u \in Sources :
              (q # p \/ u # s) => work[q][u] = NoWork /\ work'[q][u] = NoWork,
           \A q \in Peers \ {p} : store'[q] = store[q] /\ index'[q] = index[q],
           Merged(store'[p], work'[p][s]),
           \A x \in Paths :
              (index[p][x] = store[p][x] \/ Pending(x, work[p][s])) =>
                 (index'[p][x] = store'[p][x] \/ Pending(x, work'[p][s]))
    PROVE  Mirroring'
  <1>1. ASSUME NEW q \in Peers, NEW x \in Paths
        PROVE  index'[q][x] = store'[q][x] \/ \E u \in Sources : Pending(x, work'[q][u])
    <2>1. CASE q = p
      <3>1. index[p][x] = store[p][x] \/ Pending(x, work[p][s])
        BY NothingPending DEF Mirroring
      <3>2. QED
        BY <2>1, <3>1
    <2>2. CASE q # p
      <3>1. index[q][x] = store[q][x]
        BY <2>2, NothingPending DEF Mirroring
      <3>2. QED
        BY <2>2, <3>1
    <2>3. QED
      BY <2>1, <2>2
  <1>2. ASSUME NEW q \in Peers, NEW u \in Sources
        PROVE  Merged(store'[q], work'[q][u])
    BY NothingPending
  <1>3. QED
    BY <1>1, <1>2 DEF Mirroring

LEMMA MergeNextMirror ==
    ASSUME Inv1, Alone, Mirroring, NEW p \in Peers, NEW s \in Sources,
           NEW d \in work[p][s].todo, MergeNext(p, s, d)
    PROVE  Mirroring'
  <1> DEFINE w == work[p][s]
             todo == work[p][s].todo \ {d}
             mirror == work[p][s].mirror
  <1>0. /\ w \in Work /\ WorkShape(writes, latest, w) /\ w.step = "merge"
        /\ mirror \in SUBSET Diff /\ todo \in SUBSET Diff /\ d \in mirror /\ d \in Diff
        /\ d.path \in Paths /\ OnePerPath(mirror) /\ Merged(store[p], w)
        /\ work[p][s].todo \subseteq mirror
    BY WorkKinds, DiffFacts DEF Inv1, WorkOK, WorkShape, MergeNext, Mirroring
  <1>1. \A q \in Peers, u \in Sources :
            (q # p \/ u # s) => work[q][u] = NoWork /\ work'[q][u] = NoWork
    BY ApplyAlone DEF ApplyOne
  <1>2. ASSUME NEW v, SetWork(p, s, v) PROVE work'[p][s] = v
    BY <1>2 DEF SetWork, Inv1, WorkOK
  <1>3. index' = index
    BY DEF MergeNext
  <1>4. CASE /\ d.action = "delete" /\ store' = [store EXCEPT ![p][d.path] = None]
             /\ SetWork(p, s, Batch(todo, mirror))
    <2>1. /\ store'[p][d.path] = None
          /\ \A y \in Paths : y # d.path => store'[p][y] = store[p][y]
      <3>1. d.path \in Paths
        BY <1>0
      <3>2. QED
        BY <1>4, <3>1 DEF Inv1, DataOK
    <2>2. \A q \in Peers \ {p} : store'[q] = store[q]
      BY <1>4 DEF Inv1, DataOK
    <2>3. /\ work'[p][s].todo = todo /\ work'[p][s].mirror = mirror
          /\ work'[p][s].step \in {"none", "merge"}
      BY <1>0, <1>2, <1>4, BatchFacts
    <2>4. Merged(store'[p], work'[p][s])
      <3> SUFFICES ASSUME NEW e \in mirror \ todo
                   PROVE  /\ e.action = "delete" => store'[p][e.path] = None
                          /\ e.action = "update" => store'[p][e.path] # None
        BY <2>3 DEF Merged
      <3>1. CASE e = d
        BY <1>4, <2>1, <3>1
      <3>2. CASE e # d
        <4>1. e \in mirror \ work[p][s].todo /\ e.path # d.path /\ e.path \in Paths
          BY <1>0, <3>2, DiffFacts DEF OnePerPath
        <4>2. QED
          BY <1>0, <2>1, <4>1 DEF Merged
      <3>3. QED
        BY <3>1, <3>2
    <2>5. ASSUME NEW x \in Paths, index[p][x] = store[p][x] \/ Pending(x, w)
          PROVE  index'[p][x] = store'[p][x] \/ Pending(x, work'[p][s])
      BY <1>0, <1>3, <2>1, <2>3, <2>5 DEF Pending
    <2> HIDE DEF w, todo, mirror
    <2>6. QED
      BY <1>1, <1>3, <2>2, <2>4, <2>5, MirrorOne DEF w
  <1>5. CASE /\ d.action = "update" /\ UNCHANGED store
             /\ SetWork(p, s, [step |-> "put", todo |-> todo, mirror |-> mirror,
                               diff |-> d, local |-> store[p][d.path]])
    <2>1. work'[p][s] = [step |-> "put", todo |-> todo, mirror |-> mirror,
                         diff |-> d, local |-> store[p][d.path]]
      BY <1>2, <1>5
    <2>2. /\ work'[p][s].todo = todo /\ work'[p][s].mirror = mirror
          /\ work'[p][s].step = "put" /\ work'[p][s].diff = d
      BY <2>1
    <2>3. Merged(store'[p], work'[p][s])
      <3> SUFFICES ASSUME NEW e \in mirror \ todo, e # d
                   PROVE  /\ e.action = "delete" => store[p][e.path] = None
                          /\ e.action = "update" => store[p][e.path] # None
        BY <1>5, <2>2 DEF Merged
      <3>1. QED
        BY <1>0 DEF Merged
    <2>4. ASSUME NEW x \in Paths, index[p][x] = store[p][x] \/ Pending(x, w)
          PROVE  index'[p][x] = store'[p][x] \/ Pending(x, work'[p][s])
      BY <1>0, <1>3, <1>5, <2>2, <2>4 DEF Pending
    <2> HIDE DEF w, todo, mirror
    <2>5. QED
      BY <1>1, <1>3, <1>5, <2>3, <2>4, MirrorOne DEF w
  <1>6. QED
    BY <1>4, <1>5 DEF MergeNext

LEMMA MergePutMirror ==
    ASSUME Inv1, Alone, Fresh, Mirroring, NEW p \in Peers, NEW s \in Sources, MergePut(p, s)
    PROVE  Mirroring'
  <1> DEFINE w == work[p][s]
             d == work[p][s].diff
             todo == work[p][s].todo
             mirror == work[p][s].mirror
  <1>0. /\ w \in Work /\ WorkShape(writes, latest, w) /\ w.step = "put"
        /\ mirror \in SUBSET Diff /\ todo \in SUBSET Diff /\ d \in mirror
        /\ OnePerPath(mirror) /\ Merged(store[p], w) /\ d.action = "update"
    BY WorkKinds DEF Inv1, WorkOK, WorkShape, MergePut, Mirroring
  <1>1. \A q \in Peers, u \in Sources :
            (q # p \/ u # s) => work[q][u] = NoWork /\ work'[q][u] = NoWork
    BY ApplyAlone DEF ApplyOne
  <1>2. work'[p][s] = Batch(todo, mirror)
    BY DEF SetWork, Inv1, WorkOK, MergePut
  <1>3. index' = index
    BY DEF MergePut
  <1>4. /\ d.path \in Paths /\ store'[p][d.path] # None
        /\ \A q \in Peers, y \in Paths : (q # p \/ y # d.path) => store'[q][y] = store[q][y]
    BY PutKeeps, RecordFacts
  <1>5. \A q \in Peers \ {p} : store'[q] = store[q]
    BY PutFacts DEF Inv1, DataOK
  <1>6. /\ work'[p][s].todo = todo /\ work'[p][s].mirror = mirror
        /\ work'[p][s].step \in {"none", "merge"}
    BY <1>0, <1>2, BatchFacts
  <1>7. Merged(store'[p], work'[p][s])
    <2> SUFFICES ASSUME NEW e \in mirror \ todo
                 PROVE  /\ e.action = "delete" => store'[p][e.path] = None
                        /\ e.action = "update" => store'[p][e.path] # None
      BY <1>6 DEF Merged
    <2>1. CASE e = d
      BY <1>0, <1>4, <2>1
    <2>2. CASE e # d
      <3>1. e.path # d.path /\ e.path \in Paths
        BY <1>0, <2>2, DiffFacts DEF OnePerPath
      <3>2. QED
        BY <1>0, <1>4, <2>2, <3>1 DEF Merged
    <2>3. QED
      BY <2>1, <2>2
  <1>8. ASSUME NEW x \in Paths, index[p][x] = store[p][x] \/ Pending(x, w)
        PROVE  index'[p][x] = store'[p][x] \/ Pending(x, work'[p][s])
    BY <1>0, <1>3, <1>4, <1>6, <1>8 DEF Pending
  <1> HIDE DEF w, d, todo, mirror
  <1>9. QED
    BY <1>1, <1>3, <1>5, <1>7, <1>8, MirrorOne DEF w

LEMMA MirrorNextMirror ==
    ASSUME Inv1, Alone, Mirroring, NEW p \in Peers, NEW s \in Sources,
           NEW d \in work[p][s].mirror, MirrorNext(p, s, d)
    PROVE  Mirroring'
  <1> DEFINE w == work[p][s]
             mirror == work[p][s].mirror \ {d}
             doc == store[p][d.path]
  <1>0. /\ w \in Work /\ WorkShape(writes, latest, w) /\ w.step = "merge" /\ w.todo = {}
        /\ mirror \in SUBSET Diff /\ d \in Diff
        /\ d.path \in Paths /\ OnePerPath(w.mirror) /\ Merged(store[p], w)
    BY WorkKinds, DiffFacts DEF Inv1, WorkOK, WorkShape, MirrorNext, Mirroring
  <1>1. \A q \in Peers, u \in Sources :
            (q # p \/ u # s) => work[q][u] = NoWork /\ work'[q][u] = NoWork
    BY ApplyAlone DEF ApplyOne
  <1>2. ASSUME NEW v, SetWork(p, s, v) PROVE work'[p][s] = v
    BY <1>2 DEF SetWork, Inv1, WorkOK
  <1>3. store' = store
    BY DEF MirrorNext
  <1>4. CASE /\ d.action = "update" /\ doc # None /\ UNCHANGED index
             /\ SetWork(p, s, [step |-> "upsert", todo |-> {}, mirror |-> mirror,
                               path |-> d.path, doc |-> doc])
    <2>1. work'[p][s] = [step |-> "upsert", todo |-> {}, mirror |-> mirror,
                         path |-> d.path, doc |-> doc]
      BY <1>2, <1>4
    <2>2. /\ work'[p][s].step = "upsert" /\ work'[p][s].todo = {}
          /\ work'[p][s].mirror = mirror /\ work'[p][s].path = d.path /\ work'[p][s].doc = doc
      BY <2>1
    <2>3. Merged(store'[p], work'[p][s])
      BY <1>0, <1>3, <2>2 DEF Merged
    <2>4. ASSUME NEW x \in Paths, index[p][x] = store[p][x] \/ Pending(x, w)
          PROVE  index'[p][x] = store'[p][x] \/ Pending(x, work'[p][s])
      BY <1>0, <1>3, <1>4, <2>2, <2>4 DEF Pending
    <2> HIDE DEF w, mirror, doc
    <2>5. QED
      BY <1>1, <1>3, <1>4, <2>3, <2>4, MirrorOne DEF w
  <1>5. CASE /\ ~(d.action = "update" /\ doc # None)
             /\ SetWork(p, s, Batch({}, mirror))
             /\ index' = IF d.action = "delete"
                         THEN [index EXCEPT ![p][d.path] = None] ELSE index
    <2>1. d.action = "delete" /\ doc = None
      BY <1>0, <1>5, DiffFacts DEF Merged
    <2>2. /\ index'[p][d.path] = None
          /\ \A y \in Paths : y # d.path => index'[p][y] = index[p][y]
          /\ \A q \in Peers \ {p} : index'[q] = index[q]
      BY <1>0, <1>5, <2>1 DEF Inv1, DataOK
    <2>3. /\ work'[p][s].todo = {} /\ work'[p][s].mirror = mirror
          /\ work'[p][s].step \in {"none", "merge"}
      BY <1>0, <1>2, <1>5, BatchFacts
    <2>4. Merged(store'[p], work'[p][s])
      BY <1>0, <1>3, <2>3 DEF Merged
    <2>5. ASSUME NEW x \in Paths, index[p][x] = store[p][x] \/ Pending(x, w)
          PROVE  index'[p][x] = store'[p][x] \/ Pending(x, work'[p][s])
      BY <1>0, <1>3, <2>1, <2>2, <2>3, <2>5 DEF Pending
    <2> HIDE DEF w, mirror, doc
    <2>6. QED
      BY <1>1, <1>3, <2>2, <2>4, <2>5, MirrorOne DEF w
  <1>6. QED
    BY <1>4, <1>5 DEF MirrorNext, Indexed

LEMMA MirrorUpsertMirror ==
    ASSUME Inv1, Alone, Mirroring, NEW p \in Peers, NEW s \in Sources, MirrorUpsert(p, s)
    PROVE  Mirroring'
  <1> DEFINE w == work[p][s]
             mirror == work[p][s].mirror
             x == work[p][s].path
  <1>0. /\ w \in Work /\ WorkShape(writes, latest, w) /\ w.step = "upsert" /\ w.todo = {}
        /\ mirror \in SUBSET Diff /\ x \in Paths /\ Merged(store[p], w)
    BY WorkKinds DEF Inv1, WorkOK, WorkShape, MirrorUpsert, Mirroring
  <1>1. \A q \in Peers, u \in Sources :
            (q # p \/ u # s) => work[q][u] = NoWork /\ work'[q][u] = NoWork
    BY ApplyAlone DEF ApplyOne
  <1>2. work'[p][s] = Batch({}, mirror)
    BY DEF SetWork, Inv1, WorkOK, MirrorUpsert
  <1>3. store' = store /\ index' = [index EXCEPT ![p][x] = w.doc] /\ w.doc = store[p][x]
    BY <1>0 DEF MirrorUpsert, Merged
  <1>4. /\ index'[p][x] = store[p][x]
        /\ \A y \in Paths : y # x => index'[p][y] = index[p][y]
        /\ \A q \in Peers \ {p} : index'[q] = index[q]
    BY <1>0, <1>3 DEF Inv1, DataOK
  <1>5. /\ work'[p][s].todo = {} /\ work'[p][s].mirror = mirror
        /\ work'[p][s].step \in {"none", "merge"}
    BY <1>0, <1>2, BatchFacts
  <1>6. Merged(store'[p], work'[p][s])
    BY <1>0, <1>3, <1>5 DEF Merged
  <1>7. ASSUME NEW y \in Paths, index[p][y] = store[p][y] \/ Pending(y, w)
        PROVE  index'[p][y] = store'[p][y] \/ Pending(y, work'[p][s])
    BY <1>3, <1>4, <1>5, <1>7 DEF Pending
  <1> HIDE DEF w, mirror, x
  <1>8. QED
    BY <1>1, <1>3, <1>4, <1>6, <1>7, MirrorOne DEF w

LEMMA NextMirror == Inv3 /\ [Next]_vars => Inv3'
  <1> SUFFICES ASSUME Inv3, [Next]_vars, ~overlapped', failures' = 0
               PROVE  Mirroring'
    BY NextAlone DEF Inv3
  <1>0. Inv1
    BY DEF Inv3, Inv2
  <1>1. CASE UNCHANGED vars
    BY <1>1 DEF vars, Inv3, Mirroring
  <1>2. ASSUME NEW p \in Peers, Steps(p) PROVE Mirroring'
    <2>1. CASE \E x \in Paths : Write(p, x) \/ DeleteRecord(p, x)
      <3>0. PICK x \in Paths : Write(p, x) \/ DeleteRecord(p, x)
        BY <2>1
      <3>1. PICK r : /\ UNCHANGED <<work, failures>>
                     /\ store' = [store EXCEPT ![p][x] = r]
                     /\ index' = [index EXCEPT ![p][x] = r]
        BY <3>0 DEF Write, DeleteRecord
      <3>2. ~overlapped /\ failures = 0 /\ Quiet
        BY <1>0, <2>1, <3>1, UserQuiet
      <3>3. /\ \A q \in Peers, y \in Paths : index[q][y] = store[q][y]
            /\ \A q \in Peers, u \in Sources : work'[q][u] = NoWork
        BY <3>1, <3>2, QuietFacts, NothingPending DEF Inv3, Mirroring
      <3>4. \A q \in Peers, y \in Paths : index'[q][y] = store'[q][y]
        BY <1>0, <3>1, <3>3 DEF Inv1, DataOK
      <3>5. QED
        BY <3>3, <3>4, NothingPending DEF Mirroring
    <2>2. ASSUME UNCHANGED <<store, index, work, failures>>, ~overlapped
          PROVE  Mirroring'
      BY <2>2 DEF Inv3, Mirroring
    <2>3. ASSUME NEW r, Begin(p, r) PROVE Mirroring'
      <3>1. ~overlapped
        BY <1>0, <2>3, UserQuiet
      <3>2. QED
        BY <2>2, <2>3, <3>1 DEF Begin
    <2>4. CASE PullManifest(p) \/ Collect(p) \/ Pushed(p)
      BY <2>2, <2>4 DEF PullManifest, Collect, Pushed, counters
    <2>5. ASSUME ~overlapped, failures = 0, UNCHANGED <<store, index>>, Alone,
                 \A q \in Peers, u \in Sources : work[q][u] = NoWork,
                 NEW D \in SUBSET Diff,
                 \A q \in Peers, u \in Sources : work'[q][u] \in {NoWork, Batch(D, D)}
          PROVE  Mirroring'
      <3>1. \A q \in Peers, y \in Paths : index[q][y] = store[q][y]
        BY <2>5, NothingPending DEF Inv3, Mirroring
      <3>2. \A q \in Peers, u \in Sources : Merged(store'[q], work'[q][u])
        BY <2>5, NothingPending, NewBatch
      <3>3. QED
        BY <2>5, <3>1, <3>2 DEF Mirroring
    <2>6. CASE Push(p)
      <3> DEFINE b == Batch(session[p].diffs, session[p].diffs)
      <3>1. ~overlapped /\ failures = 0 /\ UNCHANGED <<store, index>> /\ Alone
        BY <2>6 DEF Push, counters, Inv3, Inv2
      <3>2. /\ work'[session[p].peer]["push"] = b /\ session[p].diffs \in SUBSET Diff
            /\ \A q \in Peers, u \in Sources : work[q][u] = NoWork
            /\ \A q \in Peers, u \in Sources :
                  (q # session[p].peer \/ u # "push") => work'[q][u] = NoWork
        BY <1>0, <2>6, <3>1, PushAlone, Zenon
      <3>3. \A q \in Peers, u \in Sources : work'[q][u] \in {NoWork, b}
        <4> HIDE DEF b
        <4>1. QED
          BY <3>2
      <3>4. QED
        BY <2>5, <3>1, <3>2, <3>3
    <2>7. CASE Pull(p) \/ \E t \in Since : PullSince(p, t)
      <3>1. ~overlapped /\ failures = 0 /\ UNCHANGED <<store, index>> /\ Alone
        BY <2>7 DEF Pull, PullSince, Apply, counters, Inv3, Inv2
      <3>2. PICK D \in SUBSET Diff : work'[p]["session"] = Batch(D, D)
        BY <1>0, <2>7, <3>1, PullAlone
      <3>3. /\ \A q \in Peers, u \in Sources : work[q][u] = NoWork
            /\ \A q \in Peers, u \in Sources :
                  (q # p \/ u # "session") => work'[q][u] = NoWork
        BY <1>0, <2>7, <3>1, PullAlone
      <3>4. \A q \in Peers, u \in Sources : work'[q][u] \in {NoWork, Batch(D, D)}
        BY <3>2, <3>3
      <3>5. QED
        BY <2>5, <3>1, <3>3, <3>4
    <2>8. ASSUME NEW s \in Sources, ApplyOne(p, s) PROVE Mirroring'
      <3>1. ~overlapped /\ failures = 0
        <4>1. UNCHANGED <<counters, overlapped>>
          BY <2>8 DEF ApplyOne, MergeNext, MergePut, MirrorNext, MirrorUpsert
        <4>2. QED
          BY <4>1 DEF counters
      <3>2. Alone /\ Fresh /\ Mirroring
        BY <3>1 DEF Inv3, Inv2
      <3>3. QED
        BY <1>0, <2>8, <3>2, MergeNextMirror, MergePutMirror, MirrorNextMirror,
           MirrorUpsertMirror DEF ApplyOne
    <2>9. CASE SessionFails(p) \/ (\E s \in Sources : ApplyFails(p, s)) \/ Restart(p)
      <3>1. failures' > 0
        BY <1>0, <2>9, FailsEnd
      <3>2. QED
        BY <3>1
    <2>10. QED
      BY <1>2, <2>1, <2>3, <2>4, <2>6, <2>7, <2>8, <2>9, BeginFacts, Zenon
         DEF Steps, ApplyOne
  <1>3. QED
    BY <1>1, <1>2, NextSteps, Zenon

LEMMA InitMirror == Init => Inv3
  <1> SUFFICES ASSUME Init PROVE Mirroring
    BY InitAlone DEF Inv3
  <1>1. /\ \A p \in Peers, x \in Paths : index[p][x] = store[p][x]
        /\ \A p \in Peers, s \in Sources : work[p][s] = NoWork
    BY DEF Init
  <1>2. QED
    BY <1>1, NothingPending DEF Mirroring

(* Without overlaps and failures, index_applied_changes leaves the search     *)
(* index of a peer equal to its store (IndexInStep).                          *)
THEOREM IndexKeepsStep == Spec => []IndexInStep
  <1>1. Inv3 => IndexInStep
    <2> SUFFICES ASSUME Inv3, ~overlapped, failures = 0, NEW p \in Peers,
                        \A s \in Sources : work[p][s] = NoWork
                 PROVE  index[p] = store[p]
      BY DEF IndexInStep
    <2>1. \A x \in Paths : index[p][x] = store[p][x]
      BY NothingPending DEF Inv3, Mirroring
    <2>2. index[p] \in [Paths -> Record \cup {None}] /\ store[p] \in [Paths -> Record \cup {None}]
      BY DEF Inv3, Inv2, Inv1, DataOK
    <2>3. QED
      BY <2>1, <2>2
  <1>2. QED
    BY <1>1, InitMirror, NextMirror, PTL DEF Spec

-----------------------------------------------------------------------------
(* The newest version.  What peer q holds, in the stores t, of an entry that  *)
(* p asks it for: that version, or one that p pushed to it and that is not    *)
(* older than p's.                                                            *)
Held(t, p, q, e) ==
    /\ t[q][e.path] # None
    /\ \/ ChunkHash(e.path, t[q][e.path]) = e
       \/ t[p][e.path] # None /\ t[p][e.path].at <= t[q][e.path].at

(* No change in a batch of p takes the newest version away: another peer      *)
(* holds the path, and nothing older than what p loses.                       *)
Backed(t, p, d) ==
    \E q \in Peers \ {p} :
        /\ t[q][d.path] # None
        /\ d.action = "delete" /\ t[p][d.path] # None => t[p][d.path].at <= t[q][d.path].at

(* What a session r of p knows is still so. *)
SessionKept(t, batches, p, r) ==
    /\ r.step = "manifest" => r.local \subseteq BuildManifest(t[p])
    /\ r.step = "collect" => /\ r.push \subseteq BuildManifest(t[p])
                             /\ r.pull \subseteq BuildManifest(t[r.peer])
    /\ r.step \in {"push", "pushing"} =>
          /\ \A d \in r.diffs : t[p][d.path] # None /\ d = Update(d.path, t[p][d.path])
          /\ \A e \in r.pull : Held(t, p, r.peer, e)
    /\ r.step = "pushing" => batches[r.peer]["push"].mirror \subseteq r.diffs
    /\ r.step = "pull" => \A e \in r.pull : Held(t, p, r.peer, e)

Newest(t, last) ==
    \A x \in Paths : last[x] # 0 =>
        \E p \in Peers : t[p][x] # None /\ t[p][x].at = last[x]

Keeping ==
    /\ \A p \in Peers : SessionKept(store, work, p, session[p])
    /\ \A p \in Peers, s \in Sources : \A d \in work[p][s].mirror : Backed(store, p, d)
    /\ Newest(store, latest)

Inv4 == Inv2 /\ (~overlapped /\ deletes = 0 => Keeping)

LEMMA IdleKept ==
    \A t, batches, p : /\ SessionKept(t, batches, p, Idle)
                       /\ SessionKept(t, batches, p, Applying)
  BY IdleFacts DEF SessionKept

(* Entries of a manifest are sent as updates. *)
LEMMA PushedKept ==
    ASSUME NEW t \in [Paths -> Record \cup {None}], NEW E \in SUBSET BuildManifest(t)
    PROVE  \A d \in PushDiffs(t, E) : t[d.path] # None /\ d = Update(d.path, t[d.path])
  <1>1. /\ E \in SUBSET Entry /\ OnePerPath(E)
        /\ \A e \in E : t[e.path] # None /\ e = ChunkHash(e.path, t[e.path])
    BY ManifestFacts DEF OnePerPath
  <1>2. \A d \in PushDiffs(t, E) : \E e \in E :
            /\ e.path = d.path
            /\ \/ d = Update(d.path, t[d.path])
               \/ ~(t[d.path] # None /\ ChunkHash(d.path, t[d.path]) = e)
    BY <1>1, PushDiffsFacts
  <1>3. QED
    BY <1>1, <1>2

LEMMA WriteKeeping ==
    ASSUME Inv1, Inv1', Quiet, Keeping, NEW p \in Peers, NEW x \in Paths, Write(p, x)
    PROVE  Keeping'
  <1> DEFINE new == [rev |-> NextRevision(store[p][x]), at |-> now',
                     id |-> IF store[p][x] = None THEN p ELSE store[p][x].id]
  <1>1. /\ store' = [store EXCEPT ![p][x] = new] /\ latest' = [latest EXCEPT ![x] = now']
        /\ UNCHANGED <<session, work>>
    BY DEF Write
  <1>2. new.at = now'
    OBVIOUS
  <1> HIDE DEF new
  <1>3. /\ \A q \in Peers, y \in Paths : y # x => store'[q][y] = store[q][y]
        /\ latest'[x] = now' /\ \A y \in Paths : y # x => latest'[y] = latest[y]
    BY <1>1 DEF Inv1, DataOK, ClockOK
  <1>4. store'[p][x] = new /\ store'[p][x] # None
    <2>1. store'[p][x] = new
      BY <1>1 DEF Inv1, DataOK
    <2>2. new \in Record
      <3>1. /\ writes' \in 0..MaxWrites /\ now' \in Instant
            /\ writes' = writes + 1 /\ writes \in Nat
        BY SyncAssumption DEF Write, Inv1, ClockOK
      <3>2. store[p][x] # None => store[p][x] \in Record /\ store[p][x].rev <= writes
        BY DEF Inv1, DataOK, Sound
      <3>3. NextRevision(store[p][x]) \in 1..MaxWrites
        BY <3>1, <3>2, RecordFacts, SyncAssumption DEF NextRevision
      <3>4. (IF store[p][x] = None THEN p ELSE store[p][x].id) \in Peers
        BY <3>2, RecordFacts
      <3>5. QED
        BY <3>1, <3>3, <3>4 DEF new, Record
    <2>3. QED
      BY <2>1, <2>2, RecordFacts
  <1>5. Newest(store', latest')
    <2> SUFFICES ASSUME NEW y \in Paths, latest'[y] # 0
                 PROVE  \E q \in Peers : store'[q][y] # None /\ store'[q][y].at = latest'[y]
      BY DEF Newest
    <2>1. CASE y = x
      BY <2>1, <1>2, <1>3, <1>4
    <2>2. CASE y # x
      BY <2>2, <1>3 DEF Keeping, Newest
    <2>3. QED
      BY <2>1, <2>2
  <1>6. QED
    BY <1>1, <1>5, QuietFacts, IdleKept DEF Keeping

LEMMA BeginKeeping ==
    ASSUME Inv1, Quiet, Keeping, NEW p \in Peers, NEW q \in Peers \ {p},
           BeginSync(p, q) \/ (\E t \in Since : BeginPush(p, q, t)) \/ BeginPull(p, q)
    PROVE  Keeping'
  <1>0. store[p] \in [Paths -> Record \cup {None}]
    BY DEF Inv1, DataOK
  <1>1. PICK r : Begin(p, r) /\ SessionKept(store, work, p, r)
    <2>1. CASE BeginSync(p, q)
      BY <2>1 DEF BeginSync, SessionKept
    <2>2. ASSUME NEW t \in Since, BeginPush(p, q, t)
          PROVE  \E r : Begin(p, r) /\ SessionKept(store, work, p, r)
      <3> DEFINE D == ChangesSince(store[p], t)
                 r == [step |-> "push", peer |-> q, diffs |-> D, pull |-> {}, full |-> FALSE]
      <3>1. \A d \in D : store[p][d.path] # None /\ d = Update(d.path, store[p][d.path])
        BY <1>0, ChangesFacts, RecordFacts
      <3>2. Begin(p, r)
        BY <2>2 DEF BeginPush
      <3> HIDE DEF D
      <3>3. SessionKept(store, work, p, r)
        BY <3>1 DEF SessionKept
      <3>4. QED
        BY <3>2, <3>3
    <2>3. CASE BeginPull(p, q)
      BY <2>3 DEF BeginPull, SessionKept
    <2>4. QED
      BY <2>1, <2>2, <2>3
  <1>2. /\ session' = [session EXCEPT ![p] = r]
        /\ UNCHANGED <<store, work, latest>>
    BY <1>1 DEF Begin, SetStep
  <1>3. \A z \in Peers : (session'[z] = r /\ z = p) \/ session'[z] = session[z]
    BY <1>2 DEF Inv1, SessionOK
  <1>4. QED
    BY <1>1, <1>2, <1>3 DEF Keeping

(* A session goes on; stores and batches stay. *)
LEMMA SessionKeeping ==
    ASSUME Inv1, Keeping, NEW p \in Peers, NEW r, SetStep(p, r),
           UNCHANGED <<store, work, latest>>, SessionKept(store, work, p, r)
    PROVE  Keeping'
  <1>1. \A z \in Peers : (session'[z] = r /\ z = p) \/ session'[z] = session[z]
    BY DEF Inv1, SessionOK, SetStep
  <1>2. QED
    BY <1>1 DEF Keeping

LEMMA StepKeeping ==
    ASSUME Inv1, Keeping, NEW p \in Peers, PullManifest(p) \/ Collect(p) \/ Pushed(p)
    PROVE  Keeping'
  <1> DEFINE q == session[p].peer
  <1>0. /\ session[p] \in Session /\ SessionShape(writes, latest, p, session[p])
        /\ SessionKept(store, work, p, session[p])
        /\ \A z \in Peers : store[z] \in [Paths -> Record \cup {None}]
    BY DEF Inv1, SessionOK, DataOK, Keeping
  <1>1. UNCHANGED <<store, work, latest>>
    BY DEF PullManifest, Collect, Pushed
  <1>2. PICK r : SetStep(p, r) /\ SessionKept(store, work, p, r)
    <2>1. CASE PullManifest(p)
      <3> DEFINE remote == BuildManifest(store[q])
                 local == session[p].local
                 r == [step |-> "collect", peer |-> q, push |-> local \ remote,
                       pull |-> remote \ local]
      <3>1. SetStep(p, r) /\ local \subseteq BuildManifest(store[p])
        BY <1>0, <2>1 DEF PullManifest, SessionKept
      <3>2. SessionKept(store, work, p, r)
        BY <3>1 DEF SessionKept
      <3>3. QED
        BY <3>1, <3>2
    <2>2. CASE Collect(p)
      <3> DEFINE D == PushDiffs(store[p], session[p].push)
                 pull == session[p].pull
                 r == [step |-> "push", peer |-> q, diffs |-> D, pull |-> pull, full |-> TRUE]
      <3>1. /\ SetStep(p, r) /\ session[p].push \subseteq BuildManifest(store[p])
            /\ pull \subseteq BuildManifest(store[q]) /\ q \in Peers
        BY <1>0, <2>2, SessionKinds DEF Collect, SessionKept
      <3>2. \A d \in D : store[p][d.path] # None /\ d = Update(d.path, store[p][d.path])
        BY <1>0, <3>1, PushedKept
      <3>3. \A e \in pull : Held(store, p, q, e)
        BY <1>0, <3>1, ManifestFacts DEF Held
      <3> HIDE DEF D, pull, q
      <3>4. SessionKept(store, work, p, r)
        BY <3>2, <3>3 DEF SessionKept
      <3>5. QED
        BY <3>1, <3>4
    <2>3. CASE Pushed(p)
      <3> DEFINE u == [step |-> "pull", peer |-> q, pull |-> session[p].pull]
      <3>1. SetStep(p, IF session[p].full THEN u ELSE Idle)
        BY <2>3 DEF Pushed
      <3>2. \A e \in session[p].pull : Held(store, p, q, e)
        BY <1>0, <2>3 DEF Pushed, SessionKept
      <3> HIDE DEF q
      <3>3. SessionKept(store, work, p, u)
        BY <3>2 DEF SessionKept
      <3>4. QED
        BY <3>1, <3>3, IdleKept
    <2>4. QED
      BY <2>1, <2>2, <2>3
  <1>3. QED
    BY <1>0, <1>1, <1>2, SessionKeeping

LEMMA PushKeeping ==
    ASSUME Inv1, Alone, Keeping, NEW p \in Peers, Push(p)
    PROVE  Keeping'
  <1> DEFINE q == session[p].peer
             D == session[p].diffs
             r == [step |-> "pushing", peer |-> q, diffs |-> D, pull |-> session[p].pull,
                   full |-> session[p].full]
  <1>1. /\ q \in Peers \ {p} /\ D \in SUBSET Diff
        /\ work'[q]["push"] = Batch(D, D)
        /\ \A z \in Peers, u \in Sources : (z # q \/ u # "push") => work'[z][u] = NoWork
        /\ session'[p] = r
        /\ \A z \in Peers \ {p} : session'[z] = Idle
    BY PushAlone, Zenon
  <1>2. /\ session[p].step = "push" /\ SessionKept(store, work, p, session[p])
        /\ UNCHANGED <<store, latest>>
    BY DEF Push, Keeping
  <1>3. /\ \A d \in D : store[p][d.path] # None /\ d = Update(d.path, store[p][d.path])
        /\ \A e \in session[p].pull : Held(store, p, q, e)
    BY <1>2 DEF SessionKept
  <1>4. Batch(D, D).mirror = D
    BY <1>1, BatchFacts
  <1>5. SessionKept(store, work', p, r)
    <2> HIDE DEF q, D
    <2>1. /\ r.step = "pushing" /\ r.peer = q /\ r.diffs = D /\ r.pull = session[p].pull
      OBVIOUS
    <2> HIDE DEF r
    <2>2. QED
      BY <1>1, <1>3, <1>4, <2>1 DEF SessionKept
  <1>6. \A z \in Peers : SessionKept(store', work', z, session'[z])
    <2> HIDE DEF q, D, r
    <2>1. QED
      BY <1>1, <1>2, <1>5, IdleKept
  <1>7. ASSUME NEW d \in D PROVE Backed(store, q, d)
    <2>1. store[p][d.path] # None /\ d.action = "update"
      BY <1>3, <1>7 DEF Update
    <2>2. p \in Peers \ {q}
      BY <1>1
    <2>3. QED
      BY <2>1, <2>2 DEF Backed
  <1>8. \A z \in Peers, u \in Sources : \A d \in work'[z][u].mirror : Backed(store', z, d)
    <2> HIDE DEF q, D, r
    <2>1. QED
      BY <1>1, <1>2, <1>4, <1>7, IdleFacts
  <1>9. QED
    BY <1>2, <1>6, <1>8 DEF Keeping

LEMMA PullKeeping ==
    ASSUME Inv1, Alone, Keeping, NEW p \in Peers, Pull(p) \/ \E t \in Since : PullSince(p, t)
    PROVE  Keeping'
  <1> DEFINE q == session[p].peer
  <1>0. /\ session[p] \in Session /\ SessionShape(writes, latest, p, session[p])
        /\ SessionKept(store, work, p, session[p])
        /\ \A z \in Peers : store[z] \in [Paths -> Record \cup {None}]
    BY DEF Inv1, SessionOK, DataOK, Keeping
  <1>1. q \in Peers \ {p}
    BY <1>0 DEF SessionShape, Pull, PullSince
  <1>2. PICK D \in SUBSET Diff : Apply(p, D) /\ \A d \in D : Backed(store, p, d)
    <2>1. CASE Pull(p)
      <3> DEFINE E == session[p].pull
                 D == PushDiffs(store[q], E)
      <3>1. /\ E \in SUBSET Entry /\ OnePerPath(E)
            /\ \A e \in E : Held(store, p, q, e)
        BY <1>0, <2>1, SessionKinds DEF SessionShape, SessionKept, Pull
      <3>2. D \in SUBSET Diff /\ Apply(p, D)
        BY <1>0, <1>1, <2>1, <3>1, PushDiffsFacts DEF Pull
      <3>3. ASSUME NEW d \in D PROVE Backed(store, p, d)
        <4>1. PICK e \in E :
                  /\ e.path = d.path
                  /\ \/ store[q][d.path] \in Record /\ d = Update(d.path, store[q][d.path])
                     \/ ~(store[q][d.path] # None /\ ChunkHash(d.path, store[q][d.path]) = e)
          BY <1>0, <1>1, <3>1, <3>3, PushDiffsFacts
        <4>2. CASE store[q][d.path] \in Record /\ d = Update(d.path, store[q][d.path])
          <5>1. store[q][d.path] # None /\ d.action = "update"
            BY <4>2, RecordFacts DEF Update
          <5>2. QED
            BY <1>1, <5>1 DEF Backed
        <4>3. CASE ~(store[q][d.path] # None /\ ChunkHash(d.path, store[q][d.path]) = e)
          <5>1. /\ store[q][d.path] # None
                /\ store[p][d.path].at <= store[q][d.path].at
            BY <3>1, <4>1, <4>3 DEF Held
          <5>2. QED
            BY <1>1, <5>1 DEF Backed
        <4>4. QED
          BY <4>1, <4>2, <4>3
      <3> HIDE DEF D
      <3>4. QED
        BY <3>2, <3>3
    <2>2. ASSUME NEW t \in Since, PullSince(p, t)
          PROVE  \E D \in SUBSET Diff : Apply(p, D) /\ \A d \in D : Backed(store, p, d)
      <3> DEFINE D == ChangesSince(store[q], t)
      <3>1. D \in SUBSET Diff /\ Apply(p, D)
        BY <1>0, <1>1, <2>2, ChangesFacts DEF PullSince
      <3>2. ASSUME NEW d \in D PROVE Backed(store, p, d)
        <4>1. store[q][d.path] # None /\ d = Update(d.path, store[q][d.path])
          BY <1>0, <1>1, <3>2, ChangesFacts, RecordFacts
        <4>2. d.action = "update"
          BY <4>1 DEF Update
        <4>3. QED
          BY <1>1, <4>1, <4>2 DEF Backed
      <3> HIDE DEF D
      <3>3. QED
        BY <3>1, <3>2
    <2>3. QED
      BY <2>1, <2>2
  <1>3. /\ SetWork(p, "session", Batch(D, D)) /\ UNCHANGED <<store, latest>>
    BY <1>2 DEF Apply
  <1>4. /\ session[p] # Idle
        /\ \A z \in Peers, u \in Sources : work[z][u] = NoWork
    BY PullAlone, IdleFacts DEF Pull, PullSince
  <1>5. \A z \in Peers : session'[z] \in {Idle, Applying}
    BY <1>3, <1>4 DEF SetWork, Inv1, SessionOK, Alone
  <1>6. /\ work'[p]["session"] = Batch(D, D)
        /\ \A z \in Peers, u \in Sources : (z # p \/ u # "session") => work'[z][u] = NoWork
    BY <1>3, <1>4 DEF SetWork, Inv1, WorkOK, Sources
  <1>7. Batch(D, D).mirror = D
    BY BatchFacts
  <1>8. \A z \in Peers, u \in Sources : \A d \in work'[z][u].mirror : Backed(store', z, d)
    BY <1>2, <1>3, <1>6, <1>7, IdleFacts
  <1>9. \A z \in Peers : SessionKept(store', work', z, session'[z])
    BY <1>5, IdleKept
  <1>10. QED
    BY <1>3, <1>8, <1>9 DEF Keeping

(* A batch only gets smaller. *)
LEMMA MirrorShrinks ==
    ASSUME Inv1, NEW p \in Peers, NEW s \in Sources, ApplyOne(p, s)
    PROVE  work'[p][s].mirror \subseteq work[p][s].mirror
  <1>0. work[p][s].todo \in SUBSET Diff /\ work[p][s].mirror \in SUBSET Diff
    BY WorkKinds DEF Inv1, WorkOK
  <1>1. ASSUME NEW v, SetWork(p, s, v) PROVE work'[p][s] = v
    BY <1>1 DEF SetWork, Inv1, WorkOK
  <1>2. ASSUME NEW d \in work[p][s].todo, MergeNext(p, s, d)
        PROVE  work'[p][s].mirror \subseteq work[p][s].mirror
    BY <1>0, <1>1, <1>2, BatchFacts DEF MergeNext
  <1>3. CASE MergePut(p, s)
    BY <1>0, <1>1, <1>3, BatchFacts DEF MergePut
  <1>4. ASSUME NEW d \in work[p][s].mirror, MirrorNext(p, s, d)
        PROVE  work'[p][s].mirror \subseteq work[p][s].mirror
    BY <1>0, <1>1, <1>4, BatchFacts DEF MirrorNext
  <1>5. CASE MirrorUpsert(p, s)
    BY <1>0, <1>1, <1>5, BatchFacts DEF MirrorUpsert
  <1>6. QED
    BY <1>2, <1>3, <1>4, <1>5 DEF ApplyOne

(* One batch is being applied: it is enough to show what its step does to the *)
(* store of p, for the peer z that pushed it, for its changes and for the     *)
(* newest versions.                                                           *)
LEMMA ApplyKeeping ==
    ASSUME Inv1, Alone, Keeping, NEW p \in Peers, NEW s \in Sources, ApplyOne(p, s),
           \A q \in Peers \ {p} : \A y \in Paths : store'[q][y] = store[q][y],
           ASSUME NEW z \in Peers \ {p}, NEW e \in Entry, s = "push",
                  session[z].step = "pushing", session[z].peer = p,
                  e \in session[z].pull, Held(store, z, p, e)
           PROVE  Held(store', z, p, e),
           ASSUME NEW d \in work[p][s].mirror, d.action = "delete", d.path \in Paths,
                  store'[p][d.path] # None
           PROVE  store'[p][d.path] = store[p][d.path],
           Newest(store', latest)
    PROVE  Keeping'
  <1>1. /\ work[p][s] # NoWork /\ latest' = latest
        /\ \A q \in Peers, u \in Sources :
              (q # p \/ u # s) => work[q][u] = NoWork /\ work'[q][u] = NoWork
    BY ApplyAlone
  <1>2. PICK w : SetWork(p, s, w)
    BY ApplyAlone
  <1>3. ASSUME NEW q \in Peers, NEW u \in Sources, NEW d \in work'[q][u].mirror
        PROVE  Backed(store', q, d)
    <2>1. q = p /\ u = s
      BY <1>1, <1>3, IdleFacts
    <2>2. d \in work[p][s].mirror /\ d.path \in Paths
      BY <1>3, <2>1, MirrorShrinks, WorkKinds, DiffFacts DEF Inv1, WorkOK
    <2>3. PICK z \in Peers \ {p} :
              /\ store[z][d.path] # None
              /\ d.action = "delete" /\ store[p][d.path] # None =>
                    store[p][d.path].at <= store[z][d.path].at
      BY <2>2 DEF Keeping, Backed
    <2>4. store'[z][d.path] = store[z][d.path]
      BY <2>2
    <2>5. d.action = "delete" /\ store'[p][d.path] # None =>
             store'[p][d.path].at <= store'[z][d.path].at
      BY <2>2, <2>3, <2>4
    <2>6. QED
      BY <2>1, <2>3, <2>4, <2>5 DEF Backed
  <1>4. ASSUME NEW z \in Peers PROVE SessionKept(store', work', z, session'[z])
    <2>1. CASE s = "session"
      <3>1. session[p] = Applying /\ session[p] # Idle
        BY <1>1, <2>1, IdleFacts DEF Inv1, Linked
      <3>2. session'[z] \in {Idle, Applying}
        BY <1>2, <2>1, <3>1 DEF SetWork, Inv1, SessionOK, Alone
      <3>3. QED
        BY <3>2, IdleKept
    <2>2. CASE s = "push" /\ session[z] = Idle
      BY <1>2, <2>2, IdleKept DEF SetWork
    <2>3. CASE s = "push" /\ session[z] # Idle
      <3> DEFINE r == session[z]
      <3>1. session'[z] = r /\ r.step = "pushing" /\ r.peer = p
        BY <1>1, <1>2, <2>3 DEF SetWork, Alone
      <3>2. /\ r \in Session /\ SessionShape(writes, latest, z, r)
            /\ SessionKept(store, work, z, r) /\ z \in Peers \ {p}
        BY <3>1 DEF Inv1, SessionOK, Keeping, SessionShape
      <3>3. \A d \in r.diffs : /\ d.path \in Paths /\ store[z][d.path] # None
                               /\ d = Update(d.path, store[z][d.path])
        BY <3>1, <3>2, SessionKinds, DiffFacts DEF SessionKept
      <3>4. \A d \in r.diffs : store'[z][d.path] # None /\ d = Update(d.path, store'[z][d.path])
        BY <3>2, <3>3
      <3>5. \A e \in r.pull : e \in Entry /\ Held(store, z, p, e)
        BY <3>1, <3>2, SessionKinds DEF SessionKept
      <3>6. \A e \in r.pull : Held(store', z, p, e)
        BY <2>3, <3>1, <3>2, <3>5
      <3>7. work'[p]["push"].mirror \subseteq r.diffs
        BY <2>3, <3>1, <3>2, MirrorShrinks DEF SessionKept
      <3> HIDE DEF r
      <3>8. QED
        BY <3>1, <3>4, <3>6, <3>7 DEF SessionKept
    <2>4. QED
      BY <2>1, <2>2, <2>3 DEF Sources
  <1>5. QED
    BY <1>1, <1>3, <1>4 DEF Keeping

LEMMA MergeNextKeeping ==
    ASSUME Inv1, Alone, Keeping, NEW p \in Peers, NEW s \in Sources,
           NEW d \in work[p][s].todo, MergeNext(p, s, d)
    PROVE  Keeping'
  <1>0. /\ d \in work[p][s].mirror /\ d \in Diff /\ d.path \in Paths
        /\ Backed(store, p, d) /\ ApplyOne(p, s)
    BY WorkKinds, DiffFacts DEF Inv1, WorkOK, WorkShape, Keeping, ApplyOne
  <1>1. CASE d.action = "update" /\ UNCHANGED store
    <2>1. Newest(store', latest)
      BY <1>1 DEF Keeping
    <2>2. QED
      BY <1>0, <1>1, <2>1, ApplyKeeping
  <1>2. CASE d.action = "delete" /\ store' = [store EXCEPT ![p][d.path] = None]
    <2> DEFINE x == d.path
    <2>1. /\ store'[p][x] = None
          /\ \A q \in Peers, y \in Paths : (q # p \/ y # x) => store'[q][y] = store[q][y]
      <3>1. x \in Paths /\ store' = [store EXCEPT ![p][x] = None]
        BY <1>0, <1>2
      <3> HIDE DEF x
      <3>2. QED
        BY <3>1, DeleteKeeps
    <2>2. Newest(store', latest)
      <3> SUFFICES ASSUME NEW y \in Paths, latest[y] # 0
                   PROVE  \E q \in Peers : store'[q][y] # None /\ store'[q][y].at = latest[y]
        BY DEF Newest
      <3>1. PICK q \in Peers : store[q][y] # None /\ store[q][y].at = latest[y]
        BY DEF Keeping, Newest
      <3>2. CASE q # p \/ y # x
        BY <2>1, <3>1, <3>2
      <3>3. CASE q = p /\ y = x
        <4>1. PICK u \in Peers \ {p} :
                  store[u][x] # None /\ store[p][x].at <= store[u][x].at
          BY <1>0, <1>2, <3>1, <3>3 DEF Backed
        <4>2. /\ store[u][x] \in Record /\ store[u][x].at <= latest[x]
              /\ store[u][x].at \in Nat /\ latest[x] \in Nat
          BY <1>0, <4>1, RecordFacts, SyncAssumption
             DEF Inv1, DataOK, ClockOK, Sound, Instant
        <4>3. store[u][x].at = latest[x]
          BY <3>1, <3>3, <4>1, <4>2
        <4>4. store'[u][x] = store[u][x]
          BY <1>0, <2>1, <4>1
        <4>5. QED
          BY <3>3, <4>1, <4>3, <4>4
      <3>4. QED
        BY <3>2, <3>3
    <2>3. ASSUME s = "push", NEW z \in Peers \ {p}, session[z].step = "pushing",
                 session[z].peer = p
          PROVE  FALSE
      <3>1. d \in session[z].diffs
        BY <1>0, <2>3 DEF Keeping, SessionKept
      <3>2. d = Update(d.path, store[z][d.path])
        BY <2>3, <3>1 DEF Keeping, SessionKept
      <3>3. QED
        BY <1>2, <3>2 DEF Update
    <2>4. ASSUME NEW e \in work[p][s].mirror, e.path \in Paths, store'[p][e.path] # None
          PROVE  store'[p][e.path] = store[p][e.path]
      BY <2>1, <2>4
    <2> HIDE DEF x
    <2>5. QED
      BY <1>0, <2>1, <2>2, <2>3, <2>4, ApplyKeeping
  <1>3. QED
    BY <1>1, <1>2 DEF MergeNext

LEMMA MergePutKeeping ==
    ASSUME Inv1, Inv1', Alone, Fresh, Keeping, NEW p \in Peers, NEW s \in Sources, MergePut(p, s)
    PROVE  Keeping'
  <1> DEFINE d == work[p][s].diff
             x == work[p][s].diff.path
  <1>0. /\ d \in work[p][s].mirror /\ d.action = "update" /\ OnePerPath(work[p][s].mirror)
        /\ Backed(store, p, d) /\ ApplyOne(p, s) /\ latest' = latest
    BY DEF Inv1, WorkOK, WorkShape, Keeping, ApplyOne, MergePut
  <1>1. /\ x \in Paths /\ d.record \in Record
        /\ \A q \in Peers, y \in Paths : (q # p \/ y # x) => store'[q][y] = store[q][y]
        /\ store'[p][x] \in Record
        /\ store[p][x] # None => store[p][x].at <= store'[p][x].at
        /\ store' = store \/ store'[p][x].at = d.record.at
    BY PutKeeps
  <1> HIDE DEF x
  <1>2. Newest(store', latest)
    <2> SUFFICES ASSUME NEW y \in Paths, latest[y] # 0
                 PROVE  \E q \in Peers : store'[q][y] # None /\ store'[q][y].at = latest[y]
      BY DEF Newest
    <2>1. PICK q \in Peers : store[q][y] # None /\ store[q][y].at = latest[y]
      BY DEF Keeping, Newest
    <2>2. CASE q # p \/ y # x
      BY <1>1, <2>1, <2>2
    <2>3. CASE q = p /\ y = x
      <3>1. /\ store'[p][x].at <= latest[x] /\ store'[p][x].at \in Nat /\ latest[x] \in Nat
            /\ store'[p][x] # None
        BY <1>0, <1>1, RecordFacts, SyncAssumption DEF Inv1, DataOK, ClockOK, Sound, Instant
      <3>2. store'[p][x].at = latest[x]
        BY <1>1, <2>1, <2>3, <3>1
      <3>3. QED
        BY <2>3, <3>1, <3>2
    <2>4. QED
      BY <2>2, <2>3
  <1>3. ASSUME NEW z \in Peers \ {p}, NEW e \in Entry, s = "push",
               session[z].step = "pushing", session[z].peer = p,
               e \in session[z].pull, Held(store, z, p, e)
        PROVE  Held(store', z, p, e)
    <2>1. d \in session[z].diffs
      BY <1>0, <1>3 DEF Keeping, SessionKept
    <2>2. d = Update(x, store[z][x]) /\ store[z][x] # None
      BY <1>3, <2>1 DEF Keeping, SessionKept, x
    <2>3. d.record = store[z][x]
      BY <2>2 DEF Update
    <2>4. e.path \in Paths /\ store'[z][e.path] = store[z][e.path]
      BY <1>1, <1>3 DEF Entry
    <2>5. CASE store' = store
      BY <1>3, <2>5
    <2>6. CASE e.path # x
      <3>1. store'[p][e.path] = store[p][e.path]
        BY <1>1, <2>4, <2>6
      <3>2. QED
        BY <1>3, <2>4, <3>1 DEF Held
    <2>7. CASE e.path = x /\ store'[p][x].at = d.record.at
      <3>1. /\ store'[z][x] # None /\ store'[p][x] # None
            /\ store'[z][x].at <= store'[p][x].at
        BY <1>1, <2>2, <2>3, <2>4, <2>7, RecordFacts
      <3>2. QED
        BY <2>7, <3>1 DEF Held
    <2>8. QED
      BY <1>1, <2>5, <2>6, <2>7
  <1>4. ASSUME NEW e \in work[p][s].mirror, e.action = "delete", e.path \in Paths
        PROVE  store'[p][e.path] = store[p][e.path]
    <2>1. e.path # x
      BY <1>0, <1>4 DEF OnePerPath, x
    <2>2. QED
      BY <1>1, <1>4, <2>1
  <1> HIDE DEF d
  <1>5. QED
    BY <1>0, <1>1, <1>2, <1>3, <1>4, ApplyKeeping

LEMMA MirrorKeeping ==
    ASSUME Inv1, Alone, Keeping, NEW p \in Peers, NEW s \in Sources,
           (\E d \in work[p][s].mirror : MirrorNext(p, s, d)) \/ MirrorUpsert(p, s)
    PROVE  Keeping'
  <1>1. ApplyOne(p, s) /\ store' = store
    BY DEF ApplyOne, MirrorNext, MirrorUpsert
  <1>2. Newest(store', latest)
    BY <1>1 DEF Keeping
  <1>3. QED
    BY <1>1, <1>2, ApplyKeeping

LEMMA EndKeeping ==
    ASSUME Inv1, Keeping, UNCHANGED <<store, latest>>,
           \A q \in Peers : session'[q] \in {Idle, session[q]},
           \A q \in Peers, u \in Sources : work'[q][u] \in {NoWork, work[q][u]}
    PROVE  Keeping'
  <1>1. ASSUME NEW q \in Peers, NEW u \in Sources
        PROVE  work'[q][u].mirror \subseteq work[q][u].mirror
    BY <1>1, IdleFacts
  <1>2. ASSUME NEW p \in Peers PROVE SessionKept(store', work', p, session'[p])
    <2>1. CASE session'[p] = Idle
      BY <2>1, IdleKept
    <2>2. CASE session'[p] = session[p]
      <3> DEFINE r == session[p]
      <3>1. SessionKept(store, work, p, r) /\ r \in Session
        BY DEF Keeping, Inv1, SessionOK
      <3>2. r.step = "pushing" => work'[r.peer]["push"].mirror \subseteq r.diffs
        BY <1>1, <3>1, SessionKinds DEF SessionKept, Sources
      <3> HIDE DEF r
      <3>3. SessionKept(store, work', p, r)
        BY <3>1, <3>2 DEF SessionKept
      <3>4. QED
        BY <2>2, <3>3 DEF r
    <2>3. QED
      BY <2>1, <2>2
  <1>3. QED
    BY <1>1, <1>2 DEF Keeping

LEMMA NextKeeping == Inv4 /\ [Next]_vars => Inv4'
  <1> SUFFICES ASSUME Inv4, [Next]_vars, ~overlapped', deletes' = 0
               PROVE  Keeping'
    BY NextAlone DEF Inv4
  <1>0. Inv1 /\ Inv1'
    BY NextShape DEF Inv4, Inv2
  <1>1. CASE UNCHANGED vars
    BY <1>1 DEF vars, Inv4, Keeping
  <1>2. ASSUME NEW p \in Peers, Steps(p) PROVE Keeping'
    <2>0. ASSUME ~overlapped, deletes = 0 PROVE Alone /\ Fresh /\ Keeping
      BY <2>0 DEF Inv4, Inv2
    <2>1. ASSUME NEW x \in Paths, Write(p, x) PROVE Keeping'
      <3>1. ~overlapped /\ Quiet /\ deletes = 0
        BY <1>0, <2>1, UserQuiet DEF Write
      <3>2. QED
        BY <1>0, <2>0, <2>1, <3>1, WriteKeeping
    <2>2. ASSUME NEW x \in Paths, DeleteRecord(p, x) PROVE FALSE
      BY <1>0, <2>2 DEF DeleteRecord, Inv1, ClockOK
    <2>3. ASSUME NEW q \in Peers \ {p},
                 BeginSync(p, q) \/ (\E t \in Since : BeginPush(p, q, t)) \/ BeginPull(p, q)
          PROVE  Keeping'
      <3>1. PICK r : Begin(p, r)
        BY <2>3, BeginFacts
      <3>2. ~overlapped /\ Quiet /\ deletes = 0
        BY <1>0, <3>1, UserQuiet DEF Begin
      <3>3. QED
        BY <1>0, <2>0, <2>3, <3>2, BeginKeeping
    <2>4. CASE PullManifest(p) \/ Collect(p) \/ Pushed(p)
      <3>1. ~overlapped /\ deletes = 0
        BY <2>4 DEF PullManifest, Collect, Pushed, counters
      <3>2. QED
        BY <1>0, <2>0, <2>4, <3>1, StepKeeping
    <2>5. CASE Push(p)
      <3>1. ~overlapped /\ deletes = 0
        BY <2>5 DEF Push, counters
      <3>2. QED
        BY <1>0, <2>0, <2>5, <3>1, PushKeeping
    <2>6. CASE Pull(p) \/ \E t \in Since : PullSince(p, t)
      <3>1. ~overlapped /\ deletes = 0
        BY <2>6 DEF Pull, PullSince, Apply, counters
      <3>2. QED
        BY <1>0, <2>0, <2>6, <3>1, PullKeeping
    <2>7. ASSUME NEW s \in Sources, ApplyOne(p, s) PROVE Keeping'
      <3>1. ~overlapped /\ deletes = 0
        <4>1. UNCHANGED <<counters, overlapped>>
          BY <2>7 DEF ApplyOne, MergeNext, MergePut, MirrorNext, MirrorUpsert
        <4>2. QED
          BY <4>1 DEF counters
      <3>2. QED
        BY <1>0, <2>0, <2>7, <3>1, MergeNextKeeping, MergePutKeeping, MirrorKeeping DEF ApplyOne
    <2>8. CASE SessionFails(p) \/ (\E s \in Sources : ApplyFails(p, s)) \/ Restart(p)
      <3>1. /\ ~overlapped /\ deletes = 0 /\ UNCHANGED <<store, latest>>
            /\ \A q \in Peers : session'[q] \in {Idle, session[q]}
            /\ \A q \in Peers, u \in Sources : work'[q][u] \in {NoWork, work[q][u]}
        BY <1>0, <2>8, FailsEnd
      <3>2. QED
        BY <1>0, <2>0, <3>1, EndKeeping
    <2>9. QED
      BY <1>2, <2>1, <2>2, <2>3, <2>4, <2>5, <2>6, <2>7, <2>8, Zenon DEF Steps, ApplyOne
  <1>3. QED
    BY <1>1, <1>2, NextSteps, Zenon

LEMMA InitKeeping == Init => Inv4
  <1> SUFFICES ASSUME Init PROVE Keeping
    BY InitAlone DEF Inv4
  <1>1. /\ \A p \in Peers : session[p] = Idle
        /\ \A p \in Peers, s \in Sources : work[p][s] = NoWork
        /\ \A x \in Paths : latest[x] = 0
    BY DEF Init
  <1>2. QED
    BY <1>1, IdleKept, IdleFacts DEF Keeping, Newest

(* Without overlaps and deletions by the user, the last version of every path *)
(* that was ever written stays in some store, whatever fails: a session       *)
(* deletes a copy, for an outdated entry, only while another peer holds one   *)
(* that is no older (NewestSurvives).                                         *)
THEOREM NewestIsKept == Spec => []NewestSurvives
  <1>1. Inv4 => NewestSurvives
    BY DEF Inv4, Keeping, Newest, NewestSurvives
  <1>2. QED
    BY <1>1, InitKeeping, NextKeeping, PTL DEF Spec
=============================================================================
