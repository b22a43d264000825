------------------------------ MODULE MemorySync ------------------------------
(***************************************************************************)
(* Synchronisation of the memory stores of peers (src/memory/sync): the    *)
(* background session sync_with, the one-shot push_to and pull_from, the   *)
(* handlers that serve them on the other peer, the last-writer-wins merge  *)
(* and the mirroring of what was merged into the search index.             *)
(*                                                                         *)
(* One action is one request, one look-up or one statement of a store: all *)
(* of them are awaited, so anything may happen between two.  A manifest    *)
(* entry is the tuple its hash is computed from.  A call of the user is    *)
(* one step here (QmdMemory has its statements), and the ceilings of the   *)
(* peers admit every record; a refused batch is one of the failures.       *)
(***************************************************************************)
EXTENDS Naturals, FiniteSets

CONSTANTS
    Peers,
    Loopers,     \* the peers that run sync_loop; every peer serves the others
    Rank,        \* the order of the identifiers that peers give to new records
    Paths,
    None,        \* no record
    Since,       \* the times that callers of push_to and pull_from ask for
    PerSecond,   \* instants per second: a hash has the second, a record the instant
    MaxWrites,   \* bound on the user's writes
    MaxEvents    \* bound on deletions, on calls of push_to and pull_from, on failed
                 \* requests and statements and on restarts, together

ASSUME SyncAssumption ==
    /\ Loopers \subseteq Peers
    /\ Rank \in [Peers -> Nat]
    /\ Since \subseteq Nat /\ PerSecond \in Nat \ {0}
    /\ MaxWrites \in Nat /\ MaxEvents \in Nat

(* The clock starts at 1 and moves with writes only: no record is of instant 0. *)
Instant == 0..(MaxWrites + 1)
Record == [rev : 1..MaxWrites, at : Instant, id : Peers]
ASSUME NoneAssumption == None \notin Record

VARIABLES
    store,     \* per peer and path: the record, or None
    index,     \* per peer and path: the document of the search index, or None
    session,   \* per peer: the session it runs
    work,      \* per peer and source: the received changes it is applying
    now,       \* the time
    latest,    \* per path: when it was last written, 0 if nobody ever wrote it
    writes, deletes, calls, failures,
    overlapped \* whether anything else ran while a session did

(* One more of the events that MaxEvents bounds may happen. *)
MayHappen == deletes + calls + failures < MaxEvents

counters == <<writes, deletes, calls, failures>>
vars == <<store, index, session, work, now, latest, writes, deletes, calls, failures,
          overlapped>>

-----------------------------------------------------------------------------
(* Manifests and differences. *)

ChunkHash(x, r) == [path |-> x, rev |-> r.rev, sec |-> r.at \div PerSecond]

Entry == [path : Paths, rev : 1..MaxWrites, sec : Instant]

BuildManifest(s) == {ChunkHash(x, s[x]) : x \in {y \in Paths : s[y] # None}}

Update(x, r) == [action |-> "update", path |-> x, record |-> r]
Delete(x) == [action |-> "delete", path |-> x]
Diff == [action : {"update"}, path : Paths, record : Record]
           \cup [action : {"delete"}, path : Paths]

(* Faulty variant: the instant of the record is compared with the second of   *)
(* its entry.                                                                 *)
PushDiffs_Instant(s, entries) ==
    {IF s[e.path] # None /\ s[e.path].rev = e.rev /\ s[e.path].at = e.sec
     THEN Update(e.path, s[e.path]) ELSE Delete(e.path) : e \in entries}

(* entries_as_push_diffs: a record that is no longer what its entry says is   *)
(* sent as a deletion of its path.                                            *)
PushDiffs(s, entries) ==
    {IF s[e.path] # None /\ ChunkHash(e.path, s[e.path]) = e
     THEN Update(e.path, s[e.path]) ELSE Delete(e.path) : e \in entries}

(* collect_changes_since *)
ChangesSince(s, t) ==
    {Update(x, s[x]) : x \in {y \in Paths : s[y] # None /\ s[y].at > t}}

(* Faulty variant: the revision decides. *)
Wins_Revision(incoming, local) == incoming.rev > local.rev

(* Faulty variant: what arrives wins. *)
Wins_Always(incoming, local) == TRUE

(* apply_changes_received: last writer wins, the greater identifier on a tie. *)
(* lww_node_id prefers a node_id in the metadata of the record, which nothing *)
(* here sets when it writes one.                                              *)
Wins(incoming, local) ==
    \/ incoming.at > local.at
    \/ incoming.at = local.at /\ Rank[incoming.id] > Rank[local.id]

-----------------------------------------------------------------------------
(* The sessions and the changes being applied. *)

Idle == [step |-> "idle"]
Applying == [step |-> "apply"]
Session ==
    {Idle} \cup [step : {"manifest"}, peer : Peers, local : SUBSET Entry]
           \cup [step : {"collect"}, peer : Peers, push : SUBSET Entry, pull : SUBSET Entry]
           \cup [step : {"push", "pushing"}, peer : Peers, diffs : SUBSET Diff,
                 pull : SUBSET Entry, full : BOOLEAN]
           \cup [step : {"pull"}, peer : Peers, pull : SUBSET Entry]
           \cup [step : {"since"}, peer : Peers]
           \cup {Applying}

(* The changes that p received in its own session, or from another peer's push. *)
Sources == {"session", "push"}
NoWork == [step |-> "none", todo |-> {}, mirror |-> {}]
Work == {NoWork} \cup [step : {"merge"}, todo : SUBSET Diff, mirror : SUBSET Diff]
                 \cup [step : {"put"}, todo : SUBSET Diff, mirror : SUBSET Diff,
                       diff : Diff, local : Record \cup {None}]
                 \cup [step : {"upsert"}, todo : SUBSET Diff, mirror : SUBSET Diff,
                       path : Paths, doc : Record]

(* A batch still has something to merge or to mirror, or it is done. *)
Batch(todo, mirror) == IF todo \cup mirror = {} THEN NoWork
                       ELSE [step |-> "merge", todo |-> todo, mirror |-> mirror]

Quiet == /\ \A p \in Peers : session[p] = Idle
         /\ \A p \in Peers, s \in Sources : work[p][s] = NoWork

SetStep(p, r) == session' = [session EXCEPT ![p] = r]

-----------------------------------------------------------------------------
(* The user. *)

(* Faulty variant: revisions start at nothing. *)
NextRevision_Zero(old) == IF old = None THEN 0 ELSE old.rev + 1

(* revisioned_record *)
NextRevision(old) == IF old = None THEN 1 ELSE old.rev + 1

(* add or update: time passes between two versions of a record, but may not   *)
(* between writes of two peers.                                               *)
Write(p, x) ==
    /\ writes < MaxWrites
    /\ writes' = writes + 1
    /\ now' \in {now, now + 1}
    /\ store[p][x] # None => now' > store[p][x].at
    /\ LET old == store[p][x]
           new == [rev |-> NextRevision(old), at |-> now',
                   id |-> IF old = None THEN p ELSE old.id]
       IN /\ store' = [store EXCEPT ![p][x] = new]
          /\ index' = [index EXCEPT ![p][x] = new]
    /\ latest' = [latest EXCEPT ![x] = now']
    /\ overlapped' = (overlapped \/ ~Quiet)
    /\ UNCHANGED <<session, work, deletes, calls, failures>>

DeleteRecord(p, x) ==
    /\ MayHappen
    /\ store[p][x] # None
    /\ deletes' = deletes + 1
    /\ store' = [store EXCEPT ![p][x] = None]
    /\ index' = [index EXCEPT ![p][x] = None]
    /\ overlapped' = (overlapped \/ ~Quiet)
    /\ UNCHANGED <<session, work, now, latest, writes, calls, failures>>

-----------------------------------------------------------------------------
(* sync_with, push_to and pull_from. *)

Begin(p, r) ==
    /\ session[p] = Idle
    /\ SetStep(p, r)
    /\ overlapped' = (overlapped \/ ~Quiet)
    /\ UNCHANGED <<store, index, work, now, latest, writes, deletes, failures>>

(* The loop: the local manifest. *)
BeginSync(p, q) ==
    /\ p \in Loopers
    /\ Begin(p, [step |-> "manifest", peer |-> q, local |-> BuildManifest(store[p])])
    /\ UNCHANGED calls

BeginPush(p, q, t) ==
    /\ MayHappen /\ calls' = calls + 1
    /\ Begin(p, [step |-> "push", peer |-> q, diffs |-> ChangesSince(store[p], t),
                 pull |-> {}, full |-> FALSE])

BeginPull(p, q) ==
    /\ MayHappen /\ calls' = calls + 1
    /\ Begin(p, [step |-> "since", peer |-> q])

(* The peer's manifest arrives and is compared. *)
PullManifest(p) ==
    /\ session[p].step = "manifest"
    /\ LET remote == BuildManifest(store[session[p].peer])
           local == session[p].local
       IN SetStep(p, [step |-> "collect", peer |-> session[p].peer,
                      push |-> local \ remote, pull |-> remote \ local])
    /\ UNCHANGED <<store, index, work, now, latest, counters, overlapped>>

Collect(p) ==
    /\ session[p].step = "collect"
    /\ SetStep(p, [step |-> "push", peer |-> session[p].peer,
                   diffs |-> PushDiffs(store[p], session[p].push),
                   pull |-> session[p].pull, full |-> TRUE])
    /\ UNCHANGED <<store, index, work, now, latest, counters, overlapped>>

(* The request reaches the peer, whose handler starts to apply it. *)
Push(p) ==
    /\ session[p].step = "push"
    /\ LET q == session[p].peer
       IN /\ work[q]["push"] = NoWork
          /\ work' = [work EXCEPT ![q]["push"] = Batch(session[p].diffs, session[p].diffs)]
          /\ SetStep(p, [session[p] EXCEPT !.step = "pushing"])
    /\ UNCHANGED <<store, index, now, latest, counters, overlapped>>

(* The peer answers: a session goes on with what it wants, push_to is done. *)
Pushed(p) ==
    /\ session[p].step = "pushing"
    /\ work[session[p].peer]["push"] = NoWork
    /\ SetStep(p, IF session[p].full
                  THEN [step |-> "pull", peer |-> session[p].peer, pull |-> session[p].pull]
                  ELSE Idle)
    /\ UNCHANGED <<store, index, work, now, latest, counters, overlapped>>

(* The work of p on a batch; with the end of its own batch its session ends. *)
SetWork(p, s, w) ==
    /\ work' = [work EXCEPT ![p][s] = w]
    /\ session' = IF s = "session"
                  THEN [session EXCEPT ![p] = IF w = NoWork THEN Idle ELSE Applying]
                  ELSE session

Apply(p, diffs) ==
    /\ SetWork(p, "session", Batch(diffs, diffs))
    /\ UNCHANGED <<store, index, now, latest, counters, overlapped>>

Pull(p) ==
    /\ session[p].step = "pull"
    /\ Apply(p, PushDiffs(store[session[p].peer], session[p].pull))

PullSince(p, t) ==
    /\ session[p].step = "since"
    /\ Apply(p, ChangesSince(store[session[p].peer], t))

-----------------------------------------------------------------------------
(* apply_changes_received and index_applied_changes, at peer p. *)

(* The next change: a deletion is applied, an update looks the record up. *)
MergeNext(p, s, d) ==
    /\ work[p][s].step = "merge"
    /\ d \in work[p][s].todo
    /\ LET todo == work[p][s].todo \ {d}
           mirror == work[p][s].mirror
       IN \/ /\ d.action = "delete"
             /\ store' = [store EXCEPT ![p][d.path] = None]
             /\ SetWork(p, s, Batch(todo, mirror))
          \/ /\ d.action = "update"
             /\ SetWork(p, s, [step |-> "put", todo |-> todo, mirror |-> mirror,
                               diff |-> d, local |-> store[p][d.path]])
             /\ UNCHANGED store
    /\ UNCHANGED <<index, now, latest, counters, overlapped>>

(* It is put, under the identifier of the record it replaces, if it wins. *)
MergePut(p, s) ==
    /\ work[p][s].step = "put"
    /\ LET d == work[p][s].diff
           local == work[p][s].local
       IN store' = CASE local = None -> [store EXCEPT ![p][d.path] = d.record]
                     [] local # None /\ Wins(d.record, local) ->
                           [store EXCEPT ![p][d.path] = [d.record EXCEPT !.id = local.id]]
                     [] OTHER -> store
    /\ SetWork(p, s, Batch(work[p][s].todo, work[p][s].mirror))
    /\ UNCHANGED <<index, now, latest, counters, overlapped>>

(* Faulty variant: the index takes what was received. *)
Indexed_Received(p, d) == d.record

(* The record that the store now holds, because the local one may have won. *)
Indexed(p, d) == store[p][d.path]

(* Everything is in the store; the next change goes into the index. *)
MirrorNext(p, s, d) ==
    /\ work[p][s].step = "merge"
    /\ work[p][s].todo = {}
    /\ d \in work[p][s].mirror
    /\ LET mirror == work[p][s].mirror \ {d}
       IN IF d.action = "update" /\ Indexed(p, d) # None
          THEN /\ SetWork(p, s, [step |-> "upsert", todo |-> {}, mirror |-> mirror,
                                 path |-> d.path, doc |-> Indexed(p, d)])
               /\ UNCHANGED index
          ELSE /\ SetWork(p, s, Batch({}, mirror))
               /\ index' = IF d.action = "delete"
                           THEN [index EXCEPT ![p][d.path] = None] ELSE index
    /\ UNCHANGED <<store, now, latest, counters, overlapped>>

(* index_upsert, after the embedding has been awaited. *)
MirrorUpsert(p, s) ==
    /\ work[p][s].step = "upsert"
    /\ index' = [index EXCEPT ![p][work[p][s].path] = work[p][s].doc]
    /\ SetWork(p, s, Batch({}, work[p][s].mirror))
    /\ UNCHANGED <<store, now, latest, counters, overlapped>>

ApplyStep(p, s) ==
    \/ \E d \in work[p][s].todo : MergeNext(p, s, d)
    \/ MergePut(p, s)
    \/ \E d \in work[p][s].mirror : MirrorNext(p, s, d)
    \/ MirrorUpsert(p, s)

-----------------------------------------------------------------------------
(* Failures. *)

Fails ==
    /\ MayHappen
    /\ failures' = failures + 1
    /\ UNCHANGED <<store, now, latest, writes, deletes, calls, overlapped>>

(* A request is refused, lost or times out, or a batch is refused: the        *)
(* session ends.  The handler of a push that timed out goes on.               *)
SessionFails(p) ==
    /\ Fails
    /\ session[p].step \notin {"idle", "apply"}
    /\ SetStep(p, Idle)
    /\ UNCHANGED <<index, work>>

(* A statement fails, or the handler of a closed connection is dropped: what  *)
(* is left of the batch is neither merged nor mirrored, and push ends.        *)
ApplyFails(p, s) ==
    /\ Fails
    /\ work[p][s] # NoWork
    /\ work' = [work EXCEPT ![p][s] = NoWork]
    /\ session' = [q \in Peers |->
                      IF CASE s = "push" -> session[q].step = "pushing" /\ session[q].peer = p
                           [] s = "session" -> q = p
                      THEN Idle ELSE session[q]]
    /\ UNCHANGED index

(* A peer stops and starts again; its index is loaded from its store. *)
Restart(p) ==
    /\ Fails
    /\ work' = [work EXCEPT ![p] = [s \in Sources |-> NoWork]]
    /\ index' = [index EXCEPT ![p] = store[p]]
    /\ session' = [q \in Peers |->
                      IF q = p \/ (session[q].step = "pushing" /\ session[q].peer = p)
                      THEN Idle ELSE session[q]]

Init ==
    /\ store = [p \in Peers |-> [x \in Paths |-> None]]
    /\ index = [p \in Peers |-> [x \in Paths |-> None]]
    /\ session = [p \in Peers |-> Idle]
    /\ work = [p \in Peers |-> [s \in Sources |-> NoWork]]
    /\ now = 1
    /\ latest = [x \in Paths |-> 0]
    /\ writes = 0 /\ deletes = 0 /\ calls = 0 /\ failures = 0
    /\ overlapped = FALSE

SessionStep(p) ==
    \/ \E q \in Peers \ {p} : BeginSync(p, q)
    \/ PullManifest(p) \/ Collect(p) \/ Push(p) \/ Pushed(p) \/ Pull(p)
    \/ \E t \in Since : PullSince(p, t)

Next ==
    \E p \in Peers :
       \/ \E x \in Paths : Write(p, x) \/ DeleteRecord(p, x)
       \/ \E q \in Peers \ {p} : (\E t \in Since : BeginPush(p, q, t)) \/ BeginPull(p, q)
       \/ SessionStep(p)
       \/ \E s \in Sources : ApplyStep(p, s) \/ ApplyFails(p, s)
       \/ SessionFails(p)
       \/ Restart(p)

Spec == Init /\ [][Next]_vars

(* The loop of every peer runs again and again, and a request that is being   *)
(* served or applied is served to its end unless it fails.                    *)
FairSpec ==
    /\ Spec
    /\ \A p \in Peers : WF_vars(SessionStep(p))
    /\ \A p \in Peers, s \in Sources : WF_vars(ApplyStep(p, s))

-----------------------------------------------------------------------------
(* Properties. *)

(* Every variable has its type, a revision is never 0, and a peer has changes *)
(* of its own session left exactly while that session applies them.           *)
TypeOK ==
    /\ store \in [Peers -> [Paths -> Record \cup {None}]]
    /\ index \in [Peers -> [Paths -> Record \cup {None}]]
    /\ \A p \in Peers : session[p] \in Session
    /\ \A p \in Peers, s \in Sources : work[p][s] \in Work
    /\ now \in Instant
    /\ latest \in [Paths -> Instant]
    /\ writes \in 0..MaxWrites
    /\ deletes \in Nat /\ calls \in Nat /\ failures \in Nat
    /\ deletes + calls + failures <= MaxEvents
    /\ overlapped \in BOOLEAN
    /\ \A p \in Peers : work[p]["session"] # NoWork <=> session[p] = Applying

(* Without overlaps and deletions by the user, the last version of every path *)
(* that anybody ever wrote is in the store of some peer: no session removes   *)
(* its last copy, whatever requests or statements fail (mod.rs, sync_with;    *)
(* push_pull.rs, entries_as_push_diffs; merge.rs, rule 1).                    *)
NewestSurvives ==
    (~overlapped /\ deletes = 0) =>
        \A x \in Paths : latest[x] # 0 =>
            \E p \in Peers : store[p][x] # None /\ store[p][x].at = latest[x]

(* Without overlaps, a session never replaces a record by an older one        *)
(* (merge.rs, apply_changes_received).                                        *)
NoStaleOverwrite ==
    [][~overlapped' => \A p \in Peers, x \in Paths :
          (store[p][x] # None /\ store'[p][x] # None) => store'[p][x].at >= store[p][x].at]_vars

(* Without overlaps and failures, the search index of a peer that is not      *)
(* applying changes agrees with its store (index.rs, index_applied_changes).  *)
IndexInStep ==
    (~overlapped /\ failures = 0) =>
        \A p \in Peers : (\A s \in Sources : work[p][s] = NoWork) => index[p] = store[p]

(* At most one session runs, and no handler that its client has given up. *)
OneAtATime ==
    /\ \A p, q \in Peers : session[p] = Idle \/ session[q] = Idle \/ p = q
    /\ \A p \in Peers : work[p]["push"] # NoWork =>
          \E q \in Peers : session[q].step = "pushing" /\ session[q].peer = p

(* Neither version of the path wins over the other: the same instant and the  *)
(* same identifier.                                                           *)
Tied(p, q, x) ==
    /\ store[p][x] # None /\ store[q][x] # None
    /\ store[p][x].at = store[q][x].at
    /\ Rank[store[p][x].id] = Rank[store[q][x].id]

(* Whatever overlaps, fails or stops before: once sessions no longer overlap, *)
(* the manifests of the peers become equal and stay so, but for the versions  *)
(* that tie (mod.rs, sync_loop and sync_with).                                *)
ManifestsConverge ==
    <>[]OneAtATime =>
        <>[](\A p, q \in Peers, x \in Paths :
                \/ Tied(p, q, x)
                \/ /\ (store[p][x] = None) = (store[q][x] = None)
                   /\ store[p][x] # None =>
                         ChunkHash(x, store[p][x]) = ChunkHash(x, store[q][x]))

(* Documented and not kept: "Higher `updated_at` timestamp wins"              *)
(* (merge.rs:4): a record that no user deletes stays in the store of a peer.  *)
RecordSurvives ==
    [][\A p \in Peers, x \in Paths :
          (deletes = 0 /\ store[p][x] # None) => store'[p][x] # None]_vars
=============================================================================
