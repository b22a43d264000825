------------------------------ MODULE QmdMemory ------------------------------
(***************************************************************************)
(* The workspace memory of Xavier: QmdMemory, an in-memory index (docs)    *)
(* with a search cache, kept in step with a durable store that outlives    *)
(* the process.  Callers run concurrently; every action below is the code  *)
(* between two awaits of one caller, so a lock that is held across several *)
(* statements is one action and a value read before an await is a local.   *)
(*                                                                         *)
(* Data abstraction.  A document is its id, its path and its content;      *)
(* metadata and content are one value, so "identical" is equality of path  *)
(* and content.  Embeddings, revisions and derived variants are left out.  *)
(***************************************************************************)
EXTENDS Naturals, FiniteSets, Sequences, SequencesExt

CONSTANTS
    Procs,          \* concurrent callers (requests being served)
    Paths,          \* record paths
    Canonical,      \* paths for which is_canonical_path holds
    Ssp,            \* the canonical paths put_validate also knows: stability/, features/
    Contents,       \* record contents; a search query is one of them
    MaxIds,         \* bound on the ids ever minted
    Ops,            \* which calls the environment makes
    Lazy,           \* TRUE for new_lazy (the server), FALSE for an eagerly loaded index
    StoreMayFail,   \* whether calls to the store may return an error
    MaxCache,       \* MAX_SEARCH_CACHE_ENTRIES
    MaxRestarts     \* bound on process restarts

(* update and move are update_primary_memory without and with a new path;      *)
(* delete and deletePath are QmdMemory::delete by id and by path; drop is       *)
(* delete_memory_record; refresh is apply_background_embedding.                 *)
AllOps == {"add", "update", "move", "delete", "deletePath", "drop", "get", "search",
           "refresh"}

ASSUME QmdAssumption ==
    /\ Paths # {}
    /\ Contents # {}
    /\ Canonical \subseteq Paths
    /\ Ssp \subseteq Canonical
    /\ MaxIds \in Nat \ {0}
    /\ Ops \subseteq AllOps
    /\ Lazy \in BOOLEAN
    /\ StoreMayFail \in BOOLEAN
    /\ MaxCache \in Nat \ {0}
    /\ MaxRestarts \in Nat

Ids == 1..MaxIds
NoId == 0
Doc == [id : Ids, path : Paths, content : Contents]

(* A document under construction may not have its id yet. *)
Draft == [id : Ids \cup {NoId}, path : Paths, content : Contents]

VARIABLES
    docs,       \* QmdMemory.docs: the index, a Vec in insertion order
    cache,      \* QmdMemory.search_cache: query -> the set of documents found
    loaded,     \* QmdMemory.loaded
    store,      \* the durable store: the rows of memory_records in the order of their last write
    nextId,     \* ids 1..nextId-1 have been minted (Ulid::new)
    pc,         \* per caller: what it does next
    loc,        \* per caller: its local variables
    ret,        \* per caller: the id its last add returned (NoId: none)
    restarts    \* how often the process was restarted

vars == <<docs, cache, loaded, store, nextId, pc, loc, ret, restarts>>

Labels == {"idle", "load", "install", "identDocs", "identStore", "canonStore",
           "write", "resolve", "fetchDocs", "fetchStore", "updWrite", "invalidate",
           "updById", "updByPath", "putValidate", "putCommit", "remove",
           "delLookup", "delCommit", "evict", "setVector", "upsert", "fill"}

(* doc: the document being written; key: a path or an id; query: the text    *)
(* searched; snap: rows or documents read before an await; then: what the     *)
(* caller of identical_record_id does next.                                   *)
Locals == [op : AllOps \cup {"none"}, doc : Draft, key : Ids \cup Paths \cup {NoId},
           query : Contents, snap : SUBSET Doc, then : {"mint", "write", "return"}]

NoLocals == [op |-> "none", doc |-> CHOOSE d \in Draft : d.id = NoId, key |-> NoId,
             query |-> CHOOSE c \in Contents : TRUE, snap |-> {}, then |-> "mint"]

-----------------------------------------------------------------------------
(* Lookups.  docs is scanned in order and the first hit wins; of the rows of  *)
(* a path the store answers the one written first, which is the order in      *)
(* which both of its path indexes list them.                                  *)

IsIdentical(d, e) == d.path = e.path /\ d.content = e.content

(* The position of the first document of s with this path, this id, this path  *)
(* or id, the path or id of d, the path and content of d; 0 if there is none.   *)
PathPos(s, path) == SelectInSeq(s, LAMBDA e : e.path = path)
IdPos(s, id) == SelectInSeq(s, LAMBDA e : e.id = id)
KeyPos(s, key) == SelectInSeq(s, LAMBDA e : e.path = key \/ e.id = key)
NamePos(s, d) == SelectInSeq(s, LAMBDA e : e.id = d.id \/ e.path = d.path)
TwinPos(s, d) == SelectInSeq(s, LAMBDA e : IsIdentical(e, d))

(* store.get(key): by id first, then by path. *)
StoreGet(key) == IF IdPos(store, key) # 0 THEN IdPos(store, key) ELSE PathPos(store, key)

(* The rows without the one with this id. *)
RowsWithout(id) == IF IdPos(store, id) = 0 THEN store ELSE RemoveAt(store, IdPos(store, id))

(* Faulty variant: a plain INSERT beside the row that is there. *)
StorePut_NoReplace(row) == Append(store, row)

(* INSERT OR REPLACE on the primary key id: a replaced row is written anew. *)
StorePut(row) == Append(RowsWithout(row.id), row)

(* What a scan of the index finds for a query. *)
Scan(query) == {d \in Range(docs) : d.content = query}

(* search_cache.insert, then clear-and-reinsert once the cache is over its limit. *)
CacheInsert(query, found) ==
    LET over == Cardinality({query} \cup DOMAIN cache) > MaxCache
        kept == IF over THEN {} ELSE DOMAIN cache
    IN  [q \in {query} \cup kept |-> IF q = query THEN found ELSE cache[q]]

(* Replace the document at position i of the index, or push it when i = 0. *)
PlaceAt(i, d) == docs' = IF i = 0 THEN Append(docs, d) ELSE [docs EXCEPT ![i] = d]

-----------------------------------------------------------------------------
(* Control: a caller goes on at a label with some locals, or ends its call.   *)

Goto(p, label, locals) ==
    /\ pc' = [pc EXCEPT ![p] = label]
    /\ loc' = [loc EXCEPT ![p] = locals]
    /\ UNCHANGED ret

(* The call of p ends; id is what an add answers, NoId for the other calls. *)
Return(p, id) ==
    /\ pc' = [pc EXCEPT ![p] = "idle"]
    /\ loc' = [loc EXCEPT ![p] = NoLocals]
    /\ ret' = [ret EXCEPT ![p] = id]

(* A call of p starts at a label with these locals. *)
Begin(p, label, locals) ==
    /\ locals.op \in Ops
    /\ pc[p] = "idle"
    /\ pc' = [pc EXCEPT ![p] = label]
    /\ loc' = [loc EXCEPT ![p] = locals]
    /\ ret' = [ret EXCEPT ![p] = NoId]

MintedIds == 1..(nextId - 1)

(* Ulid::new() for the document of p, which then goes on at a label. *)
Mint(p, label, next) ==
    /\ nextId \in Ids
    /\ nextId' = nextId + 1
    /\ Goto(p, label, [loc[p] EXCEPT !.doc.id = nextId, !.then = next])

-----------------------------------------------------------------------------
(* ensure_loaded and reader::init.  The flag is tested, the store is read,    *)
(* and only then is docs replaced as a whole; nothing excludes other callers  *)
(* in between, and the search cache is left as it is.                         *)

(* Faulty variant, the bug the comment on writer::delete reports: nothing is loaded. *)
EnsureLoaded_Never(label) == label

EnsureLoaded(label) == IF Lazy /\ ~loaded THEN "load" ELSE label

AfterLoad(op) == CASE op \in {"update", "move"} -> "fetchDocs"
                   [] op \in {"delete", "deletePath"} -> "remove"
                   [] op = "refresh" -> "upsert"

LoadSnapshot(p) ==
    /\ pc[p] = "load"
    /\ Goto(p, "install", [loc[p] EXCEPT !.snap = Range(store)])
    /\ UNCHANGED <<docs, cache, loaded, store, nextId, restarts>>

LoadInstall(p) ==
    /\ pc[p] = "install"
    /\ docs' \in SetToSeqs(loc[p].snap)
    /\ loaded' = TRUE
    /\ IF loc[p].op = "get"
       THEN Return(p, NoId)
       ELSE Goto(p, AfterLoad(loc[p].op), [loc[p] EXCEPT !.snap = {}])
    /\ UNCHANGED <<cache, store, nextId, restarts>>

(* get (and every other read that calls ensure_loaded first): only the load   *)
(* changes state.                                                             *)
GetStart(p) ==
    /\ Lazy /\ ~loaded
    /\ Begin(p, "load", [NoLocals EXCEPT !.op = "get"])
    /\ UNCHANGED <<docs, cache, loaded, store, nextId, restarts>>

-----------------------------------------------------------------------------
(* add_document_typed_with_embedding, add_validated.                          *)

(* The first look at the index: a canonical path keeps the id it already has, *)
(* and an identical document there ends the call.                             *)
AddStart(p) ==
    \E path \in Paths, content \in Contents :
        LET d == [id |-> NoId, path |-> path, content |-> content]
            i == PathPos(docs, path)
            locals == [NoLocals EXCEPT !.op = "add", !.doc = d]
        IN  /\ IF path \notin Canonical THEN Begin(p, "identDocs", locals)
               ELSE IF i = 0 THEN Begin(p, "canonStore", locals)
               ELSE IF IsIdentical(docs[i], d)
               THEN /\ "add" \in Ops
                    /\ pc[p] = "idle"
                    /\ Return(p, docs[i].id)
               ELSE Begin(p, "write", [locals EXCEPT !.doc.id = docs[i].id])
            /\ UNCHANGED <<docs, cache, loaded, store, nextId, restarts>>

(* Faulty variant: an absent record is written without an id. *)
AddCanonicalLookup_NoMint(p) ==
    /\ pc[p] = "canonStore"
    /\ Goto(p, "write", loc[p])
    /\ UNCHANGED <<docs, cache, loaded, store, nextId, restarts>>

(* A canonical path that is not in the index takes its id from the store; a   *)
(* failing lookup counts as "not there".                                      *)
AddCanonicalLookup(p) ==
    /\ pc[p] = "canonStore"
    /\ LET i == PathPos(store, loc[p].doc.path)
       IN  \/ /\ i # 0
              /\ IF IsIdentical(store[i], loc[p].doc)
                 THEN Return(p, store[i].id)
                 ELSE Goto(p, "write", [loc[p] EXCEPT !.doc.id = store[i].id])
              /\ UNCHANGED nextId
           \/ /\ i = 0 \/ StoreMayFail
              /\ Mint(p, "write", "mint")
    /\ UNCHANGED <<docs, cache, loaded, store, restarts>>

(* identical_record_id found a record: before the id is minted the call ends  *)
(* with that record's id; in add_validated it goes on behind the write.       *)
IdenticalFound(p, id) ==
    IF loc[p].then = "write" THEN Goto(p, "resolve", loc[p]) ELSE Return(p, id)

(* identical_record_id, first half: the index. *)
IdenticalInDocs(p) ==
    LET i == TwinPos(docs, loc[p].doc)
    IN  /\ pc[p] = "identDocs"
        /\ IF i = 0 THEN Goto(p, "identStore", loc[p]) ELSE IdenticalFound(p, docs[i].id)
        /\ UNCHANGED <<docs, cache, loaded, store, nextId, restarts>>

(* identical_record_id, second half: the one row the store answers for the    *)
(* path.  With no identical record: mint an id and enter add_validated, which *)
(* asks again; then write; or, at the very end, answer with the own id.       *)
IdenticalInStore(p) ==
    /\ pc[p] = "identStore"
    /\ LET i == PathPos(store, loc[p].doc.path)
           same == i # 0 /\ IsIdentical(store[i], loc[p].doc)
       IN  \/ /\ same
              /\ IdenticalFound(p, store[i].id)
              /\ UNCHANGED nextId
           \/ /\ ~same \/ StoreMayFail
              /\ CASE loc[p].then = "mint"   -> Mint(p, "identDocs", "write")
                   [] loc[p].then = "write"  -> Goto(p, "write", loc[p]) /\ UNCHANGED nextId
                   [] loc[p].then = "return" -> Return(p, loc[p].doc.id) /\ UNCHANGED nextId
    /\ UNCHANGED <<docs, cache, loaded, store, restarts>>

(* Faulty variant: the duplicate check is not repeated under the guard. *)
AddWrite_Blind(p) ==
    /\ pc[p] = "write"
    /\ PlaceAt(0, loc[p].doc)
    /\ Goto(p, "invalidate", loc[p])
    /\ UNCHANGED <<cache, loaded, store, nextId, restarts>>

(* Faulty variant: the id found before the guard is kept. *)
AddWrite_KeepsOwnId(p) ==
    /\ pc[p] = "write"
    /\ PlaceAt(PathPos(docs, loc[p].doc.path), loc[p].doc)
    /\ Goto(p, "invalidate", loc[p])
    /\ UNCHANGED <<cache, loaded, store, nextId, restarts>>

(* add_validated under the write guard of docs: reconcile the id of a         *)
(* canonical path, stop at an identical document, else replace or push.       *)
AddWrite(p) ==
    LET d == loc[p].doc
        i == PathPos(docs, d.path)
        kept == [d EXCEPT !.id = docs[i].id]
    IN  /\ pc[p] = "write"
        /\ \/ /\ d.path \in Canonical /\ i # 0 /\ IsIdentical(docs[i], d)
              /\ Return(p, kept.id)
              /\ UNCHANGED docs
           \/ /\ d.path \in Canonical /\ i # 0 /\ ~IsIdentical(docs[i], d)
              /\ PlaceAt(i, kept)
              /\ Goto(p, "invalidate", [loc[p] EXCEPT !.doc = kept])
           \/ /\ d.path \in Canonical /\ i = 0
              /\ PlaceAt(0, d)
              /\ Goto(p, "invalidate", loc[p])
           \/ /\ d.path \notin Canonical
              /\ \E e \in Range(docs) : IsIdentical(e, d)
              /\ Goto(p, "resolve", loc[p])
              /\ UNCHANGED docs
           \/ /\ d.path \notin Canonical
              /\ \A e \in Range(docs) : ~IsIdentical(e, d)
              /\ PlaceAt(0, d)
              /\ Goto(p, "invalidate", loc[p])
        /\ UNCHANGED <<cache, loaded, store, nextId, restarts>>

(* Faulty variant: the caller always gets the id it minted. *)
AddResolve_OwnId(p) ==
    /\ pc[p] = "resolve"
    /\ Return(p, loc[p].doc.id)
    /\ UNCHANGED <<docs, cache, loaded, store, nextId, restarts>>

(* The last lines of add_document for a non-canonical path: an id that is not *)
(* in the index is looked up once more by content.                            *)
AddResolve(p) ==
    /\ pc[p] = "resolve"
    /\ IF \E e \in Range(docs) : e.id = loc[p].doc.id
       THEN Return(p, loc[p].doc.id)
       ELSE Goto(p, "identDocs", [loc[p] EXCEPT !.then = "return"])
    /\ UNCHANGED <<docs, cache, loaded, store, nextId, restarts>>

-----------------------------------------------------------------------------
(* Steps that several calls share: invalidate_cache and store.put.            *)

(* Where a store.put starts: only SSP paths look for the row to reuse. *)
PutLabel(path) == IF path \in Ssp THEN "putValidate" ELSE "putCommit"

Invalidate(p) ==
    LET l == loc[p]
    IN  /\ pc[p] = "invalidate"
        /\ cache' = << >>
        /\ CASE l.op = "add"    -> Goto(p, PutLabel(l.doc.path), [l EXCEPT !.key = l.doc.id])
             [] l.op \in {"update", "move"} -> Goto(p, "updById", l)
             [] l.op \in {"delete", "deletePath"} -> Goto(p, "delLookup", l)
             [] l.op \in {"drop", "refresh"} -> Return(p, NoId)
        /\ UNCHANGED <<docs, loaded, store, nextId, restarts>>

(* put_validate: on an SSP path the row already there lends its id. *)
PutValidate(p) ==
    /\ pc[p] = "putValidate"
    /\ LET i == PathPos(store, loc[p].doc.path)
       IN  \/ i # 0 /\ Goto(p, "putCommit", [loc[p] EXCEPT !.key = store[i].id])
           \/ (i = 0 \/ StoreMayFail) /\ Goto(p, "putCommit", loc[p])
    /\ UNCHANGED <<docs, cache, loaded, store, nextId, restarts>>

(* The transaction of put_without_embedding. *)
PutCommit(p) ==
    LET l == loc[p]
    IN  /\ pc[p] = "putCommit"
        /\ store' = StorePut([l.doc EXCEPT !.id = l.key])
        /\ CASE l.op # "add" -> Return(p, NoId)
             [] l.op = "add" /\ l.doc.path \in Canonical -> Return(p, l.doc.id)
             [] l.op = "add" /\ l.doc.path \notin Canonical -> Goto(p, "resolve", l)
        /\ UNCHANGED <<docs, cache, loaded, nextId, restarts>>

(* A store call that propagates its error ends the call; what the call did    *)
(* to the index before stays done.                                            *)
StoreError(p) ==
    /\ StoreMayFail
    /\ pc[p] \in {"load", "updById", "updByPath", "putCommit", "delLookup", "delCommit",
                   "setVector"}
    /\ Return(p, NoId)
    /\ UNCHANGED <<docs, cache, loaded, store, nextId, restarts>>

-----------------------------------------------------------------------------
(* update_primary_memory: get by id, then writer::update, which replaces the  *)
(* first document with that id or that path.                                  *)

UpdateStart(p) ==
    \E op \in {"update", "move"}, id \in MintedIds, path \in Paths, content \in Contents :
        /\ Begin(p, EnsureLoaded("fetchDocs"),
                 [NoLocals EXCEPT !.op = op,
                                  !.doc = [id |-> id, path |-> path, content |-> content]])
        /\ UNCHANGED <<docs, cache, loaded, store, nextId, restarts>>

(* The record found keeps its path unless the caller gave a new one. *)
UpdateFound(p, path) ==
    Goto(p, "updWrite", IF loc[p].op = "move" THEN loc[p]
                                              ELSE [loc[p] EXCEPT !.doc.path = path])

UpdateFetch(p) ==
    LET i == IdPos(docs, loc[p].doc.id)
        j == IdPos(store, loc[p].doc.id)
    IN  /\ \/ /\ pc[p] = "fetchDocs"
              /\ IF i # 0 THEN UpdateFound(p, docs[i].path) ELSE Goto(p, "fetchStore", loc[p])
           \/ /\ pc[p] = "fetchStore"
              /\ \/ j # 0 /\ UpdateFound(p, store[j].path)
                 \/ (j = 0 \/ StoreMayFail) /\ Return(p, NoId)
        /\ UNCHANGED <<docs, cache, loaded, store, nextId, restarts>>

(* Faulty variant: the cached searches survive the write. *)
UpdateWrite_NoInvalidate(p) ==
    LET d == loc[p].doc
    IN  /\ pc[p] = "updWrite"
        /\ PlaceAt(NamePos(docs, d), d)
        /\ Goto(p, "updById", loc[p])
        /\ UNCHANGED <<cache, loaded, store, nextId, restarts>>

UpdateWrite(p) ==
    LET d == loc[p].doc
    IN  /\ pc[p] = "updWrite"
        /\ PlaceAt(NamePos(docs, d), d)
        /\ Goto(p, "invalidate", loc[p])
        /\ UNCHANGED <<cache, loaded, store, nextId, restarts>>

(* VecSqliteMemoryStore::update: the row with the id, else one of the path,   *)
(* keeps its id; then put.                                                    *)
UpdateLookup(p) ==
    LET l == loc[p]
        keep(id) == Goto(p, PutLabel(l.doc.path), [l EXCEPT !.key = id])
        i == PathPos(store, l.doc.path)
    IN  /\ \/ /\ pc[p] = "updById"
              /\ IF IdPos(store, l.doc.id) # 0 THEN keep(l.doc.id) ELSE Goto(p, "updByPath", l)
           \/ /\ pc[p] = "updByPath"
              /\ keep(IF i # 0 THEN store[i].id ELSE l.doc.id)
        /\ UNCHANGED <<docs, cache, loaded, store, nextId, restarts>>

-----------------------------------------------------------------------------
(* writer::delete (index first, then store) and delete_memory_record (store   *)
(* first, then the index when it is loaded).                                  *)

DeleteStart(p) ==
    /\ \/ \E id \in MintedIds :
             Begin(p, EnsureLoaded("remove"), [NoLocals EXCEPT !.op = "delete", !.key = id])
       \/ \E path \in Paths :
             Begin(p, EnsureLoaded("remove"), [NoLocals EXCEPT !.op = "deletePath", !.key = path])
    /\ UNCHANGED <<docs, cache, loaded, store, nextId, restarts>>

DeleteFromDocs(p) ==
    LET i == KeyPos(docs, loc[p].key)
    IN  /\ pc[p] = "remove"
        /\ IF i = 0
           THEN Return(p, NoId) /\ UNCHANGED docs
           ELSE docs' = RemoveAt(docs, i) /\ Goto(p, "invalidate", loc[p])
        /\ UNCHANGED <<cache, loaded, store, nextId, restarts>>

DropStart(p) ==
    \E id \in MintedIds :
        /\ Begin(p, "delLookup", [NoLocals EXCEPT !.op = "drop", !.key = id])
        /\ UNCHANGED <<docs, cache, loaded, store, nextId, restarts>>

(* VecSqliteMemoryStore::delete: look the record up, then delete its id. *)
StoreDeleteLookup(p) ==
    /\ pc[p] = "delLookup"
    /\ LET i == StoreGet(loc[p].key)
       IN  IF i = 0 THEN Return(p, NoId)
                    ELSE Goto(p, "delCommit", [loc[p] EXCEPT !.key = store[i].id])
    /\ UNCHANGED <<docs, cache, loaded, store, nextId, restarts>>

StoreDeleteCommit(p) ==
    /\ pc[p] = "delCommit"
    /\ store' = RowsWithout(loc[p].key)
    /\ IF loc[p].op = "drop" /\ (~Lazy \/ loaded)
       THEN Goto(p, "evict", loc[p])
       ELSE Return(p, NoId)
    /\ UNCHANGED <<docs, cache, loaded, nextId, restarts>>

(* index_remove: invalidates the cache whether or not something was removed. *)
DropEvict(p) ==
    LET i == KeyPos(docs, loc[p].key)
    IN  /\ pc[p] = "evict"
        /\ docs' = IF i = 0 THEN docs ELSE RemoveAt(docs, i)
        /\ Goto(p, "invalidate", loc[p])
        /\ UNCHANGED <<cache, loaded, store, nextId, restarts>>

-----------------------------------------------------------------------------
(* apply_background_embedding: re-read the row, set its vector (which needs   *)
(* the row to be there), then index_upsert of the row as it was read.         *)

RefreshStart(p) ==
    \E r \in Range(store) :
        /\ Begin(p, "setVector", [NoLocals EXCEPT !.op = "refresh", !.doc = r])
        /\ UNCHANGED <<docs, cache, loaded, store, nextId, restarts>>

RefreshSetVector(p) ==
    /\ pc[p] = "setVector"
    /\ IF IdPos(store, loc[p].doc.id) # 0
       THEN Goto(p, EnsureLoaded("upsert"), loc[p])
       ELSE Return(p, NoId)
    /\ UNCHANGED <<docs, cache, loaded, store, nextId, restarts>>

IndexUpsert(p) ==
    LET d == loc[p].doc
    IN  /\ pc[p] = "upsert"
        /\ PlaceAt(NamePos(docs, d), d)
        /\ Goto(p, "invalidate", loc[p])
        /\ UNCHANGED <<cache, loaded, store, nextId, restarts>>

-----------------------------------------------------------------------------
(* search_with_cache_filtered: a miss scans the index under its read guard    *)
(* and fills the cache after the guard is gone.  A hit changes nothing.       *)

SearchStart(p) ==
    \E query \in Contents \ DOMAIN cache :
        /\ Begin(p, "fill", [NoLocals EXCEPT !.op = "search", !.query = query,
                                              !.snap = Scan(query)])
        /\ UNCHANGED <<docs, cache, loaded, store, nextId, restarts>>

SearchFill(p) ==
    /\ pc[p] = "fill"
    /\ cache' = CacheInsert(loc[p].query, loc[p].snap)
    /\ Return(p, NoId)
    /\ UNCHANGED <<docs, loaded, store, nextId, restarts>>

-----------------------------------------------------------------------------
(* The process stops at any moment and comes back with the store alone; an    *)
(* eager memory loads the index before it serves calls.                       *)
Restart ==
    /\ restarts < MaxRestarts
    /\ restarts' = restarts + 1
    /\ docs' \in IF Lazy THEN {<< >>} ELSE SetToSeqs(Range(store))
    /\ cache' = << >>
    /\ loaded' = FALSE
    /\ pc' = [p \in Procs |-> "idle"]
    /\ loc' = [p \in Procs |-> NoLocals]
    /\ ret' = [p \in Procs |-> NoId]
    /\ UNCHANGED <<store, nextId>>

(* The first boot finds an empty store or one record of an earlier session. *)
Init ==
    /\ store \in {<< >>} \cup {<<r>> : r \in [id : {1}, path : Paths, content : Contents]}
    /\ docs \in IF Lazy THEN {<< >>} ELSE SetToSeqs(Range(store))
    /\ cache = << >>
    /\ loaded = FALSE
    /\ nextId = 2
    /\ pc = [p \in Procs |-> "idle"]
    /\ loc = [p \in Procs |-> NoLocals]
    /\ ret = [p \in Procs |-> NoId]
    /\ restarts = 0

Step(p) ==
    \/ LoadSnapshot(p) \/ LoadInstall(p) \/ GetStart(p)
    \/ AddStart(p) \/ AddCanonicalLookup(p) \/ IdenticalInDocs(p)
    \/ IdenticalInStore(p) \/ AddWrite(p) \/ AddResolve(p)
    \/ Invalidate(p) \/ PutValidate(p) \/ PutCommit(p) \/ StoreError(p)
    \/ UpdateStart(p) \/ UpdateFetch(p) \/ UpdateWrite(p) \/ UpdateLookup(p)
    \/ DeleteStart(p) \/ DeleteFromDocs(p) \/ DropStart(p)
    \/ StoreDeleteLookup(p) \/ StoreDeleteCommit(p) \/ DropEvict(p)
    \/ RefreshStart(p) \/ RefreshSetVector(p) \/ IndexUpsert(p)
    \/ SearchStart(p) \/ SearchFill(p)

Next == (\E p \in Procs : Step(p)) \/ Restart

Spec == Init /\ [][Next]_vars

-----------------------------------------------------------------------------
(* Properties *)

(* Every variable has its type. *)
TypeOK ==
    /\ docs \in Seq(Doc)
    /\ DOMAIN cache \subseteq Contents
    /\ \A q \in DOMAIN cache : cache[q] \subseteq Doc
    /\ loaded \in BOOLEAN
    /\ store \in Seq(Doc)
    /\ nextId \in 1..(MaxIds + 1)
    /\ pc \in [Procs -> Labels]
    /\ loc \in [Procs -> Locals]
    /\ ret \in [Procs -> Ids \cup {NoId}]
    /\ restarts \in 0..MaxRestarts

Quiescent == \A p \in Procs : pc[p] = "idle"

(* The index is what the store holds: nothing to load any more. *)
Indexed == loaded \/ ~Lazy

(* "Paths the writer treats as canonical: exactly one record per path": the   *)
(* index never holds two documents of one canonical path, whatever writers    *)
(* interleave between their lookups and the write guard of add_validated.     *)
CanonicalUnique ==
    \A i, j \in DOMAIN docs :
        docs[i].path = docs[j].path /\ docs[i].path \in Canonical => i = j

(* The same of the durable rows: put_validate and the ids reconciled under    *)
(* the guard never leave two rows of one canonical path in memory_records.    *)
CanonicalRowUnique ==
    \A i, j \in DOMAIN store :
        store[i].path = store[j].path /\ store[i].path \in Canonical => i = j

(* A retried write is the same logical record: the index never holds two      *)
(* documents with the same path and content (identical_record_id and the      *)
(* check under the guard).                                                    *)
NoTwins ==
    \A i, j \in DOMAIN docs : IsIdentical(docs[i], docs[j]) => i = j

(* Once every call has ended and the index is loaded, the index and the store *)
(* hold the same documents, one for one.                                      *)
IndexMatchesStore ==
    Quiescent /\ Indexed => Range(docs) = Range(store) /\ Len(docs) = Len(store)

(* The weaker agreement that survives concurrent writers: the same ids at the *)
(* same paths (the content of one path may be that of another writer).        *)
IndexNamesStore ==
    Quiescent /\ Indexed =>
        {<<d.id, d.path>> : d \in Range(docs)} = {<<r.id, r.path>> : r \in Range(store)}

(* "hand back the id that actually resolves": an id an add answered is the id *)
(* of a document of the index or of a row of the store.                       *)
ReturnedIdResolves ==
    \A p \in Procs : ret[p] # NoId => \E d \in Range(docs) \cup Range(store) : d.id = ret[p]

(* Once every call has ended, a cached search answers what a scan would find. *)
CacheFresh == Quiescent => \A q \in DOMAIN cache : cache[q] = Scan(q)

(* When a delete or drop of an id ends, no row has that id. *)
DeletedIsGone ==
    \A p \in Procs :
        loc[p].op \in {"delete", "drop"} /\ pc'[p] = "idle" /\ UNCHANGED restarts =>
            \A r \in Range(store') : r.id # loc[p].key

(* "Idempotent retry: the record is already stored, so there is nothing to    *)
(* add": an add of a non-canonical path that stops at an identical record     *)
(* finds it in the store.                                                     *)
RetryIsStored ==
    [][\A p \in Procs :
          /\ pc[p] \in {"identDocs", "identStore", "write"}
          /\ loc[p].doc.path \notin Canonical /\ loc[p].then # "return"
          /\ pc'[p] \in {"idle", "resolve"} /\ UNCHANGED restarts
          => \E r \in Range(store) : IsIdentical(r, loc[p].doc)]_vars
=============================================================================
