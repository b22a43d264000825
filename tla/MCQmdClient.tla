----------------------------- MODULE MCQmdClient -----------------------------
(* QmdMemory for TLC: one client that makes every call.                      *)
EXTENDS QmdMemory

(* A path that is not canonical may hold several records, and a move onto an *)
(* occupied path leaves the index with one id twice or one path twice: from   *)
(* then on the calls that look a record up by its path may find another in    *)
(* the index than in the store.                                               *)
SharedName ==
    \E i, j \in DOMAIN docs :
        i # j /\ (docs[i].path = docs[j].path \/ docs[i].id = docs[j].id)

(* A search that does not wait for the load has cached what it found. *)
EarlyAnswer == ~Indexed /\ DOMAIN cache # {}

(* TLC goes no further from such states. *)
Plain == ~SharedName /\ ~EarlyAnswer

(* Between the calls of one client, and after a restart, the index and the    *)
(* store hold the same documents, as long as a path names one of them         *)
(* (writer.rs, update and index_upsert).                                      *)
ClientIndexMatchesStore == Plain => IndexMatchesStore

(* Between the calls of one client a cached search answers what a scan would  *)
(* find, unless it is from before the index was loaded, which does not clear  *)
(* the cache (reader.rs, search_with_cache_filtered and init).                *)
ClientCacheFresh == Plain => CacheFresh

(* "delete now always sees (and can remove) a record persisted by an earlier  *)
(* session": when a delete by one client ends, the store has no row of the    *)
(* id, as long as a path names one record (writer.rs, delete; workspace/      *)
(* state.rs, delete_memory_record).                                           *)
ClientDeleteReachesStore == [][Plain => DeletedIsGone]_vars
=============================================================================
