# Xavier: TLA+ models of its memory, key lending, synchronisation and training jobs

Xavier is a memory runtime for agents: one Rust process that serves HTTP, MCP and CLI
requests, keeps the records of its agents in an in-memory index over a SQLite store,
exchanges them with peers, lends secrets to agents for a time, tells its parts about tasks
over an event bus that is mirrored into a durable log, and trains small models for them. This
directory holds TLA+ modules for the parts that carry that core, configurations that
model-check them with TLC, and proofs that TLAPS checks.

Paths below are relative to the repository root; line numbers are in `PROJECT.json`, where
every definition that models code is mapped to the lines it stands for.

## The system's parts

The process is a tokio program: each request and each background loop is a task, tasks
interleave at every `await`, and tasks of different threads interleave everywhere outside
a lock. Nearly all of the state is either a map behind an `RwLock` or a SQLite table reached
through an async call, and most of the hard behaviour is a value read on one side of an
`await` and used on the other.

| Part | State | Operations | Hard behaviour | What makes it correct |
| --- | --- | --- | --- | --- |
| Workspace memory index, `src/memory/qmd` | the `docs` vector, a search cache, a `loaded` flag | add, update, move, delete, get, search, background refresh, lazy load | index and store change in separate steps; the load replaces the index; retries; store errors; restart | one record per canonical path, no twin records, index and store agree, what is saved is found and what is deleted is gone |
| Vector store, `src/memory/sqlite_vec_store` | rows of `memory_records` | put, get, update, delete, list | look-up and write are separate transactions | one row per id, one per canonical path |
| Key lending, `src/coordination/secrets.rs`, `src/secrets/audit.rs` | a map of leases per engine, rows of `secret_leases` | lend, renew, back off, revoke, clean up, restore | the map changes first and the row later; a failed statement is only logged; two engines share the rows; restart | a revoked lease stays dead, a granted one survives, an expired one goes |
| Event bus and listener, `src/coordination/events.rs`, `src/cli/server.rs` | a broadcast channel of 100 events; a task that receives | publish, receive, revoke at a task's end | a receiver that lags loses events and stops | the end of a task revokes its agent's leases |
| Agent registry and task store, `src/coordination/agent_registry.rs`, `src/tasks/store.rs` | agents, tasks | register, heartbeat, start, complete, move | publish and the engine call are two steps | every task end reaches the engine |
| Durable event log, `src/coordination/event_log.rs` | a SQLite log, a write queue of 4096 | mirror the bus, append, query, prune, replay | a full queue and a lagging receiver drop events; cursors outlive rows | the log has the order of the bus, losses are reported, a client that pages misses nothing |
| Message bus, `src/coordination/message_bus` | queues of 100 per agent, pending requests, dead letters | subscribe, publish, request, respond, mark stale | a lock is held across a send to a bounded queue; a timed-out request | no lost message without a dead letter, no stuck publisher |
| Coordination service, `src/coordination/mod.rs` | agents, tasks, locks | dispatch, broadcast, complete, cancel, lock | a completion may precede the note that the task was dispatched | a task does not leave a final state; a lock has one holder |
| Provider proxy, `src/app/proxy_use_case.rs` | none of its own | check a lease, renew, back off, revoke on a leak | the lease may end between check and use | only a live lease is used |
| Memory peer sync, `src/memory/sync` | two stores, two search indexes, a session per peer | compare manifests, push, pull, merge, mirror | manifests are stale when used; get and put are two statements; a batch stops half way | the newest version survives, no version is replaced by an older one, peers converge |
| Training jobs, `src/training` | a table of jobs, a driver per job, a process map, the job's files | create, drive, cancel, upload, prune, reconcile | a cancellation overtakes the start of a trainer; a limit is checked before the insert; restart | the limit holds, no trainer escapes its driver, an outcome is final, every job ends |
| Backup, `src/storage/backup` | WAL segments and checkpoints | stream, upload, restore | a checkpoint races the stream | a restore is a prefix of what was committed |
| Scheduler, `src/scheduler` | jobs, next runs, attempts | tick, run, retry | overlapping runs, backoff limits | a job is not run twice at once and retries are bounded |
| Rate limiters, `src/security/rate_limiter` | time stamps per key | check and count | boundary of the window | no window admits more than the limit |
| Authentication, `src/auth2` | refresh tokens, login codes | issue, rotate, redeem | two redemptions at once | single use |
| Mesh, `src/mesh` | peers, an offline queue, nonces, pairing codes | send, queue, flush, pair, join | retries, restarts, replay | single use, nothing lost below the limit |
| Spaces, keys, recovery, `src/espacio`, `src/keystore`, `src/recovery` | keys and tokens per space | rotate, invite, revoke, recover | a crash between two writes | a key that is in use is never lost |

`PROJECT.json` lists these and the remaining parts (agents, search, code graph, market,
telecom, panel and so on) with the reason each of them is not modelled.

Interactions: the HTTP and MCP handlers call the workspace memory, which calls the store.
`memory_save` leaves the embedding to a background task that later writes the record's vector
and refreshes the index entry. The agent registry's hooks publish on the event bus and then
renew or revoke through the lending engine; the task store only publishes. The server's
listener receives from the bus and calls the engine, which publishes each revocation on the
same bus. The MCP secret tools own a second engine over the same rows. The event
log subscribes to the same bus. The sync loop reads and writes the memory store beside the
handlers and mirrors what it merged into the workspace's index. Training jobs are created
over HTTP, each is driven by a task of its own, and mini-experts refer to the files that the
retention pass may delete.

## Modules

| Module | Models |
| --- | --- |
| `QmdMemory` | the index, its cache, its lazy load and the store below it |
| `QmdMemory_proofs` | its theorems |
| `MCQmdMemory` | constants and symmetry for TLC, two callers |
| `MCQmdClient` | one client that makes every call, the constraint of its run and the properties that need it |
| `KeyLending` | engines, leases, rows, the cleanup loop |
| `KeyLending_proofs` | its theorems |
| `LeaseContract` | what the engine promises of a token: granted once, to one agent, ended once |
| `LeaseContract_proofs` | what the contract implies |
| `KeyLending_refinement` | the proof that `KeyLending` implements `LeaseContract` |
| `MCKeyLending` | who calls which engine |
| `LeaseEvents` | `KeyLending` composed with the bus, the listener, the registry's hooks and the task store's event |
| `LeaseEvents_proofs` | its theorems, over those of `KeyLending_proofs` |
| `MCLeaseEvents` | constants for TLC |
| `TrainingJobs` | the table of jobs, drivers, processes, uploads, retention, restart |
| `TrainingJobs_proofs` | its theorems |
| `MCTrainingJobs` | two local jobs and a notebook job for TLC |
| `MemorySync` | stores and indexes of peers, sessions, handlers, merge, failures |
| `MemorySync_proofs` | its theorems |
| `MCMemorySync` | two peers for TLC |
| `EventLog` | the bus's subscriber, its queue and writer, the table, paging clients |
| `EventLog_proofs` | its theorems |
| `MCEventLog` | a client with limit 0 and one with a filter for TLC |

In all of them an action is the code of one caller between two awaits. What a caller has read
before an await is kept in a variable of that caller and used, stale or not, after it. A code
section under one lock guard is one action. `Restart` empties every variable that lives in
memory and keeps those that live in SQLite. Definitions whose names end in a suffix after an
underscore (`AddWrite_Blind`, `MarkRevoked_Agent`) are faulty variants: each differs from the
definition after it as a plausible bug would, and is there to show that some property would
notice.

### QmdMemory

State: `docs` is the index, a sequence because the code takes the first match; `cache` maps a
query to the documents it found; `loaded`; `store` is the sequence of rows in order of their
last write (a put removes the row of the id and appends), and a get finds a row by id or
else the first of the path; `nextId`; and for each caller `pc`, `loc` and `ret`, the id its
last add returned.

| Action | Code |
| --- | --- |
| `AddStart`, `IdenticalInDocs`, `IdenticalInStore`, `AddCanonicalLookup`, `AddWrite`, `PutValidate`, `PutCommit`, `AddResolve` | `add_document_typed_with_embedding` and `add_validated` (writer.rs), then `put_validate` and the transaction (store_impl.rs) |
| `UpdateStart`, `UpdateFetch`, `UpdateWrite`, `Invalidate`, `UpdateLookup` | `update_primary_memory` (workspace/state.rs), `update` |
| `DeleteStart`, `DeleteFromDocs`, `StoreDeleteLookup`, `StoreDeleteCommit` | `delete` by id or by path |
| `DropStart`, `DropEvict` | `delete_memory_record`, which deletes from the store first |
| `RefreshStart`, `RefreshSetVector`, `IndexUpsert` | `apply_background_embedding` |
| `SearchStart`, `SearchFill` | `search_with_cache_filtered` |
| `LoadSnapshot`, `LoadInstall`, `GetStart` | `ensure_loaded`, `init`, `get` |
| `StoreError`, `Restart` | a failing statement; the end of the process |

A document is its id, path and content. Metadata and content are one value, so "identical"
is equality of path and content. Not modelled: `clear`, which only tests call; variants of
the add calls that end in the same code; the quota of the context bus; requests that
validation rejects and that change nothing; embeddings and ranking; the cascade to children;
semantic deduplication; revisions.

### KeyLending

State: `leases` per engine, a set of records of token, agent and expiry; `restored` per
engine, the `OnceCell` of the restore (`"no"`, `"busy"`, `"done"`), and `snap`, what a running
restore has read; `rows`, the table; `now`; per caller `pc` and `todo`, the statements its
call still has to execute, a set because the code walks a `HashMap`. `revoked` records the
tokens whose revocation was reported, and `failed` whether any statement has failed.

`BeginRestore` and `RestoreInstall` are `restore_leases`; `Lend`, `Revoke`, `RevokeForAgent`,
`CleanupExpired`, `Renew`, `RenewForAgent` and `Backoff` are the calls up to the release of
the write lock; `WriteRow` is one statement of a call, which may fail (`StoreMayFail`) and
then has only been logged. A call that finds no lease returns an error, changes nothing and
has no action. Not modelled: secret names and values, the audit log, the hashes of the leak
detector, `AntiExfilDetector` (only tests give an engine one), and a request whose future is
dropped half way.

### LeaseEvents

Adds `inbox`, the events the listener has not received, with `Capacity` in place of the 100
of `XavierEventBus::new(100)`; `lagged`, `listening`; `owes`, the engine call that a hook's or
the listener's event leads to and that has not begun; and the history `due`, the tokens that
were held when a task of their agent ended. `TaskDone` is `move_task` to Done, which only
publishes. `OnTaskStart` and `OnTaskComplete` are the registry's hooks: they publish and then
owe a renewal or a revocation. `Receive` takes an event or, having lagged, ends the loop, as
`Err(_) => break` does. `Handle` begins the call that is owed. `WriteAndReport` is `WriteRow`
followed by the engine's own `LeaseRevoked` event. Other consumers of the bus only show
events and are left out.

### LeaseContract

The abstract specification of key lending: `held`, the tokens in somebody's hands with their
agents, and `used`, the tokens ever granted. `Grant` is a lend; `End` takes any of them away
(a revocation, a cleanup, several at once when a restart finds no active rows). `KeyLending`
maps `held` to the leases a token can still be used from, now or after a restart: the maps of
the engines, what a restore has read, the rows that are not marked revoked and the inserts
still to come. The mapping needs all four, because a lease moves between them.

### TrainingJobs

State, per job: `status` and `artifact` are its row; `driver` is the next step of its
`create_job` request, which holds `create_lock`, and then of its task; `entry` and `trainer` are
the local backend's map and the process itself; `files` is what its heavy directories hold.
Besides: the cancellations that have changed the row and not yet called the backend, the
uploads, the retention passes, and the jobs that a mini-expert refers to.

| Action | Code |
| --- | --- |
| `CheckSlot`, `InsertJob` | `create_job`: the count and the insert, both under `create_lock` |
| `Submit`, `Record`, `PollExited`, `PollTimedOut`, `PollCancelled`, `Fetch`, `Conclude` | `drive_inner`, `finish_ok`, `fail` with the backend's `submit`, `poll`, `fetch_artifacts` |
| `CancelRow`, `CancelProcess` | `cancel_job`: the row first, then the process |
| `TrainerExits`, `TrainerDies` | the process by itself; the end of `kill_group_escalating` |
| `BeginUpload`, `StoreUpload`, `PollUpload`, `FinishUpload` | `upload_artifact` |
| `ReadReferences`, `ListJobs`, `RemoveFiles`, `ClearArtifact` | `retention::prune` |
| `Reference`, `Retire` | `add_version`, `retire` of mini-experts |
| `Restart` | the end of the daemon and `reconcile_after_restart`; trainers may survive it, also one that was being stopped |

Any statement on the table may fail (`MaxDbErrors`), and the callers do what the code does
then. Not modelled: bundles and their privacy gate, logs, metrics, the sizes and ages by which
retention picks a job (it may pick any job it is allowed to), an error of `try_wait`. `RemoveFiles`
is one step where `prune` removes three directories one by one and ignores the errors; only the
directory of the model is told apart by a property.

### MemorySync

State: per peer and path the record of `store` (revision, time and identifier) and the document
of the search `index`; per peer the `session` it runs and, in `work`, the batch its own session
and another peer's push are applying; `now`; `latest`, the history of when each path was last
written, 0 if never (the clock starts at 1); and `overlapped`, whether anything ran beside a
session. A manifest entry is the tuple that `chunk_hash` hashes: path, revision and the second.
One action is one request, one look-up or one statement.

| Action | Code |
| --- | --- |
| `Write`, `DeleteRecord` | a user's call (`revisioned_record`); `QmdMemory` has its statements |
| `BeginSync`, `PullManifest`, `Collect`, `Push`, `Pushed`, `Pull` | `sync_with` and the handlers that answer it |
| `BeginPush`; `BeginPull`, `PullSince` | `push_to`; `pull_from` |
| `MergeNext`, `MergePut` | `apply_changes_received`: the look-up and the put of one change |
| `MirrorNext`, `MirrorUpsert` | `index_applied_changes`: the re-read, and the write after the embedding |
| `SessionFails`, `ApplyFails`, `Restart` | a lost or refused request, a failing statement, the end of a process |

All peers read one clock. A tie in the merge is decided by the identifier: `lww_node_id` prefers
a `node_id` in the metadata, which no code sets when it writes a record. Not modelled: conflict
resolution by hand (`sync_resolve_handler`), clearance levels (a refused batch is a failed
session), several workspaces, and canonical paths, whose revision `put_validate` raises.

### EventLog

State: `inbox`, what the broadcast channel holds for the subscriber; `queue` (the `mpsc` channel);
`writer` and `batch`; `rows` and `lastId`, the table with its AUTOINCREMENT; `now`; per client
`cursor` (the `next_since` it was given), `since` (the time it began with, if any) and `seen`; and
the histories `logged` and `lost`. `Drain`, `Receive`, `TakeMore` and `WriteNext` are the two tasks
of `spawn_subscriber`, `AppendDirectly` is `record_session_event` and `v1_events_add`, `Prune` is
`prune_with`, `Read` is `events_replay_handler` and `v1_events_list`. Not modelled: the payloads and
their sealing (a missing key is a failing append), and a panic of the writer's blocking task.

## What is checked with TLC

### Runs that pass

| Run | Bounds | Distinct states | Shows |
| --- | --- | --- | --- |
| `qmd_client` | 1 caller making every call, two canonical paths and a plain one, 2 contents, 2 ids, lazy, cache of 1, 1 restart, constraint `Plain` | 108,775 | `ClientIndexMatchesStore`, `ClientCacheFresh`, `ClientDeleteReachesStore` |
| `qmd_writers` | 2 callers, 2 canonical paths, 2 contents, eager | 594,045 | one document and one row per canonical path, `IndexNamesStore` |
| `qmd_retries` | 2 callers, 2 paths, failing store, 1 restart | 168,362 | `NoTwins`, `ReturnedIdResolves` |
| `lend_client` | 1 client and the cleanup loop, 2 agents, 2 tokens, clock to 2, failing statements, 1 restart | 301,407 | `StoreMirrorsLeases`, `RevokedIsFinal`, `RevokedRowIsDead`, `ExpiredIsDropped` (liveness), `KeepsContract` (refinement of `LeaseContract`) |
| `events_keeping_up` | 1 client, the hooks, listener and cleanup loop, 2 agents, 2 tokens, leases of ttl 1, clock to 2, 2 task events, channel of 2, 1 restart | 560,336 | `LiveIsStored`, `DueIsTracked`, `ReportedOnce`, `TaskEndRevokesUnlessLagged` (liveness) |
| `training_jobs` | 2 local jobs or 1 notebook job, limit 1, 2 uploads, 1 retention pass, 1 failing statement, 1 restart | 257,880 | `CapRespected`, `TrainerIsWatched`, `ActiveIsDriven`, `ArtifactExists`, `PruneSparesLive`, `OutcomeIsFinal`, `EndedJobStops` and `LocalJobEnds` (liveness) |
| `sync_peers` | 2 peers, 1 with the loop, 1 path, 3 writes, 1 deletion, one-shot call, failure or restart | 229,837 | `NewestSurvives`, `NoStaleOverwrite`, `IndexInStep`, `ManifestsConverge` (liveness) |
| `event_log` | 3 events, buffers of 1, age 1, 2 rows, pages of at most 2, 2 clients, 1 failure or restart | 176,112 | `LogInOrder`, `NothingSkipped`, `ReadOnce`, `MirroredOrReported` and `ReplayCatchesUp` (liveness) |

Each passing run with a type invariant has more than typing in it: a draft without an id
reaches neither index nor store; a caller is in a call exactly while it has statements left;
an engine is restoring exactly while one of its callers is; a notebook job never gets a process
entry; a session applies changes exactly while it has some left; the writer of the log waits
exactly while it has nothing to write.

`ReportedOnce` says that a revocation being written is nobody else's and was not reported before by
the same process; a restart may take up a revoked lease whose insert came late, and then revokes it
a second time.

Some of these hold only with an exception that the property names, because the code does not
give more:

* `qmd_client` does not follow executions (constraint `Plain`) in which the index has come to
  name two of its entries by one path or one id (a move onto an occupied
  path, or two records of a plain path: `update` and `index_upsert` match by id or path, and a
  delete by path takes the first of the index and the first of the store), or in which a search
  has cached an answer before the lazy load, which does not clear the cache.
* Index and store, and cache and index, agree for one client. Two writers that cross leave them
  apart, a delete that overtakes an add leaves two rows of one canonical path, and a load that
  crosses an add hides it; TLC finds each of these within seconds when the calls are allowed.
  What two writers keep is `IndexNamesStore`, one document and one row per canonical path.
* `RevokedIsFinal`, `StoreMirrorsLeases` and `LiveIsStored` speak of executions without failing
  statements: a failure is logged and the row stays behind the map. `RevokedRowIsDead` and
  `KeepsContract` do not.
* `TaskEndRevokesUnlessLagged` excepts a listener that has lagged: its loop ends, and tasks done
  later revoke nothing until a restart.
* `ActiveIsDriven` and `LocalJobEnds` speak of executions without failing statements: a failed
  update leaves a row queued or running that no driver owns, and the slot is lost until a
  restart. `ArtifactExists` also excepts restarts: a pass that is cut short between deleting the
  files and clearing the row leaves a path to nothing.
* `NewestSurvives`, `NoStaleOverwrite` and `IndexInStep` are about a session that nothing
  overlaps. `NewestSurvives` is stated over `latest`, for every path that was ever written, so a
  session that deletes the copies of all peers breaks it. With overlaps the merge's look-up is
  stale when it puts. `ManifestsConverge` holds whatever overlapped before, once sessions no
  longer overlap: two loops that always overlap can undo each other's work for ever. It excepts
  versions that tie (same instant, same identifier), which no session ever exchanges. An instance
  in which both peers run the loop (2 writes, 1 event, 1.3 million states) passes as well and is
  not kept as a run.
* `ReplayCatchesUp` is about clients without a filter. `v1_events_list` filters a page after its
  LIMIT and returns no `next_since` for a page without a match, so a client with a filter may ask
  for the same page for ever. ADR-041 (line 93) gives a page the last scanned position, for the
  new store that it describes.

No comment or test promises the excepted cases, so they are hazards in `PROJECT.json` and not
findings, but for those below.

### Runs that find a disagreement

| Run | Property | What happens |
| --- | --- | --- |
| `qmd_retry_not_stored` | `RetryIsStored` | a put fails after the index entry was pushed; the retry finds the entry and returns as stored |
| `lend_revoke_races_lend` | `RevokedIsFinal` | `revoke_for_agent` overtakes the insert of a lend; the row stays active and a restart revives the lease |
| `training_prune_vs_register` | `ReferencedIsNeverPruned` | a mini-expert is registered after a retention pass has read the references; the pass deletes the model it refers to |
| `sync_edit_deleted` | `RecordSurvives` | a session pushes an edit, asks for the old version it has just replaced, is told that it is deleted and deletes the edit |

The findings in `PROJECT.json` quote the comment or test that says otherwise. Three more
comments of the code say what it does not do, and are hazards with the line quoted:
exactly one record per canonical path (a delete and a new add overtake an add), leases that
are globally observable (the MCP tools' engine does not know the server's leases), and a task
end that revokes the agent's keys (the listener has lagged).

### Bounds, and why they are enough

Every bound is a constant: `MaxIds`, `MaxCache`, `MaxRestarts`, `MaxTokens`, `MaxTime`,
`MaxExpiry`, `MaxTaskEvents`, `Capacity`, `Batches`, `MaxDbErrors`, `MaxWrites`, `MaxEvents`,
`WriteQueue`, `MaxRows`, `PageMax`, `MaxFailures`. Two callers give every pair of overlapping calls,
and the code compares a document with one other document at a time; three ids allow a record,
a concurrent rival and a retry. One path that is canonical for the writer and the store, one that
is canonical for the writer only and one that is not are the three cases of the code's path
tests. Two tokens and two agents tell "this lease", "another of the same agent" and "another
agent's" apart. A clock of one or two ticks with times to live of 0 and 1 gives a lease that
is live, that expires now, and that has expired, on either side of a restart.
The channel of two stands for the hundred of the code: it overflows within the bounds,
and it does not have to, so both sides of the listener's loop are reached.
`Plain`, in `qmd_client` only, is the constraint described among the exceptions above; it also
keeps the index finite, which moves onto occupied paths let grow without end.

Two local jobs are what it takes to fight for one slot and a third would only wait; the two
batches keep local jobs apart from the notebook job, with which they share nothing but the
table and the retention pass. One failing statement and one restart, at any point, are enough
for every pair of "this went wrong, then that step"; two of each are covered by the proofs.
Three writes of one path over two peers give an edit on either side and one that wins over
both; records of different paths never meet in the code except in the order of a batch, which
the model leaves open. Three events through buffers of one give a loss at each place, an event
after it, and a row beyond the limit; a page of one (limit 0) and of two put a boundary between
any two rows.

Deadlock is checked in the sync runs, where the loop always has a next step, and not in the others: with
every bound exhausted and no call running, these programs are simply idle. Callers are
symmetric in `QmdMemory`; no liveness property is checked under symmetry.

### Fairness

`FairSpec` and `FairSpecAll` assume weak fairness of the next step of a running call (tokio
polls a woken task, and a SQLite statement returns, with an error if need be), of the cleanup
loop, which ticks every 60 seconds (server.rs), of the listener's `recv`, and of the call an
event leads to. Clients, the clock, task events, failures and restarts have no fairness.
`QmdMemory` has no liveness property and no fairness.

`TrainingJobs!FairSpec`: a spawned driver runs, its polls find the timeout of a trainer that does
not exit by itself (the default is six hours; with `XAVIER_TRAIN_TIMEOUT=0` there is none and the
liveness properties do not apply), and SIGKILL ends a process. No trainer has to exit, and no
request has to come. `MemorySync!FairSpec`: the loop of a peer begins session after session
(every `sync_interval`), and a request that is being served is served unless it fails.
`EventLog!FairSpec`: the two tasks of the subscriber run, and a client keeps asking; pruning,
appends and failures have no fairness.

## What is proved with TLAPS

The proofs hold for any number of callers, paths, contents, agents, tokens, peers, clients,
restarts and any value of the bounds, from the assumptions named in the modules
(`QmdAssumption`, `LendingAssumption`, `EventsAssumption`, `JobsAssumption`, `SyncAssumption`,
`LogAssumption`), which only give the constants their types. A theorem that needs more says so in
its own ASSUME; those hypotheses are explained below. Every invariant and every action property
that a passing run checks is stated by a theorem.

**`QmdMemory_proofs`.**

* `TypeCorrect`: `Spec => []TypeOK`. `TypeOK` is not inductive, since what a step writes comes
  from the locals of its caller. `TypeInv == SharedOK /\ ControlOK` adds for each label which
  calls may be there and that the document has its id and the key is an id where the code has
  one by then, and that what a load has read is finite (`CallOK`).
* `OneRecordPerCanonicalPath` and `OneRowPerCanonicalPath`: `CanonicalUnique` and
  `CanonicalRowUnique` for an eagerly loaded index whose callers add, update, refresh and search
  (`~Lazy`, `Ops \subseteq SafeOps`). The inductive invariant `NameInv` says that a document with
  the id of another has its path (`IdsBound`), that a canonical document that any caller carries
  past the write guard, and every canonical row, has the id its path has in the index
  (`CanonicalSettled`), and that index and rows have one entry per canonical path and per id.
  The restriction is needed: a delete that overtakes an add leaves two rows, and a
  lazy load lets an add mint an id before the row of its path has been seen.
* `IndexAndStoreAgree`: `IndexNamesStore` in such a memory, with a store that does not fail and
  canonical records only. Besides `NameInv` it needs `DocsReachStore`: a document without its row
  is in the hands of a caller that will still write it (`Pushing`). A failed put leaves a document
  without a row, and of several records of one plain path an update may replace another than its own.
* `RetriesAreOneRecord` and `AnsweredIdsResolve`: `NoTwins` and `ReturnedIdResolves` for an eagerly
  loaded index whose callers add and search (`RetryOps`), with failing statements and restarts.
  `RetryInv` says that a caller past its write has its document in the index (`RetryCalls`), that
  every row of a plain path is in the index as well (`NotesIndexed`), that no two
  plain documents are identical (`NotesDiffer`), and that an id was answered only when it was known
  (`AnswersKnown`). A refresh would break `NoTwins`: `index_upsert` replaces the first entry of
  the path.
* `ClientKeepsIndex`, `ClientKeepsCache` and `ClientDeletesReachStore`: `ClientIndexMatchesStore`,
  `ClientCacheFresh` and `ClientDeleteReachesStore` for one client that makes every call, for a
  lazy and an eager memory, with restarts and any cache limit, and a store that does not fail.
  `PlainSpec` is `Spec` with steps from plain states only, which is what the run's
  constraint does; the exceptions it makes are described above. The
  inductive invariant `ClientInv` compares the documents and the rows as sets, label by label:
  equal (`Calm`), different by the one record that was written to the index and not yet to the
  store (`Wrote`), or by the one that has been removed from one of them (`Removed`, and the
  label `evict` of a drop); with what the locals say of both (`CallFacts`) and the cache (`Fresh`).
  No path is an id (`\A path \in Paths : path \notin Ids`), as ULIDs and paths are not mistaken for
  each other: `delete` takes either in one parameter.

**`KeyLending_proofs`.**

* `TypeCorrect`: `Spec => []TypeOK`, which includes the two equivalences about `restored` and
  `todo`. The strengthening `Gated` says that a call writes only for an engine that is restored,
  and that a restore has one owner.
* `RevokedStaysDead`: with one engine (`OneEngineOnly`), `RevokedRowIsDead`, under failing
  statements, restarts and any interleaving. The inductive invariant `DeadInv` needs
  four more facts: tokens in use were minted (`Minted`), one token is one row and one lease
  (`Keyed`), a restore's snapshot has no lease whose row is marked (`SnapSound`), and a caller
  that is about to mark a row has already taken the lease out of the map (`MarkedIsOut`). The
  restriction to one engine is needed: with two, one engine revokes what the other still holds.
* `LentIsStored`: with one engine, `LiveIsStored`. `LiveInv` adds that what a restore has read is
  still in the table (`SnapIsStored`) and that an insert to come names the agent of the held lease.
* `RevocationIsFinal`: with one engine and one client (`OneClient`) next to any number of cleanup
  loops, `RevokedIsFinal`. `FinalInv` says that the writes of a call are of one kind and that a
  cleanup loop only marks, so that nobody can insert a token whose revocation was reported
  (`Gone`). With two clients it is false, as the run `lend_revoke_races_lend` shows.
* `TableMirrorsMap`: under the same hypotheses, `StoreMirrorsLeases`. `MirrorInv` says by what map
  and table differ while calls run: an insert or a new expiry to come is that of the held lease
  unless it has expired (`DirtyIsHeld`), a restore is about to install the table (`SnapIsTable`),
  and every other difference is a row that is about to be marked or has expired (`Mirrored`).

**`LeaseEvents_proofs`**, about the composition with the bus and the listener.

* `EventsTypeCorrect`: `EventsTypeOK`, with the type invariant of the engine carried along.
* `RevocationReportedOnce`: with one engine, `ReportedOnce`. `ReportInv`: a revocation is one
  caller's (`RevocationsDiffer`), a token that was reported is in no map (`ReportedIsOut`), and a
  process that was never restarted has nothing to restore (`FirstProcess`).
* `LentIsStoredWithEvents`: `LiveIsStored` again, of the composition.
* `TaskEndIsTracked`: `DueIsTracked`, for every capacity. `DueInv` adds that a listener that has
  stopped has lagged and that due tokens were minted, so that a lease lent later is not due.

**`KeyLending_refinement` and `LeaseContract_proofs`.**

* `EnginesKeepContract`: `Spec => KeepsContract`, that is, every step of any
  number of engines and callers, failing statements and restarts included, is a step of
  `LeaseContract` or a stutter. It rests on the type invariant `TypeInv` of `KeyLending_proofs`:
  every lease that is known anywhere was minted, so a lend's token is new, and every other
  action leaves the set of known leases (`Known`) as it is or makes it smaller.
* `OneHolderAlways` and `EndedStaysEnded`: what that means for a user: a token
  has one holder at most, and one that has ended does not come back.

**`TrainingJobs_proofs`.** `TypeCorrect`, `CapHolds`, `TrainersAreWatched`, `SlotsAreDriven`,
`PruningIsSafe`, `ArtifactsExist` and `OutcomesAreFinal`, for any number of jobs, uploads, passes,
failing statements and restarts and any limit. One inductive invariant `Inv` serves all of them.
Besides the properties it says where a job can be in its life: the request that holds
`create_lock` is alone and has found a free slot that nobody else can take (`Created`, `Slots`:
this is what makes the limit inductive, with the active jobs one short of it while a request
is between its check and its insert), a cancellation follows an update of the row (`Ended`),
the job a pass is at is terminal like those it has yet to come to (`Pruning`), and whoever is
about to record success has the model on disk or is too late (`Fetched`).

**`MemorySync_proofs`**, for any number of peers and paths.

* `TypeCorrect`: `TypeOK` from `Inv1`, which adds that a session speaks of a path once, that every
  record that is stored, sent or being applied was written, and no later than the last write of
  its path (`Sound`), and that a session applies exactly while its batch is there (`Linked`).
* `NoStaleOverwrites`: `NoStaleOverwrite` from `Inv2`: while nothing overlaps there is one session
  and one batch (`Alone`), and what a merge has looked up is what is stored (`Fresh`).
* `IndexKeepsStep`: `IndexInStep` from `Inv3`: where index and store differ, the path is still to
  be mirrored, and what was merged and not yet mirrored is what the store holds (`Mirroring`).
* `NewestIsKept`: `NewestSurvives`, and with it that the last copy of a path that was ever
  written is never removed, from `Inv4`: what a session knows of both stores is still so or was
  overtaken by its own push (`SessionKept`, `Held`), and every change in a batch leaves the path
  with another peer in a version no older than the one it replaces (`Backed`).

**`EventLog_proofs`**, for all capacities, limits, filters and clients. `TypeCorrect`,
`LogKeepsOrder`, `NothingIsSkipped` and `RowsAreReadOnce` share one inductive invariant `IInv`. The
batch is before the queue, the queue before the inbox, and the log behind all of them
(`Pipeline`); an id is given once (`Table`); a cursor is the id of the last row that was given and
never ahead of the table (`Cursors`).

Only model-checked: the liveness properties (`ExpiredIsDropped`, `TaskEndRevokesUnlessLagged`,
`EndedJobStops`, `LocalJobEnds`, `ManifestsConverge`, `MirroredOrReported`, `ReplayCatchesUp`),
which are beyond the prover. The inductive invariants were themselves checked with
TLC before they were proved. The hypotheses of a theorem are those under which its run is made (an
eager index and the calls of `qmd_writers` and `qmd_retries`, one client and the cleanup loop in
`lend_client`, one engine in `events_keeping_up`), so that neither claims what the other does not.

## Not modelled

`PROJECT.json` has the list with a reason for each part. Most of the repository is interface
code (HTTP, MCP, CLI, panel), text and vector processing (search, ranking, importers, prompt
guards, code graph), cryptography, or calls of outside services: it has no protocol of its own
to check, and what could be said of it is about data that a model would have to leave out.
The parts with state and a protocol of their own are the plan.

## Plan

Done: `QmdMemory`, `KeyLending`, `LeaseEvents`, `LeaseContract`, `TrainingJobs`, `MemorySync`, `EventLog`.
What is left, in this order:

1. `MessageBus`: bounded queues, request and response with a timeout, dead letters, stale
   agents. Can a publisher that waits for a full queue block everyone else?
2. `TaskDispatch`: dispatch, completion and cancellation with the message bus below. Abstract
   specification: a task's life cycle, which never leaves a final state.
3. `SlidingWindow` (rate limiter), `Scheduler` (jobs and retries), `RefreshTokens`,
   `MeshPairing` (replay store and pairing codes), `MeshFallback`, `WalStreamer`, `SpaceKeys`.

Theorems to add: those of the modules above as they come (single use, bounded windows, final
states); for `QmdMemory`, what two callers that also delete still keep.
