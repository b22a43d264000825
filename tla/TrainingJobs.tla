----------------------------- MODULE TrainingJobs -----------------------------
(***************************************************************************)
(* Training jobs (src/training): the table of jobs, the task that drives   *)
(* each job through its backend, the trainer processes of the local        *)
(* backend, the uploads that finish a notebook job, cancellation, the      *)
(* daemon's restart and the retention passes that delete bulky files.      *)
(*                                                                         *)
(* One action is one statement on the table, one critical section of the   *)
(* local backend's process map, or one operation on a job's files: between *)
(* any two of them every other task may run.  Bundles, models, logs and    *)
(* metrics are left out, and so is what makes retention pick a job (its    *)
(* age, the bytes it holds): a pass may pick any job it is allowed to.     *)
(***************************************************************************)
EXTENDS Naturals, FiniteSets

CONSTANTS
    Jobs,           \* identifiers of jobs
    Notebook,       \* the jobs that are created for the notebook backend
    Experts,        \* the jobs whose artifact a mini-expert may refer to
    Uploaders,      \* requests that may be uploading at the same time
    Pruners,        \* retention passes that may run at the same time
    MaxConcurrent,  \* TrainingJobsConfig.max_concurrent
    Batches,        \* bound: the sets of jobs that one behaviour may create
    MaxDbErrors,    \* bound on the statements on the table that fail
    MaxRestarts     \* bound on restarts of the daemon

ASSUME JobsAssumption ==
    /\ IsFiniteSet(Jobs)
    /\ Notebook \subseteq Jobs
    /\ Experts \subseteq Jobs
    /\ Batches \subseteq SUBSET Jobs
    /\ MaxConcurrent \in Nat \ {0}
    /\ MaxDbErrors \in Nat
    /\ MaxRestarts \in Nat

Nobody == "nobody"
ASSUME NobodyAssumption == Nobody \notin Jobs

Local == Jobs \ Notebook

ActiveStatus == {"queued", "running"}
TerminalStatus == {"succeeded", "failed", "cancelled"}
Status == {"absent", "awaiting"} \cup ActiveStatus \cup TerminalStatus

VARIABLES
    status,     \* per job: the status of its row, "absent" before the insert
    artifact,   \* per job: whether the row's artifact_path is set
    driver,     \* per job: what its create_job request, which holds create_lock, and
                \* then its task drive(job) do next
    entry,      \* per job: LocalBackend.procs, "none" when the map has no entry
    trainer,    \* per job: the local trainer process
    files,      \* per job: what its heavy directories hold
    cancelling, \* jobs whose cancel_job request has yet to call backend.cancel
    upload,     \* per uploader: its job, the kind of file and what it does next
    prune,      \* per retention pass: the jobs it keeps and those it will remove
    referenced, \* jobs whose artifact a mini-expert that is not retired refers to
    dbErrors,   \* how many statements on the table have failed
    restarts    \* how often the daemon was restarted

rowVars == <<status, artifact, dbErrors>>
procVars == <<entry, trainer>>
vars == <<status, artifact, driver, entry, trainer, files, cancelling, upload,
          prune, referenced, dbErrors, restarts>>

DriverStep == {"none", "create", "submit", "record", "poll", "fetch", "finish", "fail"}
Entry == {"none", "running", "cancelled", "succeeded", "failed"}
Trainer == {"none", "alive", "dying", "ok", "bad", "orphan"}  \* orphan: of an earlier daemon
File == {"work", "gguf", "report"}     \* work: the backend's own output directory
Uploaded == {"gguf", "report"}

Idle == [step |-> "idle"]
Stored(step, j) == [step |-> step, job |-> j]
UploadState == {Idle} \cup [step : {"body"}, job : Jobs, kind : Uploaded]
                      \cup [step : {"poll", "finish"}, job : Jobs]

NoPass == [step |-> "idle", keep |-> {}, todo |-> {}, current |-> Nobody]
Pass == [step : {"idle", "list", "remove", "clear"}, keep : SUBSET Jobs,
         todo : SUBSET Jobs, current : Jobs \cup {Nobody}]

Terminal(j) == status[j] \in TerminalStatus
Active(j) == status[j] \in ActiveStatus
ActiveLocal == {j \in Local : Active(j)}

-----------------------------------------------------------------------------
(* Statements on the table.  Any of them may fail; the callers log that. *)

DbFails ==
    /\ dbErrors < MaxDbErrors
    /\ dbErrors' = dbErrors + 1
    /\ UNCHANGED <<status, artifact>>

(* Faulty variant: the UPDATE has no condition on the status. *)
Applies_Always(j) == status[j] # "absent"

(* JobRepository::update changes a row only while it is not terminal. *)
Applies(j) == status[j] # "absent" /\ ~Terminal(j)

SetStatus(j, s) ==
    /\ IF Applies(j) THEN status' = [status EXCEPT ![j] = s] ELSE UNCHANGED status
    /\ UNCHANGED <<artifact, dbErrors>>

(* finish_ok: the status and the artifact's path in one UPDATE. *)
SetSucceeded(j) ==
    /\ IF Applies(j)
          THEN /\ status' = [status EXCEPT ![j] = "succeeded"]
               /\ artifact' = [artifact EXCEPT ![j] = TRUE]
          ELSE UNCHANGED <<status, artifact>>
    /\ UNCHANGED dbErrors

-----------------------------------------------------------------------------
(* The local backend's process map. *)

(* LocalBackend::cancel: SIGTERM now, SIGKILL after the grace period. *)
Kill(j) ==
    /\ entry' = [entry EXCEPT ![j] = "cancelled"]
    /\ trainer' = IF entry[j] = "running"
                  THEN [trainer EXCEPT ![j] = IF @ = "alive" THEN "dying" ELSE "none"]
                  ELSE trainer

(* Faulty variant: the job's backend is not looked at. *)
CancelBackend_Local(j) == Kill(j)

(* backend.cancel; the notebook backend's does nothing. *)
CancelBackend(j) == IF j \in Local THEN Kill(j) ELSE UNCHANGED procVars

-----------------------------------------------------------------------------
(* create_job *)

(* Faulty variant: the check does not wait for another request's insert. *)
MayCheck_Unlocked(j) == driver[j] = "none"

(* create_lock is free. *)
MayCheck(j) == \A k \in Jobs : driver[k] # "create"

HasSlot(j) == j \in Local => Cardinality(ActiveLocal) < MaxConcurrent

(* The request takes create_lock and counts the active jobs. *)
CheckSlot(j) ==
    /\ status[j] = "absent"
    /\ \E batch \in Batches : {k \in Jobs : status[k] # "absent"} \cup {j} \subseteq batch
    /\ MayCheck(j)
    /\ HasSlot(j)
    /\ driver' = [driver EXCEPT ![j] = "create"]
    /\ UNCHANGED <<status, artifact, entry, trainer, files, cancelling, upload,
                   prune, referenced, dbErrors, restarts>>

(* It inserts the row, reads it back and spawns the driver, or reports that   *)
(* one of the two statements failed.                                          *)
InsertJob(j) ==
    /\ driver[j] = "create"
    /\ \/ /\ status' = [status EXCEPT ![j] = "queued"]
          /\ driver' = [driver EXCEPT ![j] = "submit"]
          /\ UNCHANGED <<artifact, dbErrors>>
       \/ /\ DbFails
          /\ driver' = [driver EXCEPT ![j] = "none"]
       \/ /\ dbErrors < MaxDbErrors
          /\ dbErrors' = dbErrors + 1
          /\ status' = [status EXCEPT ![j] = "queued"]
          /\ driver' = [driver EXCEPT ![j] = "none"]
          /\ UNCHANGED artifact
    /\ UNCHANGED <<entry, trainer, files, cancelling, upload, prune, referenced, restarts>>

-----------------------------------------------------------------------------
(* drive *)

(* backend.submit.  The local backend starts the trainer, which makes its     *)
(* output directory, and inserts the entry whatever the map held; the         *)
(* notebook backend runs its generator to the end.  Either may fail.          *)
Submit(j) ==
    /\ driver[j] = "submit"
    /\ \/ /\ driver' = [driver EXCEPT ![j] = "record"]
          /\ files' = [files EXCEPT ![j] = @ \cup {"work"}]
          /\ IF j \in Local
             THEN /\ entry' = [entry EXCEPT ![j] = "running"]
                  /\ trainer' = [trainer EXCEPT ![j] = "alive"]
             ELSE UNCHANGED procVars
       \/ /\ driver' = [driver EXCEPT ![j] = "fail"]
          /\ UNCHANGED <<entry, trainer, files>>
    /\ UNCHANGED <<status, artifact, cancelling, upload, prune, referenced, dbErrors,
                   restarts>>

Submitted(j) == IF j \in Local THEN "running" ELSE "awaiting"

(* Faulty variant: a job that was cancelled meanwhile is only forgotten. *)
RecordRefused_NoCancel(j) ==
    /\ driver' = [driver EXCEPT ![j] = "none"]
    /\ UNCHANGED procVars

(* The update did not apply, or failed: drive cancels what it has submitted. *)
RecordRefused(j) ==
    /\ driver' = [driver EXCEPT ![j] = "none"]
    /\ CancelBackend(j)

Record(j) ==
    /\ driver[j] = "record"
    /\ \/ /\ SetStatus(j, Submitted(j))
          /\ IF Applies(j)
             THEN /\ driver' = [driver EXCEPT ![j] = IF j \in Local THEN "poll" ELSE "none"]
                  /\ UNCHANGED procVars
             ELSE RecordRefused(j)
       \/ DbFails /\ RecordRefused(j)
    /\ UNCHANGED <<files, cancelling, upload, prune, referenced, restarts>>

(* LocalBackend::poll finds the job done, with that result. *)
PollDone(j, result) ==
    /\ driver[j] = "poll"
    /\ entry' = [entry EXCEPT ![j] = result]
    /\ driver' = [driver EXCEPT ![j] = CASE result = "succeeded" -> "fetch"
                                         [] result = "failed" -> "fail"
                                         [] OTHER -> "none"]
    /\ UNCHANGED <<status, artifact, files, cancelling, upload, prune, referenced,
                   dbErrors, restarts>>

(* The trainer has exited; poll reaps it. *)
PollExited(j) ==
    /\ entry[j] = "running" /\ trainer[j] \in {"ok", "bad"}
    /\ trainer' = [trainer EXCEPT ![j] = "none"]
    /\ PollDone(j, IF trainer[j] = "ok" THEN "succeeded" ELSE "failed")

(* The trainer has run longer than XAVIER_TRAIN_TIMEOUT. *)
PollTimedOut(j) ==
    /\ entry[j] = "running" /\ trainer[j] = "alive"
    /\ trainer' = [trainer EXCEPT ![j] = "dying"]
    /\ PollDone(j, "failed")

(* A cancellation has replaced the entry. *)
PollCancelled(j) ==
    /\ entry[j] = "cancelled"
    /\ UNCHANGED trainer
    /\ PollDone(j, "cancelled")

(* fetch_artifacts moves the model (and the report, which plays no part for *)
(* a local job) out of the trainer's directory, or finds no model there.    *)
Fetch(j) ==
    /\ driver[j] = "fetch"
    /\ \/ /\ "work" \in files[j]
          /\ files' = [files EXCEPT ![j] = @ \cup {"gguf"}]
          /\ driver' = [driver EXCEPT ![j] = "finish"]
       \/ /\ driver' = [driver EXCEPT ![j] = "fail"]
          /\ UNCHANGED files
    /\ UNCHANGED <<status, artifact, entry, trainer, cancelling, upload, prune,
                   referenced, dbErrors, restarts>>

(* The driver's last update, finish_ok or fail. *)
Conclude(j) ==
    /\ driver[j] \in {"finish", "fail"}
    /\ \/ IF driver[j] = "finish" THEN SetSucceeded(j) ELSE SetStatus(j, "failed")
       \/ DbFails
    /\ driver' = [driver EXCEPT ![j] = "none"]
    /\ UNCHANGED <<entry, trainer, files, cancelling, upload, prune, referenced,
                   restarts>>

-----------------------------------------------------------------------------
(* cancel_job *)

CancelRow(j) ==
    /\ Applies(j)
    /\ SetStatus(j, "cancelled")
    /\ cancelling' = cancelling \cup {j}
    /\ UNCHANGED <<driver, entry, trainer, files, upload, prune, referenced, restarts>>

CancelProcess(j) ==
    /\ j \in cancelling
    /\ cancelling' = cancelling \ {j}
    /\ CancelBackend(j)
    /\ UNCHANGED <<status, artifact, driver, files, upload, prune, referenced,
                   dbErrors, restarts>>

-----------------------------------------------------------------------------
(* The trainer process (train_expert.py) by itself. *)

(* It exits, with a code of 0 or another. *)
TrainerExits(j) ==
    /\ trainer[j] \in {"alive", "orphan"}
    /\ \E code \in {"ok", "bad"} :
          trainer' = [trainer EXCEPT ![j] = IF @ = "orphan" THEN "none" ELSE code]
    /\ UNCHANGED <<status, artifact, driver, entry, files, cancelling, upload, prune,
                   referenced, dbErrors, restarts>>

(* kill_group_escalating has done its work, with SIGKILL at the latest. *)
TrainerDies(j) ==
    /\ trainer[j] = "dying"
    /\ trainer' = [trainer EXCEPT ![j] = "none"]
    /\ UNCHANGED <<status, artifact, driver, entry, files, cancelling, upload, prune,
                   referenced, dbErrors, restarts>>

-----------------------------------------------------------------------------
(* upload_artifact *)

AcceptsUpload(j) == j \in Notebook /\ status[j] = "awaiting"

BeginUpload(u, j, k) ==
    /\ upload[u] = Idle
    /\ AcceptsUpload(j)
    /\ upload' = [upload EXCEPT ![u] = [step |-> "body", job |-> j, kind |-> k]]
    /\ UNCHANGED <<status, artifact, driver, entry, trainer, files, cancelling, prune,
                   referenced, dbErrors, restarts>>

(* The body is in a .part file and is renamed, or is refused. *)
StoreUpload(u) ==
    /\ upload[u].step = "body"
    /\ \/ /\ files' = [files EXCEPT ![upload[u].job] = @ \cup {upload[u].kind}]
          /\ upload' = [upload EXCEPT ![u] = Stored("poll", upload[u].job)]
       \/ /\ upload' = [upload EXCEPT ![u] = Idle]
          /\ UNCHANGED files
    /\ UNCHANGED <<status, artifact, driver, entry, trainer, cancelling, prune,
                   referenced, dbErrors, restarts>>

(* Faulty variant: the model alone completes the job. *)
Complete_ModelOnly(held) == held # {}

(* ManualNotebookBackend::poll: both files are in the artifacts directory. *)
Complete(held) == Uploaded \subseteq held

PollUpload(u) ==
    /\ upload[u].step = "poll"
    /\ upload' = [upload EXCEPT ![u] =
                     IF Complete(files[@.job]) THEN Stored("finish", @.job) ELSE Idle]
    /\ UNCHANGED <<status, artifact, driver, entry, trainer, files, cancelling, prune,
                   referenced, dbErrors, restarts>>

FinishUpload(u) ==
    /\ upload[u].step = "finish"
    /\ SetSucceeded(upload[u].job) \/ DbFails
    /\ upload' = [upload EXCEPT ![u] = Idle]
    /\ UNCHANGED <<driver, entry, trainer, files, cancelling, prune, referenced,
                   restarts>>

-----------------------------------------------------------------------------
(* The retention pass, retention::prune. *)

(* Faulty variant: retention looks at every job that is not running. *)
MayPrune_NotRunning(j, keep) == ~Active(j) /\ files[j] # {} /\ j \notin keep

(* A terminal job with files; a succeeded one only if it is not referenced. *)
MayPrune(j, keep) ==
    /\ Terminal(j)
    /\ files[j] # {}
    /\ status[j] = "succeeded" => j \notin keep

(* The pass reads the references; if it cannot it keeps every succeeded job. *)
ReadReferences(p) ==
    /\ prune[p].step = "idle"
    /\ \E keep \in {referenced, Jobs} :
          prune' = [prune EXCEPT ![p] = [NoPass EXCEPT !.step = "list", !.keep = keep]]
    /\ UNCHANGED <<status, artifact, driver, entry, trainer, files, cancelling, upload,
                   referenced, dbErrors, restarts>>

(* It lists the jobs and decides, by age and budget, which ones to remove. *)
ListJobs(p) ==
    /\ prune[p].step = "list"
    /\ \E todo \in SUBSET {j \in Jobs : MayPrune(j, prune[p].keep)} :
          prune' = [prune EXCEPT ![p] = IF todo = {} THEN NoPass
                                        ELSE [NoPass EXCEPT !.step = "remove", !.todo = todo]]
    /\ UNCHANGED <<status, artifact, driver, entry, trainer, files, cancelling, upload,
                   referenced, dbErrors, restarts>>

(* It deletes the next job's heavy directories, in one step here (an I/O error *)
(* is ignored); an upload that had its .part file in them cannot rename it any *)
(* more.                                                                       *)
RemoveFiles(p, j) ==
    /\ prune[p].step = "remove"
    /\ j \in prune[p].todo
    /\ \/ UNCHANGED <<files, upload>>
       \/ /\ files' = [files EXCEPT ![j] = {}]
          /\ \E lost \in SUBSET {u \in Uploaders : upload[u].step = "body" /\ upload[u].job = j} :
                upload' = [u \in Uploaders |-> IF u \in lost THEN Idle ELSE upload[u]]
    /\ prune' = [prune EXCEPT ![p].step = "clear", ![p].todo = @ \ {j}, ![p].current = j]
    /\ UNCHANGED <<status, artifact, driver, entry, trainer, cancelling, referenced,
                   dbErrors, restarts>>

(* clear_pruned_artifact: the row forgets the path. *)
ClearArtifact(p) ==
    /\ prune[p].step = "clear"
    /\ \/ /\ artifact' = [artifact EXCEPT ![prune[p].current] =
                                @ /\ ~Terminal(prune[p].current)]
          /\ UNCHANGED <<status, dbErrors>>
       \/ DbFails
    /\ prune' = [prune EXCEPT ![p] = IF @.todo = {} THEN NoPass
                                     ELSE [@ EXCEPT !.step = "remove", !.current = Nobody]]
    /\ UNCHANGED <<driver, entry, trainer, files, cancelling, upload, referenced,
                   restarts>>

(* A mini-expert starts, or stops, to refer to a job's artifact. *)
Reference(j) ==
    /\ j \in Experts
    /\ artifact[j]
    /\ j \notin referenced
    /\ referenced' = referenced \cup {j}
    /\ UNCHANGED <<status, artifact, driver, entry, trainer, files, cancelling, upload,
                   prune, dbErrors, restarts>>

Retire(j) ==
    /\ j \in referenced
    /\ referenced' = referenced \ {j}
    /\ UNCHANGED <<status, artifact, driver, entry, trainer, files, cancelling, upload,
                   prune, dbErrors, restarts>>

-----------------------------------------------------------------------------
(* Faulty variant: jobs that run are left to a driver that no longer exists. *)
Interrupted_QueuedOnly(j) == status[j] = "queued"

(* reconcile_after_restart: the jobs that lost their driver. *)
Interrupted(j) == Active(j)

(* The daemon stops and starts again.  The trainers are leaders of process    *)
(* groups of their own: any of them may outlive the daemon, also one that was *)
(* told to stop, because the task that would kill it is gone.                 *)
Restart ==
    /\ restarts < MaxRestarts
    /\ restarts' = restarts + 1
    /\ \/ /\ status' = [j \in Jobs |-> IF Interrupted(j) THEN "failed" ELSE status[j]]
          /\ UNCHANGED <<artifact, dbErrors>>
       \/ DbFails
    /\ \E survivors \in SUBSET {j \in Jobs : trainer[j] \in {"alive", "dying", "orphan"}} :
          trainer' = [j \in Jobs |-> IF j \in survivors THEN "orphan" ELSE "none"]
    /\ driver' = [j \in Jobs |-> "none"]
    /\ entry' = [j \in Jobs |-> "none"]
    /\ cancelling' = {}
    /\ upload' = [u \in Uploaders |-> Idle]
    /\ prune' = [p \in Pruners |-> NoPass]
    /\ UNCHANGED <<files, referenced>>

Init ==
    /\ status = [j \in Jobs |-> "absent"]
    /\ artifact = [j \in Jobs |-> FALSE]
    /\ driver = [j \in Jobs |-> "none"]
    /\ entry = [j \in Jobs |-> "none"]
    /\ trainer = [j \in Jobs |-> "none"]
    /\ files = [j \in Jobs |-> {}]
    /\ cancelling = {}
    /\ upload = [u \in Uploaders |-> Idle]
    /\ prune = [p \in Pruners |-> NoPass]
    /\ referenced = {}
    /\ dbErrors = 0
    /\ restarts = 0

(* Faulty variant: the running time of the trainer is not looked at. *)
Poll_NoTimeout(j) == PollExited(j) \/ PollCancelled(j)

(* One poll of the driver, one way or another. *)
Poll(j) == PollExited(j) \/ PollTimedOut(j) \/ PollCancelled(j)

Drive(j) == Submit(j) \/ Record(j) \/ Poll(j) \/ Fetch(j) \/ Conclude(j)

Next ==
    \/ \E j \in Jobs :
          \/ CheckSlot(j) \/ InsertJob(j)
          \/ Drive(j)
          \/ CancelRow(j) \/ CancelProcess(j)
          \/ TrainerExits(j) \/ TrainerDies(j)
          \/ Reference(j) \/ Retire(j)
    \/ \E u \in Uploaders :
          \/ \E j \in Jobs, k \in Uploaded : BeginUpload(u, j, k)
          \/ StoreUpload(u) \/ PollUpload(u) \/ FinishUpload(u)
    \/ \E p \in Pruners :
          \/ ReadReferences(p) \/ ListJobs(p) \/ ClearArtifact(p)
          \/ \E j \in Jobs : RemoveFiles(p, j)
    \/ Restart

Spec == Init /\ [][Next]_vars

(* A spawned driver is run by the scheduler until it ends, its polls stop a    *)
(* trainer that does not exit by itself at the timeout, and SIGKILL works.  No *)
(* request has to come or to be completed, and no trainer has to exit.         *)
FairSpec ==
    /\ Spec
    /\ \A j \in Local : WF_vars(Drive(j)) /\ WF_vars(TrainerDies(j))

-----------------------------------------------------------------------------
(* Properties. *)

(* Every variable has its type, a retention pass is at a job exactly while it  *)
(* clears it, and a notebook job has no process entry and is never polled.     *)
TypeOK ==
    /\ status \in [Jobs -> Status]
    /\ artifact \in [Jobs -> BOOLEAN]
    /\ driver \in [Jobs -> DriverStep]
    /\ entry \in [Jobs -> Entry]
    /\ trainer \in [Jobs -> Trainer]
    /\ files \in [Jobs -> SUBSET File]
    /\ cancelling \subseteq Jobs
    /\ upload \in [Uploaders -> UploadState]
    /\ prune \in [Pruners -> Pass]
    /\ \A p \in Pruners : prune[p].current # Nobody <=> prune[p].step = "clear"
    /\ referenced \subseteq Jobs
    /\ dbErrors \in 0..MaxDbErrors
    /\ restarts \in 0..MaxRestarts
    /\ \A j \in Notebook : entry[j] = "none" /\ driver[j] \notin {"poll", "fetch", "finish"}

(* There are never more than max_concurrent queued or running local jobs,     *)
(* whatever create_job requests overlap (routes.rs, create_job).              *)
CapRespected == Cardinality(ActiveLocal) <= MaxConcurrent

(* A trainer that this daemon has started and not signalled is still watched  *)
(* by its driver, so its exit, its timeout and a cancellation are all noticed *)
(* (routes.rs, drive_inner).                                                  *)
TrainerIsWatched ==
    \A j \in Jobs : trainer[j] = "alive" => entry[j] = "running" /\ driver[j] \in {"record", "poll"}

(* Unless a statement on the table has failed, a job that is queued or        *)
(* running has a driver that will end it: no slot is lost (routes.rs, drive;  *)
(* jobs.rs, reconcile_after_restart).                                         *)
ActiveIsDriven == dbErrors = 0 => \A j \in Jobs : Active(j) => driver[j] # "none"

(* A row names an artifact only if the file is there or a retention pass is   *)
(* between deleting it and clearing the row; a pass cut short there by a      *)
(* restart or a failed statement leaves the path (retention.rs, prune).       *)
ArtifactExists ==
    (dbErrors = 0 /\ restarts = 0) =>
        \A j \in Jobs : artifact[j] =>
            "gguf" \in files[j] \/ \E p \in Pruners : prune[p].current = j

(* The jobs a retention pass is still going to delete are finished, and stay  *)
(* so however long the pass takes (retention.rs, prune).                      *)
PruneSparesLive == \A p \in Pruners : \A j \in prune[p].todo : Terminal(j)

(* A finished job never changes its status again: no late driver, upload or   *)
(* cancellation overwrites the outcome (jobs.rs, JobRepository::update).      *)
OutcomeIsFinal == [][\A j \in Jobs : Terminal(j) => status'[j] = status[j]]_vars

(* A trainer that this daemon started stops once its job has ended.           *)
EndedJobStops ==
    \A j \in Local : (Terminal(j) /\ trainer[j] = "alive") ~> trainer[j] \in {"none", "orphan"}

(* Unless a statement on the table fails, every local job ends.               *)
LocalJobEnds == \A j \in Local : Active(j) ~> (Terminal(j) \/ dbErrors > 0)

(* Documented and not kept: "A job whose artifact is referenced by a          *)
(* non-retired mini-expert is never pruned" (retention.rs:5).                 *)
ReferencedIsNeverPruned ==
    [][\A j \in Jobs : ("gguf" \in files[j] /\ "gguf" \notin files'[j]) => j \notin referenced]_vars

=============================================================================
