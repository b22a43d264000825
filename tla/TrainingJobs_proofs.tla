-------------------------- MODULE TrainingJobs_proofs --------------------------
(***************************************************************************)
(* Proofs about TrainingJobs, for any jobs, uploaders, retention passes,   *)
(* failing statements and restarts.                                        *)
(***************************************************************************)
EXTENDS TrainingJobs, FiniteSetTheorems, TLAPS

(* A job has a driver beyond create_job only once its row is there, and only  *)
(* notebook jobs wait for an upload.                                          *)
Created ==
    \A j \in Jobs :
        /\ status[j] = "absent" => driver[j] \in {"none", "create"}
        /\ driver[j] = "create" => status[j] = "absent"
        /\ j \in Local => status[j] # "awaiting"

(* create_lock: one request at a time has counted, and its slot is still free. *)
Slots ==
    /\ \A j, k \in Jobs : driver[j] = "create" /\ driver[k] = "create" => j = k
    /\ \A j \in Local : driver[j] = "create" => Cardinality(ActiveLocal) < MaxConcurrent
    /\ CapRespected

(* A cancellation follows the update of the row, or drive's that was refused. *)
Ended ==
    /\ \A j \in cancelling : Terminal(j)
    /\ \A j \in Jobs : entry[j] = "cancelled" => Terminal(j) \/ dbErrors > 0

(* The job a pass is at is finished, like those it has yet to come to. *)
Pruning ==
    /\ PruneSparesLive
    /\ \A p \in Pruners : prune[p].step = "clear" => Terminal(prune[p].current)

(* Who is about to record success has the model in place, or is too late. *)
HasModel(j) == "gguf" \in files[j] \/ Terminal(j)
Fetched ==
    /\ \A j \in Jobs : driver[j] = "finish" => HasModel(j)
    /\ \A u \in Uploaders : upload[u].step = "finish" => HasModel(upload[u].job)

Inv == TypeOK /\ Created /\ Slots /\ TrainerIsWatched /\ Ended /\ ActiveIsDriven
       /\ Pruning /\ Fetched /\ ArtifactExists

-----------------------------------------------------------------------------
(* A pass that keeps some jobs, removes some or is at one has its type. *)
LEMMA PassType ==
    /\ NoPass \in Pass
    /\ \A keep \in SUBSET Jobs : [NoPass EXCEPT !.step = "list", !.keep = keep] \in Pass
    /\ \A todo \in SUBSET Jobs : [NoPass EXCEPT !.step = "remove", !.todo = todo] \in Pass
  BY DEF NoPass, Pass

(* artifact_path is set, or cleared. *)
LEMMA ArtifactType ==
    ASSUME artifact \in [Jobs -> BOOLEAN], NEW j \in Jobs, NEW b \in BOOLEAN
    PROVE  [artifact EXCEPT ![j] = b] \in [Jobs -> BOOLEAN]
  BY Zenon

LEMMA SucceededType ==
    ASSUME TypeOK, NEW j \in Jobs, SetSucceeded(j) PROVE artifact' \in [Jobs -> BOOLEAN]
  <1>1. CASE artifact' = artifact
    BY <1>1 DEF TypeOK
  <1>2. CASE artifact' = [artifact EXCEPT ![j] = TRUE]
    BY <1>2, ArtifactType DEF TypeOK
  <1>3. QED
    BY <1>1, <1>2 DEF SetSucceeded

(* The types. *)
LEMMA TypeStep ==
    ASSUME Inv, [Next]_vars PROVE TypeOK'
  <1> USE DEF Inv, TypeOK, Status, ActiveStatus, TerminalStatus, DriverStep, Entry,
             Trainer, File, Uploaded, UploadState, Pass, Local
  <1>1. ASSUME NEW j \in Jobs, CheckSlot(j) PROVE TypeOK'
    BY <1>1, JobsAssumption, NobodyAssumption DEF CheckSlot, MayCheck, HasSlot
  <1>2. ASSUME NEW j \in Jobs, InsertJob(j) PROVE TypeOK'
    BY <1>2, JobsAssumption, NobodyAssumption DEF InsertJob, DbFails
  <1>3. ASSUME NEW j \in Jobs, Submit(j) PROVE TypeOK'
    BY <1>3, JobsAssumption, NobodyAssumption DEF Submit, procVars
  <1>4. ASSUME NEW j \in Jobs, Record(j) PROVE TypeOK'
    <2>1. status' \in [Jobs -> Status] /\ artifact' = artifact /\ dbErrors' \in 0..MaxDbErrors
      BY <1>4, JobsAssumption, NobodyAssumption DEF Record, SetStatus, Submitted, DbFails
    <2>2. /\ entry' \in [Jobs -> Entry] /\ trainer' \in [Jobs -> Trainer]
          /\ \A n \in Notebook : entry'[n] = "none"
      BY <1>4, JobsAssumption, NobodyAssumption
         DEF Record, RecordRefused, CancelBackend, Kill, procVars
    <2>3. /\ driver' \in [Jobs -> DriverStep]
          /\ \A n \in Notebook : driver'[n] \notin {"poll", "fetch", "finish"}
      BY <1>4, JobsAssumption, NobodyAssumption DEF Record, RecordRefused
    <2>4. QED
      BY <1>4, <2>1, <2>2, <2>3 DEF Record
  <1>5. ASSUME NEW j \in Jobs, PollExited(j) PROVE TypeOK'
    BY <1>5, JobsAssumption, NobodyAssumption DEF PollExited, PollDone
  <1>6. ASSUME NEW j \in Jobs, PollTimedOut(j) PROVE TypeOK'
    BY <1>6, JobsAssumption, NobodyAssumption DEF PollTimedOut, PollDone
  <1>7. ASSUME NEW j \in Jobs, PollCancelled(j) PROVE TypeOK'
    BY <1>7, JobsAssumption, NobodyAssumption DEF PollCancelled, PollDone
  <1>8. ASSUME NEW j \in Jobs, Fetch(j) PROVE TypeOK'
    BY <1>8, JobsAssumption, NobodyAssumption DEF Fetch
  <1>9. ASSUME NEW j \in Jobs, Conclude(j) PROVE TypeOK'
    <2>1. /\ status' \in [Jobs -> Status] /\ artifact' \in [Jobs -> BOOLEAN]
          /\ dbErrors' \in 0..MaxDbErrors
      BY <1>9, JobsAssumption, NobodyAssumption, SucceededType
         DEF Conclude, SetStatus, SetSucceeded, DbFails
    <2>2. QED
      BY <1>9, <2>1, JobsAssumption, NobodyAssumption DEF Conclude
  <1>10. ASSUME NEW j \in Jobs, CancelRow(j) PROVE TypeOK'
    BY <1>10, JobsAssumption, NobodyAssumption DEF CancelRow, SetStatus, Applies
  <1>11. ASSUME NEW j \in Jobs, CancelProcess(j) PROVE TypeOK'
    BY <1>11, JobsAssumption, NobodyAssumption DEF CancelProcess, CancelBackend, Kill,
       procVars
  <1>12. ASSUME NEW j \in Jobs,
              TrainerExits(j) \/ TrainerDies(j) \/ Reference(j) \/ Retire(j)
        PROVE  TypeOK'
    BY <1>12, JobsAssumption, NobodyAssumption DEF TrainerExits, TrainerDies, Reference,
       Retire
  <1>13. ASSUME NEW u \in Uploaders,
              \E i \in Jobs, k \in Uploaded : BeginUpload(u, i, k)
        PROVE  TypeOK'
    BY <1>13, JobsAssumption, NobodyAssumption DEF BeginUpload, AcceptsUpload
  <1>14. ASSUME NEW u \in Uploaders, StoreUpload(u) PROVE TypeOK'
    BY <1>14, JobsAssumption, NobodyAssumption DEF StoreUpload, Stored, Idle
  <1>15. ASSUME NEW u \in Uploaders, PollUpload(u) PROVE TypeOK'
    BY <1>15, JobsAssumption, NobodyAssumption DEF PollUpload, Stored, Idle, Complete
  <1>16. ASSUME NEW u \in Uploaders, FinishUpload(u) PROVE TypeOK'
    <2>1. /\ status' \in [Jobs -> Status] /\ artifact' \in [Jobs -> BOOLEAN]
          /\ dbErrors' \in 0..MaxDbErrors
      BY <1>16, JobsAssumption, NobodyAssumption, SucceededType
         DEF FinishUpload, SetSucceeded, DbFails
    <2>2. upload' \in [Uploaders -> UploadState]
      BY <1>16 DEF FinishUpload
    <2>3. QED
      BY <1>16, <2>1, <2>2, JobsAssumption, NobodyAssumption DEF FinishUpload
  <1>17. ASSUME NEW p \in Pruners, ReadReferences(p) PROVE TypeOK'
    <2> HIDE DEF Pass
    <2>1. PICK keep \in {referenced, Jobs} :
             prune' = [prune EXCEPT ![p] = [NoPass EXCEPT !.step = "list", !.keep = keep]]
      BY <1>17 DEF ReadReferences
    <2>2. keep \in SUBSET Jobs
      BY <2>1
    <2>3. [NoPass EXCEPT !.step = "list", !.keep = keep] \in Pass
      BY <2>2, PassType
    <2>4. prune' \in [Pruners -> Pass]
      BY <2>1, <2>3
    <2>5. \A q \in Pruners : prune'[q].current # Nobody <=> prune'[q].step = "clear"
      BY <1>17, JobsAssumption, NobodyAssumption DEF ReadReferences, NoPass
    <2>6. QED
      BY <1>17, <2>4, <2>5, JobsAssumption, NobodyAssumption DEF ReadReferences
  <1>18. ASSUME NEW p \in Pruners, ListJobs(p) PROVE TypeOK'
    <2> HIDE DEF Pass
    <2>1. PICK todo \in SUBSET {j \in Jobs : MayPrune(j, prune[p].keep)} :
             prune' = [prune EXCEPT ![p] = (IF todo = {} THEN NoPass
                      ELSE [NoPass EXCEPT !.step = "remove", !.todo = todo])]
      BY <1>18 DEF ListJobs
    <2>2. todo \in SUBSET Jobs
      BY <2>1
    <2>3. (IF todo = {} THEN NoPass
                      ELSE [NoPass EXCEPT !.step = "remove", !.todo = todo]) \in Pass
      BY <2>2, PassType
    <2>4. prune' \in [Pruners -> Pass]
      BY <2>1, <2>3
    <2>5. \A q \in Pruners : prune'[q].current # Nobody <=> prune'[q].step = "clear"
      BY <1>18, JobsAssumption, NobodyAssumption DEF ListJobs, NoPass
    <2>6. QED
      BY <1>18, <2>4, <2>5, JobsAssumption, NobodyAssumption DEF ListJobs
  <1>19. ASSUME NEW p \in Pruners,
              \E i \in Jobs : RemoveFiles(p, i)
        PROVE  TypeOK'
    <2>1. PICK i \in Jobs : RemoveFiles(p, i)
      BY <1>19
    <2>2. QED
      BY <2>1, JobsAssumption, NobodyAssumption DEF RemoveFiles, Idle
  <1>20. ASSUME NEW p \in Pruners, ClearArtifact(p) PROVE TypeOK'
    <2>1. prune' \in [Pruners -> Pass]
      <3>1. [prune[p] EXCEPT !.step = "remove", !.current = Nobody] \in Pass
        <4>1. prune[p] \in Pass
          OBVIOUS
        <4>2. QED
          BY <4>1 DEF Pass
      <3>2. QED
        BY <1>20, <3>1, PassType DEF ClearArtifact
    <2>2. \A q \in Pruners : prune'[q].current # Nobody <=> prune'[q].step = "clear"
      BY <1>20, JobsAssumption, NobodyAssumption DEF ClearArtifact, NoPass
    <2>3. artifact' \in [Jobs -> BOOLEAN]
      <3>1. prune[p].current \in Jobs
        BY <1>20, JobsAssumption, NobodyAssumption DEF ClearArtifact
      <3>2. (artifact[prune[p].current] /\ ~Terminal(prune[p].current)) \in BOOLEAN
        BY Zenon
      <3>3. QED
        BY <1>20, <3>1, <3>2, ArtifactType DEF ClearArtifact, DbFails
    <2>3a. dbErrors' \in 0..MaxDbErrors /\ status' = status
      BY <1>20, JobsAssumption, NobodyAssumption DEF ClearArtifact, DbFails
    <2>4. QED
      BY <1>20, <2>1, <2>2, <2>3, <2>3a DEF ClearArtifact
  <1>21. CASE Restart
    <2>1. /\ status' \in [Jobs -> Status] /\ artifact' = artifact
          /\ dbErrors' \in 0..MaxDbErrors /\ restarts' \in 0..MaxRestarts
      BY <1>21, JobsAssumption, NobodyAssumption DEF Restart, DbFails
    <2>2. trainer' \in [Jobs -> Trainer]
      BY <1>21 DEF Restart
    <2>3. prune' \in [Pruners -> Pass] /\ upload' \in [Uploaders -> UploadState]
      BY <1>21, PassType DEF Restart
    <2>4. \A q \in Pruners : prune'[q].current # Nobody <=> prune'[q].step = "clear"
      BY <1>21 DEF Restart, NoPass
    <2>5. QED
      BY <1>21, <2>1, <2>2, <2>3, <2>4, JobsAssumption, NobodyAssumption DEF Restart
  <1>22. CASE UNCHANGED vars
    BY <1>22, JobsAssumption, NobodyAssumption DEF vars
  <1>23. QED
    BY <1>1, <1>2, <1>3, <1>4, <1>5, <1>6, <1>7, <1>8, <1>9, <1>10, <1>11, <1>12, <1>13,
       <1>14, <1>15, <1>16, <1>17, <1>18, <1>19, <1>20, <1>21, <1>22 DEF Next, Drive,
       Poll

(* The row comes before the driver. *)
LEMMA CreatedStep ==
    ASSUME Inv, [Next]_vars PROVE Created'
  <1> USE DEF Inv, TypeOK, Created, ActiveStatus, TerminalStatus, Local
  <1>1. ASSUME NEW j \in Jobs, CheckSlot(j) PROVE Created'
    BY <1>1 DEF CheckSlot
  <1>2. ASSUME NEW j \in Jobs, InsertJob(j) PROVE Created'
    BY <1>2 DEF InsertJob, DbFails
  <1>3. ASSUME NEW j \in Jobs, Submit(j) PROVE Created'
    BY <1>3 DEF Submit
  <1>4. ASSUME NEW j \in Jobs, Record(j) PROVE Created'
    BY <1>4 DEF Record, SetStatus, Submitted, RecordRefused, DbFails
  <1>5. ASSUME NEW j \in Jobs, PollExited(j) PROVE Created'
    BY <1>5 DEF PollExited, PollDone
  <1>6. ASSUME NEW j \in Jobs, PollTimedOut(j) PROVE Created'
    BY <1>6 DEF PollTimedOut, PollDone
  <1>7. ASSUME NEW j \in Jobs, PollCancelled(j) PROVE Created'
    BY <1>7 DEF PollCancelled, PollDone
  <1>8. ASSUME NEW j \in Jobs, Fetch(j) PROVE Created'
    BY <1>8 DEF Fetch
  <1>9. ASSUME NEW j \in Jobs, Conclude(j) PROVE Created'
    BY <1>9 DEF Conclude, SetStatus, SetSucceeded, Applies, DbFails
  <1>10. ASSUME NEW j \in Jobs, CancelRow(j) PROVE Created'
    BY <1>10 DEF CancelRow, SetStatus, Applies
  <1>11. ASSUME NEW j \in Jobs,
              CancelProcess(j) \/ TrainerExits(j) \/ TrainerDies(j) \/ Reference(j) \/
                Retire(j)
        PROVE  Created'
    BY <1>11 DEF CancelProcess, TrainerExits, TrainerDies, Reference, Retire
  <1>12. ASSUME NEW u \in Uploaders, FinishUpload(u) PROVE Created'
    BY <1>12 DEF FinishUpload, SetSucceeded, Applies, DbFails, Idle
  <1>13. ASSUME NEW u \in Uploaders,
              (\E i \in Jobs, k \in Uploaded : BeginUpload(u, i, k)) \/ StoreUpload(u)
                \/ PollUpload(u)
        PROVE  Created'
    BY <1>13 DEF BeginUpload, StoreUpload, PollUpload
  <1>14. CASE Restart
    BY <1>14 DEF Restart, Interrupted, DbFails
  <1>15. CASE UNCHANGED vars
    BY <1>15 DEF vars
  <1>16. ASSUME NEW p \in Pruners,
              ReadReferences(p) \/ ListJobs(p) \/ (\E i \in Jobs : RemoveFiles(p, i)) \/
                ClearArtifact(p)
        PROVE  Created'
    BY <1>16 DEF ReadReferences, ListJobs, RemoveFiles, ClearArtifact, DbFails
  <1>17. QED
    BY <1>1, <1>2, <1>3, <1>4, <1>5, <1>6, <1>7, <1>8, <1>9, <1>10, <1>11, <1>12, <1>13,
       <1>14, <1>15, <1>16 DEF Next, Drive, Poll

(* A trainer that is alive is watched. *)
LEMMA WatchedStep ==
    ASSUME Inv, [Next]_vars PROVE TrainerIsWatched'
  <1> USE DEF Inv, TypeOK, Created, TrainerIsWatched, Local
  <1>1. ASSUME NEW j \in Jobs, CheckSlot(j) PROVE TrainerIsWatched'
    BY <1>1 DEF CheckSlot
  <1>2. ASSUME NEW j \in Jobs, InsertJob(j) PROVE TrainerIsWatched'
    BY <1>2 DEF InsertJob
  <1>3. ASSUME NEW j \in Jobs, Submit(j) PROVE TrainerIsWatched'
    BY <1>3 DEF Submit, procVars
  <1>4. ASSUME NEW j \in Jobs, Record(j) PROVE TrainerIsWatched'
    BY <1>4 DEF Record, RecordRefused, CancelBackend, Kill, procVars
  <1>5. ASSUME NEW j \in Jobs, PollExited(j) PROVE TrainerIsWatched'
    BY <1>5 DEF PollExited, PollDone
  <1>6. ASSUME NEW j \in Jobs, PollTimedOut(j) PROVE TrainerIsWatched'
    BY <1>6 DEF PollTimedOut, PollDone
  <1>7. ASSUME NEW j \in Jobs, PollCancelled(j) PROVE TrainerIsWatched'
    BY <1>7 DEF PollCancelled, PollDone
  <1>8. ASSUME NEW j \in Jobs, Fetch(j) PROVE TrainerIsWatched'
    BY <1>8 DEF Fetch
  <1>9. ASSUME NEW j \in Jobs, Conclude(j) PROVE TrainerIsWatched'
    BY <1>9 DEF Conclude
  <1>10. ASSUME NEW j \in Jobs, CancelProcess(j) PROVE TrainerIsWatched'
    BY <1>10 DEF CancelProcess, CancelBackend, Kill, procVars
  <1>11. ASSUME NEW j \in Jobs, TrainerExits(j) PROVE TrainerIsWatched'
    BY <1>11 DEF TrainerExits
  <1>12. ASSUME NEW j \in Jobs, TrainerDies(j) PROVE TrainerIsWatched'
    BY <1>12 DEF TrainerDies
  <1>13. ASSUME NEW j \in Jobs,
              CancelRow(j) \/ Reference(j) \/ Retire(j)
        PROVE  TrainerIsWatched'
    BY <1>13 DEF CancelRow, Reference, Retire
  <1>14. CASE Restart
    BY <1>14 DEF Restart
  <1>15. CASE UNCHANGED vars
    BY <1>15 DEF vars
  <1>16. ASSUME NEW u \in Uploaders,
              (\E i \in Jobs, k \in Uploaded : BeginUpload(u, i, k)) \/ StoreUpload(u)
                \/ PollUpload(u) \/ FinishUpload(u)
        PROVE  TrainerIsWatched'
    BY <1>16 DEF BeginUpload, StoreUpload, PollUpload, FinishUpload
  <1>17. ASSUME NEW p \in Pruners,
              ReadReferences(p) \/ ListJobs(p) \/ (\E i \in Jobs : RemoveFiles(p, i)) \/
                ClearArtifact(p)
        PROVE  TrainerIsWatched'
    BY <1>17 DEF ReadReferences, ListJobs, RemoveFiles, ClearArtifact
  <1>18. QED
    BY <1>1, <1>2, <1>3, <1>4, <1>5, <1>6, <1>7, <1>8, <1>9, <1>10, <1>11, <1>12, <1>13,
       <1>14, <1>15, <1>16, <1>17 DEF Next, Drive, Poll

(* A cancelled process is that of a finished job. *)
LEMMA EndedStep ==
    ASSUME Inv, [Next]_vars PROVE Ended'
  <1> USE DEF Inv, TypeOK, Created, Ended, Terminal, TerminalStatus, Local
  <1>1. ASSUME NEW j \in Jobs, InsertJob(j) PROVE Ended'
    BY <1>1 DEF InsertJob, DbFails
  <1>2. ASSUME NEW j \in Jobs, Submit(j) PROVE Ended'
    BY <1>2 DEF Submit, procVars
  <1>3. ASSUME NEW j \in Jobs, Record(j) PROVE Ended'
    BY <1>3 DEF Record, SetStatus, Applies, Submitted, RecordRefused, CancelBackend,
       Kill, DbFails, procVars
  <1>4. ASSUME NEW j \in Jobs, PollExited(j) PROVE Ended'
    BY <1>4 DEF PollExited, PollDone
  <1>5. ASSUME NEW j \in Jobs, PollTimedOut(j) PROVE Ended'
    BY <1>5 DEF PollTimedOut, PollDone
  <1>6. ASSUME NEW j \in Jobs, PollCancelled(j) PROVE Ended'
    BY <1>6 DEF PollCancelled, PollDone
  <1>7. ASSUME NEW j \in Jobs, Conclude(j) PROVE Ended'
    BY <1>7 DEF Conclude, SetStatus, SetSucceeded, Applies, DbFails
  <1>8. ASSUME NEW j \in Jobs, CancelRow(j) PROVE Ended'
    BY <1>8 DEF CancelRow, SetStatus, Applies
  <1>9. ASSUME NEW j \in Jobs, CancelProcess(j) PROVE Ended'
    BY <1>9 DEF CancelProcess, CancelBackend, Kill, procVars
  <1>10. ASSUME NEW j \in Jobs,
              CheckSlot(j) \/ Fetch(j) \/ TrainerExits(j) \/ TrainerDies(j) \/
                Reference(j) \/ Retire(j)
        PROVE  Ended'
    BY <1>10 DEF CheckSlot, Fetch, TrainerExits, TrainerDies, Reference, Retire
  <1>11. ASSUME NEW u \in Uploaders, FinishUpload(u) PROVE Ended'
    BY <1>11 DEF FinishUpload, SetSucceeded, Applies, DbFails, Idle
  <1>12. ASSUME NEW u \in Uploaders,
              (\E i \in Jobs, k \in Uploaded : BeginUpload(u, i, k)) \/ StoreUpload(u)
                \/ PollUpload(u)
        PROVE  Ended'
    BY <1>12 DEF BeginUpload, StoreUpload, PollUpload
  <1>13. ASSUME NEW p \in Pruners,
              \E i \in Jobs : RemoveFiles(p, i)
        PROVE  Ended'
    BY <1>13 DEF RemoveFiles, Idle
  <1>14. ASSUME NEW p \in Pruners, ClearArtifact(p) PROVE Ended'
    BY <1>14 DEF ClearArtifact, NoPass, DbFails
  <1>15. ASSUME NEW p \in Pruners,
              ReadReferences(p) \/ ListJobs(p)
        PROVE  Ended'
    BY <1>15 DEF ReadReferences, ListJobs
  <1>16. CASE Restart
    BY <1>16 DEF Restart
  <1>17. CASE UNCHANGED vars
    BY <1>17 DEF vars
  <1>18. QED
    BY <1>1, <1>2, <1>3, <1>4, <1>5, <1>6, <1>7, <1>8, <1>9, <1>10, <1>11, <1>12, <1>13,
       <1>14, <1>15, <1>16, <1>17 DEF Next, Drive, Poll

(* An active job has its driver. *)
LEMMA DrivenStep ==
    ASSUME Inv, [Next]_vars PROVE ActiveIsDriven'
  <1> USE DEF Inv, TypeOK, Created, Ended, ActiveIsDriven, Terminal, Active,
             TerminalStatus, ActiveStatus, Local
  <1>1. ASSUME NEW j \in Jobs, CheckSlot(j) PROVE ActiveIsDriven'
    BY <1>1 DEF CheckSlot
  <1>2. ASSUME NEW j \in Jobs, InsertJob(j) PROVE ActiveIsDriven'
    BY <1>2 DEF InsertJob, DbFails
  <1>3. ASSUME NEW j \in Jobs, Submit(j) PROVE ActiveIsDriven'
    BY <1>3 DEF Submit
  <1>4. ASSUME NEW j \in Jobs, Record(j) PROVE ActiveIsDriven'
    BY <1>4 DEF Record, SetStatus, Applies, Submitted, RecordRefused, CancelBackend,
       Kill, DbFails, procVars
  <1>5. ASSUME NEW j \in Jobs, PollExited(j) PROVE ActiveIsDriven'
    BY <1>5 DEF PollExited, PollDone
  <1>6. ASSUME NEW j \in Jobs, PollTimedOut(j) PROVE ActiveIsDriven'
    BY <1>6 DEF PollTimedOut, PollDone
  <1>7. ASSUME NEW j \in Jobs, PollCancelled(j) PROVE ActiveIsDriven'
    BY <1>7 DEF PollCancelled, PollDone
  <1>8. ASSUME NEW j \in Jobs, Fetch(j) PROVE ActiveIsDriven'
    BY <1>8 DEF Fetch
  <1>9. ASSUME NEW j \in Jobs, Conclude(j) PROVE ActiveIsDriven'
    BY <1>9 DEF Conclude, SetStatus, SetSucceeded, Applies, DbFails
  <1>10. ASSUME NEW j \in Jobs, CancelRow(j) PROVE ActiveIsDriven'
    BY <1>10 DEF CancelRow, SetStatus, Applies
  <1>11. ASSUME NEW j \in Jobs,
              CancelProcess(j) \/ TrainerExits(j) \/ TrainerDies(j) \/ Reference(j) \/
                Retire(j)
        PROVE  ActiveIsDriven'
    BY <1>11 DEF CancelProcess, TrainerExits, TrainerDies, Reference, Retire
  <1>12. ASSUME NEW u \in Uploaders, FinishUpload(u) PROVE ActiveIsDriven'
    BY <1>12 DEF FinishUpload, SetSucceeded, Applies, DbFails, Idle
  <1>13. ASSUME NEW u \in Uploaders,
              (\E i \in Jobs, k \in Uploaded : BeginUpload(u, i, k)) \/ StoreUpload(u)
                \/ PollUpload(u)
        PROVE  ActiveIsDriven'
    BY <1>13 DEF BeginUpload, StoreUpload, PollUpload
  <1>14. ASSUME NEW p \in Pruners, ClearArtifact(p) PROVE ActiveIsDriven'
    BY <1>14 DEF ClearArtifact, NoPass, DbFails
  <1>15. ASSUME NEW p \in Pruners,
              ReadReferences(p) \/ ListJobs(p) \/ (\E i \in Jobs : RemoveFiles(p, i))
        PROVE  ActiveIsDriven'
    BY <1>15 DEF ReadReferences, ListJobs, RemoveFiles
  <1>16. CASE Restart
    BY <1>16 DEF Restart, DbFails, Interrupted
  <1>17. CASE UNCHANGED vars
    BY <1>17 DEF vars
  <1>18. QED
    BY <1>1, <1>2, <1>3, <1>4, <1>5, <1>6, <1>7, <1>8, <1>9, <1>10, <1>11, <1>12, <1>13,
       <1>14, <1>15, <1>16, <1>17 DEF Next, Drive, Poll

(* A finished job keeps its status. *)
KeepsOutcomes == \A i \in Jobs : Terminal(i) => status'[i] = status[i]

LEMMA TerminalStays ==
    ASSUME Inv, [Next]_vars PROVE KeepsOutcomes
  <1> USE DEF Inv, TypeOK, Created, KeepsOutcomes, Terminal, TerminalStatus, Active,
             ActiveStatus
  <1>1. ASSUME NEW j \in Jobs, InsertJob(j) PROVE KeepsOutcomes
    BY <1>1 DEF InsertJob, DbFails
  <1>2. ASSUME NEW j \in Jobs, Record(j) PROVE KeepsOutcomes
    BY <1>2 DEF Record, SetStatus, Applies, DbFails
  <1>3. ASSUME NEW j \in Jobs, Conclude(j) PROVE KeepsOutcomes
    BY <1>3 DEF Conclude, SetStatus, SetSucceeded, Applies, DbFails
  <1>4. ASSUME NEW j \in Jobs, CancelRow(j) PROVE KeepsOutcomes
    BY <1>4 DEF CancelRow, SetStatus, Applies
  <1>5. ASSUME NEW j \in Jobs,
              CheckSlot(j) \/ Submit(j) \/ PollExited(j) \/ PollTimedOut(j) \/
                PollCancelled(j) \/ Fetch(j) \/ CancelProcess(j) \/ TrainerExits(j) \/
                TrainerDies(j) \/ Reference(j) \/ Retire(j)
        PROVE  KeepsOutcomes
    BY <1>5 DEF CheckSlot, Submit, PollExited, PollDone, PollTimedOut, PollCancelled,
       Fetch, CancelProcess, TrainerExits, TrainerDies, Reference, Retire
  <1>6. ASSUME NEW u \in Uploaders, FinishUpload(u) PROVE KeepsOutcomes
    BY <1>6 DEF FinishUpload, SetSucceeded, Applies, DbFails, Idle
  <1>7. ASSUME NEW u \in Uploaders,
              (\E i \in Jobs, k \in Uploaded : BeginUpload(u, i, k)) \/ StoreUpload(u)
                \/ PollUpload(u)
        PROVE  KeepsOutcomes
    BY <1>7 DEF BeginUpload, StoreUpload, PollUpload
  <1>8. CASE Restart
    BY <1>8 DEF Restart, DbFails, Interrupted
  <1>9. CASE UNCHANGED vars
    BY <1>9 DEF vars
  <1>10. ASSUME NEW p \in Pruners,
              ReadReferences(p) \/ ListJobs(p) \/ (\E i \in Jobs : RemoveFiles(p, i)) \/
                ClearArtifact(p)
        PROVE  KeepsOutcomes
    BY <1>10 DEF ReadReferences, ListJobs, RemoveFiles, ClearArtifact, DbFails
  <1>11. QED
    BY <1>1, <1>2, <1>3, <1>4, <1>5, <1>6, <1>7, <1>8, <1>9, <1>10 DEF Next, Drive, Poll

(* Only create_job makes a job active. *)
NoNewActive == ActiveLocal' \subseteq ActiveLocal \/ \E i \in Jobs : InsertJob(i)

LEMMA ActiveShrinks ==
    ASSUME Inv, [Next]_vars PROVE NoNewActive
  <1> USE DEF Inv, TypeOK, Created, NoNewActive, ActiveLocal, Active, ActiveStatus,
             TerminalStatus, Status, Local, Terminal
  <1>1. ASSUME NEW j \in Jobs, InsertJob(j) PROVE NoNewActive
    BY <1>1
  <1>2. ASSUME NEW j \in Jobs, Record(j) PROVE NoNewActive
    BY <1>2 DEF Record, SetStatus, Applies, Submitted, DbFails
  <1>3. ASSUME NEW j \in Jobs, Conclude(j) PROVE NoNewActive
    BY <1>3 DEF Conclude, SetStatus, SetSucceeded, Applies, DbFails
  <1>4. ASSUME NEW j \in Jobs, CancelRow(j) PROVE NoNewActive
    BY <1>4 DEF CancelRow, SetStatus, Applies
  <1>5. ASSUME NEW j \in Jobs,
              CheckSlot(j) \/ Submit(j) \/ PollExited(j) \/ PollTimedOut(j) \/
                PollCancelled(j) \/ Fetch(j) \/ CancelProcess(j) \/ TrainerExits(j) \/
                TrainerDies(j) \/ Reference(j) \/ Retire(j)
        PROVE  NoNewActive
    BY <1>5 DEF CheckSlot, Submit, PollExited, PollDone, PollTimedOut, PollCancelled,
       Fetch, CancelProcess, TrainerExits, TrainerDies, Reference, Retire
  <1>6. ASSUME NEW u \in Uploaders, FinishUpload(u) PROVE NoNewActive
    BY <1>6 DEF FinishUpload, SetSucceeded, Applies, DbFails, Idle
  <1>7. ASSUME NEW u \in Uploaders,
              (\E i \in Jobs, k \in Uploaded : BeginUpload(u, i, k)) \/ StoreUpload(u)
                \/ PollUpload(u)
        PROVE  NoNewActive
    BY <1>7 DEF BeginUpload, StoreUpload, PollUpload
  <1>8. CASE Restart
    BY <1>8 DEF Restart, DbFails, Interrupted
  <1>9. CASE UNCHANGED vars
    BY <1>9 DEF vars
  <1>10. ASSUME NEW p \in Pruners,
              ReadReferences(p) \/ ListJobs(p) \/ (\E i \in Jobs : RemoveFiles(p, i)) \/
                ClearArtifact(p)
        PROVE  NoNewActive
    BY <1>10 DEF ReadReferences, ListJobs, RemoveFiles, ClearArtifact, DbFails
  <1>11. QED
    BY <1>1, <1>2, <1>3, <1>4, <1>5, <1>6, <1>7, <1>8, <1>9, <1>10 DEF Next, Drive, Poll

(* Only a request that finds create_lock free takes it. *)
NoNewLock ==
    \/ \A i \in Jobs : driver'[i] = "create" => driver[i] = "create"
    \/ \E i \in Jobs : CheckSlot(i)

LEMMA LockIsTaken ==
    ASSUME Inv, [Next]_vars PROVE NoNewLock
  <1> USE DEF Inv, TypeOK, NoNewLock
  <1>1. ASSUME NEW j \in Jobs, CheckSlot(j) PROVE NoNewLock
    BY <1>1
  <1>2. ASSUME NEW j \in Jobs, InsertJob(j) PROVE NoNewLock
    BY <1>2 DEF InsertJob
  <1>3. ASSUME NEW j \in Jobs, Submit(j) PROVE NoNewLock
    BY <1>3 DEF Submit
  <1>4. ASSUME NEW j \in Jobs, Record(j) PROVE NoNewLock
    BY <1>4 DEF Record, RecordRefused
  <1>5. ASSUME NEW j \in Jobs, PollExited(j) PROVE NoNewLock
    BY <1>5 DEF PollExited, PollDone
  <1>6. ASSUME NEW j \in Jobs, PollTimedOut(j) PROVE NoNewLock
    BY <1>6 DEF PollTimedOut, PollDone
  <1>7. ASSUME NEW j \in Jobs, PollCancelled(j) PROVE NoNewLock
    BY <1>7 DEF PollCancelled, PollDone
  <1>8. ASSUME NEW j \in Jobs, Fetch(j) PROVE NoNewLock
    BY <1>8 DEF Fetch
  <1>9. ASSUME NEW j \in Jobs, Conclude(j) PROVE NoNewLock
    BY <1>9 DEF Conclude
  <1>10. ASSUME NEW j \in Jobs,
              CancelRow(j) \/ CancelProcess(j) \/ TrainerExits(j) \/ TrainerDies(j) \/
                Reference(j) \/ Retire(j)
        PROVE  NoNewLock
    BY <1>10 DEF CancelRow, CancelProcess, TrainerExits, TrainerDies, Reference, Retire
  <1>11. CASE Restart
    BY <1>11 DEF Restart
  <1>12. CASE UNCHANGED vars
    BY <1>12 DEF vars
  <1>13. ASSUME NEW u \in Uploaders,
              (\E i \in Jobs, k \in Uploaded : BeginUpload(u, i, k)) \/ StoreUpload(u)
                \/ PollUpload(u) \/ FinishUpload(u)
        PROVE  NoNewLock
    BY <1>13 DEF BeginUpload, StoreUpload, PollUpload, FinishUpload
  <1>14. ASSUME NEW p \in Pruners,
              ReadReferences(p) \/ ListJobs(p) \/ (\E i \in Jobs : RemoveFiles(p, i)) \/
                ClearArtifact(p)
        PROVE  NoNewLock
    BY <1>14 DEF ReadReferences, ListJobs, RemoveFiles, ClearArtifact
  <1>15. QED
    BY <1>1, <1>2, <1>3, <1>4, <1>5, <1>6, <1>7, <1>8, <1>9, <1>10, <1>11, <1>12, <1>13,
       <1>14 DEF Next, Drive, Poll

LEMMA ActiveFinite ==
    ASSUME TypeOK
    PROVE  /\ IsFiniteSet(ActiveLocal) /\ Cardinality(ActiveLocal) \in Nat
           /\ \A s \in SUBSET ActiveLocal :
                 Cardinality(s) \in Nat /\ Cardinality(s) <= Cardinality(ActiveLocal)
  <1>1. ActiveLocal \subseteq Jobs
    BY DEF ActiveLocal, Local
  <1>2. IsFiniteSet(ActiveLocal)
    BY <1>1, JobsAssumption, FS_Subset
  <1>3. QED
    BY <1>2, FS_Subset, FS_CardinalityType

LEMMA SlotsStep ==
    ASSUME Inv, [Next]_vars PROVE Slots'
  <1> DEFINE n == Cardinality(ActiveLocal)
  <1> USE JobsAssumption
  <1>1. TypeOK /\ Slots /\ n \in Nat /\ IsFiniteSet(ActiveLocal)
    BY ActiveFinite DEF Inv
  <1>2. ASSUME NEW j \in Jobs, CheckSlot(j) PROVE Slots'
    <2>1. ActiveLocal' = ActiveLocal
      BY <1>2 DEF CheckSlot, ActiveLocal, Active
    <2>2. \A i \in Jobs : driver'[i] = "create" => i = j
      BY <1>1, <1>2 DEF CheckSlot, MayCheck, TypeOK
    <2>3. j \in Local => n < MaxConcurrent
      BY <1>2 DEF CheckSlot, HasSlot
    <2>4. CapRespected'
      BY <1>1, <2>1 DEF Slots, CapRespected
    <2>5. QED
      BY <2>1, <2>2, <2>3, <2>4 DEF Slots, Local
  <1>3. ASSUME NEW j \in Jobs, InsertJob(j) PROVE Slots'
    <2>1. \A i \in Jobs : driver'[i] # "create"
      BY <1>1, <1>3 DEF InsertJob, Slots, TypeOK
    <2>2. ActiveLocal' \subseteq ActiveLocal \cup (Local \cap {j})
      BY <1>1, <1>3 DEF InsertJob, DbFails, ActiveLocal, Active, Local, TypeOK
    <2>3. CASE j \in Local
      <3>1. n < MaxConcurrent
        BY <1>1, <1>3, <2>3 DEF InsertJob, Slots
      <3>2. /\ IsFiniteSet(ActiveLocal \cup {j})
            /\ Cardinality(ActiveLocal \cup {j}) \in {n, n + 1}
        BY <1>1, FS_AddElement
      <3>3. /\ Cardinality(ActiveLocal') <= Cardinality(ActiveLocal \cup {j})
            /\ Cardinality(ActiveLocal') \in Nat
        <4>1. ActiveLocal' \subseteq ActiveLocal \cup {j}
          BY <2>2
        <4>2. QED
          BY <3>2, <4>1, FS_Subset, FS_CardinalityType
      <3>4. CapRespected'
        BY <1>1, <3>1, <3>2, <3>3 DEF CapRespected
      <3>5. QED
        BY <2>1, <3>4 DEF Slots, Local
    <2>4. CASE j \notin Local
      <3>1. Cardinality(ActiveLocal') <= n /\ Cardinality(ActiveLocal') \in Nat
        BY <1>1, <2>2, <2>4, ActiveFinite
      <3>2. CapRespected'
        BY <1>1, <3>1 DEF Slots, CapRespected
      <3>3. QED
        BY <2>1, <3>2 DEF Slots, Local
    <2>5. QED
      BY <2>3, <2>4
  <1>4. ASSUME ActiveLocal' \subseteq ActiveLocal,
               \A i \in Jobs : driver'[i] = "create" => driver[i] = "create"
        PROVE  Slots'
    <2>1. Cardinality(ActiveLocal') <= n /\ Cardinality(ActiveLocal') \in Nat
      BY <1>1, <1>4, ActiveFinite
    <2>2. CapRespected'
      BY <1>1, <2>1 DEF Slots, CapRespected
    <2>3. QED
      BY <1>1, <1>4, <2>1, <2>2 DEF Slots, Local
  <1>5. QED
    BY <1>2, <1>3, <1>4, ActiveShrinks, LockIsTaken DEF NoNewActive, NoNewLock

(* What a pass has decided to delete is finished. *)
LEMMA PruningStep ==
    ASSUME Inv, [Next]_vars PROVE Pruning'
  <1> USE DEF Inv, TypeOK, Pruning, PruneSparesLive, Terminal, KeepsOutcomes, Pass
  <1>1. ASSUME NEW j \in Jobs, InsertJob(j) PROVE Pruning'
    BY <1>1, TerminalStays, NobodyAssumption DEF InsertJob
  <1>2. ASSUME NEW j \in Jobs, Record(j) PROVE Pruning'
    BY <1>2, TerminalStays, NobodyAssumption DEF Record
  <1>3. ASSUME NEW j \in Jobs, Conclude(j) PROVE Pruning'
    BY <1>3, TerminalStays, NobodyAssumption DEF Conclude
  <1>4. ASSUME NEW j \in Jobs, CancelRow(j) PROVE Pruning'
    BY <1>4, TerminalStays, NobodyAssumption DEF CancelRow
  <1>5. ASSUME NEW j \in Jobs,
              CheckSlot(j) \/ Submit(j) \/ PollExited(j) \/ PollTimedOut(j) \/
                PollCancelled(j) \/ Fetch(j) \/ CancelProcess(j) \/ TrainerExits(j) \/
                TrainerDies(j) \/ Reference(j) \/ Retire(j)
        PROVE  Pruning'
    BY <1>5, TerminalStays, NobodyAssumption DEF CheckSlot, Submit, PollExited,
       PollDone, PollTimedOut, PollCancelled, Fetch, CancelProcess, TrainerExits,
       TrainerDies, Reference, Retire
  <1>6. ASSUME NEW u \in Uploaders, FinishUpload(u) PROVE Pruning'
    BY <1>6, TerminalStays, NobodyAssumption DEF FinishUpload
  <1>7. ASSUME NEW u \in Uploaders,
              (\E i \in Jobs, k \in Uploaded : BeginUpload(u, i, k)) \/ StoreUpload(u)
                \/ PollUpload(u)
        PROVE  Pruning'
    BY <1>7, TerminalStays, NobodyAssumption DEF BeginUpload, StoreUpload, PollUpload
  <1>8. ASSUME NEW p \in Pruners, ReadReferences(p) PROVE Pruning'
    BY <1>8, TerminalStays, NobodyAssumption DEF ReadReferences, NoPass
  <1>9. ASSUME NEW p \in Pruners, ListJobs(p) PROVE Pruning'
    BY <1>9, TerminalStays, NobodyAssumption DEF ListJobs, NoPass, MayPrune
  <1>10. ASSUME NEW p \in Pruners,
              \E i \in Jobs : RemoveFiles(p, i)
        PROVE  Pruning'
    BY <1>10, TerminalStays, NobodyAssumption DEF RemoveFiles, Idle
  <1>11. ASSUME NEW p \in Pruners, ClearArtifact(p) PROVE Pruning'
    BY <1>11, TerminalStays, NobodyAssumption DEF ClearArtifact, NoPass, DbFails
  <1>12. CASE Restart
    BY <1>12, TerminalStays, NobodyAssumption DEF Restart, NoPass
  <1>13. CASE UNCHANGED vars
    BY <1>13, TerminalStays, NobodyAssumption DEF vars
  <1>14. QED
    BY <1>1, <1>2, <1>3, <1>4, <1>5, <1>6, <1>7, <1>8, <1>9, <1>10, <1>11, <1>12, <1>13
       DEF Next, Drive, Poll

LEMMA UploadJob ==
    ASSUME TypeOK PROVE \A u \in Uploaders : upload[u].step # "idle" => upload[u].job \in Jobs
  BY DEF TypeOK, UploadState, Idle

(* Success is recorded with the model in place. *)
LEMMA FetchedStep ==
    ASSUME Inv, [Next]_vars PROVE Fetched'
  <1> USE DEF Inv, TypeOK, Fetched, HasModel, Terminal, KeepsOutcomes, Pruning,
             PruneSparesLive, Uploaded, Created
  <1>1. ASSUME NEW j \in Jobs, CheckSlot(j) PROVE Fetched'
    BY <1>1, TerminalStays, UploadJob DEF CheckSlot
  <1>2. ASSUME NEW j \in Jobs, InsertJob(j) PROVE Fetched'
    BY <1>2, TerminalStays, UploadJob DEF InsertJob
  <1>3. ASSUME NEW j \in Jobs, Submit(j) PROVE Fetched'
    BY <1>3, TerminalStays, UploadJob DEF Submit
  <1>4. ASSUME NEW j \in Jobs, Record(j) PROVE Fetched'
    BY <1>4, TerminalStays, UploadJob DEF Record, RecordRefused
  <1>5. ASSUME NEW j \in Jobs, PollExited(j) PROVE Fetched'
    BY <1>5, TerminalStays, UploadJob DEF PollExited, PollDone
  <1>6. ASSUME NEW j \in Jobs, PollTimedOut(j) PROVE Fetched'
    BY <1>6, TerminalStays, UploadJob DEF PollTimedOut, PollDone
  <1>7. ASSUME NEW j \in Jobs, PollCancelled(j) PROVE Fetched'
    BY <1>7, TerminalStays, UploadJob DEF PollCancelled, PollDone
  <1>8. ASSUME NEW j \in Jobs, Fetch(j) PROVE Fetched'
    BY <1>8, TerminalStays, UploadJob DEF Fetch
  <1>9. ASSUME NEW j \in Jobs, Conclude(j) PROVE Fetched'
    BY <1>9, TerminalStays, UploadJob DEF Conclude
  <1>10. ASSUME NEW j \in Jobs, CancelRow(j) PROVE Fetched'
    BY <1>10, TerminalStays, UploadJob DEF CancelRow
  <1>11. ASSUME NEW j \in Jobs,
              CancelProcess(j) \/ TrainerExits(j) \/ TrainerDies(j) \/ Reference(j) \/
                Retire(j)
        PROVE  Fetched'
    BY <1>11, TerminalStays, UploadJob DEF CancelProcess, TrainerExits, TrainerDies,
       Reference, Retire
  <1>12. ASSUME NEW u \in Uploaders,
              \E i \in Jobs, k \in Uploaded : BeginUpload(u, i, k)
        PROVE  Fetched'
    BY <1>12, TerminalStays, UploadJob DEF BeginUpload, AcceptsUpload
  <1>13. ASSUME NEW u \in Uploaders, StoreUpload(u) PROVE Fetched'
    BY <1>13, TerminalStays, UploadJob DEF StoreUpload, Stored, Idle
  <1>14. ASSUME NEW u \in Uploaders, PollUpload(u) PROVE Fetched'
    BY <1>14, TerminalStays, UploadJob DEF PollUpload, Stored, Idle, Complete
  <1>15. ASSUME NEW u \in Uploaders, FinishUpload(u) PROVE Fetched'
    BY <1>15, TerminalStays, UploadJob DEF FinishUpload, SetSucceeded, Applies, DbFails,
       Idle
  <1>16. ASSUME NEW p \in Pruners,
              \E i \in Jobs : RemoveFiles(p, i)
        PROVE  Fetched'
    BY <1>16, TerminalStays, UploadJob DEF RemoveFiles, Idle
  <1>17. ASSUME NEW p \in Pruners,
              ReadReferences(p) \/ ListJobs(p) \/ ClearArtifact(p)
        PROVE  Fetched'
    BY <1>17, TerminalStays, UploadJob DEF ReadReferences, ListJobs, ClearArtifact,
       DbFails
  <1>18. CASE Restart
    BY <1>18, TerminalStays, UploadJob DEF Restart, Idle
  <1>19. CASE UNCHANGED vars
    BY <1>19, TerminalStays, UploadJob DEF vars
  <1>20. QED
    BY <1>1, <1>2, <1>3, <1>4, <1>5, <1>6, <1>7, <1>8, <1>9, <1>10, <1>11, <1>12, <1>13,
       <1>14, <1>15, <1>16, <1>17, <1>18, <1>19 DEF Next, Drive, Poll

(* A path in the row is that of a file, or is being cleared. *)
LEMMA ArtifactStep ==
    ASSUME Inv, [Next]_vars PROVE ArtifactExists'
  <1> USE DEF Inv, TypeOK, Fetched, HasModel, Terminal, KeepsOutcomes, Pruning,
             PruneSparesLive, ArtifactExists, Pass
  <1>1. ASSUME NEW j \in Jobs, InsertJob(j) PROVE ArtifactExists'
    BY <1>1, TerminalStays, UploadJob, NobodyAssumption DEF InsertJob, DbFails
  <1>2. ASSUME NEW j \in Jobs, Submit(j) PROVE ArtifactExists'
    BY <1>2, TerminalStays, UploadJob, NobodyAssumption DEF Submit
  <1>3. ASSUME NEW j \in Jobs, Record(j) PROVE ArtifactExists'
    BY <1>3, TerminalStays, UploadJob, NobodyAssumption DEF Record, SetStatus, DbFails
  <1>4. ASSUME NEW j \in Jobs, Fetch(j) PROVE ArtifactExists'
    BY <1>4, TerminalStays, UploadJob, NobodyAssumption DEF Fetch
  <1>5. ASSUME NEW j \in Jobs, Conclude(j) PROVE ArtifactExists'
    BY <1>5, TerminalStays, UploadJob, NobodyAssumption DEF Conclude, SetStatus,
       SetSucceeded, Applies, DbFails
  <1>6. ASSUME NEW j \in Jobs, CancelRow(j) PROVE ArtifactExists'
    BY <1>6, TerminalStays, UploadJob, NobodyAssumption DEF CancelRow, SetStatus,
       Applies
  <1>7. ASSUME NEW j \in Jobs,
              CheckSlot(j) \/ PollExited(j) \/ PollTimedOut(j) \/ PollCancelled(j) \/
                CancelProcess(j) \/ TrainerExits(j) \/ TrainerDies(j) \/ Reference(j) \/
                Retire(j)
        PROVE  ArtifactExists'
    BY <1>7, TerminalStays, UploadJob, NobodyAssumption DEF CheckSlot, PollExited,
       PollDone, PollTimedOut, PollCancelled, CancelProcess, TrainerExits, TrainerDies,
       Reference, Retire
  <1>8. ASSUME NEW u \in Uploaders, StoreUpload(u) PROVE ArtifactExists'
    BY <1>8, TerminalStays, UploadJob, NobodyAssumption DEF StoreUpload, Stored, Idle
  <1>9. ASSUME NEW u \in Uploaders, FinishUpload(u) PROVE ArtifactExists'
    BY <1>9, TerminalStays, UploadJob, NobodyAssumption DEF FinishUpload, SetSucceeded,
       Applies, DbFails, Idle
  <1>10. ASSUME NEW u \in Uploaders,
              (\E i \in Jobs, k \in Uploaded : BeginUpload(u, i, k)) \/ PollUpload(u)
        PROVE  ArtifactExists'
    BY <1>10, TerminalStays, UploadJob, NobodyAssumption DEF BeginUpload, PollUpload
  <1>11. ASSUME NEW p \in Pruners, ReadReferences(p) PROVE ArtifactExists'
    BY <1>11, TerminalStays, UploadJob, NobodyAssumption DEF ReadReferences, NoPass
  <1>12. ASSUME NEW p \in Pruners, ListJobs(p) PROVE ArtifactExists'
    BY <1>12, TerminalStays, UploadJob, NobodyAssumption DEF ListJobs, NoPass, MayPrune
  <1>13. ASSUME NEW p \in Pruners,
              \E i \in Jobs : RemoveFiles(p, i)
        PROVE  ArtifactExists'
    BY <1>13, TerminalStays, UploadJob, NobodyAssumption DEF RemoveFiles, Idle
  <1>14. ASSUME NEW p \in Pruners, ClearArtifact(p) PROVE ArtifactExists'
    <2>1. ASSUME dbErrors' = 0, restarts' = 0, NEW i \in Jobs, artifact'[i]
          PROVE  "gguf" \in files'[i] \/ \E q \in Pruners : prune'[q].current = i
      <3>1. dbErrors = 0 /\ restarts = 0 /\ files' = files
        BY <1>14, <2>1 DEF ClearArtifact, DbFails
      <3>2. artifact' = [artifact EXCEPT ![prune[p].current] =
                             artifact[prune[p].current] /\ ~Terminal(prune[p].current)]
        BY <1>14, <2>1 DEF ClearArtifact, DbFails
      <3>3. ~artifact'[prune[p].current] /\ prune[p].current \in Jobs
        BY <1>14, <3>2, NobodyAssumption DEF ClearArtifact
      <3>4. artifact[i] /\ i # prune[p].current
        BY <2>1, <3>2, <3>3
      <3>5. \A q \in Pruners : q # p => prune'[q] = prune[q]
        BY <1>14 DEF ClearArtifact
      <3>6. QED
        BY <3>1, <3>4, <3>5
    <2>2. QED
      BY <2>1
  <1>15. CASE Restart
    BY <1>15, TerminalStays, UploadJob, NobodyAssumption DEF Restart, DbFails
  <1>16. CASE UNCHANGED vars
    BY <1>16, TerminalStays, UploadJob, NobodyAssumption DEF vars
  <1>17. QED
    BY <1>1, <1>2, <1>3, <1>4, <1>5, <1>6, <1>7, <1>8, <1>9, <1>10, <1>11, <1>12, <1>13,
       <1>14, <1>15, <1>16 DEF Next, Drive, Poll

-----------------------------------------------------------------------------
LEMMA InvInit ==
    ASSUME Init PROVE Inv
  <1> USE DEF Init
  <1>1. TypeOK
    <2>1. artifact \in [Jobs -> BOOLEAN]
      BY Zenon
    <2>2. prune \in [Pruners -> Pass] /\ upload \in [Uploaders -> UploadState]
      BY PassType DEF UploadState
    <2>3. \A p \in Pruners : prune[p].current # Nobody <=> prune[p].step = "clear"
      BY DEF NoPass
    <2>4. QED
      BY <2>1, <2>2, <2>3, JobsAssumption DEF TypeOK, Status, DriverStep, Entry, Trainer
  <1>2. ActiveLocal = {}
    BY DEF ActiveLocal, Active, ActiveStatus, Local
  <1>3. Slots
    BY <1>2, FS_EmptySet, JobsAssumption DEF Slots, CapRespected, Local
  <1>4. Created /\ TrainerIsWatched /\ Ended /\ ActiveIsDriven
    BY DEF Created, TrainerIsWatched, Ended, ActiveIsDriven, Active, ActiveStatus, Local
  <1>5. Pruning /\ Fetched /\ ArtifactExists
    BY DEF Pruning, PruneSparesLive, Fetched, ArtifactExists, NoPass, Idle
  <1>6. QED
    BY <1>1, <1>3, <1>4, <1>5 DEF Inv

LEMMA InvStep ==
    ASSUME Inv, [Next]_vars PROVE Inv'
  BY TypeStep, CreatedStep, SlotsStep, WatchedStep, EndedStep, DrivenStep, PruningStep,
     FetchedStep, ArtifactStep DEF Inv

LEMMA InvHolds == Spec => []Inv
  BY InvInit, InvStep, PTL DEF Spec

(* Type correctness, for any jobs, requests and passes: also that a notebook   *)
(* job never has a process and that a pass is at a job exactly while it clears *)
(* that job's row (backend.rs, retention.rs).                                  *)
THEOREM TypeCorrect == Spec => []TypeOK
  <1>1. Inv => TypeOK
    BY DEF Inv
  <1>2. QED
    BY <1>1, InvHolds, PTL

(* max_concurrent holds for any number of overlapping create_job requests,     *)
(* cancellations, failing statements and restarts (routes.rs, create_job).     *)
THEOREM CapHolds == Spec => []CapRespected
  <1>1. Inv => CapRespected
    BY DEF Inv, Slots
  <1>2. QED
    BY <1>1, InvHolds, PTL

(* No trainer runs unwatched and unsignalled, whatever cancel_job and drive    *)
(* do to each other's updates (routes.rs, drive_inner and cancel_job).         *)
THEOREM TrainersAreWatched == Spec => []TrainerIsWatched
  <1>1. Inv => TrainerIsWatched
    BY DEF Inv
  <1>2. QED
    BY <1>1, InvHolds, PTL

(* As long as no statement has failed, a queued or running job has a driver    *)
(* (routes.rs, drive; jobs.rs, reconcile_after_restart).                       *)
THEOREM SlotsAreDriven == Spec => []ActiveIsDriven
  <1>1. Inv => ActiveIsDriven
    BY DEF Inv
  <1>2. QED
    BY <1>1, InvHolds, PTL

(* A retention pass, however slow, deletes only the files of finished jobs     *)
(* (retention.rs, prune).                                                      *)
THEOREM PruningIsSafe == Spec => []PruneSparesLive
  <1>1. Inv => PruneSparesLive
    BY DEF Inv, Pruning
  <1>2. QED
    BY <1>1, InvHolds, PTL

(* As long as no statement has failed and nothing was restarted, a row names   *)
(* an artifact that is there or is being cleared (retention.rs, prune;         *)
(* routes.rs, register).                                                       *)
THEOREM ArtifactsExist == Spec => []ArtifactExists
  <1>1. Inv => ArtifactExists
    BY DEF Inv, Pruning
  <1>2. QED
    BY <1>1, InvHolds, PTL

(* The outcome of a job is never overwritten (jobs.rs, JobRepository::update). *)
THEOREM OutcomesAreFinal == Spec => OutcomeIsFinal
  <1>1. Inv /\ [Next]_vars => [\A j \in Jobs : Terminal(j) => status'[j] = status[j]]_vars
    BY TerminalStays DEF KeepsOutcomes
  <1>2. QED
    BY <1>1, InvHolds, PTL DEF Spec, OutcomeIsFinal
=============================================================================
