---------------------------- MODULE RuntimeHealth ----------------------------
(***************************************************************************)
(* The runtime health center (app/runtime_health.py, hardened by            *)
(* app/runtime_health_safety.py): what the server believes about converted  *)
(* models after the inference runtime, the model's definition or its files  *)
(* have changed, and the evidence it keeps in runtime-health.json.          *)
(*                                                                         *)
(* A runtime version v has the major.minor part v \div 10.  The fingerprint *)
(* hashes the definition and the metadata of every file: a stamp that each  *)
(* change of the directory renews stands for the files.                     *)
(***************************************************************************)
EXTENDS Integers, FiniteSets

CONSTANTS
  HealthModels,
  Versions,      \* versions of openvino / openvino-genai that get installed
  MaxStamp       \* bound: changes of a model's directory

ASSUME HealthAssumption == IsFiniteSet(HealthModels) /\ Versions \subseteq Nat /\ MaxStamp \in Nat

VARIABLES
  runtime,      \* the installed version
  files,        \* each model's directory: state, stamp and compatibility marker
  definition,   \* each model's definition in the catalog
  conversion,   \* each model's conversion: running, or in the tail after it left the registry
  records,      \* runtime-health.json
  work,         \* the maintenance that holds _operation_lock and the catalog lock
  acker,        \* the worker thread of an acknowledgment
  loadedWith,   \* history: files and runtime of each model's last load validation that passed
  failedWith,   \* history: fingerprint and runtime of a last validation that failed
  discarded     \* history: models whose evidence a scheduled reconversion discarded since

healthFiles == <<files, definition, conversion>>
healthHistory == <<loadedWith, failedWith, discarded>>
healthVars == <<runtime, healthFiles, records, work, acker, healthHistory>>

None == [status |-> "none"]
NoMarker == [kind |-> "none", version |-> 0, def |-> 0]
NoTarget == "none"
NoWork == [pc |-> "idle", m |-> NoTarget, todo |-> {}, fp |-> <<0, 0>>, loaded |-> 0, cancelled |-> FALSE]
NoAcker == [pc |-> "idle", m |-> NoTarget, abandoned |-> FALSE, fp |-> <<0, 0>>, copy |-> <<>>]

Stamps == 0 .. MaxStamp
Definitions == 1 .. 2
Fingerprints == Stamps \X (0 .. 2)
Markers == [kind : {"none", "invalid", "ok"}, version : Versions \cup {0}, def : Definitions \cup {0}]
Evidence == {None} \cup [status : {"passed", "failed", "acknowledged"}, fp : Fingerprints, version : Versions]

HealthTypeOK ==
  /\ runtime \in Versions
  /\ files \in [HealthModels -> [state : {"none", "partial", "complete"}, stamp : Stamps, marker : Markers]]
  /\ definition \in [HealthModels -> Definitions]
  /\ conversion \in [HealthModels -> {"idle", "running", "tail"}]
  /\ records \in [HealthModels -> [validation : Evidence, acknowledgment : Evidence]]
  /\ \A m \in HealthModels : /\ records[m].validation.status # "acknowledged"
                             /\ records[m].acknowledgment.status \in {"none", "acknowledged"}
  /\ work.pc \in {"idle", "choosing", "building", "loaded"} /\ work.todo \subseteq HealthModels
  /\ acker.pc \in {"idle", "waiting", "checked", "copied"}

\* Nothing, a model converted by an older release, or one with its marker
FoundFiles ==
  {[state |-> s, stamp |-> 0, marker |-> NoMarker] : s \in {"none", "complete"}}
    \cup {[state |-> "complete", stamp |-> 0, marker |-> [kind |-> "ok", version |-> v, def |-> 1]] : v \in Versions}

HealthInit ==
  /\ runtime \in Versions
  /\ files \in [HealthModels -> FoundFiles]
  /\ definition = [m \in HealthModels |-> 1]
  /\ conversion = [m \in HealthModels |-> "idle"]
  /\ records = [m \in HealthModels |-> [validation |-> None, acknowledgment |-> None]]
  /\ work = NoWork /\ acker = NoAcker
  /\ loadedWith = [m \in HealthModels |-> <<>>] /\ failedWith = [m \in HealthModels |-> <<>>] /\ discarded = {}

-----------------------------------------------------------------------------
(* What the evidence says.                                                  *)

Health(m) ==
  LET f == files[m] IN
  IF f.state = "none" THEN "not_converted"
  ELSE IF f.state = "partial" THEN "incomplete"
  ELSE IF f.marker.kind = "none" THEN "legacy_untracked"
  ELSE IF f.marker.kind = "invalid" THEN "invalid_metadata"
  ELSE IF f.marker.def # definition[m] THEN "incompatible_definition"
  ELSE IF f.marker.version \div 10 # runtime \div 10 THEN "stale_runtime"
  ELSE "compatible"

Fingerprint(m) == <<files[m].stamp, definition[m]>>

\* Evidence by definition only would survive an edit of the files.
MatchesVersionOnly(record, m) == record.status # "none" /\ record.version = runtime
RecordMatches(record, m) ==
  record.status # "none" /\ record.fp = Fingerprint(m) /\ record.version = runtime

CurrentPass(m) == RecordMatches(records[m].validation, m) /\ records[m].validation.status = "passed"
CurrentFailure(m) == RecordMatches(records[m].validation, m) /\ records[m].validation.status = "failed"
CurrentAck(m) == RecordMatches(records[m].acknowledgment, m)

\* maintenance_recommendation, with a known failure put first by the hardened snapshot.
Recommendation(m) ==
  IF CurrentFailure(m) \/ Health(m) \in {"incomplete", "invalid_metadata", "incompatible_definition"}
    THEN "reconvert"
  ELSE IF CurrentPass(m) \/ Health(m) \in {"not_converted", "compatible"} \/ CurrentAck(m)
    THEN "leave_unchanged"
  ELSE IF Health(m) = "legacy_untracked" THEN "revalidate" ELSE "rebuild_compiled_cache"

\* The validation refuses what only a reconversion can mend.
Candidate(m) == Health(m) \in {"legacy_untracked", "stale_runtime", "compatible"}

CatalogLockFree == work.pc = "idle" /\ acker.pc \in {"idle", "waiting"}
OperationLockFree == work.pc = "idle" /\ (acker.pc = "idle" \/ acker.abandoned)
LifecycleIdle == \A m \in HealthModels : conversion[m] # "running"

-----------------------------------------------------------------------------
(* The world the evidence is about.                                         *)

NewFiles(m, state, marker) ==
  /\ files[m].stamp < MaxStamp
  /\ files' = [files EXCEPT ![m] = [state |-> state, stamp |-> @.stamp + 1, marker |-> marker]]

\* Outside the program: a user edits, truncates or removes the converted files.
EditFiles(m) ==
  /\ conversion[m] # "running"
  /\ \E state \in {"none", "partial", "complete"}, kind \in {"same", "invalid"} :
       NewFiles(m, state, IF state = "none" THEN NoMarker
                          ELSE IF kind = "same" THEN files[m].marker ELSE [NoMarker EXCEPT !.kind = "invalid"])
  /\ UNCHANGED <<runtime, definition, conversion, records, work, acker, healthHistory>>

\* A registration or a catalog refresh, under the catalog lock.
ChangeDefinition(m) ==
  /\ CatalogLockFree /\ conversion[m] # "running"
  /\ definition' = [definition EXCEPT ![m] = 3 - @]
  /\ UNCHANGED <<runtime, files, conversion, records, work, acker, healthHistory>>

\* An ordinary conversion of a model that the client asks for.
StartConversion(m) ==
  /\ work.pc = "idle" /\ conversion[m] = "idle"
  /\ conversion' = [conversion EXCEPT ![m] = "running"]
  /\ UNCHANGED <<runtime, files, definition, records, work, acker, healthHistory>>

\* The output transaction publishes the files; when it fails the old ones stay, without
\* the load profile they may have had.
ConversionEnds(m) ==
  /\ conversion[m] = "running"
  /\ \/ /\ NewFiles(m, "complete", NoMarker)
        /\ conversion' = [conversion EXCEPT ![m] = "tail"]
     \/ /\ files' = files \/ NewFiles(m, files[m].state, files[m].marker)
        /\ conversion' = [conversion EXCEPT ![m] = "idle"]
  /\ UNCHANGED <<runtime, definition, records, work, acker, healthHistory>>

\* The marker is written after the conversion left the registry; a failure is only logged.
RecordConversionMetadata(m) ==
  /\ conversion[m] = "tail"
  /\ conversion' = [conversion EXCEPT ![m] = "idle"]
  /\ \/ /\ files[m].state = "complete"
        /\ NewFiles(m, "complete", [kind |-> "ok", version |-> runtime, def |-> definition[m]])
     \/ files' = files
  /\ UNCHANGED <<runtime, definition, records, work, acker, healthHistory>>

\* The server stops or dies and starts again, perhaps with another runtime.
RestartServer(v) ==
  /\ runtime' = v
  /\ conversion' = [m \in HealthModels |-> "idle"] /\ work' = NoWork /\ acker' = NoAcker
  /\ UNCHANGED <<files, definition, records, healthHistory>>

-----------------------------------------------------------------------------
(* Maintenance: one operation at a time, for its whole length under         *)
(* _exclusive_maintenance.                                                  *)

\* Without the catalog lock an abandoned acknowledgment could still be writing.
GateWithoutCatalogLock == OperationLockFree /\ LifecycleIdle
MaintenanceGate == OperationLockFree /\ CatalogLockFree /\ LifecycleIdle

\* perform / perform_batch: revalidate leaves an unfit target to its turn; a rebuild
\* of the compiled cache is refused as a whole before anything is cleared.
StartMaintenance(targets, rebuild) ==
  /\ targets # {} /\ MaintenanceGate
  /\ rebuild => \A m \in targets : Candidate(m)
  /\ work' = [NoWork EXCEPT !.pc = "choosing", !.todo = targets]
  /\ UNCHANGED <<runtime, healthFiles, records, acker, healthHistory>>

\* The fingerprint and the runtime are read before the engine is built.
ValidateBegins(m) ==
  /\ work.pc = "choosing" /\ m \in work.todo
  /\ work' = IF Candidate(m)
             THEN [work EXCEPT !.pc = "building", !.m = m, !.todo = @ \ {m}, !.fp = Fingerprint(m)]
             ELSE [work EXCEPT !.todo = @ \ {m}]
  /\ UNCHANGED <<runtime, healthFiles, records, acker, healthHistory>>

\* A requester that goes away does not abandon the native build.
CancelMaintenanceRequest ==
  /\ work.pc \in {"building", "loaded"} /\ ~work.cancelled
  /\ work' = [work EXCEPT !.cancelled = TRUE]
  /\ UNCHANGED <<runtime, healthFiles, records, acker, healthHistory>>

\* The native build reads the files of this moment.
BuildLoads ==
  /\ work.pc = "building" /\ files[work.m].state = "complete"
  /\ work' = [work EXCEPT !.pc = "loaded", !.loaded = files[work.m].stamp]
  /\ UNCHANGED <<runtime, healthFiles, records, acker, healthHistory>>

\* One record for both kinds of evidence would let an acknowledgment hide a failure.
WriteAsAcknowledgment(m, record) == records' = [records EXCEPT ![m].acknowledgment = record]
WriteValidation(m, record) == records' = [records EXCEPT ![m].validation = record]

\* A fingerprint taken when the record is written would vouch for files nobody loaded.
EvidenceAtTheEnd(m, status) == [status |-> status, fp |-> Fingerprint(m), version |-> runtime]
EvidenceOf(m, status) == [status |-> status, fp |-> work.fp, version |-> runtime]

\* A batch goes on to its next target; a cancelled one ends with its record written.
ValidateEnds(passed) ==
  /\ work.pc = IF passed THEN "loaded" ELSE "building"
  /\ WriteValidation(work.m, EvidenceOf(work.m, IF passed THEN "passed" ELSE "failed"))
  /\ loadedWith' = [loadedWith EXCEPT ![work.m] = IF passed THEN <<work.loaded, runtime>> ELSE @]
  /\ failedWith' = [failedWith EXCEPT ![work.m] = IF passed THEN <<>> ELSE <<work.fp, runtime>>]
  /\ discarded' = discarded \ {work.m}
  /\ work' = IF work.cancelled THEN NoWork
             ELSE [NoWork EXCEPT !.pc = "choosing", !.todo = work.todo]
  /\ UNCHANGED <<runtime, healthFiles, acker>>

MaintenanceFinishes ==
  /\ work.pc = "choosing" /\ work.todo = {}
  /\ work' = NoWork
  /\ UNCHANGED <<runtime, healthFiles, records, acker, healthHistory>>

-----------------------------------------------------------------------------
(* Reconversion: the evidence goes when the conversion is scheduled.        *)

Forget(m) == records' = [records EXCEPT ![m] = [validation |-> None, acknowledgment |-> None]]
ForgetEverything(m) == records' = [x \in HealthModels |-> [validation |-> None, acknowledgment |-> None]]

ScheduleReconvert(m) ==
  /\ OperationLockFree /\ CatalogLockFree /\ conversion[m] = "idle"
  /\ conversion' = [conversion EXCEPT ![m] = "running"]
  /\ Forget(m) /\ discarded' = discarded \cup {m}
  /\ UNCHANGED <<runtime, files, definition, work, acker, loadedWith, failedWith>>

-----------------------------------------------------------------------------
(* Acknowledgment: a worker thread, under the catalog lock.                 *)

AcknowledgeBegins(m) ==
  /\ OperationLockFree /\ acker.pc = "idle"
  /\ acker' = [NoAcker EXCEPT !.pc = "waiting", !.m = m]
  /\ UNCHANGED <<runtime, healthFiles, records, work, healthHistory>>

AckRefusedByHealth(m) == Health(m) \notin {"legacy_untracked", "stale_runtime"}
AckRefused(m) == CurrentFailure(m) \/ AckRefusedByHealth(m)

AcknowledgeChecks ==
  /\ acker.pc = "waiting" /\ CatalogLockFree
  /\ acker' = IF AckRefused(acker.m) THEN NoAcker
              ELSE [acker EXCEPT !.pc = "checked"]
  /\ UNCHANGED <<runtime, healthFiles, records, work, healthHistory>>

\* _write_model_record reads the whole file and writes it back.
AcknowledgeReads ==
  /\ acker.pc = "checked"
  /\ acker' = [acker EXCEPT !.pc = "copied", !.fp = Fingerprint(acker.m), !.copy = records]
  /\ UNCHANGED <<runtime, healthFiles, records, work, healthHistory>>

AcknowledgeWrites ==
  /\ acker.pc = "copied"
  /\ records' = [acker.copy EXCEPT ![acker.m].acknowledgment =
                   [status |-> "acknowledged", fp |-> acker.fp, version |-> runtime]]
  /\ acker' = NoAcker
  /\ UNCHANGED <<runtime, healthFiles, work, healthHistory>>

\* The request is cancelled: its lock is released, its thread runs on.
AbandonAcknowledgment ==
  /\ acker.pc # "idle" /\ ~acker.abandoned
  /\ acker' = [acker EXCEPT !.abandoned = TRUE]
  /\ UNCHANGED <<runtime, healthFiles, records, work, healthHistory>>

HealthNext ==
  \/ \E m \in HealthModels :
       \/ EditFiles(m) \/ ChangeDefinition(m) \/ StartConversion(m) \/ ConversionEnds(m)
       \/ RecordConversionMetadata(m) \/ ScheduleReconvert(m) \/ AcknowledgeBegins(m) \/ ValidateBegins(m)
  \/ \E v \in Versions : RestartServer(v)
  \/ \E targets \in SUBSET HealthModels, rebuild \in BOOLEAN : StartMaintenance(targets, rebuild)
  \/ BuildLoads \/ CancelMaintenanceRequest \/ MaintenanceFinishes
  \/ \E passed \in BOOLEAN : ValidateEnds(passed)
  \/ AcknowledgeChecks \/ AcknowledgeReads \/ AcknowledgeWrites \/ AbandonAcknowledgment

HealthSpec == HealthInit /\ [][HealthNext]_healthVars

-----------------------------------------------------------------------------
(* Properties.                                                              *)

\* A model that counts as validated loaded with exactly these files and this runtime,
\* whatever was edited, converted or upgraded while the validation ran.
PassMeansTheseFilesLoaded ==
  \A m \in HealthModels : CurrentPass(m) => loadedWith[m] = <<files[m].stamp, runtime>>

KnownFailure(m) == failedWith[m] = <<Fingerprint(m), runtime>>
FailureShown(m) == Recommendation(m) = "reconvert" /\ CurrentFailure(m)

\* A load failure with these files and this runtime is shown until a reconversion is
\* scheduled: no acknowledgment, restart or other model's record hides it.
FailureStaysShown == \A m \in HealthModels : KnownFailure(m) /\ m \notin discarded => FailureShown(m)

\* _snapshot_sync_locked: "Keep a known current-runtime load failure visible until
\* reconversion succeeds": a success renews the files, a failed one changes nothing.
FailureShownUntilReconverted ==
  \A m \in HealthModels : KnownFailure(m) /\ conversion[m] = "idle" => FailureShown(m)

\* Evidence of a model goes only with a new validation or a reconversion of that model.
EvidenceIsNotLost ==
  [][\A m \in HealthModels :
       /\ records'[m].validation # records[m].validation =>
            \/ work.pc \in {"building", "loaded"} /\ work.m = m
            \/ conversion[m] = "idle" /\ conversion'[m] = "running"
       /\ records[m].acknowledgment # None /\ records'[m].acknowledgment = None =>
            conversion[m] = "idle" /\ conversion'[m] = "running"]_healthVars

\* "A model that failed current-runtime validation must be reconverted or repaired":
\* no acknowledgment is recorded over such a failure, even one checked for earlier.
NoAcknowledgmentOfAFailure ==
  [][\A m \in HealthModels :
       acker.pc = "copied" /\ acker'.pc = "idle" /\ acker.m = m /\ records' # records => ~CurrentFailure(m)]_healthVars

\* The evidence says what a load really showed of these files under this runtime.
EvidenceIsTrue == PassMeansTheseFilesLoaded /\ FailureStaysShown

\* The two writers of the evidence do not undo each other.
EvidenceKept == EvidenceIsNotLost /\ NoAcknowledgmentOfAFailure
=============================================================================
