--------------------------- MODULE SavedStateProofs ---------------------------
(***************************************************************************)
(* Proofs about what the program keeps on disk: the record of a failed      *)
(* preparation (PreparationRecovery), the evidence about converted models   *)
(* (RuntimeHealth), the Hugging Face token (HuggingFaceAccess) and the       *)
(* catalog (ModelLibrary).  For each there is an inductive invariant that    *)
(* ties what is in memory, or half way through an update, to what is saved. *)
(***************************************************************************)
EXTENDS PreparationRecovery, RuntimeHealth, HuggingFaceAccess, ModelLibrary, TLAPS

-----------------------------------------------------------------------------
(* The record of a failed preparation.                                      *)

\* No operation runs while a recovery does, an operation that runs has an id and publishes
\* its progress under it, and a recovery was begun for a record that exists.
RecoveryAlone ==
  /\ recRun.pc # "idle" => recOp = NoOp /\ recRun.rid # 0
  /\ recOp.kind = "none" => recOp = NoOp
  /\ recOp.kind # "none" => recProg.id # 0

RecoveryIInv == RecoveryTypeOK /\ RecoveryAlone /\ RecoveryActsOnShownFailure /\ SavedRecordIsCurrent

LEMMA RecoveryInitIInv == RecoveryInit => RecoveryIInv
BY RecoveryAssumption
DEF RecoveryInit, RecoveryIInv, RecoveryTypeOK, RecoveryAlone, RecoveryActsOnShownFailure,
    SavedRecordIsCurrent, NoOp, NoProgress, NoRecord, NoRun, RecordType, RecPhases, Stages

\* What a step that publishes or clears a failure does to the record.
LEMMA SaveFailureFacts ==
  ASSUME RecoveryIInv, NEW phase, NEW output, NEW cache, NEW truth \in Stages \cup {"none"},
         SaveFailure(phase, recProg.phase, recProg, output, cache, truth)
  PROVE  /\ recMem' \in RecordType /\ recDisk' \in RecordType
         /\ recCount' \in [ids : Nat, boots : Nat, failed : BOOLEAN]
         /\ SavedRecordIsCurrent' /\ recMem'.op = recProg.id
<1>1. FailedStage(recProg.phase, recProg.type) \in Stages
  BY DEF FailedStage, Stages
<1>2. LastCompletedStage(recProg.phase, cache, output) \in {"none", "download", "conversion"}
  BY DEF LastCompletedStage
<1>3. recMem \in RecordType /\ recDisk \in RecordType /\ recProg.id \in Nat
  BY DEF RecoveryIInv, RecoveryTypeOK
<1>4. recCount \in [ids : Nat, boots : Nat, failed : BOOLEAN]
  BY DEF RecoveryIInv, RecoveryTypeOK
<1> DEFINE same == recProg.id # 0 /\ recMem.op = recProg.id
           record == [rid |-> IF same THEN recMem.rid ELSE RecNextId, op |-> recProg.id,
                      failed |-> FailedStage(recProg.phase, recProg.type),
                      completed |-> LastCompletedStage(recProg.phase, cache, output), truth |-> truth]
<1>5. record \in RecordType
  BY <1>1, <1>2, <1>3, <1>4 DEF RecordType, RecNextId
<1>6. recMem' = record
  BY DEF SaveFailure
<1>7. PICK written \in BOOLEAN :
        /\ recDisk' = IF written THEN record ELSE recDisk
        /\ recCount' = [recCount EXCEPT !.ids = IF same THEN @ ELSE @ + 1, !.failed = @ \/ ~written]
  BY DEF SaveFailure
<1>8. recCount' \in [ids : Nat, boots : Nat, failed : BOOLEAN]
  <2>1. (recCount.failed \/ ~written) \in BOOLEAN
    OBVIOUS
  <2>2. (IF same THEN recCount.ids ELSE recCount.ids + 1) \in Nat
    BY <1>4
  <2>3. QED
    BY <1>4, <1>7, <2>1, <2>2
<1>9. SavedRecordIsCurrent'
  BY <1>4, <1>6, <1>7 DEF SavedRecordIsCurrent
<1>10. QED
  BY <1>3, <1>5, <1>6, <1>7, <1>8, <1>9

LEMMA ClearRecordFacts ==
  ASSUME RecoveryIInv, recMem' = NoRecord,
         \E unlinked \in BOOLEAN :
           /\ recDisk' = IF unlinked THEN NoRecord ELSE recDisk
           /\ \E ids \in Nat :
                recCount' = [recCount EXCEPT !.ids = ids, !.failed = @ \/ (recDisk # NoRecord /\ ~unlinked)]
  PROVE  /\ recDisk' \in RecordType /\ recCount' \in [ids : Nat, boots : Nat, failed : BOOLEAN]
         /\ SavedRecordIsCurrent'
<1>1. PICK unlinked \in BOOLEAN, ids \in Nat :
        /\ recDisk' = IF unlinked THEN NoRecord ELSE recDisk
        /\ recCount' = [recCount EXCEPT !.ids = ids, !.failed = @ \/ (recDisk # NoRecord /\ ~unlinked)]
  OBVIOUS
<1>2. NoRecord \in RecordType /\ NoRecord.op = 0
  BY DEF NoRecord, RecordType
<1>3. recDisk \in RecordType /\ recCount \in [ids : Nat, boots : Nat, failed : BOOLEAN]
  BY DEF RecoveryIInv, RecoveryTypeOK
<1>4. CASE unlinked \/ recDisk = NoRecord
  <2>1. recDisk' = NoRecord
    BY <1>1, <1>4
  <2>2. recCount' = [recCount EXCEPT !.ids = ids]
    BY <1>1, <1>3, <1>4
  <2>3. QED
    BY <1>2, <1>3, <2>1, <2>2 DEF SavedRecordIsCurrent
<1>5. CASE ~unlinked /\ recDisk # NoRecord
  <2>1. recDisk' = recDisk
    BY <1>1, <1>5
  <2>2. recCount' = [recCount EXCEPT !.ids = ids, !.failed = TRUE]
    BY <1>1, <1>3, <1>5
  <2>3. QED
    BY <1>2, <1>3, <2>1, <2>2 DEF SavedRecordIsCurrent
<1>6. QED
  BY <1>4, <1>5

LEMMA ClearedFacts ==
  ASSUME RecoveryIInv, ClearRecord
  PROVE  /\ recMem' = NoRecord /\ recMem' \in RecordType /\ recDisk' \in RecordType
         /\ recCount' \in [ids : Nat, boots : Nat, failed : BOOLEAN] /\ SavedRecordIsCurrent'
<1>1. recCount \in [ids : Nat, boots : Nat, failed : BOOLEAN]
  BY DEF RecoveryIInv, RecoveryTypeOK
<1>2. PICK unlinked \in BOOLEAN :
        /\ recDisk' = IF unlinked THEN NoRecord ELSE recDisk
        /\ recCount' = [recCount EXCEPT !.failed = @ \/ (recDisk # NoRecord /\ ~unlinked)]
  BY DEF ClearRecord
<1>3. recCount' = [recCount EXCEPT !.ids = recCount.ids, !.failed = @ \/ (recDisk # NoRecord /\ ~unlinked)]
  BY <1>1, <1>2
<1>4. NoRecord \in RecordType
  BY DEF NoRecord, RecordType
<1>5. QED
  BY <1>1, <1>2, <1>3, <1>4, ClearRecordFacts DEF ClearRecord

LEMMA RecoveryStep == RecoveryIInv /\ [RecoveryNext]_recVars => RecoveryIInv'
<1> SUFFICES ASSUME RecoveryIInv, [RecoveryNext]_recVars PROVE RecoveryIInv'
  OBVIOUS
<1> USE DEF RecoveryIInv
<1>1. ASSUME NEW kind \in {"load", "convert"}, RecSchedule(kind) PROVE RecoveryIInv'
  BY <1>1 DEF RecSchedule, Begun, RecNextId, RecoveryTypeOK, RecoveryAlone, RecoveryActsOnShownFailure,
              SavedRecordIsCurrent, RecPhases
<1>2. CASE ScheduleReconversion
  BY <1>2 DEF ScheduleReconversion, Begun, RecNextId, RecoveryTypeOK, RecoveryAlone,
              RecoveryActsOnShownFailure, SavedRecordIsCurrent, RecPhases
<1>3. CASE Advance
  <2>1. RecActive /\ recRun.pc = "idle"
    BY <1>3 DEF Advance, RecActive, RecoveryAlone, NoOp
  <2>2. StageAfter(recOp.stage) \in {"queued", "downloading", "converting", "finalizing", "converted", "loading"}
    BY <1>3, <2>1 DEF StageAfter, RecoveryTypeOK, RecActive, Advance, RecoveryAlone, NoOp
  <2>3. StageAfter(recOp.stage) \in RecPhases
    BY <1>3, <2>1 DEF StageAfter, RecoveryTypeOK, RecActive, Advance, RecPhases, NoOp, RecoveryAlone
  <2>4. recOp' \in [kind : {"none", "load", "convert"},
                   stage : {"none", "queued", "downloading", "converting", "finalizing", "converted", "loading"},
                   failed : Stages \cup {"none"}]
    BY <1>3, <2>2 DEF Advance, RecoveryTypeOK
  <2>5. recProg' \in [phase : RecPhases, id : Nat, type : {"none", "load", "convert"}]
    BY <1>3, <2>3 DEF Advance, RecoveryTypeOK
  <2>6. recOutput' \in {"missing", "incomplete", "complete"} /\ recCache' \in BOOLEAN
    BY <1>3 DEF Advance, RecoveryTypeOK
  <2>7. RecoveryTypeOK'
    BY <1>3, <2>4, <2>5, <2>6 DEF Advance, RecoveryTypeOK
  <2>8. RecoveryAlone'
    BY <1>3, <2>1 DEF Advance, RecActive, RecoveryAlone, RecoveryTypeOK
  <2>9. QED
    BY <1>3, <2>1, <2>7, <2>8 DEF Advance, RecoveryActsOnShownFailure, SavedRecordIsCurrent
<1>4. CASE Succeed
  <2>1. RecActive /\ recRun.pc = "idle"
    BY <1>4 DEF Succeed, RecActive, RecoveryAlone, NoOp
  <2>2. ClearRecord
    BY <1>4 DEF Succeed
  <2>3. QED
    BY <1>4, <2>1, <2>2, ClearedFacts DEF Succeed, RecActive, RecoveryTypeOK, RecoveryAlone,
              RecoveryActsOnShownFailure, RecPhases, NoOp
<1>5. CASE LoadAfterConversion
  <2>1. RecActive /\ recRun.pc = "idle"
    BY <1>5 DEF LoadAfterConversion, RecActive, RecoveryAlone, NoOp
  <2>2. CASE recOutput = "complete"
    BY <1>5, <2>1, <2>2 DEF LoadAfterConversion, RecActive, RecoveryTypeOK, RecoveryAlone,
              RecoveryActsOnShownFailure, SavedRecordIsCurrent, RecPhases
  <2>3. CASE recOutput # "complete"
    <3>1. SaveFailure("error", recProg.phase, recProg, recOutput, recCache, recOp.failed)
      BY <1>5, <2>3 DEF LoadAfterConversion
    <3>2. recOp.failed \in Stages \cup {"none"}
      BY DEF RecoveryTypeOK
    <3>3. QED
      BY <1>5, <2>1, <2>3, <3>1, <3>2, SaveFailureFacts DEF LoadAfterConversion, RecoveryTypeOK,
              RecoveryAlone, RecoveryActsOnShownFailure, RecPhases, NoOp
  <2>4. QED
    BY <2>2, <2>3
<1>6. ASSUME NEW phase \in {"error", "cancelled"}, Interrupt(phase) PROVE RecoveryIInv'
  <2>1. RecActive /\ recRun.pc = "idle"
    BY <1>6 DEF Interrupt, RecActive, RecoveryAlone, NoOp
  <2>2. StageName(recOp.stage) \in Stages
    BY DEF StageName, Stages
  <2>3. SaveFailure(phase, recProg.phase, recProg, recOutput, recCache, StageName(recOp.stage))
    BY <1>6 DEF Interrupt
  <2>4. QED
    BY <1>6, <2>1, <2>2, <2>3, SaveFailureFacts DEF Interrupt, RecActive, RecoveryTypeOK,
              RecoveryAlone, RecoveryActsOnShownFailure, RecPhases, NoOp
<1>7. CASE RecDelete
  <2>1. ClearRecord
    BY <1>7 DEF RecDelete
  <2>2. QED
    BY <1>7, <2>1, ClearedFacts DEF RecDelete, RecActive, RecoveryTypeOK, RecoveryAlone,
              RecoveryActsOnShownFailure, RecPhases, NoOp, NoProgress
<1>8. CASE RecCrash
  BY <1>8 DEF RecCrash, RecoveryTypeOK, RecoveryAlone, RecoveryActsOnShownFailure, SavedRecordIsCurrent,
              RecPhases, NoOp, NoProgress, NoRun
<1>9. ASSUME NEW persist \in BOOLEAN, ShowRecovery(persist) PROVE RecoveryIInv'
  <2>1. CASE Infer(persist)
    <3>1. recRun.pc = "idle"
      BY <2>1 DEF Infer, RecoveryAlone, RecoveryActsOnShownFailure, NoRecord
    <3>2. Inferred \in RecordType /\ Inferred.op = 0 /\ Inferred # NoRecord
      BY DEF Inferred, RecordType, RecNextId, NoRecord, RecoveryTypeOK, Stages
    <3>3. recDisk' \in RecordType /\ recCount' \in [ids : Nat, boots : Nat, failed : BOOLEAN]
      <4>1. (recCount.failed \/ (persist /\ recDisk' # Inferred)) \in BOOLEAN /\ recCount.ids + 1 \in Nat
        BY DEF RecoveryTypeOK
      <4>2. recCount' = [recCount EXCEPT !.ids = recCount.ids + 1,
                           !.failed = (recCount.failed \/ (persist /\ recDisk' # Inferred))]
        BY <2>1 DEF Infer
      <4>3. recCount' \in [ids : Nat, boots : Nat, failed : BOOLEAN]
        BY <4>1, <4>2 DEF RecoveryTypeOK
      <4>4. recDisk' \in RecordType
        BY <2>1, <3>2 DEF Infer, RecoveryTypeOK
      <4>5. QED
        BY <4>3, <4>4
    <3>4. SavedRecordIsCurrent'
      BY <2>1, <3>2 DEF Infer, SavedRecordIsCurrent, RecoveryTypeOK
    <3>5. recSeen' \in Nat
      BY <1>9, <2>1, <3>2 DEF ShowRecovery, Infer, RecordType
    <3>6. QED
      BY <1>9, <2>1, <3>1, <3>2, <3>3, <3>4, <3>5
      DEF ShowRecovery, Infer, RecoveryTypeOK, RecoveryAlone, RecoveryActsOnShownFailure
  <2>2. CASE UNCHANGED <<recMem, recDisk, recCount>>
    BY <1>9, <2>2 DEF ShowRecovery, RecoveryTypeOK, RecoveryAlone, RecoveryActsOnShownFailure,
              SavedRecordIsCurrent, RecordType
  <2>3. QED
    BY <1>9, <2>1, <2>2 DEF ShowRecovery
<1>10. ASSUME NEW action \in RecoveryActions, Recover(action) PROVE RecoveryIInv'
  <2>1. FirstStep(action) \in {"start", "output"}
    BY DEF FirstStep
  <2>2. recOp = NoOp
    BY <1>10 DEF Recover, RecActive, RecoveryAlone
  <2>3. QED
    BY <1>10, <2>1, <2>2 DEF Recover, RecoveryTypeOK, RecoveryAlone, RecoveryActsOnShownFailure,
              SavedRecordIsCurrent
<1>11. CASE RemoveOutput
  <2>1. recOp = NoOp
    BY <1>11 DEF RemoveOutput, RecoveryAlone
  <2>2. CASE UNCHANGED <<recMem, recDisk, recCount>>
    BY <1>11, <2>1, <2>2 DEF RemoveOutput, RecoveryTypeOK, RecoveryAlone, RecoveryActsOnShownFailure,
              SavedRecordIsCurrent, NoRun
  <2>3. CASE recRun' = NoRun /\ recOutput' = "missing" /\ ClearRecord
    BY <1>11, <2>1, <2>3, ClearedFacts DEF RemoveOutput, RecoveryTypeOK, RecoveryAlone,
              RecoveryActsOnShownFailure, NoRun
  <2>4. QED
    BY <1>11, <2>2, <2>3 DEF RemoveOutput
<1>12. CASE RemoveCache
  <2>1. recOp = NoOp
    BY <1>12 DEF RemoveCache, RecoveryAlone
  <2>2. CASE recCache /\ UNCHANGED recCache /\ recRun' = NoRun
    BY <1>12, <2>1, <2>2 DEF RemoveCache, RecoveryTypeOK, RecoveryAlone, RecoveryActsOnShownFailure,
              SavedRecordIsCurrent, NoRun
  <2>3. CASE recCache' = FALSE /\ recRun' = [recRun EXCEPT !.pc = "start"]
    <3>1. RecoveryTypeOK'
      BY <1>12, <2>3 DEF RemoveCache, RecoveryTypeOK
    <3>2. recRun'.rid = recRun.rid /\ recRun.pc # "idle"
      BY <1>12, <2>3 DEF RemoveCache, RecoveryTypeOK
    <3>3. QED
      BY <1>12, <2>1, <3>1, <3>2
      DEF RemoveCache, RecoveryAlone, RecoveryActsOnShownFailure, SavedRecordIsCurrent
  <2>4. QED
    BY <1>12, <2>2, <2>3 DEF RemoveCache
<1>13. CASE StartRecovered
  <2>1. PICK unlinked \in BOOLEAN :
          /\ recDisk' = IF unlinked THEN NoRecord ELSE recDisk
          /\ recCount' = [recCount EXCEPT !.ids = @ + 1, !.failed = @ \/ (recDisk # NoRecord /\ ~unlinked)]
    BY <1>13 DEF StartRecovered
  <2>2. recCount.ids + 1 \in Nat
    BY DEF RecoveryTypeOK
  <2>3. recCount' = [recCount EXCEPT !.ids = recCount.ids + 1, !.failed = @ \/ (recDisk # NoRecord /\ ~unlinked)]
    BY <2>1
  <2>4. recMem' = NoRecord /\ NoRecord \in RecordType
    BY <1>13 DEF StartRecovered, NoRecord, RecordType
  <2>5. /\ recDisk' \in RecordType /\ recCount' \in [ids : Nat, boots : Nat, failed : BOOLEAN]
        /\ SavedRecordIsCurrent'
    BY <2>1, <2>2, <2>3, <2>4, ClearRecordFacts
  <2>6. QED
    BY <1>13, <2>4, <2>5 DEF StartRecovered, Begun, RecNextId, RecoveryTypeOK, RecoveryAlone,
              RecoveryActsOnShownFailure, RecPhases, NoRun
<1>14. CASE UNCHANGED recVars
  BY <1>14 DEF recVars, RecoveryTypeOK, RecoveryAlone, RecoveryActsOnShownFailure, SavedRecordIsCurrent
<1>15. QED
  BY <1>1, <1>2, <1>3, <1>4, <1>5, <1>6, <1>7, <1>8, <1>9, <1>10, <1>11, <1>12, <1>13, <1>14
  DEF RecoveryNext

LEMMA RecoveryInvariant == RecoverySpec => []RecoveryIInv
BY RecoveryInitIInv, RecoveryStep, PTL DEF RecoverySpec

\* While the output is incomplete, the recommended action is one of those offered.
LEMMA RecommendationFits == RecoveryTypeOK => RecommendedIsOffered
BY DEF RecoveryTypeOK, RecommendedIsOffered, RecommendedAction, Offered, RecoveryActions

\* A recovery action runs for the failure its user was shown, a restart finds that failure
\* again unless the disk refused a write, and what is recommended is offered
\* (app/model_recovery.py), whatever the number of operations and crashes.
THEOREM RecoveryIsSafe == RecoverySpec => []RecoverySafe
<1>1. RecoveryIInv => RecoverySafe
  BY RecommendationFits DEF RecoveryIInv, RecoverySafe
<1>2. QED
  BY <1>1, RecoveryInvariant, PTL

\* Looking at the status never replaces a recovery that a user may be about to act on: only
\* the operation that publishes its own failure does, or a restart.
THEOREM PollingNeverReplaces == RecoverySpec => PollingKeepsTheRecovery
<1> DEFINE Keeps == recMem # NoRecord /\ recMem'.rid # recMem.rid /\ recCount'.boots = recCount.boots =>
                      recMem' = NoRecord \/ (recProg.id # 0 /\ recMem'.op = recProg.id)
<1>1. ASSUME RecoveryIInv, [RecoveryNext]_recVars PROVE Keeps
  <2> USE <1>1
  <2>1. ASSUME NEW phase \in {"error", "cancelled"}, Interrupt(phase) PROVE Keeps
    BY <2>1, SaveFailureFacts DEF Interrupt, StageName, Stages, RecoveryIInv, RecoveryAlone, NoOp
  <2>2. CASE LoadAfterConversion
    <3>1. CASE recOutput = "complete"
      BY <2>2, <3>1 DEF LoadAfterConversion
    <3>2. CASE recOutput # "complete"
      <4>1. SaveFailure("error", recProg.phase, recProg, recOutput, recCache, recOp.failed)
        BY <2>2, <3>2 DEF LoadAfterConversion
      <4>2. recOp.failed \in Stages \cup {"none"}
        BY DEF RecoveryIInv, RecoveryTypeOK
      <4>3. recProg.id # 0
        BY <2>2 DEF LoadAfterConversion, RecoveryIInv, RecoveryAlone, NoOp
      <4>4. QED
        BY <4>1, <4>2, <4>3, SaveFailureFacts
    <3>3. QED
      BY <3>1, <3>2
  <2>3. CASE RecCrash
    BY <2>3 DEF RecCrash, RecoveryIInv, RecoveryTypeOK
  <2>4. ASSUME NEW persist \in BOOLEAN, ShowRecovery(persist) PROVE Keeps
    BY <2>4 DEF ShowRecovery, Infer
  <2>5. CASE RemoveOutput
    BY <2>5 DEF RemoveOutput, ClearRecord
  <2>6. QED
    BY <2>1, <2>2, <2>3, <2>4, <2>5
    DEF RecoveryNext, RecSchedule, ScheduleReconversion, Advance, Succeed, RecDelete, ClearRecord,
         Recover,
        RemoveCache, StartRecovered, recVars
<1>2. QED
  BY <1>1, RecoveryInvariant, PTL DEF RecoverySpec, PollingKeepsTheRecovery

-----------------------------------------------------------------------------
(* The evidence about converted models.                                     *)

FileStates == [state : {"none", "partial", "complete"}, stamp : Stamps, marker : Markers]
Records == [HealthModels -> [validation : Evidence, acknowledgment : Evidence]]

HealthTypesFull ==
  /\ HealthTypeOK
  /\ work \in [pc : {"idle", "choosing", "building", "loaded"}, m : HealthModels \cup {NoTarget},
               todo : SUBSET HealthModels, fp : Fingerprints, loaded : Stamps, cancelled : BOOLEAN]
  /\ work.pc \in {"building", "loaded"} => work.m \in HealthModels
  /\ acker \in [pc : {"idle", "waiting", "checked", "copied"}, m : HealthModels \cup {NoTarget},
                abandoned : BOOLEAN, fp : Fingerprints, copy : Records \cup {<<>>}]
  /\ acker.pc # "idle" => acker.m \in HealthModels
  /\ loadedWith \in [HealthModels -> (Stamps \X Versions) \cup {<<>>}]
  /\ failedWith \in [HealthModels -> (Fingerprints \X Versions) \cup {<<>>}]

\* A passed validation loaded files no older than its fingerprint and no newer than those of
\* now; a validation that runs is in the same order.
PassesAreOrdered ==
  /\ \A m \in HealthModels :
       /\ records[m].validation.status # "none" => records[m].validation.fp[1] <= files[m].stamp
       /\ records[m].validation.status = "passed" =>
            /\ loadedWith[m] # <<>> /\ loadedWith[m][2] = records[m].validation.version
            /\ records[m].validation.fp[1] <= loadedWith[m][1] /\ loadedWith[m][1] <= files[m].stamp
  /\ work.pc \in {"building", "loaded"} => work.fp[1] <= files[work.m].stamp
  /\ work.pc = "loaded" => work.fp[1] <= work.loaded /\ work.loaded <= files[work.m].stamp

\* The last failure is on record until a reconversion is scheduled.
FailuresAreRecorded ==
  \A m \in HealthModels : m \notin discarded /\ failedWith[m] # <<>> =>
    /\ records[m].validation.status = "failed"
    /\ failedWith[m] = <<records[m].validation.fp, records[m].validation.version>>

\* An acknowledgment that has been checked works alone: no maintenance runs, what it copied
\* is still what is on record, and the model has no failure that it would hide.
AcknowledgesAlone ==
  /\ acker.pc \in {"checked", "copied"} => work.pc = "idle" /\ ~CurrentFailure(acker.m)
  /\ acker.pc = "copied" => acker.copy = records

HealthIInv == HealthTypesFull /\ PassesAreOrdered /\ FailuresAreRecorded /\ AcknowledgesAlone

LEMMA StampsAreNaturals == Stamps \subseteq Nat /\ 0 \in Stamps /\ <<0, 0>> \in Fingerprints
BY HealthAssumption DEF Stamps, Fingerprints

LEMMA HealthInitIInv == HealthInit => HealthIInv
<1> SUFFICES ASSUME HealthInit PROVE HealthIInv
  OBVIOUS
<1> USE DEF HealthInit
<1>1. NoMarker \in Markers
  BY DEF NoMarker, Markers, Definitions
<1>2. \A v \in Versions : [kind |-> "ok", version |-> v, def |-> 1] \in Markers
  BY DEF Markers, Definitions
<1>3. FoundFiles \subseteq FileStates
  BY <1>1, <1>2, StampsAreNaturals DEF FoundFiles, FileStates
<1>4. files \in [HealthModels -> FileStates]
  BY <1>3
<1>5. HealthTypeOK
  BY <1>4 DEF HealthTypeOK, FileStates, None, Evidence, NoWork, NoAcker, Definitions
<1>6. NoWork \in [pc : {"idle", "choosing", "building", "loaded"}, m : HealthModels \cup {NoTarget},
               todo : SUBSET HealthModels, fp : Fingerprints, loaded : Stamps, cancelled : BOOLEAN]
  BY StampsAreNaturals DEF NoWork
<1>7. NoAcker \in [pc : {"idle", "waiting", "checked", "copied"}, m : HealthModels \cup {NoTarget},
                abandoned : BOOLEAN, fp : Fingerprints, copy : Records \cup {<<>>}]
  BY StampsAreNaturals DEF NoAcker
<1>8. HealthTypesFull
  BY <1>5, <1>6, <1>7 DEF HealthTypesFull, NoWork, NoAcker
<1>9. PassesAreOrdered /\ FailuresAreRecorded /\ AcknowledgesAlone
  BY DEF PassesAreOrdered, FailuresAreRecorded, AcknowledgesAlone, None, NoWork, NoAcker
<1>10. QED
  BY <1>8, <1>9 DEF HealthIInv

\* What happens to the models' directories and definitions: a directory that changes gets a
\* newer stamp, and nothing changes a definition while an acknowledgment is under way.
WorldMoves ==
  /\ files' \in [HealthModels -> FileStates]
  /\ \A m \in HealthModels : files'[m] = files[m] \/ files'[m].stamp > files[m].stamp
  /\ definition' \in [HealthModels -> Definitions]
  /\ acker.pc \in {"checked", "copied"} => definition' = definition
  /\ conversion' \in [HealthModels -> {"idle", "running", "tail"}]
  /\ UNCHANGED <<runtime, records, work, acker, healthHistory>>

LEMMA NewFilesFacts ==
  ASSUME HealthTypesFull, NEW m \in HealthModels, NEW state \in {"none", "partial", "complete"},
         NEW marker \in Markers, NewFiles(m, state, marker)
  PROVE  /\ files' \in [HealthModels -> FileStates]
         /\ \A x \in HealthModels : files'[x] = files[x] \/ files'[x].stamp > files[x].stamp
<1>1. files \in [HealthModels -> FileStates]
  BY DEF HealthTypesFull, HealthTypeOK, FileStates
<1>2. files[m].stamp + 1 \in Stamps /\ files[m].stamp + 1 > files[m].stamp
  BY <1>1, HealthAssumption DEF NewFiles, FileStates, Stamps
<1>3. [state |-> state, stamp |-> files[m].stamp + 1, marker |-> marker] \in FileStates
  BY <1>2 DEF FileStates
<1>4. QED
  BY <1>1, <1>2, <1>3 DEF NewFiles

LEMMA WorldStep ==
  ASSUME HealthTypesFull, NEW m \in HealthModels,
         (EditFiles(m) \/ ChangeDefinition(m) \/ StartConversion(m) \/ ConversionEnds(m)
           \/ RecordConversionMetadata(m))
  PROVE  WorldMoves
<1>1. files \in [HealthModels -> FileStates] /\ files[m].marker \in Markers
  BY DEF HealthTypesFull, HealthTypeOK, FileStates
<1>2. /\ definition \in [HealthModels -> Definitions] /\ runtime \in Versions
      /\ conversion \in [HealthModels -> {"idle", "running", "tail"}]
  BY DEF HealthTypesFull, HealthTypeOK
<1>3. NoMarker \in Markers /\ [NoMarker EXCEPT !.kind = "invalid"] \in Markers
  BY DEF NoMarker, Markers, Definitions
<1>4. CASE EditFiles(m)
  <2>1. PICK state \in {"none", "partial", "complete"}, kind \in {"same", "invalid"} :
          NewFiles(m, state, IF state = "none" THEN NoMarker
                             ELSE IF kind = "same" THEN files[m].marker ELSE [NoMarker EXCEPT !.kind = "invalid"])
    BY <1>4 DEF EditFiles
  <2>2. (IF state = "none" THEN NoMarker
         ELSE IF kind = "same" THEN files[m].marker ELSE [NoMarker EXCEPT !.kind = "invalid"]) \in Markers
    BY <1>1, <1>3
  <2>3. QED
    BY <1>2, <1>4, <2>1, <2>2, NewFilesFacts DEF EditFiles, WorldMoves
<1>5. CASE ChangeDefinition(m)
  <2>1. definition' \in [HealthModels -> Definitions]
    BY <1>2, <1>5 DEF ChangeDefinition, Definitions
  <2>2. QED
    BY <1>1, <1>2, <1>5, <2>1 DEF ChangeDefinition, WorldMoves, CatalogLockFree
<1>6. CASE StartConversion(m)
  BY <1>1, <1>2, <1>6 DEF StartConversion, WorldMoves
<1>7. CASE ConversionEnds(m)
  <2>1. conversion' \in [HealthModels -> {"idle", "running", "tail"}]
    BY <1>2, <1>7 DEF ConversionEnds
  <2>2. CASE NewFiles(m, "complete", NoMarker)
    BY <1>2, <1>3, <1>7, <2>1, <2>2, NewFilesFacts DEF ConversionEnds, WorldMoves
  <2>3. CASE NewFiles(m, files[m].state, files[m].marker)
    <3>1. files[m].state \in {"none", "partial", "complete"}
      BY <1>1 DEF FileStates
    <3>2. QED
      BY <1>1, <1>2, <1>7, <2>1, <2>3, <3>1, NewFilesFacts DEF ConversionEnds, WorldMoves
  <2>4. CASE files' = files
    BY <1>1, <1>2, <1>7, <2>1, <2>4 DEF ConversionEnds, WorldMoves
  <2>5. QED
    BY <1>7, <2>2, <2>3, <2>4 DEF ConversionEnds
<1>8. CASE RecordConversionMetadata(m)
  <2>1. conversion' \in [HealthModels -> {"idle", "running", "tail"}]
    BY <1>2, <1>8 DEF RecordConversionMetadata
  <2>2. [kind |-> "ok", version |-> runtime, def |-> definition[m]] \in Markers
    BY <1>2 DEF Markers
  <2>3. CASE NewFiles(m, "complete", [kind |-> "ok", version |-> runtime, def |-> definition[m]])
    BY <1>2, <1>8, <2>1, <2>2, <2>3, NewFilesFacts DEF RecordConversionMetadata, WorldMoves
  <2>4. CASE files' = files
    BY <1>1, <1>2, <1>8, <2>1, <2>4 DEF RecordConversionMetadata, WorldMoves
  <2>5. QED
    BY <1>8, <2>3, <2>4 DEF RecordConversionMetadata
<1>9. QED
  BY <1>4, <1>5, <1>6, <1>7, <1>8

\* Evidence of files that have changed since is about no files of now.
LEMMA WorldKeeps == HealthIInv /\ WorldMoves => HealthIInv'
<1> SUFFICES ASSUME HealthIInv, WorldMoves PROVE HealthIInv'
  OBVIOUS
<1> USE DEF HealthIInv, WorldMoves
<1>1. HealthTypesFull'
  BY DEF HealthTypesFull, HealthTypeOK, FileStates, healthHistory
<1>2. \A m \in HealthModels : /\ files[m].stamp \in Nat /\ files'[m].stamp \in Nat
                              /\ files[m].stamp <= files'[m].stamp
  <2>1. TAKE m \in HealthModels
  <2>2. files[m] \in FileStates /\ files'[m] \in FileStates
    BY DEF HealthTypesFull, HealthTypeOK, FileStates
  <2>3. files[m].stamp \in Nat /\ files'[m].stamp \in Nat
    BY <2>2, StampsAreNaturals DEF FileStates
  <2>4. QED
    BY <2>3
<1>3. \A m \in HealthModels :
        /\ records[m].validation.status # "none" => records[m].validation.fp[1] \in Nat
        /\ loadedWith[m] # <<>> => loadedWith[m][1] \in Nat
  <2>1. TAKE m \in HealthModels
  <2>2. records[m].validation \in Evidence /\ loadedWith[m] \in (Stamps \X Versions) \cup {<<>>}
    BY DEF HealthTypesFull, HealthTypeOK
  <2>3. \A f \in Fingerprints : f[1] \in Nat
    BY StampsAreNaturals DEF Fingerprints
  <2>4. records[m].validation.status # "none" => records[m].validation.fp \in Fingerprints
    BY <2>2 DEF Evidence, None
  <2>5. loadedWith[m] # <<>> => loadedWith[m][1] \in Nat
    BY <2>2, StampsAreNaturals
  <2>6. QED
    BY <2>3, <2>4, <2>5
<1>4. work.fp[1] \in Nat /\ work.loaded \in Nat
  BY StampsAreNaturals DEF HealthTypesFull, Fingerprints
<1>5. PassesAreOrdered'
  <2>1. ASSUME NEW m \in HealthModels
        PROVE  /\ records[m].validation.status # "none" => records[m].validation.fp[1] <= files'[m].stamp
               /\ records[m].validation.status = "passed" => loadedWith[m][1] <= files'[m].stamp
    BY <1>2, <1>3 DEF PassesAreOrdered
  <2>2. work.pc \in {"building", "loaded"} => work.fp[1] <= files'[work.m].stamp
    BY <1>2, <1>4 DEF PassesAreOrdered, HealthTypesFull
  <2>3. work.pc = "loaded" => work.loaded <= files'[work.m].stamp
    BY <1>2, <1>4 DEF PassesAreOrdered, HealthTypesFull
  <2>4. QED
    BY <2>1, <2>2, <2>3 DEF PassesAreOrdered, healthHistory
<1>6. FailuresAreRecorded'
  BY DEF FailuresAreRecorded, healthHistory
<1>7. AcknowledgesAlone'
  <2>1. SUFFICES ASSUME acker.pc \in {"checked", "copied"} PROVE ~CurrentFailure(acker.m)'
    BY DEF AcknowledgesAlone
  <2>2. acker.m \in HealthModels /\ definition' = definition /\ ~CurrentFailure(acker.m)
    BY <2>1 DEF HealthTypesFull, AcknowledgesAlone
  <2>3. CASE files'[acker.m] = files[acker.m]
    BY <2>2, <2>3 DEF CurrentFailure, RecordMatches, Fingerprint
  <2>4. CASE files'[acker.m].stamp > files[acker.m].stamp
    <3>1. records[acker.m].validation.status # "none" => records[acker.m].validation.fp[1] # files'[acker.m].stamp
      BY <1>2, <1>3, <2>2, <2>4 DEF PassesAreOrdered
    <3>2. QED
      BY <3>1, <2>2 DEF CurrentFailure, RecordMatches, Fingerprint
  <2>5. QED
    BY <2>2, <2>3, <2>4
<1>8. QED
  BY <1>1, <1>5, <1>6, <1>7

\* Maintenance moves between records: it looks, builds, is cancelled, or finishes.
MaintenanceMoves ==
  /\ work' \in [pc : {"idle", "choosing", "building", "loaded"}, m : HealthModels \cup {NoTarget},
                todo : SUBSET HealthModels, fp : Fingerprints, loaded : Stamps, cancelled : BOOLEAN]
  /\ work'.pc \in {"building", "loaded"} => work'.m \in HealthModels /\ work'.fp[1] <= files[work'.m].stamp
  /\ work'.pc = "loaded" => work'.fp[1] <= work'.loaded /\ work'.loaded <= files[work'.m].stamp
  /\ acker.pc \in {"checked", "copied"} => work'.pc = "idle"
  /\ UNCHANGED <<runtime, healthFiles, records, acker, healthHistory>>

LEMMA MaintenanceKeeps == HealthIInv /\ MaintenanceMoves => HealthIInv'
BY DEF HealthIInv, MaintenanceMoves, HealthTypesFull, HealthTypeOK, PassesAreOrdered,
     FailuresAreRecorded,
       AcknowledgesAlone, CurrentFailure, RecordMatches, Fingerprint, healthFiles, healthHistory

LEMMA MaintenanceStep ==
  ASSUME HealthIInv,
         \/ \E targets \in SUBSET HealthModels, rebuild \in BOOLEAN : StartMaintenance(targets, rebuild)
         \/ \E m \in HealthModels : ValidateBegins(m)
         \/ BuildLoads \/ CancelMaintenanceRequest \/ MaintenanceFinishes
  PROVE  MaintenanceMoves
<1> USE DEF HealthIInv, MaintenanceMoves
<1> DEFINE WorkType ==
      [pc : {"idle", "choosing", "building", "loaded"}, m : HealthModels \cup {NoTarget},
       todo : SUBSET HealthModels, fp : Fingerprints, loaded : Stamps, cancelled : BOOLEAN]
<1>1. NoWork \in WorkType /\ work \in WorkType
  BY StampsAreNaturals DEF NoWork, HealthTypesFull
<1>2. acker.pc \in {"checked", "copied"} => work.pc = "idle"
  BY DEF AcknowledgesAlone
<1>3. \A m \in HealthModels : Fingerprint(m) \in Fingerprints /\ files[m].stamp \in Stamps
                              /\ files[m].stamp \in Nat /\ Fingerprint(m)[1] = files[m].stamp
  <2>1. TAKE m \in HealthModels
  <2>2. files[m].stamp \in Stamps /\ definition[m] \in 0 .. 2
    BY DEF HealthTypesFull, HealthTypeOK, Definitions
  <2>3. QED
    BY <2>2, StampsAreNaturals DEF Fingerprint, Fingerprints
<1>4. ASSUME NEW targets \in SUBSET HealthModels, NEW rebuild \in BOOLEAN, StartMaintenance(targets, rebuild)
      PROVE MaintenanceMoves
  BY <1>1, <1>4 DEF StartMaintenance, MaintenanceGate, CatalogLockFree, NoWork
<1>5. ASSUME NEW m \in HealthModels, ValidateBegins(m) PROVE MaintenanceMoves
  <2>1. CASE Candidate(m)
    <3>1. work' = [work EXCEPT !.pc = "building", !.m = m, !.todo = @ \ {m}, !.fp = Fingerprint(m)]
      BY <1>5, <2>1 DEF ValidateBegins
    <3>2. work' \in WorkType /\ work'.pc = "building" /\ work'.m = m /\ work'.fp = Fingerprint(m)
      BY <1>1, <1>3, <3>1
    <3>3. work'.fp[1] <= files[work'.m].stamp
      BY <1>3, <3>2
    <3>4. QED
      BY <1>2, <1>5, <3>2, <3>3 DEF ValidateBegins
  <2>2. CASE ~Candidate(m)
    <3>1. work' = [work EXCEPT !.todo = @ \ {m}] /\ work.pc = "choosing"
      BY <1>5, <2>2 DEF ValidateBegins
    <3>2. work' \in WorkType /\ work'.pc = "choosing"
      BY <1>1, <3>1
    <3>3. QED
      BY <1>2, <1>5, <3>2 DEF ValidateBegins
  <2>3. QED
    BY <2>1, <2>2
<1>6. CASE BuildLoads
  <2>1. work.m \in HealthModels /\ work.fp[1] <= files[work.m].stamp
    BY <1>6 DEF BuildLoads, HealthTypesFull, PassesAreOrdered
  <2>2. work' = [work EXCEPT !.pc = "loaded", !.loaded = files[work.m].stamp]
    BY <1>6 DEF BuildLoads
  <2>3. /\ work' \in WorkType /\ work'.pc = "loaded" /\ work'.m = work.m /\ work'.fp = work.fp
        /\ work'.loaded = files[work.m].stamp
    BY <1>1, <1>3, <2>1, <2>2
  <2>4. work'.loaded <= files[work'.m].stamp
    BY <1>3, <2>1, <2>3
  <2>5. QED
    BY <1>2, <1>6, <2>1, <2>3, <2>4 DEF BuildLoads
<1>7. CASE CancelMaintenanceRequest
  <2>1. work' \in WorkType /\ work'.pc = work.pc /\ work'.m = work.m /\ work'.fp = work.fp
        /\ work'.loaded = work.loaded
    BY <1>1, <1>7 DEF CancelMaintenanceRequest
  <2>2. QED
    BY <1>2, <1>7, <2>1 DEF CancelMaintenanceRequest, HealthTypesFull, PassesAreOrdered
<1>8. CASE MaintenanceFinishes
  BY <1>1, <1>8 DEF MaintenanceFinishes, NoWork
<1>9. QED
  BY <1>4, <1>5, <1>6, <1>7, <1>8

LEMMA ValidateEndsStep == HealthIInv /\ (\E passed \in BOOLEAN : ValidateEnds(passed)) => HealthIInv'
<1> SUFFICES ASSUME HealthIInv, NEW passed \in BOOLEAN, ValidateEnds(passed) PROVE HealthIInv'
  OBVIOUS
<1> USE DEF HealthIInv
<1> DEFINE t == work.m
           status == IF passed THEN "passed" ELSE "failed"
           evidence == [status |-> status, fp |-> work.fp, version |-> runtime]
<1>1. /\ t \in HealthModels /\ work.fp \in Fingerprints /\ work.loaded \in Stamps /\ runtime \in Versions
      /\ work.pc \in {"building", "loaded"} /\ work.fp[1] <= files[t].stamp
  BY DEF ValidateEnds, HealthTypesFull, HealthTypeOK, PassesAreOrdered
<1>2. passed => work.fp[1] <= work.loaded /\ work.loaded <= files[t].stamp
  BY DEF ValidateEnds, PassesAreOrdered
<1>3. evidence \in Evidence /\ evidence.status \in {"passed", "failed"}
  BY <1>1 DEF Evidence
<1>4. /\ records' = [records EXCEPT ![t].validation = evidence]
      /\ loadedWith' = [loadedWith EXCEPT ![t] = IF passed THEN <<work.loaded, runtime>> ELSE @]
      /\ failedWith' = [failedWith EXCEPT ![t] = IF passed THEN <<>> ELSE <<work.fp, runtime>>]
      /\ discarded' = discarded \ {t} /\ UNCHANGED <<runtime, healthFiles, acker>>
  BY DEF ValidateEnds, WriteValidation, EvidenceOf
<1>5. /\ records \in Records /\ loadedWith \in [HealthModels -> (Stamps \X Versions) \cup {<<>>}]
      /\ failedWith \in [HealthModels -> (Fingerprints \X Versions) \cup {<<>>}]
  BY DEF HealthTypesFull, HealthTypeOK, Records
<1>6. [records[t] EXCEPT !.validation = evidence] \in [validation : Evidence, acknowledgment : Evidence]
  BY <1>1, <1>3, <1>5 DEF Records
<1>7. records' = [records EXCEPT ![t] = [records[t] EXCEPT !.validation = evidence]]
  BY <1>4
<1>8. /\ records' \in Records /\ records'[t].validation = evidence
      /\ records'[t].acknowledgment = records[t].acknowledgment
      /\ \A x \in HealthModels : x # t => records'[x] = records[x]
  BY <1>1, <1>5, <1>6, <1>7 DEF Records
<1>9. /\ loadedWith' \in [HealthModels -> (Stamps \X Versions) \cup {<<>>}]
      /\ loadedWith'[t] = (IF passed THEN <<work.loaded, runtime>> ELSE loadedWith[t])
      /\ \A x \in HealthModels : x # t => loadedWith'[x] = loadedWith[x]
  BY <1>1, <1>4, <1>5
<1>10. /\ failedWith' \in [HealthModels -> (Fingerprints \X Versions) \cup {<<>>}]
       /\ failedWith'[t] = (IF passed THEN <<>> ELSE <<work.fp, runtime>>)
       /\ \A x \in HealthModels : x # t => failedWith'[x] = failedWith[x]
  BY <1>1, <1>4, <1>5
<1>11. /\ work' \in [pc : {"idle", "choosing"}, m : HealthModels \cup {NoTarget},
                     todo : SUBSET HealthModels, fp : Fingerprints, loaded : Stamps, cancelled : BOOLEAN]
  BY StampsAreNaturals DEF ValidateEnds, NoWork, HealthTypesFull
<1>12. HealthTypeOK'
  BY <1>3, <1>4, <1>8, <1>11 DEF HealthTypesFull, HealthTypeOK, Records, healthFiles
<1>13. HealthTypesFull'
  BY <1>4, <1>9, <1>10, <1>11, <1>12 DEF HealthTypesFull
<1>14. PassesAreOrdered'
  <2>1. ASSUME NEW x \in HealthModels
        PROVE  /\ records'[x].validation.status # "none" => records'[x].validation.fp[1] <= files'[x].stamp
               /\ records'[x].validation.status = "passed" =>
                    /\ loadedWith'[x] # <<>> /\ loadedWith'[x][2] = records'[x].validation.version
                    /\ records'[x].validation.fp[1] <= loadedWith'[x][1] /\ loadedWith'[x][1] <= files'[x].stamp
    <3>1. CASE x = t
      <4>1. CASE passed
        BY <1>1, <1>2, <1>4, <1>8, <1>9, <3>1, <4>1 DEF healthFiles
      <4>2. CASE ~passed
        BY <1>1, <1>4, <1>8, <3>1, <4>2 DEF healthFiles
      <4>3. QED
        BY <4>1, <4>2
    <3>2. CASE x # t
      BY <1>4, <1>8, <1>9, <3>2 DEF PassesAreOrdered, healthFiles
    <3>3. QED
      BY <3>1, <3>2
  <2>2. work'.pc \notin {"building", "loaded"}
    BY <1>11
  <2>3. QED
    BY <2>1, <2>2 DEF PassesAreOrdered
<1>15. FailuresAreRecorded'
  <2>1. ASSUME NEW x \in HealthModels, x \notin discarded', failedWith'[x] # <<>>
        PROVE  /\ records'[x].validation.status = "failed"
               /\ failedWith'[x] = <<records'[x].validation.fp, records'[x].validation.version>>
    <3>1. CASE x = t
      BY <1>8, <1>10, <2>1, <3>1
    <3>2. CASE x # t
      BY <1>4, <1>8, <1>10, <2>1, <3>2 DEF FailuresAreRecorded
    <3>3. QED
      BY <3>1, <3>2
  <2>2. QED
    BY <2>1 DEF FailuresAreRecorded
<1>16. AcknowledgesAlone'
  BY <1>1, <1>4 DEF AcknowledgesAlone
<1>17. QED
  BY <1>13, <1>14, <1>15, <1>16

\* A reconversion that is scheduled takes the model's evidence away.
LEMMA ReconvertStep ==
  ASSUME HealthIInv, NEW m \in HealthModels, ScheduleReconvert(m) PROVE HealthIInv'
<1> USE DEF HealthIInv, ScheduleReconvert, Forget
<1>1. /\ records' = [records EXCEPT ![m] = [validation |-> None, acknowledgment |-> None]]
      /\ None \in Evidence /\ records \in Records
  BY DEF HealthTypesFull, HealthTypeOK, Records, Evidence
<1>2. /\ records' \in Records /\ records'[m] = [validation |-> None, acknowledgment |-> None]
      /\ \A x \in HealthModels : x # m => records'[x] = records[x]
  BY <1>1 DEF Records
<1>3. acker.pc \in {"idle", "waiting"} /\ work.pc = "idle"
  BY DEF CatalogLockFree
<1>4. HealthTypesFull'
  BY <1>2 DEF HealthTypesFull, HealthTypeOK, Records, None
<1>5. PassesAreOrdered'
  <2>1. \A x \in HealthModels : records'[x].validation = (IF x = m THEN None ELSE records[x].validation)
    BY <1>2
  <2>2. QED
    BY <1>3, <2>1 DEF PassesAreOrdered, None
<1>6. FailuresAreRecorded'
  BY <1>2 DEF FailuresAreRecorded
<1>7. AcknowledgesAlone'
  BY <1>3 DEF AcknowledgesAlone
<1>8. QED
  BY <1>4, <1>5, <1>6, <1>7

LEMMA AcknowledgeStep ==
  ASSUME HealthIInv,
         \/ \E m \in HealthModels : AcknowledgeBegins(m)
         \/ AcknowledgeChecks \/ AcknowledgeReads \/ AbandonAcknowledgment
  PROVE  HealthIInv'
<1> USE DEF HealthIInv
<1> DEFINE AckerType ==
      [pc : {"idle", "waiting", "checked", "copied"}, m : HealthModels \cup {NoTarget},
       abandoned : BOOLEAN, fp : Fingerprints, copy : Records \cup {<<>>}]
           Before == UNCHANGED <<runtime, healthFiles, records, work, healthHistory>>
<1>1. acker \in AckerType /\ NoAcker \in AckerType /\ records \in Records
  BY StampsAreNaturals DEF HealthTypesFull, HealthTypeOK, NoAcker, Records
<1>2. ASSUME Before, acker' \in AckerType, acker'.pc # "idle" => acker'.m \in HealthModels,
             acker'.pc \in {"checked", "copied"} => work.pc = "idle" /\ ~CurrentFailure(acker'.m),
             acker'.pc = "copied" => acker'.copy = records
      PROVE HealthIInv'
  <2>1. HealthTypesFull'
    BY <1>2 DEF HealthTypesFull, HealthTypeOK, healthFiles, healthHistory
  <2>2. PassesAreOrdered' /\ FailuresAreRecorded'
    BY <1>2 DEF PassesAreOrdered, FailuresAreRecorded, healthFiles, healthHistory
  <2>3. AcknowledgesAlone'
    BY <1>2 DEF AcknowledgesAlone, CurrentFailure, RecordMatches, Fingerprint, healthFiles
  <2>4. QED
    BY <2>1, <2>2, <2>3
<1>3. ASSUME NEW m \in HealthModels, AcknowledgeBegins(m) PROVE HealthIInv'
  <2>1. acker' \in AckerType /\ acker'.pc = "waiting" /\ acker'.m = m
    BY <1>1, <1>3 DEF AcknowledgeBegins, NoAcker
  <2>2. QED
    BY <1>2, <1>3, <2>1 DEF AcknowledgeBegins
<1>4. CASE AcknowledgeChecks
  <2>1. CASE AckRefused(acker.m)
    BY <1>1, <1>2, <1>4, <2>1 DEF AcknowledgeChecks, NoAcker
  <2>2. CASE ~AckRefused(acker.m)
    <3>1. acker' \in AckerType /\ acker'.pc = "checked" /\ acker'.m = acker.m /\ acker.m \in HealthModels
      BY <1>1, <1>4, <2>2 DEF AcknowledgeChecks, HealthTypesFull
    <3>2. work.pc = "idle" /\ ~CurrentFailure(acker.m)
      BY <1>4, <2>2 DEF AcknowledgeChecks, CatalogLockFree, AckRefused
    <3>3. QED
      BY <1>2, <1>4, <3>1, <3>2 DEF AcknowledgeChecks
  <2>3. QED
    BY <2>1, <2>2
<1>5. CASE AcknowledgeReads
  <2>1. acker.m \in HealthModels /\ work.pc = "idle" /\ ~CurrentFailure(acker.m)
    BY <1>5 DEF AcknowledgeReads, HealthTypesFull, AcknowledgesAlone
  <2>2. Fingerprint(acker.m) \in Fingerprints
    BY <2>1 DEF Fingerprint, Fingerprints, HealthTypesFull, HealthTypeOK, Definitions
  <2>3. acker' \in AckerType /\ acker'.pc = "copied" /\ acker'.m = acker.m /\ acker'.copy = records
    BY <1>1, <1>5, <2>2 DEF AcknowledgeReads
  <2>4. QED
    BY <1>2, <1>5, <2>1, <2>3 DEF AcknowledgeReads
<1>6. CASE AbandonAcknowledgment
  <2>1. acker' \in AckerType /\ acker'.pc = acker.pc /\ acker'.m = acker.m /\ acker'.copy = acker.copy
    BY <1>1, <1>6 DEF AbandonAcknowledgment
  <2>2. QED
    BY <1>2, <1>6, <2>1 DEF AbandonAcknowledgment, HealthTypesFull, AcknowledgesAlone
<1>7. QED
  BY <1>3, <1>4, <1>5, <1>6

\* The copy that is written back is what is on record, but for the acknowledgment itself.
LEMMA AcknowledgedFacts ==
  ASSUME HealthIInv, AcknowledgeWrites
  PROVE  /\ records' \in Records /\ acker.m \in HealthModels /\ work.pc = "idle"
         /\ \A x \in HealthModels : records'[x].validation = records[x].validation
         /\ \A x \in HealthModels : x # acker.m => records'[x] = records[x]
         /\ records'[acker.m].acknowledgment = [status |-> "acknowledged", fp |-> acker.fp, version |-> runtime]
<1> USE DEF HealthIInv
<1> DEFINE a == [status |-> "acknowledged", fp |-> acker.fp, version |-> runtime]
<1>1. /\ acker.m \in HealthModels /\ acker.copy = records /\ work.pc = "idle" /\ records \in Records
      /\ acker.fp \in Fingerprints /\ runtime \in Versions
  BY DEF AcknowledgeWrites, HealthTypesFull, HealthTypeOK, AcknowledgesAlone, Records
<1>2. a \in Evidence
  BY <1>1 DEF Evidence
<1>3. records' = [records EXCEPT ![acker.m] = [records[acker.m] EXCEPT !.acknowledgment = a]]
  BY <1>1 DEF AcknowledgeWrites
<1>4. [records[acker.m] EXCEPT !.acknowledgment = a] \in [validation : Evidence, acknowledgment : Evidence]
  BY <1>1, <1>2 DEF Records
<1>5. QED
  BY <1>1, <1>3, <1>4 DEF Records

LEMMA AcknowledgeWritesStep == HealthIInv /\ AcknowledgeWrites => HealthIInv'
<1> SUFFICES ASSUME HealthIInv, AcknowledgeWrites PROVE HealthIInv'
  OBVIOUS
<1>1. /\ records' \in Records /\ acker.m \in HealthModels /\ work.pc = "idle"
      /\ \A x \in HealthModels : records'[x].validation = records[x].validation
      /\ \A x \in HealthModels : x # acker.m => records'[x] = records[x]
      /\ records'[acker.m].acknowledgment.status = "acknowledged"
  BY AcknowledgedFacts
<1>2. acker' = NoAcker /\ UNCHANGED <<runtime, healthFiles, work, healthHistory>>
  BY DEF AcknowledgeWrites
<1>3. HealthTypesFull'
  BY <1>1, <1>2, StampsAreNaturals
  DEF HealthIInv, HealthTypesFull, HealthTypeOK, Records, NoAcker, healthFiles, healthHistory
<1>4. PassesAreOrdered' /\ FailuresAreRecorded'
  BY <1>1, <1>2 DEF HealthIInv, PassesAreOrdered, FailuresAreRecorded, healthFiles, healthHistory
<1>5. AcknowledgesAlone'
  BY <1>2 DEF AcknowledgesAlone, NoAcker
<1>6. QED
  BY <1>3, <1>4, <1>5 DEF HealthIInv

LEMMA HealthRestartStep ==
  ASSUME HealthIInv, NEW v \in Versions, RestartServer(v) PROVE HealthIInv'
<1> USE DEF HealthIInv, RestartServer
<1>1. HealthTypesFull'
  BY StampsAreNaturals DEF HealthTypesFull, HealthTypeOK, NoWork, NoAcker, healthHistory
<1>2. PassesAreOrdered' /\ FailuresAreRecorded' /\ AcknowledgesAlone'
  BY DEF PassesAreOrdered, FailuresAreRecorded, AcknowledgesAlone, NoWork, NoAcker, healthHistory
<1>3. QED
  BY <1>1, <1>2

LEMMA HealthStep == HealthIInv /\ [HealthNext]_healthVars => HealthIInv'
<1> SUFFICES ASSUME HealthIInv, [HealthNext]_healthVars PROVE HealthIInv'
  OBVIOUS
<1>1. CASE UNCHANGED healthVars
  BY <1>1 DEF healthVars, healthFiles, healthHistory, HealthIInv, HealthTypesFull, HealthTypeOK,
              PassesAreOrdered, FailuresAreRecorded, AcknowledgesAlone, CurrentFailure, RecordMatches,
              Fingerprint
<1>2. ASSUME NEW m \in HealthModels,
             (EditFiles(m) \/ ChangeDefinition(m) \/ StartConversion(m) \/ ConversionEnds(m)
               \/ RecordConversionMetadata(m))
      PROVE HealthIInv'
  BY <1>2, WorldStep, WorldKeeps DEF HealthIInv
<1>3. ASSUME \/ \E targets \in SUBSET HealthModels, rebuild \in BOOLEAN : StartMaintenance(targets, rebuild)
             \/ \E m \in HealthModels : ValidateBegins(m)
             \/ BuildLoads \/ CancelMaintenanceRequest \/ MaintenanceFinishes
      PROVE HealthIInv'
  BY <1>3, MaintenanceStep, MaintenanceKeeps
<1>4. QED
  BY <1>1, <1>2, <1>3, ValidateEndsStep, ReconvertStep, AcknowledgeStep, AcknowledgeWritesStep,
     HealthRestartStep DEF HealthNext

LEMMA HealthInvariant == HealthSpec => []HealthIInv
BY HealthInitIInv, HealthStep, PTL DEF HealthSpec

\* Type correctness of the health center.
THEOREM HealthTypeCorrect == HealthSpec => []HealthTypeOK
<1>1. HealthIInv => HealthTypeOK
  BY DEF HealthIInv, HealthTypesFull
<1>2. QED
  BY <1>1, HealthInvariant, PTL

\* Evidence is true: a model that counts as validated has loaded with exactly these files and
\* this runtime, whatever was edited, converted or upgraded while the validation ran, and a
\* known failure is shown until a reconversion is scheduled (app/runtime_health.py).
THEOREM HealthEvidenceIsTrue == HealthSpec => []EvidenceIsTrue
<1>1. ASSUME HealthIInv PROVE EvidenceIsTrue
  <2> USE <1>1 DEF HealthIInv
  <2>1. PassMeansTheseFilesLoaded
    <3>1. SUFFICES ASSUME NEW m \in HealthModels, CurrentPass(m)
                   PROVE  loadedWith[m] = <<files[m].stamp, runtime>>
      BY DEF PassMeansTheseFilesLoaded
    <3>2. /\ loadedWith[m] # <<>> /\ loadedWith[m][2] = runtime
          /\ files[m].stamp <= loadedWith[m][1] /\ loadedWith[m][1] <= files[m].stamp
      BY <3>1 DEF CurrentPass, RecordMatches, Fingerprint, PassesAreOrdered
    <3>3. loadedWith[m] \in Stamps \X Versions /\ files[m].stamp \in Stamps
      BY <3>2 DEF HealthTypesFull, HealthTypeOK
    <3>4. loadedWith[m][1] \in Nat /\ files[m].stamp \in Nat
      BY <3>3, StampsAreNaturals
    <3>5. QED
      BY <3>2, <3>3, <3>4
  <2>2. FailureStaysShown
    <3>1. SUFFICES ASSUME NEW m \in HealthModels, KnownFailure(m), m \notin discarded
                   PROVE  FailureShown(m)
      BY DEF FailureStaysShown
    <3>2. failedWith[m] = <<Fingerprint(m), runtime>> /\ failedWith[m] # <<>>
      BY <3>1 DEF KnownFailure
    <3>3. /\ records[m].validation.status = "failed"
          /\ failedWith[m] = <<records[m].validation.fp, records[m].validation.version>>
      BY <3>1, <3>2 DEF FailuresAreRecorded
    <3>4. records[m].validation.fp = Fingerprint(m) /\ records[m].validation.version = runtime
      BY <3>2, <3>3
    <3>5. QED
      BY <3>3, <3>4 DEF FailureShown, Recommendation, CurrentFailure, RecordMatches
  <2>3. QED
    BY <2>1, <2>2 DEF EvidenceIsTrue
<1>2. QED
  BY <1>1, HealthInvariant, PTL

\* The two writers of the evidence do not undo each other: evidence goes only with a new
\* validation or a reconversion of that model, and no acknowledgment is recorded over a
\* failure, even one that was checked for long before it is written
\* (app/runtime_health_safety.py).
THEOREM EvidenceNeverUndone == HealthSpec => EvidenceKept
<1> DEFINE Lost(m) ==
      /\ records'[m].validation # records[m].validation =>
           \/ work.pc \in {"building", "loaded"} /\ work.m = m
           \/ conversion[m] = "idle" /\ conversion'[m] = "running"
      /\ records[m].acknowledgment # None /\ records'[m].acknowledgment = None =>
           conversion[m] = "idle" /\ conversion'[m] = "running"
           Hidden(m) ==
      acker.pc = "copied" /\ acker'.pc = "idle" /\ acker.m = m /\ records' # records => ~CurrentFailure(m)
<1>1. ASSUME HealthIInv, [HealthNext]_healthVars PROVE \A m \in HealthModels : Lost(m)
  <2> SUFFICES ASSUME NEW m \in HealthModels PROVE Lost(m)
    OBVIOUS
  <2>1. records \in Records
    BY <1>1 DEF HealthIInv, HealthTypesFull, HealthTypeOK, Records
  <2>2. CASE records' = records
    BY <2>2
  <2>3. ASSUME NEW passed \in BOOLEAN, ValidateEnds(passed) PROVE Lost(m)
    <3>1. work.pc \in {"building", "loaded"}
      BY <2>3 DEF ValidateEnds
    <3>2. CASE m = work.m
      <4>1. records'[m].acknowledgment = records[m].acknowledgment
        BY <2>1, <2>3, <3>2 DEF ValidateEnds, WriteValidation, Records
      <4>2. QED
        BY <3>1, <3>2, <4>1
    <3>3. CASE m # work.m
      <4>1. records'[m] = records[m]
        BY <2>1, <2>3, <3>3 DEF ValidateEnds, WriteValidation, Records
      <4>2. QED
        BY <4>1
    <3>4. QED
      BY <3>2, <3>3
  <2>4. ASSUME NEW x \in HealthModels, ScheduleReconvert(x) PROVE Lost(m)
    <3>1. CASE m = x
      <4>1. conversion[m] = "idle" /\ conversion'[m] = "running"
        BY <1>1, <2>4, <3>1 DEF ScheduleReconvert, HealthIInv, HealthTypesFull, HealthTypeOK
      <4>2. QED
        BY <4>1
    <3>2. CASE m # x
      <4>1. records'[m] = records[m]
        BY <2>1, <2>4, <3>2 DEF ScheduleReconvert, Forget, Records
      <4>2. QED
        BY <4>1
    <3>3. QED
      BY <3>1, <3>2
  <2>5. CASE AcknowledgeWrites
    <3>1. records'[m].validation = records[m].validation
      BY <1>1, <2>5, AcknowledgedFacts
    <3>2. CASE m = acker.m
      <4>1. records'[m].acknowledgment.status = "acknowledged" /\ None.status = "none"
        BY <1>1, <2>5, <3>2, AcknowledgedFacts DEF None
      <4>2. QED
        BY <3>1, <4>1
    <3>3. CASE m # acker.m
      <4>1. records'[m] = records[m]
        BY <1>1, <2>5, <3>3, AcknowledgedFacts
      <4>2. QED
        BY <4>1
    <3>4. QED
      BY <3>2, <3>3
  <2>6. QED
    BY <1>1, <2>2, <2>3, <2>4, <2>5
    DEF HealthNext, EditFiles, ChangeDefinition, StartConversion, ConversionEnds,
         RecordConversionMetadata,
        AcknowledgeBegins, ValidateBegins, RestartServer, StartMaintenance, BuildLoads, CancelMaintenanceRequest,
        MaintenanceFinishes, AcknowledgeChecks, AcknowledgeReads, AbandonAcknowledgment, healthVars
<1>2. ASSUME HealthIInv PROVE \A m \in HealthModels : Hidden(m)
  BY <1>2 DEF HealthIInv, AcknowledgesAlone
<1>3. HealthSpec => EvidenceIsNotLost
  BY <1>1, HealthInvariant, PTL DEF HealthSpec, EvidenceIsNotLost
<1>4. HealthSpec => NoAcknowledgmentOfAFailure
  BY <1>2, HealthInvariant, PTL DEF HealthSpec, NoAcknowledgmentOfAFailure
<1>5. QED
  BY <1>3, <1>4 DEF EvidenceKept

-----------------------------------------------------------------------------
(* The Hugging Face token.                                                  *)

\* A question about a token is about one there is, and has no answer yet.
QuestionsAreOpen ==
  \A r \in HfRequests :
    hfReq[r].place = "whoami" => hfReq[r].token \in Tokens /\ hfReq[r].answer = Unset

HfIInv == HfTypeOK /\ QuestionsAreOpen /\ HfSafe

LEMMA HfInitIInv == HfInit => HfIInv
<1> SUFFICES ASSUME HfInit PROVE HfIInv
  OBVIOUS
<1>1. HfTypeOK /\ QuestionsAreOpen
  BY DEF HfInit, HfTypeOK, QuestionsAreOpen, NoHfRequest, Keys
<1>2. HfSafe
  BY DEF HfInit, HfSafe, TokenSurvivesRestart, StoredIsVerified, CacheIsOfItsToken, PassedWasGranted,
      NoHfRequest, Unset
<1>3. QED
  BY <1>1, <1>2 DEF HfIInv

\* Looking the token up may bring it from the file into memory.
LEMMA CurrentKeeps ==
  ASSUME HfIInv, NEW token \in Keys, Current(token), UNCHANGED <<hfFixed, hfHistory>>
  PROVE  /\ hfMemory' \in Keys /\ hfDisk' \in Keys
         /\ TokenSurvivesRestart' /\ StoredIsVerified'
BY DEF Current, HfIInv, HfTypeOK, HfSafe, TokenSurvivesRestart, StoredIsVerified, hfFixed,
     hfHistory, hfStore

HfRequestType == [op : {"none", "save", "test", "check"}, place : {"idle", "whoami", "probe", "done"},
                  token : Keys, answer : AccessAnswers \cup {Unset}]

\* A request gets its answer, or its next place.
LEMMA OneRequestMoves ==
  ASSUME HfIInv, NEW r \in HfRequests, NEW q \in HfRequestType, hfReq' = [hfReq EXCEPT ![r] = q],
         hfGranted \subseteq hfGranted',
         q.place = "whoami" => q.token \in Tokens /\ q.answer = Unset,
         q.op = "check" /\ q.answer = "granted" => q.token \in hfGranted'
  PROVE  hfReq' \in [HfRequests -> HfRequestType] /\ QuestionsAreOpen' /\ PassedWasGranted'
<1>1. hfReq \in [HfRequests -> HfRequestType] /\ QuestionsAreOpen /\ PassedWasGranted
  BY DEF HfIInv, HfTypeOK, HfSafe, HfRequestType
<1>2. hfReq' \in [HfRequests -> HfRequestType]
  BY <1>1
<1>3. \A s \in HfRequests : hfReq'[s] = IF s = r THEN q ELSE hfReq[s]
  BY <1>1
<1>4. QED
  BY <1>1, <1>2, <1>3 DEF QuestionsAreOpen, PassedWasGranted

LEMMA ReplyKeeps ==
  ASSUME HfIInv, NEW r \in HfRequests, NEW answer \in AccessAnswers, Reply(r, answer),
         hfGranted \subseteq hfGranted',
         hfReq[r].op = "check" /\ answer = "granted" => hfReq[r].token \in hfGranted'
  PROVE  hfReq' \in [HfRequests -> HfRequestType] /\ QuestionsAreOpen' /\ PassedWasGranted'
<1>1. hfReq[r] \in HfRequestType
  BY DEF HfIInv, HfTypeOK, HfRequestType
<1>2. CASE hfReq[r].op = "test"
  <2>1. NoHfRequest \in HfRequestType
    BY DEF NoHfRequest, HfRequestType, Keys
  <2>2. hfReq' = [hfReq EXCEPT ![r] = NoHfRequest]
    BY <1>2 DEF Reply
  <2>3. QED
    BY <2>1, <2>2, OneRequestMoves DEF NoHfRequest
<1>3. CASE hfReq[r].op # "test"
  <2> DEFINE q == [hfReq[r] EXCEPT !.place = "done", !.answer = answer]
  <2>1. q \in HfRequestType /\ q.place = "done" /\ q.answer = answer /\ q.token = hfReq[r].token
        /\ q.op = hfReq[r].op
    BY <1>1 DEF HfRequestType
  <2>2. hfReq' = [hfReq EXCEPT ![r] = q]
    BY <1>3 DEF Reply
  <2>3. QED
    BY <2>1, <2>2, OneRequestMoves
<1>4. QED
  BY <1>2, <1>3

LEMMA RequestKeeps ==
  ASSUME HfIInv, NEW r \in HfRequests,
         \/ \E t \in Tokens : BeginSave(r, t)
         \/ BeginTest(r) \/ BeginPreflight(r) \/ WhoamiFails(r) \/ WhoamiConfirms(r)
         \/ SaveToken(r) \/ ProbeAnswers(r) \/ TakeAnswer(r)
  PROVE  HfIInv'
<1> USE DEF HfIInv
<1>0. /\ HfTypeOK /\ hfReq[r].token \in Keys /\ Tokens \subseteq Keys /\ NoToken \notin Tokens
      /\ hfReq[r].op \in {"none", "save", "test", "check"}
  BY HfAssumption DEF HfTypeOK, Keys
<1>1. ASSUME NEW t \in Tokens, BeginSave(r, t) PROVE HfIInv'
  BY <1>0, <1>1
  DEF BeginSave, Become, HfTypeOK, QuestionsAreOpen, HfSafe, TokenSurvivesRestart, StoredIsVerified,
      CacheIsOfItsToken, PassedWasGranted, hfFixed, hfStore, hfHistory, Keys
<1>2. CASE BeginTest(r)
  <2>1. PICK token \in Keys :
          /\ Current(token)
          /\ IF token = NoToken
               THEN hfMeta' = "failed" /\ UNCHANGED hfReq
               ELSE Become(r, "test", "whoami", token, Unset) /\ UNCHANGED hfMeta
    BY <1>2 DEF BeginTest
  <2>2. UNCHANGED <<hfFixed, hfCache, hfApproved, hfHistory>>
    BY <1>2 DEF BeginTest
  <2>3. hfMemory' \in Keys /\ hfDisk' \in Keys /\ TokenSurvivesRestart' /\ StoredIsVerified'
    BY <2>1, <2>2, CurrentKeeps
  <2>4. QED
    BY <1>0, <2>1, <2>2, <2>3
    DEF Become, HfTypeOK, QuestionsAreOpen, HfSafe, CacheIsOfItsToken, PassedWasGranted, hfFixed,
        hfHistory, Keys
<1>3. CASE BeginPreflight(r)
  <2>1. PICK token \in Keys, place \in {"probe", "whoami", "done"}, answer \in AccessAnswers \cup {Unset} :
          /\ Current(token)
          /\ Become(r, "check", place, token, answer)
          /\ place = "whoami" => token # NoToken /\ answer = Unset
          /\ answer = "granted" => hfCache[token] = "granted"
    BY <1>0, <1>3 DEF BeginPreflight, KeyOf, HfTypeOK, AccessAnswers, Unset
  <2>2. UNCHANGED <<hfFixed, hfMeta, hfCache, hfApproved, hfHistory>>
    BY <1>3 DEF BeginPreflight
  <2>3. hfMemory' \in Keys /\ hfDisk' \in Keys /\ TokenSurvivesRestart' /\ StoredIsVerified'
    BY <2>1, <2>2, CurrentKeeps
  <2>4. QED
    BY <1>0, <2>1, <2>2, <2>3
    DEF Become, HfTypeOK, QuestionsAreOpen, HfSafe, CacheIsOfItsToken, PassedWasGranted, hfFixed,
        hfHistory, Keys
<1>4. CASE WhoamiFails(r)
  <2>1. hfReq' \in [HfRequests -> HfRequestType] /\ QuestionsAreOpen' /\ PassedWasGranted'
    BY <1>4, ReplyKeeps DEF WhoamiFails, hfHistory, AccessAnswers
  <2>2. QED
    BY <1>0, <1>4, <2>1
    DEF WhoamiFails, HfTypeOK, HfRequestType, HfSafe, TokenSurvivesRestart, StoredIsVerified,
        CacheIsOfItsToken, hfFixed, hfStore, hfHistory
<1>5. CASE WhoamiConfirms(r)
  <2>1. hfReq[r].token \in Tokens /\ hfReq[r].place = "whoami"
    BY <1>5 DEF WhoamiConfirms, QuestionsAreOpen
  <2>2. hfReq' \in [HfRequests -> HfRequestType] /\ QuestionsAreOpen' /\ PassedWasGranted'
    <3>1. CASE hfReq[r].op = "test"
      BY <1>5, <3>1, ReplyKeeps DEF WhoamiConfirms, AccessAnswers
    <3>2. CASE hfReq[r].op # "test"
      <4> DEFINE q == [hfReq[r] EXCEPT !.place = "probe"]
      <4>1. hfReq[r] \in HfRequestType
        BY <1>0 DEF HfTypeOK, HfRequestType
      <4>2. q \in HfRequestType /\ q.place = "probe" /\ q.answer = hfReq[r].answer
        BY <4>1 DEF HfRequestType
      <4>3. hfReq' = [hfReq EXCEPT ![r] = q] /\ hfGranted' = hfGranted
        BY <1>5, <3>2 DEF WhoamiConfirms
      <4>4. q.answer # "granted"
        BY <2>1, <4>2 DEF QuestionsAreOpen, Unset
      <4>5. QED
        BY <4>2, <4>3, <4>4, OneRequestMoves
    <3>3. QED
      BY <3>1, <3>2
  <2>3. QED
    BY <1>0, <1>5, <2>1, <2>2
    DEF WhoamiConfirms, HfTypeOK, HfRequestType, HfSafe, TokenSurvivesRestart, StoredIsVerified,
        CacheIsOfItsToken, hfFixed, hfStore
<1>6. CASE SaveToken(r)
  <2>1. hfReq[r].token \in Tokens /\ hfReq[r].place = "whoami" /\ hfReq[r].op = "save"
    BY <1>6 DEF SaveToken, QuestionsAreOpen
  <2>2. hfReq' \in [HfRequests -> HfRequestType] /\ QuestionsAreOpen' /\ PassedWasGranted'
    BY <1>6, <2>1, ReplyKeeps DEF SaveToken, AccessAnswers
  <2>3. HfTypeOK'
    BY <1>0, <1>6, <2>1, <2>2 DEF SaveToken, HfTypeOK, HfRequestType, hfFixed, hfStore
  <2>4. TokenSurvivesRestart' /\ StoredIsVerified' /\ CacheIsOfItsToken'
    BY <1>0, <1>6, <2>1
    DEF SaveToken, HfTypeOK, HfSafe, TokenSurvivesRestart, StoredIsVerified, CacheIsOfItsToken,
        hfFixed, hfStore, Unset
  <2>5. QED
    BY <2>2, <2>3, <2>4 DEF HfSafe
<1>7. CASE ProbeAnswers(r)
  <2>1. PICK said \in {"granted", "approval_required", "refused"} :
          /\ said = "granted" => hfReq[r].token # NoToken
          /\ hfGranted' = IF said = "granted" THEN hfGranted \cup {hfReq[r].token} ELSE hfGranted
          /\ hfCache' = [hfCache EXCEPT ![hfReq[r].token] = said]
          /\ Reply(r, said)
    BY <1>7 DEF ProbeAnswers, Verdict, KeyOf
  <2>2. UNCHANGED <<hfFixed, hfStore, hfMeta, hfApproved, hfKnown>>
    BY <1>7 DEF ProbeAnswers
  <2>3. hfReq' \in [HfRequests -> HfRequestType] /\ QuestionsAreOpen' /\ PassedWasGranted'
    BY <2>1, ReplyKeeps DEF AccessAnswers
  <2>4. HfTypeOK'
    BY <1>0, <2>1, <2>2, <2>3 DEF HfTypeOK, HfRequestType, hfFixed, hfStore, AccessAnswers, Keys
  <2>5. HfSafe'
    BY <1>0, <2>1, <2>2, <2>3
    DEF HfTypeOK, HfSafe, TokenSurvivesRestart, StoredIsVerified, CacheIsOfItsToken, hfFixed, hfStore
  <2>6. QED
    BY <2>3, <2>4, <2>5
<1>8. CASE TakeAnswer(r)
  BY <1>0, <1>8
  DEF TakeAnswer, HfTypeOK, QuestionsAreOpen, HfSafe, TokenSurvivesRestart, StoredIsVerified,
      CacheIsOfItsToken, PassedWasGranted, hfFixed, hfStore, hfHistory, NoHfRequest, Keys
<1>9. QED
  BY <1>1, <1>2, <1>3, <1>4, <1>5, <1>6, <1>7, <1>8

LEMMA HfStepIInv == HfIInv /\ [HfNext]_hfVars => HfIInv'
<1> SUFFICES ASSUME HfIInv, [HfNext]_hfVars PROVE HfIInv'
  OBVIOUS
<1> USE DEF HfIInv
<1>1. ASSUME NEW t \in Keys, Expire(t) PROVE HfIInv'
  BY <1>1
  DEF Expire, HfTypeOK, QuestionsAreOpen, HfSafe, TokenSurvivesRestart, StoredIsVerified,
      CacheIsOfItsToken, PassedWasGranted, hfFixed, hfStore, hfHistory, Unset
<1>2. CASE RemoveToken
  BY <1>2
  DEF RemoveToken, HfTypeOK, QuestionsAreOpen, HfSafe, TokenSurvivesRestart, StoredIsVerified,
      CacheIsOfItsToken, PassedWasGranted, hfFixed, hfHistory, Unset, Keys
<1>3. CASE HfRestart
  BY <1>3
  DEF HfRestart, HfTypeOK, QuestionsAreOpen, HfSafe, TokenSurvivesRestart, StoredIsVerified,
      CacheIsOfItsToken, PassedWasGranted, hfFixed, hfHistory, Unset, Keys, NoHfRequest
<1>4. CASE Approve \/ UNCHANGED hfVars
  <2>1. UNCHANGED <<hfFixed, hfStore, hfMeta, hfCache, hfReq, hfHistory>> /\ hfApproved' \in BOOLEAN
    BY <1>4 DEF Approve, hfVars, HfTypeOK
  <2>2. QED
    BY <2>1
    DEF HfTypeOK, QuestionsAreOpen, HfSafe, TokenSurvivesRestart, StoredIsVerified, CacheIsOfItsToken,
        PassedWasGranted, hfFixed, hfStore, hfHistory
<1>5. QED
  BY <1>1, <1>2, <1>3, <1>4, RequestKeeps DEF HfNext

LEMMA HfIInvHolds == HfSpec => []HfIInv
BY HfInitIInv, HfStepIInv, PTL DEF HfSpec

\* The token in use is verified and is the one a restart finds, and nobody passes with an
\* answer that was given about another token (huggingface_access.py:234, 479, 790).
THEOREM AccessIsSafe == HfSpec => []HfSafe
BY HfIInvHolds, PTL DEF HfIInv

\* A replacement that fails leaves token, status and kept answers as they were
\* (huggingface_access.py, set_token).
THEOREM FailedReplacementsAreHarmless == HfSpec => FailedReplacementChangesNothing
<1>1. HfIInv /\ [HfNext]_hfVars =>
        [\A r \in HfRequests :
           (hfReq[r].op = "save" /\ hfReq[r].place = "whoami" /\ hfReq'[r].answer = "refused")
             => UNCHANGED <<hfStore, hfMeta, hfCache>>]_hfVars
  <2>1. SUFFICES ASSUME HfIInv, HfNext, NEW r \in HfRequests, hfReq[r].op = "save",
                        hfReq[r].place = "whoami", hfReq'[r].answer = "refused"
                 PROVE  UNCHANGED <<hfStore, hfMeta, hfCache>>
    OBVIOUS
  <2>2. hfReq[r].answer # "refused"
    BY <2>1 DEF HfIInv, QuestionsAreOpen, Unset
  <2>3. hfReq' # hfReq /\ hfReq'[r] # hfReq[r]
    BY <2>1, <2>2
  <2>4. ~HfRestart
    BY <2>1 DEF HfRestart, NoHfRequest, Unset
  <2>5. WhoamiFails(r) \/ SaveToken(r)
    <3>1. \A s \in HfRequests \ {r} : \A q : hfReq' = [hfReq EXCEPT ![s] = q] => hfReq'[r] = hfReq[r]
      OBVIOUS
    <3>2. PICK s \in HfRequests :
            \/ \E t \in Tokens : BeginSave(s, t)
            \/ BeginTest(s) \/ BeginPreflight(s) \/ WhoamiFails(s) \/ WhoamiConfirms(s)
            \/ SaveToken(s) \/ ProbeAnswers(s) \/ TakeAnswer(s)
      BY <2>1, <2>3, <2>4 DEF HfNext, Expire, RemoveToken, Approve
    <3>3. s = r
      BY <2>3, <3>1, <3>2
      DEF BeginSave, BeginTest, BeginPreflight, WhoamiFails, WhoamiConfirms, SaveToken, ProbeAnswers,
          TakeAnswer, Become, Reply
    <3>4. QED
      BY <2>1, <3>2, <3>3
      DEF BeginSave, BeginTest, BeginPreflight, WhoamiConfirms, ProbeAnswers, TakeAnswer
  <2>6. CASE WhoamiFails(r)
    BY <2>1, <2>6 DEF WhoamiFails
  <2>7. CASE SaveToken(r)
    BY <2>1, <2>7 DEF SaveToken, Reply, HfIInv, HfTypeOK
  <2>8. QED
    BY <2>5, <2>6, <2>7
<1>2. QED
  BY <1>1, HfIInvHolds, PTL DEF HfSpec, FailedReplacementChangesNothing

-----------------------------------------------------------------------------
(* The catalog of models.                                                   *)

LibSteps == {"idle", "download", "copying", "wait", "writing", "cleanup", "rollback", "cache"}
Plans == {<<"save", "users", "reload">>, <<"users", "reload">>, <<"save", "reload">>, <<"reload">>,
          <<"users", "save", "reload">>, <<"users">>, <<>>}

LibJobs == [op : Ops \cup {"none"}, pc : LibSteps, ids : SUBSET LibIds, rev : 0..MaxRevision,
            plan : Plans, staged : Catalogs \cup {<<>>}, file : Catalogs \cup {<<>>},
            users : SUBSET LibIds]

\* What a job at each step is about, and what it has captured.
Shaped(j, job) ==
  /\ job.pc = "idle" => job = NoJob
  /\ job.pc # "idle" => job.op \in Ops
  /\ job.pc \in {"copying", "cleanup", "rollback"} => job.op = "copy"
  /\ job.pc \in {"download", "cache"} => job.op = "refresh"
  /\ job.op = "refresh" => refreshing = j /\ job.ids = {}
  /\ job.pc \in {"writing", "cleanup", "rollback"} => job.file \in Catalogs
  /\ job.pc = "writing" => job.staged \in Catalogs

\* A manifest that is being applied is no older than the one in the cache.
NotStale(job) ==
  job.op = "refresh" /\ job.pc \in {"wait", "writing", "cache"}
    => libCache <= job.rev /\ job.rev <= published /\ job.rev > 0

\* How far a job with the lock has come: what it has still to do says what is in the
\* file, in memory and in the index.
FollowsPlan(job) ==
  job.pc = "writing" =>
    /\ job.plan \in {<<"users", "save", "reload">>, <<"users">>} => job.op # "refresh"
    /\ job.op = "copy" => job.plan \notin {<<"save", "users", "reload">>, <<"users", "reload">>}
    /\ job.plan \notin {<<"users", "reload">>, <<"reload">>} => libMem = libFile
    /\ job.plan \in {<<"users", "reload">>, <<"reload">>, <<"users">>, <<>>} => libFile = job.staged
    /\ job.plan \in {<<"save", "reload">>, <<"reload">>, <<>>} => job.ids \subseteq libUsers
    /\ \A i \in job.ids : job.staged[i] \in {Custom, Local} /\ (job.op = "defs" => job.staged[i] = Custom)

\* A copy is in place from the lock of its import until the cleanup after its failure.
HasCopy(job) == job.op = "copy" /\ job.pc \in {"writing", "cleanup"}

CopiesAreOwn ==
  /\ \A j \in Jobs : HasCopy(jobs[j]) => jobs[j].ids \subseteq libDirs
  /\ \A j, k \in Jobs : j # k /\ HasCopy(jobs[j]) /\ HasCopy(jobs[k]) => jobs[j].ids \cap jobs[k].ids = {}

\* A catalog with every registration reported as done, and an index with every model of
\* the user, but for what a rollback has touched.
Keeps(catalog) ==
  /\ \A i \in accepted \ forgotten : catalog[i] # 0
  /\ \A i \in owned \ forgotten : catalog[i] \in {Custom, Local} /\ (catalog[i] = Local => i \in libDirs)
KeepsUsers(index) == owned \ forgotten \subseteq index

CaptureKeeps(job) ==
  job.pc = "writing" => Keeps(job.file) /\ Keeps(job.staged) /\ KeepsUsers(job.users)

JobsRight ==
  /\ jobs \in [Jobs -> LibJobs]
  /\ \A j \in Jobs : /\ Shaped(j, jobs[j]) /\ NotStale(jobs[j]) /\ FollowsPlan(jobs[j])
                     /\ CaptureKeeps(jobs[j])

LibIInv ==
  /\ LibTypeOK /\ JobsRight /\ libCache <= published
  /\ MemoryIsTheFile /\ CopiesAreOwn /\ Keeps(libFile) /\ KeepsUsers(libUsers)

LEMMA LibInitIInv == LibInit => LibIInv
<1> SUFFICES ASSUME LibInit PROVE LibIInv
  OBVIOUS
<1>1. NoJob \in LibJobs /\ NoJob.pc = "idle" /\ NoJob.op = "none"
  BY LibraryAssumption DEF NoJob, LibJobs, LibSteps, Plans
<1>2. libFile \in Catalogs
  BY LibraryAssumption DEF LibInit, Catalogs, Local
<1>3. LibTypeOK
  BY <1>1, <1>2, LibraryAssumption DEF LibInit, LibTypeOK
<1>4. JobsRight
  BY <1>1 DEF LibInit, JobsRight, Shaped, NotStale, FollowsPlan, CaptureKeeps
<1>5. CopiesAreOwn
  BY <1>1 DEF LibInit, CopiesAreOwn, HasCopy
<1>6. QED
  BY <1>3, <1>4, <1>5, LibraryAssumption
  DEF LibInit, LibIInv, MemoryIsTheFile, Keeps, KeepsUsers

\* Head and Tail of the plans there are.
LEMMA PlanSteps ==
  /\ Head(<<"save", "users", "reload">>) = "save"
  /\ Tail(<<"save", "users", "reload">>) = <<"users", "reload">>
  /\ Head(<<"users", "reload">>) = "users" /\ Tail(<<"users", "reload">>) = <<"reload">>
  /\ Head(<<"save", "reload">>) = "save" /\ Tail(<<"save", "reload">>) = <<"reload">>
  /\ Head(<<"reload">>) = "reload" /\ Tail(<<"reload">>) = <<>>
  /\ Head(<<"users", "save", "reload">>) = "users"
  /\ Tail(<<"users", "save", "reload">>) = <<"save", "reload">>
  /\ Head(<<"users">>) = "users" /\ Tail(<<"users">>) = <<>>
OBVIOUS

\* What a job does to itself leaves the other jobs as they are.
LEMMA JobTypesKept ==
  ASSUME LibIInv, NEW j \in Jobs, NEW q \in LibJobs, jobs' = [jobs EXCEPT ![j] = q],
         libFile' \in Catalogs, libMem' \in Catalogs, libUsers' \subseteq LibIds,
         libDirs' \subseteq LibIds, libCache' \in 0..MaxRevision, published' = published,
         accepted' \subseteq LibIds, owned' \subseteq accepted',
         refreshing' \in {refreshing, j, Nobody},
         \A k \in Jobs \ {j} : refreshing' = k <=> refreshing = k,
         refreshing' = j => q.op = "refresh",
         \/ libLock' = libLock /\ (q.pc = "writing" <=> jobs[j].pc = "writing")
         \/ libLock = Nobody /\ libLock' = j /\ q.pc = "writing"
         \/ libLock' = Nobody /\ jobs[j].pc = "writing" /\ q.pc # "writing"
  PROVE  /\ LibTypeOK' /\ jobs' \in [Jobs -> LibJobs] /\ jobs'[j] = q
         /\ \A k \in Jobs \ {j} : jobs'[k] = jobs[k] /\ (Shaped(k, jobs[k]) => Shaped(k, jobs[k])')
<1>1. jobs \in [Jobs -> LibJobs] /\ LibTypeOK
  BY DEF LibIInv, JobsRight
<1>2. jobs' \in [Jobs -> LibJobs] /\ jobs'[j] = q /\ \A k \in Jobs \ {j} : jobs'[k] = jobs[k]
  BY <1>1
<1>3. \A k \in Jobs \ {j} : Shaped(k, jobs[k]) => Shaped(k, jobs[k])'
  BY <1>2 DEF Shaped
<1>4. \A k \in Jobs : /\ jobs'[k].pc = "writing" <=> libLock' = k
                      /\ refreshing' = k => jobs'[k].op = "refresh"
                      /\ jobs'[k].pc \in LibSteps
  BY <1>1, <1>2, LibraryAssumption DEF LibTypeOK, LibJobs
<1>5. libLock' \in Jobs \cup {Nobody} /\ refreshing' \in Jobs \cup {Nobody}
  BY <1>1 DEF LibTypeOK
<1>6. QED
  BY <1>1, <1>2, <1>3, <1>4, <1>5 DEF LibTypeOK, LibSteps

\* A step outside the lock.
LEMMA OutsideKeeps ==
  ASSUME LibIInv, NEW j \in Jobs, NEW q \in LibJobs, jobs' = [jobs EXCEPT ![j] = q],
         UNCHANGED <<libDisk, libMem, published, libLock, libHistory>>,
         refreshing' \in {refreshing, j, Nobody},
         \A k \in Jobs \ {j} : refreshing' = k <=> refreshing = k,
         refreshing' = j => q.op = "refresh",
         jobs[j].pc # "writing", q.pc \notin {"writing", "cleanup"},
         Shaped(j, q)', NotStale(q)
  PROVE  LibIInv'
<1>1. /\ LibTypeOK' /\ jobs' \in [Jobs -> LibJobs] /\ jobs'[j] = q
      /\ \A k \in Jobs \ {j} : jobs'[k] = jobs[k] /\ (Shaped(k, jobs[k]) => Shaped(k, jobs[k])')
  BY JobTypesKept DEF LibIInv, LibTypeOK, libDisk, libHistory
<1>2. JobsRight'
  <2>1. \A k \in Jobs : Shaped(k, jobs[k])'
    BY <1>1 DEF LibIInv, JobsRight
  <2>2. \A k \in Jobs : NotStale(jobs[k])' /\ FollowsPlan(jobs[k])' /\ CaptureKeeps(jobs[k])'
    BY <1>1
    DEF LibIInv, JobsRight, NotStale, FollowsPlan, CaptureKeeps, Keeps, KeepsUsers, libDisk, libHistory
  <2>3. QED
    BY <1>1, <2>1, <2>2 DEF JobsRight
<1>3. CopiesAreOwn'
  BY <1>1 DEF LibIInv, CopiesAreOwn, HasCopy, libDisk
<1>4. QED
  BY <1>1, <1>2, <1>3 DEF LibIInv, MemoryIsTheFile, Keeps, KeepsUsers, libDisk, libHistory

LEMMA ApartKeeps ==
  ASSUME LibIInv, NEW j \in Jobs,
         \/ \E ids \in SUBSET LibIds \ {{}} : StartDefinitions(j, ids)
         \/ \E i \in LibIds : StartAdopt(j, i) \/ StartCopy(j, i)
         \/ \E ok \in BOOLEAN : CopyEnds(j, ok) \/ Downloaded(j, ok)
         \/ StartRefresh(j)
  PROVE  LibIInv'
<1>0. /\ jobs \in [Jobs -> LibJobs] /\ jobs[j] \in LibJobs /\ Shaped(j, jobs[j]) /\ Nobody \notin Jobs
      /\ NoJob \in LibJobs /\ NoJob.pc = "idle" /\ NoJob.op = "none"
      /\ refreshing \in Jobs \cup {Nobody} /\ published \in 1..MaxRevision /\ libCache \in 0..MaxRevision
      /\ refreshing = j => jobs[j].op = "refresh"
      /\ libCache <= published /\ MaxRevision \in Nat
  BY LibraryAssumption
  DEF LibIInv, JobsRight, LibTypeOK, NoJob, LibJobs, LibSteps, Plans
<1>1. ASSUME NEW op \in Ops, NEW pc \in LibSteps, NEW ids \in SUBSET LibIds,
             Begin(j, [NoJob EXCEPT !.op = op, !.pc = pc, !.ids = ids]),
             pc \in {"wait", "copying"}, pc = "copying" => op = "copy", op # "refresh",
             UNCHANGED <<libDisk, libMem, published, libLock, refreshing, libHistory>>
      PROVE  LibIInv'
  <2>1. PICK q \in LibJobs : q.pc = pc /\ q.op = op /\ jobs' = [jobs EXCEPT ![j] = q]
    BY <1>0, <1>1 DEF NoJob, LibJobs, Begin
  <2>2. jobs[j].pc = "idle" /\ refreshing # j
    BY <1>0, <1>1 DEF Begin, Shaped
  <2>3. Shaped(j, q)' /\ NotStale(q)
    BY <1>1, <2>1 DEF Shaped, NotStale
  <2>4. QED
    BY <1>1, <2>1, <2>2, <2>3, OutsideKeeps
<1>2. ASSUME NEW ids \in SUBSET LibIds \ {{}}, StartDefinitions(j, ids) PROVE LibIInv'
  BY <1>1, <1>2 DEF StartDefinitions, Ops, LibSteps
<1>3. ASSUME NEW i \in LibIds, StartAdopt(j, i) \/ StartCopy(j, i) PROVE LibIInv'
  <2>1. {i} \in SUBSET LibIds
    OBVIOUS
  <2>2. CASE StartAdopt(j, i)
    BY <1>1, <2>1, <2>2 DEF StartAdopt, Ops, LibSteps
  <2>3. CASE StartCopy(j, i)
    BY <1>1, <2>1, <2>3 DEF StartCopy, Ops, LibSteps
  <2>4. QED
    BY <1>3, <2>2, <2>3
<1>4. ASSUME NEW ok \in BOOLEAN, CopyEnds(j, ok) PROVE LibIInv'
  <2>1. jobs[j].pc = "copying" /\ jobs[j].op = "copy" /\ refreshing # j
    BY <1>0, <1>4 DEF CopyEnds, Shaped
  <2>2. CASE ok
    <3>1. jobs' = [jobs EXCEPT ![j] = [jobs[j] EXCEPT !.pc = "wait"]]
      BY <1>4, <2>2 DEF CopyEnds
    <3>2. PICK q \in LibJobs : q.pc = "wait" /\ q.op = "copy" /\ jobs' = [jobs EXCEPT ![j] = q]
      BY <1>0, <2>1, <3>1 DEF LibJobs, LibSteps
    <3>3. Shaped(j, q)' /\ NotStale(q)
      BY <3>2 DEF Shaped, NotStale, Ops
    <3>4. QED
      BY <1>4, <2>1, <3>2, <3>3, OutsideKeeps DEF CopyEnds
  <2>3. CASE ~ok
    <3>1. jobs' = [jobs EXCEPT ![j] = NoJob]
      BY <1>4, <2>3 DEF CopyEnds
    <3>2. Shaped(j, NoJob)' /\ NotStale(NoJob)
      BY <1>0 DEF Shaped, NotStale
    <3>3. QED
      BY <1>0, <1>4, <2>1, <3>1, <3>2, OutsideKeeps DEF CopyEnds
  <2>4. QED
    BY <2>2, <2>3
<1>5. ASSUME NEW ok \in BOOLEAN, Downloaded(j, ok) PROVE LibIInv'
  <2>1. jobs[j].pc = "download" /\ jobs[j].op = "refresh" /\ refreshing = j /\ jobs[j].ids = {}
    BY <1>0, <1>5 DEF Downloaded, Shaped
  <2>2. CASE jobs' = [jobs EXCEPT ![j] = [@ EXCEPT !.pc = "wait", !.rev = published]] /\ UNCHANGED refreshing
    <3>1. PICK q \in LibJobs : /\ q.pc = "wait" /\ q.op = "refresh" /\ q.rev = published /\ q.ids = {}
                               /\ jobs' = [jobs EXCEPT ![j] = q]
      <4> DEFINE p == [jobs[j] EXCEPT !.pc = "wait", !.rev = published]
      <4>1. published \in 0..MaxRevision
        BY <1>0
      <4>2. p \in LibJobs /\ p.pc = "wait" /\ p.op = "refresh" /\ p.rev = published /\ p.ids = {}
        BY <1>0, <2>1, <4>1 DEF LibJobs, LibSteps
      <4>3. QED
        BY <2>2, <4>2
    <3>2. Shaped(j, q)' /\ NotStale(q)
      BY <1>0, <2>1, <2>2, <3>1 DEF Shaped, NotStale, Ops
    <3>3. QED
      BY <1>5, <2>1, <2>2, <3>1, <3>2, OutsideKeeps DEF Downloaded
  <2>3. CASE jobs' = [jobs EXCEPT ![j] = NoJob] /\ EndRefresh(j)
    <3>1. Shaped(j, NoJob)' /\ NotStale(NoJob) /\ refreshing' = Nobody
      BY <1>0, <2>1, <2>3 DEF Shaped, NotStale, EndRefresh
    <3>2. QED
      BY <1>0, <1>5, <2>1, <2>3, <3>1, OutsideKeeps DEF Downloaded
  <2>4. QED
    BY <1>5, <2>2, <2>3 DEF Downloaded
<1>6. CASE StartRefresh(j)
  <2>1. PICK q \in LibJobs : q.pc = "download" /\ q.op = "refresh" /\ q.ids = {} /\ jobs' = [jobs EXCEPT ![j] = q]
    BY <1>0, <1>6 DEF StartRefresh, Begin, NoJob, LibJobs, LibSteps, Ops
  <2>2. jobs[j].pc = "idle" /\ refreshing = Nobody /\ refreshing' = j
    BY <1>6 DEF StartRefresh, RefreshFree, Begin
  <2>3. Shaped(j, q)' /\ NotStale(q)
    BY <2>1, <2>2 DEF Shaped, NotStale, Ops
  <2>4. QED
    BY <1>0, <1>6, <2>1, <2>2, <2>3, OutsideKeeps DEF StartRefresh
<1>7. QED
  BY <1>2, <1>3, <1>4, <1>5, <1>6

\* A refused change ends before it has changed anything.
LEMMA EnterKeeps ==
  ASSUME LibIInv, NEW j \in Jobs, EnterLock(j)
  PROVE  LibIInv'
<1>0. /\ jobs \in [Jobs -> LibJobs] /\ jobs[j] \in LibJobs /\ Shaped(j, jobs[j]) /\ NotStale(jobs[j])
      /\ Nobody \notin Jobs /\ NoJob \in LibJobs /\ NoJob.pc = "idle" /\ NoJob.op = "none"
      /\ jobs[j].pc = "wait" /\ jobs[j].op \in Ops /\ libLock = Nobody /\ libMem = libFile
      /\ refreshing = j => jobs[j].op = "refresh"
      /\ \A k \in Jobs : jobs[k].pc # "writing"
  BY LibraryAssumption
  DEF LibIInv, JobsRight, LibTypeOK, NoJob, LibJobs, LibSteps, Plans, EnterLock, MemoryIsTheFile, Shaped
<1>1. PICK active \in SUBSET LibIds, overwrite \in BOOLEAN :
        LET staged == NewCatalog(j, active)
            plan == IF staged # libMem THEN Plan(jobs[j].op)
                    ELSE IF jobs[j].op = "refresh" THEN <<>> ELSE <<"users">> IN
        IF Refused(j, active, overwrite)
        THEN jobs' = [jobs EXCEPT ![j] = NoJob] /\ UNCHANGED <<libLock, libDirs>>
        ELSE /\ jobs' = [jobs EXCEPT ![j] = [@ EXCEPT !.pc = "writing", !.staged = staged, !.plan = plan,
                                                      !.file = libMem, !.users = libUsers]]
             /\ libLock' = j
             /\ libDirs' = IF jobs[j].op = "copy" THEN libDirs \cup jobs[j].ids ELSE libDirs
  BY DEF EnterLock
<1>2. CASE Refused(j, active, overwrite)
  <2>1. jobs' = [jobs EXCEPT ![j] = NoJob] /\ UNCHANGED <<libLock, libDirs>> /\ jobs[j].op # "refresh"
    BY <1>1, <1>2 DEF Refused, RefusedBeforeOnly
  <2>2. Shaped(j, NoJob)' /\ NotStale(NoJob)
    BY <1>0 DEF Shaped, NotStale
  <2>3. QED
    BY <1>0, <2>1, <2>2, OutsideKeeps DEF EnterLock, libDisk
<1>3. CASE ~Refused(j, active, overwrite)
  <2> DEFINE staged == NewCatalog(j, active)
             plan == IF staged # libMem THEN Plan(jobs[j].op)
                     ELSE IF jobs[j].op = "refresh" THEN <<>> ELSE <<"users">>
             p == [jobs[j] EXCEPT !.pc = "writing", !.staged = staged, !.plan = plan,
                                  !.file = libMem, !.users = libUsers]
  <2>1. /\ jobs' = [jobs EXCEPT ![j] = p] /\ libLock' = j
        /\ libDirs' = IF jobs[j].op = "copy" THEN libDirs \cup jobs[j].ids ELSE libDirs
        /\ UNCHANGED <<libFile, libUsers, libCache, libMem, published, refreshing, libHistory>>
    BY <1>1, <1>3 DEF EnterLock
  <2>2. /\ libMem \in Catalogs /\ libUsers \subseteq LibIds /\ libDirs \subseteq LibIds
        /\ jobs[j].ids \subseteq LibIds /\ jobs[j].rev \in 0..MaxRevision
        /\ libDirs \subseteq libDirs' /\ libDirs' \subseteq LibIds
    BY <1>0, <2>1 DEF LibIInv, LibTypeOK, LibJobs
  <2>3. staged \in Catalogs
    BY <2>2, LibraryAssumption
    DEF NewCatalog, MergedManifest, Catalogs, Custom, Local
  <2>4. plan \in Plans
    BY <1>0 DEF Plans, Plan, Ops
  <2>5. PICK q \in LibJobs :
          /\ q.pc = "writing" /\ q.op = jobs[j].op /\ q.staged = staged /\ q.plan = plan
          /\ q.file = libMem /\ q.users = libUsers /\ q.ids = jobs[j].ids /\ q.rev = jobs[j].rev
          /\ jobs' = [jobs EXCEPT ![j] = q]
    <3>1. /\ p \in LibJobs /\ p.pc = "writing" /\ p.op = jobs[j].op /\ p.staged = staged /\ p.plan = plan
          /\ p.file = libMem /\ p.users = libUsers /\ p.ids = jobs[j].ids /\ p.rev = jobs[j].rev
      BY <1>0, <2>2, <2>3, <2>4 DEF LibJobs, LibSteps
    <3>2. QED
      BY <2>1, <3>1
  <2>6. /\ \A i \in q.ids : staged[i] \in {Custom, Local} /\ (q.op = "defs" => staged[i] = Custom)
        /\ \A i \in LibIds : libMem[i] # 0 => staged[i] # 0
        /\ \A i \in libUsers : libMem[i] \in {Custom, Local} =>
             staged[i] \in {Custom, Local} /\ (staged[i] = Local => libMem[i] = Local)
    <3>1. CASE jobs[j].op = "defs"
      BY <2>2, <2>5, <3>1, LibraryAssumption DEF NewCatalog, Catalogs, Custom, Local
    <3>2. CASE jobs[j].op = "refresh"
      BY <1>0, <2>2, <2>5, <3>2, LibraryAssumption
      DEF NewCatalog, MergedManifest, Replaceable, OverwritesSameSource, Catalogs, Custom, Local,
           Shaped, NotStale
    <3>3. CASE jobs[j].op \in {"adopt", "copy"}
      <4>1. \A i \in jobs[j].ids : libMem[i] = 0
        BY <1>3, <3>3 DEF Refused
      <4>2. QED
        BY <2>2, <2>5, <3>3, <4>1, LibraryAssumption DEF NewCatalog, Catalogs, Custom, Local
    <3>4. QED
      BY <1>0, <3>1, <3>2, <3>3 DEF Ops
  <2>7. jobs[j].op = "copy" => jobs[j].ids \cap libDirs = {}
    BY <1>3 DEF Refused
  <2> HIDE DEF staged, plan, p
  <2>8. /\ LibTypeOK' /\ jobs' \in [Jobs -> LibJobs] /\ jobs'[j] = q
        /\ \A k \in Jobs \ {j} : jobs'[k] = jobs[k] /\ (Shaped(k, jobs[k]) => Shaped(k, jobs[k])')
    <3>1. /\ libFile' \in Catalogs /\ libMem' \in Catalogs /\ libUsers' \subseteq LibIds
          /\ libCache' \in 0..MaxRevision /\ accepted' \subseteq LibIds /\ owned' \subseteq accepted'
      BY <2>1 DEF LibIInv, LibTypeOK, libHistory
    <3>2. /\ libLock = Nobody /\ libLock' = j /\ published' = published
          /\ refreshing' = refreshing /\ (refreshing = j => q.op = "refresh")
      BY <1>0, <2>1, <2>5
    <3>3. QED
      BY <2>2, <2>5, <3>1, <3>2, JobTypesKept
  <2>9. JobsRight'
    <3>1. Shaped(j, q)' /\ NotStale(q)'
      BY <1>0, <2>1, <2>2, <2>3, <2>5 DEF Shaped, NotStale
    <3>2. FollowsPlan(q)'
      <4>1. plan \in Plans /\ (plan \in {<<"users", "save", "reload">>, <<"users">>} => q.op # "refresh")
        BY <1>0, <2>4, <2>5 DEF plan, Plan, Ops, Plans
      <4>2. q.op = "copy" => q.plan \notin {<<"save", "users", "reload">>, <<"users", "reload">>}
        BY <1>0, <2>5 DEF plan, Plan
      <4>3. q.plan \in {<<"users", "reload">>, <<"reload">>, <<"users">>, <<>>} => libFile = q.staged
        BY <1>0, <2>5 DEF plan, Plan, Ops
      <4>4. q.plan \in {<<"save", "reload">>, <<"reload">>, <<>>} => q.op = "refresh"
        BY <1>0, <2>5 DEF plan, Plan, Ops
      <4>5. q.op = "refresh" => q.ids = {}
        BY <1>0, <2>5 DEF Shaped
      <4>6. QED
        BY <1>0, <2>1, <2>5, <2>6, <4>1, <4>2, <4>3, <4>4, <4>5 DEF FollowsPlan
    <3>3. CaptureKeeps(q)'
      BY <1>0, <2>1, <2>2, <2>5, <2>6
      DEF CaptureKeeps, Keeps, KeepsUsers, LibIInv, LibTypeOK, libHistory
    <3>4. \A k \in Jobs \ {j} :
             /\ Shaped(k, jobs[k])' /\ NotStale(jobs[k])'
             /\ FollowsPlan(jobs[k])' /\ CaptureKeeps(jobs[k])'
      BY <1>0, <2>1, <2>8 DEF LibIInv, JobsRight, NotStale, FollowsPlan, CaptureKeeps
    <3>5. QED
      BY <2>8, <3>1, <3>2, <3>3, <3>4 DEF JobsRight
  <2>10. CopiesAreOwn'
    BY <1>0, <2>1, <2>2, <2>5, <2>7, <2>8 DEF LibIInv, CopiesAreOwn, HasCopy
  <2>11. QED
    BY <1>0, <2>1, <2>2, <2>8, <2>9, <2>10
    DEF LibIInv, MemoryIsTheFile, Keeps, KeepsUsers, libHistory
<1>4. QED
  BY <1>2, <1>3

\* The next write of the plan.
LEMMA WriteKeeps ==
  ASSUME LibIInv, NEW j \in Jobs, WriteStep(j)
  PROVE  LibIInv'
<1>0. /\ jobs \in [Jobs -> LibJobs] /\ jobs[j] \in LibJobs /\ Shaped(j, jobs[j]) /\ NotStale(jobs[j])
      /\ FollowsPlan(jobs[j]) /\ CaptureKeeps(jobs[j])
      /\ jobs[j].pc = "writing" /\ jobs[j].plan # <<>> /\ libLock = j /\ Nobody \notin Jobs
      /\ \A k \in Jobs \ {j} : jobs[k].pc # "writing"
  BY LibraryAssumption DEF LibIInv, JobsRight, LibTypeOK, WriteStep
<1> DEFINE job == jobs[j]
           step == Head(job.plan)
<1>1. /\ libFile' = IF step = "save" THEN job.staged ELSE libFile
      /\ libUsers' = IF step = "users" THEN libUsers \cup job.ids ELSE libUsers
      /\ libMem' = IF step = "reload" THEN libFile ELSE libMem
      /\ jobs' = [jobs EXCEPT ![j] = [job EXCEPT !.plan = Tail(job.plan)]]
      /\ UNCHANGED <<libDirs, libCache, published, libLock, refreshing, libHistory>>
  BY DEF WriteStep
<1>2. Tail(job.plan) \in Plans
  BY <1>0, PlanSteps DEF LibJobs, Plans
<1>3. PICK q \in LibJobs :
        /\ q.plan = Tail(job.plan) /\ q.pc = "writing" /\ q.op = job.op /\ q.ids = job.ids /\ q.rev = job.rev
        /\ q.staged = job.staged /\ q.file = job.file /\ q.users = job.users
        /\ jobs' = [jobs EXCEPT ![j] = q]
  <2> DEFINE p == [job EXCEPT !.plan = Tail(job.plan)]
  <2>1. /\ p \in LibJobs /\ p.plan = Tail(job.plan) /\ p.pc = "writing" /\ p.op = job.op /\ p.ids = job.ids
        /\ p.rev = job.rev /\ p.staged = job.staged /\ p.file = job.file /\ p.users = job.users
    BY <1>0, <1>2 DEF LibJobs
  <2>2. QED
    BY <1>1, <2>1
<1>4. /\ libFile' \in Catalogs /\ libMem' \in Catalogs /\ libUsers' \subseteq LibIds
      /\ libDirs' \subseteq LibIds /\ libCache' \in 0..MaxRevision
      /\ accepted' \subseteq LibIds /\ owned' \subseteq accepted'
      /\ refreshing' = refreshing /\ (refreshing = j => q.op = "refresh")
  BY <1>0, <1>1, <1>3 DEF LibIInv, LibTypeOK, LibJobs, Shaped, libHistory
<1>5. /\ LibTypeOK' /\ jobs' \in [Jobs -> LibJobs] /\ jobs'[j] = q
      /\ \A k \in Jobs \ {j} : jobs'[k] = jobs[k] /\ (Shaped(k, jobs[k]) => Shaped(k, jobs[k])')
  <2>1. libLock' = libLock /\ jobs[j].pc = "writing" /\ published' = published
    BY <1>0, <1>1
  <2>2. QED
    BY <1>3, <1>4, <2>1, JobTypesKept
<1>6. FollowsPlan(q)'
  <2>1. /\ job.plan \in Plans
        /\ job.plan \in {<<"users", "save", "reload">>, <<"users">>} => job.op # "refresh"
        /\ job.op = "copy" => job.plan \notin {<<"save", "users", "reload">>, <<"users", "reload">>}
        /\ job.plan \notin {<<"users", "reload">>, <<"reload">>} => libMem = libFile
        /\ job.plan \in {<<"users", "reload">>, <<"reload">>, <<"users">>, <<>>} => libFile = job.staged
        /\ job.plan \in {<<"save", "reload">>, <<"reload">>, <<>>} => job.ids \subseteq libUsers
        /\ \A i \in job.ids : job.staged[i] \in {Custom, Local} /\ (job.op = "defs" => job.staged[i] = Custom)
    BY <1>0 DEF FollowsPlan, LibJobs
  <2> HIDE DEF job, step
  <2>2. CASE job.plan = <<"save", "users", "reload">>
    <3>1. step = "save" /\ q.plan = <<"users", "reload">> /\ job.op # "copy"
      BY <1>3, <2>1, <2>2, PlanSteps DEF step
    <3>2. QED
      BY <1>1, <1>3, <2>1, <2>2, <3>1 DEF FollowsPlan
  <2>3. CASE job.plan = <<"users", "reload">>
    BY <1>1, <1>3, <2>1, <2>3, PlanSteps DEF FollowsPlan, step
  <2>4. CASE job.plan = <<"save", "reload">>
    BY <1>1, <1>3, <2>1, <2>4, PlanSteps DEF FollowsPlan, step
  <2>5. CASE job.plan = <<"reload">>
    BY <1>1, <1>3, <2>1, <2>5, PlanSteps DEF FollowsPlan, step
  <2>6. CASE job.plan = <<"users", "save", "reload">>
    BY <1>1, <1>3, <2>1, <2>6, PlanSteps DEF FollowsPlan, step
  <2>7. CASE job.plan = <<"users">>
    BY <1>1, <1>3, <2>1, <2>7, PlanSteps DEF FollowsPlan, step
  <2>8. QED
    BY <1>0, <2>1, <2>2, <2>3, <2>4, <2>5, <2>6, <2>7 DEF Plans, job
<1>7. JobsRight'
  <2>1. Shaped(j, q)' /\ NotStale(q)' /\ CaptureKeeps(q)'
    BY <1>0, <1>1, <1>3 DEF Shaped, NotStale, CaptureKeeps, Keeps, KeepsUsers, libHistory
  <2>2. \A k \in Jobs \ {j} :
           /\ Shaped(k, jobs[k])' /\ NotStale(jobs[k])'
           /\ FollowsPlan(jobs[k])' /\ CaptureKeeps(jobs[k])'
    BY <1>0, <1>1, <1>5 DEF LibIInv, JobsRight, NotStale, FollowsPlan, CaptureKeeps
  <2>3. QED
    BY <1>5, <1>6, <2>1, <2>2 DEF JobsRight
<1>8. CopiesAreOwn'
  BY <1>0, <1>1, <1>3, <1>5 DEF LibIInv, CopiesAreOwn, HasCopy
<1>9. Keeps(libFile)' /\ KeepsUsers(libUsers)'
  BY <1>0, <1>1 DEF LibIInv, CaptureKeeps, Keeps, KeepsUsers, libHistory
<1>10. QED
  BY <1>0, <1>1, <1>5, <1>7, <1>8, <1>9 DEF LibIInv, MemoryIsTheFile

\* The lock is released and the change reported.
LEMMA LeaveKeeps ==
  ASSUME LibIInv, NEW j \in Jobs, LeaveLock(j)
  PROVE  LibIInv'
<1>0. /\ jobs \in [Jobs -> LibJobs] /\ jobs[j] \in LibJobs /\ Shaped(j, jobs[j]) /\ NotStale(jobs[j])
      /\ FollowsPlan(jobs[j]) /\ CaptureKeeps(jobs[j])
      /\ jobs[j].pc = "writing" /\ jobs[j].plan = <<>> /\ libLock = j /\ Nobody \notin Jobs
      /\ \A k \in Jobs \ {j} : jobs[k].pc # "writing"
      /\ NoJob \in LibJobs /\ NoJob.pc = "idle" /\ NoJob.op = "none"
      /\ refreshing = j => jobs[j].op = "refresh"
  BY LibraryAssumption DEF LibIInv, JobsRight, LibTypeOK, LeaveLock, NoJob, LibJobs, LibSteps, Plans
<1>1. /\ libLock' = Nobody
      /\ accepted' = accepted \cup jobs[j].ids /\ owned' = owned \cup jobs[j].ids
      /\ forgotten' = forgotten \cup (IF jobs[j].op = "adopt" THEN jobs[j].ids \ libDirs ELSE {})
      /\ UNCHANGED <<libDisk, libMem, published, refreshing>>
  BY DEF LeaveLock
<1>2. PICK q \in LibJobs :
        /\ jobs' = [jobs EXCEPT ![j] = q]
        /\ IF jobs[j].op = "refresh" THEN q.pc = "cache" /\ q.op = "refresh" /\ q.rev = jobs[j].rev /\ q.ids = {}
                                     ELSE q = NoJob
  <2>1. CASE jobs[j].op = "refresh"
    <3> DEFINE p == [jobs[j] EXCEPT !.pc = "cache"]
    <3>1. p \in LibJobs /\ p.pc = "cache" /\ p.op = "refresh" /\ p.rev = jobs[j].rev /\ p.ids = {}
      BY <1>0, <2>1 DEF LibJobs, LibSteps, Shaped
    <3>2. QED
      BY <2>1, <3>1 DEF LeaveLock
  <2>2. CASE jobs[j].op # "refresh"
    BY <1>0, <2>2 DEF LeaveLock
  <2>3. QED
    BY <2>1, <2>2
<1>3. /\ libFile' \in Catalogs /\ libMem' \in Catalogs /\ libUsers' \subseteq LibIds
      /\ libDirs' \subseteq LibIds /\ libCache' \in 0..MaxRevision
      /\ accepted' \subseteq LibIds /\ owned' \subseteq accepted'
      /\ refreshing' = refreshing /\ (refreshing = j => q.op = "refresh") /\ q.pc \notin {"writing", "cleanup"}
  BY <1>0, <1>1, <1>2 DEF LibIInv, LibTypeOK, LibJobs, libDisk
<1>4. /\ LibTypeOK' /\ jobs' \in [Jobs -> LibJobs] /\ jobs'[j] = q
      /\ \A k \in Jobs \ {j} : jobs'[k] = jobs[k] /\ (Shaped(k, jobs[k]) => Shaped(k, jobs[k])')
  BY <1>0, <1>1, <1>2, <1>3, JobTypesKept
<1>5. JobsRight'
  <2>1. Shaped(j, q)' /\ NotStale(q)' /\ FollowsPlan(q)' /\ CaptureKeeps(q)'
    BY <1>0, <1>1, <1>2, <1>3 DEF Shaped, NotStale, FollowsPlan, CaptureKeeps, libDisk, Ops
  <2>2. \A k \in Jobs \ {j} :
           /\ Shaped(k, jobs[k])' /\ NotStale(jobs[k])'
           /\ FollowsPlan(jobs[k])' /\ CaptureKeeps(jobs[k])'
    BY <1>0, <1>1, <1>4 DEF LibIInv, JobsRight, NotStale, FollowsPlan, CaptureKeeps, libDisk
  <2>3. QED
    BY <1>4, <2>1, <2>2 DEF JobsRight
<1>6. CopiesAreOwn'
  BY <1>1, <1>3, <1>4 DEF LibIInv, CopiesAreOwn, HasCopy, libDisk
<1>7. Keeps(libFile)'
  <2>1. /\ libFile = jobs[j].staged /\ Custom # 0 /\ Local # 0 /\ Custom # Local
        /\ \A i \in jobs[j].ids : libFile[i] \in {Custom, Local} /\ (jobs[j].op = "defs" => libFile[i] = Custom)
    BY <1>0, LibraryAssumption DEF FollowsPlan, Custom, Local
  <2>2. /\ jobs[j].op = "copy" => jobs[j].ids \subseteq libDirs
        /\ jobs[j].op = "refresh" => jobs[j].ids = {}
        /\ jobs[j].op \in {"defs", "adopt", "copy", "refresh"}
    BY <1>0 DEF LibIInv, CopiesAreOwn, HasCopy, Shaped, Ops
  <2>3. ASSUME NEW i \in jobs[j].ids \ forgotten'
        PROVE  libFile[i] # 0 /\ libFile[i] \in {Custom, Local} /\ (libFile[i] = Local => i \in libDirs)
    BY <1>1, <2>1, <2>2
  <2>4. QED
    BY <1>1, <2>3 DEF LibIInv, Keeps, libDisk
<1>8. KeepsUsers(libUsers)' /\ MemoryIsTheFile'
  BY <1>0, <1>1 DEF LibIInv, FollowsPlan, KeepsUsers, MemoryIsTheFile, libDisk
<1>9. QED
  BY <1>1, <1>4, <1>5, <1>6, <1>7, <1>8 DEF LibIInv, libDisk

\* A failed change is undone before the lock is released; the import of a copy lets the
\* lock go first.
LEMMA FailKeeps ==
  ASSUME LibIInv, NEW j \in Jobs, FailLocked(j) \/ FailCopy(j)
  PROVE  LibIInv'
<1>0. /\ jobs \in [Jobs -> LibJobs] /\ jobs[j] \in LibJobs /\ Shaped(j, jobs[j])
      /\ FollowsPlan(jobs[j]) /\ CaptureKeeps(jobs[j])
      /\ jobs[j].pc = "writing" /\ jobs[j].plan # <<>> /\ Head(jobs[j].plan) # "reload"
      /\ libLock = j /\ Nobody \notin Jobs
      /\ \A k \in Jobs \ {j} : jobs[k].pc # "writing"
      /\ NoJob \in LibJobs /\ NoJob.pc = "idle" /\ NoJob.op = "none"
      /\ refreshing = j => jobs[j].op = "refresh"
  BY LibraryAssumption
  DEF LibIInv, JobsRight, LibTypeOK, FailLocked, FailCopy, NoJob, LibJobs, LibSteps, Plans
<1>1. /\ libLock' = Nobody /\ UNCHANGED <<libDirs, libCache, published, libHistory>>
      /\ libFile' \in {libFile, jobs[j].file} /\ libUsers' \in {libUsers, jobs[j].users}
      /\ libMem' = libFile' /\ refreshing' \in {refreshing, Nobody} /\ (refreshing' = refreshing \/ refreshing = j)
  <2>1. CASE FailLocked(j)
    BY <2>1 DEF FailLocked, Restore, EndRefresh
  <2>2. CASE FailCopy(j)
    <3>1. jobs[j].op = "copy" /\ jobs[j].plan \in Plans
      BY <1>0, <2>2 DEF FailCopy, LibJobs
    <3>2. jobs[j].plan \notin {<<"users", "reload">>, <<"reload">>}
      BY <1>0, <3>1, PlanSteps DEF FollowsPlan
    <3>3. QED
      BY <1>0, <2>2, <3>2 DEF FailCopy, FollowsPlan, libDisk
  <2>3. QED
    BY <2>1, <2>2
<1>2. PICK q \in LibJobs :
        /\ jobs' = [jobs EXCEPT ![j] = q] /\ (refreshing' = j => q.op = "refresh")
        /\ \/ q = NoJob
           \/ q.pc = "cleanup" /\ q.op = "copy" /\ jobs[j].op = "copy" /\ q.ids = jobs[j].ids /\ q.file = jobs[j].file
  <2>1. CASE FailLocked(j)
    BY <1>0, <2>1 DEF FailLocked, EndRefresh
  <2>2. CASE FailCopy(j)
    <3> DEFINE p == [jobs[j] EXCEPT !.pc = "cleanup"]
    <3>1. p \in LibJobs /\ p.pc = "cleanup" /\ p.op = jobs[j].op /\ p.ids = jobs[j].ids /\ p.file = jobs[j].file
      BY <1>0 DEF LibJobs, LibSteps
    <3>2. jobs' = [jobs EXCEPT ![j] = p] /\ jobs[j].op = "copy" /\ refreshing' = refreshing
      BY <2>2 DEF FailCopy
    <3>3. QED
      BY <1>0, <3>1, <3>2
  <2>3. QED
    BY <2>1, <2>2
<1>3. /\ libFile' \in Catalogs /\ libMem' \in Catalogs /\ libUsers' \subseteq LibIds
      /\ libDirs' \subseteq LibIds /\ libCache' \in 0..MaxRevision
      /\ accepted' \subseteq LibIds /\ owned' \subseteq accepted' /\ published' = published
  BY <1>0, <1>1 DEF LibIInv, LibTypeOK, LibJobs, Shaped, libHistory
<1>4. /\ LibTypeOK' /\ jobs' \in [Jobs -> LibJobs] /\ jobs'[j] = q
      /\ \A k \in Jobs \ {j} : jobs'[k] = jobs[k] /\ (Shaped(k, jobs[k]) => Shaped(k, jobs[k])')
  <2>1. /\ libLock' = Nobody /\ jobs[j].pc = "writing" /\ q.pc # "writing"
        /\ refreshing' \in {refreshing, j, Nobody}
        /\ \A k \in Jobs \ {j} : refreshing' = k <=> refreshing = k
    BY <1>0, <1>1, <1>2
  <2>2. QED
    BY <1>2, <1>3, <2>1, JobTypesKept
<1>5. JobsRight'
  <2>1. Shaped(j, q)' /\ NotStale(q)' /\ FollowsPlan(q)' /\ CaptureKeeps(q)'
    BY <1>0, <1>1, <1>2 DEF Shaped, NotStale, FollowsPlan, CaptureKeeps, Ops
  <2>2. \A k \in Jobs \ {j} :
           /\ Shaped(k, jobs[k])' /\ NotStale(jobs[k])'
           /\ FollowsPlan(jobs[k])' /\ CaptureKeeps(jobs[k])'
    BY <1>0, <1>1, <1>4 DEF LibIInv, JobsRight, NotStale, FollowsPlan, CaptureKeeps
  <2>3. QED
    BY <1>4, <2>1, <2>2 DEF JobsRight
<1>6. CopiesAreOwn'
  BY <1>0, <1>1, <1>2, <1>4 DEF LibIInv, CopiesAreOwn, HasCopy
<1>7. Keeps(libFile)' /\ KeepsUsers(libUsers)' /\ MemoryIsTheFile' /\ libCache' <= published'
  BY <1>0, <1>1 DEF LibIInv, CaptureKeeps, Keeps, KeepsUsers, MemoryIsTheFile, libHistory
<1>8. QED
  BY <1>4, <1>5, <1>6, <1>7 DEF LibIInv

\* The rest of a failed import: its copy goes, then what it had captured comes back.  The
\* history marks what that undoes.
LEMMA UndoKeeps ==
  ASSUME LibIInv, NEW j \in Jobs, RemoveCopy(j) \/ RollBackCopy(j)
  PROVE  LibIInv'
<1>0. /\ jobs \in [Jobs -> LibJobs] /\ jobs[j] \in LibJobs /\ Shaped(j, jobs[j])
      /\ jobs[j].pc \in {"cleanup", "rollback"} /\ jobs[j].op = "copy" /\ jobs[j].file \in Catalogs
      /\ NoJob \in LibJobs /\ NoJob.pc = "idle" /\ NoJob.op = "none" /\ refreshing # j
  BY LibraryAssumption
  DEF LibIInv, JobsRight, LibTypeOK, RemoveCopy, RollBackCopy, Shaped, NoJob, LibJobs, LibSteps, Plans
<1>1. PICK q \in LibJobs :
        /\ jobs' = [jobs EXCEPT ![j] = q] /\ q.pc \notin {"writing", "cleanup"}
        /\ q = NoJob \/ (q.pc = "rollback" /\ q.op = "copy" /\ q.file = jobs[j].file)
  <2>1. CASE RemoveCopy(j)
    <3> DEFINE p == [jobs[j] EXCEPT !.pc = "rollback"]
    <3>1. p \in LibJobs /\ p.pc = "rollback" /\ p.op = "copy" /\ p.file = jobs[j].file
      BY <1>0 DEF LibJobs, LibSteps
    <3>2. jobs' = [jobs EXCEPT ![j] = p]
      BY <2>1 DEF RemoveCopy
    <3>3. QED
      BY <3>1, <3>2
  <2>2. CASE RollBackCopy(j)
    BY <1>0, <2>2 DEF RollBackCopy
  <2>3. QED
    BY <2>1, <2>2
<1>2. /\ libFile' \in Catalogs /\ libMem' \in Catalogs /\ libUsers' \subseteq LibIds
      /\ libDirs' \subseteq LibIds /\ libCache' \in 0..MaxRevision
      /\ accepted' \subseteq LibIds /\ owned' \subseteq accepted'
      /\ UNCHANGED <<published, libCache, libLock, refreshing, accepted, owned>>
  BY <1>0 DEF LibIInv, LibTypeOK, LibJobs, RemoveCopy, RollBackCopy, Restore
<1>3. /\ LibTypeOK' /\ jobs' \in [Jobs -> LibJobs] /\ jobs'[j] = q
      /\ \A k \in Jobs \ {j} : jobs'[k] = jobs[k] /\ (Shaped(k, jobs[k]) => Shaped(k, jobs[k])')
  BY <1>0, <1>1, <1>2, JobTypesKept
<1>4. Shaped(j, q)' /\ NotStale(q)' /\ FollowsPlan(q)' /\ CaptureKeeps(q)'
  BY <1>0, <1>1 DEF Shaped, NotStale, FollowsPlan, CaptureKeeps, Ops
<1>5. CASE RemoveCopy(j)
  <2>1. /\ libDirs' = libDirs \ jobs[j].ids /\ forgotten' = forgotten \cup (jobs[j].ids \cap owned)
        /\ UNCHANGED <<libFile, libUsers, libMem>> /\ HasCopy(jobs[j])
    BY <1>0, <1>5 DEF RemoveCopy, HasCopy
  <2>2. \A c : Keeps(c) => Keeps(c)'
    BY <1>2, <2>1 DEF Keeps
  <2>3. KeepsUsers(libUsers)' /\ Keeps(libFile)' /\ \A u : KeepsUsers(u) => KeepsUsers(u)'
    BY <1>2, <2>1 DEF LibIInv, Keeps, KeepsUsers
  <2>4. JobsRight'
    <3>1. \A k \in Jobs \ {j} : Shaped(k, jobs[k])' /\ NotStale(jobs[k])' /\ FollowsPlan(jobs[k])'
      BY <1>2, <1>3, <2>1 DEF LibIInv, JobsRight, NotStale, FollowsPlan
    <3>2. ASSUME NEW k \in Jobs \ {j} PROVE CaptureKeeps(jobs[k])'
      BY <1>2, <1>3, <2>1 DEF LibIInv, JobsRight, CaptureKeeps, Keeps, KeepsUsers
    <3>3. QED
      BY <1>3, <1>4, <3>1, <3>2 DEF JobsRight
  <2>5. CopiesAreOwn'
    BY <1>1, <1>3, <2>1 DEF LibIInv, CopiesAreOwn, HasCopy
  <2>6. QED
    BY <1>2, <1>3, <2>1, <2>3, <2>4, <2>5 DEF LibIInv, MemoryIsTheFile
<1>6. CASE RollBackCopy(j)
  <2>1. /\ libLock = Nobody /\ libUsers' = jobs[j].users /\ libFile' = jobs[j].file /\ libMem' = jobs[j].file
        /\ forgotten' = forgotten \cup {i \in accepted : libFile[i] # jobs[j].file[i]}
                                  \cup (owned \ jobs[j].users)
        /\ libDirs' = libDirs
    BY <1>6 DEF RollBackCopy, Restore
  <2>2. \A k \in Jobs : jobs[k].pc # "writing"
    BY <2>1, LibraryAssumption DEF LibIInv, LibTypeOK
  <2>3. JobsRight'
    <3>1. \A k \in Jobs \ {j} :
             /\ Shaped(k, jobs[k])' /\ NotStale(jobs[k])'
             /\ FollowsPlan(jobs[k])' /\ CaptureKeeps(jobs[k])'
      BY <1>2, <1>3, <2>1, <2>2 DEF LibIInv, JobsRight, NotStale, FollowsPlan, CaptureKeeps
    <3>2. QED
      BY <1>3, <1>4, <3>1 DEF JobsRight
  <2>4. CopiesAreOwn'
    BY <1>1, <1>3, <2>1 DEF LibIInv, CopiesAreOwn, HasCopy
  <2>5. Keeps(libFile)' /\ KeepsUsers(libUsers)'
    BY <1>2, <2>1 DEF LibIInv, LibTypeOK, Keeps, KeepsUsers
  <2>6. QED
    BY <1>2, <1>3, <2>1, <2>3, <2>4, <2>5 DEF LibIInv, MemoryIsTheFile
<1>7. QED
  BY <1>5, <1>6

\* The manifest goes to the cache, and the refresh is over.
LEMMA CacheKeeps ==
  ASSUME LibIInv, NEW j \in Jobs, NEW ok \in BOOLEAN, UpdateCache(j, ok)
  PROVE  LibIInv' /\ libCache' >= libCache
<1>0. /\ jobs \in [Jobs -> LibJobs] /\ jobs[j] \in LibJobs /\ Shaped(j, jobs[j]) /\ NotStale(jobs[j])
      /\ jobs[j].pc = "cache" /\ jobs[j].op = "refresh" /\ refreshing = j
      /\ NoJob \in LibJobs /\ NoJob.pc = "idle" /\ NoJob.op = "none" /\ Nobody \notin Jobs
      /\ libCache \in 0..MaxRevision /\ published \in 1..MaxRevision /\ jobs[j].rev \in 0..MaxRevision
      /\ MaxRevision \in Nat /\ libCache <= published
  BY LibraryAssumption
  DEF LibIInv, JobsRight, LibTypeOK, UpdateCache, Shaped, NoJob, LibJobs, LibSteps, Plans
<1>1. /\ libCache' \in {libCache, jobs[j].rev} /\ jobs' = [jobs EXCEPT ![j] = NoJob] /\ refreshing' = Nobody
      /\ UNCHANGED <<libFile, libUsers, libDirs, libMem, published, libLock, libHistory>>
  BY <1>0 DEF UpdateCache, EndRefresh
<1>2. libCache' \in 0..MaxRevision /\ libCache' >= libCache /\ libCache' <= published
  BY <1>0, <1>1 DEF NotStale
<1>3. /\ LibTypeOK' /\ jobs' \in [Jobs -> LibJobs] /\ jobs'[j] = NoJob
      /\ \A k \in Jobs \ {j} : jobs'[k] = jobs[k] /\ (Shaped(k, jobs[k]) => Shaped(k, jobs[k])')
  <2>1. /\ libFile' \in Catalogs /\ libMem' \in Catalogs /\ libUsers' \subseteq LibIds
        /\ libDirs' \subseteq LibIds /\ accepted' \subseteq LibIds /\ owned' \subseteq accepted'
    BY <1>1 DEF LibIInv, LibTypeOK, libHistory
  <2>2. QED
    BY <1>0, <1>1, <1>2, <2>1, JobTypesKept
<1>4. JobsRight'
  <2>1. Shaped(j, NoJob)' /\ NotStale(NoJob)' /\ FollowsPlan(NoJob)' /\ CaptureKeeps(NoJob)'
    BY <1>0 DEF Shaped, NotStale, FollowsPlan, CaptureKeeps
  <2>2. \A k \in Jobs \ {j} : Shaped(k, jobs[k])' /\ FollowsPlan(jobs[k])' /\ CaptureKeeps(jobs[k])'
    BY <1>1, <1>3 DEF LibIInv, JobsRight, FollowsPlan, CaptureKeeps, Keeps, KeepsUsers, libHistory
  <2>3. \A k \in Jobs \ {j} : jobs[k].op # "refresh"
    BY <1>0 DEF LibIInv, JobsRight, Shaped
  <2>4. QED
    BY <1>3, <2>1, <2>2, <2>3 DEF JobsRight, NotStale
<1>5. CopiesAreOwn'
  BY <1>0, <1>1, <1>3 DEF LibIInv, CopiesAreOwn, HasCopy
<1>6. QED
  BY <1>1, <1>2, <1>3, <1>4, <1>5 DEF LibIInv, MemoryIsTheFile, Keeps, KeepsUsers, libHistory

LEMMA LibStepIInv == LibIInv /\ [LibNext]_libVars => LibIInv'
<1> SUFFICES ASSUME LibIInv, [LibNext]_libVars PROVE LibIInv'
  OBVIOUS
<1>1. ASSUME NEW i \in LibIds, RegisterModel(i) PROVE LibIInv'
  <2>1. /\ libLock = Nobody /\ libMem = libFile /\ libMem[i] = 0 /\ libFile \in Catalogs
        /\ \A j \in Jobs : jobs[j].pc # "writing"
        /\ UNCHANGED <<libUsers, libDirs, libCache, published, libLock, jobs, refreshing, owned, forgotten>>
    BY <1>1, LibraryAssumption DEF RegisterModel, LibIInv, MemoryIsTheFile, LibTypeOK
  <2>2. /\ libMem' = libFile' /\ libFile' \in Catalogs
        /\ \/ libFile' = [libFile EXCEPT ![i] = Custom] /\ accepted' = accepted \cup {i}
           \/ libFile' = libFile /\ accepted' = accepted
    BY <1>1, <2>1, LibraryAssumption DEF RegisterModel, Catalogs, Custom, Local
  <2>3. LibTypeOK'
    BY <2>1, <2>2 DEF LibIInv, LibTypeOK
  <2>4. JobsRight' /\ CopiesAreOwn'
    BY <2>1 DEF LibIInv, JobsRight, CopiesAreOwn, HasCopy, Shaped, NotStale, FollowsPlan, CaptureKeeps
  <2>5. Keeps(libFile)'
    <3>1. Custom # 0 /\ Local # 0 /\ accepted' \subseteq accepted \cup {i} /\ Keeps(libFile)
      BY <2>2, LibraryAssumption DEF LibIInv, Custom, Local
    <3>2. /\ \A x \in LibIds \ {i} : libFile'[x] = libFile[x]
          /\ libFile'[i] = Custom \/ (accepted' = accepted /\ libFile' = libFile)
      BY <2>1, <2>2 DEF Catalogs
    <3>3. owned \subseteq LibIds /\ accepted \subseteq LibIds /\ i \notin owned \ forgotten
      BY <2>1, <3>1 DEF LibIInv, LibTypeOK, Keeps
    <3>4. QED
      BY <2>1, <3>1, <3>2, <3>3 DEF Keeps
  <2>6. QED
    BY <2>1, <2>2, <2>3, <2>4, <2>5 DEF LibIInv, MemoryIsTheFile, KeepsUsers
<1>2. CASE PublishManifest
  <2>1. /\ published \in 1..MaxRevision /\ libCache \in 0..MaxRevision /\ published' = published + 1
        /\ published' \in 1..MaxRevision
        /\ UNCHANGED <<libFile, libUsers, libDirs, libCache, libMem, libLock, jobs, refreshing, accepted, owned, forgotten>>
    BY <1>2, LibraryAssumption DEF PublishManifest, LibIInv, LibTypeOK, libDisk, libHistory
  <2>2. JobsRight'
    <3>1. \A j \in Jobs : jobs[j].rev \in 0..MaxRevision
      BY DEF LibIInv, JobsRight, LibJobs
    <3>2. \A j \in Jobs : NotStale(jobs[j])'
      BY <2>1, <3>1, LibraryAssumption DEF LibIInv, JobsRight, NotStale
    <3>3. QED
      BY <2>1, <3>2 DEF LibIInv, JobsRight, Shaped, FollowsPlan, CaptureKeeps, Keeps, KeepsUsers
  <2>3. LibTypeOK' /\ libCache' <= published'
    BY <2>1, LibraryAssumption DEF LibIInv, LibTypeOK
  <2>4. QED
    BY <2>1, <2>2, <2>3 DEF LibIInv, MemoryIsTheFile, CopiesAreOwn, HasCopy, Keeps, KeepsUsers
<1>3. CASE RestartLibrary
  <2>1. NoJob \in LibJobs /\ NoJob.pc = "idle" /\ NoJob.op = "none"
    BY LibraryAssumption DEF NoJob, LibJobs, LibSteps, Plans
  <2>2. LibTypeOK'
    BY <1>3, <2>1, LibraryAssumption DEF RestartLibrary, LibIInv, LibTypeOK, libDisk, libHistory
  <2>3. JobsRight' /\ CopiesAreOwn'
    BY <1>3, <2>1
    DEF RestartLibrary, JobsRight, CopiesAreOwn, HasCopy, Shaped, NotStale, FollowsPlan, CaptureKeeps
  <2>4. QED
    BY <1>3, <2>2, <2>3
    DEF RestartLibrary, LibIInv, MemoryIsTheFile, Keeps, KeepsUsers, libDisk, libHistory
<1>4. CASE UNCHANGED libVars
  BY <1>4
  DEF libVars, libDisk, libHistory, LibIInv, LibTypeOK, JobsRight, CopiesAreOwn, HasCopy, Shaped,
      NotStale, FollowsPlan, CaptureKeeps, Keeps, KeepsUsers, MemoryIsTheFile
<1>5. QED
  BY <1>1, <1>2, <1>3, <1>4, ApartKeeps, EnterKeeps, WriteKeeps, LeaveKeeps, FailKeeps, UndoKeeps,
       CacheKeeps
  DEF LibNext

LEMMA LibIInvHolds == LibSpec => []LibIInv
BY LibInitIInv, LibStepIInv, PTL DEF LibSpec

\* A registration reported as done stays in the catalog and what the user imported stays
\* the user's, whatever fails or restarts; only the rollback of a failed import may undo
\* them (model_library_service.py).
THEOREM LibraryIsSafe == LibSpec => []LibrarySafe
<1>1. LibIInv => LibrarySafe
  BY DEF LibIInv, LibrarySafe, RegistrationsKept, UserModelsKept, Keeps, KeepsUsers
<1>2. QED
  BY <1>1, LibIInvHolds, PTL

\* The cached manifest is never replaced by an older one: the route refreshes one at a
\* time (model_library_routes.py, refresh_lock).
THEOREM CacheNeverGoesBack == LibSpec => CacheMovesForward
<1>1. LibIInv /\ [LibNext]_libVars => [libCache' >= libCache]_libVars
  <2>1. SUFFICES ASSUME LibIInv, LibNext PROVE libCache' >= libCache
    OBVIOUS
  <2>2. CASE \E j \in Jobs, ok \in BOOLEAN : UpdateCache(j, ok)
    BY <2>1, <2>2, CacheKeeps
  <2>3. CASE ~\E j \in Jobs, ok \in BOOLEAN : UpdateCache(j, ok)
    <3>1. libCache' = libCache
      BY <2>1, <2>3
      DEF LibNext, RegisterModel, StartDefinitions, StartAdopt, StartCopy, CopyEnds, Downloaded,
           StartRefresh,
          EnterLock, WriteStep, LeaveLock, FailLocked, FailCopy, RemoveCopy, RollBackCopy, PublishManifest,
          RestartLibrary, libDisk
    <3>2. libCache \in Nat
      BY <2>1, LibraryAssumption DEF LibIInv, LibTypeOK
    <3>3. QED
      BY <3>1, <3>2
  <2>4. QED
    BY <2>2, <2>3
<1>2. QED
  BY <1>1, LibIInvHolds, PTL DEF LibSpec, CacheMovesForward
===============================================================================
