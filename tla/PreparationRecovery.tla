------------------------- MODULE PreparationRecovery -------------------------
(***************************************************************************)
(* What InferBridge remembers of an interrupted preparation of one model    *)
(* and what a user can do about it: app/model_recovery.py with              *)
(* app/model_recovery_status.py and app/model_recovery_cleanup.py.          *)
(*                                                                         *)
(* A record of the last failure is kept in memory and in a file; when the   *)
(* server has none but finds incomplete output, it infers one.  Operations  *)
(* are reduced to the progress phases they publish; who may run at the same *)
(* time is StorageGuards' subject: here nothing starts during a removal.    *)
(***************************************************************************)
EXTENDS Naturals

CONSTANTS
  MaxRecIds,     \* bound: operation and recovery ids handed out
  MaxRecBoots    \* bound: crashes of the server

ASSUME RecoveryAssumption == MaxRecIds \in Nat /\ MaxRecBoots \in Nat

VARIABLES
  recOp,      \* the running operation and the stage it really is in
  recProg,    \* progress: phase, operation id and type
  recOutput,  \* _output_state, staging included
  recCache,   \* the Hugging Face cache has reusable files
  recMem,     \* _model_recovery_records[model]
  recDisk,    \* .inferbridge-recovery/<model>.json
  recRun,     \* recover_model in progress
  recSeen,    \* the recovery id a client was shown last
  recCount    \* ids handed out, crashes, and whether a write or unlink failed

recVars == <<recOp, recProg, recOutput, recCache, recMem, recDisk, recRun, recSeen, recCount>>

NoOp == [kind |-> "none", stage |-> "none", failed |-> "none"]
NoProgress == [phase |-> "idle", id |-> 0, type |-> "none"]
NoRecord == [rid |-> 0, op |-> 0, failed |-> "none", completed |-> "none", truth |-> "none"]
NoRun == [pc |-> "idle", action |-> "none", rid |-> 0]

Stages == {"download", "conversion", "load"}
RecPhases == {"idle", "queued", "downloading", "converting", "finalizing", "loading",
              "ready", "error", "cancelled"}
RecoveryActions == {"resume", "retry_failed_stage", "restart_download", "remove_incomplete_files"}

RecordType == [rid : Nat, op : Nat, failed : Stages \cup {"none"},
               completed : {"none", "download", "conversion"}, truth : Stages \cup {"none"}]

RecoveryTypeOK ==
  /\ recOp \in [kind : {"none", "load", "convert"},
                stage : {"none", "queued", "downloading", "converting", "finalizing", "converted", "loading"},
                failed : Stages \cup {"none"}]
  /\ recProg \in [phase : RecPhases, id : Nat, type : {"none", "load", "convert"}]
  /\ recOutput \in {"missing", "incomplete", "complete"} /\ recCache \in BOOLEAN
  /\ recMem \in RecordType /\ recDisk \in RecordType
  /\ recRun \in [pc : {"idle", "output", "cache", "start"}, action : RecoveryActions \cup {"none"}, rid : Nat]
  /\ recSeen \in Nat
  /\ recCount \in [ids : Nat, boots : Nat, failed : BOOLEAN]

RecoveryInit ==
  /\ recOp = NoOp /\ recProg = NoProgress
  /\ recOutput \in {"missing", "incomplete", "complete"} /\ recCache \in BOOLEAN
  /\ recMem = NoRecord /\ recDisk = NoRecord
  /\ recRun = NoRun /\ recSeen = 0
  /\ recCount = [ids |-> 0, boots |-> 0, failed |-> FALSE]

RecActive == recOp.kind # "none"
RecNextId == recCount.ids + 1
RecRoom(n) == recCount.ids + n <= MaxRecIds

-----------------------------------------------------------------------------
(* How a failure is classified.                                             *)

FailedPhase(previous, type) == IF previous = "idle" THEN "none" ELSE previous
FailedStage(previous, type) ==
  CASE previous = "loading" -> "load"
    [] previous \in {"converting", "finalizing"} -> "conversion"
    [] previous \in {"downloading", "queued"} -> "download"
    [] OTHER -> IF type = "convert" THEN "conversion" ELSE "load"

LastCompletedStage(previous, cache, output) ==
  CASE output = "complete" \/ previous = "finalizing" -> "conversion"
    [] previous \in {"converting", "loading"} \/ cache -> "download"
    [] OTHER -> "none"

RecommendedAction(failed, cache, output) ==
  CASE failed = "load" /\ output = "complete" -> "retry_failed_stage"
    [] cache -> "resume"
    [] OTHER -> "restart_download"

LoadOnly(failed, output) == failed = "load" /\ output = "complete"
\* Recommending by the failed stage alone would miss that the files are gone.
OfferedByStage(failed, output) ==
  {a \in RecoveryActions :
     CASE a \in {"resume", "retry_failed_stage"} -> failed # "download" \/ output = "incomplete"
       [] OTHER -> output = "incomplete"}
Offered(failed, output) ==
  {a \in RecoveryActions :
     CASE a \in {"resume", "retry_failed_stage"} -> output # "complete" \/ LoadOnly(failed, output)
       [] a = "restart_download" -> output # "complete"
       [] OTHER -> output = "incomplete"}

-----------------------------------------------------------------------------
(* _set_progress with recovery: ready forgets the record, a terminal phase  *)
(* writes one.  "truth" is no field of the code: the stage that failed.     *)

SaveFailure(phase, previous, prog, output, cache, truth) ==
  LET same == prog.id # 0 /\ recMem.op = prog.id
      record == [rid |-> IF same THEN recMem.rid ELSE RecNextId, op |-> prog.id,
                 failed |-> FailedStage(previous, prog.type),
                 completed |-> LastCompletedStage(previous, cache, output), truth |-> truth]
  IN /\ recMem' = record
     /\ \E written \in BOOLEAN :
          /\ recDisk' = IF written THEN record ELSE recDisk
          /\ recCount' = [recCount EXCEPT !.ids = IF same THEN @ ELSE @ + 1,
                                          !.failed = @ \/ ~written]

ClearFromMemory == recMem' = NoRecord /\ UNCHANGED <<recDisk, recCount>>
ClearRecord ==
  /\ recMem' = NoRecord
  /\ \E unlinked \in BOOLEAN :
       /\ recDisk' = IF unlinked THEN NoRecord ELSE recDisk
       /\ recCount' = [recCount EXCEPT !.failed = @ \/ (recDisk # NoRecord /\ ~unlinked)]

-----------------------------------------------------------------------------
(* Operations, as far as they publish and leave files.                      *)

Schedulable(kind) == ~RecActive /\ (kind = "load" \/ recOutput # "complete")

\* A client's or a recovery's operation: progress starts over with a new id.
Begun(kind) ==
  /\ recOp' = [kind |-> kind, stage |-> "queued", failed |-> "none"]
  /\ recProg' = [phase |-> "queued", id |-> RecNextId, type |-> kind]

RecSchedule(kind) ==
  /\ recRun.pc = "idle" /\ RecRoom(2) /\ Schedulable(kind)
  /\ Begun(kind)
  /\ recCount' = [recCount EXCEPT !.ids = @ + 1]
  /\ UNCHANGED <<recOutput, recCache, recMem, recDisk, recRun, recSeen>>

\* The files on disk are converted again to another weight format.
ScheduleReconversion ==
  /\ recRun.pc = "idle" /\ RecRoom(2) /\ ~RecActive /\ recOutput = "complete"
  /\ Begun("convert")
  /\ recCount' = [recCount EXCEPT !.ids = @ + 1]
  /\ UNCHANGED <<recOutput, recCache, recMem, recDisk, recRun, recSeen>>

StageAfter(stage) ==
  CASE stage = "queued" -> IF recOp.kind = "load" /\ recOutput = "complete" THEN "loading" ELSE "downloading"
    [] stage = "downloading" -> "converting"
    [] stage = "converting" -> "finalizing"
    [] OTHER -> stage

Advance ==
  LET next == StageAfter(recOp.stage)
  IN /\ RecActive /\ next # recOp.stage
     /\ recOp' = [recOp EXCEPT !.stage = next]
     /\ recProg' = [recProg EXCEPT !.phase = next]
     /\ recCache' \in (IF next = "converting" THEN {TRUE}
                      ELSE IF next = "downloading" THEN {recCache, TRUE} ELSE {recCache})
     /\ recOutput' = IF next = "converting" /\ recOutput = "missing" THEN "incomplete" ELSE recOutput
     /\ UNCHANGED <<recMem, recDisk, recRun, recSeen, recCount>>

Succeed ==
  /\ RecActive /\ recOp.stage \in {"finalizing", "loading"}
  /\ recProg' = [recProg EXCEPT !.phase = "ready"] /\ ClearRecord
  /\ IF recOp.kind = "load" /\ recOp.stage = "finalizing"
     THEN recOp' = [recOp EXCEPT !.stage = "converted"]
     ELSE recOp' = NoOp
  /\ recOutput' = "complete"
  /\ UNCHANGED <<recCache, recRun, recSeen>>

StageName(stage) ==
  CASE stage = "loading" -> "load" [] stage \in {"converting", "finalizing"} -> "conversion"
    [] OTHER -> "download"

\* A conversion or a load stops: cancelled, timed out or failed.  A failed conversion
\* inside a load goes on to look for the files.
Interrupt(phase) ==
  LET stage == StageName(recOp.stage)
  IN /\ recOp.stage \in {"queued", "downloading", "converting", "finalizing", "loading"}
     /\ SaveFailure(phase, recProg.phase, recProg, recOutput, recCache, stage)
     /\ recProg' = [recProg EXCEPT !.phase = phase]
     /\ recOp' = IF phase = "error" /\ recOp.kind = "load" /\ recOp.stage \in {"downloading", "converting", "finalizing"}
                 THEN [recOp EXCEPT !.stage = "converted", !.failed = stage] ELSE NoOp
     /\ UNCHANGED <<recOutput, recCache, recRun, recSeen>>

\* Back in the load: the converted model is compiled, or its files are not there and
\* the load publishes an error of its own.
LoadAfterConversion ==
  /\ recOp.stage = "converted"
  /\ IF recOutput = "complete"
     THEN /\ recOp' = [recOp EXCEPT !.stage = "loading"]
          /\ recProg' = [recProg EXCEPT !.phase = "loading"]
          /\ UNCHANGED <<recMem, recDisk, recCount>>
     ELSE /\ SaveFailure("error", recProg.phase, recProg, recOutput, recCache, recOp.failed)
          /\ recProg' = [recProg EXCEPT !.phase = "error"]
          /\ recOp' = NoOp
  /\ UNCHANGED <<recOutput, recCache, recRun, recSeen>>

RecDelete ==
  /\ ~RecActive /\ recRun.pc = "idle"
  /\ recOutput' = "missing" /\ recProg' = NoProgress
  /\ ClearRecord
  /\ UNCHANGED <<recOp, recCache, recRun, recSeen>>

-----------------------------------------------------------------------------
(* What status shows.                                                       *)

Inferred == [rid |-> RecNextId, op |-> 0, failed |-> "conversion",
             completed |-> IF recCache THEN "download" ELSE "none", truth |-> "none"]

\* The lifecycle poll keeps an inferred record in memory, GET of the recovery and of
\* the catalogue also saves it.
InferAlways(persist) ==
  /\ ~RecActive /\ recMem.op = 0 /\ recOutput = "incomplete" /\ RecRoom(1)
  /\ recMem' = Inferred
  /\ recDisk' \in (IF persist THEN {Inferred, recDisk} ELSE {recDisk})
  /\ recCount' = [recCount EXCEPT !.ids = @ + 1, !.failed = @ \/ (persist /\ recDisk' # Inferred)]
Infer(persist) ==
  /\ ~RecActive /\ recMem = NoRecord /\ recOutput = "incomplete" /\ RecRoom(1)
  /\ recMem' = Inferred
  /\ recDisk' \in (IF persist THEN {Inferred, recDisk} ELSE {recDisk})
  /\ recCount' = [recCount EXCEPT !.ids = @ + 1, !.failed = @ \/ (persist /\ recDisk' # Inferred)]

ShowRecovery(persist) ==
  /\ ~RecActive
  /\ \/ Infer(persist)
     \/ recMem # NoRecord /\ UNCHANGED <<recMem, recDisk, recCount>>
  /\ recSeen' = recMem'.rid
  /\ UNCHANGED <<recOp, recProg, recOutput, recCache, recRun>>

-----------------------------------------------------------------------------
(* recover_model for the recovery a client was shown.                       *)

FirstStep(action) ==
  IF action # "remove_incomplete_files" /\ LoadOnly(recMem.failed, recOutput)
  THEN "start" ELSE "output"

RecoverWhateverIsThere(action) ==
  /\ recRun.pc = "idle" /\ recSeen # 0 /\ ~RecActive /\ recMem # NoRecord
  /\ action \in Offered(recMem.failed, recOutput)
  /\ recRun' = [pc |-> FirstStep(action), action |-> action, rid |-> recSeen]
  /\ UNCHANGED <<recOp, recProg, recOutput, recCache, recMem, recDisk, recSeen, recCount>>
Recover(action) ==
  /\ recRun.pc = "idle" /\ recSeen # 0 /\ recSeen = recMem.rid /\ ~RecActive
  /\ action \in Offered(recMem.failed, recOutput)
  /\ recRun' = [pc |-> FirstStep(action), action |-> action, rid |-> recSeen]
  /\ UNCHANGED <<recOp, recProg, recOutput, recCache, recMem, recDisk, recSeen, recCount>>

\* In a worker thread, with retries; another program may hold a file, then the
\* record stays.
RemoveOutput ==
  /\ recRun.pc = "output"
  /\ \/ recOutput' = recOutput /\ recOutput # "missing" /\ recRun' = NoRun
        /\ UNCHANGED <<recMem, recDisk, recCount>>
     \/ /\ recOutput' = "missing"
        /\ IF recRun.action = "remove_incomplete_files"
           THEN recRun' = NoRun /\ ClearRecord
           ELSE /\ recRun' = [recRun EXCEPT !.pc = IF recRun.action = "restart_download"
                                                   THEN "cache" ELSE "start"]
                /\ UNCHANGED <<recMem, recDisk, recCount>>
  /\ UNCHANGED <<recOp, recProg, recCache, recSeen>>

RemoveCache ==
  /\ recRun.pc = "cache"
  /\ \/ recCache /\ UNCHANGED recCache /\ recRun' = NoRun
     \/ recCache' = FALSE /\ recRun' = [recRun EXCEPT !.pc = "start"]
  /\ UNCHANGED <<recOp, recProg, recOutput, recMem, recDisk, recSeen, recCount>>

\* schedule_load or schedule_convert, then the record is forgotten.
StartRecovered ==
  /\ recRun.pc = "start" /\ RecRoom(2)
  /\ Begun(IF recOutput = "complete" THEN "load" ELSE "convert")
  /\ recMem' = NoRecord
  /\ \E unlinked \in BOOLEAN :
       /\ recDisk' = IF unlinked THEN NoRecord ELSE recDisk
       /\ recCount' = [recCount EXCEPT !.ids = @ + 1, !.failed = @ \/ (recDisk # NoRecord /\ ~unlinked)]
  /\ recRun' = NoRun
  /\ UNCHANGED <<recOutput, recCache, recSeen>>

\* The server dies and starts again: the files stay, memory is read from them.
RecCrash ==
  /\ recCount.boots < MaxRecBoots
  /\ recCount' = [recCount EXCEPT !.boots = @ + 1]
  /\ recOp' = NoOp /\ recProg' = NoProgress /\ recRun' = NoRun
  /\ recMem' = recDisk
  /\ UNCHANGED <<recOutput, recCache, recDisk, recSeen>>

-----------------------------------------------------------------------------

RecoveryNext ==
  \/ \E kind \in {"load", "convert"} : RecSchedule(kind)
  \/ ScheduleReconversion \/ Advance \/ Succeed \/ LoadAfterConversion
  \/ \E phase \in {"error", "cancelled"} : Interrupt(phase)
  \/ RecDelete \/ RecCrash
  \/ \E persist \in BOOLEAN : ShowRecovery(persist)
  \/ \E action \in RecoveryActions : Recover(action)
  \/ RemoveOutput \/ RemoveCache \/ StartRecovered

RecoverySpec == RecoveryInit /\ [][RecoveryNext]_recVars

-----------------------------------------------------------------------------
(* Properties.                                                              *)

\* An action runs for the failure its user was shown, never for a newer one, and the
\* record of that failure stays until the recovery has started.
RecoveryActsOnShownFailure == recRun.pc # "idle" => recMem.rid = recRun.rid

\* Unless the disk refused a write, a restart finds the failure that was shown before
\* it, and none that has been resolved.
SavedRecordIsCurrent ==
  ~recCount.failed =>
    /\ recMem.op # 0 => recDisk = recMem
    /\ recMem = NoRecord => recDisk = NoRecord

\* While the output is not complete, the recommended action is one of those offered.
RecommendedIsOffered ==
  recMem # NoRecord /\ recOutput # "complete" =>
    RecommendedAction(recMem.failed, recCache, recOutput) \in Offered(recMem.failed, recOutput)

\* "status polling cannot invalidate a pending user action": within one run of the
\* server only an operation replaces a recovery by another.
PollingKeepsTheRecovery ==
  [][recMem # NoRecord /\ recMem'.rid # recMem.rid /\ recCount'.boots = recCount.boots =>
       recMem' = NoRecord \/ (recProg.id # 0 /\ recMem'.op = recProg.id)]_recVars

\* The recovery shows the stage that failed.
FailedStageIsWhereItFailed ==
  recMem.truth # "none" /\ recMem.op # 0 => recMem.failed = recMem.truth

\* The failure on record is the one shown, saved and acted on.
RecoverySafe == RecoveryActsOnShownFailure /\ SavedRecordIsCurrent /\ RecommendedIsOffered
=============================================================================
