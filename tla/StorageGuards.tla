---------------------------- MODULE StorageGuards ----------------------------
(***************************************************************************)
(* Who may remove model files while what runs: the storage guards of        *)
(* app/storage_state.py around scheduling, deletion, recovery and temporary *)
(* engines, the cleanup service (app/storage_manager.py), recovery          *)
(* (app/model_recovery.py, app/model_recovery_cleanup.py) and the           *)
(* maintenance window of app/runtime_health_safety.py.                      *)
(*                                                                         *)
(* Cleanup, recovery, maintenance and scheduling are coroutines: a step is  *)
(* the code between two awaits, the removal itself runs in a worker thread. *)
(* DELETE /v1/models/{id} runs the whole deletion in a worker thread, so    *)
(* each of its looks at the shared sets is a step of its own.               *)
(***************************************************************************)
EXTENDS Integers, FiniteSets

CONSTANTS
  Models,
  Users,        \* benchmarks that borrow a temporary engine
  SharedSource  \* the models come from one Hugging Face source

ASSUME StorageAssumption == IsFiniteSet(Models) /\ IsFiniteSet(Users) /\ SharedSource \in BOOLEAN

VARIABLES
  ops,        \* each model's preparation: a subset of {"load", "convert"}
  inMemory,   \* models in manager.engines
  cleaning,   \* _cleaning_models
  global,     \* _global_cleanup
  mutating,   \* _mutating_models
  temporary,  \* _temporary_models: engines counted for each model
  borrowed,   \* each user's temporary engine
  cleaner,    \* the cleanup that holds _cleanup_lock
  deleter,    \* the deletion that runs in a worker thread
  recoverer,  \* the recovery in progress
  health      \* the maintenance batch that holds _cleanup_lock

guards == <<cleaning, global, mutating, temporary>>
lifecycle == <<ops, inMemory>>
storageVars == <<lifecycle, guards, borrowed, cleaner, deleter, recoverer, health>>

NoModel == "none"
Idle == [pc |-> "idle", m |-> NoModel]
ModelActions == {"delete_converted_model", "remove_incomplete_data"}
GlobalActions == {"clear_compiled_cache", "remove_huggingface_cache"}

StorageTypeOK ==
  /\ ops \in [Models -> SUBSET {"load", "convert"}] /\ inMemory \subseteq Models
  /\ cleaning \subseteq Models /\ global \in BOOLEAN /\ mutating \subseteq Models
  /\ temporary \in [Models -> Nat]
  /\ borrowed \in [Users -> [pc : {"idle", "open", "closed"}, m : Models \cup {NoModel}]]
  /\ cleaner \in [pc : {"idle", "checking", "removing"}, m : Models \cup {NoModel},
                  action : ModelActions \cup GlobalActions \cup {"none"}]
  /\ deleter \in [pc : {"idle", "started", "marked", "removing"}, m : Models \cup {NoModel}]
  /\ recoverer \in [pc : {"idle", "removing"}, m : Models \cup {NoModel}]
  /\ health \in [pc : {"idle", "clearing", "ready", "validating"}, m : Models \cup {NoModel},
                 todo : SUBSET Models, cancelled : BOOLEAN]

NoCleanup == [pc |-> "idle", m |-> NoModel, action |-> "none"]
NoHealth == [pc |-> "idle", m |-> NoModel, todo |-> {}, cancelled |-> FALSE]

StorageInit ==
  /\ ops = [m \in Models |-> {}] /\ inMemory \in SUBSET Models
  /\ cleaning = {} /\ global = FALSE /\ mutating = {} /\ temporary = [m \in Models |-> 0]
  /\ borrowed = [u \in Users |-> Idle]
  /\ cleaner = NoCleanup /\ deleter = Idle /\ recoverer = Idle /\ health = NoHealth

-----------------------------------------------------------------------------
(* Looks at the shared state.                                               *)

CleanupBlocks(m) == global \/ m \in cleaning
MaintenanceActive == health.pc # "idle"
Blocked(m) == MaintenanceActive \/ CleanupBlocks(m)

\* _model_activity's "preparing": a task, or a recovery that holds its lock
Preparing(m) == ops[m] # {} \/ recoverer.m = m
AllIdle == inMemory = {} /\ \A m \in Models : ~Preparing(m)

\* The conflicts of _external_mutation and of cleanup_scope
MutationConflictCleanupOnly(m) == CleanupBlocks(m) \/ temporary[m] > 0
MutationConflict(m) == CleanupBlocks(m) \/ m \in mutating \/ temporary[m] > 0
ScopeConflict(ms, everything) ==
  \/ global
  \/ \E m \in ms : m \in cleaning \cup mutating \/ temporary[m] > 0
  \/ everything /\ \E m \in Models : m \in cleaning \cup mutating \/ temporary[m] > 0

CleanupLockFree == cleaner.pc = "idle" /\ health.pc = "idle"

-----------------------------------------------------------------------------
(* The model lifecycle (in full: ModelPreparation).                         *)

Schedule(m, kind) ==
  /\ ~Blocked(m)
  /\ kind = "convert" => m \notin inMemory
  /\ ops' = [ops EXCEPT ![m] = @ \cup {kind}]
  /\ UNCHANGED <<inMemory, guards, borrowed, cleaner, deleter, recoverer, health>>

OperationEnds(m, kind) ==
  /\ kind \in ops[m]
  /\ ops' = [ops EXCEPT ![m] = @ \ {kind}]
  /\ inMemory' \in {inMemory, IF kind = "load" THEN inMemory \cup {m} ELSE inMemory}
  /\ UNCHANGED <<guards, borrowed, cleaner, deleter, recoverer, health>>

UnloadModel(m) ==
  /\ m \in inMemory /\ "load" \notin ops[m]
  /\ inMemory' = inMemory \ {m}
  /\ UNCHANGED <<ops, guards, borrowed, cleaner, deleter, recoverer, health>>

-----------------------------------------------------------------------------
(* Temporary engines: counted from before the build until their close().    *)

CountUp(m) == temporary' = [temporary EXCEPT ![m] = @ + 1]

\* Counting engines as a set would lose the second one of a model.
CountDownAll(m) == temporary' = [temporary EXCEPT ![m] = 0]
CountDown(m) == temporary' = [temporary EXCEPT ![m] = IF @ > 1 THEN @ - 1 ELSE 0]

TemporaryConflict(m) == CleanupBlocks(m) \/ m \in mutating

Borrow(u, m) ==
  /\ borrowed[u].pc = "idle"
  /\ ~MaintenanceActive /\ ~TemporaryConflict(m)
  /\ CountUp(m)
  /\ borrowed' = [borrowed EXCEPT ![u] = [pc |-> "open", m |-> m]]
  /\ UNCHANGED <<lifecycle, cleaning, global, mutating, cleaner, deleter, recoverer, health>>

\* The build failed, or the engine's owner closed it.
Return(u) ==
  /\ borrowed[u].pc = "open"
  /\ CountDown(borrowed[u].m)
  /\ borrowed' = [borrowed EXCEPT ![u].pc = "closed"]
  /\ UNCHANGED <<lifecycle, cleaning, global, mutating, cleaner, deleter, recoverer, health>>

\* A second close() does nothing; without the flag it would count down again.
ReturnsTwice(u) ==
  /\ borrowed[u].pc = "closed"
  /\ borrowed' = [borrowed EXCEPT ![u] = Idle]
  /\ temporary' = [temporary EXCEPT ![borrowed[u].m] = @ - 1]
  /\ UNCHANGED <<lifecycle, cleaning, global, mutating, cleaner, deleter, recoverer, health>>
ReturnAgain(u) ==
  /\ borrowed[u].pc = "closed"
  /\ borrowed' = [borrowed EXCEPT ![u] = Idle]
  /\ UNCHANGED <<lifecycle, guards, cleaner, deleter, recoverer, health>>

-----------------------------------------------------------------------------
(* The cleanup service.                                                     *)

Related(m, action) ==
  IF action = "clear_compiled_cache" THEN {}
  ELSE IF action = "remove_huggingface_cache" /\ SharedSource THEN Models ELSE {m}

EnterScope(m, action) ==
  /\ CleanupLockFree
  /\ ~ScopeConflict(Related(m, action), action \in GlobalActions)
  /\ global' = (action \in GlobalActions)
  /\ cleaning' = cleaning \cup Related(m, action)
  /\ cleaner' = [pc |-> "checking", m |-> m, action |-> action]
  /\ UNCHANGED <<lifecycle, mutating, temporary, borrowed, deleter, recoverer, health>>

LeaveScope ==
  /\ cleaner' = NoCleanup
  /\ cleaning' = cleaning \ Related(cleaner.m, cleaner.action)
  /\ global' = IF cleaner.action \in GlobalActions THEN FALSE ELSE global

\* _reject_model_activity or _all_lifecycle_idle
ActivityRejected ==
  CASE cleaner.action \in ModelActions -> Preparing(cleaner.m) \/ cleaner.m \in inMemory
    [] cleaner.action = "remove_huggingface_cache" ->
         \E m \in Related(cleaner.m, cleaner.action) : Preparing(m)
    [] OTHER -> ~AllIdle

StartRemoval ==
  /\ cleaner.pc = "checking" /\ ~ActivityRejected
  /\ cleaner' = [cleaner EXCEPT !.pc = "removing"]
  /\ UNCHANGED <<lifecycle, guards, borrowed, deleter, recoverer, health>>

RejectCleanup ==
  /\ cleaner.pc = "checking" /\ ActivityRejected
  /\ LeaveScope
  /\ UNCHANGED <<lifecycle, mutating, temporary, borrowed, deleter, recoverer, health>>

CleanupRemoved ==
  /\ cleaner.pc = "removing"
  /\ LeaveScope
  /\ UNCHANGED <<lifecycle, mutating, temporary, borrowed, deleter, recoverer, health>>

-----------------------------------------------------------------------------
(* DELETE of a model, in a worker thread.                                   *)

DeleteStarts(m) ==
  /\ deleter.pc = "idle" /\ ~MaintenanceActive
  /\ deleter' = [pc |-> "started", m |-> m]
  /\ UNCHANGED <<lifecycle, guards, borrowed, cleaner, recoverer, health>>

\* _external_mutation without block_lifecycle
DeleteMarksOnly ==
  /\ deleter.pc = "started"
  /\ IF MutationConflict(deleter.m)
     THEN deleter' = Idle /\ UNCHANGED guards
     ELSE /\ deleter' = [deleter EXCEPT !.pc = "marked"]
          /\ mutating' = mutating \cup {deleter.m}
          /\ UNCHANGED <<cleaning, global, temporary>>
  /\ UNCHANGED <<lifecycle, borrowed, cleaner, recoverer, health>>

\* Marked before the activity is looked at, and the lifecycle is blocked with it.
DeleteMarks ==
  /\ deleter.pc = "started"
  /\ IF MutationConflict(deleter.m)
     THEN deleter' = Idle /\ UNCHANGED guards
     ELSE /\ deleter' = [deleter EXCEPT !.pc = "marked"]
          /\ mutating' = mutating \cup {deleter.m}
          /\ cleaning' = cleaning \cup {deleter.m}
          /\ UNCHANGED <<global, temporary>>
  /\ UNCHANGED <<lifecycle, borrowed, cleaner, recoverer, health>>

Unmark == /\ mutating' = mutating \ {deleter.m} /\ cleaning' = cleaning \ {deleter.m}
          /\ UNCHANGED <<global, temporary>>

DeleteLooks ==
  /\ deleter.pc = "marked"
  /\ IF deleter.m \in inMemory \/ ops[deleter.m] # {}
     THEN deleter' = Idle /\ Unmark
     ELSE deleter' = [deleter EXCEPT !.pc = "removing"] /\ UNCHANGED guards
  /\ UNCHANGED <<lifecycle, borrowed, cleaner, recoverer, health>>

DeleteRemoved ==
  /\ deleter.pc = "removing"
  /\ deleter' = Idle /\ Unmark
  /\ UNCHANGED <<lifecycle, borrowed, cleaner, recoverer, health>>

-----------------------------------------------------------------------------
(* Recovery: removal in a thread, then a conversion unless only removal was *)
(* asked for.                                                               *)

RecoverBegins(m) ==
  /\ recoverer.pc = "idle" /\ ~MaintenanceActive /\ ~MutationConflict(m)
  /\ ~Preparing(m) /\ m \notin inMemory
  /\ recoverer' = [pc |-> "removing", m |-> m]
  /\ mutating' = mutating \cup {m}
  /\ UNCHANGED <<lifecycle, cleaning, global, temporary, borrowed, cleaner, deleter, health>>

RecoverEnds(convert) ==
  /\ recoverer.pc = "removing"
  /\ recoverer' = Idle /\ mutating' = mutating \ {recoverer.m}
  /\ ops' = IF convert /\ ~Blocked(recoverer.m) /\ recoverer.m \notin inMemory
            THEN [ops EXCEPT ![recoverer.m] = @ \cup {"convert"}] ELSE ops
  /\ UNCHANGED <<inMemory, cleaning, global, temporary, borrowed, cleaner, deleter, health>>

-----------------------------------------------------------------------------
(* Runtime-health maintenance: clear the compiled cache at most once, then  *)
(* load each model temporarily, all inside one window.                      *)

StorageActive == global \/ cleaning # {} \/ mutating # {} \/ \E m \in Models : temporary[m] > 0

\* The window opens without the look at storage and temporary engines.
MaintenanceBeginsBlindly(ms, clear) ==
  /\ CleanupLockFree /\ ms # {} /\ AllIdle
  /\ health' = [NoHealth EXCEPT !.pc = IF clear THEN "clearing" ELSE "ready", !.todo = ms]
  /\ UNCHANGED <<lifecycle, guards, borrowed, cleaner, deleter, recoverer>>

MaintenanceBegins(ms, clear) ==
  /\ CleanupLockFree /\ ms # {} /\ AllIdle /\ ~StorageActive
  /\ health' = [NoHealth EXCEPT !.pc = IF clear THEN "clearing" ELSE "ready", !.todo = ms]
  /\ UNCHANGED <<lifecycle, guards, borrowed, cleaner, deleter, recoverer>>

CacheCleared ==
  /\ health.pc = "clearing"
  /\ health' = [health EXCEPT !.pc = "ready"]
  /\ UNCHANGED <<lifecycle, guards, borrowed, cleaner, deleter, recoverer>>

Validate(m) ==
  /\ health.pc = "ready" /\ m \in health.todo
  /\ IF ~AllIdle \/ TemporaryConflict(m)
     THEN health' = [health EXCEPT !.todo = @ \ {m}] /\ UNCHANGED temporary
     ELSE health' = [health EXCEPT !.pc = "validating", !.m = m] /\ CountUp(m)
  /\ UNCHANGED <<lifecycle, cleaning, global, mutating, borrowed, cleaner, deleter, recoverer>>

CancelAbandons ==
  /\ health.pc = "validating" /\ ~health.cancelled
  /\ health' = NoHealth
  /\ UNCHANGED <<lifecycle, guards, borrowed, cleaner, deleter, recoverer>>

\* The build is not abandoned when its request is cancelled.
CancelMaintenance ==
  /\ health.pc = "validating" /\ ~health.cancelled
  /\ health' = [health EXCEPT !.cancelled = TRUE]
  /\ UNCHANGED <<lifecycle, guards, borrowed, cleaner, deleter, recoverer>>
Validated ==
  /\ health.pc = "validating"
  /\ CountDown(health.m)
  /\ health' = IF health.cancelled THEN NoHealth
               ELSE [health EXCEPT !.pc = "ready", !.m = NoModel, !.todo = @ \ {health.m}]
  /\ UNCHANGED <<lifecycle, cleaning, global, mutating, borrowed, cleaner, deleter, recoverer>>

MaintenanceEnds ==
  /\ health.pc = "ready" /\ health.todo = {}
  /\ health' = NoHealth
  /\ UNCHANGED <<lifecycle, guards, borrowed, cleaner, deleter, recoverer>>

-----------------------------------------------------------------------------

StorageNext ==
  \/ \E m \in Models, kind \in {"load", "convert"} : Schedule(m, kind) \/ OperationEnds(m, kind)
  \/ \E m \in Models :
       UnloadModel(m) \/ DeleteStarts(m) \/ RecoverBegins(m) \/ Validate(m)
  \/ \E u \in Users : Return(u) \/ ReturnAgain(u) \/ \E m \in Models : Borrow(u, m)
  \/ \E m \in Models, action \in ModelActions \cup GlobalActions : EnterScope(m, action)
  \/ StartRemoval \/ RejectCleanup \/ CleanupRemoved
  \/ DeleteMarks \/ DeleteLooks \/ DeleteRemoved
  \/ \E convert \in BOOLEAN : RecoverEnds(convert)
  \/ \E ms \in SUBSET Models, clear \in BOOLEAN : MaintenanceBegins(ms, clear)
  \/ CacheCleared \/ CancelMaintenance \/ Validated \/ MaintenanceEnds

StorageSpec == StorageInit /\ [][StorageNext]_storageVars

-----------------------------------------------------------------------------
(* Properties.                                                              *)

\* The models whose files an actor is removing
CleanerRemoves == IF cleaner.pc # "removing" THEN {}
                  ELSE IF cleaner.action = "clear_compiled_cache" THEN Models
                  ELSE Related(cleaner.m, cleaner.action)
DeleterRemoves == IF deleter.pc = "removing" THEN {deleter.m} ELSE {}
RecovererRemoves == IF recoverer.pc = "removing" THEN {recoverer.m} ELSE {}

\* Cleanup, deletion and recovery never remove files of one model at a time.
OneRemoverPerModel ==
  /\ CleanerRemoves \cap (DeleterRemoves \cup RecovererRemoves) = {}
  /\ DeleterRemoves \cap RecovererRemoves = {}

\* A temporary engine's files stay until it is closed, whoever borrowed it.
TemporaryEngineKeepsItsFiles ==
  \A m \in CleanerRemoves \cup DeleterRemoves \cup RecovererRemoves :
    /\ \A u \in Users : borrowed[u].pc = "open" => borrowed[u].m # m
    /\ health.pc = "validating" => health.m # m

\* The count of temporary engines is the number of those that are open.
EveryTemporaryEngineCounted ==
  \A m \in Models :
    temporary[m] = Cardinality({u \in Users : borrowed[u] = [pc |-> "open", m |-> m]})
                     + (IF health.pc = "validating" /\ health.m = m THEN 1 ELSE 0)

\* What cleanup or deletion looked at before removing files stays true meanwhile.
RemovalUndisturbed ==
  /\ \A m \in CleanerRemoves \cup DeleterRemoves : ops[m] = {}
  /\ cleaner.action # "remove_huggingface_cache" => CleanerRemoves \cap inMemory = {}
  /\ DeleterRemoves \cap inMemory = {}

\* "maintenance batches exclude concurrent lifecycle ... mutations for their full
\* duration": nothing else prepares, loads, recovers, cleans or borrows.
MaintenanceIsExclusive ==
  MaintenanceActive =>
    /\ AllIdle /\ cleaner.pc = "idle" /\ recoverer.pc = "idle"
    /\ \A u \in Users : borrowed[u].pc # "open"

\* Recovery removes a model's files while nothing prepares the model.
RecoveryUndisturbed == \A m \in RecovererRemoves : ops[m] = {}

\* Deletion, cleanup, recovery, maintenance and temporary engines keep out of each
\* other's way.
StorageSafe ==
  /\ OneRemoverPerModel /\ RemovalUndisturbed /\ MaintenanceIsExclusive
  /\ TemporaryEngineKeepsItsFiles /\ EveryTemporaryEngineCounted
=============================================================================
