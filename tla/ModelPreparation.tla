-------------------------- MODULE ModelPreparation --------------------------
(***************************************************************************)
(* Preparing one model: its load and conversion tasks, what the status API *)
(* shows of them, the load that waits for a conversion, cancellation, the  *)
(* watchdog and shutdown, as composed by app/config.py from                *)
(* app/model_manager_core.py, app/model_manager.py, app/lifecycle_safety.py,*)
(* app/model_load_target.py, app/structured_progress.py,                   *)
(* app/model_cancellation.py, app/model_preparation_timeouts.py and        *)
(* app/desktop_shutdown_safety.py.                                         *)
(*                                                                         *)
(* An action is the code a task runs between two awaits.  A task has an    *)
(* outer coroutine (the watchdog wrapper) and an inner one (the work): the *)
(* inner one removes the task from the manager's tables when it ends, the  *)
(* outer one ends later ("settling"), its callbacks run later still        *)
(* ("finished").  Left out: devices and retargeting (EngineLifecycle),     *)
(* percentages and messages, and which of several files are on disk        *)
(* (ModelOutputTransaction).                                               *)
(***************************************************************************)
EXTENDS Naturals, FiniteSets

CONSTANTS
  MaxTasks,     \* bound: load and conversion tasks started
  MaxIds,       \* bound: operation ids handed out
  AutoConvert,  \* settings.auto_convert: a load converts a missing model
  Overlapping   \* a client posts a conversion while a load is active, which
                \* can_convert does not offer

ASSUME PreparationAssumption ==
  /\ MaxTasks \in Nat \ {0} /\ MaxIds \in Nat
  /\ AutoConvert \in BOOLEAN /\ Overlapping \in BOOLEAN

Tasks == 1..MaxTasks
None == 0

VARIABLES
  task,      \* each task: what it is, where it is, and what its converter does
  loadTask,  \* self.load_tasks[model]
  convTask,  \* self.convert_tasks[model]
  lock,      \* the task that holds self._convert_lock
  ui,        \* status, progress phase, operation id, heartbeat, timeout record
  follow,    \* _post_conversion_loads has an entry
  callback,  \* _post_conversion_callbacks: the task whose end starts the load
  complete,  \* registry.is_downloaded
  loaded,    \* model_id in self.engines
  busy,      \* a generation is running on the engine
  cancel,    \* the request inside cancel_operation (one at a time: its lock)
  down       \* progress of shutdown()

registered == <<loadTask, convTask>>
pending == <<follow, callback>>
engine == <<loaded, busy>>
vars == <<task, registered, lock, ui, pending, complete, engine, cancel, down>>

Converting == {"access", "convlock", "converting", "stopping", "tail"}
Loading == {"loadlock", "converted", "building", "draining"}
Over == {"settling", "finished", "done"}
Terminal == {"ready", "cancelled", "error"}
Busy == {"queued", "loading", "queued_convert", "converting"}
ConversionPhases == {"downloading", "converting", "finalizing"}

NoTask == [kind |-> "none", pc |-> "idle", fmt |-> FALSE, born |-> 0, proc |-> FALSE,
           line |-> FALSE, stop |-> {}, cancelled |-> FALSE]

PrepTypeOK ==
  /\ task \in [Tasks -> [kind : {"none", "load", "convert"},
                         pc : {"idle", "queued"} \cup Converting \cup Loading \cup Over,
                         fmt : BOOLEAN, born : Nat, proc : BOOLEAN, line : BOOLEAN,
                         stop : SUBSET {"request", "watchdog"}, cancelled : BOOLEAN]]
  /\ loadTask \in 0..MaxTasks /\ convTask \in 0..MaxTasks /\ lock \in 0..MaxTasks
  /\ ui \in [status : {"none", "cancelled", "error"} \cup Busy,
             phase : {"idle", "queued", "loading"} \cup ConversionPhases \cup Terminal,
             id : Nat, ids : Nat,
             beat : {"none", "load", "convert"}, timedOut : 0..MaxTasks]
  /\ follow \in BOOLEAN /\ callback \in 0..MaxTasks
  /\ complete \in BOOLEAN /\ loaded \in BOOLEAN /\ busy \in BOOLEAN
  /\ cancel \in [id : Nat, t : 0..MaxTasks]
  /\ down \in [pc : {"up", "loads", "converts", "drain", "off"}, t : 0..MaxTasks]

PrepInit ==
  /\ task = [t \in Tasks |-> NoTask]
  /\ loadTask = None /\ convTask = None /\ lock = None
  /\ ui = [status |-> "none", phase |-> "idle", id |-> 0, ids |-> 0,
           beat |-> "none", timedOut |-> None]
  /\ follow = FALSE /\ callback = None
  /\ complete \in BOOLEAN /\ loaded = FALSE /\ busy = FALSE
  /\ cancel = [id |-> 0, t |-> None]
  /\ down = [pc |-> "up", t |-> None]

-----------------------------------------------------------------------------
(* What is published.  A timeout record blocks every write until the next   *)
(* operation clears it.                                                     *)

\* the task exists and is not task.done()
Live(t) == t # None /\ task[t].pc \notin {"finished", "done"}
ActiveOperation == Live(loadTask) \/ Live(convTask)

SetStatusAnyway(u, s) == [u EXCEPT !.status = s]
SetStatus(u, s) == IF u.timedOut # None THEN u ELSE [u EXCEPT !.status = s]

SetPhase(u, p) ==
  IF u.timedOut # None /\ (p # "ready" \/ ActiveOperation) THEN u
  ELSE [u EXCEPT !.phase = p, !.timedOut = None,
                 !.id = IF @ = 0 THEN u.ids + 1 ELSE @,
                 !.ids = IF u.id = 0 THEN @ + 1 ELSE @,
                 !.beat = CASE p \in ConversionPhases -> "convert"
                            [] p \in {"queued", "loading"} -> "load"
                            [] u.timedOut # None -> "none"
                            [] OTHER -> @]

PublishSwapped(u, s, p) == SetPhase(SetStatus(u, p), s)
Publish(u, s, p) == SetPhase(SetStatus(u, s), p)

ClearProgress(u) ==
  IF u.timedOut # None /\ ActiveOperation THEN u
  ELSE [u EXCEPT !.phase = "idle", !.id = 0, !.beat = "none", !.timedOut = None]

\* The bounds leave a task for a load that waits for a conversion.
Room(n) ==
  /\ Cardinality({t \in Tasks : task[t].pc = "idle"}) >= n + (IF follow THEN 1 ELSE 0)
  /\ ui.ids < MaxIds

-----------------------------------------------------------------------------
(* Scheduling.                                                              *)

\* The manager refuses new work once shutdown began.
AcceptingAlways == TRUE
Accepting == down.pc = "up"

NewTask(ts, t, k, f, u) ==
  /\ ts[t].pc = "idle" /\ \A s \in 1..(t-1) : ts[s].pc # "idle"
  /\ task' = [ts EXCEPT ![t] = [NoTask EXCEPT !.kind = k, !.pc = "queued", !.fmt = f, !.born = u.id]]

\* _remember_post_conversion_load
RememberWithoutCallback(t) == follow' = TRUE /\ UNCHANGED callback
Remember(t) == follow' = TRUE /\ callback' = t

\* coordinated_schedule_load over device_authoritative_schedule_load; ts is the
\* table of tasks it is called with, f and c the follow-up known by then.
ScheduleLoad(ts, f, c) ==
  \/ /\ Live(convTask)
     /\ Remember(convTask)
     /\ ui' = SetPhase(ui, IF ui.phase \in ConversionPhases \cup {"queued"}
                           THEN ui.phase ELSE "converting")
     /\ task' = ts /\ UNCHANGED loadTask
  \/ /\ ~Live(convTask) /\ loaded
     /\ ui' = SetStatus(SetPhase(ui, "ready"), "none")
     /\ task' = ts /\ follow' = f /\ callback' = c /\ UNCHANGED loadTask
  \/ /\ ~Live(convTask) /\ ~loaded /\ Live(loadTask)
     /\ task' = ts /\ follow' = f /\ callback' = c /\ UNCHANGED <<loadTask, ui>>
  \/ /\ ~Live(convTask) /\ ~loaded /\ ~Live(loadTask)
     /\ LET u == Publish(ClearProgress(ui), "queued", "queued")
        IN \E t \in Tasks : NewTask(ts, t, "load", FALSE, u) /\ loadTask' = t /\ ui' = u
     /\ follow' = f /\ callback' = c

RequestLoad ==
  /\ Accepting /\ Room(IF follow /\ Live(convTask) THEN 0 ELSE 1) /\ ScheduleLoad(task, follow, callback)
  /\ UNCHANGED <<convTask, lock, complete, engine, cancel, down>>

\* coordinated_schedule_convert over the core's schedule_convert; fmt says that a
\* weight format was asked for, load_after that the model is wanted in memory.
RequestConvert(fmt, load_after) ==
  /\ Accepting /\ Room(IF load_after THEN 2 ELSE 1) /\ (Overlapping \/ ~Live(loadTask))
  /\ \/ /\ Live(convTask) /\ load_after
        /\ Remember(convTask)
        /\ UNCHANGED <<task, registered, ui>>
     \/ /\ ~Live(convTask) /\ ~loaded /\ (fmt \/ ~complete)
        /\ LET u == Publish(ClearProgress(ui), "queued_convert", "queued")
           IN \E t \in Tasks :
                /\ NewTask(task, t, "convert", fmt, u) /\ convTask' = t /\ ui' = u
                /\ IF load_after THEN Remember(t) ELSE UNCHANGED pending
        /\ UNCHANGED loadTask
     \/ /\ ~Live(convTask) /\ ~loaded /\ ~fmt /\ complete /\ ~load_after
        /\ ui' = SetPhase(ClearProgress(ui), "ready")
        /\ UNCHANGED <<task, registered, pending>>
     \/ /\ ~Live(convTask) /\ loaded   \* refused, but the progress is gone
        /\ ui' = ClearProgress(ui)
        /\ UNCHANGED <<task, registered, pending>>
  /\ UNCHANGED <<lock, complete, engine, cancel, down>>

\* guarded_delete, and without its look at the tasks
DeleteByStatus ==
  /\ ~loaded /\ ui.status \notin Busy
  /\ complete' = FALSE
  /\ ui' = ClearProgress(SetStatus(ui, "none"))
  /\ loadTask' = None /\ convTask' = None
  /\ follow' = FALSE /\ callback' = None
  /\ UNCHANGED <<task, lock, engine, cancel, down>>
Delete ==
  /\ ~loaded /\ ui.status \notin Busy /\ ~ActiveOperation
  /\ complete' = FALSE
  /\ ui' = ClearProgress(SetStatus(ui, "none"))
  /\ loadTask' = None /\ convTask' = None
  /\ follow' = FALSE /\ callback' = None
  /\ UNCHANGED <<task, lock, engine, cancel, down>>

Unload ==
  /\ loaded /\ ~busy /\ ~Live(loadTask)
  /\ loaded' = FALSE
  /\ ui' = ClearProgress(SetStatus(ui, "none"))
  /\ UNCHANGED <<task, registered, lock, pending, complete, busy, cancel, down>>

\* A generation on the engine; nothing says how long it takes.
StartGeneration ==
  /\ loaded /\ ~busy /\ busy' = TRUE
  /\ UNCHANGED <<task, registered, lock, ui, pending, complete, loaded, cancel, down>>

EndGeneration ==
  /\ busy /\ busy' = FALSE
  /\ UNCHANGED <<task, registered, lock, ui, pending, complete, loaded, cancel, down>>

-----------------------------------------------------------------------------
(* The conversion, in a task of its own or inside a load.                   *)

IsLoad(t) == task[t].kind = "load"
Stopped(t) == task[t].stop # {}

\* The inner coroutine of a conversion ends: the core's finally, then the rest
\* of a load or the outer coroutine.  c says that CancelledError goes on.
AfterConversion(t, c) ==
  task' = [task EXCEPT ![t].pc = IF IsLoad(t) /\ ~c THEN "converted" ELSE "settling",
                       ![t].cancelled = c, ![t].proc = FALSE,
                       ![t].stop = IF c THEN @ ELSE @ \ {"watchdog"}]

\* Only the watchdog's own cancellation is swallowed by its wrapper.
Reraised(t) == "request" \in task[t].stop

ForgetConversion == convTask' = None

Start(t) ==
  /\ task[t].pc = "queued" /\ ~Stopped(t)
  /\ IF IsLoad(t)
     THEN IF complete \/ AutoConvert
          THEN /\ task' = [task EXCEPT ![t].pc = "loadlock"]
               /\ ui' = Publish(ui, "loading", "loading")
               /\ UNCHANGED loadTask
          ELSE /\ task' = [task EXCEPT ![t].pc = "settling"]
               /\ ui' = Publish(ui, "error", "error")
               /\ loadTask' = None
     ELSE task' = [task EXCEPT ![t].pc = "access"] /\ UNCHANGED <<ui, loadTask>>
  /\ UNCHANGED <<convTask, lock, pending, complete, engine, cancel, down>>

\* The access check and the look at the NPU run in threads before the core starts.
AccessGranted(t) ==
  /\ task[t].pc = "access" /\ ~Stopped(t)
  /\ task' = [task EXCEPT ![t].pc = "convlock"]
  /\ UNCHANGED <<registered, lock, ui, pending, complete, engine, cancel, down>>

\* Access is refused, or the load profile of older files cannot be discarded: the
\* latter leaves the ended task in the table.
AccessDenied(t) ==
  /\ task[t].pc = "access" /\ ~Stopped(t)
  /\ ui' = Publish(ui, "error", "error")
  /\ convTask' \in {None, convTask} /\ AfterConversion(t, FALSE)
  /\ UNCHANGED <<loadTask, lock, pending, complete, engine, cancel, down>>

\* The core takes _convert_lock; a model converted meanwhile is not converted again.
BeginConversion(t) ==
  /\ task[t].pc = "convlock" /\ ~Stopped(t) /\ lock = None
  /\ IF complete /\ ~task[t].fmt
     THEN /\ ui' = SetStatus(SetPhase(ui, "ready"), "none")
          /\ ForgetConversion
          /\ task' = [task EXCEPT ![t].pc = "tail"]
          /\ UNCHANGED lock
     ELSE /\ lock' = t
          /\ ui' = Publish(ui, "converting", "downloading")
          /\ task' = [task EXCEPT ![t].pc = "converting", ![t].proc = TRUE, ![t].line = TRUE]
          /\ UNCHANGED convTask
  /\ UNCHANGED <<loadTask, pending, complete, engine, cancel, down>>

\* A reader publishes a line of the converter, unless a terminal state is shown.
ReadLineUnchecked(t) ==
  /\ task[t].line
  /\ \E more \in BOOLEAN : task' = [task EXCEPT ![t].line = more /\ task[t].proc]
  /\ \E p \in ConversionPhases : ui' = SetPhase(ui, p)
  /\ UNCHANGED <<registered, lock, pending, complete, engine, cancel, down>>
ReadLine(t) ==
  /\ task[t].line
  /\ \E more \in BOOLEAN : task' = [task EXCEPT ![t].line = more /\ task[t].proc]
  /\ IF {ui.status, ui.phase} \cap {"cancelled", "error"} = {}
     THEN \E p \in ConversionPhases : ui' = SetPhase(ui, p)
     ELSE UNCHANGED ui
  /\ UNCHANGED <<registered, lock, pending, complete, engine, cancel, down>>

\* The converter ended well and both readers are through.  The core forgets its
\* task, and in the same step its subclass looks at the outcome.
ConversionSucceeds(t) ==
  /\ task[t].pc = "converting" /\ ~Stopped(t) /\ ~task[t].line
  /\ \E files \in {TRUE, complete} :
       LET u == SetStatus(SetPhase(ui, "ready"), "none")
       IN /\ complete' = files
          /\ ui' = IF u.status = "error" \/ files THEN u ELSE Publish(u, "error", "error")
          /\ IF u.status = "error" \/ ~files
             THEN AfterConversion(t, FALSE)
             ELSE task' = [task EXCEPT ![t].pc = "tail", ![t].proc = FALSE]
  /\ lock' = None /\ ForgetConversion
  /\ UNCHANGED <<loadTask, pending, engine, cancel, down>>

ConversionFails(t) ==
  /\ task[t].pc = "converting" /\ ~Stopped(t) /\ ~task[t].line
  /\ ui' = Publish(ui, "error", "error")
  /\ lock' = None /\ ForgetConversion /\ AfterConversion(t, FALSE)
  /\ UNCHANGED <<loadTask, pending, complete, engine, cancel, down>>

\* The metadata is on disk, or the catalogue could not be updated.
RecordProfile(t) ==
  /\ task[t].pc = "tail" /\ ~Stopped(t)
  /\ ui' \in {ui, Publish(ui, "error", "error")}
  /\ AfterConversion(t, FALSE)
  /\ UNCHANGED <<registered, lock, pending, complete, engine, cancel, down>>

-----------------------------------------------------------------------------
(* The load.                                                                *)

LoadTurn(t) ==
  /\ task[t].pc = "loadlock" /\ ~Stopped(t)
  /\ IF complete
     THEN task' = [task EXCEPT ![t].pc = "building"] /\ ui' = Publish(ui, "loading", "loading")
     ELSE task' = [task EXCEPT ![t].pc = "access"] /\ ui' = Publish(ui, "converting", "downloading")
  /\ UNCHANGED <<registered, lock, pending, complete, engine, cancel, down>>

\* Another model's preparation holds _load_lock for longer than a poll.
LoadQueued(t) ==
  /\ task[t].pc = "loadlock" /\ ~Stopped(t)
  /\ ui' = Publish(ui, "queued", "queued")
  /\ UNCHANGED <<task, registered, lock, pending, complete, engine, cancel, down>>

\* A cancellation that arrives here is swallowed with the inner watcher's end.
LoadConverted(t) ==
  /\ task[t].pc = "converted"
  /\ IF complete
     THEN /\ task' = [task EXCEPT ![t].pc = "building", ![t].stop = {}]
          /\ ui' = Publish(ui, "loading", "loading")
          /\ UNCHANGED loadTask
     ELSE /\ task' = [task EXCEPT ![t].pc = "settling", ![t].stop = {}]
          /\ ui' = Publish(ui, "error", "error")
          /\ loadTask' = None
  /\ UNCHANGED <<convTask, lock, pending, complete, engine, cancel, down>>

BuildEnds(t) ==
  /\ task[t].pc = "building" /\ ~Stopped(t)
  /\ task' = [task EXCEPT ![t].pc = "settling"]
  /\ loadTask' = None
  /\ \/ loaded' = TRUE /\ ui' = SetStatus(SetPhase(ui, "ready"), "none")
     \/ loaded' = FALSE /\ ui' = Publish(ui, "error", "error")
  /\ UNCHANGED <<convTask, lock, pending, complete, busy, cancel, down>>

-----------------------------------------------------------------------------
(* Cancellation reaches a task where it waits.                              *)

\* Before the first step the coroutine never runs; before the core or after it
\* nothing is published.
StopQuietly(t) ==
  /\ Stopped(t) /\ task[t].pc \in {"queued", "access", "tail", "loadlock"}
  /\ IF task[t].pc = "queued"
     THEN task' = [task EXCEPT ![t].pc = "finished", ![t].cancelled = TRUE] /\ UNCHANGED loadTask
     ELSE IF task[t].pc = "loadlock"
     THEN task' = [task EXCEPT ![t].pc = "settling", ![t].cancelled = Reraised(t)]
          /\ loadTask' = None
     ELSE AfterConversion(t, Reraised(t))
          /\ loadTask' = IF Reraised(t) /\ IsLoad(t) THEN None ELSE loadTask
  /\ UNCHANGED <<convTask, lock, ui, pending, complete, engine, cancel, down>>

KillAndRelease(t) ==
  /\ Stopped(t) /\ task[t].pc = "converting"
  /\ task' = [task EXCEPT ![t].pc = "stopping"] /\ lock' = None
  /\ UNCHANGED <<registered, ui, pending, complete, engine, cancel, down>>
KillConverter(t) ==
  /\ Stopped(t) /\ task[t].pc = "converting"
  /\ task' = [task EXCEPT ![t].pc = "stopping"]
  /\ UNCHANGED <<registered, lock, ui, pending, complete, engine, cancel, down>>

\* The core's except CancelledError, once the process is gone.
StopConversion(t) ==
  /\ Stopped(t) /\ task[t].pc \in {"convlock", "stopping"}
  /\ ui' = Publish(ui, "cancelled", "cancelled")
  /\ lock' = IF lock = t THEN None ELSE lock
  /\ ForgetConversion /\ AfterConversion(t, Reraised(t))
  /\ loadTask' = IF Reraised(t) /\ IsLoad(t) THEN None ELSE loadTask
  /\ UNCHANGED <<pending, complete, engine, cancel, down>>

StopAndForget(t) ==
  /\ Stopped(t) /\ task[t].pc = "building"
  /\ task' = [task EXCEPT ![t].pc = "draining"] /\ loadTask' = None
  /\ ui' = SetPhase(ui, "loading")
  /\ UNCHANGED <<convTask, lock, pending, complete, engine, cancel, down>>
StopBuild(t) ==
  /\ Stopped(t) /\ task[t].pc = "building"
  /\ task' = [task EXCEPT ![t].pc = "draining"]
  /\ ui' = SetPhase(ui, "loading")
  /\ UNCHANGED <<registered, lock, pending, complete, engine, cancel, down>>

\* The native worker is done and its engine closed unpublished, or a second
\* cancellation ends the wait for it (EngineLifecycle).
DrainEnds(t) ==
  /\ task[t].pc = "draining"
  /\ task' = [task EXCEPT ![t].pc = "settling", ![t].cancelled = Reraised(t)]
  /\ loadTask' = None
  /\ UNCHANGED <<convTask, lock, ui, pending, complete, engine, cancel, down>>

\* The outer coroutine has ended its watcher.
Settle(t) ==
  /\ task[t].pc = "settling"
  /\ task' = [task EXCEPT ![t].pc = "finished"]
  /\ UNCHANGED <<registered, lock, ui, pending, complete, engine, cancel, down>>

\* resume_after_conversion
RunCallbacks(t) ==
  /\ task[t].pc = "finished"
  /\ LET ts == [task EXCEPT ![t].pc = "done", ![t].fmt = FALSE, ![t].stop = {}]
         wanted == follow /\ down.pc = "up" /\ ~task[t].cancelled /\ ui.status # "error"
     IN IF callback = t /\ wanted
        THEN ScheduleLoad(ts, FALSE, None)
        ELSE /\ task' = ts /\ UNCHANGED <<loadTask, ui>>
             /\ IF callback = t THEN follow' = FALSE /\ callback' = None ELSE UNCHANGED pending
  /\ UNCHANGED <<convTask, lock, complete, engine, cancel, down>>

-----------------------------------------------------------------------------
(* The watchdog: no progress, or a stage over its total time.  Time is left *)
(* out: a task whose stage it watches may run into its limit at any step.   *)

WatchdogFires(t) ==
  /\ task[t].pc \in Converting \cup {"loadlock", "building", "draining"}
  /\ ui.timedOut = None /\ ui.id = task[t].born
  /\ ui.beat = IF task[t].pc \in Converting THEN "convert" ELSE "load"
  /\ ui' = [ui EXCEPT !.status = "error", !.phase = "error", !.timedOut = t]
  /\ task' = [task EXCEPT ![t].stop = @ \cup {"watchdog"}]
  /\ UNCHANGED <<registered, lock, pending, complete, engine, cancel, down>>

-----------------------------------------------------------------------------
(* cancel_operation for an operation id a client has seen.                  *)

Cancellable ==
  \/ Live(convTask)
  \/ Live(loadTask) /\ ui.phase \in ConversionPhases \cup {"queued"}

CancelAny(id) ==
  /\ cancel.t = None
  /\ id # 0 /\ ui.phase \notin Terminal /\ Cancellable
  /\ LET t == IF Live(convTask) THEN convTask ELSE loadTask
     IN /\ task' = [task EXCEPT ![t].stop = @ \cup {"request"}]
        /\ cancel' = [id |-> id, t |-> t]
  /\ UNCHANGED <<registered, lock, ui, pending, complete, engine, down>>
CancelBegin(id) ==
  /\ cancel.t = None
  /\ id # 0 /\ id = ui.id /\ ui.phase \notin Terminal /\ Cancellable
  /\ LET t == IF Live(convTask) THEN convTask ELSE loadTask
     IN /\ task' = [task EXCEPT ![t].stop = @ \cup {"request"}]
        /\ cancel' = [id |-> id, t |-> t]
  /\ UNCHANGED <<registered, lock, ui, pending, complete, engine, down>>

CancelWithoutWaiting ==
  /\ cancel.t # None
  /\ follow' = FALSE /\ callback' = None
  /\ ui' = IF ui.id = cancel.id /\ ui.phase \notin Terminal
           THEN Publish(ui, "cancelled", "cancelled") ELSE ui
  /\ cancel' = [id |-> 0, t |-> None]
  /\ UNCHANGED <<task, registered, lock, complete, engine, down>>
CancelEnd ==
  /\ cancel.t # None /\ task[cancel.t].pc = "done"
  /\ follow' = FALSE /\ callback' = None
  /\ ui' = IF ui.id = cancel.id /\ ui.phase \notin Terminal
           THEN Publish(ui, "cancelled", "cancelled") ELSE ui
  /\ cancel' = [id |-> 0, t |-> None]
  /\ UNCHANGED <<task, registered, lock, complete, engine, down>>

-----------------------------------------------------------------------------
(* shutdown(): cancel and await the load, then the conversion, wait for the *)
(* generation at most ten seconds, and unload.                              *)

StopAndAwait(t) ==
  task' = IF Live(t) THEN [task EXCEPT ![t].stop = @ \cup {"request"}] ELSE task

ShutdownBegins ==
  /\ down.pc = "up"
  /\ down' = [pc |-> "loads", t |-> IF Live(loadTask) THEN loadTask ELSE None]
  /\ StopAndAwait(loadTask)
  /\ follow' = FALSE
  /\ UNCHANGED <<registered, lock, ui, callback, complete, engine, cancel>>

Awaited == ~Live(down.t)

ShutdownLoadsDone ==
  /\ down.pc = "loads" /\ Awaited
  /\ down' = [pc |-> "converts", t |-> IF Live(convTask) THEN convTask ELSE None]
  /\ StopAndAwait(convTask)
  /\ UNCHANGED <<registered, lock, ui, pending, complete, engine, cancel>>

ShutdownConvertsDone ==
  /\ down.pc = "converts" /\ Awaited
  /\ down' = [pc |-> "drain", t |-> None]
  /\ UNCHANGED <<task, registered, lock, ui, pending, complete, engine, cancel>>

\* Drained, or ten seconds are over: the engines go either way.
ShutdownWaitsForever ==
  /\ down.pc = "drain" /\ ~busy
  /\ down' = [down EXCEPT !.pc = "off"]
  /\ loaded' = FALSE /\ callback' = None
  /\ loadTask' = None /\ convTask' = None
  /\ ui' = [ui EXCEPT !.status = "none", !.phase = "idle"]
  /\ UNCHANGED <<task, lock, follow, complete, busy, cancel>>
ShutdownEnds ==
  /\ down.pc = "drain"
  /\ down' = [down EXCEPT !.pc = "off"]
  /\ loaded' = FALSE /\ callback' = None
  /\ loadTask' = None /\ convTask' = None
  /\ ui' = [ui EXCEPT !.status = "none", !.phase = "idle"]
  /\ UNCHANGED <<task, lock, follow, complete, busy, cancel>>

-----------------------------------------------------------------------------

\* The steps a running task takes on its own.
TaskStep(t) ==
  \/ Start(t) \/ AccessGranted(t) \/ AccessDenied(t) \/ BeginConversion(t)
  \/ RecordProfile(t) \/ LoadTurn(t) \/ LoadConverted(t) \/ BuildEnds(t)
  \/ StopQuietly(t) \/ KillConverter(t) \/ StopConversion(t) \/ StopBuild(t)
  \/ DrainEnds(t) \/ Settle(t) \/ RunCallbacks(t)

ConverterEnds(t) == ConversionSucceeds(t) \/ ConversionFails(t)

PrepNext ==
  \/ RequestLoad \/ Delete \/ Unload \/ StartGeneration \/ EndGeneration
  \/ \E fmt, load_after \in BOOLEAN : RequestConvert(fmt, load_after)
  \/ \E t \in Tasks :
       TaskStep(t) \/ ConverterEnds(t) \/ ReadLine(t) \/ LoadQueued(t) \/ WatchdogFires(t)
  \/ \E id \in 1..ui.ids : CancelBegin(id)
  \/ CancelEnd
  \/ ShutdownBegins \/ ShutdownLoadsDone \/ ShutdownConvertsDone \/ ShutdownEnds

PrepSpec == PrepInit /\ [][PrepNext]_vars

\* The event loop runs every ready task, threads and native compiles end, a
\* converter ends or falls silent and meets the watchdog.  Nothing is assumed of
\* clients, generations, or the end of a conversion alone.
PrepFairness ==
  /\ \A t \in Tasks : /\ WF_vars(TaskStep(t))
                      /\ WF_vars(ConverterEnds(t) \/ WatchdogFires(t))
  /\ WF_vars(CancelEnd)
  /\ WF_vars(ShutdownLoadsDone \/ ShutdownConvertsDone \/ ShutdownEnds)

PrepFairSpec == PrepSpec /\ PrepFairness

-----------------------------------------------------------------------------
(* Properties.                                                              *)

\* At most one converter runs, until its process is gone, whichever of a load
\* and a conversion started it.
OneConverter == \A t \in Tasks : task[t].proc => lock = t

\* Preparation in progress stays in the table that status, deletion,
\* cancellation and shutdown look it up in.
RunningWorkIsRegistered ==
  \A t \in Tasks : task[t].pc \in {"convlock", "converting", "stopping", "loadlock",
                                   "building", "draining"} =>
    t = IF IsLoad(t) THEN loadTask ELSE convTask

\* "destructive deletes are rejected while work is active": model files are not
\* deleted under a converter or a native compile.
NoDeleteUnderWork ==
  [][complete /\ ~complete' =>
       \A t \in Tasks : ~task[t].proc /\ task[t].pc # "building"]_vars

\* A cancellation stops the operation it names, never a newer one.
CancelStopsTheNamedOperation ==
  cancel.t # None => task[cancel.t].born = cancel.id

\* An answered cancellation is true: neither the process nor the task it stopped
\* runs, and it leaves no load behind.
CancelledMeansStopped ==
  [][cancel.t # None /\ cancel'.t = None /\ ui'.id = cancel.id /\ ui'.phase = "cancelled" =>
       ~task[cancel.t].proc /\ ~Live(cancel.t) /\ ~follow']_vars

\* A late line, cancellation or cleanup never takes the timeout from the screen
\* while the operation it stopped still winds down.
TimeoutStaysReported ==
  [][ui.timedOut # None /\ down'.pc # "off" =>
       IF ui'.timedOut = ui.timedOut
       THEN ui'.status = "error" /\ ui'.phase = "error"
       ELSE ~ActiveOperation]_vars

\* Output that was still in the pipes does not revive a cancelled operation.
CancelledStaysTerminal ==
  [][ui.phase = "cancelled" /\ ui.id # 0 /\ ui'.id = ui.id /\ down'.pc # "off" =>
       ui'.phase \in Terminal]_vars

\* After shutdown neither an engine nor a running preparation is left.
NothingAfterShutdown ==
  down.pc = "off" =>
    ~loaded /\ \A t \in Tasks : ~task[t].proc /\ task[t].pc \in {"idle", "tail"} \cup Over

\* A load remembered for the end of a conversion is not forgotten: it starts, or
\* the conversion failed or was stopped.
FollowUpResolved == follow ~> ~follow

\* Shutdown ends whatever generations and converters do.
ShutdownCompletes == down.pc = "loads" ~> down.pc = "off"

\* One converter, registered while it works, a cancellation that hits the operation it
\* names, and nothing new after shutdown.
PrepSafe ==
  OneConverter /\ RunningWorkIsRegistered /\ CancelStopsTheNamedOperation /\ NothingAfterShutdown

\* A cancellation stops its operation, really and for good.
CancellationIsFinal == CancelledMeansStopped /\ CancelledStaysTerminal

\* What the client was told of the end of an operation stays true.
EndsAreFinal == CancellationIsFinal /\ TimeoutStaysReported

\* What the manager owes is done: the load remembered for later, and its own shutdown.
OwedWorkEnds == FollowUpResolved /\ ShutdownCompletes
=============================================================================
