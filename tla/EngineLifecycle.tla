--------------------------- MODULE EngineLifecycle ---------------------------
(***************************************************************************)
(* Engines, leases and replacements of the live model manager:              *)
(* app/model_load_target.py, app/engine_handoff_safety.py,                  *)
(* app/model_manager.py and app/model_manager_core.py as composed by        *)
(* app/config.py.                                                           *)
(*                                                                         *)
(* Everything runs on one event loop; a task keeps control until it awaits, *)
(* so each action is the code between two awaits.  Native work (compiling,  *)
(* generating) runs in executor threads between the actions that start and  *)
(* collect it.  Tasks are requests (a lease around one native call), load   *)
(* tasks, context changes and temporary engines of a benchmark.             *)
(*                                                                         *)
(* asyncio.Lock: release frees the lock and wakes the first waiter, which   *)
(* takes it when it runs; until then the lock counts as not locked although *)
(* newcomers queue behind the waiter.  Lock and engine objects are drawn    *)
(* from finite pools and reused when nothing refers to them any more.       *)
(*                                                                         *)
(* Left out: progress and status text, AUTO and composite devices, the      *)
(* catalogue contents of a context change, and shutdown.                    *)
(***************************************************************************)
EXTENDS Sequences, FiniteSets, Naturals

CONSTANTS
  Models, Devices, NPU,
  Requests, Loaders, Changers, Testers,  \* identities of tasks
  ModelOf,        \* the model each task works on
  Engines, NoEngine,
  Locks, LoadLock, NoLock,   \* generation locks; the global _load_lock
  NoTask, NoDevice,
  MaxHung         \* bound: quarantined engines whose worker still runs

Tasks == Requests \cup Loaders \cup Changers \cup Testers
AllLocks == Locks \cup {LoadLock}

ASSUME LifecycleAssumption ==
  /\ Requests \cap (Loaders \cup Changers \cup Testers) = {}
  /\ Loaders \cap (Changers \cup Testers) = {} /\ Changers \cap Testers = {}
  /\ ModelOf \in [Tasks -> Models]
  /\ NoEngine \notin Engines /\ NoTask \notin Tasks
  /\ NoDevice \notin Devices
  /\ LoadLock \notin Locks /\ NoLock \notin AllLocks

VARIABLES
  engines,  \* self.engines: the registered engine of each model
  locks,    \* self.locks: its generation lock
  target,   \* self._requested_load_devices
  holder,   \* of each lock object, the task that holds it
  queue,    \* the tasks waiting for it, first come first
  open,     \* engine objects built and not closed
  device,   \* the device each was built for
  hung,     \* quarantined engines a worker still runs on
  orphans,  \* tasks that left a native compile behind
  pc,       \* the next step of each task
  eng,      \* its leased or previous engine
  lk,       \* the generation lock it waits for or holds
  repl,     \* its replacement or temporary engine
  dev       \* current_device of a load task

registry == <<engines, locks>>
mutexes == <<holder, queue>>
objects == <<open, device, hung, orphans>>
frame == <<eng, lk, repl, dev>>
vars == <<registry, target, mutexes, objects, pc, frame>>

Steps == {"idle", "resolved", "lease_wait", "leased", "native", "closing", "recover",
          "start", "load_wait", "load_held", "convert", "build", "drain",
          "swap", "swap_wait", "swap_held", "using"}

\* A task of this set works on the model: load_tasks, _context_changes.
Active(set, m) == \E t \in set : ModelOf[t] = m /\ pc[t] # "idle"

TypeOK ==
  /\ engines \in [Models -> Engines \cup {NoEngine}]
  /\ locks \in [Models -> Locks \cup {NoLock}]
  /\ target \in [Models -> Devices \cup {NoDevice}]
  /\ holder \in [AllLocks -> Tasks \cup {NoTask}]
  /\ queue \in [AllLocks -> Seq(Tasks)]
  /\ open \in SUBSET Engines /\ hung \in SUBSET Engines /\ orphans \in SUBSET Tasks
  /\ device \in [Engines -> Devices]
  /\ pc \in [Tasks -> Steps]
  /\ eng \in [Tasks -> Engines \cup {NoEngine}]
  /\ lk \in [Tasks -> Locks \cup {NoLock}]
  /\ repl \in [Tasks -> Engines \cup {NoEngine}]
  /\ dev \in [Tasks -> Devices \cup {NoDevice}]

Init ==
  /\ engines = [m \in Models |-> NoEngine]
  /\ locks = [m \in Models |-> NoLock]
  /\ target = [m \in Models |-> NoDevice]
  /\ holder = [l \in AllLocks |-> NoTask]
  /\ queue = [l \in AllLocks |-> <<>>]
  /\ open = {} /\ hung = {} /\ orphans = {}
  /\ \E d \in Devices : device = [e \in Engines |-> d]
  /\ pc = [t \in Tasks |-> "idle"]
  /\ eng = [t \in Tasks |-> NoEngine]
  /\ lk = [t \in Tasks |-> NoLock]
  /\ repl = [t \in Tasks |-> NoEngine]
  /\ dev = [t \in Tasks |-> NoDevice]

-----------------------------------------------------------------------------
(* Objects and locks.                                                       *)

FreeEngines ==
  {e \in Engines : /\ e \notin open
                   /\ \A m \in Models : engines[m] # e
                   /\ \A t \in Tasks : eng[t] # e /\ repl[t] # e}

FreeLocks ==
  {l \in Locks : /\ holder[l] = NoTask /\ queue[l] = <<>>
                 /\ \A m \in Models : locks[m] # l
                 /\ \A t \in Tasks : lk[t] # l}

Goto(t, step) == pc' = [pc EXCEPT ![t] = step]

LoadedOn(m, d) == engines[m] # NoEngine /\ device[engines[m]] = d

\* A native constructor returned an engine for device d.
Create(e, d) ==
  /\ e \in FreeEngines
  /\ open' = open \cup {e}
  /\ device' = [device EXCEPT ![e] = d]

\* get_lock: setdefault with a new lock.
GetLock(m, l) ==
  /\ IF locks[m] = NoLock THEN l \in FreeLocks ELSE l = locks[m]
  /\ locks' = [locks EXCEPT ![m] = l]

Idle(l) == holder[l] = NoTask /\ queue[l] = <<>>

Enqueue(t, l) == queue' = [queue EXCEPT ![l] = Append(@, t)]

\* Cancelling a waiter takes it out of the queue it is in.
LeaveQueue(t, l) ==
  \E i \in 1 .. Len(queue[l]) :
    /\ queue[l][i] = t
    /\ queue' = [queue EXCEPT ![l] = SubSeq(@, 1, i - 1) \o SubSeq(@, i + 1, Len(@))]

\* The finally blocks of a task release every lock it holds.
Unlocked(t) == [l \in AllLocks |-> IF holder[l] = t THEN NoTask ELSE holder[l]]

\* The task is over.
Return(t) ==
  /\ Goto(t, "idle")
  /\ holder' = Unlocked(t)
  /\ eng' = [eng EXCEPT ![t] = NoEngine]
  /\ lk' = [lk EXCEPT ![t] = NoLock]
  /\ repl' = [repl EXCEPT ![t] = NoEngine]
  /\ dev' = [dev EXCEPT ![t] = NoDevice]

\* asyncio.Lock.acquire resumes the first waiter of a free lock.
Awaited(t) == IF pc[t] = "load_wait" THEN LoadLock ELSE lk[t]
Held == [step \in {"load_wait", "lease_wait", "swap_wait"} |->
           IF step = "load_wait" THEN "load_held"
           ELSE IF step = "lease_wait" THEN "leased" ELSE "swap_held"]

Grant(t) ==
  /\ pc[t] \in DOMAIN Held
  /\ LET l == Awaited(t) IN
       /\ holder[l] = NoTask /\ queue[l] # <<>> /\ Head(queue[l]) = t
       /\ holder' = [holder EXCEPT ![l] = t]
       /\ queue' = [queue EXCEPT ![l] = Tail(@)]
  /\ Goto(t, Held[pc[t]])
  /\ UNCHANGED <<registry, target, objects, frame>>

-----------------------------------------------------------------------------
(* Requests: current_engine_lease around one native call.                   *)

\* resolve_engine: the model is loaded when the request arrives.
Resolve(r) ==
  /\ pc[r] = "idle"
  /\ engines[ModelOf[r]] # NoEngine
  /\ Goto(r, "resolved")
  /\ UNCHANGED <<registry, target, mutexes, objects, frame>>

\* ModelNotLoaded: the model is gone.
LeaseRefused(r) ==
  /\ pc[r] = "resolved"
  /\ engines[ModelOf[r]] = NoEngine
  /\ Goto(r, "idle")
  /\ UNCHANGED <<registry, target, mutexes, objects, frame>>

\* Read the engine and its lock, then take the lock or wait for it.
Lease(r) ==
  /\ pc[r] = "resolved"
  /\ engines[ModelOf[r]] # NoEngine
  /\ \E l \in Locks :
       /\ GetLock(ModelOf[r], l)
       /\ lk' = [lk EXCEPT ![r] = l]
       /\ \/ /\ Idle(l)
             /\ holder' = [holder EXCEPT ![l] = r]
             /\ Goto(r, "leased")
             /\ UNCHANGED queue
          \/ /\ ~Idle(l)
             /\ Enqueue(r, l)
             /\ Goto(r, "lease_wait")
             /\ UNCHANGED holder
  /\ eng' = [eng EXCEPT ![r] = engines[ModelOf[r]]]
  /\ UNCHANGED <<engines, target, objects, repl, dev>>

\* The client goes away while the request waits.
LeaseCancel(r) ==
  /\ pc[r] = "lease_wait"
  /\ LeaveQueue(r, lk[r])
  /\ Return(r)
  /\ UNCHANGED <<registry, target, objects>>

\* Regression form of LeaseCheck: the pair is not read again.
LeaseCheckTrusting(r) ==
  /\ pc[r] = "leased"
  /\ Goto(r, "native")
  /\ UNCHANGED <<registry, target, mutexes, objects, frame>>

\* Regression form of LeaseCheck: a stale lease is retried without giving it up.
LeaseCheckKeepsLock(r) ==
  LET m == ModelOf[r] IN
  /\ pc[r] = "leased"
  /\ \E l \in Locks :
       /\ GetLock(m, l)
       /\ Goto(r, IF engines[m] = eng[r] /\ l = lk[r] THEN "native" ELSE "resolved")
  /\ UNCHANGED <<engines, target, mutexes, objects, frame>>

\* The pair is read again under the lock: the call starts, or the lease is retried.
LeaseCheck(r) ==
  LET m == ModelOf[r] IN
  /\ pc[r] = "leased"
  /\ \E l \in Locks :
       /\ GetLock(m, l)
       /\ \/ /\ engines[m] = eng[r] /\ l = lk[r]
             /\ Goto(r, "native")
             /\ UNCHANGED <<holder, eng, lk>>
          \/ /\ ~(engines[m] = eng[r] /\ l = lk[r])
             /\ Goto(r, "resolved")
             /\ holder' = Unlocked(r)
             /\ eng' = [eng EXCEPT ![r] = NoEngine]
             /\ lk' = [lk EXCEPT ![r] = NoLock]
  /\ UNCHANGED <<engines, target, queue, objects, repl, dev>>

\* A generation, a finished stream, a token count or a prompt build: the native
\* call returned and the lease ends.
Finish(r) ==
  /\ pc[r] = "native"
  /\ Return(r)
  /\ UNCHANGED <<registry, target, queue, objects>>

\* A stream fails or its client goes away: _finish_stream_handle asks it to stop.
Interrupt(r) ==
  /\ pc[r] = "native"
  /\ Goto(r, "closing")
  /\ UNCHANGED <<registry, target, mutexes, objects, frame>>

\* The test at the head of _recover_cancelled_npu_engine.
Recoverable(r) == device[eng[r]] = NPU /\ engines[ModelOf[r]] = eng[r]

\* The worker stopped in time and there is nothing to rebuild.
Stopped(r) ==
  /\ pc[r] = "closing" /\ ~Recoverable(r)
  /\ Return(r)
  /\ UNCHANGED <<registry, target, queue, objects>>

\* Regression form of Quarantine: the engine stays registered.
QuarantineKeepsEngine(r) ==
  /\ pc[r] = "closing" /\ Cardinality(hung) < MaxHung
  /\ hung' = hung \cup {eng[r]}
  /\ Return(r)
  /\ UNCHANGED <<registry, target, queue, open, device, orphans>>

\* The worker did not stop within 30 seconds: the engine is unregistered, not
\* closed, and its lock freed.
Quarantine(r) ==
  LET m == ModelOf[r] IN
  /\ pc[r] = "closing" /\ Cardinality(hung) < MaxHung
  /\ engines' = [engines EXCEPT ![m] = IF @ = eng[r] THEN NoEngine ELSE @]
  /\ hung' = hung \cup {eng[r]}
  /\ Return(r)
  /\ UNCHANGED <<locks, target, queue, open, device, orphans>>

\* Such a worker ends after all; nothing refers to its engine any more.
HungEnds(e) ==
  /\ e \in hung
  /\ hung' = hung \ {e}
  /\ open' = open \ {e}
  /\ UNCHANGED <<registry, target, mutexes, device, orphans, pc, frame>>

\* rebuild(): the old pipeline is closed, then a new one is compiled.
BeginRecovery(r) ==
  /\ pc[r] = "closing" /\ Recoverable(r)
  /\ open' = open \ {eng[r]}
  /\ Goto(r, "recover")
  /\ UNCHANGED <<registry, target, mutexes, device, hung, orphans, frame>>

Recovered(r) ==
  LET m == ModelOf[r] IN
  /\ pc[r] = "recover"
  /\ \E e \in FreeEngines :
       \/ /\ engines[m] = eng[r]
          /\ Create(e, device[eng[r]])
          /\ engines' = [engines EXCEPT ![m] = e]
       \/ /\ engines[m] # eng[r]                 \* built and closed again
          /\ UNCHANGED <<engines, open, device>>
  /\ Return(r)
  /\ UNCHANGED <<locks, target, queue, hung, orphans>>

RecoveryFailed(r) ==
  /\ pc[r] = "recover"
  /\ engines' = [engines EXCEPT ![ModelOf[r]] = NoEngine]
  /\ Return(r)
  /\ UNCHANGED <<locks, target, queue, objects>>

-----------------------------------------------------------------------------
(* Load tasks: device_authoritative_schedule_load and _load_task.           *)

\* targets.get(model_id, current_device)
Newest(t) == IF target[ModelOf[t]] = NoDevice THEN dev[t] ELSE target[ModelOf[t]]

\* Regression form of StartLoad: an omitted device is not resolved to a default.
StartLoadUnresolved(t, d) ==
  LET m == ModelOf[t] IN
  /\ pc[t] = "idle"
  /\ ~LoadedOn(m, d) /\ ~Active(Loaders, m)
  /\ Goto(t, "start")
  /\ UNCHANGED <<registry, target, mutexes, objects, frame>>

\* schedule_load starts a task unless the model is loaded on that device already.
StartLoad(t, d) ==
  LET m == ModelOf[t] IN
  /\ pc[t] = "idle"
  /\ ~LoadedOn(m, d) /\ ~Active(Loaders, m)
  /\ target' = [target EXCEPT ![m] = d]
  /\ dev' = [dev EXCEPT ![t] = d]
  /\ Goto(t, "start")
  /\ UNCHANGED <<registry, mutexes, objects, eng, lk, repl>>

\* schedule_load while a load is in flight.
Retarget(m, d) ==
  /\ ~LoadedOn(m, d) /\ Active(Loaders, m)
  /\ target' = [target EXCEPT ![m] = d]
  /\ UNCHANGED <<registry, mutexes, objects, pc, frame>>

\* The task's own finally: load_tasks and targets forget it.
LoadReturns(t) ==
  /\ target' = [target EXCEPT ![ModelOf[t]] = NoDevice]
  /\ Return(t)

\* except Exception: a retained engine stays, otherwise the lock goes too.
LoadFails(t) ==
  LET m == ModelOf[t] IN
  /\ locks' = [locks EXCEPT ![m] = IF engines[m] = NoEngine THEN NoLock ELSE @]
  /\ LoadReturns(t)

\* "continue" with a newer target: the inner finally closes what was built.
LoadAgain(t) ==
  /\ Goto(t, "start")
  /\ holder' = Unlocked(t)
  /\ open' = open \ {repl[t]}
  /\ eng' = [eng EXCEPT ![t] = NoEngine]
  /\ lk' = [lk EXCEPT ![t] = NoLock]
  /\ repl' = [repl EXCEPT ![t] = NoEngine]
  /\ dev' = [dev EXCEPT ![t] = Newest(t)]

\* The head of the loop, up to waiting for the load lock.
LoadBegin(t) ==
  LET m == ModelOf[t] IN
  /\ pc[t] = "start"
  /\ \/ /\ LoadedOn(m, Newest(t))
        /\ LoadReturns(t)
        /\ UNCHANGED <<locks, queue>>
     \/ /\ ~LoadedOn(m, Newest(t))
        /\ LoadFails(t)                          \* no such device or no files
        /\ UNCHANGED queue
     \/ /\ ~LoadedOn(m, Newest(t))
        /\ dev' = [dev EXCEPT ![t] = Newest(t)]
        /\ Enqueue(t, LoadLock)
        /\ Goto(t, "load_wait")
        /\ UNCHANGED <<locks, target, holder, eng, lk, repl>>
  /\ UNCHANGED <<engines, objects>>

\* Regression form of LoadLocked: the retarget goes round without the finally block.
LoadLockedKeepsLock(t) ==
  LET m == ModelOf[t] IN
  /\ pc[t] = "load_held"
  /\ \/ /\ Newest(t) # dev[t]
        /\ dev' = [dev EXCEPT ![t] = Newest(t)]
        /\ Goto(t, "start")
        /\ UNCHANGED <<locks, target, holder, eng, lk, repl, open>>
     \/ /\ Newest(t) = dev[t] /\ ~LoadedOn(m, dev[t])
        /\ Goto(t, "build")
        /\ UNCHANGED <<locks, target, holder, open, frame>>
  /\ UNCHANGED <<engines, queue, device, hung, orphans>>

\* Under the load lock: retarget, already loaded, missing files, convert or compile.
LoadLocked(t) ==
  LET m == ModelOf[t] IN
  /\ pc[t] = "load_held"
  /\ \/ /\ Newest(t) # dev[t]
        /\ LoadAgain(t)
        /\ UNCHANGED <<locks, target>>
     \/ /\ Newest(t) = dev[t] /\ LoadedOn(m, dev[t])
        /\ LoadReturns(t)
        /\ UNCHANGED <<locks, open>>
     \/ /\ Newest(t) = dev[t] /\ ~LoadedOn(m, dev[t])
        /\ LoadFails(t)
        /\ UNCHANGED open
     \/ /\ Newest(t) = dev[t] /\ ~LoadedOn(m, dev[t])
        /\ Goto(t, "convert") \/ Goto(t, "build")
        /\ UNCHANGED <<locks, target, holder, open, frame>>
  /\ UNCHANGED <<engines, queue, device, hung, orphans>>

\* The automatic conversion returned, with or without a model.
LoadConverted(t) ==
  /\ pc[t] = "convert"
  /\ \/ /\ LoadFails(t)
        /\ UNCHANGED open
     \/ /\ Newest(t) # dev[t]
        /\ LoadAgain(t)
        /\ UNCHANGED <<locks, target>>
     \/ /\ Newest(t) = dev[t]
        /\ Goto(t, "build")
        /\ UNCHANGED <<locks, target, holder, open, frame>>
  /\ UNCHANGED <<engines, queue, device, hung, orphans>>

\* The native constructor returned or raised; an engine for a stale target is
\* closed at once.
LoadBuilt(t) ==
  /\ pc[t] = "build"
  /\ \/ /\ LoadFails(t)
        /\ UNCHANGED <<open, device>>
     \/ /\ Newest(t) # dev[t]
        /\ LoadAgain(t)
        /\ UNCHANGED <<locks, target, device>>
     \/ /\ Newest(t) = dev[t]
        /\ \E e \in FreeEngines : Create(e, dev[t]) /\ repl' = [repl EXCEPT ![t] = e]
        /\ Goto(t, "swap")
        /\ UNCHANGED <<locks, target, holder, eng, lk, dev>>
  /\ UNCHANGED <<engines, queue, hung, orphans>>

\* The replacement becomes the registered engine, with a lock of its own, and
\* the previous engine is closed.
Install(t) ==
  LET m == ModelOf[t] IN
  /\ engines' = [engines EXCEPT ![m] = repl[t]]
  /\ \E l \in FreeLocks : locks' = [locks EXCEPT ![m] = l]
  /\ open' = open \ {eng[t]}

\* After the handoff lock: one last look at the target.
LoadInstalls(t) ==
  \/ /\ Newest(t) # dev[t]
     /\ LoadAgain(t)
     /\ UNCHANGED <<registry, target>>
  \/ /\ Newest(t) = dev[t]
     /\ Install(t)
     /\ LoadReturns(t)

\* Regression form of LoadHandoff: the previous engine's lock is not taken.
LoadHandoffUnlocked(t) ==
  LET m == ModelOf[t] IN
  /\ pc[t] = "swap"
  /\ \/ Newest(t) # dev[t] /\ LoadAgain(t) /\ UNCHANGED <<registry, target>>
     \/ /\ Newest(t) = dev[t] /\ LoadReturns(t)
        /\ engines' = [engines EXCEPT ![m] = repl[t]]
        /\ \E l \in FreeLocks : locks' = [locks EXCEPT ![m] = l]
        /\ open' = open \ {engines[m]}
  /\ UNCHANGED <<queue, device, hung, orphans>>

\* _acquire_stable_handoff_lock: a model with no engine needs no handoff.
LoadHandoff(t) ==
  LET m == ModelOf[t] IN
  /\ pc[t] = "swap"
  /\ \/ /\ engines[m] = NoEngine
        /\ LoadInstalls(t)
        /\ UNCHANGED queue
     \/ /\ engines[m] # NoEngine
        /\ eng' = [eng EXCEPT ![t] = engines[m]]
        /\ \E l \in Locks : GetLock(m, l) /\ lk' = [lk EXCEPT ![t] = l] /\ Enqueue(t, l)
        /\ Goto(t, "swap_wait")
        /\ UNCHANGED <<engines, target, holder, open, repl, dev>>
  /\ UNCHANGED <<device, hung, orphans>>

\* The pair is read again under the lock; an unstable pair is leased anew.
LoadSwap(t) ==
  LET m == ModelOf[t] IN
  /\ pc[t] = "swap_held"
  /\ \/ /\ engines[m] = eng[t] /\ locks[m] = lk[t]
        /\ LoadInstalls(t)
     \/ /\ ~(engines[m] = eng[t] /\ locks[m] = lk[t])
        /\ \E l \in Locks : GetLock(m, l)
        /\ holder' = [holder EXCEPT ![lk[t]] = NoTask]
        /\ eng' = [eng EXCEPT ![t] = NoEngine]
        /\ lk' = [lk EXCEPT ![t] = NoLock]
        /\ Goto(t, "swap")
        /\ UNCHANGED <<engines, target, open, repl, dev>>
  /\ UNCHANGED <<queue, device, hung, orphans>>

\* cancel_operation, a cancelled setup, or shutdown: at any await but the compile.
LoadCancel(t) ==
  /\ \/ pc[t] \in {"load_wait", "swap_wait"} /\ LeaveQueue(t, Awaited(t))
     \/ pc[t] \in {"load_held", "swap_held", "convert"} /\ UNCHANGED queue
  /\ open' = open \ {repl[t]}
  /\ LoadReturns(t)
  /\ UNCHANGED <<registry, device, hung, orphans>>

\* Regression form of BuildCancel: the load lock does not wait for the native work.
BuildCancelReleases(t) ==
  /\ pc[t] = "build"
  /\ Goto(t, "drain")
  /\ holder' = Unlocked(t)
  /\ UNCHANGED <<registry, target, queue, objects, frame>>

\* Cancelled while compiling: the task waits for the native work, shielded.
BuildCancel(t) ==
  /\ pc[t] = "build"
  /\ Goto(t, "drain")
  /\ UNCHANGED <<registry, target, mutexes, objects, frame>>

\* The abandoned engine is closed as soon as it exists.
BuildDrained(t) ==
  /\ pc[t] = "drain"
  /\ LoadReturns(t)
  /\ UNCHANGED <<registry, queue, objects>>

\* A second cancellation ends that wait; the compile goes on without its task.
BuildOrphaned(t) ==
  /\ pc[t] = "drain" /\ t \notin orphans
  /\ orphans' = orphans \cup {t}
  /\ LoadReturns(t)
  /\ UNCHANGED <<registry, queue, open, device, hung>>

\* It returns an engine nobody refers to.
OrphanEnds(t) ==
  /\ t \in orphans
  /\ orphans' = orphans \ {t}
  /\ UNCHANGED <<registry, target, mutexes, open, device, hung, pc, frame>>

-----------------------------------------------------------------------------
(* configure_context on a model that may be loaded.                         *)

\* One change at a time, none during a load or a benchmark.
ChangeStart(t) ==
  LET m == ModelOf[t] IN
  /\ pc[t] = "idle"
  /\ ~Active(Changers, m) /\ ~Active(Loaders, m)
  /\ \A u \in Testers : pc[u] = "idle"
  /\ Enqueue(t, LoadLock)
  /\ Goto(t, "load_wait")
  /\ UNCHANGED <<registry, target, holder, objects, frame>>

\* Under the load lock: refused, or the current engine is noted and, when its
\* configuration changes, rebuilt first.
ChangeLocked(t) ==
  LET m == ModelOf[t] IN
  /\ pc[t] = "load_held"
  /\ \/ /\ Return(t)
     \/ /\ ~Active(Loaders, m)
        /\ \A u \in Testers : pc[u] = "idle"
        /\ eng' = [eng EXCEPT ![t] = engines[m]]
        /\ Goto(t, "swap") \/ (engines[m] # NoEngine /\ Goto(t, "build"))
        /\ UNCHANGED <<holder, lk, repl, dev>>
  /\ UNCHANGED <<registry, target, queue, objects>>

\* The replacement is built for the device of the engine it replaces; a failed
\* or cancelled build leaves the model as it was.
ChangeBuilt(t) ==
  /\ pc[t] = "build"
  /\ \/ /\ Return(t)
        /\ UNCHANGED <<open, device>>
     \/ /\ \E e \in FreeEngines :
             Create(e, device[eng[t]]) /\ repl' = [repl EXCEPT ![t] = e]
        /\ Goto(t, "swap")
        /\ UNCHANGED <<holder, eng, lk, dev>>
  /\ UNCHANGED <<registry, target, queue, hung, orphans>>

\* Regression form of ChangeLock: the generation lock is not waited for.
ChangeLockIgnored(t) ==
  /\ pc[t] = "swap"
  /\ \E l \in Locks : GetLock(ModelOf[t], l) /\ lk' = [lk EXCEPT ![t] = l]
  /\ Goto(t, "swap_held")
  /\ UNCHANGED <<engines, target, mutexes, objects, eng, repl, dev>>

\* async with self.get_lock(model_id)
ChangeLock(t) ==
  /\ pc[t] = "swap"
  /\ \E l \in Locks :
       GetLock(ModelOf[t], l) /\ lk' = [lk EXCEPT ![t] = l] /\ Enqueue(t, l)
  /\ Goto(t, "swap_wait")
  /\ UNCHANGED <<engines, target, holder, objects, eng, repl, dev>>

\* Regression form of ChangeApply: the engine is not looked up again.
ChangeApplyTrusting(t) ==
  /\ pc[t] = "swap_held"
  /\ \/ /\ open' = open \ {repl[t]}
        /\ UNCHANGED registry
     \/ /\ repl[t] # NoEngine
        /\ Install(t)
     \/ /\ repl[t] = NoEngine
        /\ UNCHANGED <<registry, open>>
  /\ Return(t)
  /\ UNCHANGED <<target, queue, device, hung, orphans>>

\* The engine is still the one noted: the catalogue is saved and the replacement
\* installed.  A changed lifecycle or a failed save closes the replacement.
ChangeApply(t) ==
  /\ pc[t] = "swap_held"
  /\ \/ /\ open' = open \ {repl[t]}
        /\ UNCHANGED registry
     \/ /\ engines[ModelOf[t]] = eng[t] /\ repl[t] # NoEngine
        /\ Install(t)
     \/ /\ engines[ModelOf[t]] = eng[t] /\ repl[t] = NoEngine
        /\ UNCHANGED <<registry, open>>
  /\ Return(t)
  /\ UNCHANGED <<target, queue, device, hung, orphans>>

-----------------------------------------------------------------------------
(* build_temporary_engine and the benchmark that owns the engine.           *)

TestStart(t) ==
  /\ pc[t] = "idle"
  /\ Enqueue(t, LoadLock)
  /\ Goto(t, "load_wait")
  /\ UNCHANGED <<registry, target, holder, objects, frame>>

\* Under the load lock: the device or the files are missing, or compile.
TestLocked(t) ==
  /\ pc[t] = "load_held"
  /\ \/ Return(t)
     \/ Goto(t, "build") /\ UNCHANGED <<holder, frame>>
  /\ UNCHANGED <<registry, target, queue, objects>>

\* The engine passes to the caller and the load lock is free again.
TestBuilt(t) ==
  /\ pc[t] = "build"
  /\ \/ /\ Return(t)
        /\ UNCHANGED <<open, device>>
     \/ /\ \E e \in FreeEngines, d \in Devices :
             Create(e, d) /\ repl' = [repl EXCEPT ![t] = e]
        /\ holder' = Unlocked(t)
        /\ Goto(t, "using")
        /\ UNCHANGED <<eng, lk, dev>>
  /\ UNCHANGED <<registry, target, queue, hung, orphans>>

\* The onboarding watchdog cancels the benchmark while it compiles.
TestOrphaned(t) ==
  /\ pc[t] = "build" /\ t \notin orphans
  /\ orphans' = orphans \cup {t}
  /\ Return(t)
  /\ UNCHANGED <<registry, target, queue, open, device, hung>>

TestCloses(t) ==
  /\ pc[t] = "using"
  /\ open' = open \ {repl[t]}
  /\ Return(t)
  /\ UNCHANGED <<registry, target, queue, device, hung, orphans>>

-----------------------------------------------------------------------------
\* Regression form of Unload: a busy model is unloaded too.
UnloadBusy(m) ==
  /\ engines[m] # NoEngine
  /\ ~Active(Loaders, m)
  /\ engines' = [engines EXCEPT ![m] = NoEngine]
  /\ locks' = [locks EXCEPT ![m] = NoLock]
  /\ open' = open \ {engines[m]}
  /\ UNCHANGED <<target, mutexes, device, hung, orphans, pc, frame>>

\* unload_when_idle: neither loading nor locked.
Unload(m) ==
  /\ engines[m] # NoEngine
  /\ ~Active(Loaders, m)
  /\ locks[m] = NoLock \/ holder[locks[m]] = NoTask
  /\ engines' = [engines EXCEPT ![m] = NoEngine]
  /\ locks' = [locks EXCEPT ![m] = NoLock]
  /\ open' = open \ {engines[m]}
  /\ UNCHANGED <<target, mutexes, device, hung, orphans, pc, frame>>

RequestStep(r) ==
  \/ Resolve(r) \/ LeaseRefused(r) \/ Lease(r) \/ LeaseCancel(r) \/ LeaseCheck(r)
  \/ Finish(r) \/ Interrupt(r) \/ Stopped(r) \/ Quarantine(r)
  \/ BeginRecovery(r) \/ Recovered(r) \/ RecoveryFailed(r)

LoadStep(t) ==
  \/ LoadBegin(t) \/ LoadLocked(t) \/ LoadConverted(t) \/ LoadBuilt(t)
  \/ LoadHandoff(t) \/ LoadSwap(t)
  \/ LoadCancel(t) \/ BuildCancel(t) \/ BuildDrained(t) \/ BuildOrphaned(t)

ChangeStep(t) ==
  \/ ChangeStart(t) \/ ChangeLocked(t) \/ ChangeBuilt(t) \/ ChangeLock(t) \/ ChangeApply(t)

TestStep(t) ==
  \/ TestStart(t) \/ TestLocked(t) \/ TestBuilt(t) \/ TestOrphaned(t) \/ TestCloses(t)

\* Everything but a request to load a model.
OtherStep ==
  \/ \E t \in Tasks : Grant(t) \/ OrphanEnds(t)
  \/ \E r \in Requests : RequestStep(r)
  \/ \E t \in Loaders : LoadStep(t)
  \/ \E t \in Changers : ChangeStep(t)
  \/ \E t \in Testers : TestStep(t)
  \/ \E m \in Models : Unload(m)
  \/ \E e \in Engines : HungEnds(e)

LoadRequest ==
  \/ \E t \in Loaders, d \in Devices : StartLoad(t, d)
  \/ \E m \in Models, d \in Devices : Retarget(m, d)

Next == LoadRequest \/ OtherStep

Spec == Init /\ [][Next]_vars

\* The event loop resumes every task that is ready, a wait for native work ends
\* (wait_closed has a deadline), and nobody is obliged to cancel, to interrupt or
\* to ask for anything.
RequestProgress(r) ==
  \/ LeaseRefused(r) \/ Lease(r) \/ LeaseCheck(r) \/ Finish(r)
  \/ Stopped(r) \/ BeginRecovery(r) \/ Recovered(r) \/ RecoveryFailed(r)

LoadProgress(t) ==
  \/ LoadBegin(t) \/ LoadLocked(t) \/ LoadConverted(t) \/ LoadBuilt(t)
  \/ LoadHandoff(t) \/ LoadSwap(t) \/ BuildDrained(t)

ChangeProgress(t) == ChangeLocked(t) \/ ChangeBuilt(t) \/ ChangeLock(t) \/ ChangeApply(t)

FairSpec ==
  /\ Spec
  /\ \A t \in Tasks : WF_vars(Grant(t))
  /\ \A r \in Requests : WF_vars(RequestProgress(r))
  /\ \A t \in Loaders : WF_vars(LoadProgress(t))
  /\ \A t \in Changers : WF_vars(ChangeProgress(t))

-----------------------------------------------------------------------------
(* Properties.                                                              *)

InCall == {"native", "closing"}

\* One native call runs on an engine at a time, and none on an engine a timed out
\* stream was left running on (current_engine_lease, _finish_stream_handle).
OneCallPerEngine ==
  \A r \in Requests :
    pc[r] \in InCall =>
      /\ eng[r] \notin hung
      /\ \A s \in Requests : pc[s] \in InCall /\ eng[s] = eng[r] => s = r

\* No engine is closed while a native call runs on it, whichever of load, context
\* change, recovery and unload closes it (current_engine_lease, unload_when_idle).
InUseNeverClosed ==
  /\ \A r \in Requests : pc[r] \in InCall => eng[r] \in open
  /\ hung \subseteq open

\* Parts of the next property.
Housed ==
  \A e \in open : \/ e \in hung
                  \/ \E m \in Models : engines[m] = e
                  \/ \E t \in Tasks : repl[t] = e

OneOwner ==
  /\ \A m, n \in Models : engines[m] = engines[n] /\ engines[m] # NoEngine => m = n
  /\ \A s, t \in Tasks : repl[s] = repl[t] /\ repl[s] # NoEngine => s = t
  /\ \A m \in Models, t \in Tasks : engines[m] # NoEngine => repl[t] # engines[m]

HungApart ==
  \A e \in hung : (\A m \in Models : engines[m] # e) /\ (\A t \in Tasks : repl[t] # e)

\* Every open engine has exactly one place: registered, a replacement or temporary
\* engine of one task, or quarantined; none is leaked by a failure, a cancellation
\* or a retarget (device_authoritative_load_task, configure_context).
EnginesAccounted == Housed /\ OneOwner /\ HungApart

\* A registered engine can serve, unless the request that holds its lock is
\* rebuilding it (_recover_cancelled_npu_engine).
RegisteredServes ==
  \A m \in Models :
    engines[m] # NoEngine /\ engines[m] \notin open =>
      /\ locks[m] # NoLock
      /\ \E r \in Requests : holder[locks[m]] = r /\ pc[r] = "recover" /\ eng[r] = engines[m]

\* Two tasks that still await their native constructor never do so together
\* (the _load_lock of load tasks, context changes and temporary engines).
AwaitedBuildsSerialized ==
  \A s, t \in Tasks : pc[s] \in {"build", "drain"} /\ pc[t] \in {"build", "drain"} => s = t

\* With locks and tasks hidden, the manager is the engine service: no engine is
\* replaced or withdrawn under a running call except by that call.
Service == INSTANCE EngineService WITH
  serving <- engines,
  busy <- [m \in Models |-> \E r \in Requests :
                               ModelOf[r] = m /\ pc[r] \in {"native", "closing", "recover"}]
RefinesService == Service!Spec

\* A load ends, unless it is retargeted for ever or every request ahead of it is
\* an interrupted NPU stream that replaces the engine the load is waiting to
\* replace (_acquire_stable_handoff_lock starts over each time).
LoadsEnd ==
  \A t \in Loaders :
    \/ []<>(pc[t] = "idle")
    \/ []<><<\E d \in Devices : Retarget(ModelOf[t], d)>>_vars
    \/ []<><<\E r \in Requests : BeginRecovery(r)>>_vars

\* A request that found its model loaded is served or refused, unless the model's
\* engine is replaced for ever (current_engine_lease goes to the end of the queue).
RequestsServed ==
  \A r \in Requests :
    \/ []<>(pc[r] \notin {"resolved", "lease_wait", "leased"})
    \/ []<><<engines' # engines>>_vars

\* Loads and requests come to an end.
WorkEnds == LoadsEnd /\ RequestsServed

\* The documented "serialized so two large models don't load into memory at once":
\* every native constructor that runs, recovery rebuilds and abandoned ones included.
NativeBuildsSerialized ==
  Cardinality({t \in Tasks : pc[t] \in {"build", "drain", "recover"}} \cup orphans) <= 1

\* The documented "never orphan an uncancellable native worker".
NoOrphanedCompile == orphans \cap Loaders = {}
=============================================================================
