----------------------------- MODULE Onboarding -----------------------------
(***************************************************************************)
(* First-run setup of the desktop application: the preparation jobs of      *)
(* app/onboarding_service.py with the watchdog, the status and the refusals *)
(* of app/desktop_onboarding.py, and what they save in the setup record.    *)
(*                                                                         *)
(* One model.  Its conversion, its load and its engine are those of         *)
(* ModelPreparation, used by other clients too; here they are two tasks     *)
(* that start, end and are cancelled.  A step is what a coroutine does       *)
(* between two awaits.  Percentages, log lines and durations are left out.  *)
(***************************************************************************)
EXTENDS Naturals, FiniteSets

CONSTANT MaxJobs   \* bound: preparations started

ASSUME OnboardingAssumption == MaxJobs \in Nat

VARIABLES
  jobs,      \* _jobs
  dogs,      \* the watchdog of each job: off, watching or waiting for the job's end
  conv,      \* the conversion task: live, who scheduled it (0: another client), cancelled
  load,      \* the load task
  follow,    \* the load that the end of the conversion will start: is there one
  files,     \* the model's directory
  loaded,    \* the model has an engine
  setup      \* the setup record on disk

managerVars == <<conv, load, follow, files, loaded>>
onboardVars == <<jobs, dogs, managerVars, setup>>

JobIds == 1..MaxJobs
JobRunning == {"begin", "convert", "load", "stopping", "cleaning", "bench", "append"}
Devices == {"none", "one", "many"}
Preparations ==
  [pc : JobRunning \cup {"none", "done"},
   status : {"none", "running", "ready", "cancelled", "failed", "lost"},
   stage : {"preparing", "downloading", "compiling", "benchmarking", "ready", "cancelled", "failed"},
   asked : BOOLEAN, hit : BOOLEAN, timedOut : BOOLEAN, wasDownloaded : BOOLEAN, benchmark : BOOLEAN,
   device : Devices, waits : {"none", "conv", "load"}, got : {"none", "ended", "cancelled"}]
NoJob == [pc |-> "none", status |-> "none", stage |-> "preparing", asked |-> FALSE, hit |-> FALSE,
          timedOut |-> FALSE, wasDownloaded |-> FALSE, benchmark |-> FALSE, device |-> "none",
          waits |-> "none", got |-> "none"]
NoTask == [live |-> FALSE, by |-> 0, stop |-> FALSE]
Unverified == [completed |-> FALSE, restart |-> FALSE, device |-> "none", benchmark |-> FALSE]

OnboardTypeOK ==
  /\ jobs \in [JobIds -> Preparations]
  /\ \A j \in JobIds : jobs[j].pc \in JobRunning <=> jobs[j].status = "running"
  /\ dogs \in [JobIds -> {"off", "watching", "waiting"}]
  /\ {conv, load} \subseteq [live : BOOLEAN, by : 0..MaxJobs, stop : BOOLEAN]
  /\ follow \in BOOLEAN /\ loaded \in BOOLEAN /\ files \in {"none", "partial", "complete"}
  /\ setup \in [completed : BOOLEAN, restart : BOOLEAN, device : Devices, benchmark : BOOLEAN]

OnboardInit ==
  /\ jobs = [j \in JobIds |-> NoJob] /\ dogs = [j \in JobIds |-> "off"]
  /\ conv = NoTask /\ load = NoTask /\ follow = FALSE
  /\ files \in {"none", "partial", "complete"} /\ loaded = FALSE
  /\ setup = Unverified

-----------------------------------------------------------------------------
(* Parts of steps.                                                          *)

OnJob(j, pc) == jobs[j].pc = pc /\ ~jobs[j].hit
Ends(j, outcome) ==
  jobs' = [jobs EXCEPT ![j] = [@ EXCEPT !.pc = "done", !.status = outcome, !.stage = outcome,
                                        !.hit = FALSE, !.waits = "none", !.got = "none"]]
\* The job awaits the end of a task.
Awaits(j, pc, stage, task) ==
  jobs' = [jobs EXCEPT ![j] = [@ EXCEPT !.pc = pc, !.stage = stage, !.waits = task, !.got = "none"]]

\* unload refuses an engine in use, and the refusal is suppressed.
TryUnload == loaded' \in {FALSE, loaded}

\* _quarantine_partial_model: only what was not there before the job
Quarantine(j) == files' = IF ~jobs[j].wasDownloaded /\ files = "partial" THEN "none" ELSE files

Fail(j) ==
  /\ IF jobs[j].benchmark THEN UNCHANGED loaded ELSE TryUnload
  /\ Quarantine(j) /\ Ends(j, "failed")
  /\ UNCHANGED <<conv, load, follow, setup>>

CleanUp(j) ==
  /\ TryUnload /\ Quarantine(j) /\ Ends(j, "cancelled")
  /\ UNCHANGED <<conv, load, follow, setup>>

\* Regression form: the task is cancelled and not waited for.
CancelledWithoutWaiting(j) ==
  /\ conv' = [conv EXCEPT !.stop = conv.live] /\ load' = [load EXCEPT !.stop = load.live]
  /\ TryUnload /\ Quarantine(j) /\ Ends(j, "cancelled")
  /\ UNCHANGED <<follow, setup>>

CleansUpAfter(j, task) ==
  jobs' = [jobs EXCEPT ![j] = [@ EXCEPT !.pc = "cleaning", !.waits = task, !.got = "none", !.hit = FALSE]]

\* except CancelledError: whichever task the model has is cancelled and awaited
Cancelled(j) ==
  \/ /\ conv.live /\ conv' = [conv EXCEPT !.stop = TRUE]
     /\ CleansUpAfter(j, "conv")
     /\ UNCHANGED <<load, follow, files, loaded, setup>>
  \/ /\ ~conv.live /\ load.live /\ load' = [load EXCEPT !.stop = TRUE]
     /\ CleansUpAfter(j, "load")
     /\ UNCHANGED <<conv, follow, files, loaded, setup>>
  \/ ~conv.live /\ ~load.live /\ CleanUp(j)

-----------------------------------------------------------------------------
(* A job.                                                                   *)

StartPreparation(j) ==
  /\ jobs[j].pc = "none" /\ \A k \in 1..(j-1) : jobs[k].pc # "none"
  /\ \A k \in JobIds : jobs[k].status # "running"
  /\ jobs' = [jobs EXCEPT ![j] = [@ EXCEPT !.pc = "begin", !.status = "running",
                                           !.wasDownloaded = files = "complete"]]
  /\ dogs' = [dogs EXCEPT ![j] = "watching"]
  /\ UNCHANGED <<managerVars, setup>>

\* The model is loaded: the last look at the cancellation, and the benchmark begins.
AfterLoad(j) ==
  \/ Fail(j)                          \* not loaded, or no device reported
  \/ /\ loaded /\ jobs[j].asked /\ Cancelled(j)
  \/ /\ loaded /\ ~jobs[j].asked
     /\ Awaits(j, "bench", "benchmarking", "none")
     /\ UNCHANGED <<managerVars, setup>>

\* schedule_load, whose result is awaited: during a conversion that is the conversion,
\* which the load is to follow.
ScheduleLoadAndWait(j) ==
  \/ /\ conv.live /\ follow' = TRUE
     /\ Awaits(j, "load", "compiling", "conv")
     /\ UNCHANGED <<conv, load, files, loaded, setup>>
  \/ ~conv.live /\ loaded /\ AfterLoad(j)
  \/ /\ ~conv.live /\ ~loaded
     /\ load' = IF load.live THEN load ELSE [NoTask EXCEPT !.live = TRUE, !.by = j]
     /\ Awaits(j, "load", "compiling", "load")
     /\ UNCHANGED <<conv, follow, files, loaded, setup>>

Validate(j) ==
  IF jobs[j].asked THEN Cancelled(j)
  ELSE IF files # "complete" THEN Fail(j) ELSE ScheduleLoadAndWait(j)

\* schedule_convert joins a conversion under way.
Begin(j) ==
  /\ OnJob(j, "begin") /\ UNCHANGED dogs
  /\ \/ jobs[j].asked /\ Cancelled(j)
     \/ ~jobs[j].asked /\ files = "complete" /\ Validate(j)
     \/ /\ ~jobs[j].asked /\ files # "complete"
        /\ \/ Fail(j)                \* refused by a storage guard or a loaded engine
           \/ /\ conv' = IF conv.live THEN conv ELSE [NoTask EXCEPT !.live = TRUE, !.by = j]
              /\ Awaits(j, "convert", "downloading", "conv")
              /\ UNCHANGED <<load, follow, files, loaded, setup>>

\* _await_lifecycle_task looks every quarter of a second.
NoticeCancel(j) ==
  /\ jobs[j].pc \in {"convert", "load"} /\ ~jobs[j].hit /\ jobs[j].asked /\ jobs[j].got = "none"
  /\ jobs' = [jobs EXCEPT ![j].pc = "stopping"]
  /\ IF jobs[j].waits = "conv" THEN conv' = [conv EXCEPT !.stop = TRUE] /\ UNCHANGED load
     ELSE load' = [load EXCEPT !.stop = TRUE] /\ UNCHANGED conv
  /\ UNCHANGED <<dogs, follow, files, loaded, setup>>

AwaitOver(j) ==
  /\ jobs[j].pc \in {"convert", "load", "stopping"} /\ ~jobs[j].hit /\ jobs[j].got # "none"
  /\ UNCHANGED dogs
  /\ IF jobs[j].pc = "stopping" \/ jobs[j].got = "cancelled" THEN Cancelled(j)
     ELSE IF jobs[j].pc = "convert" THEN Validate(j) ELSE AfterLoad(j)

CleanedUp(j) ==
  /\ jobs[j].pc = "cleaning" /\ jobs[j].got # "none" /\ CleanUp(j)
  /\ UNCHANGED dogs

\* run_benchmark_suite ends or raises.
BenchmarkRun(j) ==
  /\ OnJob(j, "bench") /\ UNCHANGED dogs
  /\ \/ Fail(j)
     \/ jobs' = [jobs EXCEPT ![j].pc = "append"] /\ UNCHANGED <<managerVars, setup>>

\* Its result is stored, the setup is recorded and the job is ready; each write may fail,
\* and a failure after the benchmark keeps the engine.
Benchmarked(j, device, outcome) ==
  jobs' = [jobs EXCEPT ![j] = [@ EXCEPT !.pc = "done", !.status = outcome, !.stage = outcome,
                                        !.benchmark = TRUE, !.device = device]]
BenchmarkStored(j) ==
  /\ OnJob(j, "append") /\ UNCHANGED dogs
  /\ \/ Fail(j)                       \* not stored, or the benchmark did not succeed
     \/ \E device \in {"one", "many"} :
          /\ Benchmarked(j, device, "ready") /\ UNCHANGED managerVars
          /\ setup' = [completed |-> TRUE, restart |-> FALSE, device |-> device, benchmark |-> TRUE]
     \/ \E device \in {"one", "many"} :
          /\ Benchmarked(j, device, "failed") /\ Quarantine(j)
          /\ UNCHANGED <<conv, load, follow, loaded, setup>>

-----------------------------------------------------------------------------
(* Cancellation and the watchdog.                                           *)

\* A benchmark is not cancelled.
CancelPreparation(j) ==
  /\ jobs[j].status = "running" /\ jobs[j].stage # "benchmarking"
  /\ jobs' = [jobs EXCEPT ![j].asked = TRUE]
  /\ UNCHANGED <<dogs, managerVars, setup>>

\* A stage outlasts its timeout: the watchdog cancels the job and waits for its end.
Timeout(j) ==
  /\ dogs[j] = "watching" /\ jobs[j].status = "running" /\ jobs[j].pc # "begin"
  /\ jobs' = [jobs EXCEPT ![j] = [@ EXCEPT !.asked = TRUE, !.hit = TRUE, !.timedOut = TRUE]]
  /\ dogs' = [dogs EXCEPT ![j] = "waiting"]
  /\ UNCHANGED <<managerVars, setup>>

\* The cancellation reaches the job; a job that waits for a cancelled task absorbs it.
HitArrives(j) ==
  /\ jobs[j].hit /\ UNCHANGED dogs
  /\ \/ jobs[j].pc \in {"convert", "load", "bench", "append"} /\ Cancelled(j)
     \/ /\ jobs[j].pc \in {"stopping", "cleaning"} /\ jobs' = [jobs EXCEPT ![j].hit = FALSE]
        /\ UNCHANGED <<managerVars, setup>>

Unfinished == [setup EXCEPT !.completed = FALSE, !.device = "none", !.benchmark = FALSE]
TimedOut(j) == jobs' = [jobs EXCEPT ![j] = [@ EXCEPT !.status = "failed", !.stage = "failed"]]
\* The record of the setup may not be writable: the job keeps the outcome it had.
WatchdogEnds(j) ==
  /\ dogs[j] = "waiting" /\ jobs[j].pc = "done" /\ dogs' = [dogs EXCEPT ![j] = "off"]
  /\ TryUnload /\ UNCHANGED <<conv, load, follow, files>>
  /\ \/ setup' = Unfinished /\ TimedOut(j)
     \/ UNCHANGED <<setup, jobs>>

WatchdogSees(j) ==
  /\ dogs[j] = "watching" /\ jobs[j].status \notin {"none", "running"}
  /\ dogs' = [dogs EXCEPT ![j] = "off"]
  /\ UNCHANGED <<jobs, managerVars, setup>>

-----------------------------------------------------------------------------
(* What clients read.                                                       *)

\* progress and complete refuse a composite device; the others change nothing.
Reject(j) ==
  /\ jobs[j].status = "ready" /\ jobs[j].device = "many"
  /\ TryUnload
  /\ setup' = [Unfinished EXCEPT !.restart = FALSE]
  /\ jobs' = [jobs EXCEPT ![j] = [@ EXCEPT !.status = "failed", !.stage = "failed", !.device = "none"]]
  /\ UNCHANGED <<dogs, conv, load, follow, files>>

\* A finished setup whose model is neither loaded nor loading is opened again.
Status ==
  /\ setup.completed /\ ~loaded /\ ~load.live
  /\ setup' = [setup EXCEPT !.completed = FALSE, !.restart = TRUE]
  /\ UNCHANGED <<jobs, dogs, managerVars>>

RestartSetup ==
  /\ setup' = [setup EXCEPT !.completed = FALSE, !.restart = TRUE]
  /\ UNCHANGED <<jobs, dogs, managerVars>>

-----------------------------------------------------------------------------
(* The tasks, and the model's other clients.                                *)

\* Regression form: a cancelled task does not wake the job that waits for it.
ToldUnlessCancelled(task, outcome) ==
  jobs' = [j \in JobIds |->
             IF jobs[j].waits = task /\ outcome # "cancelled"
             THEN [jobs[j] EXCEPT !.got = outcome, !.waits = "none"] ELSE jobs[j]]

Told(task, outcome) ==
  jobs' = [j \in JobIds |->
             IF jobs[j].waits = task THEN [jobs[j] EXCEPT !.got = outcome, !.waits = "none"] ELSE jobs[j]]

\* A cancellation may come too late.  The load that follows a conversion is not started
\* after a cancelled or a failed one.
ConversionEnds ==
  /\ conv.live /\ conv' = NoTask /\ follow' = FALSE /\ UNCHANGED <<dogs, loaded, setup>>
  /\ \/ /\ Told("conv", "ended") /\ files' = "complete"
        /\ load' = IF follow /\ ~load.live /\ ~loaded THEN [NoTask EXCEPT !.live = TRUE] ELSE load
     \/ Told("conv", "ended") /\ UNCHANGED <<files, load>>
     \/ conv.stop /\ Told("conv", "cancelled") /\ UNCHANGED <<files, load>>

LoadEnds ==
  /\ load.live /\ load' = NoTask /\ UNCHANGED <<dogs, conv, follow, files, setup>>
  /\ \/ Told("load", "ended") /\ loaded' = TRUE
     \/ Told("load", "ended") /\ UNCHANGED loaded
     \/ load.stop /\ Told("load", "cancelled") /\ UNCHANGED loaded

OtherClient ==
  /\ UNCHANGED <<jobs, dogs, follow, files, setup>>
  /\ \/ ~conv.live /\ ~loaded /\ conv' = [NoTask EXCEPT !.live = TRUE] /\ UNCHANGED <<load, loaded>>
     \/ ~load.live /\ ~conv.live /\ ~loaded /\ files = "complete"
        /\ load' = [NoTask EXCEPT !.live = TRUE] /\ UNCHANGED <<conv, loaded>>
     \/ loaded /\ loaded' = FALSE /\ UNCHANGED <<conv, load>>
     \/ conv.live /\ conv' = [conv EXCEPT !.stop = TRUE] /\ UNCHANGED <<load, loaded>>
     \/ load.live /\ load' = [load EXCEPT !.stop = TRUE] /\ UNCHANGED <<conv, loaded>>

\* The server starts anew, with the model of a finished setup as its default model.
Reboot ==
  /\ jobs' = [j \in JobIds |-> IF jobs[j].pc = "none" THEN NoJob ELSE [NoJob EXCEPT !.pc = "done", !.status = "lost"]]
  /\ dogs' = [j \in JobIds |-> "off"] /\ conv' = NoTask /\ follow' = FALSE /\ loaded' = FALSE
  /\ load' = [NoTask EXCEPT !.live = setup.completed /\ ~setup.restart /\ files = "complete"]
  /\ UNCHANGED <<files, setup>>

-----------------------------------------------------------------------------
JobStep(j) ==
  Begin(j) \/ NoticeCancel(j) \/ AwaitOver(j) \/ CleanedUp(j) \/ BenchmarkRun(j) \/ BenchmarkStored(j)
    \/ HitArrives(j)
WatchdogStep(j) == WatchdogEnds(j) \/ WatchdogSees(j)

OnboardNext ==
  \/ \E j \in JobIds :
       StartPreparation(j) \/ JobStep(j) \/ WatchdogStep(j) \/ CancelPreparation(j) \/ Timeout(j) \/ Reject(j)
  \/ Status \/ RestartSetup \/ ConversionEnds \/ LoadEnds \/ OtherClient \/ Reboot

OnboardSpec == OnboardInit /\ [][OnboardNext]_onboardVars

\* The event loop runs every ready task, and conversions and loads end.  Nothing is
\* assumed of clients or of the stage timeouts.
OnboardFairness ==
  /\ \A j \in JobIds : WF_onboardVars(JobStep(j)) /\ WF_onboardVars(WatchdogStep(j))
  /\ WF_onboardVars(ConversionEnds) /\ WF_onboardVars(LoadEnds)
OnboardFairSpec == OnboardSpec /\ OnboardFairness

-----------------------------------------------------------------------------
\* A job that was cancelled, or that a watchdog gave up, is never offered as ready
\* (onboarding_service.py:442, :473).
CancelHolds == \A j \in JobIds : jobs[j].asked => jobs[j].status # "ready"

\* A cancelled job has seen the end of the tasks it started.
NothingLeftBehind ==
  \A j \in JobIds : jobs[j].status = "cancelled" =>
    /\ ~(conv.live /\ conv.by = j)
    /\ (load.live /\ load.by = j) => jobs[j].timedOut

\* A task that a job waits for runs.
WaitsForATask ==
  /\ \A j \in JobIds : jobs[j].waits = "conv" => conv.live
  /\ \A j \in JobIds : jobs[j].waits = "load" => load.live

\* At most one preparation runs.
OnePreparation == \A j, k \in JobIds : jobs[j].status = "running" /\ jobs[k].status = "running" => j = k

\* Setup is recorded as complete only after a benchmark succeeded on a reported device, and
\* not by a job whose timeout is reported.
CompletedMeansVerified ==
  /\ setup.completed => setup.benchmark /\ setup.device # "none"
  /\ \A j \in JobIds : jobs[j].timedOut => jobs[j].status # "ready"

\* What the setup promises.
SetupSafe ==
  CancelHolds /\ NothingLeftBehind /\ WaitsForATask /\ OnePreparation /\ CompletedMeansVerified

\* A running job that waits for no task can take a step.
NeverStranded ==
  \A j \in JobIds : jobs[j].status = "running" /\ jobs[j].waits = "none" => ENABLED JobStep(j)

\* A preparation ends, whatever was cancelled on the way, unless the server ends first, and
\* no job is stranded before.
PreparationEnds ==
  /\ []NeverStranded
  /\ \A j \in JobIds : jobs[j].status = "running" ~> jobs[j].status # "running"
=============================================================================
