------------------------- MODULE ApplicationProofs --------------------------
(***************************************************************************)
(* Proofs about the application around the models: the first-run setup, the *)
(* saved settings and the page.  Every module has an inductive invariant:   *)
(*                                                                          *)
(* Onboarding: a task that a job started has that job waiting for it, or    *)
(* its watchdog took it away (TasksHaveOwners).                             *)
(*                                                                          *)
(* NetworkSettings: whoever has read the file holds the lock until it is    *)
(* written, and has read what was saved last (UpdatesExclusive).            *)
(*                                                                          *)
(* ProgressView: of one operation, the higher revision was not written      *)
(* earlier, whichever answer brings it (InOrder).                           *)
(*                                                                          *)
(* ChatQueue: chats and jobs agree, and a job that runs has the one         *)
(* generation of its chat (WellKept).                                       *)
(*                                                                          *)
(* ConversationStore: a chat that waits for its model is never old, and a   *)
(* deleted chat that the page still has is not out of the storage.          *)
(*                                                                          *)
(* The suite of MCApplication keeps all five at once.                       *)
(***************************************************************************)
EXTENDS MCApplication, TLAPS

-----------------------------------------------------------------------------
(* The first-run setup.                                                     *)

\* What is known of a job at each of its steps: it waits for a task or has been told of its
\* end; a benchmark is cancelled by the watchdog alone, whose cancellation is remembered.
OneState(j) ==
  /\ jobs[j].pc = "none" => jobs[j] = NoJob
  /\ jobs[j].got # "none" => jobs[j].waits = "none"
  /\ jobs[j].pc \in {"none", "begin", "bench", "append", "done"} => jobs[j].waits = "none"
  /\ jobs[j].pc \in {"bench", "append"} => jobs[j].stage = "benchmarking" /\ (jobs[j].asked => jobs[j].hit)
  /\ jobs[j].timedOut => jobs[j].asked
  /\ jobs[j].hit => jobs[j].timedOut
  /\ jobs[j].asked => jobs[j].status # "ready"

\* A task that a job started has that job waiting for it, or its watchdog took it away.
TasksHaveOwners ==
  \A j \in JobIds :
    /\ conv.live /\ conv.by = j => jobs[j].waits = "conv"
    /\ load.live /\ load.by = j => jobs[j].waits = "load" \/ jobs[j].timedOut

RecordIsVerified == setup.completed => setup.benchmark /\ setup.device # "none"

OnboardIInv ==
  /\ OnboardTypeOK /\ (\A j \in JobIds : OneState(j)) /\ TasksHaveOwners
  /\ NothingLeftBehind /\ WaitsForATask /\ OnePreparation /\ RecordIsVerified

LEMMA OnboardInitIInv == OnboardInit => OnboardIInv
<1> SUFFICES ASSUME OnboardInit PROVE OnboardIInv
  OBVIOUS
<1> USE OnboardingAssumption DEF OnboardInit
<1>1. OnboardTypeOK
  <2>1. jobs \in [JobIds -> Preparations]
    BY DEF Preparations, NoJob, Devices
  <2>2. dogs \in [JobIds -> {"off", "watching", "waiting"}]
    OBVIOUS
  <2>3. {conv, load} \subseteq [live : BOOLEAN, by : 0..MaxJobs, stop : BOOLEAN]
    BY DEF NoTask
  <2>4. setup \in [completed : BOOLEAN, restart : BOOLEAN, device : Devices, benchmark : BOOLEAN]
    BY DEF Unverified, Devices
  <2>5. \A j \in JobIds : jobs[j].pc \in JobRunning <=> jobs[j].status = "running"
    BY DEF NoJob, JobRunning
  <2>6. QED
    BY <2>1, <2>2, <2>3, <2>4, <2>5 DEF OnboardTypeOK
<1>2. \A j \in JobIds : OneState(j)
  BY DEF OneState, NoJob
<1>3. TasksHaveOwners /\ NothingLeftBehind /\ WaitsForATask /\ OnePreparation /\ RecordIsVerified
  BY DEF TasksHaveOwners, NothingLeftBehind, WaitsForATask, OnePreparation, RecordIsVerified, NoJob,
         NoTask, Unverified
<1>4. QED
  BY <1>1, <1>2, <1>3 DEF OnboardIInv

\* A step of one job that leaves setup and dogs alone, in terms of the job before and after.
JobMoves(j) ==
  /\ jobs' = [jobs EXCEPT ![j] = jobs'[j]] /\ jobs'[j] \in Preparations
  /\ jobs[j].status = "running" /\ jobs'[j].pc # "none"
  /\ jobs'[j].pc \in JobRunning <=> jobs'[j].status = "running"
  /\ jobs'[j].got # "none" => jobs'[j].waits = "none"
  /\ jobs'[j].pc \in {"none", "begin", "bench", "append", "done"} => jobs'[j].waits = "none"
  /\ jobs'[j].pc \in {"bench", "append"}
       => jobs'[j].stage = "benchmarking" /\ (jobs'[j].asked => jobs'[j].hit)
  /\ jobs'[j].timedOut = jobs[j].timedOut /\ jobs'[j].asked = jobs[j].asked
  /\ jobs'[j].hit => jobs[j].hit
  /\ jobs'[j].asked => jobs'[j].status # "ready"

\* What it does to the tasks: it stops them, begins one that it waits for, or ends when none is left.
TasksMove(j) ==
  /\ {conv', load'} \subseteq [live : BOOLEAN, by : 0..MaxJobs, stop : BOOLEAN]
  /\ conv.live => conv'.live /\ conv'.by = conv.by
  /\ load.live => load'.live /\ load'.by = load.by
  /\ ~conv.live /\ conv'.live => conv'.by = j /\ jobs'[j].waits = "conv"
  /\ ~load.live /\ load'.live => load'.by = j /\ jobs'[j].waits = "load"
  /\ jobs'[j].waits = "conv" => conv'.live
  /\ jobs'[j].waits = "load" => load'.live
  /\ jobs[j].waits = "conv" => jobs'[j].waits = "conv"
  /\ jobs[j].waits = "load" => jobs'[j].waits = "load" \/ jobs[j].timedOut
  /\ follow' \in BOOLEAN /\ loaded' \in BOOLEAN /\ files' \in {"none", "partial", "complete"}

LEMMA JobMovesKeeps ==
  ASSUME NEW j \in JobIds, OnboardIInv, JobMoves(j), TasksMove(j), UNCHANGED dogs,
         setup' = setup \/ (setup' \in [completed : BOOLEAN, restart : BOOLEAN, device : Devices,
                                        benchmark : BOOLEAN] /\ setup'.benchmark /\ setup'.device # "none")
  PROVE  OnboardIInv'
<1> USE DEF OnboardIInv, OnboardTypeOK
<1>1. \A k \in JobIds \ {j} : jobs'[k] = jobs[k]
  BY DEF JobMoves
<1>2. OnboardTypeOK'
  BY <1>1 DEF JobMoves, TasksMove
<1>3. ASSUME NEW k \in JobIds PROVE OneState(k)'
  BY <1>1 DEF JobMoves, OneState
<1>4. TasksHaveOwners'
  BY <1>1 DEF JobMoves, TasksMove, TasksHaveOwners
<1>5. NothingLeftBehind'
  <2>1. \A k \in JobIds : jobs'[k].status = "cancelled" => jobs'[k].waits = "none"
    BY <1>2, <1>3 DEF OneState, JobRunning, Preparations
  <2>2. QED
    BY <2>1, <1>4 DEF NothingLeftBehind, TasksHaveOwners
<1>6. WaitsForATask' /\ OnePreparation' /\ RecordIsVerified'
  BY <1>1 DEF JobMoves, TasksMove, WaitsForATask, OnePreparation, RecordIsVerified
<1>7. QED
  BY <1>2, <1>3, <1>4, <1>5, <1>6


\* The job's record after a step, and the record of setup left alone.
Tasks == [live : BOOLEAN, by : 0..MaxJobs, stop : BOOLEAN]

LEMMA JobTypes ==
  ASSUME NEW j \in JobIds, OnboardIInv
  PROVE  /\ jobs[j] \in Preparations /\ conv \in Tasks /\ load \in Tasks /\ OneState(j)
         /\ conv.live \in BOOLEAN /\ load.live \in BOOLEAN
         /\ follow \in BOOLEAN /\ loaded \in BOOLEAN /\ files \in {"none", "partial", "complete"}
         /\ jobs[j].waits = "conv" => conv.live
         /\ jobs[j].waits = "load" => load.live
         /\ jobs[j].pc \in JobRunning <=> jobs[j].status = "running"
BY DEF OnboardIInv, OnboardTypeOK, Tasks, WaitsForATask

\* The ways a job's record changes.
LEMMA JobUpdates ==
  ASSUME NEW j \in JobIds, OnboardIInv, jobs[j].status = "running", NEW r, jobs' = [jobs EXCEPT ![j] = r],
         r \in Preparations, r.pc # "none", r.pc \in JobRunning <=> r.status = "running",
         r.got # "none" => r.waits = "none",
         r.pc \in {"none", "begin", "bench", "append", "done"} => r.waits = "none",
         r.pc \in {"bench", "append"} => r.stage = "benchmarking" /\ (r.asked => r.hit),
         r.timedOut = jobs[j].timedOut, r.asked = jobs[j].asked, r.hit => jobs[j].hit,
         r.asked => r.status # "ready"
  PROVE  JobMoves(j) /\ jobs'[j] = r
BY DEF OnboardIInv, OnboardTypeOK, JobMoves

LEMMA TaskUpdates ==
  ASSUME NEW j \in JobIds, OnboardIInv, UNCHANGED <<conv, load>>, follow' \in BOOLEAN, loaded' \in BOOLEAN,
         files' \in {"none", "partial", "complete"},
         jobs'[j].waits = "conv" => conv.live, jobs'[j].waits = "load" => load.live,
         jobs[j].waits = "conv" => jobs'[j].waits = "conv",
         jobs[j].waits = "load" => jobs'[j].waits = "load" \/ jobs[j].timedOut
  PROVE  TasksMove(j)
BY JobTypes DEF TasksMove, Tasks

LEMMA EndsMoves ==
  ASSUME NEW j \in JobIds, OnboardIInv, jobs[j].status = "running", NEW outcome \in {"failed", "cancelled"},
         Ends(j, outcome)
  PROVE  JobMoves(j) /\ jobs'[j].waits = "none"
<1> DEFINE r == [jobs[j] EXCEPT !.pc = "done", !.status = outcome, !.stage = outcome,
                                !.hit = FALSE, !.waits = "none", !.got = "none"]
<1>1. jobs' = [jobs EXCEPT ![j] = r]
  BY DEF Ends, OnboardIInv, OnboardTypeOK
<1>2. r \in Preparations
  BY JobTypes DEF Preparations
<1>3. /\ r.pc = "done" /\ r.status = outcome /\ r.waits = "none" /\ r.got = "none" /\ r.hit = FALSE
      /\ r.timedOut = jobs[j].timedOut /\ r.asked = jobs[j].asked
  BY JobTypes DEF Preparations
<1>4. "done" \notin JobRunning
  BY DEF JobRunning
<1> HIDE DEF r
<1>5. QED
  BY <1>1, <1>2, <1>3, <1>4, JobUpdates

LEMMA FailMoves ==
  ASSUME NEW j \in JobIds, OnboardIInv, jobs[j].status = "running", jobs[j].waits = "none", Fail(j)
  PROVE  JobMoves(j) /\ TasksMove(j) /\ setup' = setup
<1>1. JobMoves(j) /\ jobs'[j].waits = "none"
  BY EndsMoves DEF Fail
<1>2. /\ UNCHANGED <<conv, load, follow, setup>> /\ loaded' \in BOOLEAN
      /\ files' \in {"none", "partial", "complete"}
  BY JobTypes DEF Fail, TryUnload, Quarantine
<1>3. QED
  BY <1>1, <1>2, TaskUpdates, JobTypes

LEMMA CleanUpMoves ==
  ASSUME NEW j \in JobIds, OnboardIInv, jobs[j].status = "running", jobs[j].waits = "none",
         CleanUp(j)
  PROVE  JobMoves(j) /\ TasksMove(j) /\ setup' = setup
<1>1. JobMoves(j) /\ jobs'[j].waits = "none"
  BY EndsMoves DEF CleanUp
<1>2. /\ UNCHANGED <<conv, load, follow, setup>> /\ loaded' \in BOOLEAN
      /\ files' \in {"none", "partial", "complete"}
  BY JobTypes DEF CleanUp, TryUnload, Quarantine
<1>3. QED
  BY <1>1, <1>2, TaskUpdates, JobTypes

LEMMA AwaitsMoves ==
  ASSUME NEW j \in JobIds, OnboardIInv, jobs[j].status = "running", ~jobs[j].hit,
         NEW pc \in JobRunning, NEW stage, NEW task \in {"none", "conv", "load"},
         stage \in {"downloading", "compiling", "benchmarking"},
         pc \in {"begin", "bench", "append"} => task = "none",
         pc \in {"bench", "append"} => stage = "benchmarking" /\ ~jobs[j].asked,
         Awaits(j, pc, stage, task)
  PROVE  JobMoves(j) /\ jobs'[j].waits = task
<1> DEFINE r == [jobs[j] EXCEPT !.pc = pc, !.stage = stage, !.waits = task, !.got = "none"]
<1>1. jobs' = [jobs EXCEPT ![j] = r]
  BY DEF Awaits, OnboardIInv, OnboardTypeOK
<1>2. r \in Preparations
  BY JobTypes DEF Preparations
<1>3. /\ r.pc = pc /\ r.stage = stage /\ r.waits = task /\ r.got = "none" /\ r.status = "running"
      /\ r.timedOut = jobs[j].timedOut /\ r.asked = jobs[j].asked /\ r.hit = jobs[j].hit
  BY JobTypes DEF Preparations
<1>4. "done" \notin JobRunning /\ "none" \notin JobRunning
  BY DEF JobRunning
<1> HIDE DEF r
<1>5. QED
  BY <1>1, <1>2, <1>3, <1>4, JobUpdates

LEMMA CleansUpAfterMoves ==
  ASSUME NEW j \in JobIds, OnboardIInv, jobs[j].status = "running", NEW task \in {"conv", "load"},
         CleansUpAfter(j, task)
  PROVE  JobMoves(j) /\ jobs'[j].waits = task
<1> DEFINE r == [jobs[j] EXCEPT !.pc = "cleaning", !.waits = task, !.got = "none", !.hit = FALSE]
<1>1. jobs' = [jobs EXCEPT ![j] = r]
  BY DEF CleansUpAfter, OnboardIInv, OnboardTypeOK
<1>2. r \in Preparations
  BY JobTypes DEF Preparations, JobRunning
<1>3. /\ r.pc = "cleaning" /\ r.waits = task /\ r.got = "none" /\ r.status = "running"
      /\ r.timedOut = jobs[j].timedOut /\ r.asked = jobs[j].asked /\ r.hit = FALSE
  BY JobTypes DEF Preparations
<1>4. "cleaning" \in JobRunning
  BY DEF JobRunning
<1> HIDE DEF r
<1>5. QED
  BY <1>1, <1>2, <1>3, <1>4, JobUpdates

LEMMA CancelledMoves ==
  ASSUME NEW j \in JobIds, OnboardIInv, jobs[j].status = "running", Cancelled(j),
         jobs[j].waits = "load" => jobs[j].timedOut
  PROVE  JobMoves(j) /\ TasksMove(j) /\ setup' = setup
<1>1. CASE CleanUp(j) /\ ~conv.live /\ ~load.live
  <2>1. jobs[j].waits \in {"none", "conv", "load"}
    BY JobTypes DEF Preparations
  <2>2. jobs[j].waits = "none"
    BY <1>1, <2>1, JobTypes
  <2>3. QED
    BY <1>1, <2>2, CleanUpMoves
<1>2. CASE /\ conv.live /\ conv' = [conv EXCEPT !.stop = TRUE] /\ CleansUpAfter(j, "conv")
           /\ UNCHANGED <<load, follow, files, loaded, setup>>
  <2>1. JobMoves(j) /\ jobs'[j].waits = "conv"
    BY <1>2, CleansUpAfterMoves
  <2>2. conv' \in Tasks /\ conv'.live = conv.live /\ conv'.by = conv.by
    BY <1>2, JobTypes DEF Tasks
  <2>3. QED
    BY <1>2, <2>1, <2>2, JobTypes DEF TasksMove, Tasks
<1>3. CASE /\ ~conv.live /\ load.live /\ load' = [load EXCEPT !.stop = TRUE] /\ CleansUpAfter(j, "load")
           /\ UNCHANGED <<conv, follow, files, loaded, setup>>
  <2>1. JobMoves(j) /\ jobs'[j].waits = "load"
    BY <1>3, CleansUpAfterMoves
  <2>2. load' \in Tasks /\ load'.live = load.live /\ load'.by = load.by
    BY <1>3, JobTypes DEF Tasks
  <2>3. QED
    BY <1>3, <2>1, <2>2, JobTypes DEF TasksMove, Tasks
<1>4. QED
  BY <1>1, <1>2, <1>3 DEF Cancelled

LEMMA AfterLoadMoves ==
  ASSUME NEW j \in JobIds, OnboardIInv, jobs[j].status = "running", jobs[j].waits = "none", ~jobs[j].hit,
         AfterLoad(j)
  PROVE  JobMoves(j) /\ TasksMove(j) /\ setup' = setup
<1>1. CASE Fail(j)
  BY <1>1, FailMoves
<1>2. CASE Cancelled(j)
  BY <1>2, CancelledMoves
<1>3. CASE /\ loaded /\ ~jobs[j].asked /\ Awaits(j, "bench", "benchmarking", "none")
           /\ UNCHANGED <<managerVars, setup>>
  <2>1. JobMoves(j) /\ jobs'[j].waits = "none"
    BY <1>3, AwaitsMoves DEF JobRunning
  <2>2. QED
    BY <1>3, <2>1, TaskUpdates, JobTypes DEF managerVars
<1>4. QED
  BY <1>1, <1>2, <1>3 DEF AfterLoad

LEMMA ScheduleMoves ==
  ASSUME NEW j \in JobIds, OnboardIInv, jobs[j].status = "running", jobs[j].waits = "none", ~jobs[j].hit,
         ScheduleLoadAndWait(j)
  PROVE  JobMoves(j) /\ TasksMove(j) /\ setup' = setup
<1>1. CASE AfterLoad(j)
  BY <1>1, AfterLoadMoves
<1>2. CASE /\ conv.live /\ follow' = TRUE /\ Awaits(j, "load", "compiling", "conv")
           /\ UNCHANGED <<conv, load, files, loaded, setup>>
  <2>1. JobMoves(j) /\ jobs'[j].waits = "conv"
    BY <1>2, AwaitsMoves DEF JobRunning
  <2>2. QED
    BY <1>2, <2>1, TaskUpdates, JobTypes
<1>3. CASE /\ ~conv.live /\ ~loaded /\ Awaits(j, "load", "compiling", "load")
           /\ load' = IF load.live THEN load ELSE [NoTask EXCEPT !.live = TRUE, !.by = j]
           /\ UNCHANGED <<conv, follow, files, loaded, setup>>
  <2>1. JobMoves(j) /\ jobs'[j].waits = "load"
    BY <1>3, AwaitsMoves DEF JobRunning
  <2>2. load' \in Tasks /\ load'.live /\ (load.live => load'.by = load.by) /\ (~load.live => load'.by = j)
    <3>1. CASE load.live
      BY <1>3, <3>1, JobTypes
    <3>2. CASE ~load.live
      <4>1. load' = [live |-> TRUE, by |-> j, stop |-> FALSE]
        BY <1>3, <3>2 DEF NoTask
      <4>2. j \in 0..MaxJobs
        BY OnboardingAssumption DEF JobIds
      <4>3. QED
        BY <3>2, <4>1, <4>2 DEF Tasks
    <3>3. QED
      BY <3>1, <3>2
  <2>3. QED
    BY <1>3, <2>1, <2>2, JobTypes DEF TasksMove, Tasks
<1>4. QED
  BY <1>1, <1>2, <1>3 DEF ScheduleLoadAndWait

LEMMA ValidateMoves ==
  ASSUME NEW j \in JobIds, OnboardIInv, jobs[j].status = "running", jobs[j].waits = "none", ~jobs[j].hit,
         Validate(j)
  PROVE  JobMoves(j) /\ TasksMove(j) /\ setup' = setup
BY FailMoves, CancelledMoves, ScheduleMoves DEF Validate

-----------------------------------------------------------------------------
\* The steps of a job.

LEMMA BeginKeeps == ASSUME NEW j \in JobIds, OnboardIInv, Begin(j) PROVE OnboardIInv'
<1>1. jobs[j].status = "running" /\ jobs[j].waits = "none" /\ ~jobs[j].hit /\ UNCHANGED dogs
  BY JobTypes DEF Begin, OnJob, JobRunning, OneState
<1>2. JobMoves(j) /\ TasksMove(j) /\ setup' = setup
  <2>1. CASE Cancelled(j)
    BY <1>1, <2>1, CancelledMoves
  <2>2. CASE Validate(j)
    BY <1>1, <2>2, ValidateMoves
  <2>3. CASE Fail(j)
    BY <1>1, <2>3, FailMoves
  <2>4. CASE /\ conv' = IF conv.live THEN conv ELSE [NoTask EXCEPT !.live = TRUE, !.by = j]
             /\ Awaits(j, "convert", "downloading", "conv")
             /\ UNCHANGED <<load, follow, files, loaded, setup>>
    <3>1. JobMoves(j) /\ jobs'[j].waits = "conv"
      BY <1>1, <2>4, AwaitsMoves DEF JobRunning
    <3>2. conv' \in Tasks /\ conv'.live /\ (conv.live => conv'.by = conv.by) /\ (~conv.live => conv'.by = j)
      <4>1. CASE conv.live
        BY <2>4, <4>1, JobTypes
      <4>2. CASE ~conv.live
        <5>1. conv' = [live |-> TRUE, by |-> j, stop |-> FALSE]
          BY <2>4, <4>2 DEF NoTask
        <5>2. j \in 0..MaxJobs
          BY OnboardingAssumption DEF JobIds
        <5>3. QED
          BY <4>2, <5>1, <5>2 DEF Tasks
      <4>3. QED
        BY <4>1, <4>2
    <3>3. QED
      BY <1>1, <2>4, <3>1, <3>2, JobTypes DEF TasksMove, Tasks
  <2>5. QED
    BY <2>1, <2>2, <2>3, <2>4 DEF Begin
<1>3. QED
  BY <1>1, <1>2, JobMovesKeeps

LEMMA NoticeCancelKeeps == ASSUME NEW j \in JobIds, OnboardIInv, NoticeCancel(j) PROVE OnboardIInv'
<1> DEFINE r == [jobs[j] EXCEPT !.pc = "stopping"]
<1>1. jobs[j].status = "running" /\ jobs[j].got = "none" /\ UNCHANGED <<dogs, setup>>
  BY JobTypes DEF NoticeCancel, JobRunning
<1>2. jobs' = [jobs EXCEPT ![j] = r] /\ r \in Preparations
  BY JobTypes DEF NoticeCancel, OnboardIInv, OnboardTypeOK, Preparations, JobRunning
<1>3. /\ r.pc = "stopping" /\ r.waits = jobs[j].waits /\ r.got = "none" /\ r.status = "running"
      /\ r.timedOut = jobs[j].timedOut /\ r.asked = jobs[j].asked /\ r.hit = jobs[j].hit
  BY <1>1, JobTypes DEF Preparations
<1>4. "stopping" \in JobRunning
  BY DEF JobRunning
<1> HIDE DEF r
<1>5. JobMoves(j) /\ jobs'[j].waits = jobs[j].waits
  <2>1. JobMoves(j) /\ jobs'[j] = r
    BY <1>1, <1>2, <1>3, <1>4, JobUpdates
  <2>2. QED
    BY <1>3, <2>1
<1>6. /\ conv' \in Tasks /\ conv'.live = conv.live /\ conv'.by = conv.by
      /\ load' \in Tasks /\ load'.live = load.live /\ load'.by = load.by
      /\ UNCHANGED <<follow, files, loaded>>
  BY JobTypes DEF NoticeCancel, Tasks
<1>7. TasksMove(j)
  BY <1>5, <1>6, JobTypes DEF TasksMove, Tasks
<1>8. QED
  BY <1>1, <1>5, <1>7, JobMovesKeeps

LEMMA AwaitOverKeeps == ASSUME NEW j \in JobIds, OnboardIInv, AwaitOver(j) PROVE OnboardIInv'
<1>1. jobs[j].status = "running" /\ jobs[j].waits = "none" /\ ~jobs[j].hit /\ UNCHANGED dogs
  BY JobTypes DEF AwaitOver, JobRunning, OneState
<1>2. JobMoves(j) /\ TasksMove(j) /\ setup' = setup
  BY <1>1, CancelledMoves, ValidateMoves, AfterLoadMoves DEF AwaitOver
<1>3. QED
  BY <1>1, <1>2, JobMovesKeeps

LEMMA CleanedUpKeeps == ASSUME NEW j \in JobIds, OnboardIInv, CleanedUp(j) PROVE OnboardIInv'
<1>1. jobs[j].status = "running" /\ jobs[j].waits = "none" /\ CleanUp(j) /\ UNCHANGED dogs
  BY JobTypes DEF CleanedUp, JobRunning, OneState
<1>2. JobMoves(j) /\ TasksMove(j) /\ setup' = setup
  BY <1>1, CleanUpMoves
<1>3. QED
  BY <1>1, <1>2, JobMovesKeeps

LEMMA BenchmarkRunKeeps == ASSUME NEW j \in JobIds, OnboardIInv, BenchmarkRun(j) PROVE OnboardIInv'
<1> DEFINE r == [jobs[j] EXCEPT !.pc = "append"]
<1>1. /\ jobs[j].status = "running" /\ jobs[j].waits = "none" /\ ~jobs[j].hit /\ UNCHANGED dogs
      /\ jobs[j].stage = "benchmarking" /\ ~jobs[j].asked
  BY JobTypes DEF BenchmarkRun, OnJob, JobRunning, OneState
<1>2. CASE Fail(j)
  BY <1>1, <1>2, FailMoves, JobMovesKeeps
<1>3. CASE jobs' = [jobs EXCEPT ![j].pc = "append"] /\ UNCHANGED <<managerVars, setup>>
  <2>1. jobs' = [jobs EXCEPT ![j] = r] /\ r \in Preparations
    BY <1>3, JobTypes DEF OnboardIInv, OnboardTypeOK, Preparations, JobRunning
  <2>2. /\ r.pc = "append" /\ r.waits = "none" /\ r.got = jobs[j].got /\ r.status = "running"
        /\ r.timedOut = jobs[j].timedOut /\ r.asked = jobs[j].asked /\ r.hit = jobs[j].hit
        /\ r.stage = "benchmarking"
    BY <1>1, JobTypes DEF Preparations
  <2>3. "append" \in JobRunning
    BY DEF JobRunning
  <2> HIDE DEF r
  <2>4. JobMoves(j) /\ jobs'[j].waits = "none"
    BY <1>1, <2>1, <2>2, <2>3, JobUpdates
  <2>5. TasksMove(j)
    BY <1>1, <1>3, <2>4, TaskUpdates, JobTypes DEF managerVars
  <2>6. QED
    BY <1>1, <1>3, <2>4, <2>5, JobMovesKeeps
<1>4. QED
  BY <1>2, <1>3 DEF BenchmarkRun

LEMMA BenchmarkStoredKeeps == ASSUME NEW j \in JobIds, OnboardIInv, BenchmarkStored(j) PROVE OnboardIInv'
<1>1. /\ jobs[j].status = "running" /\ jobs[j].waits = "none" /\ ~jobs[j].hit /\ UNCHANGED dogs
      /\ jobs[j].stage = "benchmarking" /\ ~jobs[j].asked
  BY JobTypes DEF BenchmarkStored, OnJob, JobRunning, OneState
<1>2. CASE Fail(j)
  BY <1>1, <1>2, FailMoves, JobMovesKeeps
<1>3. ASSUME NEW device \in {"one", "many"}, NEW outcome \in {"ready", "failed"},
             Benchmarked(j, device, outcome)
      PROVE  JobMoves(j) /\ jobs'[j].waits = "none"
  <2> DEFINE r == [jobs[j] EXCEPT !.pc = "done", !.status = outcome, !.stage = outcome,
                                  !.benchmark = TRUE, !.device = device]
  <2>1. jobs' = [jobs EXCEPT ![j] = r]
    BY <1>3 DEF Benchmarked, OnboardIInv, OnboardTypeOK
  <2>2. r \in Preparations
    <3>1. device \in Devices
      BY DEF Devices
    <3>2. QED
      BY <3>1, JobTypes DEF Preparations
  <2>3. /\ r.pc = "done" /\ r.waits = "none" /\ r.got = jobs[j].got /\ r.status = outcome
        /\ r.timedOut = jobs[j].timedOut /\ r.asked = jobs[j].asked /\ r.hit = jobs[j].hit
    BY <1>1, JobTypes DEF Preparations
  <2>4. "done" \notin JobRunning
    BY DEF JobRunning
  <2> HIDE DEF r
  <2>5. JobMoves(j) /\ jobs'[j] = r
    BY <1>1, <1>3, <2>1, <2>2, <2>3, <2>4, JobUpdates
  <2>6. QED
    BY <2>3, <2>5
<1>4. ASSUME NEW device \in {"one", "many"}, Benchmarked(j, device, "ready"), UNCHANGED managerVars,
             setup' = [completed |-> TRUE, restart |-> FALSE, device |-> device, benchmark |-> TRUE]
      PROVE  OnboardIInv'
  <2>1. TasksMove(j)
    BY <1>1, <1>3, <1>4, TaskUpdates, JobTypes DEF managerVars
  <2>2. /\ setup' \in [completed : BOOLEAN, restart : BOOLEAN, device : Devices, benchmark : BOOLEAN]
        /\ setup'.benchmark /\ setup'.device # "none"
    BY <1>4 DEF Devices
  <2>3. QED
    BY <1>1, <1>3, <1>4, <2>1, <2>2, JobMovesKeeps
<1>5. ASSUME NEW device \in {"one", "many"}, Benchmarked(j, device, "failed"), Quarantine(j),
             UNCHANGED <<conv, load, follow, loaded, setup>>
      PROVE  OnboardIInv'
  <2>1. TasksMove(j)
    BY <1>1, <1>3, <1>5, TaskUpdates, JobTypes DEF Quarantine
  <2>2. QED
    BY <1>1, <1>3, <1>5, <2>1, JobMovesKeeps
<1>6. QED
  BY <1>2, <1>4, <1>5 DEF BenchmarkStored

LEMMA HitArrivesKeeps == ASSUME NEW j \in JobIds, OnboardIInv, HitArrives(j) PROVE OnboardIInv'
<1> DEFINE r == [jobs[j] EXCEPT !.hit = FALSE]
<1>1. jobs[j].status = "running" /\ jobs[j].timedOut /\ UNCHANGED dogs
  BY JobTypes DEF HitArrives, JobRunning, OneState
<1>2. CASE Cancelled(j)
  BY <1>1, <1>2, CancelledMoves, JobMovesKeeps
<1>3. CASE /\ jobs[j].pc \in {"stopping", "cleaning"} /\ jobs' = [jobs EXCEPT ![j].hit = FALSE]
           /\ UNCHANGED <<managerVars, setup>>
  <2>1. jobs' = [jobs EXCEPT ![j] = r]
    BY <1>3 DEF OnboardIInv, OnboardTypeOK
  <2>0. r \in Preparations
    BY JobTypes DEF Preparations
  <2>2. /\ r.pc = jobs[j].pc /\ r.waits = jobs[j].waits /\ r.got = jobs[j].got /\ r.status = "running"
        /\ r.timedOut = jobs[j].timedOut /\ r.asked = jobs[j].asked /\ r.hit = FALSE
    BY <1>1, JobTypes DEF Preparations
  <2>3. jobs[j].pc \in JobRunning /\ jobs[j].pc \notin {"none", "begin", "bench", "append", "done"}
    BY <1>3 DEF JobRunning
  <2>4. r.got # "none" => r.waits = "none"
    BY <2>2, JobTypes DEF OneState
  <2> HIDE DEF r
  <2>5. JobMoves(j) /\ jobs'[j].waits = jobs[j].waits
    BY <1>1, <2>0, <2>1, <2>2, <2>3, <2>4, JobUpdates
  <2>6. TasksMove(j)
    BY <1>3, <2>5, TaskUpdates, JobTypes DEF managerVars
  <2>7. QED
    BY <1>1, <1>3, <2>5, <2>6, JobMovesKeeps
<1>4. QED
  BY <1>2, <1>3 DEF HitArrives

-----------------------------------------------------------------------------
\* The steps that leave the tasks alone.

SetupRecords == [completed : BOOLEAN, restart : BOOLEAN, device : Devices, benchmark : BOOLEAN]

LEMMA OneJobKeeps ==
  ASSUME NEW j \in JobIds, OnboardIInv, NEW r \in Preparations, jobs' = [jobs EXCEPT ![j] = r],
         UNCHANGED <<conv, load, follow, files>>,
         dogs' \in [JobIds -> {"off", "watching", "waiting"}], loaded' \in BOOLEAN,
         setup' \in SetupRecords, setup'.completed => setup'.benchmark /\ setup'.device # "none",
         r.waits = jobs[j].waits, jobs[j].timedOut => r.timedOut,
         r.status = "running" => jobs[j].status = "running" \/ \A k \in JobIds : jobs[k].status # "running",
         r.status = "cancelled" => jobs[j].status = "cancelled",
         r.pc \in JobRunning <=> r.status = "running",
         r.pc # "none", r.got # "none" => r.waits = "none",
         r.pc \in {"none", "begin", "bench", "append", "done"} => r.waits = "none",
         r.pc \in {"bench", "append"} => r.stage = "benchmarking" /\ (r.asked => r.hit),
         r.timedOut => r.asked, r.hit => r.timedOut, r.asked => r.status # "ready"
  PROVE  OnboardIInv'
<1> USE DEF OnboardIInv
<1>1. jobs'[j] = r /\ \A k \in JobIds \ {j} : jobs'[k] = jobs[k]
  BY DEF OnboardTypeOK
<1>2. OnboardTypeOK'
  BY <1>1 DEF OnboardTypeOK, SetupRecords
<1>3. ASSUME NEW k \in JobIds PROVE OneState(k)'
  BY <1>1 DEF OneState
<1>4. TasksHaveOwners'
  BY <1>1 DEF TasksHaveOwners
<1>5. NothingLeftBehind'
  BY <1>1 DEF NothingLeftBehind
<1>6. WaitsForATask' /\ OnePreparation' /\ RecordIsVerified'
  BY <1>1 DEF WaitsForATask, OnePreparation, RecordIsVerified
<1>7. QED
  BY <1>2, <1>3, <1>4, <1>5, <1>6

\* Without any change of a job
LEMMA NoJobKeeps ==
  ASSUME OnboardIInv, UNCHANGED <<jobs, conv, load, follow, files>>,
         dogs' \in [JobIds -> {"off", "watching", "waiting"}], loaded' \in BOOLEAN,
         setup' \in SetupRecords, setup'.completed => setup'.benchmark /\ setup'.device # "none"
  PROVE  OnboardIInv'
BY DEF OnboardIInv, OnboardTypeOK, SetupRecords, OneState, TasksHaveOwners, NothingLeftBehind,
       WaitsForATask, OnePreparation, RecordIsVerified

LEMMA SetupTypes ==
  ASSUME OnboardIInv
  PROVE  /\ setup \in SetupRecords /\ (setup.completed => setup.benchmark /\ setup.device # "none")
         /\ dogs \in [JobIds -> {"off", "watching", "waiting"}] /\ jobs \in [JobIds -> Preparations]
BY DEF OnboardIInv, OnboardTypeOK, SetupRecords, RecordIsVerified

LEMMA StartPreparationKeeps ==
  ASSUME NEW j \in JobIds, OnboardIInv, StartPreparation(j) PROVE OnboardIInv'
<1> DEFINE r == [jobs[j] EXCEPT !.pc = "begin", !.status = "running", !.wasDownloaded = files = "complete"]
<1>1. /\ jobs[j] = NoJob /\ \A k \in JobIds : jobs[k].status # "running"
      /\ UNCHANGED <<managerVars, setup>> /\ dogs' = [dogs EXCEPT ![j] = "watching"]
      /\ jobs' = [jobs EXCEPT ![j] = r]
  BY JobTypes, SetupTypes DEF StartPreparation, OneState
<1>2. r \in Preparations
  <2>1. "begin" \in JobRunning /\ (files = "complete") \in BOOLEAN
    BY DEF JobRunning
  <2>2. QED
    BY <2>1, JobTypes DEF Preparations
<1>3. /\ r.pc = "begin" /\ r.status = "running" /\ r.waits = "none" /\ r.got = "none" /\ r.hit = FALSE
      /\ r.timedOut = FALSE /\ r.asked = FALSE /\ "begin" \in JobRunning
      /\ jobs[j].waits = "none" /\ ~jobs[j].timedOut
  BY <1>1 DEF NoJob, JobRunning
<1>4. dogs' \in [JobIds -> {"off", "watching", "waiting"}] /\ loaded' \in BOOLEAN
  BY <1>1, JobTypes, SetupTypes DEF managerVars
<1> HIDE DEF r
<1>5. QED
  BY <1>1, <1>2, <1>3, <1>4, SetupTypes, OneJobKeeps DEF managerVars

LEMMA CancelPreparationKeeps ==
  ASSUME NEW j \in JobIds, OnboardIInv, CancelPreparation(j) PROVE OnboardIInv'
<1> DEFINE r == [jobs[j] EXCEPT !.asked = TRUE]
<1>1. /\ jobs' = [jobs EXCEPT ![j] = r] /\ UNCHANGED <<dogs, managerVars, setup>>
      /\ jobs[j].status = "running" /\ jobs[j].stage # "benchmarking"
  BY SetupTypes DEF CancelPreparation
<1>2. r \in Preparations
  BY JobTypes DEF Preparations
<1>3. /\ r.pc = jobs[j].pc /\ r.status = "running" /\ r.waits = jobs[j].waits /\ r.got = jobs[j].got
      /\ r.hit = jobs[j].hit /\ r.stage = jobs[j].stage /\ r.timedOut = jobs[j].timedOut /\ r.asked = TRUE
  BY <1>1, JobTypes DEF Preparations
<1> HIDE DEF r
<1>4. /\ r.pc \in JobRunning /\ r.pc # "none" /\ (r.got # "none" => r.waits = "none")
      /\ r.pc \in {"none", "begin", "bench", "append", "done"} => r.waits = "none"
      /\ r.pc \notin {"bench", "append"} /\ (r.hit => r.timedOut)
  BY <1>1, <1>3, JobTypes DEF OneState, JobRunning
<1>5. QED
  BY <1>1, <1>2, <1>3, <1>4, SetupTypes, JobTypes, OneJobKeeps DEF managerVars

LEMMA TimeoutKeeps ==
  ASSUME NEW j \in JobIds, OnboardIInv, Timeout(j) PROVE OnboardIInv'
<1> DEFINE r == [jobs[j] EXCEPT !.asked = TRUE, !.hit = TRUE, !.timedOut = TRUE]
<1>1. /\ jobs' = [jobs EXCEPT ![j] = r] /\ UNCHANGED <<managerVars, setup>>
      /\ dogs' = [dogs EXCEPT ![j] = "waiting"] /\ jobs[j].status = "running"
  BY SetupTypes DEF Timeout
<1>2. r \in Preparations
  BY JobTypes DEF Preparations
<1>3. /\ r.pc = jobs[j].pc /\ r.status = "running" /\ r.waits = jobs[j].waits /\ r.got = jobs[j].got
      /\ r.hit = TRUE /\ r.stage = jobs[j].stage /\ r.timedOut = TRUE /\ r.asked = TRUE
  BY <1>1, JobTypes DEF Preparations
<1>4. dogs' \in [JobIds -> {"off", "watching", "waiting"}]
  BY <1>1, SetupTypes
<1> HIDE DEF r
<1>5. /\ r.pc \in JobRunning /\ r.pc # "none" /\ (r.got # "none" => r.waits = "none")
      /\ r.pc \in {"none", "begin", "bench", "append", "done"} => r.waits = "none"
      /\ r.pc \in {"bench", "append"} => r.stage = "benchmarking"
  BY <1>1, <1>3, JobTypes DEF OneState, JobRunning
<1>6. QED
  BY <1>1, <1>2, <1>3, <1>4, <1>5, SetupTypes, JobTypes, OneJobKeeps DEF managerVars

LEMMA UnfinishedType ==
  ASSUME OnboardIInv
  PROVE  /\ Unfinished \in SetupRecords /\ ~Unfinished.completed
         /\ [Unfinished EXCEPT !.restart = FALSE] \in SetupRecords
         /\ ~[Unfinished EXCEPT !.restart = FALSE].completed
         /\ [setup EXCEPT !.completed = FALSE, !.restart = TRUE] \in SetupRecords
         /\ ~[setup EXCEPT !.completed = FALSE, !.restart = TRUE].completed
<1>1. setup \in SetupRecords /\ "none" \in Devices
  BY SetupTypes DEF Devices
<1>2. QED
  BY <1>1 DEF Unfinished, SetupRecords

LEMMA WatchdogEndsKeeps ==
  ASSUME NEW j \in JobIds, OnboardIInv, WatchdogEnds(j) PROVE OnboardIInv'
<1>1. /\ dogs' \in [JobIds -> {"off", "watching", "waiting"}] /\ loaded' \in BOOLEAN
      /\ UNCHANGED <<conv, load, follow, files>> /\ jobs[j].pc = "done"
  BY SetupTypes, JobTypes DEF WatchdogEnds, TryUnload
<1>2. CASE UNCHANGED <<setup, jobs>>
  BY <1>1, <1>2, SetupTypes, NoJobKeeps
<1>3. CASE setup' = Unfinished /\ TimedOut(j)
  <2> DEFINE r == [jobs[j] EXCEPT !.status = "failed", !.stage = "failed"]
  <2>1. jobs' = [jobs EXCEPT ![j] = r] /\ setup' \in SetupRecords /\ ~setup'.completed
    BY <1>3, SetupTypes, UnfinishedType DEF TimedOut
  <2>2. r \in Preparations
    BY JobTypes DEF Preparations
  <2>3. /\ r.pc = "done" /\ r.status = "failed" /\ r.waits = jobs[j].waits /\ r.got = jobs[j].got
        /\ r.hit = jobs[j].hit /\ r.timedOut = jobs[j].timedOut /\ r.asked = jobs[j].asked
    BY <1>1, JobTypes DEF Preparations
  <2> HIDE DEF r
  <2>4. r.waits = "none" /\ (r.timedOut => r.asked) /\ (r.hit => r.timedOut) /\ "done" \notin JobRunning
    BY <1>1, <2>3, JobTypes DEF OneState, JobRunning
  <2>5. QED
    BY <1>1, <2>1, <2>2, <2>3, <2>4, OneJobKeeps
<1>4. QED
  BY <1>2, <1>3 DEF WatchdogEnds

LEMMA WatchdogSeesKeeps ==
  ASSUME NEW j \in JobIds, OnboardIInv, WatchdogSees(j) PROVE OnboardIInv'
<1>1. dogs' \in [JobIds -> {"off", "watching", "waiting"}] /\ UNCHANGED <<jobs, managerVars, setup>>
  BY SetupTypes DEF WatchdogSees
<1>2. QED
  BY <1>1, SetupTypes, JobTypes, NoJobKeeps DEF managerVars, OnboardIInv, OnboardTypeOK

LEMMA RejectKeeps ==
  ASSUME NEW j \in JobIds, OnboardIInv, Reject(j) PROVE OnboardIInv'
<1> DEFINE r == [jobs[j] EXCEPT !.status = "failed", !.stage = "failed", !.device = "none"]
<1>1. /\ jobs' = [jobs EXCEPT ![j] = r] /\ setup' \in SetupRecords /\ ~setup'.completed
      /\ UNCHANGED <<dogs, conv, load, follow, files>> /\ loaded' \in BOOLEAN /\ jobs[j].status = "ready"
  BY SetupTypes, JobTypes, UnfinishedType DEF Reject, TryUnload
<1>2. r \in Preparations
  <2>1. "none" \in Devices
    BY DEF Devices
  <2>2. QED
    BY <2>1, JobTypes DEF Preparations
<1>3. /\ r.pc = jobs[j].pc /\ r.status = "failed" /\ r.waits = jobs[j].waits /\ r.got = jobs[j].got
      /\ r.hit = jobs[j].hit /\ r.timedOut = jobs[j].timedOut /\ r.asked = jobs[j].asked
  BY <1>1, JobTypes DEF Preparations
<1> HIDE DEF r
<1>4. /\ r.pc = "done" /\ r.pc \notin JobRunning
  <2>1. jobs[j].pc \notin JobRunning /\ jobs[j].pc \in JobRunning \cup {"none", "done"}
    BY <1>1, JobTypes DEF Preparations
  <2>2. jobs[j].pc # "none"
    BY <1>1, JobTypes DEF OneState, NoJob
  <2>3. QED
    BY <1>3, <2>1, <2>2 DEF JobRunning
<1>5. r.waits = "none" /\ (r.timedOut => r.asked) /\ (r.hit => r.timedOut)
  BY <1>3, <1>4, JobTypes DEF OneState
<1>6. QED
  BY <1>1, <1>2, <1>3, <1>4, <1>5, SetupTypes, OneJobKeeps

LEMMA StatusKeeps == ASSUME OnboardIInv, Status \/ RestartSetup PROVE OnboardIInv'
<1>1. UNCHANGED <<jobs, dogs, managerVars>> /\ setup' \in SetupRecords /\ ~setup'.completed
  BY UnfinishedType DEF Status, RestartSetup
<1>2. QED
  BY <1>1, SetupTypes, NoJobKeeps DEF managerVars, OnboardIInv, OnboardTypeOK

-----------------------------------------------------------------------------
\* The steps of the tasks and of other clients.

\* What is left of the invariant when no job is told anything.
LEMMA TasksKeep ==
  ASSUME OnboardIInv, UNCHANGED <<jobs, dogs, setup>>, conv' \in Tasks, load' \in Tasks,
         follow' \in BOOLEAN, loaded' \in BOOLEAN, files' \in {"none", "partial", "complete"},
         conv.live => conv'.live /\ conv'.by = conv.by,
         load.live => load'.live /\ load'.by = load.by,
         ~conv.live => ~conv'.live \/ conv'.by = 0,
         ~load.live => ~load'.live \/ load'.by = 0
  PROVE  OnboardIInv'
<1> USE DEF OnboardIInv
<1>1. OnboardTypeOK'
  BY DEF OnboardTypeOK, Tasks
<1>2. \A j \in JobIds : OneState(j)'
  BY DEF OneState
<1>3. \A j \in JobIds : j # 0
  BY OnboardingAssumption DEF JobIds
<1>4. TasksHaveOwners' /\ NothingLeftBehind'
  BY <1>3 DEF TasksHaveOwners, NothingLeftBehind
<1>5. WaitsForATask' /\ OnePreparation' /\ RecordIsVerified'
  BY DEF WaitsForATask, OnePreparation, RecordIsVerified
<1>6. QED
  BY <1>1, <1>2, <1>4, <1>5

\* Whoever waits for a task that ends is told, and waits no longer.
LEMMA ToldKeeps ==
  ASSUME OnboardIInv, NEW task \in {"conv", "load"}, NEW outcome \in {"ended", "cancelled"},
         Told(task, outcome), UNCHANGED <<dogs, setup>>,
         conv' \in Tasks, load' \in Tasks,
         task = "conv" => ~conv'.live /\ (load.live => load' = load) /\ (~load.live => ~load'.live \/ load'.by = 0),
         task = "load" => ~load'.live /\ conv' = conv,
         follow' \in BOOLEAN, loaded' \in BOOLEAN, files' \in {"none", "partial", "complete"}
  PROVE  OnboardIInv'
<1> DEFINE told(j) == [jobs[j] EXCEPT !.got = outcome, !.waits = "none"]
<1> USE DEF OnboardIInv
<1>1. ASSUME NEW j \in JobIds
      PROVE  /\ told(j) \in Preparations /\ told(j).got = outcome /\ told(j).waits = "none"
             /\ told(j).pc = jobs[j].pc /\ told(j).status = jobs[j].status /\ told(j).stage = jobs[j].stage
             /\ told(j).asked = jobs[j].asked /\ told(j).hit = jobs[j].hit
             /\ told(j).timedOut = jobs[j].timedOut
  <2>1. jobs[j] \in Preparations
    BY JobTypes
  <2>2. QED
    BY <2>1 DEF Preparations
<1>2. jobs' = [j \in JobIds |-> IF jobs[j].waits = task THEN told(j) ELSE jobs[j]]
  BY DEF Told
<1> HIDE DEF told
<1>3. ASSUME NEW j \in JobIds
      PROVE  /\ jobs'[j] \in Preparations /\ jobs'[j].pc = jobs[j].pc /\ jobs'[j].status = jobs[j].status
             /\ jobs'[j].stage = jobs[j].stage /\ jobs'[j].asked = jobs[j].asked
             /\ jobs'[j].hit = jobs[j].hit /\ jobs'[j].timedOut = jobs[j].timedOut
             /\ jobs[j].waits = task => jobs'[j].waits = "none"
             /\ jobs[j].waits # task => jobs'[j] = jobs[j]
  BY <1>1, <1>2, JobTypes
<1>4. OnboardTypeOK'
  <2>1. jobs' \in [JobIds -> Preparations]
    BY <1>2, <1>3
  <2>2. QED
    BY <1>3, <2>1 DEF OnboardTypeOK, Tasks
<1>5. ASSUME NEW j \in JobIds PROVE OneState(j)'
  <2>1. CASE jobs[j].waits = task
    <3>1. jobs'[j].pc # "none"
      BY <1>3, <2>1 DEF OneState
    <3>2. QED
      BY <1>3, <2>1, <3>1 DEF OneState
  <2>2. CASE jobs[j].waits # task
    BY <1>3, <2>2 DEF OneState
  <2>3. QED
    BY <2>1, <2>2
<1>6. \A j \in JobIds : j # 0
  BY OnboardingAssumption DEF JobIds
<1>7. TasksHaveOwners'
  BY <1>3, <1>6 DEF TasksHaveOwners
<1>8. NothingLeftBehind'
  BY <1>3, <1>6 DEF NothingLeftBehind
<1>9. WaitsForATask' /\ OnePreparation' /\ RecordIsVerified'
  BY <1>3 DEF WaitsForATask, OnePreparation, RecordIsVerified
<1>10. QED
  BY <1>4, <1>5, <1>7, <1>8, <1>9

LEMMA TaskTypes ==
  ASSUME OnboardIInv
  PROVE  /\ conv \in Tasks /\ load \in Tasks /\ NoTask \in Tasks /\ ~NoTask.live
         /\ conv.live \in BOOLEAN /\ load.live \in BOOLEAN
         /\ [NoTask EXCEPT !.live = TRUE] \in Tasks /\ [NoTask EXCEPT !.live = TRUE].by = 0
         /\ follow \in BOOLEAN /\ loaded \in BOOLEAN /\ files \in {"none", "partial", "complete"}
<1>1. 0 \in 0..MaxJobs
  BY OnboardingAssumption
<1>2. NoTask \in Tasks /\ ~NoTask.live
  BY <1>1 DEF NoTask, Tasks
<1>3. [NoTask EXCEPT !.live = TRUE] \in Tasks /\ [NoTask EXCEPT !.live = TRUE].by = 0
  BY <1>1 DEF NoTask, Tasks
<1>4. conv \in Tasks /\ load \in Tasks
  BY DEF OnboardIInv, OnboardTypeOK, Tasks
<1>5. QED
  BY <1>2, <1>3, <1>4 DEF OnboardIInv, OnboardTypeOK, Tasks

LEMMA ConversionEndsKeeps == ASSUME OnboardIInv, ConversionEnds PROVE OnboardIInv'
<1>1. PICK outcome \in {"ended", "cancelled"} : Told("conv", outcome)
  BY DEF ConversionEnds
<1>2. /\ UNCHANGED <<dogs, setup>> /\ conv' \in Tasks /\ ~conv'.live /\ load' \in Tasks
      /\ load.live => load' = load
      /\ ~load.live => ~load'.live \/ load'.by = 0
      /\ follow' \in BOOLEAN /\ loaded' \in BOOLEAN /\ files' \in {"none", "partial", "complete"}
  BY TaskTypes DEF ConversionEnds
<1>3. QED
  BY <1>1, <1>2, ToldKeeps

LEMMA LoadEndsKeeps == ASSUME OnboardIInv, LoadEnds PROVE OnboardIInv'
<1>1. PICK outcome \in {"ended", "cancelled"} : Told("load", outcome)
  BY DEF LoadEnds
<1>2. /\ UNCHANGED <<dogs, conv, setup>> /\ load' \in Tasks /\ ~load'.live /\ conv \in Tasks
      /\ follow' \in BOOLEAN /\ loaded' \in BOOLEAN /\ files' \in {"none", "partial", "complete"}
  BY TaskTypes DEF LoadEnds
<1>3. QED
  BY <1>1, <1>2, ToldKeeps

LEMMA OtherClientKeeps == ASSUME OnboardIInv, OtherClient PROVE OnboardIInv'
<1>1. /\ [conv EXCEPT !.stop = TRUE] \in Tasks /\ [conv EXCEPT !.stop = TRUE].live = conv.live
      /\ [conv EXCEPT !.stop = TRUE].by = conv.by
      /\ [load EXCEPT !.stop = TRUE] \in Tasks /\ [load EXCEPT !.stop = TRUE].live = load.live
      /\ [load EXCEPT !.stop = TRUE].by = load.by
  BY TaskTypes DEF Tasks
<1>2. /\ UNCHANGED <<jobs, dogs, follow, files, setup>> /\ conv' \in Tasks /\ load' \in Tasks
      /\ loaded' \in BOOLEAN
      /\ conv.live => conv'.live /\ conv'.by = conv.by
      /\ load.live => load'.live /\ load'.by = load.by
      /\ ~conv.live => ~conv'.live \/ conv'.by = 0
      /\ ~load.live => ~load'.live \/ load'.by = 0
  BY <1>1, TaskTypes DEF OtherClient
<1>3. QED
  BY <1>2, TaskTypes, TasksKeep

LEMMA RebootKeeps == ASSUME OnboardIInv, Reboot PROVE OnboardIInv'
<1> DEFINE lost == [NoJob EXCEPT !.pc = "done", !.status = "lost"]
<1>1. /\ NoJob \in Preparations /\ lost \in Preparations /\ lost.pc = "done" /\ lost.status = "lost"
      /\ lost.waits = "none" /\ lost.got = "none" /\ ~lost.asked /\ ~lost.hit /\ ~lost.timedOut
  BY DEF NoJob, Preparations, Devices
<1>2. jobs' = [j \in JobIds |-> IF jobs[j].pc = "none" THEN NoJob ELSE lost]
  BY DEF Reboot
<1> HIDE DEF lost
<1>3. \A j \in JobIds : jobs'[j] = NoJob \/ jobs'[j] = lost
  BY <1>2
<1>4. /\ NoJob.pc = "none" /\ NoJob.status = "none" /\ NoJob.waits = "none" /\ NoJob.got = "none"
      /\ ~NoJob.asked /\ ~NoJob.hit /\ ~NoJob.timedOut
      /\ "none" \notin JobRunning /\ "done" \notin JobRunning
  BY DEF NoJob, JobRunning
<1>5. /\ conv' \in Tasks /\ ~conv'.live /\ load' \in Tasks /\ load'.by = 0 /\ UNCHANGED <<files, setup>>
  <2>1. 0 \in 0..MaxJobs
    BY OnboardingAssumption
  <2>2. load' = [live |-> setup.completed /\ ~setup.restart /\ files = "complete", by |-> 0, stop |-> FALSE]
    BY DEF Reboot, NoTask
  <2>3. QED
    BY <2>1, <2>2, TaskTypes DEF Reboot, Tasks
<1>6. OnboardTypeOK'
  <2>1. jobs' \in [JobIds -> Preparations]
    BY <1>1, <1>2
  <2>2. dogs' \in [JobIds -> {"off", "watching", "waiting"}] /\ follow' \in BOOLEAN /\ loaded' \in BOOLEAN
    BY DEF Reboot
  <2>3. \A j \in JobIds : jobs'[j].pc \in JobRunning <=> jobs'[j].status = "running"
    BY <1>1, <1>3, <1>4
  <2>4. QED
    BY <1>5, <2>1, <2>2, <2>3, SetupTypes, TaskTypes DEF OnboardTypeOK, Tasks, SetupRecords
<1>7. \A j \in JobIds : OneState(j)'
  BY <1>1, <1>3, <1>4 DEF OneState
<1>8. \A j \in JobIds : j # 0
  BY OnboardingAssumption DEF JobIds
<1>9. /\ TasksHaveOwners' /\ NothingLeftBehind' /\ WaitsForATask' /\ OnePreparation' /\ RecordIsVerified'
  BY <1>1, <1>3, <1>4, <1>5, <1>8, SetupTypes
     DEF TasksHaveOwners, NothingLeftBehind, WaitsForATask, OnePreparation, RecordIsVerified
<1>10. QED
  BY <1>6, <1>7, <1>9 DEF OnboardIInv

LEMMA OnboardStepIInv == OnboardIInv /\ [OnboardNext]_onboardVars => OnboardIInv'
<1> SUFFICES ASSUME OnboardIInv, [OnboardNext]_onboardVars PROVE OnboardIInv'
  OBVIOUS
<1>1. CASE UNCHANGED onboardVars
  BY <1>1, SetupTypes, TaskTypes, NoJobKeeps DEF onboardVars, managerVars
<1>2. ASSUME NEW j \in JobIds, JobStep(j) PROVE OnboardIInv'
  BY <1>2, BeginKeeps, NoticeCancelKeeps, AwaitOverKeeps, CleanedUpKeeps, BenchmarkRunKeeps,
     BenchmarkStoredKeeps, HitArrivesKeeps DEF JobStep
<1>3. ASSUME NEW j \in JobIds, StartPreparation(j) \/ WatchdogStep(j) \/ CancelPreparation(j) \/ Timeout(j)
                               \/ Reject(j)
      PROVE  OnboardIInv'
  BY <1>3, StartPreparationKeeps, WatchdogEndsKeeps, WatchdogSeesKeeps, CancelPreparationKeeps,
     TimeoutKeeps, RejectKeeps DEF WatchdogStep
<1>4. CASE Status \/ RestartSetup \/ ConversionEnds \/ LoadEnds \/ OtherClient \/ Reboot
  BY <1>4, StatusKeeps, ConversionEndsKeeps, LoadEndsKeeps, OtherClientKeeps, RebootKeeps
<1>5. QED
  BY <1>1, <1>2, <1>3, <1>4 DEF OnboardNext

LEMMA SetupMeans == OnboardIInv => OnboardTypeOK /\ SetupSafe
  BY DEF OnboardIInv, SetupSafe, CancelHolds, CompletedMeansVerified, RecordIsVerified, OneState

\* What the setup promises: a cancelled preparation is never offered as ready and leaves no
\* task behind, nobody waits for a task that does not run, one preparation runs at a time, and
\* setup is complete only when it was verified (onboarding_service.py, desktop_onboarding.py).
THEOREM SetupIsSafe == OnboardSpec => []SetupSafe
  BY SetupMeans, OnboardInitIInv, OnboardStepIInv, PTL DEF OnboardSpec

-----------------------------------------------------------------------------
(* The desktop settings.                                                    *)

SavedFiles == States \cup {Malformed, Newer, NoFile}
KeyChoices == ApiKeys \cup {"keep", "remove"}
NetHistories ==
  [starts : Nat, found : SavedFiles, saved : SavedFiles, agreed : BOOLEAN]
SetupCalls == {Idle} \cup [pc : {"locked"}, read : States, changes : BOOLEAN]
NetworkCalls ==
  {Idle} \cup [pc : {"locked"}, read : States, changes : NetRequests] \cup [pc : {"secret"}, key : KeyChoices]

NetTypesFull ==
  /\ NetTypeOK /\ netHistory \in NetHistories
  /\ DOMAIN calls = NetCallers /\ calls = [c \in NetCallers |-> calls[c]]
  /\ calls[Setup] \in SetupCalls /\ calls[Network] \in NetworkCalls

\* An update that has read the file holds the store's lock until it has written, and what
\* it has read is what was saved last.  Between starts nobody updates.
UpdatesExclusive ==
  /\ \A c \in NetCallers : calls[c].pc = "locked" =>
       storeLock = c /\ calls[c].read = (IF netHistory.saved.kind = "state" THEN netHistory.saved ELSE Default)
  /\ ~listening.up => \A c \in NetCallers : calls[c] = Idle

\* The file is what was saved last; one of a newer version was never touched.
FileIsTheSaved ==
  /\ stateFile = netHistory.saved
  /\ netHistory.found = Newer => stateFile = Newer /\ \A c \in NetCallers : calls[c] = Idle

\* The key that the change of settings under way will leave in effect.
KeyAfter(key) ==
  IF netEnv.key # "unset" THEN netEnv.key
  ELSE IF key = "remove" THEN "none" ELSE IF key = "keep" THEN StoredKey(keyMem) ELSE key

\* A change that opens the network leaves a key in effect, at each of its steps.
KeyFollows ==
  /\ keyMem # "none" => keyMem = keyFile
  /\ calls[Network].pc = "locked" /\ calls[Network].changes.lan => KeyAfter(calls[Network].changes.key) # "none"
  /\ calls[Network].pc = "locked" /\ netEnv.key # "unset" => calls[Network].changes.key = "keep"
  /\ calls[Network].pc = "secret" /\ netEnv.key # "unset" => calls[Network].key = "keep"
  /\ calls[Network].pc = "secret" => ~netHistory.agreed
  /\ calls[Network].pc = "secret" /\ stateFile.kind = "state" /\ stateFile.lan =>
       KeyAfter(calls[Network].key) # "none"
  /\ netHistory.agreed /\ stateFile.kind = "state" /\ stateFile.lan => EffectiveKey(netEnv, keyMem) # "none"

NetIInv == NetTypesFull /\ UpdatesExclusive /\ FileIsTheSaved /\ KeyFollows /\ ExposedOnlyWithKey

LEMMA StatesAreRecords ==
  States = [kind : {"state"}, lan : BOOLEAN, cors : CorsSettings, completed : BOOLEAN]
<1> DEFINE Records == [kind : {"state"}, lan : BOOLEAN, cors : CorsSettings, completed : BOOLEAN]
<1>1. ASSUME NEW x \in States PROVE x \in Records
  BY <1>1 DEF States, State
<1>2. ASSUME NEW x \in Records PROVE x \in States
  <2>1. x = State(x.lan, x.cors, x.completed)
    BY <1>2 DEF State
  <2>2. QED
    BY <1>2, <2>1 DEF States
<1>3. QED
  BY <1>1, <1>2

LEMMA NetInitIInv == NetInit => NetIInv
<1> SUFFICES ASSUME NetInit PROVE NetIInv
  OBVIOUS
<1> USE DEF NetInit, Idle, Down, NetCallers, Setup, Network
<1>1. (CHOOSE k \in ApiKeys : TRUE) \in ApiKeys
  BY NetworkAssumption
<1>2. State(TRUE, "any", TRUE) \in States
  BY StatesAreRecords DEF State, CorsSettings
<1>3. NetTypesFull
  BY <1>1, <1>2 DEF NetTypesFull, NetTypeOK, NetHistories, SavedFiles, SetupCalls, NetworkCalls,
       CorsSettings
<1>4. UpdatesExclusive /\ FileIsTheSaved /\ KeyFollows /\ ExposedOnlyWithKey
  BY DEF UpdatesExclusive, FileIsTheSaved, KeyFollows, ExposedOnlyWithKey
<1>5. QED
  BY <1>3, <1>4 DEF NetIInv

\* What load reads is what was saved last, and what it leaves is the file it read, or nothing.
LEMMA LoadFacts ==
  ASSUME NetIInv, NEW state, NEW left, Load(state, left)
  PROVE  /\ state \in States /\ left \in SavedFiles /\ stateFile # Newer /\ left # Newer
         /\ netHistory.found # Newer
         /\ state = (IF left.kind = "state" THEN left ELSE Default)
         /\ left.kind = "state" => left = stateFile
         /\ (IF left = NoFile THEN NoFile ELSE netHistory.saved) = left
<1>1. Default \in States
  BY StatesAreRecords DEF Default, State, CorsSettings
<1>2. stateFile \in SavedFiles /\ stateFile = netHistory.saved /\ (netHistory.found = Newer => stateFile = Newer)
  BY DEF NetIInv, NetTypesFull, NetTypeOK, FileIsTheSaved, SavedFiles
<1>3. /\ stateFile.kind = "state" => stateFile \in States
      /\ \A x \in States : x.kind = "state" /\ x # NoFile
  BY <1>2, StatesAreRecords DEF SavedFiles, Malformed, Newer, NoFile
<1>4. QED
  BY <1>1, <1>2, <1>3 DEF Load, SavedFiles, Malformed, Newer, NoFile

LEMMA StoredKeyType ==
  ASSUME NetTypeOK PROVE StoredKey(keyMem) \in ApiKeys \cup {"none"}
BY DEF NetTypeOK, StoredKey

LEMMA NetStartStep == NetIInv /\ StartServer => NetIInv'
<1> SUFFICES ASSUME NetIInv, StartServer PROVE NetIInv'
  OBVIOUS
<1> USE DEF NetIInv
<1>1. PICK env \in Environments, state \in States, left \in States \cup {NoFile, Malformed} :
        /\ Load(state, left) /\ stateFile' = left
        /\ netEnv' = env /\ listening' = Resolve(state, env, "none")
        /\ keyMem' = IF env.key = "unset" THEN StoredKey("none") ELSE "none"
        /\ netHistory' = [netHistory EXCEPT !.starts = @ + 1, !.agreed = FALSE,
                                            !.saved = IF left = NoFile THEN NoFile ELSE @]
  BY DEF StartServer
<1>2. /\ state \in States /\ left \in SavedFiles /\ netHistory.found # Newer
      /\ (IF left = NoFile THEN NoFile ELSE netHistory.saved) = left
  BY <1>1, LoadFacts
<1>3. env \in [lan : BOOLEAN, key : ApiKeys \cup {"none", "unset"}]
  <2>1. (CHOOSE k \in ApiKeys : TRUE) \in ApiKeys
    BY NetworkAssumption
  <2>2. CASE env \in {[lan |-> l, key |-> "unset"] : l \in BOOLEAN}
    BY <2>2
  <2>3. CASE env \in {[lan |-> TRUE, key |-> k] : k \in {"none", CHOOSE k \in ApiKeys : TRUE}}
    <3>1. PICK k0 \in {"none", CHOOSE k \in ApiKeys : TRUE} : env = [lan |-> TRUE, key |-> k0]
      BY <2>3
    <3>2. k0 \in ApiKeys \cup {"none", "unset"}
      BY <2>1
    <3>3. QED
      BY <3>1, <3>2
  <2>4. QED
    BY <2>2, <2>3 DEF Environments
<1>4. /\ StoredKey("none") \in ApiKeys \cup {"none"}
      /\ StoredKey("none") # "none" => StoredKey("none") = keyFile
  BY DEF StoredKey
<1>5. /\ state.lan \in BOOLEAN /\ state.cors \in CorsSettings /\ env.lan \in BOOLEAN
      /\ "none" \in CorsSettings /\ (env.lan \/ state.lan) \in BOOLEAN
  BY <1>2, <1>3, StatesAreRecords DEF CorsSettings
<1>6. EffectiveKey(env, "none") \in ApiKeys \cup {"none"}
  BY <1>3, <1>4 DEF EffectiveKey
<1>7. listening' \in [up : BOOLEAN, lan : BOOLEAN, cors : CorsSettings, key : ApiKeys \cup {"none"}]
  BY <1>1, <1>5, <1>6 DEF Resolve
<1>8. netHistory' \in NetHistories /\ netHistory'.saved = left
      /\ netHistory'.agreed = FALSE /\ netHistory'.found = netHistory.found
  <2>1. netHistory \in NetHistories /\ netHistory.starts + 1 \in Nat
    BY DEF NetTypesFull, NetHistories
  <2>2. netHistory' = [netHistory EXCEPT !.starts = netHistory.starts + 1, !.agreed = FALSE, !.saved = left]
    BY <1>1, <1>2
  <2>3. QED
    BY <1>2, <2>1, <2>2 DEF NetHistories
<1>9. calls' = calls /\ storeLock' = storeLock /\ keyFile' = keyFile /\ \A c \in NetCallers : calls[c] = Idle
  BY DEF StartServer, UpdatesExclusive
<1>10. NetTypesFull'
  BY <1>1, <1>2, <1>3, <1>4, <1>7, <1>8, <1>9 DEF NetTypesFull, NetTypeOK, SavedFiles, NetCallers
<1>11. UpdatesExclusive'
  BY <1>9 DEF UpdatesExclusive, Idle
<1>12. FileIsTheSaved'
  BY <1>1, <1>2, <1>8 DEF FileIsTheSaved
<1>13. KeyFollows'
  BY <1>1, <1>4, <1>8, <1>9 DEF KeyFollows, Idle, NetCallers
<1>14. ExposedOnlyWithKey'
  BY <1>1 DEF ExposedOnlyWithKey, Resolve
<1>15. QED
  BY <1>10, <1>11, <1>12, <1>13, <1>14

LEMMA NetEndStep == NetIInv /\ EndServer => NetIInv'
<1> SUFFICES ASSUME NetIInv, EndServer PROVE NetIInv'
  OBVIOUS
<1> USE DEF NetIInv, EndServer
<1>1. NetTypesFull'
  BY DEF NetTypesFull, NetTypeOK, Down, Idle, CorsSettings, SetupCalls, NetworkCalls, NetCallers,
       Setup, Network
<1>2. UpdatesExclusive' /\ FileIsTheSaved' /\ ExposedOnlyWithKey'
  BY DEF UpdatesExclusive, FileIsTheSaved, ExposedOnlyWithKey, Down, Idle
<1>3. StoredKey("none") = StoredKey(keyMem)
  BY DEF StoredKey, KeyFollows, NetTypesFull, NetTypeOK
<1>4. EffectiveKey(netEnv, "none") = EffectiveKey(netEnv, keyMem)
  BY <1>3 DEF EffectiveKey
<1>5. KeyFollows'
  <2>1. calls'[Network].pc = "idle" /\ keyMem' = "none"
    BY DEF Idle, NetCallers
  <2>2. EffectiveKey(netEnv, keyMem)' = EffectiveKey(netEnv, keyMem)
    BY <1>4 DEF EffectiveKey, StoredKey
  <2>3. QED
    BY <2>1, <2>2 DEF KeyFollows
<1>6. QED
  BY <1>1, <1>2, <1>5

\* An update that begins: what it has read, and what else is as before.
LEMMA LocksStep ==
  ASSUME NetIInv, NEW c \in NetCallers, NEW changes, Locks(c, changes)
  PROVE  /\ stateFile' \in SavedFiles /\ stateFile' = netHistory'.saved /\ netHistory' \in NetHistories
         /\ netHistory.found # Newer /\ netHistory'.found = netHistory.found
         /\ netHistory'.agreed = netHistory.agreed
         /\ stateFile'.kind = "state" => stateFile' = stateFile
         /\ \E state \in States :
              /\ state = (IF netHistory'.saved.kind = "state" THEN netHistory'.saved ELSE Default)
              /\ calls' = [calls EXCEPT ![c] = [pc |-> "locked", read |-> state, changes |-> changes]]
         /\ UpdatesExclusive' /\ FileIsTheSaved' /\ ExposedOnlyWithKey'
<1> USE DEF NetIInv
<1>1. PICK state \in States, left \in States \cup {NoFile, Malformed} :
        /\ Load(state, left) /\ stateFile' = left
        /\ netHistory' = [netHistory EXCEPT !.saved = IF left = NoFile THEN NoFile ELSE @]
        /\ calls' = [calls EXCEPT ![c] = [pc |-> "locked", read |-> state, changes |-> changes]]
  BY DEF Locks
<1>2. /\ left \in SavedFiles /\ netHistory.found # Newer /\ (left.kind = "state" => left = stateFile)
      /\ state = (IF left.kind = "state" THEN left ELSE Default)
      /\ (IF left = NoFile THEN NoFile ELSE netHistory.saved) = left
  BY <1>1, LoadFacts
<1>3. netHistory \in NetHistories
  BY DEF NetTypesFull
<1>4. netHistory' = [netHistory EXCEPT !.saved = left]
  BY <1>1, <1>2, <1>3
<1>5. /\ netHistory' \in NetHistories /\ netHistory'.saved = left
      /\ netHistory'.found = netHistory.found /\ netHistory'.agreed = netHistory.agreed
  BY <1>2, <1>3, <1>4 DEF NetHistories
<1>6. FileIsTheSaved' /\ ExposedOnlyWithKey'
  BY <1>1, <1>2, <1>5 DEF FileIsTheSaved, ExposedOnlyWithKey, Locks
<1>7. UpdatesExclusive'
  <2>1. \A d \in NetCallers : d # c => calls'[d] = calls[d] /\ calls[d].pc # "locked"
    BY <1>1, NetworkAssumption DEF Locks, UpdatesExclusive, NetCallers, Setup, Network
  <2>2. calls'[c] = [pc |-> "locked", read |-> state, changes |-> changes]
    BY <1>1 DEF NetTypesFull
  <2>3. storeLock' = c /\ listening'.up
    BY DEF Locks
  <2>4. QED
    BY <1>2, <1>5, <2>1, <2>2, <2>3 DEF UpdatesExclusive
<1>8. QED
  BY <1>1, <1>2, <1>5, <1>6, <1>7

LEMMA UpdateNetworkStep == NetIInv /\ UpdateNetwork => NetIInv'
<1> SUFFICES ASSUME NetIInv, UpdateNetwork PROVE NetIInv'
  OBVIOUS
<1> USE DEF NetIInv
<1>1. PICK r \in NetRequests : Acceptable(r) /\ Locks(Network, r)
  BY DEF UpdateNetwork
<1>2. /\ stateFile' \in SavedFiles /\ stateFile' = netHistory'.saved /\ netHistory' \in NetHistories
      /\ netHistory.found # Newer /\ netHistory'.found = netHistory.found
      /\ netHistory'.agreed = netHistory.agreed
      /\ stateFile'.kind = "state" => stateFile' = stateFile
      /\ UpdatesExclusive' /\ FileIsTheSaved' /\ ExposedOnlyWithKey'
  BY <1>1, LocksStep DEF NetCallers
<1>3. PICK state \in States :
        calls' = [calls EXCEPT ![Network] = [pc |-> "locked", read |-> state, changes |-> r]]
  BY <1>1, LocksStep DEF NetCallers
<1>4. /\ keyMem' = IF netEnv.key = "unset" THEN StoredKey(keyMem) ELSE keyMem
      /\ keyFile' = keyFile /\ netEnv' = netEnv /\ listening' = listening /\ storeLock' = Network
  BY <1>1 DEF UpdateNetwork, Locks
<1>5. /\ StoredKey(keyMem) \in ApiKeys \cup {"none"}
      /\ StoredKey(keyMem) # "none" => StoredKey(keyMem) = keyFile
  BY DEF StoredKey, KeyFollows, NetTypesFull, NetTypeOK
<1>6. /\ calls'[Network] = [pc |-> "locked", read |-> state, changes |-> r] /\ calls'[Setup] = calls[Setup]
      /\ calls' = [c \in NetCallers |-> calls'[c]]
  BY <1>3 DEF NetTypesFull, NetCallers, Setup, Network
<1>7. NetTypesFull'
  <2>1. calls'[Network] \in NetworkCalls /\ calls'[Setup] \in SetupCalls
    BY <1>6 DEF NetTypesFull, NetworkCalls
  <2>2. \A c \in NetCallers : calls'[c].pc \in {"idle", "locked", "secret"}
    BY <1>6 DEF NetTypesFull, NetTypeOK, NetCallers
  <2>3. NetTypeOK'
    BY <1>2, <1>4, <1>5, <2>2 DEF NetTypesFull, NetTypeOK, SavedFiles, NetCallers
  <2>4. QED
    BY <1>2, <1>6, <2>1, <2>3 DEF NetTypesFull
<1>8. KeyFollows'
  <2>1. StoredKey(keyMem)' = StoredKey(keyMem)
    BY <1>4 DEF StoredKey
  <2>2. EffectiveKey(netEnv, keyMem)' = EffectiveKey(netEnv, keyMem)
    BY <1>4, <2>1 DEF EffectiveKey
  <2>3. KeyAfter(r.key)' = ProposedKey(r)
    BY <1>4, <2>1 DEF KeyAfter, ProposedKey
  <2>4. keyMem' # "none" => keyMem' = keyFile'
    BY <1>4, <1>5 DEF KeyFollows
  <2>5. QED
    BY <1>1, <1>2, <1>4, <1>6, <2>2, <2>3, <2>4 DEF KeyFollows, Acceptable
<1>9. QED
  BY <1>2, <1>7, <1>8

LEMMA UpdateSetupStep == NetIInv /\ UpdateSetup => NetIInv'
<1> SUFFICES ASSUME NetIInv, UpdateSetup PROVE NetIInv'
  OBVIOUS
<1> USE DEF NetIInv
<1>1. PICK completed \in BOOLEAN : Locks(Setup, completed)
  BY DEF UpdateSetup
<1>2. /\ stateFile' \in SavedFiles /\ stateFile' = netHistory'.saved /\ netHistory' \in NetHistories
      /\ netHistory.found # Newer /\ netHistory'.found = netHistory.found
      /\ netHistory'.agreed = netHistory.agreed
      /\ stateFile'.kind = "state" => stateFile' = stateFile
      /\ UpdatesExclusive' /\ FileIsTheSaved' /\ ExposedOnlyWithKey'
  BY <1>1, LocksStep DEF NetCallers
<1>3. PICK state \in States :
        calls' = [calls EXCEPT ![Setup] = [pc |-> "locked", read |-> state, changes |-> completed]]
  BY <1>1, LocksStep DEF NetCallers
<1>4. /\ keyMem' = keyMem /\ keyFile' = keyFile /\ netEnv' = netEnv /\ listening' = listening
      /\ storeLock' = Setup
  BY <1>1 DEF UpdateSetup, Locks
<1>5. /\ calls'[Setup] = [pc |-> "locked", read |-> state, changes |-> completed]
      /\ calls'[Network] = calls[Network] /\ calls' = [c \in NetCallers |-> calls'[c]]
  BY <1>3 DEF NetTypesFull, NetCallers, Setup, Network
<1>6. NetTypesFull'
  <2>1. calls'[Network] \in NetworkCalls /\ calls'[Setup] \in SetupCalls
    BY <1>5 DEF NetTypesFull, SetupCalls
  <2>2. \A c \in NetCallers : calls'[c].pc \in {"idle", "locked", "secret"}
    BY <1>5 DEF NetTypesFull, NetTypeOK, NetCallers
  <2>3. NetTypeOK'
    BY <1>2, <1>4, <2>2 DEF NetTypesFull, NetTypeOK, SavedFiles, NetCallers
  <2>4. QED
    BY <1>2, <1>5, <2>1, <2>3 DEF NetTypesFull
<1>7. KeyFollows'
  BY <1>2, <1>4, <1>5 DEF KeyFollows, KeyAfter, EffectiveKey, StoredKey
<1>8. QED
  BY <1>2, <1>6, <1>7

\* A save writes the file with the caller's own part replaced; what is on record as saved is
\* the same.
LEMMA MergedFacts ==
  ASSUME NetIInv, NEW c \in NetCallers, calls[c].pc = "locked"
  PROVE  /\ Merged(c) = Recorded(c) /\ Merged(c) \in States /\ netHistory.found # Newer
         /\ c = Setup /\ Merged(c).lan => stateFile.kind = "state" /\ stateFile.lan
         /\ c = Network => Merged(c).lan = calls[c].changes.lan
<1> USE DEF NetIInv
<1> DEFINE before == IF netHistory.saved.kind = "state" THEN netHistory.saved ELSE Default
<1>1. calls[c].read = before /\ stateFile = netHistory.saved
  BY DEF UpdatesExclusive, FileIsTheSaved
<1>2. calls[c].read \in States
  BY DEF NetTypesFull, NetCallers, SetupCalls, NetworkCalls, Idle
<1>3. netHistory.found # Newer
  BY DEF FileIsTheSaved, Idle
<1>4. ~Default.lan
  BY DEF Default, State
<1>5. CASE c = Setup
  <2>1. calls[c].changes \in BOOLEAN
    BY <1>5 DEF NetTypesFull, SetupCalls, Idle
  <2>2. Merged(c) = [before EXCEPT !.completed = calls[c].changes]
    BY <1>1, <1>5 DEF Merged
  <2>3. Recorded(c) = [before EXCEPT !.completed = calls[c].changes]
    BY <1>5 DEF Recorded
  <2>4. before \in [kind : {"state"}, lan : BOOLEAN, cors : CorsSettings, completed : BOOLEAN]
    BY <1>1, <1>2, StatesAreRecords
  <2>5. Merged(c) \in States /\ Merged(c).lan = before.lan
    BY <2>1, <2>2, <2>4, StatesAreRecords
  <2>6. QED
    BY <1>1, <1>3, <1>4, <1>5, <2>2, <2>3, <2>5 DEF Setup, Network
<1>6. CASE c = Network
  <2>1. calls[c].changes \in NetRequests
    BY <1>6 DEF NetTypesFull, NetworkCalls, Idle
  <2>2. Merged(c) = [before EXCEPT !.lan = calls[c].changes.lan, !.cors = calls[c].changes.cors]
    BY <1>1, <1>6 DEF Merged, Setup, Network
  <2>3. Recorded(c) = [before EXCEPT !.lan = calls[c].changes.lan, !.cors = calls[c].changes.cors]
    BY <1>6 DEF Recorded, Setup, Network
  <2>4. before \in [kind : {"state"}, lan : BOOLEAN, cors : CorsSettings, completed : BOOLEAN]
    BY <1>1, <1>2, StatesAreRecords
  <2>5. Merged(c) \in States /\ Merged(c).lan = calls[c].changes.lan
    BY <2>1, <2>2, <2>4, StatesAreRecords DEF NetRequests
  <2>6. QED
    BY <1>3, <1>6, <2>2, <2>3, <2>5 DEF Setup, Network
<1>7. QED
  BY <1>5, <1>6 DEF NetCallers

LEMMA SaveStateStep == \A c \in NetCallers : NetIInv /\ SaveState(c) => NetIInv'
<1> SUFFICES ASSUME NEW c \in NetCallers, NetIInv, SaveState(c) PROVE NetIInv'
  OBVIOUS
<1> USE DEF NetIInv
<1>1. /\ calls[c].pc = "locked" /\ storeLock' = "none" /\ keyFile' = keyFile /\ keyMem' = keyMem
      /\ netEnv' = netEnv /\ listening' = listening /\ listening.up
      /\ \A d \in NetCallers : d # c => calls[d].pc # "locked"
  BY NetworkAssumption DEF SaveState, UpdatesExclusive, Idle
<1>2. /\ Merged(c) = Recorded(c) /\ Merged(c) \in States /\ netHistory.found # Newer
      /\ c = Setup /\ Merged(c).lan => stateFile.kind = "state" /\ stateFile.lan
      /\ c = Network => Merged(c).lan = calls[c].changes.lan
  BY <1>1, MergedFacts
<1>3. ExposedOnlyWithKey'
  BY <1>1 DEF ExposedOnlyWithKey
<1>4. /\ \A k : EffectiveKey(netEnv, k)' = EffectiveKey(netEnv, k)
      /\ \A k : KeyAfter(k)' = KeyAfter(k) /\ EffectiveKey(netEnv, keyMem)' = EffectiveKey(netEnv, keyMem)
  BY <1>1 DEF EffectiveKey, KeyAfter, StoredKey
<1>5. CASE calls' = [calls EXCEPT ![c] = Idle] /\ UNCHANGED <<stateFile, netHistory>>
  <2>1. calls'[c] = Idle /\ (\A d \in NetCallers : d # c => calls'[d] = calls[d])
        /\ calls' = [d \in NetCallers |-> calls'[d]]
    BY <1>5 DEF NetTypesFull
  <2>2. NetTypesFull'
    BY <1>1, <1>5, <2>1 DEF NetTypesFull, NetTypeOK, NetCallers, Idle, SetupCalls, NetworkCalls
  <2>3. UpdatesExclusive' /\ FileIsTheSaved'
    BY <1>1, <1>2, <1>5, <2>1 DEF UpdatesExclusive, FileIsTheSaved, Idle
  <2>4. KeyFollows'
    BY <1>1, <1>4, <1>5, <2>1 DEF KeyFollows, Idle, NetCallers
  <2>5. QED
    BY <1>3, <2>2, <2>3, <2>4
<1>6. CASE /\ stateFile' = Merged(c)
           /\ netHistory' = [netHistory EXCEPT !.saved = Recorded(c), !.agreed = IF c = Network THEN FALSE ELSE @]
           /\ calls' = [calls EXCEPT ![c] = IF c = Network THEN [pc |-> "secret", key |-> @.changes.key] ELSE Idle]
  <2>1. /\ netHistory' \in NetHistories /\ netHistory'.saved = stateFile'
        /\ netHistory'.found = netHistory.found
        /\ netHistory'.agreed = (IF c = Network THEN FALSE ELSE netHistory.agreed)
    BY <1>2, <1>6 DEF NetTypesFull, NetHistories, SavedFiles
  <2>2. FileIsTheSaved'
    BY <1>2, <2>1 DEF FileIsTheSaved
  <2>3. /\ calls'[c] = (IF c = Network THEN [pc |-> "secret", key |-> calls[c].changes.key] ELSE Idle)
        /\ \A d \in NetCallers : d # c => calls'[d] = calls[d]
        /\ calls' = [d \in NetCallers |-> calls'[d]]
    BY <1>6 DEF NetTypesFull
  <2>4. UpdatesExclusive'
    BY <1>1, <2>3 DEF UpdatesExclusive, Idle
  <2>5. c = Network => calls[c].changes.key \in KeyChoices
    BY <1>1 DEF NetTypesFull, NetworkCalls, NetRequests, KeyChoices, Idle
  <2>6. calls'[Setup] \in SetupCalls /\ calls'[Network] \in NetworkCalls
    BY <2>3, <2>5 DEF NetTypesFull, NetCallers, SetupCalls, NetworkCalls, Setup, Network
  <2>7. NetTypesFull'
    BY <1>1, <1>2, <1>6, <2>1, <2>3, <2>6 DEF NetTypesFull, NetTypeOK, NetCallers, Idle
  <2>8. KeyFollows'
    <3>1. CASE c = Setup
      <4>1. calls'[Network] = calls[Network] /\ netHistory'.agreed = netHistory.agreed
        BY <2>1, <2>3, <3>1 DEF NetCallers, Setup, Network
      <4>2. stateFile'.lan => stateFile.kind = "state" /\ stateFile.lan
        BY <1>2, <1>6, <3>1
      <4>3. QED
        BY <1>1, <1>4, <4>1, <4>2 DEF KeyFollows
    <3>2. CASE c = Network
      <4>1. calls'[Network] = [pc |-> "secret", key |-> calls[Network].changes.key] /\ ~netHistory'.agreed
        BY <2>1, <2>3, <3>2
      <4>2. stateFile'.lan = calls[Network].changes.lan
        BY <1>2, <1>6, <3>2
      <4>3. QED
        BY <1>1, <1>4, <3>2, <4>1, <4>2 DEF KeyFollows
    <3>3. QED
      BY <3>1, <3>2 DEF NetCallers
  <2>9. QED
    BY <1>3, <2>2, <2>4, <2>7, <2>8
<1>7. QED
  BY <1>5, <1>6 DEF SaveState

LEMMA SaveKeyStep == NetIInv /\ SaveKey => NetIInv'
<1> SUFFICES ASSUME NetIInv, SaveKey PROVE NetIInv'
  OBVIOUS
<1> USE DEF NetIInv
<1> DEFINE key == calls[Network].key
<1>1. /\ calls[Network].pc = "secret" /\ calls' = [calls EXCEPT ![Network] = Idle]
      /\ stateFile' = stateFile /\ netEnv' = netEnv /\ listening' = listening /\ storeLock' = storeLock
  BY DEF SaveKey
<1>2. key \in KeyChoices
  BY <1>1 DEF NetTypesFull, NetworkCalls, Idle
<1>3. /\ calls'[Network] = Idle /\ calls'[Setup] = calls[Setup]
      /\ calls' = [c \in NetCallers |-> calls'[c]]
  BY <1>1 DEF NetTypesFull, NetCallers, Setup, Network
<1>4. /\ netHistory' \in NetHistories /\ netHistory'.saved = netHistory.saved
      /\ netHistory'.found = netHistory.found
  BY DEF SaveKey, NetTypesFull, NetHistories
<1>5. /\ keyFile' \in ApiKeys \cup {"none", "bad"} /\ keyMem' \in ApiKeys \cup {"none"}
      /\ keyMem' # "none" => keyMem' = keyFile'
  BY <1>2 DEF SaveKey, NetTypesFull, NetTypeOK, KeyChoices, KeyFollows
<1>6. NetTypesFull'
  BY <1>1, <1>3, <1>4, <1>5 DEF NetTypesFull, NetTypeOK, NetCallers, Idle, NetworkCalls
<1>7. UpdatesExclusive' /\ FileIsTheSaved' /\ ExposedOnlyWithKey'
  BY <1>1, <1>3, <1>4 DEF UpdatesExclusive, FileIsTheSaved, ExposedOnlyWithKey, NetCallers, Idle
<1>8. netHistory'.agreed => EffectiveKey(netEnv, keyMem)' = KeyAfter(key)
  <2>1. CASE key = "keep"
    <3>1. StoredKey(keyMem)' = StoredKey(keyMem)
      BY <2>1 DEF SaveKey, StoredKey
    <3>2. QED
      BY <1>1, <2>1, <3>1 DEF EffectiveKey, KeyAfter
  <2>2. CASE key # "keep"
    <3>1. netEnv.key = "unset"
      BY <1>1, <2>2 DEF KeyFollows
    <3>2. SUFFICES ASSUME netHistory'.agreed PROVE EffectiveKey(netEnv, keyMem)' = KeyAfter(key)
      OBVIOUS
    <3>3. keyFile' = (IF key = "remove" THEN "none" ELSE key) /\ keyMem' = keyFile'
      BY <1>1, <2>2, <3>2 DEF SaveKey, KeyFollows
    <3>4. StoredKey(keyMem)' = (IF key = "remove" THEN "none" ELSE key)
      BY <1>2, <2>2, <3>3, NetworkAssumption DEF StoredKey, KeyChoices
    <3>5. QED
      BY <1>1, <2>2, <3>1, <3>4 DEF EffectiveKey, KeyAfter
  <2>3. QED
    BY <2>1, <2>2
<1>9. KeyFollows'
  BY <1>1, <1>3, <1>5, <1>8 DEF KeyFollows, Idle
<1>10. QED
  BY <1>6, <1>7, <1>9

LEMMA NetStep == NetIInv /\ [NetNext]_netVars => NetIInv'
<1> SUFFICES ASSUME NetIInv, [NetNext]_netVars PROVE NetIInv'
  OBVIOUS
<1>1. CASE UNCHANGED netVars
  BY <1>1 DEF netVars, NetIInv, NetTypesFull, NetTypeOK, UpdatesExclusive, FileIsTheSaved, KeyFollows,
              ExposedOnlyWithKey, KeyAfter, EffectiveKey, StoredKey
<1>2. QED
  BY <1>1, NetStartStep, NetEndStep, UpdateNetworkStep, UpdateSetupStep, SaveStateStep,
       SaveKeyStep DEF NetNext

LEMMA NetMeans == NetIInv => NetTypeOK /\ NetworkSafe
  BY DEF NetIInv, NetTypesFull, NetworkSafe, NewerKept, SettingsKept, KeyTruthful, FileIsTheSaved, KeyFollows

LEMMA NetInvariant == NetSpec => []NetIInv
BY NetInitIInv, NetStep, PTL DEF NetSpec

\* Type correctness of the desktop settings and their updates.
THEOREM NetTypeCorrect == NetSpec => []NetTypeOK
  BY NetMeans, NetInvariant, PTL

\* The server is reachable from the network only with a key, a state file of a newer version
\* is left alone, the two writers of the file never undo each other, and settings reported
\* as saved have their key (app/desktop_network.py, app/onboarding_state.py).
THEOREM SettingsAreSafe == NetSpec => []NetworkSafe
  BY NetMeans, NetInvariant, PTL

-----------------------------------------------------------------------------
(* The page's progress.  Why no status answer takes it back: whatever two    *)
(* answers say of one operation, the one with the higher revision is not the *)
(* earlier one, and none is ahead of the server.                             *)

\* Every entry of the page that came from the server's status.
FromServer(e) ==
  /\ e \in MaybeEntry /\ e.op <= server.ops /\ e.at <= clock
  /\ e.op # 0 /\ e.op = server.entry.op =>
       \/ e.rev < server.entry.rev /\ e.at <= server.entry.at
       \/ e.rev = server.entry.rev /\ e.at = server.entry.at

\* Of one operation, the higher revision was not written earlier.
InOrder(e, f) == e.op = f.op /\ e.op # 0 /\ e.rev <= f.rev => e.at <= f.at

ServerShape ==
  /\ server \in [entry : Entries, ops : 0..MaxOps, counter : 0..MaxUpdates] /\ clock \in 0..1
  /\ server.entry.op <= server.ops /\ server.entry.rev <= server.counter /\ server.entry.at <= clock
  /\ server.entry.op = 0 => server.entry = NoProgress
  /\ server.entry.state = "loading" => server.entry.op # 0

PageShape ==
  /\ requests \in [PageKeys -> [pc : {"none", "sent", "answered", "failed"}, rev : 0..MaxCalls,
                                entry : MaybeEntry]]
  /\ post \in [pc : {"none", "sent", "answered", "failed"}, entry : MaybeEntry]
  /\ accepted \in MaybeEntry /\ optimistic \in BOOLEAN
  /\ page \in [latest : MaybeEntry, rev : 0..MaxCalls, next : 0..MaxCalls, timer : 0..MaxCalls]
  /\ shown \in MaybeEntry \cup {Optimistic}
  /\ highest \in [at : 0..1, rev : 0..MaxUpdates]

\* What is known of the accepted entry and of the answers under way
AnswersShape ==
  /\ \A k \in PageKeys :
       /\ FromServer(requests[k].entry)
       /\ requests[k].entry.op = 0 => requests[k].entry \in {Nothing, NoProgress}
       /\ requests[k].pc = "answered" => requests[k].entry # Nothing
  /\ FromServer(accepted) /\ (accepted.op = 0 => accepted = Nothing /\ highest = NoneYet)
  /\ \A k \in PageKeys :
       /\ InOrder(requests[k].entry, accepted) /\ InOrder(accepted, requests[k].entry)
       /\ \A l \in PageKeys : InOrder(requests[k].entry, requests[l].entry)

\* The inductive invariant of ProgressView.
ViewIInv == ServerShape /\ PageShape /\ AnswersShape /\ ViewSafe

ViewConstants == MaxOps \in Nat /\ MaxUpdates \in Nat /\ MaxCalls \in Nat
LEMMA ViewBounds == ViewConstants
  BY ViewAssumption DEF ViewConstants

\* The fields of an entry.
LEMMA EntryFields ==
  /\ \A e \in MaybeEntry : /\ e.op \in 0..MaxOps /\ e.rev \in 0..MaxUpdates /\ e.at \in 0..1
                           /\ e.op \in Nat /\ e.rev \in Nat /\ e.at \in Nat
  /\ NoProgress \in Entries /\ NoProgress \in MaybeEntry /\ Nothing \in MaybeEntry
  /\ NoProgress # Nothing /\ Optimistic # Nothing
  /\ NoProgress.op = 0 /\ NoProgress.rev = 0 /\ NoProgress.at = 0 /\ NoProgress.state = "idle"
  /\ Nothing.op = 0 /\ Nothing.rev = 0 /\ Nothing.at = 0
  /\ \A e \in Entries : e \in MaybeEntry /\ e # Nothing
  BY ViewBounds DEF ViewConstants, MaybeEntry, Entries, ViewStates, NoProgress, Nothing, Optimistic

LEMMA ViewInitIInv == ViewInit => ViewIInv
<1> SUFFICES ASSUME ViewInit PROVE ViewIInv
  OBVIOUS
<1>0. ViewConstants
  BY ViewBounds
<1>1. ServerShape
  BY <1>0, EntryFields DEF ViewConstants, ViewInit, ServerShape
<1>2. PageShape
  <2>1. 0 \in 0..MaxCalls /\ 0 \in 0..MaxUpdates /\ 0 \in 0..1
    BY <1>0 DEF ViewConstants
  <2>2. /\ NoRequest \in [pc : {"none", "sent", "answered", "failed"}, rev : 0..MaxCalls, entry : MaybeEntry]
        /\ post \in [pc : {"none", "sent", "answered", "failed"}, entry : MaybeEntry]
        /\ page \in [latest : MaybeEntry, rev : 0..MaxCalls, next : 0..MaxCalls, timer : 0..MaxCalls]
        /\ highest \in [at : 0..1, rev : 0..MaxUpdates]
    BY <2>1, EntryFields DEF ViewInit, NoRequest, NoneYet
  <2>3. QED
    BY <2>2, EntryFields DEF ViewInit, PageShape
<1>3. AnswersShape
  BY <1>0, EntryFields DEF ViewConstants, ViewInit, AnswersShape, FromServer, InOrder, NoRequest
<1>4. ViewSafe
  BY EntryFields DEF ViewInit, ViewSafe, AcceptedNeverOlder, OptimisticAccounted, PendingNotOlder
<1>5. QED
  BY <1>1, <1>2, <1>3, <1>4 DEF ViewIInv

-----------------------------------------------------------------------------
(* The server's steps.                                                      *)

\* The server writes an entry that is later than all it wrote of the operation.
LEMMA ServerWrites ==
  ASSUME ViewIInv, ServerShape', UNCHANGED <<requests, accepted, highest>>,
         clock <= clock', server.ops <= server'.ops,
         \/ server'.entry.op = 0
         \/ server'.entry.op > server.ops
         \/ /\ server'.entry.op = server.entry.op
            /\ \/ server.entry.rev < server'.entry.rev /\ server.entry.at <= server'.entry.at
               \/ server'.entry = server.entry
  PROVE  AnswersShape'
<1> DEFINE Known == {requests[k].entry : k \in PageKeys} \cup {accepted}
<1>1. \A e \in Known : FromServer(e)
  BY DEF ViewIInv, AnswersShape
<1>2. /\ server.ops \in Nat /\ server'.ops \in Nat /\ clock \in Nat /\ clock' \in Nat
      /\ server.entry \in MaybeEntry /\ server'.entry \in MaybeEntry
  BY EntryFields, ViewBounds DEF ViewConstants, ViewIInv, ServerShape
<1>3. ASSUME NEW e \in Known PROVE FromServer(e)'
  <2>1. e \in MaybeEntry /\ e.op \in Nat /\ e.rev \in Nat /\ e.at \in Nat
    BY <1>1, EntryFields DEF FromServer
  <2>2. e.op <= server.ops /\ e.at <= clock
        /\ (e.op # 0 /\ e.op = server.entry.op =>
              \/ e.rev < server.entry.rev /\ e.at <= server.entry.at
              \/ e.rev = server.entry.rev /\ e.at = server.entry.at)
    BY <1>1, <1>3 DEF FromServer
  <2>3. /\ server.entry.rev \in Nat /\ server.entry.at \in Nat /\ server.entry.op \in Nat
        /\ server'.entry.rev \in Nat /\ server'.entry.at \in Nat /\ server'.entry.op \in Nat
    BY <1>2, EntryFields
  <2>4. QED
    BY <1>2, <2>1, <2>2, <2>3 DEF FromServer
<1>4. (\A k \in PageKeys : requests[k].entry \in Known) /\ accepted \in Known
  OBVIOUS
<1>5. (\A k \in PageKeys : FromServer(requests[k].entry)') /\ FromServer(accepted)'
  BY <1>3, <1>4
<1>6. QED
  BY <1>5 DEF ViewIInv, AnswersShape, InOrder

LEMMA ServerKeeps ==
  ASSUME ViewIInv,
         SecondPasses \/ ClearProgress \/ RestartServer \/ (\E s \in {"loading", "loaded", "error"} : Update(s))
  PROVE  ViewIInv'
<1>0. ViewConstants
  BY ViewBounds
<1>1. UNCHANGED pageVars
  BY DEF SecondPasses, ClearProgress, RestartServer, Update
<1>2. PageShape' /\ ViewSafe'
  BY <1>1 DEF pageVars, ViewIInv, PageShape, ViewSafe, AcceptedNeverOlder, OptimisticAccounted, PendingNotOlder
<1>3. server.entry \in MaybeEntry /\ server.entry \in Entries
  BY EntryFields DEF ViewIInv, ServerShape
<1>4. CASE SecondPasses
  <2>1. ServerShape'
    BY <1>3, <1>4, EntryFields DEF SecondPasses, ViewIInv, ServerShape
  <2>2. QED
    BY <1>0, <1>1, <1>2, <1>3, <1>4, <2>1, ServerWrites, EntryFields
       DEF ViewConstants, SecondPasses, pageVars, ViewIInv, ServerShape
<1>5. CASE ClearProgress \/ RestartServer
  <2>1. PICK c \in {0, server.counter} : server' = [server EXCEPT !.entry = NoProgress, !.counter = c]
    BY <1>5 DEF ClearProgress, RestartServer, ViewIInv, ServerShape
  <2>2. /\ server'.entry = NoProgress /\ server'.ops = server.ops /\ server'.counter = c
        /\ c \in 0..MaxUpdates /\ server' \in [entry : Entries, ops : 0..MaxOps, counter : 0..MaxUpdates]
    BY <1>0, <2>1, EntryFields DEF ViewConstants, ViewIInv, ServerShape
  <2>3. clock' = clock /\ server.ops \in Nat /\ clock \in Nat /\ clock \in 0..1
    BY <1>0, <1>5 DEF ClearProgress, RestartServer, ViewConstants, ViewIInv, ServerShape
  <2>4. ServerShape'
    BY <1>0, <2>2, <2>3, EntryFields DEF ViewConstants, ServerShape
  <2>5. QED
    BY <1>1, <1>2, <2>2, <2>3, <2>4, ServerWrites, EntryFields DEF pageVars, ViewIInv
<1>6. ASSUME NEW s \in {"loading", "loaded", "error"}, Update(s) PROVE ViewIInv'
  <2> DEFINE e == [server.entry EXCEPT !.rev = server.counter + 1, !.at = clock, !.state = s]
  <2>1. server' = [server EXCEPT !.counter = server.counter + 1, !.entry = e] /\ clock' = clock
        /\ server.counter < MaxUpdates /\ server.entry.state = "loading"
    BY <1>6 DEF Update, ViewIInv, ServerShape
  <2>2. server.counter + 1 \in 0..MaxUpdates /\ server.counter \in Nat /\ clock \in 0..1
    BY <1>0, <2>1 DEF ViewConstants, ViewIInv, ServerShape
  <2>3. e \in Entries /\ e.op = server.entry.op /\ e.rev = server.counter + 1 /\ e.at = clock
    BY <1>3, <2>2 DEF Entries, ViewStates
  <2> HIDE DEF e
  <2>4. server'.entry = e /\ server'.ops = server.ops /\ server'.counter = server.counter + 1
        /\ server' \in [entry : Entries, ops : 0..MaxOps, counter : 0..MaxUpdates]
    BY <2>1, <2>2, <2>3 DEF ViewIInv, ServerShape
  <2>5. ServerShape'
    BY <1>0, <2>1, <2>2, <2>3, <2>4, EntryFields DEF ViewIInv, ServerShape
  <2>6. server.entry.rev < server'.entry.rev /\ server.entry.at <= server'.entry.at
    BY <1>3, <2>2, <2>3, <2>4, EntryFields DEF ViewIInv, ServerShape
  <2>7. server.ops \in Nat /\ clock \in Nat
    BY <1>0, <2>2 DEF ViewConstants, ViewIInv, ServerShape
  <2>8. QED
    BY <1>1, <1>2, <2>1, <2>3, <2>4, <2>5, <2>6, <2>7, ServerWrites DEF pageVars, ViewIInv
<1>7. QED
  BY <1>4, <1>5, <1>6

-----------------------------------------------------------------------------
(* The page's steps.                                                        *)

PageRecords == [latest : MaybeEntry, rev : 0..MaxCalls, next : 0..MaxCalls, timer : 0..MaxCalls]
RequestRecords == [pc : {"none", "sent", "answered", "failed"}, rev : 0..MaxCalls, entry : MaybeEntry]
PostRecords == [pc : {"none", "sent", "answered", "failed"}, entry : MaybeEntry]
RendersForward(p) == p.timer # 0 => p.timer >= p.rev

LEMMA ScheduleKeeps ==
  ASSUME NEW p \in PageRecords, NEW data \in MaybeEntry, NEW rev \in 0..MaxCalls, RendersForward(p)
  PROVE  Schedule(p, data, rev) \in PageRecords /\ RendersForward(Schedule(p, data, rev))
<1>1. p.rev \in Nat /\ rev \in Nat
  BY ViewBounds DEF ViewConstants, PageRecords
<1>2. CASE rev < p.rev
  BY <1>2 DEF Schedule
<1>3. CASE ~(rev < p.rev)
  <2>1. Schedule(p, data, rev) = [p EXCEPT !.latest = data, !.timer = rev]
    BY <1>3 DEF Schedule
  <2>2. [p EXCEPT !.latest = data, !.timer = rev] \in PageRecords
    BY DEF PageRecords
  <2>3. RendersForward([p EXCEPT !.latest = data, !.timer = rev])
    BY <1>1, <1>3 DEF PageRecords, RendersForward
  <2>4. QED
    BY <2>1, <2>2, <2>3
<1>4. QED
  BY <1>2, <1>3

\* The page hands out a revision.
LEMMA NextRevision ==
  ASSUME NEW p \in PageRecords, p.next < MaxCalls, RendersForward(p)
  PROVE  /\ p.next + 1 \in 0..MaxCalls
         /\ [p EXCEPT !.next = @ + 1] \in PageRecords /\ RendersForward([p EXCEPT !.next = @ + 1])
<1>1. p.next \in Nat /\ p.next + 1 \in 0..MaxCalls
  BY ViewBounds DEF ViewConstants, PageRecords
<1>2. QED
  BY <1>1 DEF PageRecords, RendersForward

\* A step that leaves what the status answers say and what was accepted.
LEMMA OtherSteps ==
  ASSUME ViewIInv, UNCHANGED <<serverVars, requests, accepted, highest>>,
         post' \in PostRecords, optimistic' \in BOOLEAN, page' \in PageRecords, RendersForward(page'),
         shown' \in MaybeEntry \cup {Optimistic}, optimistic' => post'.pc # "none"
  PROVE  ViewIInv'
<1>1. ServerShape' /\ AnswersShape'
  BY DEF ViewIInv, serverVars, ServerShape, AnswersShape, FromServer, InOrder
<1>2. PageShape'
  BY DEF ViewIInv, PageShape, PostRecords, PageRecords
<1>3. ViewSafe'
  BY DEF ViewIInv, ViewSafe, AcceptedNeverOlder, OptimisticAccounted, PendingNotOlder, RendersForward
<1>4. QED
  BY <1>1, <1>2, <1>3 DEF ViewIInv

LEMMA PageTypes ==
  ViewIInv =>
    /\ post \in PostRecords /\ page \in PageRecords /\ RendersForward(page) /\ optimistic \in BOOLEAN
    /\ requests \in [PageKeys -> RequestRecords] /\ accepted \in MaybeEntry
    /\ shown \in MaybeEntry \cup {Optimistic} /\ (optimistic => post.pc # "none")
    /\ page.latest \in MaybeEntry /\ page.timer \in 0..MaxCalls /\ post.entry \in MaybeEntry
    /\ server.entry \in MaybeEntry
<1> SUFFICES ASSUME ViewIInv PROVE PageTypes!2
  OBVIOUS
<1>1. server.entry \in MaybeEntry
  BY EntryFields DEF ViewIInv, ServerShape
<1>2. QED
  BY <1>1 DEF ViewIInv, PageShape, ViewSafe, OptimisticAccounted, PendingNotOlder, RendersForward,
              PostRecords, PageRecords, RequestRecords

\* What is drawn is what the page knows, or the entry of the request that is not answered.
LEMMA DrawKeeps ==
  ASSUME ViewIInv, NEW data \in MaybeEntry, Draw(data)
  PROVE  /\ shown' \in MaybeEntry \cup {Optimistic} /\ optimistic' \in BOOLEAN
         /\ optimistic' => optimistic
<1>1. CASE optimistic /\ data.state \in {"idle", "none"} /\ shown' = Optimistic /\ UNCHANGED optimistic
  BY <1>1, PageTypes
<1>2. CASE shown' = (IF data.state \in {"loading", "error"} THEN data ELSE Nothing) /\ optimistic' = FALSE
  BY <1>2, EntryFields
<1>3. QED
  BY <1>1, <1>2 DEF Draw

LEMMA RequestsKeep ==
  ASSUME ViewIInv, Submit \/ PostArrives \/ PostRefused \/ Render \/ Redraw
  PROVE  ViewIInv'
<1>1. CASE Submit
  <2>1. post' = [post EXCEPT !.pc = "sent"]
    BY <1>1 DEF Submit
  <2>2. post' \in PostRecords /\ post'.pc = "sent"
    BY <2>1, PageTypes DEF PostRecords
  <2>3. QED
    BY <1>1, <2>2, PageTypes, OtherSteps DEF Submit
<1>2. CASE PostArrives
  <2>1. [pc |-> "none", entry |-> Nothing] \in PostRecords
    BY EntryFields DEF PostRecords
  <2>2. page' \in PageRecords /\ RendersForward(page')
    BY <1>2, PageTypes, NextRevision, ScheduleKeeps DEF PostArrives
  <2>3. QED
    BY <1>2, <2>1, <2>2, PageTypes, OtherSteps DEF PostArrives
<1>3. CASE PostRefused
  <2>1. [pc |-> "none", entry |-> Nothing] \in PostRecords
    BY EntryFields DEF PostRecords
  <2>2. page' \in PageRecords /\ RendersForward(page')
    BY <1>3, PageTypes, NextRevision, ScheduleKeeps DEF PostRefused
  <2>3. shown' \in MaybeEntry \cup {Optimistic}
    BY <1>3, PageTypes, EntryFields DEF PostRefused
  <2>4. QED
    BY <1>3, <2>1, <2>2, <2>3, PageTypes, OtherSteps DEF PostRefused
<1>4. CASE Render
  <2>1. page' = [page EXCEPT !.timer = 0, !.rev = page.timer]
    BY <1>4 DEF Render
  <2>2. 0 \in 0..MaxCalls
    BY ViewBounds DEF ViewConstants
  <2>3. page' \in PageRecords /\ RendersForward(page')
    BY <2>1, <2>2, PageTypes DEF PageRecords, RendersForward
  <2>4. QED
    BY <1>4, <2>3, PageTypes, DrawKeeps, OtherSteps DEF Render
<1>5. CASE Redraw
  BY <1>5, PageTypes, DrawKeeps, OtherSteps DEF Redraw
<1>6. QED
  BY <1>1, <1>2, <1>3, <1>4, <1>5

\* A request that is replaced: by a new one, or by the answer of the server.
LEMMA RequestMoves ==
  ASSUME ViewIInv, NEW k \in PageKeys, NEW r \in RequestRecords,
         requests' = [requests EXCEPT ![k] = r], UNCHANGED <<serverVars, accepted, highest, post, optimistic, shown>>,
         page' \in PageRecords, RendersForward(page'),
         r.entry \in {Nothing, NoProgress, requests[k].entry, server.entry}, r.pc = "answered" => r.entry # Nothing
  PROVE  ViewIInv'
<1>1. ServerShape'
  BY DEF ViewIInv, serverVars, ServerShape
<1>2. PageShape'
  BY DEF ViewIInv, PageShape, PageRecords, RequestRecords
<1>3. ViewSafe'
  BY DEF ViewIInv, ViewSafe, AcceptedNeverOlder, OptimisticAccounted, PendingNotOlder, RendersForward
<1>4. /\ server.entry \in MaybeEntry /\ server.ops \in Nat /\ clock \in Nat
      /\ (server.entry.op = 0 => server.entry = NoProgress)
      /\ server.entry.op <= server.ops /\ server.entry.at <= clock
  BY EntryFields, ViewBounds DEF ViewConstants, ViewIInv, ServerShape
<1>5. FromServer(server.entry) /\ FromServer(Nothing) /\ FromServer(NoProgress)
  BY <1>4, EntryFields DEF FromServer
<1>6. \A l \in PageKeys : requests'[l] = IF l = k THEN r ELSE requests[l]
  BY DEF ViewIInv, PageShape
<1>7. FromServer(r.entry) /\ (r.entry.op = 0 => r.entry \in {Nothing, NoProgress})
  BY <1>4, <1>5 DEF ViewIInv, AnswersShape
<1>8. \A e \in MaybeEntry : FromServer(e) =>
        InOrder(e, server.entry) /\ InOrder(server.entry, e) /\ InOrder(Nothing, e) /\ InOrder(e, Nothing)
          /\ InOrder(NoProgress, e) /\ InOrder(e, NoProgress) /\ InOrder(e, e)
  <2> SUFFICES ASSUME NEW e \in MaybeEntry, FromServer(e)
               PROVE  /\ InOrder(e, server.entry) /\ InOrder(server.entry, e)
                      /\ InOrder(Nothing, e) /\ InOrder(e, Nothing)
                      /\ InOrder(NoProgress, e) /\ InOrder(e, NoProgress) /\ InOrder(e, e)
    OBVIOUS
  <2>1. InOrder(Nothing, e) /\ InOrder(e, Nothing) /\ InOrder(NoProgress, e) /\ InOrder(e, NoProgress)
    BY EntryFields DEF InOrder
  <2>2. e.rev \in Nat /\ e.at \in Nat /\ server.entry.rev \in Nat /\ server.entry.at \in Nat
    BY <1>4, EntryFields
  <2>3. InOrder(e, server.entry) /\ InOrder(e, e)
    BY <2>2 DEF InOrder, FromServer
  <2>4. InOrder(server.entry, e)
    BY <2>2 DEF InOrder, FromServer
  <2>5. QED
    BY <2>1, <2>3, <2>4
<1>9. (\A l \in PageKeys : FromServer(requests[l].entry)) /\ FromServer(accepted)
  BY DEF ViewIInv, AnswersShape
<1>10. (\A l \in PageKeys : InOrder(r.entry, requests[l].entry) /\ InOrder(requests[l].entry, r.entry))
       /\ InOrder(r.entry, accepted) /\ InOrder(accepted, r.entry) /\ InOrder(r.entry, r.entry)
  <2>1. \A l \in PageKeys : requests[l].entry \in MaybeEntry
    BY <1>9 DEF FromServer
  <2>2. CASE r.entry \in {Nothing, NoProgress, server.entry}
    <3>1. accepted \in MaybeEntry /\ r.entry \in MaybeEntry
      BY <1>7, <1>9 DEF FromServer
    <3>2. InOrder(r.entry, r.entry)
      BY <1>7, <1>8, <3>1
    <3>3. CASE r.entry = Nothing
      BY <1>8, <1>9, <2>1, <3>1, <3>2, <3>3
    <3>4. CASE r.entry = NoProgress
      BY <1>8, <1>9, <2>1, <3>1, <3>2, <3>4
    <3>5. CASE r.entry = server.entry
      BY <1>8, <1>9, <2>1, <3>1, <3>2, <3>5
    <3>6. QED
      BY <2>2, <3>3, <3>4, <3>5
  <2>3. CASE r.entry = requests[k].entry
    BY <1>8, <1>9, <2>1, <2>3 DEF ViewIInv, AnswersShape
  <2>4. QED
    BY <2>2, <2>3
<1>11. AnswersShape'
  <2>1. \A l \in PageKeys : FromServer(requests'[l].entry)
    BY <1>6, <1>7, <1>9
  <2>2. (\A l \in PageKeys : FromServer(requests[l].entry)') /\ FromServer(accepted)'
    BY <1>9, <2>1 DEF FromServer, serverVars
  <2>3. \A l \in PageKeys :
          /\ requests'[l].entry.op = 0 => requests'[l].entry \in {Nothing, NoProgress}
          /\ requests'[l].pc = "answered" => requests'[l].entry # Nothing
    BY <1>6, <1>7 DEF ViewIInv, AnswersShape
  <2>4. \A l \in PageKeys : InOrder(requests'[l].entry, accepted) /\ InOrder(accepted, requests'[l].entry)
    BY <1>6, <1>10 DEF ViewIInv, AnswersShape
  <2>5. \A l, m \in PageKeys : InOrder(requests'[l].entry, requests'[m].entry)
    BY <1>6, <1>10 DEF ViewIInv, AnswersShape
  <2>6. QED
    BY <2>2, <2>3, <2>4, <2>5 DEF AnswersShape, InOrder, ViewIInv
<1>12. QED
  BY <1>1, <1>2, <1>3, <1>11 DEF ViewIInv

LEMMA StatusRequestsKeep ==
  ASSUME ViewIInv, NEW k \in PageKeys, Poll(k) \/ ServeStatus(k)
  PROVE  ViewIInv'
<1>1. NoRequest \in RequestRecords /\ requests[k] \in RequestRecords
      /\ NoRequest.entry = Nothing
  BY ViewBounds, EntryFields, PageTypes DEF ViewConstants, RequestRecords, NoRequest
<1>2. CASE Poll(k)
  <2>1. page' \in PageRecords /\ RendersForward(page') /\ page.next + 1 \in 0..MaxCalls
    BY <1>2, PageTypes, NextRevision DEF Poll
  <2> DEFINE r == [NoRequest EXCEPT !.pc = "sent", !.rev = page.next + 1]
  <2>2. r \in RequestRecords /\ r.pc = "sent" /\ r.entry = Nothing
    BY <1>1, <2>1 DEF RequestRecords
  <2>3. requests' = [requests EXCEPT ![k] = r]
    BY <1>2 DEF Poll
  <2> HIDE DEF r
  <2>4. UNCHANGED <<serverVars, accepted, highest, post, optimistic, shown>>
    BY <1>2 DEF Poll
  <2>5. QED
    BY <2>1, <2>2, <2>3, <2>4, RequestMoves
<1>3. CASE ServeStatus(k)
  <2>1. PICK r \in {[requests[k] EXCEPT !.pc = "answered", !.entry = server.entry],
                    [requests[k] EXCEPT !.pc = "failed"]} : requests' = [requests EXCEPT ![k] = r]
    BY <1>3 DEF ServeStatus
  <2>2. r \in RequestRecords /\ r.entry \in {requests[k].entry, server.entry}
        /\ (r.pc = "answered" => r.entry = server.entry)
    BY <1>1, PageTypes DEF RequestRecords
  <2>3. server.entry # Nothing
    BY EntryFields DEF ViewIInv, ServerShape
  <2>4. UNCHANGED <<serverVars, accepted, highest, post, optimistic, shown>> /\ page' = page
    BY <1>3 DEF ServeStatus
  <2>5. QED
    BY <2>1, <2>2, <2>3, <2>4, PageTypes, RequestMoves
<1>4. QED
  BY <1>2, <1>3

\* A request is over: what the page accepts is nothing, what it was, or the answer.
LEMMA AnswerTaken ==
  ASSUME ViewIInv, NEW k \in PageKeys, requests' = [requests EXCEPT ![k] = NoRequest],
         UNCHANGED <<serverVars, post, optimistic, shown>>,
         page' \in PageRecords, RendersForward(page'),
         accepted' \in {Nothing, accepted, requests[k].entry},
         highest' \in [at : 0..1, rev : 0..MaxUpdates],
         accepted'.op = 0 => accepted' = Nothing /\ highest' = NoneYet,
         AcceptedNeverOlder'
  PROVE  ViewIInv'
<1>1. NoRequest \in RequestRecords /\ NoRequest.entry = Nothing /\ NoRequest.pc = "none"
  BY ViewBounds, EntryFields DEF ViewConstants, RequestRecords, NoRequest
<1>2. ServerShape'
  BY DEF ViewIInv, serverVars, ServerShape
<1>3. PageShape'
  <2>1. requests' \in [PageKeys -> RequestRecords] /\ accepted' \in MaybeEntry
    BY <1>1, PageTypes, EntryFields DEF RequestRecords
  <2>2. QED
    BY <2>1, PageTypes DEF PageShape, RequestRecords, PageRecords, PostRecords
<1>4. ViewSafe'
  BY DEF ViewIInv, ViewSafe, OptimisticAccounted, PendingNotOlder, RendersForward
<1>5. \A l \in PageKeys : requests'[l] = IF l = k THEN NoRequest ELSE requests[l]
  BY PageTypes
<1>6. \A e \in MaybeEntry : InOrder(Nothing, e) /\ InOrder(e, Nothing)
  BY EntryFields DEF InOrder
<1>7. FromServer(Nothing)
  BY EntryFields, ViewBounds DEF ViewConstants, FromServer, ViewIInv, ServerShape
<1>8. /\ \A l \in PageKeys : FromServer(requests[l].entry) /\ requests[l].entry \in MaybeEntry
      /\ FromServer(accepted) /\ accepted \in MaybeEntry
  BY DEF ViewIInv, AnswersShape, FromServer
<1>9. (\A l \in PageKeys : FromServer(requests'[l].entry)) /\ FromServer(accepted')
  BY <1>1, <1>5, <1>7, <1>8
<1>10. (\A l \in PageKeys : FromServer(requests[l].entry)') /\ FromServer(accepted)'
  BY <1>9 DEF FromServer, serverVars
<1>11. \A l \in PageKeys : /\ requests'[l].entry.op = 0 => requests'[l].entry \in {Nothing, NoProgress}
                           /\ requests'[l].pc = "answered" => requests'[l].entry # Nothing
  BY <1>1, <1>5 DEF ViewIInv, AnswersShape
<1>12. \A l, m \in PageKeys : InOrder(requests'[l].entry, requests'[m].entry)
  <2>1. \A l, m \in PageKeys : InOrder(requests[l].entry, requests[m].entry)
    BY DEF ViewIInv, AnswersShape
  <2>2. \A l \in PageKeys : InOrder(NoRequest.entry, requests'[l].entry)
                            /\ InOrder(requests'[l].entry, NoRequest.entry)
    BY <1>1, <1>5, <1>6, <1>8, EntryFields
  <2>3. QED
    BY <1>5, <2>1, <2>2
<1>13. \A l \in PageKeys : InOrder(requests'[l].entry, accepted') /\ InOrder(accepted', requests'[l].entry)
  <2>1. \A l \in PageKeys : requests'[l].entry \in {Nothing, requests[l].entry}
    BY <1>1, <1>5
  <2>2. CASE accepted' = Nothing
    BY <1>6, <1>8, <2>1, <2>2, EntryFields
  <2>3. CASE accepted' = accepted
    BY <1>6, <1>8, <2>1, <2>3 DEF ViewIInv, AnswersShape
  <2>4. CASE accepted' = requests[k].entry
    BY <1>6, <1>8, <2>1, <2>4 DEF ViewIInv, AnswersShape
  <2>5. QED
    BY <2>2, <2>3, <2>4
<1>14. AnswersShape'
  BY <1>10, <1>11, <1>12, <1>13 DEF AnswersShape, InOrder
<1>15. QED
  BY <1>2, <1>3, <1>4, <1>14 DEF ViewIInv

\* What is kept when two answers meet is not older than what was accepted.
LEMMA ReconciledNotOlder ==
  ASSUME ViewIInv, NEW k \in PageKeys, requests[k].entry.op # 0
  PROVE  LET kept == Reconciled(requests[k].entry) IN
         /\ kept \in {accepted, requests[k].entry} /\ kept.op # 0
         /\ kept.at >= accepted.at /\ (kept.op = accepted.op => kept.rev >= accepted.rev)
<1> DEFINE new == requests[k].entry
<1>1. /\ new \in MaybeEntry /\ accepted \in MaybeEntry /\ InOrder(accepted, new)
      /\ (accepted.op = 0 => accepted = Nothing)
  BY DEF ViewIInv, AnswersShape, FromServer
<1>2. /\ new.at \in Nat /\ new.rev \in Nat /\ accepted.at \in Nat /\ accepted.rev \in Nat
      /\ Nothing.at = 0 /\ Nothing.op = 0
  BY <1>1, EntryFields
<1>3. CASE KeepPrevious(accepted, new)
  BY <1>1, <1>2, <1>3 DEF Reconciled, KeepPrevious
<1>4. CASE ~KeepPrevious(accepted, new)
  BY <1>1, <1>2, <1>4 DEF Reconciled, KeepPrevious, InOrder
<1>5. QED
  BY <1>3, <1>4

LEMMA AnswersKeep ==
  ASSUME ViewIInv, NEW k \in PageKeys, StatusArrives(k) \/ StatusFails(k)
  PROVE  ViewIInv'
<1>0. NoneYet \in [at : 0..1, rev : 0..MaxUpdates] /\ Nothing.op = 0
  BY ViewBounds, EntryFields DEF ViewConstants, NoneYet
<1>1. CASE StatusFails(k)
  <2>1. AcceptedNeverOlder'
    BY <1>0, <1>1 DEF StatusFails, AcceptedNeverOlder
  <2>2. QED
    BY <1>0, <1>1, <2>1, PageTypes, AnswerTaken DEF StatusFails
<1>2. CASE StatusArrives(k)
  <2> DEFINE new == requests[k].entry
             kept == Reconciled(new)
  <2>1. requests[k].rev \in 0..MaxCalls /\ new \in MaybeEntry /\ requests[k].pc = "answered"
    BY <1>2, PageTypes DEF StatusArrives, RequestRecords
  <2>2. CASE new = NoProgress
    <3>1. page' \in PageRecords /\ RendersForward(page')
      BY <1>2, <2>1, <2>2, PageTypes, ScheduleKeeps DEF StatusArrives
    <3>2. accepted' = Nothing /\ highest' = NoneYet
      BY <1>2, <2>2 DEF StatusArrives
    <3>3. AcceptedNeverOlder'
      BY <1>0, <3>2 DEF AcceptedNeverOlder
    <3>4. QED
      BY <1>0, <1>2, <3>1, <3>2, <3>3, AnswerTaken DEF StatusArrives
  <2>3. CASE new # NoProgress
    <3>1. new.op # 0
      BY <2>1, <2>3 DEF ViewIInv, AnswersShape
    <3>2. /\ kept \in {accepted, new} /\ kept.op # 0
          /\ kept.at >= accepted.at /\ (kept.op = accepted.op => kept.rev >= accepted.rev)
      BY <3>1, ReconciledNotOlder
    <3>3. /\ accepted' = kept /\ page' = Schedule(page, kept, requests[k].rev)
          /\ highest' = [at |-> Latest(kept.at, highest.at),
                         rev |-> IF kept.op = accepted.op THEN Latest(kept.rev, highest.rev) ELSE kept.rev]
      BY <1>2, <2>3 DEF StatusArrives
    <3> HIDE DEF kept
    <3>4. kept \in MaybeEntry /\ accepted \in MaybeEntry
      BY <2>1, <3>2, PageTypes
    <3>5. page' \in PageRecords /\ RendersForward(page')
      BY <2>1, <3>3, <3>4, PageTypes, ScheduleKeeps
    <3>6. /\ kept.at \in 0..1 /\ kept.rev \in 0..MaxUpdates /\ highest.at \in 0..1 /\ highest.rev \in 0..MaxUpdates
          /\ accepted.at \in 0..1 /\ accepted.rev \in 0..MaxUpdates
      BY <3>4, EntryFields DEF ViewIInv, PageShape
    <3>7. highest.at <= kept.at /\ (kept.op = accepted.op => highest.rev <= kept.rev)
      <4>1. CASE accepted.op = 0
        BY <3>2, <3>6, <4>1, ViewBounds DEF ViewConstants, ViewIInv, AnswersShape, NoneYet
      <4>2. CASE accepted.op # 0
        BY <3>2, <3>6, <4>2, ViewBounds DEF ViewConstants, ViewIInv, ViewSafe, AcceptedNeverOlder
      <4>3. QED
        BY <4>1, <4>2
    <3>8. highest' \in [at : 0..1, rev : 0..MaxUpdates] /\ highest'.at = kept.at /\ highest'.rev = kept.rev
      BY <3>3, <3>6, <3>7, ViewBounds DEF ViewConstants, Latest
    <3>9. AcceptedNeverOlder'
      BY <3>3, <3>6, <3>8, ViewBounds DEF ViewConstants, AcceptedNeverOlder
    <3>10. QED
      BY <1>2, <3>2, <3>3, <3>5, <3>8, <3>9, AnswerTaken DEF StatusArrives
  <2>4. QED
    BY <2>2, <2>3
<1>3. QED
  BY <1>1, <1>2

LEMMA ServePostKeeps == ASSUME ViewIInv, ServePost PROVE ViewIInv'
<1>1. CASE CanBegin /\ server' = Begun(server) /\ post' = [pc |-> "answered", entry |-> server'.entry]
  <2> DEFINE e == [op |-> server.ops + 1, rev |-> server.counter + 1, at |-> clock, state |-> "loading"]
  <2>1. /\ server.ops + 1 \in 0..MaxOps /\ server.counter + 1 \in 0..MaxUpdates /\ clock \in 0..1
        /\ server.ops \in Nat /\ server.counter \in Nat
    BY <1>1, ViewBounds DEF CanBegin, ViewConstants, ViewIInv, ServerShape
  <2>2. e \in Entries /\ e.op = server.ops + 1 /\ e.rev = server.counter + 1 /\ e.at = clock
    BY <2>1 DEF Entries, ViewStates
  <2>3. server' = [entry |-> e, ops |-> server.ops + 1, counter |-> server.counter + 1]
    BY <1>1 DEF Begun
  <2> HIDE DEF e
  <2>4. clock' = clock /\ UNCHANGED <<requests, accepted, optimistic, page, shown, highest>> /\ post.pc = "sent"
    BY DEF ServePost
  <2>5. ServerShape'
    BY <2>1, <2>2, <2>3, <2>4 DEF ServerShape
  <2>6. AnswersShape'
    BY <2>1, <2>2, <2>3, <2>4, <2>5, ServerWrites DEF ViewIInv
  <2>7. post' \in PostRecords /\ post'.pc = "answered"
    BY <1>1, <2>2, <2>3, EntryFields DEF PostRecords
  <2>8. PageShape'
    BY <2>4, <2>7 DEF ViewIInv, PageShape, PostRecords
  <2>9. ViewSafe'
    BY <2>4, <2>7 DEF ViewIInv, ViewSafe, AcceptedNeverOlder, OptimisticAccounted, PendingNotOlder
  <2>10. QED
    BY <2>5, <2>6, <2>8, <2>9 DEF ViewIInv
<1>2. CASE post' = [post EXCEPT !.pc = "failed"] /\ UNCHANGED server
  <2>1. post' \in PostRecords /\ post'.pc = "failed"
    BY <1>2, PageTypes DEF PostRecords
  <2>2. QED
    BY <1>2, <2>1, PageTypes, OtherSteps DEF ServePost, serverVars
<1>3. QED
  BY <1>1, <1>2 DEF ServePost

LEMMA ViewStepIInv == ViewIInv /\ [ViewNext]_viewVars => ViewIInv'
<1> SUFFICES ASSUME ViewIInv, [ViewNext]_viewVars PROVE ViewIInv'
  OBVIOUS
<1>1. CASE UNCHANGED viewVars
  BY <1>1, PageTypes, OtherSteps DEF viewVars, serverVars
<1>2. ASSUME NEW k \in PageKeys, Poll(k) \/ ServeStatus(k) \/ StatusArrives(k) \/ StatusFails(k)
      PROVE  ViewIInv'
  BY <1>2, StatusRequestsKeep, AnswersKeep
<1>3. QED
  BY <1>1, <1>2, ServerKeeps, RequestsKeep, ServePostKeeps DEF ViewNext

LEMMA ViewMeans == ViewIInv => ViewTypeOK /\ ViewSafe
  BY ViewBounds, EntryFields DEF ViewConstants, ViewIInv, ServerShape, PageShape, ViewTypeOK

\* What the page shows of a preparation: whatever the order in which answers arrive, none
\* takes it back, an optimistic entry belongs to a request that is not answered, and no
\* older rendering is pending (progress_operation_ui.py, progress_reliability.py).
THEOREM ViewIsSafe == ViewSpec => [](ViewTypeOK /\ ViewSafe)
  BY ViewMeans, ViewInitIInv, ViewStepIInv, PTL DEF ViewSpec

-----------------------------------------------------------------------------
(* The prompts that wait.  A page is well kept when chats and jobs agree and *)
(* a job that runs has the one generation of its chat; every part of a turn  *)
(* takes a page that is well kept to one that is.                            *)

ChatRecords == [exists : BOOLEAN, messages : Seq(Roles), model : ChatModels \cup {NoModel},
                pending : ChatModels \cup {NoModel}, ready : BOOLEAN]
JobRecords == [on : BOOLEAN, model : ChatModels \cup {NoModel}, running : BOOLEAN, ready : BOOLEAN,
               resumed : BOOLEAN]
Generations == [chat : Chats, queued : BOOLEAN, model : ChatModels]
Pages == [chats : [Chats -> ChatRecords], jobs : [Chats -> JobRecords], tail : Seq(Generations)]

\* A chat and its job agree.
Agree(chat, job) ==
  /\ job.running => job.on
  /\ chat.exists => /\ chat.model \in ChatModels
                    /\ job.on <=> chat.pending # NoModel
                    /\ job.on => job.model = chat.pending

Queued(t, i, c) == t[i].chat = c /\ t[i].queued
Running(t, job, c) ==
  /\ job.running => \E i \in DOMAIN t : Queued(t, i, c)
  /\ job.on /\ ~job.running => \A i \in DOMAIN t : ~Queued(t, i, c)
Once(t, c) == \A i, k \in DOMAIN t : Queued(t, i, c) /\ Queued(t, k, c) => i = k

WellKept(p) ==
  /\ p \in Pages
  /\ \A c \in Chats : Agree(p.chats[c], p.jobs[c]) /\ Running(p.tail, p.jobs[c], c) /\ Once(p.tail, c)

\* The inductive invariant of ChatQueue.
QueueIInv ==
  /\ WellKept(pageState) /\ activeChat \in Chats /\ chats[activeChat].exists
  /\ stream \in [text : BOOLEAN, abort : BOOLEAN]
  /\ known \in [ChatModels -> ModelStates \cup {"unknown"}] /\ served \in [ChatModels -> ModelStates]
  /\ reply \in [pc : {"none", "answered"}, models : [ChatModels -> ModelStates]] /\ savedReady \subseteq Chats

\* Every chat that exists in p exists in q.
KeepsChats(p, q) == \A c \in Chats : p.chats[c].exists => q.chats[c].exists

LEMMA AppendIndex ==
  ASSUME NEW S, NEW t \in Seq(S), NEW g \in S
  PROVE  /\ Append(t, g) \in Seq(S) /\ Len(Append(t, g)) = Len(t) + 1 /\ Len(t) \in Nat
         /\ DOMAIN t = 1..Len(t) /\ DOMAIN Append(t, g) = 1..Len(t) + 1
         /\ Append(t, g)[Len(t) + 1] = g /\ \A i \in DOMAIN t : Append(t, g)[i] = t[i]
  OBVIOUS

\* What happens to one chat's job: it stays as it is, is over, is begun while nothing
\* generates, or runs now with a generation behind the others.
JobStays(p, q, c) == q.jobs[c].on = p.jobs[c].on /\ q.jobs[c].running = p.jobs[c].running
JobOver(q, c) == ~q.jobs[c].on /\ ~q.jobs[c].running
JobBegins(q, c) == q.tail = <<>> /\ q.jobs[c].on /\ ~q.jobs[c].running
JobRuns(p, q, c) ==
  /\ p.jobs[c].on /\ ~p.jobs[c].running /\ q.jobs[c].on /\ q.jobs[c].running
  /\ \E m \in ChatModels : q.tail = Append(p.tail, [chat |-> c, queued |-> TRUE, model |-> m])

LEMMA PageMoves ==
  ASSUME NEW p, NEW q, WellKept(p), q \in Pages, \A c \in Chats : Agree(q.chats[c], q.jobs[c]),
         \A c \in Chats : JobStays(p, q, c) \/ JobOver(q, c) \/ JobBegins(q, c) \/ JobRuns(p, q, c),
         \/ q.tail = p.tail
         \/ \E g \in Generations : /\ q.tail = Append(p.tail, g)
                                   /\ g.queued => JobRuns(p, q, g.chat)
  PROVE  WellKept(q)
<1>1. p.tail \in Seq(Generations) /\ q.tail \in Seq(Generations)
  BY DEF WellKept, Pages
<1>2. ASSUME NEW c \in Chats PROVE Running(q.tail, q.jobs[c], c) /\ Once(q.tail, c)
  <2>1. Running(p.tail, p.jobs[c], c) /\ Once(p.tail, c)
    BY DEF WellKept
  <2>2. CASE q.tail = p.tail
    <3>1. ~JobRuns(p, q, c)
      <4>1. SUFFICES ASSUME NEW m \in ChatModels, q.tail = Append(p.tail, [chat |-> c, queued |-> TRUE, model |-> m])
                     PROVE  FALSE
        BY DEF JobRuns
      <4>2. [chat |-> c, queued |-> TRUE, model |-> m] \in Generations
        BY DEF Generations
      <4>3. Len(q.tail) = Len(p.tail) + 1 /\ Len(p.tail) \in Nat
        BY <1>1, <4>1, <4>2, AppendIndex
      <4>4. QED
        BY <2>2, <4>3
    <3>2. CASE JobStays(p, q, c)
      BY <2>1, <2>2, <3>2 DEF JobStays, Running, Once
    <3>3. CASE JobOver(q, c)
      BY <2>1, <2>2, <3>3 DEF JobOver, Running, Once
    <3>4. CASE JobBegins(q, c)
      BY <2>1, <2>2, <3>4 DEF JobBegins, Running, Once
    <3>5. QED
      BY <3>1, <3>2, <3>3, <3>4
  <2>3. ASSUME NEW g \in Generations, q.tail = Append(p.tail, g), g.queued => JobRuns(p, q, g.chat)
        PROVE  Running(q.tail, q.jobs[c], c) /\ Once(q.tail, c)
    <3> DEFINE n == Len(p.tail) + 1
    <3>1. /\ Len(p.tail) \in Nat /\ DOMAIN p.tail = 1..Len(p.tail) /\ DOMAIN q.tail = 1..n
          /\ q.tail[n] = g /\ \A i \in DOMAIN p.tail : q.tail[i] = p.tail[i]
      BY <1>1, <2>3, AppendIndex
    <3>2. \A i \in DOMAIN q.tail : i \in DOMAIN p.tail \/ i = n
      BY <3>1
    <3>3. n \in DOMAIN q.tail /\ n \notin DOMAIN p.tail /\ DOMAIN p.tail \subseteq DOMAIN q.tail
      BY <3>1
    <3>4. \A i \in DOMAIN p.tail : Queued(q.tail, i, c) <=> Queued(p.tail, i, c)
      BY <3>1 DEF Queued
    <3>5. Queued(q.tail, n, c) <=> g.queued /\ g.chat = c
      BY <3>1 DEF Queued
    <3>6. ~JobBegins(q, c)
      BY <3>3 DEF JobBegins
    <3>7. CASE g.queued /\ g.chat = c
      <4>1. JobRuns(p, q, c)
        BY <2>3, <3>7
      <4>2. \A i \in DOMAIN p.tail : ~Queued(p.tail, i, c)
        BY <2>1, <4>1 DEF JobRuns, Running
      <4>3. QED
        BY <3>2, <3>3, <3>4, <3>5, <3>7, <4>1, <4>2 DEF JobRuns, Running, Once
    <3>8. CASE ~(g.queued /\ g.chat = c)
      <4>1. ~JobRuns(p, q, c)
        <5>1. SUFFICES ASSUME NEW m \in ChatModels, q.tail = Append(p.tail, [chat |-> c, queued |-> TRUE, model |-> m])
                       PROVE  FALSE
          BY DEF JobRuns
        <5>2. [chat |-> c, queued |-> TRUE, model |-> m] \in Generations
          BY DEF Generations
        <5>3. q.tail[n] = [chat |-> c, queued |-> TRUE, model |-> m]
          BY <1>1, <5>1, <5>2, AppendIndex
        <5>4. QED
          BY <3>1, <3>8, <5>3
      <4>2. Once(q.tail, c)
        BY <2>1, <3>2, <3>4, <3>5, <3>8 DEF Once
      <4>3. CASE JobStays(p, q, c)
        BY <2>1, <3>2, <3>3, <3>4, <3>5, <3>8, <4>2, <4>3 DEF JobStays, Running
      <4>4. CASE JobOver(q, c)
        BY <4>2, <4>4 DEF JobOver, Running
      <4>5. QED
        BY <3>6, <4>1, <4>3, <4>4, <4>2
    <3>9. QED
      BY <3>7, <3>8
  <2>4. QED
    BY <2>2, <2>3
<1>3. QED
  BY <1>2 DEF WellKept

-----------------------------------------------------------------------------
(* Parts of a turn.                                                         *)

\* A page in which one chat and its job are others.
Altered(p, c, chat, job, t) == [chats |-> [p.chats EXCEPT ![c] = chat], jobs |-> [p.jobs EXCEPT ![c] = job], tail |-> t]

LEMMA PageFields ==
  ASSUME NEW p, WellKept(p), NEW c \in Chats
  PROVE  /\ p \in Pages /\ p = [chats |-> p.chats, jobs |-> p.jobs, tail |-> p.tail]
         /\ p.chats[c] \in ChatRecords /\ p.jobs[c] \in JobRecords /\ p.tail \in Seq(Generations)
         /\ Agree(p.chats[c], p.jobs[c]) /\ p.chats = [p.chats EXCEPT ![c] = p.chats[c]]
         /\ p.jobs = [p.jobs EXCEPT ![c] = p.jobs[c]]
  BY DEF WellKept, Pages

LEMMA AlteredFields ==
  ASSUME NEW p, WellKept(p), NEW c \in Chats, NEW chat \in ChatRecords, NEW job \in JobRecords,
         NEW t \in Seq(Generations)
  PROVE  /\ Altered(p, c, chat, job, t) \in Pages /\ Altered(p, c, chat, job, t).tail = t
         /\ \A d \in Chats : /\ Altered(p, c, chat, job, t).chats[d] = IF d = c THEN chat ELSE p.chats[d]
                             /\ Altered(p, c, chat, job, t).jobs[d] = IF d = c THEN job ELSE p.jobs[d]
  BY DEF WellKept, Pages, Altered

\* A job that is over or stays, with the generations as they are.
LEMMA OneChatMoves ==
  ASSUME NEW p, WellKept(p), NEW c \in Chats, NEW chat \in ChatRecords, NEW job \in JobRecords,
         Agree(chat, job),
         \/ job.on = p.jobs[c].on /\ job.running = p.jobs[c].running
         \/ ~job.on /\ ~job.running
         \/ p.tail = <<>> /\ job.on /\ ~job.running
  PROVE  WellKept(Altered(p, c, chat, job, p.tail))
<1> DEFINE q == Altered(p, c, chat, job, p.tail)
<1>1. /\ q \in Pages /\ q.tail = p.tail
      /\ \A d \in Chats : /\ q.chats[d] = IF d = c THEN chat ELSE p.chats[d]
                          /\ q.jobs[d] = IF d = c THEN job ELSE p.jobs[d]
  <2>1. p.tail \in Seq(Generations)
    BY PageFields
  <2> HIDE DEF q
  <2>2. q = Altered(p, c, chat, job, p.tail)
    BY DEF q
  <2>3. QED
    BY <2>1, <2>2, AlteredFields
<1> HIDE DEF q
<1>2. \A d \in Chats : Agree(q.chats[d], q.jobs[d])
  BY <1>1 DEF WellKept
<1>3. \A d \in Chats : JobStays(p, q, d) \/ JobOver(q, d) \/ JobBegins(q, d)
  BY <1>1 DEF JobStays, JobOver, JobBegins
<1>4. WellKept(q)
  BY <1>1, <1>2, <1>3, PageMoves
<1>5. QED
  BY <1>4 DEF q

\* executeGeneration of a message, of a chat that exists.
LEMMA GenerateKeeps ==
  ASSUME NEW p, WellKept(p), NEW c \in Chats, p.chats[c].exists
  PROVE  WellKept(Generate(p, c, FALSE)) /\ KeepsChats(p, Generate(p, c, FALSE))
<1> DEFINE g == [chat |-> c, queued |-> FALSE, model |-> p.chats[c].model]
           q == Generate(p, c, FALSE)
<1>1. g \in Generations /\ ~g.queued
  BY PageFields DEF Agree, Generations
<1>2. q = [p EXCEPT !.tail = Append(@, g)]
  BY DEF Generate
<1> HIDE DEF g, q
<1>3. Append(p.tail, g) \in Seq(Generations)
  BY <1>1, PageFields, AppendIndex
<1>4. q \in Pages /\ q.tail = Append(p.tail, g) /\ q.chats = p.chats /\ q.jobs = p.jobs
  BY <1>2, <1>3 DEF WellKept, Pages
<1>5. \A d \in Chats : Agree(q.chats[d], q.jobs[d]) /\ JobStays(p, q, d)
  BY <1>4 DEF WellKept, JobStays
<1>6. WellKept(q) /\ KeepsChats(p, q)
  BY <1>1, <1>4, <1>5, PageMoves DEF KeepsChats
<1>7. QED
  BY <1>6 DEF q

\* The generation of a prompt that waited.
LEMMA RunKeeps ==
  ASSUME NEW p, WellKept(p), NEW c \in Chats, p.chats[c].exists, p.jobs[c].on, ~p.jobs[c].running
  PROVE  LET before == [p EXCEPT !.jobs[c].running = TRUE, !.jobs[c].ready = FALSE, !.chats[c].ready = FALSE]
             q == Generate(before, c, TRUE) IN
         /\ WellKept(q) /\ KeepsChats(p, q) /\ JobRuns(p, q, c)
         /\ \A d \in Chats \ {c} : q.chats[d] = p.chats[d] /\ q.jobs[d] = p.jobs[d]
<1> DEFINE before == [p EXCEPT !.jobs[c].running = TRUE, !.jobs[c].ready = FALSE, !.chats[c].ready = FALSE]
           chat == [p.chats[c] EXCEPT !.ready = FALSE]
           job == [p.jobs[c] EXCEPT !.running = TRUE, !.ready = FALSE]
           g == [chat |-> c, queued |-> TRUE, model |-> p.chats[c].model]
           q == [before EXCEPT !.tail = Append(@, g)]
<1>1. p.chats[c] \in ChatRecords /\ p.jobs[c] \in JobRecords /\ Agree(p.chats[c], p.jobs[c])
      /\ p.tail \in Seq(Generations) /\ p.chats \in [Chats -> ChatRecords] /\ p.jobs \in [Chats -> JobRecords]
      /\ p = [chats |-> p.chats, jobs |-> p.jobs, tail |-> p.tail]
  BY PageFields DEF WellKept, Pages
<1>2. /\ chat \in ChatRecords /\ chat.exists /\ chat.model = p.chats[c].model /\ chat.pending = p.chats[c].pending
      /\ job \in JobRecords /\ job.on /\ job.running /\ job.model = p.jobs[c].model
  BY <1>1 DEF ChatRecords, JobRecords
<1>3. before.chats = [p.chats EXCEPT ![c] = chat] /\ before.jobs = [p.jobs EXCEPT ![c] = job]
      /\ before.tail = p.tail /\ before = [chats |-> before.chats, jobs |-> before.jobs, tail |-> before.tail]
  <2>1. before = [p EXCEPT !.jobs[c].running = TRUE, !.jobs[c].ready = FALSE, !.chats[c].ready = FALSE]
    OBVIOUS
  <2>2. p \in Pages
    BY DEF WellKept
  <2> HIDE DEF before
  <2>3. QED
    BY <2>1, <2>2 DEF Pages
<1>4. p.chats[c].model \in ChatModels /\ g \in Generations /\ g.queued /\ g.chat = c
  BY <1>1 DEF Agree, Generations
<1> HIDE DEF chat, job, before
<1>5. before.chats[c].model = p.chats[c].model
  BY <1>1, <1>2, <1>3
<1>6. q = Generate(before, c, TRUE)
  BY <1>5 DEF Generate
<1>7. Append(p.tail, g) \in Seq(Generations)
  BY <1>1, <1>4, AppendIndex
<1>8. /\ q \in Pages /\ q.tail = Append(p.tail, g)
      /\ \A d \in Chats : /\ q.chats[d] = IF d = c THEN chat ELSE p.chats[d]
                          /\ q.jobs[d] = IF d = c THEN job ELSE p.jobs[d]
  <2> HIDE DEF g
  <2>1. q.chats = [p.chats EXCEPT ![c] = chat] /\ q.jobs = [p.jobs EXCEPT ![c] = job]
        /\ q.tail = Append(p.tail, g) /\ q = [chats |-> q.chats, jobs |-> q.jobs, tail |-> q.tail]
    <3>1. q = [before EXCEPT !.tail = Append(@, g)]
      OBVIOUS
    <3> HIDE DEF q
    <3>2. q.chats = before.chats /\ q.jobs = before.jobs /\ q.tail = Append(before.tail, g)
          /\ q = [chats |-> q.chats, jobs |-> q.jobs, tail |-> q.tail]
      BY <1>3, <3>1
    <3>3. QED
      BY <1>3, <3>2
  <2> HIDE DEF q
  <2>2. q = Altered(p, c, chat, job, Append(p.tail, g))
    BY <2>1 DEF Altered
  <2> DEFINE t == Append(p.tail, g)
             a == Altered(p, c, chat, job, t)
  <2>3. t \in Seq(Generations)
    BY <1>7
  <2> HIDE DEF g, t
  <2>4. /\ a \in Pages /\ a.tail = t
        /\ \A d \in Chats : /\ a.chats[d] = IF d = c THEN chat ELSE p.chats[d]
                            /\ a.jobs[d] = IF d = c THEN job ELSE p.jobs[d]
    BY <1>2, <2>3, AlteredFields
  <2>5. q = a
    BY <2>2 DEF t
  <2> HIDE DEF a
  <2>6. QED
    BY <2>4, <2>5 DEF t
<1> HIDE DEF q
<1>9. \A d \in Chats : Agree(q.chats[d], q.jobs[d])
  BY <1>1, <1>2, <1>8 DEF WellKept, Agree
<1>10. JobRuns(p, q, c)
  BY <1>2, <1>4, <1>8 DEF JobRuns
<1>11. \A d \in Chats : JobStays(p, q, d) \/ JobRuns(p, q, d)
  BY <1>8, <1>10 DEF JobStays
<1>12. WellKept(q)
  BY <1>4, <1>8, <1>9, <1>10, <1>11, PageMoves
<1>13. KeepsChats(p, q) /\ \A d \in Chats \ {c} : q.chats[d] = p.chats[d] /\ q.jobs[d] = p.jobs[d]
  BY <1>2, <1>8 DEF KeepsChats
<1>14. QED
  BY <1>6, <1>10, <1>12, <1>13 DEF before

LEMMA ClearPendingKeeps ==
  ASSUME NEW p, WellKept(p), NEW c \in Chats
  PROVE  /\ WellKept(ClearPending(p, c)) /\ KeepsChats(p, ClearPending(p, c)) /\ ClearPending(p, c).tail = p.tail
         /\ \A d \in Chats \ {c} : ClearPending(p, c).chats[d] = p.chats[d] /\ ClearPending(p, c).jobs[d] = p.jobs[d]
         /\ ~ClearPending(p, c).jobs[c].on /\ ClearPending(p, c).chats[c].exists = p.chats[c].exists
<1> DEFINE chat == [p.chats[c] EXCEPT !.pending = NoModel, !.ready = FALSE]
           q == ClearPending(p, c)
<1>1. p.chats[c] \in ChatRecords /\ p.jobs[c] \in JobRecords /\ Agree(p.chats[c], p.jobs[c])
      /\ p.tail \in Seq(Generations) /\ p.chats \in [Chats -> ChatRecords] /\ p.jobs \in [Chats -> JobRecords]
      /\ p = [chats |-> p.chats, jobs |-> p.jobs, tail |-> p.tail]
  BY PageFields DEF WellKept, Pages
<1>2. chat \in ChatRecords /\ chat.exists = p.chats[c].exists /\ chat.model = p.chats[c].model
      /\ chat.pending = NoModel
  BY <1>1 DEF ChatRecords
<1>3. NoPending \in JobRecords /\ ~NoPending.on /\ ~NoPending.running
  BY DEF JobRecords, NoPending
<1>4. q = Altered(p, c, chat, NoPending, p.tail)
  <2>1. q = [p EXCEPT !.jobs[c] = NoPending, !.chats[c].pending = NoModel, !.chats[c].ready = FALSE]
    BY DEF ClearPending
  <2>2. p \in Pages
    BY DEF WellKept
  <2> HIDE DEF q
  <2>3. q.chats = [p.chats EXCEPT ![c] = chat] /\ q.jobs = [p.jobs EXCEPT ![c] = NoPending]
        /\ q.tail = p.tail /\ q = [chats |-> q.chats, jobs |-> q.jobs, tail |-> q.tail]
    BY <2>1, <2>2 DEF Pages
  <2> HIDE DEF chat
  <2>4. QED
    BY <2>3 DEF Altered
<1> HIDE DEF chat, q
<1>5. Agree(chat, NoPending)
  BY <1>1, <1>2, <1>3 DEF Agree
<1>6. WellKept(q)
  BY <1>2, <1>3, <1>4, <1>5, OneChatMoves
<1>7. /\ q.tail = p.tail
      /\ \A d \in Chats : /\ q.chats[d] = IF d = c THEN chat ELSE p.chats[d]
                          /\ q.jobs[d] = IF d = c THEN NoPending ELSE p.jobs[d]
  BY <1>1, <1>2, <1>3, <1>4, AlteredFields
<1>8. QED
  BY <1>2, <1>3, <1>6, <1>7 DEF KeepsChats, q

\* The ready marks of a chat and its job.
MarkReady(p, c, b, r) == [p EXCEPT !.jobs[c].ready = b, !.chats[c].ready = b, !.jobs[c].resumed = r]

LEMMA ReadyKeeps ==
  ASSUME NEW p, WellKept(p), NEW c \in Chats, NEW b \in BOOLEAN, NEW r \in BOOLEAN, p.jobs[c].on
  PROVE  /\ WellKept(MarkReady(p, c, b, r)) /\ KeepsChats(p, MarkReady(p, c, b, r))
         /\ MarkReady(p, c, b, r).tail = p.tail
         /\ \A d \in Chats \ {c} : /\ MarkReady(p, c, b, r).chats[d] = p.chats[d]
                                  /\ MarkReady(p, c, b, r).jobs[d] = p.jobs[d]
         /\ MarkReady(p, c, b, r).jobs[c].on /\ MarkReady(p, c, b, r).chats[c].exists = p.chats[c].exists
         /\ MarkReady(p, c, b, r).jobs[c].running = p.jobs[c].running
<1> DEFINE q == MarkReady(p, c, b, r)
           chat == [p.chats[c] EXCEPT !.ready = b]
           job == [p.jobs[c] EXCEPT !.ready = b, !.resumed = r]
<1>1. p.chats[c] \in ChatRecords /\ p.jobs[c] \in JobRecords /\ Agree(p.chats[c], p.jobs[c])
      /\ p.tail \in Seq(Generations) /\ p.chats \in [Chats -> ChatRecords] /\ p.jobs \in [Chats -> JobRecords]
      /\ p = [chats |-> p.chats, jobs |-> p.jobs, tail |-> p.tail]
  BY PageFields DEF WellKept, Pages
<1>2. /\ chat \in ChatRecords /\ chat.exists = p.chats[c].exists /\ chat.model = p.chats[c].model
      /\ chat.pending = p.chats[c].pending
      /\ job \in JobRecords /\ job.on = p.jobs[c].on /\ job.running = p.jobs[c].running
      /\ job.model = p.jobs[c].model
  BY <1>1 DEF ChatRecords, JobRecords
<1>3. q = Altered(p, c, chat, job, p.tail)
  <2>1. p \in Pages
    BY DEF WellKept
  <2>2. q = [p EXCEPT !.jobs[c].ready = b, !.chats[c].ready = b, !.jobs[c].resumed = r]
    BY DEF MarkReady
  <2> HIDE DEF q
  <2>3. q.chats = [p.chats EXCEPT ![c] = chat] /\ q.jobs = [p.jobs EXCEPT ![c] = job]
        /\ q.tail = p.tail /\ q = [chats |-> q.chats, jobs |-> q.jobs, tail |-> q.tail]
    BY <2>1, <2>2 DEF Pages
  <2> HIDE DEF chat, job
  <2>4. QED
    BY <2>3 DEF Altered
<1> HIDE DEF chat, job, q
<1>4. Agree(chat, job)
  BY <1>1, <1>2 DEF Agree
<1>5. WellKept(q)
  <2>1. WellKept(Altered(p, c, chat, job, p.tail))
    BY <1>2, <1>4, OneChatMoves
  <2>2. QED
    BY <1>3, <2>1
<1>6. /\ q.tail = p.tail
      /\ \A d \in Chats : /\ q.chats[d] = IF d = c THEN chat ELSE p.chats[d]
                          /\ q.jobs[d] = IF d = c THEN job ELSE p.jobs[d]
  <2> DEFINE a == Altered(p, c, chat, job, p.tail)
  <2>1. /\ a.tail = p.tail
        /\ \A d \in Chats : /\ a.chats[d] = IF d = c THEN chat ELSE p.chats[d]
                            /\ a.jobs[d] = IF d = c THEN job ELSE p.jobs[d]
    BY <1>1, <1>2, AlteredFields
  <2>2. q = a
    BY <1>3
  <2> HIDE DEF a
  <2>3. QED
    BY <2>1, <2>2
<1>7. QED
  BY <1>2, <1>5, <1>6 DEF KeepsChats, q

LEMMA MarksReady ==
  ASSUME NEW p, WellKept(p), NEW c \in Chats
  PROVE  /\ [p EXCEPT !.jobs[c].ready = TRUE, !.chats[c].ready = TRUE] = MarkReady(p, c, TRUE, p.jobs[c].resumed)
         /\ p.jobs[c].resumed \in BOOLEAN
<1> DEFINE r == p.jobs[c].resumed
           ready == MarkReady(p, c, TRUE, r)
           q == [p EXCEPT !.jobs[c].ready = TRUE, !.chats[c].ready = TRUE]
<1>1. p.jobs[c] \in JobRecords
  BY PageFields
<1>2. ready = [p EXCEPT !.jobs[c].ready = TRUE, !.chats[c].ready = TRUE, !.jobs[c].resumed = r]
  BY DEF MarkReady
<1>3. q = [p EXCEPT !.jobs[c].ready = TRUE, !.chats[c].ready = TRUE]
  OBVIOUS
<1> HIDE DEF q, ready
<1>4. q.chats = ready.chats /\ q.tail = ready.tail /\ q = [chats |-> q.chats, jobs |-> q.jobs, tail |-> q.tail]
      /\ ready = [chats |-> ready.chats, jobs |-> ready.jobs, tail |-> ready.tail]
  BY <1>2, <1>3 DEF WellKept, Pages
<1>5. [p.jobs[c] EXCEPT !.ready = TRUE] = [p.jobs[c] EXCEPT !.ready = TRUE, !.resumed = r]
  BY <1>1 DEF JobRecords
<1>6. q.jobs = [p.jobs EXCEPT ![c] = [p.jobs[c] EXCEPT !.ready = TRUE]]
      /\ ready.jobs = [p.jobs EXCEPT ![c] = [p.jobs[c] EXCEPT !.ready = TRUE, !.resumed = r]]
  BY <1>2, <1>3 DEF WellKept, Pages
<1>7. q = ready /\ r \in BOOLEAN
  BY <1>1, <1>4, <1>5, <1>6 DEF JobRecords
<1>8. QED
  BY <1>7 DEF q, ready

\* _run of a waiting prompt, whichever chat is on screen.
LEMMA RunPendingKeeps ==
  ASSUME NEW p, WellKept(p), NEW c \in Chats, NEW active \in Chats
  PROVE  LET q == RunPending(p, c, active) IN
         /\ WellKept(q) /\ KeepsChats(p, q)
         /\ JobStays(p, q, c) \/ JobOver(q, c) \/ JobRuns(p, q, c)
         /\ q.tail = p.tail \/ JobRuns(p, q, c)
         /\ \A d \in Chats \ {c} : q.chats[d] = p.chats[d] /\ q.jobs[d] = p.jobs[d]
<1> DEFINE q == RunPending(p, c, active)
<1>1. CASE ~p.jobs[c].on \/ p.jobs[c].running
  BY <1>1 DEF RunPending, KeepsChats, JobStays
<1>2. CASE ~(~p.jobs[c].on \/ p.jobs[c].running) /\ ~p.chats[c].exists
  BY <1>2, ClearPendingKeeps DEF RunPending, JobOver, WellKept, Agree
<1>3. CASE ~(~p.jobs[c].on \/ p.jobs[c].running) /\ p.chats[c].exists /\ c # active
  <2> DEFINE r == p.jobs[c].resumed
             yes == TRUE
             ready == MarkReady(p, c, yes, r)
  <2>1. q = ready /\ r \in BOOLEAN /\ yes \in BOOLEAN
    BY <1>3, MarksReady DEF RunPending
  <2> HIDE DEF r, yes
  <2>2. /\ WellKept(ready) /\ KeepsChats(p, ready) /\ ready.tail = p.tail
        /\ \A d \in Chats \ {c} : ready.chats[d] = p.chats[d] /\ ready.jobs[d] = p.jobs[d]
        /\ ready.jobs[c].on /\ ready.jobs[c].running = p.jobs[c].running
    BY <1>3, <2>1, ReadyKeeps
  <2> HIDE DEF ready, q
  <2>3. p.jobs[c].on = TRUE /\ ready.jobs[c].on = TRUE
    BY <1>3, <2>2, PageFields DEF JobRecords
  <2>4. JobStays(p, q, c)
    BY <2>1, <2>2, <2>3 DEF JobStays
  <2>5. QED
    BY <2>1, <2>2, <2>4 DEF q
<1>4. CASE ~(~p.jobs[c].on \/ p.jobs[c].running) /\ p.chats[c].exists /\ c = active
  <2> DEFINE ran == Generate([p EXCEPT !.jobs[c].running = TRUE, !.jobs[c].ready = FALSE,
                                       !.chats[c].ready = FALSE], c, TRUE)
  <2>1. q = ran
    BY <1>4 DEF RunPending
  <2>2. WellKept(ran) /\ KeepsChats(p, ran) /\ JobRuns(p, ran, c)
        /\ \A d \in Chats \ {c} : ran.chats[d] = p.chats[d] /\ ran.jobs[d] = p.jobs[d]
    BY <1>4, RunKeeps
  <2> HIDE DEF ran, q
  <2>3. QED
    BY <2>1, <2>2 DEF q
<1>5. QED
  BY <1>1, <1>2, <1>3, <1>4

LEMMA RenderChatKeeps ==
  ASSUME NEW p, WellKept(p), NEW c \in Chats
  PROVE  WellKept(RenderChat(p, c)) /\ KeepsChats(p, RenderChat(p, c))
  BY RunPendingKeeps DEF RenderChat, KeepsChats

-----------------------------------------------------------------------------
(* Turns.                                                                   *)

LEMMA StateFields ==
  QueueIInv => /\ WellKept(pageState) /\ pageState \in Pages
               /\ pageState.chats = chats /\ pageState.jobs = pendingChats /\ pageState.tail = tail
               /\ activeChat \in Chats /\ chats[activeChat].exists
               /\ Selected \in ChatModels /\ pageState.chats[activeChat].exists
<1> SUFFICES ASSUME QueueIInv PROVE StateFields!2
  OBVIOUS
<1>1. pageState.chats = chats /\ pageState.jobs = pendingChats /\ pageState.tail = tail
  BY DEF pageState
<1>2. Agree(chats[activeChat], pendingChats[activeChat])
  BY <1>1 DEF QueueIInv, WellKept
<1>3. QED
  BY <1>1, <1>2 DEF QueueIInv, WellKept, Agree, Selected

\* A turn that leaves the page well kept.
LEMMA TurnKeeps ==
  ASSUME QueueIInv, NEW q, WellKept(q), Becomes(q), activeChat' \in Chats, q.chats[activeChat'].exists,
         Saved(q) \/ UNCHANGED savedReady, stream' \in [text : BOOLEAN, abort : BOOLEAN],
         known' \in [ChatModels -> ModelStates \cup {"unknown"}], served' \in [ChatModels -> ModelStates],
         reply' \in [pc : {"none", "answered"}, models : [ChatModels -> ModelStates]]
  PROVE  QueueIInv'
<1>1. q = [chats |-> q.chats, jobs |-> q.jobs, tail |-> q.tail]
  BY DEF WellKept, Pages
<1>2. pageState' = q
  BY <1>1 DEF Becomes, pageState
<1>3. WellKept(pageState)'
  BY <1>2
<1>4. savedReady' \subseteq Chats /\ chats'[activeChat'].exists
  BY DEF Saved, QueueIInv, Becomes
<1>5. QED
  BY <1>3, <1>4 DEF QueueIInv

\* What a turn of the page alone leaves: what the server has and its answers.
LEMMA PageTurnKeeps ==
  ASSUME QueueIInv, NEW q, WellKept(q), Becomes(q), activeChat' \in Chats, q.chats[activeChat'].exists,
         Saved(q) \/ UNCHANGED savedReady, stream' \in [text : BOOLEAN, abort : BOOLEAN],
         UNCHANGED <<known, served, reply>>
  PROVE  QueueIInv'
  BY TurnKeeps DEF QueueIInv

LEMMA StreamStops ==
  QueueIInv => /\ StopGeneration => stream' \in [text : BOOLEAN, abort : BOOLEAN]
               /\ UNCHANGED stream => stream' \in [text : BOOLEAN, abort : BOOLEAN]
               /\ NoStream \in [text : BOOLEAN, abort : BOOLEAN]
  BY DEF QueueIInv, StopGeneration, NoStream

LEMMA RequestedKeeps ==
  QueueIInv => \A m \in ChatModels : Requested(m) => served' \in [ChatModels -> ModelStates]
  BY DEF QueueIInv, Requested, ModelStates

\* Another chat in the place of one, its job as it is.
SetChat(p, c, chat) == [p EXCEPT !.chats[c] = chat]

LEMMA SetChatKeeps ==
  ASSUME NEW p, WellKept(p), NEW c \in Chats, NEW chat \in ChatRecords, Agree(chat, p.jobs[c])
  PROVE  /\ WellKept(SetChat(p, c, chat)) /\ SetChat(p, c, chat).chats[c] = chat
         /\ SetChat(p, c, chat).tail = p.tail /\ SetChat(p, c, chat).jobs = p.jobs
         /\ \A d \in Chats \ {c} : SetChat(p, c, chat).chats[d] = p.chats[d]
<1> DEFINE q == SetChat(p, c, chat)
<1>1. q = [p EXCEPT !.chats[c] = chat]
  BY DEF SetChat
<1> HIDE DEF q
<1>2. p \in Pages
  BY DEF WellKept
<1>3. q \in Pages /\ q.tail = p.tail /\ q.jobs = p.jobs /\ q.chats = [p.chats EXCEPT ![c] = chat]
  BY <1>1, <1>2 DEF Pages
<1>4. q.chats[c] = chat /\ \A d \in Chats \ {c} : q.chats[d] = p.chats[d]
  BY <1>2, <1>3 DEF Pages
<1>5. \A d \in Chats : Agree(q.chats[d], q.jobs[d])
  BY <1>3, <1>4 DEF WellKept
<1>6. \A d \in Chats : JobStays(p, q, d)
  BY <1>3 DEF JobStays
<1>7. WellKept(q)
  BY <1>3, <1>5, <1>6, PageMoves
<1>8. QED
  BY <1>3, <1>4, <1>7 DEF q

LEMMA NewChatIsGood ==
  /\ NoChat \in ChatRecords /\ ~NoChat.exists
  /\ \A m \in ChatModels : Blank(m) \in ChatRecords /\ Blank(m).exists /\ Blank(m).pending = NoModel
                           /\ Blank(m).model = m
<1>1. <<>> \in Seq(Roles)
  OBVIOUS
<1>2. NoChat \in ChatRecords /\ ~NoChat.exists /\ NoChat.pending = NoModel
  BY <1>1 DEF NoChat, ChatRecords
<1>3. ASSUME NEW m \in ChatModels
      PROVE  Blank(m) \in ChatRecords /\ Blank(m).exists /\ Blank(m).pending = NoModel /\ Blank(m).model = m
  <2> DEFINE b == Blank(m)
  <2>1. b = [NoChat EXCEPT !.exists = TRUE, !.model = m]
    BY DEF Blank
  <2> HIDE DEF b
  <2>2. QED
    BY <1>2, <2>1 DEF ChatRecords, b
<1>4. QED
  BY <1>2, <1>3

LEMMA BlankKeeps ==
  ASSUME NEW p, WellKept(p), NEW c \in Chats, ~p.jobs[c].on, NEW m \in ChatModels
  PROVE  WellKept(SetChat(p, c, Blank(m))) /\ SetChat(p, c, Blank(m)).chats[c].exists
<1>1. Agree(Blank(m), p.jobs[c])
  BY NewChatIsGood, PageFields DEF Agree
<1>2. QED
  BY <1>1, NewChatIsGood, SetChatKeeps

LEMMA GoneKeeps ==
  ASSUME NEW p, WellKept(p), NEW c \in Chats
  PROVE  WellKept(SetChat(p, c, NoChat)) /\ SetChat(p, c, NoChat).jobs = p.jobs
         /\ \A d \in Chats \ {c} : SetChat(p, c, NoChat).chats[d] = p.chats[d]
<1>1. Agree(NoChat, p.jobs[c])
  BY NewChatIsGood, PageFields DEF Agree
<1>2. QED
  BY <1>1, NewChatIsGood, SetChatKeeps

\* Another list of messages of a chat.
LEMMA SayKeeps ==
  ASSUME NEW p, WellKept(p), NEW c \in Chats, NEW list \in Seq(Roles),
         NEW q, q = [p EXCEPT !.chats[c].messages = list]
  PROVE  WellKept(q) /\ KeepsChats(p, q) /\ q.jobs = p.jobs /\ q.tail = p.tail
         /\ q.chats[c].model = p.chats[c].model
<1> DEFINE chat == [p.chats[c] EXCEPT !.messages = list]
<1>1. p.chats[c] \in ChatRecords /\ Agree(p.chats[c], p.jobs[c]) /\ p \in Pages
  BY PageFields
<1>2. chat \in ChatRecords /\ chat.exists = p.chats[c].exists /\ chat.model = p.chats[c].model
      /\ chat.pending = p.chats[c].pending
  BY <1>1 DEF ChatRecords
<1>3. q = SetChat(p, c, chat)
  <2>1. q.chats = [p.chats EXCEPT ![c] = chat] /\ q.jobs = p.jobs /\ q.tail = p.tail
        /\ q = [chats |-> q.chats, jobs |-> q.jobs, tail |-> q.tail]
    BY <1>1 DEF Pages
  <2> HIDE DEF chat
  <2> DEFINE r == SetChat(p, c, chat)
  <2>2. r = [p EXCEPT !.chats[c] = chat]
    BY DEF SetChat
  <2> HIDE DEF r
  <2>3. r.chats = [p.chats EXCEPT ![c] = chat] /\ r.jobs = p.jobs /\ r.tail = p.tail
        /\ r = [chats |-> r.chats, jobs |-> r.jobs, tail |-> r.tail]
    BY <1>1, <2>2 DEF Pages
  <2>4. QED
    BY <2>1, <2>3 DEF r
<1> HIDE DEF chat
<1>4. Agree(chat, p.jobs[c])
  BY <1>1, <1>2 DEF Agree
<1> DEFINE s == SetChat(p, c, chat)
<1>5. WellKept(s) /\ s.chats[c] = chat /\ s.jobs = p.jobs /\ s.tail = p.tail
      /\ \A d \in Chats \ {c} : s.chats[d] = p.chats[d]
  BY <1>2, <1>4, SetChatKeeps
<1>6. q = s
  BY <1>3
<1> HIDE DEF s
<1>7. QED
  BY <1>2, <1>5, <1>6 DEF KeepsChats

LEMMA Messages ==
  QueueIInv => \A c \in Chats : chats[c].messages \in Seq(Roles)
                 /\ Append(chats[c].messages, "user") \in Seq(Roles)
                 /\ Append(chats[c].messages, "assistant") \in Seq(Roles)
<1> SUFFICES ASSUME QueueIInv, NEW c \in Chats
             PROVE  chats[c].messages \in Seq(Roles)
                    /\ Append(chats[c].messages, "user") \in Seq(Roles)
                    /\ Append(chats[c].messages, "assistant") \in Seq(Roles)
  OBVIOUS
<1>1. chats[c] \in ChatRecords
  BY StateFields DEF Pages
<1>2. chats[c].messages \in Seq(Roles)
  BY <1>1 DEF ChatRecords
<1>3. "user" \in Roles /\ "assistant" \in Roles
  BY DEF Roles
<1>4. QED
  BY <1>2, <1>3, AppendIndex

LEMMA SaidKeeps ==
  ASSUME QueueIInv, NEW c \in Chats
  PROVE  WellKept(Say(pageState, c)) /\ KeepsChats(pageState, Say(pageState, c))
         /\ Say(pageState, c).jobs = pendingChats /\ Say(pageState, c).tail = tail
         /\ Say(pageState, c).chats[c].model = chats[c].model
<1> DEFINE q == Say(pageState, c)
           list == Append(chats[c].messages, "user")
           s == pageState
<1>1. WellKept(s) /\ s \in Pages /\ s.jobs = pendingChats /\ s.tail = tail /\ s.chats = chats
  BY StateFields
<1>2. q = [s EXCEPT !.chats[c].messages = list]
  BY <1>1 DEF Say, Pages
<1>3. list \in Seq(Roles)
  BY Messages
<1> HIDE DEF q, list, s
<1>4. WellKept(q) /\ KeepsChats(s, q) /\ q.jobs = s.jobs /\ q.tail = s.tail /\ q.chats[c].model = s.chats[c].model
  BY <1>1, <1>2, <1>3, SayKeeps
<1>5. QED
  BY <1>1, <1>4 DEF q, s

LEMMA SendKeeps == ASSUME QueueIInv, Send PROVE QueueIInv'
<1>1. UNCHANGED <<activeChat, known, served, reply>>
  BY DEF Send
<1>2. CASE isGenerating
  <2>1. StopGeneration /\ UNCHANGED <<chats, pendingChats, tail, savedReady>>
    BY <1>2 DEF Send
  <2>2. Becomes(pageState)
    BY <2>1 DEF Becomes, pageState
  <2>3. QED
    BY <1>1, <2>1, <2>2, StateFields, StreamStops, PageTurnKeeps
<1>3. CASE ~isGenerating
  <2> DEFINE p == Say(pageState, activeChat)
             q == Generate(p, activeChat, FALSE)
  <2>1. Becomes(q) /\ Saved(q) /\ UNCHANGED stream
    BY <1>3 DEF Send
  <2>2. WellKept(p) /\ KeepsChats(pageState, p) /\ activeChat \in Chats /\ p.chats[activeChat].exists
    BY StateFields, SaidKeeps DEF KeepsChats
  <2> HIDE DEF p
  <2>3. WellKept(q) /\ q.chats[activeChat].exists
    BY <2>2, GenerateKeeps DEF KeepsChats
  <2> HIDE DEF q
  <2>4. QED
    BY <1>1, <2>1, <2>2, <2>3, StreamStops, PageTurnKeeps
<1>4. QED
  BY <1>2, <1>3

LEMMA StartQueuedLoadKeeps == ASSUME QueueIInv, StartQueuedLoad PROVE QueueIInv'
<1> DEFINE c == activeChat
           p == Say(pageState, c)
           r == known[Selected] # "busy"
           job == [NoPending EXCEPT !.on = TRUE, !.model = Selected, !.resumed = r]
           chat == [p.chats[c] EXCEPT !.pending = Selected]
           q == [p EXCEPT !.jobs[c] = job, !.chats[c].pending = Selected]
<1>1. Becomes(q) /\ Saved(q) /\ UNCHANGED <<activeChat, stream, known, reply>> /\ tail = <<>>
      /\ (UNCHANGED served \/ Requested(Selected))
  BY DEF StartQueuedLoad, isGenerating
<1>2. WellKept(p) /\ p.tail = <<>> /\ p.chats[c].exists /\ c \in Chats /\ Selected \in ChatModels
      /\ p.chats[c].model \in ChatModels
  <2>1. WellKept(p) /\ KeepsChats(pageState, p) /\ p.tail = tail /\ p.chats[c].model = Selected
    BY StateFields, SaidKeeps DEF Selected
  <2>2. QED
    BY <1>1, <2>1, StateFields DEF KeepsChats
<1>3. r \in BOOLEAN
  OBVIOUS
<1> HIDE DEF p, r
<1>4. job \in JobRecords /\ job.on /\ ~job.running /\ job.model = Selected
  BY <1>2, <1>3 DEF JobRecords, NoPending
<1>5. p \in Pages /\ p.chats[c] \in ChatRecords
  BY <1>2, PageFields
<1>6. chat \in ChatRecords /\ chat.exists /\ chat.pending = Selected /\ chat.model = p.chats[c].model
  BY <1>2, <1>5 DEF ChatRecords
<1>7. q = Altered(p, c, chat, job, p.tail)
  <2> HIDE DEF job
  <2>1. q = [p EXCEPT !.jobs[c] = job, !.chats[c].pending = Selected]
    OBVIOUS
  <2> HIDE DEF q
  <2>2. q.chats = [p.chats EXCEPT ![c] = chat] /\ q.jobs = [p.jobs EXCEPT ![c] = job]
        /\ q.tail = p.tail /\ q = [chats |-> q.chats, jobs |-> q.jobs, tail |-> q.tail]
    BY <1>5, <2>1 DEF Pages
  <2> HIDE DEF chat
  <2>3. QED
    BY <2>2 DEF Altered
<1> HIDE DEF job, chat, q
<1>8. Agree(chat, job)
  BY <1>2, <1>4, <1>6, QueueAssumption DEF Agree
<1> DEFINE a == Altered(p, c, chat, job, p.tail)
<1>9. WellKept(a)
  BY <1>2, <1>4, <1>6, <1>8, OneChatMoves
<1>10. a.chats[c] = chat
  <2>1. p.tail \in Seq(Generations)
    BY <1>5 DEF Pages
  <2>2. WellKept(p) /\ c \in Chats /\ chat \in ChatRecords /\ job \in JobRecords
    BY <1>2, <1>4, <1>6
  <2> HIDE DEF c
  <2>3. /\ a.tail = p.tail
        /\ \A d \in Chats : /\ a.chats[d] = IF d = c THEN chat ELSE p.chats[d]
                            /\ a.jobs[d] = IF d = c THEN job ELSE p.jobs[d]
    BY <2>1, <2>2, AlteredFields
  <2>4. QED
    BY <2>2, <2>3
<1> HIDE DEF a
<1>11. WellKept(q) /\ q.chats[c].exists
  BY <1>6, <1>7, <1>9, <1>10 DEF a
<1>12. served' \in [ChatModels -> ModelStates]
  BY <1>1, <1>2, RequestedKeeps DEF QueueIInv
<1>13. QED
  BY <1>1, <1>2, <1>11, <1>12, StreamStops, TurnKeeps DEF QueueIInv

LEMMA PrepareForImageKeeps == ASSUME QueueIInv, PrepareForImage PROVE QueueIInv'
<1>1. Becomes(pageState)
  BY DEF PrepareForImage, Becomes, pageState
<1>2. served' \in [ChatModels -> ModelStates]
  BY StateFields, RequestedKeeps DEF PrepareForImage
<1>3. QED
  BY <1>1, <1>2, StateFields, StreamStops, TurnKeeps DEF PrepareForImage, QueueIInv

LEMMA SelectModelKeeps == ASSUME QueueIInv, NEW m \in ChatModels, SelectModel(m) PROVE QueueIInv'
<1> DEFINE s == pageState
           chat == [chats[activeChat] EXCEPT !.model = m]
           q == SetChat(s, activeChat, chat)
<1>1. WellKept(s) /\ s \in Pages /\ s.jobs = pendingChats /\ s.tail = tail /\ s.chats = chats
      /\ activeChat \in Chats /\ chats[activeChat].exists
  BY StateFields
<1> HIDE DEF s
<1>2. chats[activeChat] \in ChatRecords /\ Agree(chats[activeChat], pendingChats[activeChat])
  BY <1>1, PageFields
<1>3. chat \in ChatRecords /\ chat.exists /\ chat.model = m /\ chat.pending = chats[activeChat].pending
  BY <1>1, <1>2 DEF ChatRecords
<1>4. chats' = [chats EXCEPT ![activeChat] = chat]
  BY DEF SelectModel
<1> HIDE DEF chat
<1>5. Agree(chat, s.jobs[activeChat])
  BY <1>1, <1>2, <1>3 DEF Agree
<1>6. WellKept(q) /\ q.chats[activeChat] = chat /\ q.jobs = s.jobs /\ q.tail = s.tail
  BY <1>1, <1>3, <1>5, SetChatKeeps
<1>7. q.chats = chats'
  BY <1>1, <1>4 DEF SetChat, Pages
<1> HIDE DEF q
<1>8. Becomes(q)
  BY <1>1, <1>6, <1>7 DEF SelectModel, Becomes
<1>9. QED
  BY <1>1, <1>3, <1>6, <1>8, StreamStops, PageTurnKeeps DEF SelectModel

LEMMA ShowKeeps ==
  ASSUME QueueIInv, NEW p, WellKept(p), NEW c \in Chats, p.chats[c].exists, Show(p, c),
         StopGeneration \/ UNCHANGED stream, UNCHANGED <<known, served, reply>>
  PROVE  QueueIInv'
<1> DEFINE q == RenderChat(p, c)
<1>1. activeChat' = c /\ Becomes(q) /\ Saved(q)
  BY DEF Show
<1>2. WellKept(q) /\ q.chats[c].exists
  BY RenderChatKeeps DEF KeepsChats
<1> HIDE DEF q
<1>3. QED
  BY <1>1, <1>2, StreamStops, PageTurnKeeps

LEMMA SwitchChatKeeps == ASSUME QueueIInv, NEW c \in Chats, SwitchChat(c) PROVE QueueIInv'
  BY StateFields, ShowKeeps DEF SwitchChat

LEMMA NewChatKeeps == ASSUME QueueIInv, NEW c \in Chats, NewChat(c) PROVE QueueIInv'
<1> DEFINE s == pageState
           q == SetChat(s, c, Blank(Selected))
<1>1. WellKept(s) /\ s.jobs = pendingChats /\ Selected \in ChatModels
  BY StateFields
<1>2. q = [pageState EXCEPT !.chats[c] = Blank(Selected)]
  BY DEF SetChat
<1>3. Becomes(q) /\ Saved(q) /\ activeChat' = c /\ StopGeneration /\ ~pendingChats[c].on
      /\ UNCHANGED <<known, served, reply>>
  BY <1>2 DEF NewChat
<1> HIDE DEF s
<1>4. WellKept(q) /\ q.chats[c].exists
  BY <1>1, <1>3, BlankKeeps
<1> HIDE DEF q
<1>5. QED
  BY <1>3, <1>4, StreamStops, PageTurnKeeps

LEMMA DeleteChatKeeps == ASSUME QueueIInv, NEW c \in Chats, DeleteChat(c) PROVE QueueIInv'
<1> DEFINE p == IF pendingChats[c].on THEN ClearPending(pageState, c) ELSE pageState
           q == SetChat(p, c, NoChat)
           m == Selected
<1>1. /\ WellKept(p) /\ KeepsChats(pageState, p) /\ ~p.jobs[c].on
      /\ \A d \in Chats \ {c} : p.chats[d] = chats[d] /\ p.jobs[d] = pendingChats[d]
  <2>1. WellKept(pageState) /\ pageState.chats = chats /\ pageState.jobs = pendingChats
    BY StateFields
  <2>2. CASE pendingChats[c].on
    BY <2>1, <2>2, ClearPendingKeeps
  <2>3. CASE ~pendingChats[c].on
    BY <2>1, <2>3 DEF KeepsChats
  <2>4. QED
    BY <2>2, <2>3
<1>2. q = [p EXCEPT !.chats[c] = NoChat]
  BY DEF SetChat
<1>3. UNCHANGED <<known, served, reply>>
  BY DEF DeleteChat
<1>4. /\ activeChat \in Chats /\ chats[activeChat].exists /\ p.chats[activeChat].exists /\ m \in ChatModels
  BY <1>1, StateFields DEF KeepsChats
<1>5. \/ Becomes(p) /\ Saved(p) /\ UNCHANGED <<activeChat, stream>>
      \/ c # activeChat /\ Becomes(q) /\ Saved(q) /\ UNCHANGED <<activeChat, stream>>
      \/ /\ StopGeneration
         /\ \E d \in Chats \ {c} :
              \/ chats[d].exists /\ Show(q, d)
              \/ ~pendingChats[d].on /\ Show(SetChat(q, d, Blank(m)), d)
  BY <1>2 DEF DeleteChat, SetChat
<1> HIDE DEF p, m
<1>6. WellKept(q) /\ q.jobs = p.jobs /\ \A d \in Chats \ {c} : q.chats[d] = p.chats[d]
  BY <1>1, GoneKeeps
<1> HIDE DEF q
<1>7. CASE Becomes(p) /\ Saved(p) /\ UNCHANGED <<activeChat, stream>>
  BY <1>1, <1>3, <1>4, <1>7, StreamStops, PageTurnKeeps
<1>8. CASE c # activeChat /\ Becomes(q) /\ Saved(q) /\ UNCHANGED <<activeChat, stream>>
  BY <1>3, <1>4, <1>6, <1>8, StreamStops, PageTurnKeeps
<1>9. ASSUME NEW d \in Chats \ {c}, chats[d].exists, Show(q, d), StopGeneration PROVE QueueIInv'
  BY <1>1, <1>3, <1>6, <1>9, ShowKeeps
<1>10. ASSUME NEW d \in Chats \ {c}, ~pendingChats[d].on, Show(SetChat(q, d, Blank(m)), d), StopGeneration
       PROVE QueueIInv'
  <2> DEFINE n == SetChat(q, d, Blank(m))
  <2>1. WellKept(n) /\ n.chats[d].exists
    BY <1>1, <1>4, <1>6, <1>10, BlankKeeps
  <2>2. Show(n, d)
    BY <1>10
  <2> HIDE DEF n
  <2>3. QED
    BY <1>3, <1>10, <2>1, <2>2, ShowKeeps
<1>11. QED
  BY <1>5, <1>7, <1>8, <1>9, <1>10

LEMMA ClearAllKeeps == ASSUME QueueIInv, NEW d \in Chats, ClearAll(d) PROVE QueueIInv'
<1> DEFINE all == [c \in Chats |-> IF c = d THEN Blank(Selected) ELSE NoChat]
           s == pageState
           q == [s EXCEPT !.chats = all]
<1>1. Becomes(q) /\ Saved(q) /\ activeChat' = d /\ StopGeneration /\ ~pendingChats[d].on
      /\ UNCHANGED <<known, served, reply>>
  BY DEF ClearAll
<1>2. WellKept(s) /\ s \in Pages /\ s.jobs = pendingChats /\ Selected \in ChatModels
  BY StateFields
<1>3. all \in [Chats -> ChatRecords] /\ all[d] = Blank(Selected) /\ \A c \in Chats \ {d} : all[c] = NoChat
  BY <1>2, NewChatIsGood
<1> HIDE DEF s, all
<1>4. q \in Pages /\ q.jobs = s.jobs /\ q.tail = s.tail /\ q.chats = all
  BY <1>2, <1>3 DEF Pages
<1> HIDE DEF q
<1>5. ASSUME NEW c \in Chats PROVE Agree(q.chats[c], q.jobs[c])
  <2>1. Agree(s.chats[c], s.jobs[c])
    BY <1>2 DEF WellKept
  <2>2. CASE c = d
    BY <1>1, <1>2, <1>3, <1>4, <2>1, <2>2, NewChatIsGood DEF Agree
  <2>3. CASE c # d
    BY <1>3, <1>4, <2>1, <2>3, NewChatIsGood DEF Agree
  <2>4. QED
    BY <2>2, <2>3
<1>6. \A c \in Chats : JobStays(s, q, c)
  BY <1>4 DEF JobStays
<1>7. WellKept(q)
  BY <1>2, <1>4, <1>5, <1>6, PageMoves
<1>8. q.chats[d].exists
  BY <1>2, <1>3, <1>4, NewChatIsGood
<1>9. QED
  BY <1>1, <1>7, <1>8, StreamStops, PageTurnKeeps

LEMMA RegenerateLastKeeps == ASSUME QueueIInv, RegenerateLast PROVE QueueIInv'
<1> DEFINE c == activeChat
           kept == chats[c].messages
           left == IF kept # <<>> /\ Last(kept) = "assistant" THEN Front(kept) ELSE kept
           s == pageState
           p == [s EXCEPT !.chats[c].messages = left]
           q == IF left # <<>> /\ Last(left) = "user" THEN Generate(p, c, FALSE) ELSE p
<1>1. Becomes(q) /\ Saved(q) /\ UNCHANGED <<activeChat, stream, known, served, reply>>
  BY DEF RegenerateLast
<1>2. left \in Seq(Roles)
  <2>1. kept \in Seq(Roles) /\ c \in Chats
    BY StateFields, Messages
  <2>2. kept # <<>> => Front(kept) \in Seq(Roles)
    BY <2>1 DEF Front
  <2>3. QED
    BY <2>1, <2>2
<1>3. WellKept(s) /\ c \in Chats /\ s.chats[c].exists
  BY StateFields
<1> HIDE DEF left, s
<1>4. p = [s EXCEPT !.chats[c].messages = left]
  OBVIOUS
<1> HIDE DEF p
<1>5. WellKept(p) /\ KeepsChats(s, p)
  BY <1>2, <1>3, <1>4, SayKeeps
<1>6. p.chats[c].exists
  BY <1>3, <1>5 DEF KeepsChats
<1>7. WellKept(q) /\ q.chats[c].exists
  BY <1>3, <1>5, <1>6, GenerateKeeps DEF KeepsChats
<1> HIDE DEF q
<1>8. QED
  BY <1>1, <1>3, <1>7, StreamStops, PageTurnKeeps

\* The end of a generation takes it off the front.
LEMMA GenerationEndsKeeps == ASSUME QueueIInv, GenerationEnds PROVE QueueIInv'
<1> DEFINE g == Head(tail)
           c == g.chat
           s == pageState
           said == IF stream.text THEN Append(chats[c].messages, "assistant") ELSE chats[c].messages
           p == IF chats[c].exists
                THEN [s EXCEPT !.tail = Tail(@), !.chats[c].messages = said, !.chats[c].model = g.model]
                ELSE [s EXCEPT !.tail = Tail(@)]
           q == IF g.queued THEN ClearPending(p, c) ELSE p
           t == Tail(tail)
<1>1. Becomes(q) /\ Saved(q) /\ UNCHANGED <<activeChat, known, served, reply>> /\ stream' = NoStream
      /\ tail # <<>>
  BY DEF GenerationEnds, isGenerating
<1>2. WellKept(s) /\ s \in Pages /\ s.chats = chats /\ s.jobs = pendingChats /\ s.tail = tail
      /\ chats \in [Chats -> ChatRecords] /\ pendingChats \in [Chats -> JobRecords]
  BY StateFields DEF Pages
<1>3. tail \in Seq(Generations)
  BY <1>2 DEF Pages
<1>4. /\ g \in Generations /\ g = tail[1] /\ 1 \in DOMAIN tail /\ t \in Seq(Generations)
      /\ \A i \in DOMAIN t : i + 1 \in DOMAIN tail /\ t[i] = tail[i + 1]
      /\ \A i \in DOMAIN tail : i = 1 \/ (i - 1 \in DOMAIN t /\ t[i - 1] = tail[i])
      /\ DOMAIN t \subseteq Int /\ DOMAIN tail \subseteq Int
  <2>1. /\ Len(tail) \in Nat /\ Len(tail) >= 1 /\ DOMAIN tail = 1 .. Len(tail)
        /\ Len(t) = Len(tail) - 1 /\ DOMAIN t = 1 .. Len(t) /\ t \in Seq(Generations)
    BY <1>1, <1>3
  <2>2. \A i \in 1 .. Len(t) : t[i] = tail[i + 1]
    BY <1>1, <1>3
  <2>3. g = tail[1] /\ g \in Generations
    BY <1>3, <2>1
  <2>4. \A i \in DOMAIN tail : i = 1 \/ (i - 1 \in DOMAIN t /\ t[i - 1] = tail[i])
    <3> HIDE DEF t
    <3>1. ASSUME NEW i \in 1 .. Len(tail), i # 1
          PROVE  i - 1 \in 1 .. Len(t) /\ (i - 1) + 1 = i
      BY <2>1, <3>1
    <3>2. QED
      BY <2>1, <2>2, <3>1
  <2> HIDE DEF t, g
  <2>5. QED
    BY <2>1, <2>2, <2>3, <2>4
<1>5. c \in Chats /\ g.model \in ChatModels
  BY <1>4 DEF Generations
<1>6. said \in Seq(Roles)
  BY <1>5, Messages
<1>7. Agree(chats[c], pendingChats[c]) /\ chats[c] \in ChatRecords /\ pendingChats[c] \in JobRecords
  BY <1>2, <1>5, PageFields
<1> DEFINE chat == IF chats[c].exists THEN [chats[c] EXCEPT !.messages = said, !.model = g.model] ELSE chats[c]
<1>8. /\ chat \in ChatRecords /\ chat.exists = chats[c].exists /\ chat.pending = chats[c].pending
      /\ (chat.exists => chat.model \in ChatModels)
  BY <1>5, <1>6, <1>7 DEF ChatRecords
<1> HIDE DEF g, said
<1>9. p \in Pages /\ p.tail = t /\ p.jobs = pendingChats /\ p.chats = [chats EXCEPT ![c] = chat]
  <2>1. CASE chats[c].exists
    <3>1. p = [s EXCEPT !.tail = Tail(@), !.chats[c].messages = said, !.chats[c].model = g.model]
      BY <2>1
    <3>2. chat = [chats[c] EXCEPT !.messages = said, !.model = g.model]
      BY <2>1
    <3> HIDE DEF s, p, chat
    <3>3. p.tail = Tail(s.tail) /\ p.jobs = s.jobs /\ p = [chats |-> p.chats, jobs |-> p.jobs, tail |-> p.tail]
      BY <1>2, <3>1 DEF Pages
    <3>4. p.chats = [s.chats EXCEPT ![c] = [s.chats[c] EXCEPT !.messages = said, !.model = g.model]]
      BY <1>2, <3>1 DEF Pages
    <3>5. p.chats = [chats EXCEPT ![c] = chat]
      BY <1>2, <3>2, <3>4
    <3>6. QED
      BY <1>2, <1>4, <1>5, <1>8, <3>3, <3>5 DEF Pages
  <2>2. CASE ~chats[c].exists
    <3>1. p = [s EXCEPT !.tail = Tail(@)] /\ chat = chats[c]
      BY <2>2
    <3> HIDE DEF s, p, chat
    <3>2. p.tail = Tail(s.tail) /\ p.jobs = s.jobs /\ p.chats = s.chats
          /\ p = [chats |-> p.chats, jobs |-> p.jobs, tail |-> p.tail]
      BY <1>2, <3>1 DEF Pages
    <3>3. QED
      BY <1>2, <1>4, <1>5, <3>1, <3>2 DEF Pages
  <2>3. QED
    BY <2>1, <2>2
<1> HIDE DEF s, p, chat
<1>10. /\ q \in Pages /\ q.tail = t
       /\ \A d \in Chats \ {c} : q.chats[d] = chats[d] /\ q.jobs[d] = pendingChats[d]
       /\ q.chats[c].exists = chats[c].exists /\ Agree(q.chats[c], q.jobs[c])
       /\ IF g.queued THEN ~q.jobs[c].on /\ ~q.jobs[c].running ELSE q.jobs[c] = pendingChats[c]
  <2>1. CASE ~g.queued
    <3>1. q = p
      BY <2>1
    <3>2. p.chats[c] = chat /\ \A d \in Chats \ {c} : p.chats[d] = chats[d]
      BY <1>2, <1>5, <1>9
    <3>3. Agree(chat, pendingChats[c])
      BY <1>7, <1>8 DEF Agree
    <3> HIDE DEF q
    <3>4. QED
      BY <1>8, <1>9, <2>1, <3>1, <3>2, <3>3
  <2>2. CASE g.queued
    <3> DEFINE over == [chat EXCEPT !.pending = NoModel, !.ready = FALSE]
    <3>1. over \in ChatRecords /\ over.exists = chat.exists /\ over.model = chat.model /\ over.pending = NoModel
      BY <1>8 DEF ChatRecords
    <3>2. q = [p EXCEPT !.jobs[c] = NoPending, !.chats[c].pending = NoModel, !.chats[c].ready = FALSE]
      BY <2>2 DEF ClearPending
    <3> HIDE DEF q
    <3>3. q.jobs = [p.jobs EXCEPT ![c] = NoPending] /\ q.tail = p.tail
          /\ q = [chats |-> q.chats, jobs |-> q.jobs, tail |-> q.tail]
          /\ q.chats = [p.chats EXCEPT ![c] = [p.chats[c] EXCEPT !.pending = NoModel, !.ready = FALSE]]
      BY <1>9, <3>2 DEF Pages
    <3>4. q.chats = [p.chats EXCEPT ![c] = over]
      BY <1>2, <1>5, <1>9, <3>3
    <3>5. NoPending \in JobRecords /\ ~NoPending.on /\ ~NoPending.running
      BY DEF NoPending, JobRecords
    <3> HIDE DEF over
    <3>6. /\ q \in Pages /\ q.tail = t /\ q.chats[c] = over /\ q.jobs[c] = NoPending
          /\ \A d \in Chats \ {c} : q.chats[d] = chats[d] /\ q.jobs[d] = pendingChats[d]
      <4>1. q.chats \in [Chats -> ChatRecords] /\ q.jobs \in [Chats -> JobRecords]
            /\ q.chats[c] = over /\ q.jobs[c] = NoPending
            /\ \A d \in Chats \ {c} : q.chats[d] = p.chats[d] /\ q.jobs[d] = p.jobs[d]
        <5>1. p.chats \in [Chats -> ChatRecords] /\ p.jobs \in [Chats -> JobRecords]
          BY <1>9 DEF Pages
        <5>2. QED
          BY <1>5, <3>1, <3>3, <3>4, <3>5, <5>1
      <4>2. \A d \in Chats \ {c} : p.chats[d] = chats[d] /\ p.jobs[d] = pendingChats[d]
        BY <1>2, <1>5, <1>9
      <4>3. q \in Pages /\ q.tail = t
        BY <1>4, <1>9, <3>3, <4>1 DEF Pages
      <4>4. QED
        BY <4>1, <4>2, <4>3
    <3>7. Agree(over, NoPending)
      BY <1>8, <3>1, <3>5 DEF Agree
    <3>8. QED
      BY <1>8, <2>2, <3>1, <3>5, <3>6, <3>7
  <2>3. QED
    BY <2>1, <2>2
<1> HIDE DEF q, t
<1>11. ASSUME NEW d \in Chats PROVE Agree(q.chats[d], q.jobs[d]) /\ Running(q.tail, q.jobs[d], d) /\ Once(q.tail, d)
  <2>1. Agree(chats[d], pendingChats[d]) /\ Running(tail, pendingChats[d], d) /\ Once(tail, d)
    BY <1>2 DEF WellKept
  <2>2. Agree(q.chats[d], q.jobs[d])
    BY <1>10, <2>1
  <2>3. \A i \in DOMAIN t : Queued(t, i, d) <=> Queued(tail, i + 1, d)
    BY <1>4 DEF Queued
  <2>4. \A i \in DOMAIN tail : i # 1 => (Queued(tail, i, d) <=> Queued(t, i - 1, d))
    BY <1>4 DEF Queued
  <2>5. Queued(tail, 1, d) <=> (g.queued /\ c = d)
    BY <1>4 DEF Queued
  <2>6. Once(t, d)
    <3>1. SUFFICES ASSUME NEW i \in DOMAIN t, NEW k \in DOMAIN t, Queued(t, i, d), Queued(t, k, d) PROVE i = k
      BY DEF Once
    <3>2. i + 1 \in DOMAIN tail /\ k + 1 \in DOMAIN tail /\ i \in Int /\ k \in Int
      BY <1>4
    <3>3. i + 1 = k + 1
      BY <2>1, <2>3, <3>1, <3>2 DEF Once
    <3>4. QED
      BY <3>2, <3>3
  <2>7. Running(t, q.jobs[d], d)
    <3>1. CASE g.queued /\ d = c
      BY <1>10, <3>1 DEF Running
    <3>2. CASE ~(g.queued /\ d = c)
      <4>1. q.jobs[d] = pendingChats[d]
        BY <1>10, <3>2
      <4>2. ASSUME pendingChats[d].running PROVE \E i \in DOMAIN t : Queued(t, i, d)
        <5>1. PICK i \in DOMAIN tail : Queued(tail, i, d)
          BY <2>1, <4>2 DEF Running
        <5>2. i # 1
          BY <2>5, <3>2, <5>1
        <5>3. QED
          BY <1>4, <2>4, <5>1, <5>2
      <4>3. ASSUME pendingChats[d].on, ~pendingChats[d].running PROVE \A i \in DOMAIN t : ~Queued(t, i, d)
        BY <1>4, <2>1, <2>3, <4>3 DEF Running
      <4>4. QED
        BY <4>1, <4>2, <4>3 DEF Running
    <3>3. QED
      BY <3>1, <3>2
  <2>8. QED
    BY <1>10, <2>2, <2>6, <2>7
<1>12. WellKept(q)
  BY <1>10, <1>11 DEF WellKept
<1>13. activeChat' \in Chats /\ q.chats[activeChat'].exists
  BY <1>1, <1>10, StateFields
<1>14. QED
  BY <1>1, <1>12, <1>13, StreamStops, PageTurnKeeps

LEMMA OutsideKeeps ==
  ASSUME QueueIInv, TextArrives \/ AnswerStatus \/ \E m \in ChatModels, s \in ModelStates : ServerMoves(m, s)
  PROVE  QueueIInv'
<1>1. UNCHANGED <<chats, activeChat, pendingChats, tail, known, savedReady>>
  BY DEF TextArrives, AnswerStatus, ServerMoves
<1>2. Becomes(pageState)
  BY <1>1 DEF Becomes, pageState
<1>3. stream' \in [text : BOOLEAN, abort : BOOLEAN]
  BY DEF TextArrives, AnswerStatus, ServerMoves, QueueIInv
<1>4. served' \in [ChatModels -> ModelStates]
  BY DEF TextArrives, AnswerStatus, ServerMoves, QueueIInv
<1>5. reply' \in [pc : {"none", "answered"}, models : [ChatModels -> ModelStates]]
  BY DEF TextArrives, AnswerStatus, ServerMoves, QueueIInv
<1>6. QED
  BY <1>1, <1>2, <1>3, <1>4, <1>5, StateFields, TurnKeeps DEF QueueIInv

LEMMA QueueRests == QueueIInv /\ UNCHANGED queueVars => QueueIInv'
<1> SUFFICES ASSUME QueueIInv, UNCHANGED queueVars PROVE QueueIInv'
  OBVIOUS
<1>1. Becomes(pageState)
  BY DEF queueVars, Becomes, pageState
<1>2. QED
  BY <1>1, StateFields, StreamStops, PageTurnKeeps DEF queueVars

-----------------------------------------------------------------------------
(* A status, and a new page.                                                *)

\* What a status does to one chat that has a job or not.
Settled(p, q, c) ==
  /\ q.chats[c] \in ChatRecords /\ q.jobs[c] \in JobRecords /\ q.tail \in Seq(Generations)
  /\ Agree(q.chats[c], q.jobs[c]) /\ (p.chats[c].exists => q.chats[c].exists)
  /\ JobStays(p, q, c) \/ JobOver(q, c) \/ JobRuns(p, q, c)
  /\ q.tail = p.tail \/ (c = activeChat /\ JobRuns(p, q, c))

LEMMA SettledBy ==
  ASSUME NEW p, NEW q, WellKept(q), NEW c \in Chats, KeepsChats(p, q),
         JobStays(p, q, c) \/ JobOver(q, c) \/ JobRuns(p, q, c),
         q.tail = p.tail \/ (c = activeChat /\ JobRuns(p, q, c))
  PROVE  Settled(p, q, c)
  BY PageFields DEF Settled, KeepsChats

LEMMA ProcessSettles ==
  ASSUME QueueIInv, NEW c \in Chats, NEW expired \in BOOLEAN, NEW retry \in BOOLEAN
  PROVE  Settled(pageState, Process(pageState, c, expired, retry), c)
<1> DEFINE p == pageState
           j == p.jobs[c]
           q == Process(p, c, expired, retry)
<1>1. WellKept(p) /\ activeChat \in Chats
  BY StateFields
<1>2. j \in JobRecords /\ Agree(p.chats[c], j)
  BY <1>1, PageFields
<1> HIDE DEF p
<1>3. CASE ~j.on
  <2>1. q = p
    BY <1>3 DEF Process
  <2>2. QED
    BY <1>1, <2>1, SettledBy DEF KeepsChats, JobStays, p
<1>4. CASE j.on /\ q = ClearPending(p, c)
  <2> DEFINE over == ClearPending(p, c)
  <2>1. /\ WellKept(over) /\ KeepsChats(p, over) /\ over.tail = p.tail /\ ~over.jobs[c].on
        /\ over.chats[c].exists = p.chats[c].exists
    BY <1>1, ClearPendingKeeps
  <2> HIDE DEF over, q
  <2>2. JobOver(over, c)
    BY <2>1 DEF JobOver, WellKept, Agree
  <2>3. q = over
    BY <1>4 DEF over
  <2>4. Settled(p, over, c)
    BY <2>1, <2>2, SettledBy
  <2>5. QED
    BY <2>3, <2>4 DEF p, q
<1>5. CASE j.on /\ p.chats[c].exists /\ ~expired /\ reply.models[j.model] = "loaded"
  <2> DEFINE r == p.jobs[c].resumed
             yes == TRUE
             ready == MarkReady(p, c, yes, r)
             ran == RunPending(ready, c, activeChat)
  <2>1. q = IF c = activeChat THEN ran ELSE ready
    <3>1. [p EXCEPT !.jobs[c].ready = TRUE, !.chats[c].ready = TRUE] = ready
      BY <1>1, MarksReady
    <3>2. q = LET marked == [p EXCEPT !.jobs[c].ready = TRUE, !.chats[c].ready = TRUE] IN
              IF c = activeChat THEN RunPending(marked, c, activeChat) ELSE marked
      BY <1>5 DEF Process
    <3> HIDE DEF ready, q
    <3>3. QED
      BY <3>1, <3>2
  <2>2. r \in BOOLEAN /\ yes \in BOOLEAN
    BY <1>1, MarksReady
  <2> HIDE DEF r, yes
  <2>3. /\ WellKept(ready) /\ KeepsChats(p, ready) /\ ready.tail = p.tail
        /\ ready.jobs[c].on /\ ready.jobs[c].running = p.jobs[c].running
    BY <1>1, <1>5, <2>2, ReadyKeeps
  <2> HIDE DEF ready
  <2>4. JobStays(p, ready, c)
    <3>1. ready.jobs[c] \in JobRecords
      BY <2>3, PageFields
    <3>2. QED
      BY <1>2, <1>5, <2>3, <3>1 DEF JobStays, JobRecords
  <2>5. /\ WellKept(ran) /\ KeepsChats(ready, ran)
        /\ JobStays(ready, ran, c) \/ JobOver(ran, c) \/ JobRuns(ready, ran, c)
        /\ ran.tail = ready.tail \/ JobRuns(ready, ran, c)
    BY <1>1, <2>3, RunPendingKeeps
  <2> HIDE DEF ran, q
  <2>6. JobRuns(ready, ran, c) => JobRuns(p, ran, c)
    BY <2>3, <2>4 DEF JobRuns, JobStays
  <2>7. JobStays(ready, ran, c) => JobStays(p, ran, c)
    BY <2>4 DEF JobStays
  <2>8. KeepsChats(p, ran)
    BY <2>3, <2>5 DEF KeepsChats
  <2>9. Settled(p, ready, c)
    BY <2>3, <2>4, SettledBy
  <2>10. c = activeChat => Settled(p, ran, c)
    BY <2>3, <2>5, <2>6, <2>7, <2>8, SettledBy
  <2>11. QED
    BY <2>1, <2>9, <2>10 DEF p, q
<1>6. CASE j.on /\ p.chats[c].exists /\ ~expired /\ reply.models[j.model] \notin {"loaded", "error"}
  <2> DEFINE r == reply.models[j.model] = "idle" \/ (j.resumed /\ ~retry)
             no == FALSE
             ready == MarkReady(p, c, no, r)
  <2>1. r \in BOOLEAN /\ no \in BOOLEAN
    BY <1>2 DEF JobRecords
  <2>2. q = ready
    <3>1. q = [p EXCEPT !.jobs[c].ready = FALSE, !.chats[c].ready = FALSE,
                        !.jobs[c].resumed = reply.models[j.model] = "idle" \/ (@ /\ ~retry)]
      BY <1>6 DEF Process
    <3>2. ready = [p EXCEPT !.jobs[c].ready = FALSE, !.chats[c].ready = FALSE, !.jobs[c].resumed = r]
      BY DEF MarkReady
    <3>3. r = (reply.models[j.model] = "idle" \/ (j.resumed /\ ~retry))
      OBVIOUS
    <3> HIDE DEF q, ready, r
    <3>4. q.chats = ready.chats /\ q.tail = ready.tail /\ q = [chats |-> q.chats, jobs |-> q.jobs, tail |-> q.tail]
          /\ ready = [chats |-> ready.chats, jobs |-> ready.jobs, tail |-> ready.tail]
      BY <1>1, <3>1, <3>2 DEF WellKept, Pages
    <3>5. q.jobs = [p.jobs EXCEPT ![c] = [p.jobs[c] EXCEPT !.ready = FALSE,
                                            !.resumed = reply.models[j.model] = "idle" \/ (@ /\ ~retry)]]
      BY <1>1, <3>1 DEF WellKept, Pages
    <3>6. ready.jobs = [p.jobs EXCEPT ![c] = [p.jobs[c] EXCEPT !.ready = FALSE, !.resumed = r]]
      BY <1>1, <3>2 DEF WellKept, Pages
    <3>7. [p.jobs[c] EXCEPT !.ready = FALSE, !.resumed = reply.models[j.model] = "idle" \/ (@ /\ ~retry)]
          = [p.jobs[c] EXCEPT !.ready = FALSE, !.resumed = r]
      BY <1>2, <3>3 DEF JobRecords
    <3>8. QED
      BY <3>4, <3>5, <3>6, <3>7
  <2> HIDE DEF r, no
  <2>3. /\ WellKept(ready) /\ KeepsChats(p, ready) /\ ready.tail = p.tail
        /\ ready.jobs[c].on /\ ready.jobs[c].running = p.jobs[c].running
    BY <1>1, <1>6, <2>1, ReadyKeeps
  <2> HIDE DEF ready, q
  <2>4. JobStays(p, ready, c)
    <3>1. ready.jobs[c] \in JobRecords
      BY <2>3, PageFields
    <3>2. QED
      BY <1>2, <1>6, <2>3, <3>1 DEF JobStays, JobRecords
  <2>5. Settled(p, ready, c)
    BY <2>3, <2>4, SettledBy
  <2>6. QED
    BY <2>2, <2>5 DEF p, q
<1>7. QED
  <2>1. j.on /\ (~p.chats[c].exists \/ expired \/ reply.models[j.model] = "error")
        /\ (p.chats[c].exists /\ ~expired => reply.models[j.model] # "loaded") => q = ClearPending(p, c)
    BY DEF Process
  <2>2. QED
    BY <1>3, <1>4, <1>5, <1>6, <2>1

LEMMA ProcessStatusKeeps == ASSUME QueueIInv, ProcessStatus PROVE QueueIInv'
<1>1. PICK expired \in SUBSET {c \in Chats : pendingChats[c].on}, retry \in BOOLEAN : StatusTurn(expired, retry)
  BY DEF ProcessStatus
<1> DEFINE p == pageState
           of(c) == Process(p, c, c \in expired, retry)
           q == [chats |-> [c \in Chats |-> of(c).chats[c]], jobs |-> [c \in Chats |-> of(c).jobs[c]],
                 tail |-> of(activeChat).tail]
<1>2. q = Processed(expired, retry)
  BY DEF Processed
<1>3. Becomes(q) /\ (Saved(q) \/ UNCHANGED savedReady) /\ reply' = NoReply /\ known' = reply.models
      /\ UNCHANGED <<activeChat, stream>>
  BY <1>1, <1>2 DEF StatusTurn
<1>4. served' \in [ChatModels -> ModelStates]
  <2>1. PICK begun : served' = [m \in ChatModels |-> IF m \in begun /\ served[m] \in {"idle", "error"}
                                                    THEN "busy" ELSE served[m]]
    BY <1>1 DEF StatusTurn
  <2>2. QED
    BY <2>1 DEF QueueIInv, ModelStates
<1>5. WellKept(p) /\ activeChat \in Chats /\ p.chats[activeChat].exists
  BY StateFields
<1>6. ASSUME NEW c \in Chats PROVE Settled(p, of(c), c)
  <2> DEFINE old == c \in expired
  <2>1. old \in BOOLEAN
    OBVIOUS
  <2> HIDE DEF old
  <2>2. Settled(pageState, Process(pageState, c, old, retry), c)
    BY <2>1, ProcessSettles
  <2>3. QED
    BY <2>2 DEF old
<1> HIDE DEF p, of
<1>7. /\ q.tail = of(activeChat).tail
      /\ \A c \in Chats : q.chats[c] = of(c).chats[c] /\ q.jobs[c] = of(c).jobs[c]
  OBVIOUS
<1>8. q \in Pages
  BY <1>5, <1>6 DEF Settled, Pages
<1> HIDE DEF q
<1>9. \A c \in Chats : Agree(q.chats[c], q.jobs[c]) /\ (p.chats[c].exists => q.chats[c].exists)
  BY <1>6, <1>7 DEF Settled
<1>10. ASSUME NEW c \in Chats PROVE JobStays(p, q, c) \/ JobOver(q, c) \/ JobRuns(p, q, c)
  <2>1. JobStays(p, of(c), c) => JobStays(p, q, c)
    BY <1>7 DEF JobStays
  <2>2. JobOver(of(c), c) => JobOver(q, c)
    BY <1>7 DEF JobOver
  <2>3. CASE JobRuns(p, of(c), c)
    <3>1. c = activeChat
      <4>1. PICK m \in ChatModels : of(c).tail = Append(p.tail, [chat |-> c, queued |-> TRUE, model |-> m])
        BY <2>3 DEF JobRuns
      <4>2. [chat |-> c, queued |-> TRUE, model |-> m] \in Generations /\ p.tail \in Seq(Generations)
        BY <1>5 DEF Generations, WellKept, Pages
      <4>3. Len(of(c).tail) = Len(p.tail) + 1 /\ Len(p.tail) \in Nat
        BY <4>1, <4>2, AppendIndex
      <4>4. of(c).tail # p.tail
        BY <4>3
      <4>5. QED
        BY <1>6, <4>4 DEF Settled
    <3>2. JobRuns(p, q, c)
      BY <1>7, <2>3, <3>1 DEF JobRuns
    <3>3. QED
      BY <3>2
  <2>4. QED
    BY <1>6, <2>1, <2>2, <2>3 DEF Settled
<1>11. \/ q.tail = p.tail
       \/ \E g \in Generations : q.tail = Append(p.tail, g) /\ (g.queued => JobRuns(p, q, g.chat))
  <2>1. CASE of(activeChat).tail = p.tail
    BY <1>7, <2>1
  <2>2. CASE JobRuns(p, of(activeChat), activeChat)
    <3>1. JobRuns(p, q, activeChat)
      BY <1>5, <1>7, <2>2 DEF JobRuns
    <3>2. PICK m \in ChatModels : q.tail = Append(p.tail, [chat |-> activeChat, queued |-> TRUE, model |-> m])
      BY <3>1 DEF JobRuns
    <3>3. [chat |-> activeChat, queued |-> TRUE, model |-> m] \in Generations
      BY <1>5 DEF Generations
    <3>4. QED
      BY <3>1, <3>2, <3>3
  <2>3. QED
    BY <1>5, <1>6, <2>1, <2>2 DEF Settled
<1>12. WellKept(q)
  BY <1>5, <1>8, <1>9, <1>10, <1>11, PageMoves
<1>13. NoReply \in [pc : {"none", "answered"}, models : [ChatModels -> ModelStates]]
       /\ reply.models \in [ChatModels -> ModelStates \cup {"unknown"}]
  BY DEF QueueIInv, NoReply, ModelStates
<1>14. activeChat' \in Chats /\ q.chats[activeChat'].exists
  BY <1>3, <1>5, <1>9
<1>15. QED
  BY <1>3, <1>4, <1>12, <1>13, <1>14, StreamStops, TurnKeeps

LEMMA ReloadKeeps == ASSUME QueueIInv, Reload PROVE QueueIInv'
<1> DEFINE waits(c) == chats[c].exists /\ chats[c].pending # NoModel
                         /\ chats[c].messages # <<>> /\ Last(chats[c].messages) = "user"
           chat(c) == IF waits(c) THEN [chats[c] EXCEPT !.ready = c \in savedReady]
                      ELSE [chats[c] EXCEPT !.pending = NoModel, !.ready = FALSE]
           job(c) == IF waits(c) THEN [NoPending EXCEPT !.on = TRUE, !.model = chats[c].pending,
                                                        !.ready = c \in savedReady]
                     ELSE NoPending
           p == [chats |-> [c \in Chats |-> chat(c)], jobs |-> [c \in Chats |-> job(c)], tail |-> <<>>]
           q == IF p.jobs[activeChat].on /\ p.jobs[activeChat].ready THEN RunPending(p, activeChat, activeChat) ELSE p
<1>1. /\ Becomes(q) /\ Saved(q) /\ stream' = NoStream /\ known' = [m \in ChatModels |-> "unknown"]
      /\ reply' = NoReply /\ UNCHANGED <<activeChat, served>>
  BY DEF Reload
<1>2. activeChat \in Chats /\ chats[activeChat].exists /\ WellKept(pageState) /\ pageState.chats = chats
  BY StateFields
<1>3. ASSUME NEW c \in Chats
      PROVE  /\ chat(c) \in ChatRecords /\ job(c) \in JobRecords /\ Agree(chat(c), job(c))
             /\ ~job(c).running /\ chat(c).exists = chats[c].exists
  <2>1. chats[c] \in ChatRecords /\ (chats[c].exists => chats[c].model \in ChatModels)
    BY <1>2, PageFields DEF Agree
  <2> DEFINE mark == c \in savedReady
  <2>2. mark \in BOOLEAN
    OBVIOUS
  <2>3. CASE waits(c)
    <3>1. chat(c) = [chats[c] EXCEPT !.ready = mark]
          /\ job(c) = [NoPending EXCEPT !.on = TRUE, !.model = chats[c].pending, !.ready = mark]
      BY <2>3
    <3>2. chats[c].exists /\ chats[c].pending # NoModel
      BY <2>3
    <3> HIDE DEF mark, chat, job, waits
    <3>3. /\ chat(c) \in ChatRecords /\ chat(c).exists = chats[c].exists /\ chat(c).model = chats[c].model
          /\ chat(c).pending = chats[c].pending
      BY <2>1, <2>2, <3>1 DEF ChatRecords
    <3>4. /\ job(c) \in JobRecords /\ job(c).on = TRUE /\ job(c).running = FALSE
          /\ job(c).model = chats[c].pending
      BY <2>1, <2>2, <3>1 DEF ChatRecords, JobRecords, NoPending
    <3>5. QED
      BY <2>1, <3>2, <3>3, <3>4 DEF Agree
  <2>4. CASE ~waits(c)
    <3>1. chat(c) = [chats[c] EXCEPT !.pending = NoModel, !.ready = FALSE] /\ job(c) = NoPending
      BY <2>4
    <3> HIDE DEF mark, chat, job, waits
    <3>2. /\ chat(c) \in ChatRecords /\ chat(c).exists = chats[c].exists /\ chat(c).model = chats[c].model
          /\ chat(c).pending = NoModel
      BY <2>1, <3>1 DEF ChatRecords
    <3>3. NoPending \in JobRecords /\ NoPending.on = FALSE /\ NoPending.running = FALSE
      BY DEF NoPending, JobRecords
    <3>4. QED
      BY <2>1, <3>1, <3>2, <3>3 DEF Agree
  <2>5. QED
    BY <2>3, <2>4
<1> HIDE DEF waits, chat, job
<1>4. p \in Pages /\ p.tail = <<>> /\ \A c \in Chats : p.chats[c] = chat(c) /\ p.jobs[c] = job(c)
  BY <1>3 DEF Pages
<1> HIDE DEF p
<1>5. WellKept(p)
  BY <1>3, <1>4 DEF WellKept, Running, Once
<1>6. p.chats[activeChat].exists
  BY <1>2, <1>3, <1>4
<1>7. WellKept(q) /\ q.chats[activeChat].exists
  BY <1>2, <1>5, <1>6, RunPendingKeeps DEF KeepsChats
<1> HIDE DEF q
<1>8. /\ NoReply \in [pc : {"none", "answered"}, models : [ChatModels -> ModelStates]]
      /\ [m \in ChatModels |-> "unknown"] \in [ChatModels -> ModelStates \cup {"unknown"}]
      /\ served \in [ChatModels -> ModelStates]
  BY DEF QueueIInv, NoReply, ModelStates
<1>9. QED
  BY <1>1, <1>2, <1>7, <1>8, StreamStops, TurnKeeps

LEMMA QueueInitKeeps == QueueInit => QueueIInv
<1> SUFFICES ASSUME QueueInit PROVE QueueIInv
  OBVIOUS
<1>1. activeChat \in Chats /\ AnyModel \in ChatModels
  BY QueueAssumption DEF QueueInit, AnyModel
<1> DEFINE blank == Blank(AnyModel)
<1>2. /\ blank \in ChatRecords /\ blank.exists = TRUE /\ blank.model = AnyModel /\ blank.pending = NoModel
      /\ NoChat \in ChatRecords /\ NoChat.exists = FALSE
  <2>1. <<>> \in Seq(Roles)
    OBVIOUS
  <2>2. QED
    BY <1>1, <2>1 DEF Blank, NoChat, ChatRecords
<1>3. NoPending \in JobRecords /\ NoPending.on = FALSE /\ NoPending.running = FALSE
  BY DEF NoPending, JobRecords
<1>4. /\ chats = [c \in Chats |-> IF c = activeChat THEN blank ELSE NoChat]
      /\ pendingChats = [c \in Chats |-> NoPending] /\ tail = <<>>
  BY DEF QueueInit
<1> HIDE DEF blank
<1>5. WellKept(pageState)
  <2>1. Agree(blank, NoPending) /\ Agree(NoChat, NoPending)
    BY <1>1, <1>2, <1>3 DEF Agree
  <2>2. pageState.chats = chats /\ pageState.jobs = pendingChats /\ pageState.tail = <<>>
    BY <1>4 DEF pageState
  <2>3. pageState \in Pages
    BY <1>2, <1>3, <1>4 DEF pageState, Pages
  <2>4. QED
    BY <1>3, <1>4, <2>1, <2>2, <2>3 DEF WellKept, Running, Once
<1>6. chats[activeChat].exists
  BY <1>1, <1>2, <1>4
<1>7. QED
  BY <1>1, <1>5, <1>6 DEF QueueIInv, QueueInit, NoStream, NoReply, ModelStates

LEMMA QueueStepKeeps == QueueIInv /\ [QueueNext]_queueVars => QueueIInv'
<1> SUFFICES ASSUME QueueIInv, [QueueNext]_queueVars PROVE QueueIInv'
  OBVIOUS
<1>1. CASE Send \/ StartQueuedLoad \/ PrepareForImage \/ RegenerateLast \/ GenerationEnds
  BY <1>1, SendKeeps, StartQueuedLoadKeeps, PrepareForImageKeeps, RegenerateLastKeeps, GenerationEndsKeeps
<1>2. CASE \E m \in ChatModels : SelectModel(m)
  BY <1>2, SelectModelKeeps
<1>3. CASE \E c \in Chats : SwitchChat(c) \/ NewChat(c) \/ DeleteChat(c) \/ ClearAll(c)
  BY <1>3, SwitchChatKeeps, NewChatKeeps, DeleteChatKeeps, ClearAllKeeps
<1>4. CASE ProcessStatus \/ Reload
  BY <1>4, ProcessStatusKeeps, ReloadKeeps
<1>5. CASE TextArrives \/ AnswerStatus \/ \E m \in ChatModels, s \in ModelStates : ServerMoves(m, s)
  BY <1>5, OutsideKeeps
<1>6. CASE UNCHANGED queueVars
  BY <1>6, QueueRests
<1>7. QED
  BY <1>1, <1>2, <1>3, <1>4, <1>5, <1>6 DEF QueueNext

\* A well-kept page is one whose types, jobs and chats are right.
LEMMA WellKeptIsSafe == QueueIInv => QueueTypeOK /\ QueueSafe
<1> SUFFICES ASSUME QueueIInv PROVE QueueTypeOK /\ QueueSafe
  OBVIOUS
<1>1. /\ WellKept(pageState) /\ pageState \in Pages
      /\ pageState.chats = chats /\ pageState.jobs = pendingChats /\ pageState.tail = tail
  BY StateFields
<1>2. ASSUME NEW c \in Chats
      PROVE  /\ chats[c].exists \in BOOLEAN /\ chats[c].messages \in Seq(Roles)
             /\ chats[c].model \in ChatModels \cup {NoModel}
             /\ chats[c].pending \in ChatModels \cup {NoModel} /\ chats[c].ready \in BOOLEAN
             /\ pendingChats[c] \in JobRecords
  <2>1. chats[c] \in ChatRecords /\ pendingChats[c] \in JobRecords
    BY <1>1, PageFields
  <2>2. QED
    BY <2>1 DEF ChatRecords
<1>3. \A i \in DOMAIN tail : tail[i] \in Generations
  BY <1>1 DEF Pages
<1>4. QueueTypeOK
  BY <1>2, <1>3 DEF QueueTypeOK, QueueIInv, JobRecords, Generations
<1>5. WaitingIsRecorded
  BY <1>1 DEF WaitingIsRecorded, WellKept, Agree
<1>6. RunsOnce
  BY <1>1 DEF RunsOnce, WellKept, Running, Once, Queued
<1>7. QED
  BY <1>4, <1>5, <1>6 DEF QueueSafe

\* Whatever the user, the server and reloads do, and in whatever order, the page and the
\* stored chats agree on which chats wait for a model, and a waiting prompt has the one
\* generation it is run in (chat_queue_ui.py).
THEOREM QueueIsSafe == QueueSpec => [](QueueTypeOK /\ QueueSafe)
  BY WellKeptIsSafe, QueueInitKeeps, QueueStepKeeps, PTL DEF QueueSpec

-----------------------------------------------------------------------------
(* The stored chats.  A chat that waits for its model is never old, so no    *)
(* change makes a chat that is kept into one that retention removes; what    *)
(* the user removed and the page still has was never out of the storage.     *)

WaitingIsNew(list) == \A c \in DOMAIN list : list[c].mark = "pending" => ~list[c].old
GoodList(list) == IsList(list) /\ WaitingIsNew(list)
StoreHistories == [unsaved : BOOLEAN, removed : SUBSET StoreChats, cleared : SUBSET StoreChats]

\* The inductive invariant of ConversationStore.
StoreIInv ==
  /\ GoodList(local) /\ GoodList(stored) /\ current \in DOMAIN local /\ storedCurrent \in StoreChats
  /\ retention \in BOOLEAN /\ storeHistory \in StoreHistories
  /\ storeHistory.removed \cap DOMAIN local \subseteq DOMAIN stored
  /\ StoreSafe

\* ChatsAreKept, of one step.
MarkedAreKept ==
  \A c \in DOMAIN local :
    (local[c].mark # "none" /\ c \notin storeHistory'.removed \cup storeHistory'.cleared /\ ~storeHistory.unsaved)
      => Has(local', c)
RemovedStaysOut == \A c \in storeHistory.removed : Has(stored', c) => Has(stored, c)

LEMMA EmptyIsNew == Empty \in ChatStates /\ Empty.mark = "none" /\ ~Empty.old
  BY DEF Empty, ChatStates, Marks

LEMMA WithKeeps ==
  ASSUME NEW list, GoodList(list), NEW c \in StoreChats, NEW chat \in ChatStates,
         chat.mark = "pending" => ~chat.old
  PROVE  /\ GoodList(With(list, c, chat)) /\ DOMAIN With(list, c, chat) = DOMAIN list \cup {c}
         /\ With(list, c, chat)[c] = chat
         /\ \A d \in DOMAIN list : d # c => With(list, c, chat)[d] = list[d]
  BY DEF GoodList, IsList, WaitingIsNew, With

LEMMA WithoutKeeps ==
  ASSUME NEW list, GoodList(list), NEW S
  PROVE  /\ GoodList(Without(list, S)) /\ DOMAIN Without(list, S) = DOMAIN list \ S
         /\ \A d \in DOMAIN list \ S : Without(list, S)[d] = list[d]
  BY DEF GoodList, IsList, WaitingIsNew, Without

LEMMA ExceptKeeps ==
  ASSUME NEW list, GoodList(list), NEW c \in DOMAIN list, NEW chat \in ChatStates,
         chat.mark = "pending" => ~chat.old
  PROVE  /\ GoodList([list EXCEPT ![c] = chat]) /\ DOMAIN [list EXCEPT ![c] = chat] = DOMAIN list
         /\ [list EXCEPT ![c] = chat][c] = chat
         /\ \A d \in DOMAIN list : d # c => [list EXCEPT ![c] = chat][d] = list[d]
  BY DEF GoodList, IsList, WaitingIsNew

LEMMA NoneIsGood == GoodList(None) /\ DOMAIN None = {}
  BY DEF None, GoodList, IsList, WaitingIsNew

\* What retention leaves: the chat shown, those with a mark and those used of late.
LEMMA RetainedKeeps ==
  ASSUME NEW list, GoodList(list), NEW active, NEW keep \in BOOLEAN
  PROVE  /\ GoodList(Retained(list, active, keep))
         /\ DOMAIN Retained(list, active, keep) \subseteq DOMAIN list
         /\ \A c \in DOMAIN list : c = active \/ list[c].mark # "none" \/ ~list[c].old
              => c \in DOMAIN Retained(list, active, keep)
         /\ \A c \in DOMAIN Retained(list, active, keep) : Retained(list, active, keep)[c] = list[c]
<1>1. CASE keep
  <2> DEFINE S == Candidates(list, active)
  <2>1. \A c \in DOMAIN list : c = active \/ list[c].mark # "none" \/ ~list[c].old => c \notin S
    BY DEF Candidates
  <2>2. Retained(list, active, keep) = Without(list, S)
    BY <1>1 DEF Retained
  <2> HIDE DEF S
  <2>3. /\ GoodList(Without(list, S)) /\ DOMAIN Without(list, S) = DOMAIN list \ S
        /\ \A d \in DOMAIN list \ S : Without(list, S)[d] = list[d]
    BY WithoutKeeps
  <2>4. QED
    BY <2>1, <2>2, <2>3
<1>2. CASE ~keep
  BY <1>2 DEF Retained
<1>3. QED
  BY <1>1, <1>2

-----------------------------------------------------------------------------
(* Saving.                                                                  *)

\* A list of chats made of those of the page and new ones, that keeps the marked ones but S.
Continues(list, S) ==
  /\ GoodList(list) /\ DOMAIN list \subseteq DOMAIN local \cup {c \in StoreChats : Fresh(c)}
  /\ \A c \in DOMAIN local \ S : local[c].mark # "none" =>
       Has(list, c) /\ (list[c].mark # "none" \/ ~list[c].old)

LEMMA RetainedContinues ==
  ASSUME NEW list, NEW S, Continues(list, S), NEW active \in DOMAIN list, NEW keep \in BOOLEAN
  PROVE  Continues(Retained(list, active, keep), S) /\ active \in DOMAIN Retained(list, active, keep)
  BY RetainedKeeps DEF Continues, Has

\* A step that saves a list, or keeps it in the page alone.
LEMMA SaveKeeps ==
  ASSUME StoreIInv, NEW S, Continues(local', S), current' \in DOMAIN local', storedCurrent' \in StoreChats,
         GoodList(stored'), DOMAIN stored' = DOMAIN local' \/ stored' = stored, retention' \in BOOLEAN,
         storeHistory' \in StoreHistories, storeHistory'.cleared = storeHistory.cleared,
         storeHistory'.removed = storeHistory.removed \cup S, S \cap DOMAIN local' = {},
         PageIsStored'
  PROVE  StoreIInv' /\ MarkedAreKept /\ RemovedStaysOut
<1>1. \A c \in DOMAIN local' : c \in DOMAIN local \/ c \notin storeHistory.removed \cup storeHistory.cleared
  BY DEF Continues, Fresh
<1>2. storeHistory'.removed \cap DOMAIN local' \subseteq DOMAIN stored'
  BY <1>1 DEF StoreIInv
<1>3. ClearedIsGone'
  BY <1>1 DEF StoreIInv, StoreSafe, ClearedIsGone
<1>4. MarkedAreKept
  BY DEF MarkedAreKept, Continues, Has
<1>5. RemovedStaysOut
  BY <1>1 DEF RemovedStaysOut, StoreIInv, Has
<1>6. QED
  BY <1>2, <1>3, <1>4, <1>5 DEF StoreIInv, StoreSafe, Continues

\* The same, when nothing is removed.
LEMMA SaveAllKeeps ==
  ASSUME StoreIInv, Continues(local', {}), current' \in DOMAIN local', storedCurrent' \in StoreChats,
         DOMAIN stored' = DOMAIN local', GoodList(stored'), retention' \in BOOLEAN,
         storeHistory' \in StoreHistories, storeHistory'.cleared = storeHistory.cleared,
         storeHistory'.removed = storeHistory.removed, PageIsStored'
  PROVE  StoreIInv' /\ MarkedAreKept /\ RemovedStaysOut
<1> DEFINE S == {}
<1>1. S \cap DOMAIN local' = {} /\ storeHistory'.removed = storeHistory.removed \cup S /\ Continues(local', S)
  OBVIOUS
<1> HIDE DEF S
<1>2. QED
  BY <1>1, SaveKeeps

\* Nothing changes.
LEMMA RestKeeps == StoreIInv /\ UNCHANGED storeVars => StoreIInv' /\ MarkedAreKept /\ RemovedStaysOut
  BY DEF storeVars, StoreIInv, StoreSafe, PageIsStored, ClearedIsGone, MarkedAreKept, RemovedStaysOut, Has

LEMMA KeepsKeeps ==
  ASSUME StoreIInv, NEW list, NEW S \in SUBSET StoreChats, Continues(list, S), NEW active \in DOMAIN list,
         S \cap DOMAIN list = {},
         Keeps(list, active, [storeHistory EXCEPT !.removed = @ \cup S])
  PROVE  StoreIInv' /\ MarkedAreKept /\ RemovedStaysOut
<1>1. PICK ok \in BOOLEAN :
        LET p == Persist(list, active, retention, ok) IN
        /\ local' = p.local /\ current' = active /\ stored' = p.stored /\ storedCurrent' = p.active
        /\ storeHistory' = [[storeHistory EXCEPT !.removed = @ \cup S] EXCEPT !.unsaved = ~ok]
        /\ UNCHANGED retention
  BY DEF Keeps
<1>2. active \in StoreChats /\ GoodList(list) /\ retention \in BOOLEAN
  BY DEF Continues, GoodList, IsList, StoreIInv
<1>3. /\ storeHistory' \in StoreHistories /\ storeHistory'.cleared = storeHistory.cleared
      /\ storeHistory'.removed = storeHistory.removed \cup S /\ storeHistory'.unsaved = ~ok
  BY <1>1 DEF StoreIInv, StoreHistories
<1>4. CASE ok
  <2>1. local' = Retained(list, active, retention) /\ stored' = local' /\ storedCurrent' = active
    BY <1>1, <1>4 DEF Persist
  <2>2. Continues(local', S) /\ active \in DOMAIN local' /\ DOMAIN local' \subseteq DOMAIN list
    BY <1>2, <2>1, RetainedContinues, RetainedKeeps
  <2>3. PageIsStored' /\ GoodList(stored') /\ S \cap DOMAIN local' = {}
    BY <1>1, <2>1, <2>2 DEF PageIsStored, Continues
  <2>4. QED
    BY <1>1, <1>2, <1>3, <2>1, <2>2, <2>3, SaveKeeps
<1>5. CASE ~ok
  <2>1. local' = list /\ stored' = stored /\ storedCurrent' = storedCurrent
    BY <1>1, <1>5 DEF Persist
  <2>2. PageIsStored'
    BY <1>3, <1>5 DEF PageIsStored
  <2>3. QED
    BY <1>1, <1>2, <1>3, <2>1, <2>2, SaveKeeps DEF StoreIInv
<1>6. QED
  BY <1>4, <1>5

LEMMA TakesBackKeeps ==
  ASSUME StoreIInv, NEW list, Continues(list, {}), NEW active \in DOMAIN list, TakesBack(list, active)
  PROVE  StoreIInv' /\ MarkedAreKept /\ RemovedStaysOut
<1>1. CASE UNCHANGED storeVars
  BY <1>1, RestKeeps
<1>2. CASE LET p == Persist(list, active, retention, TRUE) IN
           /\ local' = p.local /\ current' = active /\ stored' = p.stored /\ storedCurrent' = p.active
           /\ storeHistory' = [storeHistory EXCEPT !.unsaved = FALSE] /\ UNCHANGED retention
  <2>1. local' = Retained(list, active, retention) /\ stored' = local' /\ storedCurrent' = active
        /\ current' = active
    BY <1>2 DEF Persist
  <2>2. retention \in BOOLEAN /\ retention' = retention /\ active \in StoreChats /\ GoodList(list)
    BY <1>2 DEF StoreIInv, Continues, GoodList, IsList
  <2>3. Continues(local', {}) /\ active \in DOMAIN local'
    BY <2>1, <2>2, RetainedContinues
  <2>4. /\ storeHistory' \in StoreHistories /\ storeHistory'.cleared = storeHistory.cleared
        /\ storeHistory'.removed = storeHistory.removed
    BY <1>2 DEF StoreIInv, StoreHistories
  <2>5. QED
    BY <2>1, <2>2, <2>3, <2>4, SaveAllKeeps DEF PageIsStored, Continues
<1>3. QED
  BY <1>1, <1>2 DEF TakesBack

LEMMA SavedThenShowsKeeps ==
  ASSUME StoreIInv, NEW list, Continues(list, {}), current \in DOMAIN list,
         NEW active, active \in DOMAIN Retained(list, current, retention), SavedThenShows(list, active)
  PROVE  StoreIInv' /\ MarkedAreKept /\ RemovedStaysOut
<1> DEFINE first == Retained(list, current, retention)
<1>1. retention \in BOOLEAN /\ GoodList(list) /\ Persist(list, current, retention, TRUE).local = first
      /\ Persist(list, current, retention, TRUE).stored = first
  BY DEF StoreIInv, Continues, Persist
<1>2. Continues(first, {}) /\ current \in DOMAIN first
  BY <1>1, RetainedContinues
<1>3. active \in StoreChats /\ current \in StoreChats
  BY <1>2 DEF Continues, GoodList, IsList
<1> HIDE DEF first
<1>4. /\ retention' = retention /\ current' = active /\ storeHistory' \in StoreHistories
      /\ storeHistory'.cleared = storeHistory.cleared
      /\ storeHistory'.removed = storeHistory.removed
  BY DEF SavedThenShows, StoreIInv, StoreHistories
<1>5. CASE /\ local' = Retained(first, active, retention) /\ stored' = local'
           /\ storedCurrent' = active
  <2>1. Continues(local', {}) /\ active \in DOMAIN local'
    BY <1>1, <1>2, <1>5, RetainedContinues DEF first
  <2>2. QED
    BY <1>1, <1>3, <1>4, <1>5, <2>1, SaveAllKeeps DEF PageIsStored, Continues
<1>6. CASE local' = first /\ stored' = first /\ storedCurrent' = current /\ storeHistory'.unsaved
  BY <1>1, <1>2, <1>3, <1>4, <1>6, SaveAllKeeps DEF PageIsStored, Continues, first
<1>7. QED
  <2>1. \/ /\ local' = Persist(first, active, retention, TRUE).local
           /\ stored' = Persist(first, active, retention, TRUE).stored /\ storedCurrent' = active
        \/ /\ local' = first /\ stored' = first /\ storedCurrent' = current
           /\ storeHistory' = [storeHistory EXCEPT !.unsaved = TRUE]
    BY <1>1 DEF SavedThenShows
  <2>2. Persist(first, active, retention, TRUE).local = Retained(first, active, retention)
        /\ Persist(first, active, retention, TRUE).stored = Retained(first, active, retention)
    BY DEF Persist
  <2>3. [storeHistory EXCEPT !.unsaved = TRUE].unsaved
    BY DEF StoreIInv, StoreHistories
  <2>4. QED
    BY <1>5, <1>6, <2>1, <2>2, <2>3

-----------------------------------------------------------------------------
(* Operations.                                                              *)

LEMMA LocalContinues == StoreIInv => Continues(local, {}) /\ current \in DOMAIN local /\ GoodList(local)
                                     /\ DOMAIN local \subseteq StoreChats
  BY DEF StoreIInv, Continues, Has, GoodList, IsList

\* One chat of the page is changed, and stays marked or is used anew.
LEMMA ChangeContinues ==
  ASSUME StoreIInv, NEW c \in DOMAIN local, NEW chat \in ChatStates,
         chat.mark = "pending" => ~chat.old,
         local[c].mark # "none" => chat.mark # "none" \/ ~chat.old
  PROVE  Continues([local EXCEPT ![c] = chat], {})
         /\ DOMAIN [local EXCEPT ![c] = chat] = DOMAIN local
<1>1. /\ GoodList([local EXCEPT ![c] = chat]) /\ DOMAIN [local EXCEPT ![c] = chat] = DOMAIN local
      /\ [local EXCEPT ![c] = chat][c] = chat
      /\ \A d \in DOMAIN local : d # c => [local EXCEPT ![c] = chat][d] = local[d]
  BY ExceptKeeps DEF StoreIInv
<1>2. QED
  BY <1>1 DEF Continues, Has

\* A chat is added.
LEMMA AddContinues ==
  ASSUME StoreIInv, NEW list, Continues(list, {}), NEW c \in StoreChats, Fresh(c), NEW chat \in ChatStates,
         chat.mark = "pending" => ~chat.old
  PROVE  Continues(With(list, c, chat), {}) /\ DOMAIN With(list, c, chat) = DOMAIN list \cup {c}
         /\ With(list, c, chat)[c] = chat
<1>1. /\ GoodList(With(list, c, chat)) /\ DOMAIN With(list, c, chat) = DOMAIN list \cup {c}
      /\ With(list, c, chat)[c] = chat
      /\ \A d \in DOMAIN list : d # c => With(list, c, chat)[d] = list[d]
  BY WithKeeps DEF Continues
<1>2. c \notin DOMAIN local
  BY DEF Fresh
<1>3. QED
  BY <1>1, <1>2 DEF Continues, Has

\* The history as Keeps has it when nothing is removed.
LEMMA NothingRemoved ==
  StoreIInv => [storeHistory EXCEPT !.removed = @ \cup {}] = storeHistory
  BY DEF StoreIInv, StoreHistories

LEMMA KeepsAllKeeps ==
  ASSUME StoreIInv, NEW list, Continues(list, {}), NEW active \in DOMAIN list, Keeps(list, active, storeHistory)
  PROVE  StoreIInv' /\ MarkedAreKept /\ RemovedStaysOut
<1> DEFINE S == {}
<1>1. Continues(list, S) /\ S \in SUBSET StoreChats /\ S \cap DOMAIN list = {}
      /\ [storeHistory EXCEPT !.removed = @ \cup S] = storeHistory
  BY NothingRemoved
<1> HIDE DEF S
<1>2. Keeps(list, active, [storeHistory EXCEPT !.removed = @ \cup S])
  BY <1>1
<1>3. QED
  BY <1>1, <1>2, KeepsKeeps

LEMMA ChangeChatKeeps ==
  ASSUME StoreIInv, NEW c \in DOMAIN local, ChangeChat(c)
  PROVE  StoreIInv' /\ MarkedAreKept /\ RemovedStaysOut
<1>1. PICK chat \in Changed(c) : Keeps([local EXCEPT ![c] = chat], current, storeHistory)
  BY DEF ChangeChat
<1>2. local[c] \in ChatStates /\ (local[c].mark = "pending" => ~local[c].old)
  BY DEF StoreIInv, GoodList, IsList, WaitingIsNew
<1>3. chat \in ChatStates /\ (chat.mark = "pending" => ~chat.old)
      /\ (local[c].mark # "none" => chat.mark # "none" \/ ~chat.old)
  <2>1. CASE chat = [local[c] EXCEPT !.used = TRUE, !.old = FALSE]
    BY <1>2, <2>1 DEF ChatStates, Marks
  <2>2. CASE chat = [local[c] EXCEPT !.mark = IF @ = "pending" THEN "none" ELSE @]
    BY <1>2, <2>2 DEF ChatStates, Marks
  <2>3. CASE chat = [local[c] EXCEPT !.used = TRUE, !.mark = "pending", !.old = FALSE]
    BY <1>2, <2>3 DEF ChatStates, Marks
  <2>4. QED
    BY <1>1, <2>1, <2>2, <2>3 DEF Changed
<1>4. QED
  BY <1>1, <1>3, ChangeContinues, LocalContinues, KeepsAllKeeps

LEMMA SwitchToKeeps ==
  ASSUME StoreIInv, NEW c \in DOMAIN local, SwitchTo(c)
  PROVE  StoreIInv' /\ MarkedAreKept /\ RemovedStaysOut
  BY LocalContinues, KeepsAllKeeps DEF SwitchTo

LEMMA StartChatKeeps ==
  ASSUME StoreIInv, NEW c \in StoreChats, StartChat(c)
  PROVE  StoreIInv' /\ MarkedAreKept /\ RemovedStaysOut
<1>1. Continues(With(local, c, Empty), {}) /\ c \in DOMAIN With(local, c, Empty)
  <2>1. Empty \in ChatStates /\ (Empty.mark = "pending" => ~Empty.old) /\ Fresh(c)
    BY EmptyIsNew DEF StartChat
  <2>2. Continues(local, {})
    BY LocalContinues
  <2>3. Continues(With(local, c, Empty), {}) /\ DOMAIN With(local, c, Empty) = DOMAIN local \cup {c}
    BY <2>1, <2>2, AddContinues
  <2>4. QED
    BY <2>3
<1>2. QED
  BY <1>1, KeepsAllKeeps DEF StartChat

LEMMA RemoveChatKeeps ==
  ASSUME StoreIInv, NEW c \in DOMAIN local, RemoveChat(c)
  PROVE  StoreIInv' /\ MarkedAreKept /\ RemovedStaysOut
<1> DEFINE rest == Without(local, {c})
<1>1. PICK next \in StoreChats \ {c} :
        LET list == IF DOMAIN rest = {} THEN With(None, next, Empty) ELSE rest
            active == IF c = current THEN next ELSE current IN
        /\ DOMAIN rest = {} => Fresh(next)
        /\ Has(list, active) /\ Keeps(list, active, [storeHistory EXCEPT !.removed = @ \cup {c}])
  BY DEF RemoveChat
<1> DEFINE list == IF DOMAIN rest = {} THEN With(None, next, Empty) ELSE rest
           S == {c}
<1>2. GoodList(rest) /\ DOMAIN rest = DOMAIN local \ {c} /\ \A d \in DOMAIN rest : rest[d] = local[d]
  BY LocalContinues, WithoutKeeps
<1>3. GoodList(With(None, next, Empty)) /\ DOMAIN With(None, next, Empty) = {next}
  <2>1. Empty \in ChatStates /\ (Empty.mark = "pending" => ~Empty.old) /\ next \in StoreChats
    BY EmptyIsNew
  <2>2. GoodList(None) /\ DOMAIN None \cup {next} = {next}
    BY NoneIsGood
  <2>3. QED
    BY <2>1, <2>2, WithKeeps
<1> HIDE DEF rest
<1>4. Continues(list, S) /\ S \cap DOMAIN list = {} /\ S \in SUBSET StoreChats
  <2>1. c \in StoreChats
    BY LocalContinues
  <2>2. CASE DOMAIN rest = {}
    BY <1>1, <1>2, <1>3, <2>1, <2>2 DEF Continues, Has
  <2>3. CASE DOMAIN rest # {}
    BY <1>2, <2>1, <2>3 DEF Continues, Has
  <2>4. QED
    BY <2>2, <2>3
<1>5. PICK active : active \in DOMAIN list /\ Keeps(list, active, [storeHistory EXCEPT !.removed = @ \cup S])
  BY <1>1 DEF Has
<1> HIDE DEF list, S
<1>6. QED
  BY <1>4, <1>5, KeepsKeeps

LEMMA TogglePinKeeps ==
  ASSUME StoreIInv, NEW c \in DOMAIN local, TogglePin(c)
  PROVE  StoreIInv' /\ MarkedAreKept /\ RemovedStaysOut
<1> DEFINE chat == [local[c] EXCEPT !.mark = IF @ = "pinned" THEN "none" ELSE "pinned", !.old = FALSE]
<1>1. local[c] \in ChatStates
  BY DEF StoreIInv, GoodList, IsList
<1>2. chat \in ChatStates /\ ~chat.old
  BY <1>1 DEF ChatStates, Marks
<1>3. TakesBack([local EXCEPT ![c] = chat], current)
  BY DEF TogglePin
<1> HIDE DEF chat
<1>4. QED
  BY <1>2, <1>3, ChangeContinues, LocalContinues, TakesBackKeeps

LEMMA AddChatKeeps ==
  ASSUME StoreIInv, NEW c \in StoreChats, NEW chat \in ChatStates, ~chat.old, AddChat(c, chat)
  PROVE  StoreIInv' /\ MarkedAreKept /\ RemovedStaysOut
<1>1. CASE UNCHANGED storeVars
  BY <1>1, RestKeeps
<1>2. CASE SavedThenShows(With(local, c, chat), c)
  <2> DEFINE list == With(local, c, chat)
  <2>1. Continues(list, {}) /\ DOMAIN list = DOMAIN local \cup {c} /\ list[c] = chat
    BY LocalContinues, AddContinues DEF AddChat
  <2>2. retention \in BOOLEAN /\ GoodList(list) /\ current \in DOMAIN list
    BY <2>1 DEF StoreIInv, Continues
  <2> HIDE DEF list
  <2>3. c \in DOMAIN Retained(list, current, retention)
    BY <2>1, <2>2, RetainedKeeps
  <2>4. SavedThenShows(list, c)
    BY <1>2 DEF list
  <2>5. QED
    BY <2>1, <2>2, <2>3, <2>4, SavedThenShowsKeeps
<1>3. QED
  BY <1>1, <1>2 DEF AddChat

LEMMA NewChatsKeep ==
  ASSUME StoreIInv, NEW c \in StoreChats, Import(c) \/ \E d \in StoreChats : Duplicate(c, d)
  PROVE  StoreIInv' /\ MarkedAreKept /\ RemovedStaysOut
<1>1. CASE Import(c)
  <2>1. PICK mark \in {"none", "pinned"}, archived \in BOOLEAN :
          AddChat(c, [Empty EXCEPT !.used = TRUE, !.mark = mark, !.archived = archived])
    BY <1>1 DEF Import
  <2>2. [Empty EXCEPT !.used = TRUE, !.mark = mark, !.archived = archived] \in ChatStates
        /\ ~[Empty EXCEPT !.used = TRUE, !.mark = mark, !.archived = archived].old
    BY DEF ChatStates, Marks, Empty
  <2>3. QED
    BY <2>1, <2>2, AddChatKeeps
<1>2. ASSUME NEW d \in StoreChats, Duplicate(c, d) PROVE StoreIInv' /\ MarkedAreKept /\ RemovedStaysOut
  <2>1. local[d] \in ChatStates
    BY <1>2 DEF Duplicate, Has, StoreIInv, GoodList, IsList
  <2>2. local[d].used \in BOOLEAN
    BY <2>1 DEF ChatStates
  <2>3. [Empty EXCEPT !.used = local[d].used] \in ChatStates /\ ~[Empty EXCEPT !.used = local[d].used].old
    BY <2>2 DEF ChatStates, Marks, Empty
  <2>4. QED
    BY <1>2, <2>3, AddChatKeeps DEF Duplicate
<1>3. QED
  BY <1>1, <1>2

\* What the archiving of the chat on screen leaves when no other can be shown.
LEMMA ArchiveTakenBack ==
  ASSUME StoreIInv, NEW saved, Continues(saved, {}), NEW c \in DOMAIN saved \cap DOMAIN local,
         current \in DOMAIN saved,
         local' = [saved EXCEPT ![c] = local[c]], stored' \in {local', saved}, storedCurrent' = current,
         storeHistory' = [storeHistory EXCEPT !.unsaved = stored' # local'], UNCHANGED <<current, retention>>
  PROVE  StoreIInv' /\ MarkedAreKept /\ RemovedStaysOut
<1>1. local[c] \in ChatStates /\ (local[c].mark = "pending" => ~local[c].old) /\ GoodList(saved)
  BY DEF StoreIInv, GoodList, IsList, WaitingIsNew, Continues
<1>2. /\ GoodList(local') /\ DOMAIN local' = DOMAIN saved /\ local'[c] = local[c]
      /\ \A d \in DOMAIN saved : d # c => local'[d] = saved[d]
  BY <1>1, ExceptKeeps
<1>3. Continues(local', {})
  BY <1>2 DEF Continues, Has
<1>4. /\ storeHistory' \in StoreHistories /\ storeHistory'.cleared = storeHistory.cleared
      /\ storeHistory'.removed = storeHistory.removed /\ storeHistory'.unsaved = (stored' # local')
  BY DEF StoreIInv, StoreHistories
<1>5. GoodList(stored') /\ DOMAIN stored' = DOMAIN local' /\ PageIsStored' /\ current' \in DOMAIN local'
      /\ storedCurrent' \in StoreChats /\ retention' \in BOOLEAN
  BY <1>1, <1>2, <1>4, LocalContinues DEF PageIsStored, StoreIInv
<1>6. QED
  BY <1>3, <1>4, <1>5, SaveAllKeeps

LEMMA ToggleArchiveKeeps ==
  ASSUME StoreIInv, NEW c \in DOMAIN local, ToggleArchive(c)
  PROVE  StoreIInv' /\ MarkedAreKept /\ RemovedStaysOut
<1> DEFINE chat == [[local[c] EXCEPT !.archived = ~local[c].archived] EXCEPT !.old = FALSE]
           list == [local EXCEPT ![c] = chat]
           saved == Retained(list, current, retention)
           others == {d \in DOMAIN saved \ {c} : ~saved[d].archived}
<1>1. local[c] \in ChatStates
  BY DEF StoreIInv, GoodList, IsList
<1>2. chat \in ChatStates /\ ~chat.old
  BY <1>1 DEF ChatStates, Marks
<1>3. [local EXCEPT ![c].archived = ~local[c].archived, ![c].old = FALSE] = list
  OBVIOUS
<1>4. Persist(list, current, retention, TRUE).local = saved
  BY DEF Persist
<1>5. \/ UNCHANGED storeVars
      \/ TakesBack(list, current)
      \/ c = current /\ \E d \in others : SavedThenShows(list, d)
      \/ c = current /\ \E d \in StoreChats : Fresh(d) /\ SavedThenShows(With(saved, d, Empty), d)
      \/ /\ c = current /\ local' = [saved EXCEPT ![c] = local[c]] /\ stored' \in {local', saved}
         /\ storedCurrent' = current
         /\ storeHistory' = [storeHistory EXCEPT !.unsaved = stored' # local']
         /\ UNCHANGED <<current, retention>>
  BY <1>3, <1>4 DEF ToggleArchive
<1> HIDE DEF chat
<1>6. Continues(list, {}) /\ DOMAIN list = DOMAIN local /\ current \in DOMAIN list
  BY <1>2, ChangeContinues, LocalContinues
<1> HIDE DEF list
<1>7. Continues(saved, {}) /\ current \in DOMAIN saved /\ DOMAIN saved \subseteq DOMAIN list
  BY <1>6, RetainedContinues, RetainedKeeps DEF StoreIInv, Continues
<1>8. CASE UNCHANGED storeVars \/ TakesBack(list, current)
  BY <1>6, <1>8, RestKeeps, TakesBackKeeps
<1>9. ASSUME NEW d \in others, SavedThenShows(list, d)
      PROVE  StoreIInv' /\ MarkedAreKept /\ RemovedStaysOut
  BY <1>6, <1>9, SavedThenShowsKeeps
<1>10. ASSUME NEW d \in StoreChats, Fresh(d), SavedThenShows(With(saved, d, Empty), d)
       PROVE  StoreIInv' /\ MarkedAreKept /\ RemovedStaysOut
  <2> HIDE DEF saved
  <2> DEFINE more == With(saved, d, Empty)
  <2>1. Empty \in ChatStates /\ (Empty.mark = "pending" => ~Empty.old) /\ ~Empty.old
    BY EmptyIsNew
  <2>2. Continues(more, {}) /\ DOMAIN more = DOMAIN saved \cup {d} /\ more[d] = Empty
    BY <1>7, <1>10, <2>1, AddContinues
  <2> HIDE DEF more
  <2>3. GoodList(more) /\ retention \in BOOLEAN
    BY <2>2 DEF Continues, StoreIInv
  <2>4. d \in DOMAIN Retained(more, current, retention)
    BY <2>1, <2>2, <2>3, RetainedKeeps
  <2>5. SavedThenShows(more, d) /\ current \in DOMAIN more
    BY <1>7, <1>10, <2>2 DEF more
  <2>6. QED
    BY <2>2, <2>4, <2>5, SavedThenShowsKeeps
<1>11. CASE /\ c = current /\ local' = [saved EXCEPT ![c] = local[c]] /\ stored' \in {local', saved}
            /\ storedCurrent' = current
            /\ storeHistory' = [storeHistory EXCEPT !.unsaved = stored' # local']
            /\ UNCHANGED <<current, retention>>
  <2> HIDE DEF saved
  <2>1. c \in DOMAIN saved \cap DOMAIN local
    BY <1>7, <1>11
  <2>2. QED
    BY <1>7, <1>11, <2>1, ArchiveTakenBack
<1>12. QED
  BY <1>5, <1>8, <1>9, <1>10, <1>11

LEMMA ChangeRetentionKeeps ==
  ASSUME StoreIInv, ChangeRetention
  PROVE  StoreIInv' /\ MarkedAreKept /\ RemovedStaysOut
<1>1. local' = Retained(local, current, ~retention) /\ stored' = local' /\ storedCurrent' = current
      /\ retention' = ~retention /\ current' = current
      /\ storeHistory' = [storeHistory EXCEPT !.unsaved = FALSE]
  BY DEF ChangeRetention, Persist
<1>2. Continues(local', {}) /\ current' \in DOMAIN local' /\ current \in StoreChats
  BY <1>1, LocalContinues, RetainedContinues DEF StoreIInv
<1>3. /\ storeHistory' \in StoreHistories /\ storeHistory'.cleared = storeHistory.cleared
      /\ storeHistory'.removed = storeHistory.removed
  BY <1>1 DEF StoreIInv, StoreHistories
<1>4. QED
  BY <1>1, <1>2, <1>3, SaveAllKeeps DEF PageIsStored, Continues, StoreIInv

LEMMA ClearChatsKeeps ==
  ASSUME StoreIInv, NEW c \in StoreChats, ClearChats(c)
  PROVE  StoreIInv' /\ MarkedAreKept /\ RemovedStaysOut
<1>1. PICK ok \in BOOLEAN :
        /\ stored' = (IF ok THEN local' ELSE None)
        /\ storeHistory' = [storeHistory EXCEPT !.cleared = @ \cup DOMAIN local, !.unsaved = ~ok]
  BY DEF ClearChats
<1>2. local' = With(None, c, Empty) /\ current' = c /\ storedCurrent' = c /\ retention' = retention /\ Fresh(c)
  BY DEF ClearChats
<1>3. Empty \in ChatStates /\ (Empty.mark = "pending" => ~Empty.old)
  BY EmptyIsNew
<1>4. GoodList(local') /\ DOMAIN local' = {c}
  <2>1. GoodList(None) /\ DOMAIN None \cup {c} = {c}
    BY NoneIsGood
  <2>2. QED
    BY <1>2, <1>3, <2>1, WithKeeps
<1>5. GoodList(stored') /\ DOMAIN stored' \subseteq {c} /\ (ok => stored' = local')
  BY <1>1, <1>4, NoneIsGood
<1>6. /\ storeHistory' \in StoreHistories /\ storeHistory'.cleared = storeHistory.cleared \cup DOMAIN local
      /\ storeHistory'.removed = storeHistory.removed /\ storeHistory'.unsaved = ~ok
  BY <1>1, LocalContinues DEF StoreIInv, StoreHistories
<1>7. c \notin DOMAIN local \cup storeHistory.removed \cup storeHistory.cleared
  BY <1>2 DEF Fresh
<1>8. PageIsStored' /\ ClearedIsGone'
  BY <1>2, <1>4, <1>5, <1>6, <1>7 DEF PageIsStored, ClearedIsGone
<1>9. MarkedAreKept /\ RemovedStaysOut
  BY <1>5, <1>6, <1>7 DEF MarkedAreKept, RemovedStaysOut, Has
<1>10. QED
  BY <1>2, <1>4, <1>5, <1>6, <1>7, <1>8, <1>9 DEF StoreIInv, StoreSafe

LEMMA AgesKeeps ==
  ASSUME StoreIInv, NEW c \in DOMAIN local, Ages(c)
  PROVE  StoreIInv' /\ MarkedAreKept /\ RemovedStaysOut
<1>1. UNCHANGED <<current, storedCurrent, retention, storeHistory>> /\ local[c].mark # "pending"
      /\ (Has(stored, c) => stored[c].mark # "pending")
      /\ local' = [local EXCEPT ![c].old = TRUE]
      /\ stored' = (IF Has(stored, c) THEN [stored EXCEPT ![c].old = TRUE] ELSE stored)
  BY DEF Ages
<1>2. ASSUME NEW list, GoodList(list), c \in DOMAIN list, list[c].mark # "pending"
      PROVE  GoodList([list EXCEPT ![c].old = TRUE]) /\ DOMAIN [list EXCEPT ![c].old = TRUE] = DOMAIN list
  <2> DEFINE chat == [list[c] EXCEPT !.old = TRUE]
  <2>1. list[c] \in ChatStates
    BY <1>2 DEF GoodList, IsList
  <2>2. chat \in ChatStates /\ chat.mark # "pending"
    BY <1>2, <2>1 DEF ChatStates
  <2>3. [list EXCEPT ![c].old = TRUE] = [list EXCEPT ![c] = chat]
    OBVIOUS
  <2> HIDE DEF chat
  <2>4. QED
    BY <1>2, <2>2, <2>3, ExceptKeeps
<1>3. GoodList(local') /\ DOMAIN local' = DOMAIN local
  BY <1>1, <1>2 DEF StoreIInv
<1>4. GoodList(stored') /\ DOMAIN stored' = DOMAIN stored
  <2>1. CASE Has(stored, c)
    BY <1>1, <1>2, <2>1 DEF StoreIInv, Has
  <2>2. CASE ~Has(stored, c)
    BY <1>1, <2>2 DEF StoreIInv
  <2>3. QED
    BY <2>1, <2>2
<1>5. stored = local => stored' = local'
  BY <1>1 DEF Has
<1>6. QED
  BY <1>1, <1>3, <1>4, <1>5
     DEF StoreIInv, StoreSafe, PageIsStored, ClearedIsGone, MarkedAreKept, RemovedStaysOut, Has

LEMMA ReloadPageKeeps ==
  ASSUME StoreIInv, ReloadPage
  PROVE  StoreIInv' /\ MarkedAreKept /\ RemovedStaysOut
<1>1. PICK active \in DOMAIN stored : Keeps(stored, active, storeHistory)
  <2>1. (IF Has(stored, storedCurrent) THEN storedCurrent ELSE CHOOSE c \in DOMAIN stored : TRUE) \in DOMAIN stored
    BY DEF ReloadPage, Has
  <2>2. QED
    BY <2>1 DEF ReloadPage
<1>2. PICK ok \in BOOLEAN :
        LET p == Persist(stored, active, retention, ok) IN
        /\ local' = p.local /\ current' = active /\ stored' = p.stored /\ storedCurrent' = p.active
        /\ storeHistory' = [storeHistory EXCEPT !.unsaved = ~ok]
        /\ UNCHANGED retention
  BY <1>1 DEF Keeps
<1>3. /\ storeHistory' \in StoreHistories /\ storeHistory'.cleared = storeHistory.cleared
      /\ storeHistory'.removed = storeHistory.removed /\ storeHistory'.unsaved = ~ok
  BY <1>2 DEF StoreIInv, StoreHistories
<1>4. GoodList(stored) /\ active \in StoreChats /\ retention \in BOOLEAN
  BY DEF StoreIInv, GoodList, IsList
<1>5. CASE ok
  <2>1. local' = Retained(stored, active, retention) /\ stored' = local' /\ storedCurrent' = active
    BY <1>2, <1>5 DEF Persist
  <2>2. /\ GoodList(local') /\ DOMAIN local' \subseteq DOMAIN stored /\ active \in DOMAIN local'
        /\ \A c \in DOMAIN stored : stored[c].mark # "none" => c \in DOMAIN local'
    BY <1>4, <2>1, RetainedKeeps
  <2>3. PageIsStored' /\ ClearedIsGone' /\ RemovedStaysOut
    BY <1>2, <1>3, <2>1, <2>2 DEF PageIsStored, ClearedIsGone, RemovedStaysOut, Has, StoreIInv, StoreSafe
  <2>4. MarkedAreKept
    BY <2>2 DEF MarkedAreKept, Has, StoreIInv, StoreSafe, PageIsStored
  <2>5. QED
    BY <1>2, <1>3, <1>4, <2>1, <2>2, <2>3, <2>4 DEF StoreIInv, StoreSafe
<1>6. CASE ~ok
  <2>1. local' = stored /\ stored' = stored /\ storedCurrent' = storedCurrent
    BY <1>2, <1>6 DEF Persist
  <2>2. PageIsStored' /\ ClearedIsGone' /\ RemovedStaysOut
    BY <1>3, <1>6, <2>1 DEF PageIsStored, ClearedIsGone, RemovedStaysOut, Has, StoreIInv, StoreSafe
  <2>3. MarkedAreKept
    BY <2>1 DEF MarkedAreKept, Has, StoreIInv, StoreSafe, PageIsStored
  <2>4. QED
    BY <1>2, <1>3, <1>4, <2>1, <2>2, <2>3 DEF StoreIInv, StoreSafe
<1>7. QED
  BY <1>5, <1>6

-----------------------------------------------------------------------------
LEMMA StoreInitIInv == StoreInit => StoreIInv
<1> SUFFICES ASSUME StoreInit PROVE StoreIInv
  OBVIOUS
<1>1. First \in StoreChats
  BY StoreAssumption DEF First
<1>2. Empty \in ChatStates /\ (Empty.mark = "pending" => ~Empty.old)
  BY EmptyIsNew
<1>3. GoodList(None) /\ DOMAIN None \cup {First} = {First}
  BY NoneIsGood
<1>4. GoodList(local) /\ DOMAIN local = {First}
  <2>1. GoodList(With(None, First, Empty)) /\ DOMAIN With(None, First, Empty) = DOMAIN None \cup {First}
    BY <1>1, <1>2, <1>3, WithKeeps
  <2>2. QED
    BY <1>3, <2>1 DEF StoreInit
<1>5. QED
  BY <1>1, <1>4 DEF StoreInit, StoreIInv, StoreHistories, StoreSafe, PageIsStored, ClearedIsGone

LEMMA StoreStepIInv == StoreIInv /\ [StoreNext]_storeVars => StoreIInv' /\ MarkedAreKept /\ RemovedStaysOut
<1> SUFFICES ASSUME StoreIInv, [StoreNext]_storeVars PROVE StoreIInv' /\ MarkedAreKept /\ RemovedStaysOut
  OBVIOUS
<1>1. CASE UNCHANGED storeVars
  BY <1>1, RestKeeps
<1>2. ASSUME NEW c \in DOMAIN local,
             ChangeChat(c) \/ SwitchTo(c) \/ RemoveChat(c) \/ TogglePin(c) \/ ToggleArchive(c) \/ Ages(c)
      PROVE  StoreIInv' /\ MarkedAreKept /\ RemovedStaysOut
  BY <1>2, ChangeChatKeeps, SwitchToKeeps, RemoveChatKeeps, TogglePinKeeps, ToggleArchiveKeeps, AgesKeeps
<1>3. ASSUME NEW c \in StoreChats,
             StartChat(c) \/ Import(c) \/ ClearChats(c) \/ \E d \in StoreChats : Duplicate(c, d)
      PROVE  StoreIInv' /\ MarkedAreKept /\ RemovedStaysOut
  BY <1>3, StartChatKeeps, NewChatsKeep, ClearChatsKeeps
<1>4. QED
  BY <1>1, <1>2, <1>3, ChangeRetentionKeeps, ReloadPageKeeps DEF StoreNext

LEMMA StoreMeans == StoreIInv => StoreTypeOK /\ StoreSafe
  BY DEF StoreIInv, StoreTypeOK, GoodList, StoreHistories

\* The page and the browser's storage agree unless the last save failed, and cleared chats
\* never come back (conversation_management_ui.py).
THEOREM StoreIsSafe == StoreSpec => [](StoreTypeOK /\ StoreSafe)
  BY StoreMeans, StoreInitIInv, StoreStepIInv, PTL DEF StoreSpec

\* No save drops a chat that is pinned or waits for its model, and a deleted chat that has
\* left the storage never returns to it (retentionCandidates, persistChats).
THEOREM ChatsKept == StoreSpec => ChatsAreKept
<1>1. StoreIInv /\ [StoreNext]_storeVars =>
        [ /\ \A c \in DOMAIN local :
               (local[c].mark # "none" /\ c \notin storeHistory'.removed \cup storeHistory'.cleared
                  /\ ~storeHistory.unsaved)
               => Has(local', c)
          /\ \A c \in storeHistory.removed : Has(stored', c) => Has(stored, c) ]_storeVars
  BY StoreStepIInv DEF MarkedAreKept, RemovedStaysOut
<1>2. QED
  BY <1>1, StoreInitIInv, StoreStepIInv, PTL DEF StoreSpec, ChatsAreKept

-----------------------------------------------------------------------------
(* The suite: every part keeps its own invariant, and rests elsewhere.       *)

ApplicationIInv == OnboardIInv /\ NetIInv /\ ViewIInv /\ QueueIInv /\ StoreIInv

LEMMA PartsMove ==
  [ApplicationNext]_partVars =>
    /\ [OnboardNext]_onboardVars /\ [NetNext]_netVars /\ [ViewNext]_viewVars /\ [QueueNext]_queueVars
    /\ [StoreNext]_storeVars
  BY DEF ApplicationNext, partVars

LEMMA ApplicationHolds == ApplicationSpec => []ApplicationIInv
<1>1. ApplicationInit => ApplicationIInv
  BY OnboardInitIInv, NetInitIInv, ViewInitIInv, QueueInitKeeps, StoreInitIInv
  DEF ApplicationInit, ApplicationIInv
<1>2. ApplicationIInv /\ [ApplicationNext]_partVars => ApplicationIInv'
  BY PartsMove, OnboardStepIInv, NetStep, ViewStepIInv, QueueStepKeeps, StoreStepIInv DEF ApplicationIInv
<1>3. QED
  BY <1>1, <1>2, PTL DEF ApplicationSpec

LEMMA ApplicationMeans ==
  ApplicationIInv => /\ OnboardTypeOK /\ SetupSafe /\ NetTypeOK /\ NetworkSafe /\ ViewTypeOK /\ ViewSafe
                     /\ QueueTypeOK /\ QueueSafe /\ StoreTypeOK /\ StoreSafe
  BY SetupMeans, NetMeans, ViewMeans, WellKeptIsSafe, StoreMeans DEF ApplicationIInv

\* Type correctness of the setup, the settings and the page.
THEOREM ApplicationTypeCorrect == ApplicationSpec => []ApplicationTypeOK
<1>1. ApplicationIInv => ApplicationTypeOK
  BY ApplicationMeans DEF ApplicationTypeOK
<1>2. QED
  BY <1>1, ApplicationHolds, PTL

\* What the page promises of the progress it shows, the prompts that wait and the chats it
\* keeps (progress_operation_ui.py, chat_queue_ui.py, conversation_management_ui.py).
THEOREM PageIsSafe == ApplicationSpec => []PageSafe
<1>1. ApplicationIInv => PageSafe
  BY ApplicationMeans DEF PageSafe
<1>2. QED
  BY <1>1, ApplicationHolds, PTL
==============================================================================
