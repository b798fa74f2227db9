------------------------------ MODULE Benchmarks ------------------------------
(***************************************************************************)
(* Benchmark suites of runtime/benchmark_runner.py and                      *)
(* benchmark_runner_core.py, and the result store they share with the       *)
(* hardware advisor's automatic benchmark.                                  *)
(*                                                                         *)
(* A suite holds the manager's suite lock and measures its combinations one *)
(* after the other.  A model that is not loaded gets a temporary engine;    *)
(* its native worker may outlive the 30 seconds the suite waits for it, and *)
(* then the close of the engine is left to a daemon thread.  A loaded model *)
(* is measured through ModelManager.stream, which EngineLifecycle models:   *)
(* here it is one step that succeeds or fails.                              *)
(*                                                                         *)
(* A run in the store is the suite it came from, or Automatic.  Numbers,    *)
(* scores and error texts are left out.                                     *)
(***************************************************************************)
EXTENDS Naturals, Sequences, SequencesExt, FiniteSets

CONSTANTS Suites,     \* the runs requested from the API, the tray and onboarding
          Rejecting,  \* those of the API: reject_when_busy
          Rows,       \* combinations of model and device in a suite
          Streams,    \* warm-up and measured generations of a combination
          KeptRuns,   \* BenchmarkStore.max_runs
          MaxAuto,    \* bound: automatic benchmarks that finish
          Automatic, NoSuite

ASSUME BenchmarkAssumption ==
  /\ Rejecting \subseteq Suites
  /\ Rows \in Nat \ {0} /\ Streams \in Nat \ {0}
  /\ KeptRuns \in Nat \ {0} /\ MaxAuto \in Nat
  /\ Automatic \notin Suites /\ NoSuite \notin Suites /\ Automatic # NoSuite

Writers == Suites \cup {Automatic}
Engines == Suites \X (1..Rows)    \* the temporary engine of a combination

VARIABLES
  at,        \* where the task of a suite is
  holder,    \* the suite that holds manager._benchmark_suite_lock
  waiting,   \* the suites queued for it
  results,   \* rows a suite has: a sequence of "measured" and "failed"
  streamed,  \* generations finished in the present combination
  cancelled, \* pending_cancellation
  life,      \* of each temporary engine: "none", "open" or "closed"
  replaced,  \* engines whose close is a no-op, their daemon thread owns them
  fixed,     \* engines that do not allow close to be replaced
  native,    \* the native worker of its last stream: "none", "running", "exited"
  file,      \* runs in the store
  storeLock, \* the writer that holds path_lock of the store
  copy,      \* what that writer has read
  autoLeft,  \* automatic benchmarks that may still finish
  history    \* runs written since the store was cleared

suiteVars == <<at, holder, waiting, results, streamed, cancelled>>
engineVars == <<life, replaced, fixed, native>>
storeVars == <<file, storeLock, copy, autoLeft, history>>
benchmarkVars == <<suiteVars, engineVars, storeVars>>

Measuring == {"borrowing", "building", "prompting", "reading", "counting"}
Stopping == {"stopping", "outwaiting"}
Over == {"refused", "cancelled", "stored", "unstored"}

BenchmarkTypeOK ==
  /\ at \in [Suites -> {"idle", "queued", "choosing", "closing", "storing", "writing"}
                         \cup Measuring \cup Stopping \cup Over]
  /\ holder \in Suites \cup {NoSuite}
  /\ waiting \in Seq(Suites)
  /\ results \in [Suites -> Seq({"measured", "failed"})]
  /\ streamed \in [Suites -> 0..Streams]
  /\ cancelled \in [Suites -> BOOLEAN]
  /\ life \in [Engines -> {"none", "open", "closed"}]
  /\ replaced \subseteq Engines /\ fixed \subseteq Engines
  /\ native \in [Engines -> {"none", "running", "exited"}]
  /\ file \in Seq(Writers) /\ copy \in Seq(Writers) /\ history \in Seq(Writers)
  /\ storeLock \in Writers \cup {NoSuite}
  /\ autoLeft \in 0..MaxAuto

BenchmarkInit ==
  /\ at = [s \in Suites |-> "idle"]
  /\ holder = NoSuite /\ waiting = <<>>
  /\ results = [s \in Suites |-> <<>>]
  /\ streamed = [s \in Suites |-> 0]
  /\ cancelled = [s \in Suites |-> FALSE]
  /\ life = [e \in Engines |-> "none"]
  /\ replaced = {} /\ fixed = {}
  /\ native = [e \in Engines |-> "none"]
  /\ file = <<>> /\ copy = <<>> /\ history = <<>>
  /\ storeLock = NoSuite /\ autoLeft = MaxAuto

Row(s) == Len(results[s]) + 1
Engine(s) == <<s, Row(s)>>
MoveTo(s, place) == at' = [at EXCEPT ![s] = place]

(***************************************************************************)
(* The suite lock: asyncio.Lock.  A release only wakes the first waiter;    *)
(* until that task runs, locked() is false but a newcomer still queues.     *)
(***************************************************************************)
RequestSuite(s) ==
  /\ at[s] = "idle"
  /\ IF s \in Rejecting /\ holder # NoSuite
       THEN MoveTo(s, "refused") /\ UNCHANGED <<holder, waiting>>
     ELSE IF holder = NoSuite /\ waiting = <<>>
       THEN MoveTo(s, "choosing") /\ holder' = s /\ UNCHANGED waiting
       ELSE MoveTo(s, "queued") /\ waiting' = Append(waiting, s) /\ UNCHANGED holder
  /\ UNCHANGED <<results, streamed, cancelled, engineVars, storeVars>>

EnterSuite(s) ==
  /\ at[s] = "queued" /\ holder = NoSuite /\ Head(waiting) = s
  /\ holder' = s /\ waiting' = Tail(waiting)
  /\ MoveTo(s, "choosing")
  /\ UNCHANGED <<results, streamed, cancelled, engineVars, storeVars>>

\* Leaving "async with suite_lock", with the run or with the cancellation.
LeaveSuite(s, place) == holder' = NoSuite /\ MoveTo(s, place)

(***************************************************************************)
(* One combination: benchmark_model_device.  A failure is a row; only a     *)
(* cancellation ends the suite.                                             *)
(***************************************************************************)
AddRow(s, verdict) ==
  /\ results' = [results EXCEPT ![s] = Append(@, verdict)]
  /\ streamed' = [streamed EXCEPT ![s] = 0]

\* Unknown or embedding model, not prepared, or loaded on another device.
RejectRow(s) ==
  /\ at[s] = "choosing" /\ Len(results[s]) < Rows
  /\ AddRow(s, "failed")
  /\ UNCHANGED <<at, holder, waiting, cancelled, engineVars, storeVars>>

BorrowLoaded(s) ==
  /\ at[s] = "choosing" /\ Len(results[s]) < Rows
  /\ MoveTo(s, "borrowing")
  /\ UNCHANGED <<holder, waiting, results, streamed, cancelled, engineVars, storeVars>>

MeasureLoaded(s) ==
  /\ at[s] = "borrowing"
  /\ \E verdict \in {"measured", "failed"} : AddRow(s, verdict)
  /\ MoveTo(s, "choosing")
  /\ UNCHANGED <<holder, waiting, cancelled, engineVars, storeVars>>

StartBuild(s) ==
  /\ at[s] = "choosing" /\ Len(results[s]) < Rows
  /\ MoveTo(s, "building")
  /\ UNCHANGED <<holder, waiting, results, streamed, cancelled, engineVars, storeVars>>

\* build_temporary_engine returns or raises; some engines refuse a new close.
EndBuild(s) ==
  /\ at[s] = "building"
  /\ \/ /\ life' = [life EXCEPT ![Engine(s)] = "open"]
        /\ fixed' \in {fixed, fixed \cup {Engine(s)}}
        /\ MoveTo(s, "prompting")
        /\ UNCHANGED <<results, streamed>>
     \/ /\ AddRow(s, "failed") /\ MoveTo(s, "choosing")
        /\ UNCHANGED <<life, fixed>>
  /\ UNCHANGED <<holder, waiting, cancelled, replaced, native, storeVars>>

\* The prompt is ready or its construction raised; engine.stream starts a worker.
StartStream(s) ==
  /\ at[s] = "prompting" \/ (at[s] = "counting" /\ streamed[s] < Streams)
  /\ \/ /\ native' = [native EXCEPT ![Engine(s)] = "running"]
        /\ MoveTo(s, "reading")
     \/ MoveTo(s, "closing") /\ UNCHANGED native
  /\ UNCHANGED <<holder, waiting, results, streamed, cancelled, life, replaced, fixed, storeVars>>

\* The end of the text, or the error the worker left: request_stop.
EndReading(s) ==
  /\ at[s] = "reading"
  /\ MoveTo(s, "stopping")
  /\ UNCHANGED <<holder, waiting, results, streamed, cancelled, engineVars, storeVars>>

WorkerExits(e) ==
  /\ native[e] = "running"
  /\ native' = [native EXCEPT ![e] = "exited"]
  /\ UNCHANGED <<suiteVars, life, replaced, fixed, storeVars>>

\* What _stream_generation_once does once its cleanup is over: a cancellation
\* that came meanwhile is raised, else the cleanup error or the reader's error.
AfterStop(s, clean) ==
  \/ cancelled[s] /\ MoveTo(s, "closing") /\ UNCHANGED streamed
  \/ ~cancelled[s] /\ MoveTo(s, "closing") /\ UNCHANGED streamed
  \/ /\ ~cancelled[s] /\ clean
     /\ MoveTo(s, "counting") /\ streamed' = [streamed EXCEPT ![s] = @ + 1]

WorkerClosed(s) ==
  /\ at[s] \in Stopping /\ native[Engine(s)] = "exited"
  /\ AfterStop(s, at[s] = "stopping")
  /\ UNCHANGED <<holder, waiting, results, cancelled, engineVars, storeVars>>

\* Regression form: the wait is given up and the engine closed by its user.
StopGivesUp(s) ==
  /\ at[s] = "stopping" /\ native[Engine(s)] = "running"
  /\ AfterStop(s, FALSE)
  /\ UNCHANGED <<holder, waiting, results, cancelled, engineVars, storeVars>>

\* Thirty seconds are over: _defer_engine_close_until_stream_finishes, or,
\* for an engine that keeps its own close, a wait without a deadline.
StopTimesOut(s) ==
  /\ at[s] = "stopping" /\ native[Engine(s)] = "running"
  /\ IF Engine(s) \in fixed
       THEN MoveTo(s, "outwaiting") /\ UNCHANGED <<replaced, streamed>>
       ELSE replaced' = replaced \cup {Engine(s)} /\ AfterStop(s, FALSE)
  /\ UNCHANGED <<holder, waiting, results, cancelled, life, fixed, native, storeVars>>

\* Regression form: the daemon thread waits with the ordinary deadline and forgets.
DeferredCloseOnce(e) ==
  /\ e \in replaced /\ life[e] = "open" /\ native[e] = "exited"
  /\ at[e[1]] = "closing"
  /\ life' = [life EXCEPT ![e] = "closed"]
  /\ UNCHANGED <<suiteVars, replaced, fixed, native, storeVars>>

\* The daemon thread of a replaced close.
DeferredClose(e) ==
  /\ e \in replaced /\ native[e] = "exited" /\ life[e] = "open"
  /\ life' = [life EXCEPT ![e] = "closed"]
  /\ UNCHANGED <<suiteVars, replaced, fixed, native, storeVars>>

\* Regression form: a cancellation during the cleanup is swallowed.
CloseForgetsCancellation(s) ==
  /\ at[s] = "closing" \/ (at[s] = "counting" /\ streamed[s] = Streams)
  /\ life' = IF Engine(s) \in replaced THEN life ELSE [life EXCEPT ![Engine(s)] = "closed"]
  /\ AddRow(s, IF at[s] = "counting" THEN "measured" ELSE "failed")
  /\ MoveTo(s, "choosing")
  /\ UNCHANGED <<holder, waiting, cancelled, replaced, fixed, native, storeVars>>

\* The finally block of benchmark_model_device, with the row or the cancellation.
CloseEngine(s) ==
  /\ at[s] = "closing" \/ (at[s] = "counting" /\ streamed[s] = Streams)
  /\ life' = IF Engine(s) \in replaced THEN life ELSE [life EXCEPT ![Engine(s)] = "closed"]
  /\ IF cancelled[s]
       THEN LeaveSuite(s, "cancelled") /\ UNCHANGED <<results, streamed>>
       ELSE /\ AddRow(s, IF at[s] = "counting" THEN "measured" ELSE "failed")
            /\ MoveTo(s, "choosing") /\ UNCHANGED holder
  /\ UNCHANGED <<waiting, cancelled, replaced, fixed, native, storeVars>>

\* task.cancel() by the onboarding job, the shutdown or the tray, delivered at the
\* await the task is at; the waits of the cleanup keep it and go on.
CancelSuite(s) ==
  /\ at[s] \in {"queued", "borrowing", "building", "prompting", "reading", "counting"} \cup Stopping
  /\ ~cancelled[s]
  /\ cancelled' = [cancelled EXCEPT ![s] = TRUE]
  /\ CASE at[s] = "queued" -> /\ MoveTo(s, "cancelled") /\ UNCHANGED holder
                              /\ \E i \in DOMAIN waiting :
                                   waiting[i] = s /\ waiting' = RemoveAt(waiting, i)
       [] at[s] \in {"borrowing", "building"} -> LeaveSuite(s, "cancelled") /\ UNCHANGED waiting
       [] at[s] \in {"prompting", "counting"} -> MoveTo(s, "closing") /\ UNCHANGED <<holder, waiting>>
       [] at[s] = "reading" -> MoveTo(s, "stopping") /\ UNCHANGED <<holder, waiting>>
       [] OTHER -> UNCHANGED <<at, holder, waiting>>
  /\ UNCHANGED <<results, streamed, engineVars, storeVars>>

FinishSuite(s) ==
  /\ at[s] = "choosing" /\ Len(results[s]) = Rows
  /\ LeaveSuite(s, "storing")
  /\ UNCHANGED <<waiting, results, streamed, cancelled, engineVars, storeVars>>

(***************************************************************************)
(* The store: BenchmarkStore.append and clear, and _append_run of the       *)
(* advisor, each a read and a replacement under the lock of the path.       *)
(***************************************************************************)
StoreFree == storeLock = NoSuite

ReadStore(w) ==
  /\ IF w = Automatic THEN autoLeft > 0 ELSE at[w] = "storing"
  /\ StoreFree
  /\ storeLock' = w /\ copy' = file
  /\ IF w = Automatic THEN autoLeft' = autoLeft - 1 /\ UNCHANGED at
                      ELSE MoveTo(w, "writing") /\ UNCHANGED autoLeft
  /\ UNCHANGED <<holder, waiting, results, streamed, cancelled, engineVars, file, history>>

NewestRun(runs) == SubSeq(runs, IF Len(runs) > KeptRuns THEN Len(runs) - KeptRuns + 1 ELSE 1, Len(runs))

\* The replacement of the file, or an error that leaves it as it was.
WriteStore(w) ==
  /\ storeLock = w
  /\ \/ /\ file' = NewestRun(Append(copy, w)) /\ history' = Append(history, w)
        /\ IF w = Automatic THEN UNCHANGED at ELSE MoveTo(w, "stored")
     \/ /\ UNCHANGED <<file, history>>
        /\ IF w = Automatic THEN UNCHANGED at ELSE MoveTo(w, "unstored")
  /\ storeLock' = NoSuite /\ copy' = <<>>
  /\ UNCHANGED <<holder, waiting, results, streamed, cancelled, engineVars, autoLeft>>

ClearStore ==
  /\ StoreFree /\ file # <<>>
  /\ file' = <<>> /\ history' = <<>>
  /\ UNCHANGED <<suiteVars, engineVars, storeLock, copy, autoLeft>>

SuiteStep(s) ==
  \/ EnterSuite(s) \/ RejectRow(s) \/ BorrowLoaded(s) \/ MeasureLoaded(s)
  \/ StartBuild(s) \/ EndBuild(s) \/ StartStream(s) \/ EndReading(s)
  \/ WorkerClosed(s) \/ StopTimesOut(s) \/ CloseEngine(s) \/ FinishSuite(s)
  \/ ReadStore(s) \/ WriteStore(s)

BenchmarkNext ==
  \/ \E s \in Suites : RequestSuite(s) \/ CancelSuite(s) \/ SuiteStep(s)
  \/ \E e \in Engines : WorkerExits(e) \/ DeferredClose(e)
  \/ ReadStore(Automatic) \/ WriteStore(Automatic)
  \/ ClearStore

\* The event loop runs every task, threads run, and a native call ends: it honours
\* the stop flag or reaches max_new_tokens.  Nobody must request or cancel a run.
BenchmarkFairness ==
  /\ \A s \in Suites : WF_benchmarkVars(SuiteStep(s))
  /\ \A e \in Engines : WF_benchmarkVars(WorkerExits(e)) /\ WF_benchmarkVars(DeferredClose(e))
  /\ WF_benchmarkVars(WriteStore(Automatic))

BenchmarkSpec == BenchmarkInit /\ [][BenchmarkNext]_benchmarkVars /\ BenchmarkFairness

-----------------------------------------------------------------------------
\* A temporary engine is never closed under its native worker, and never left open
\* by a suite that is over except to the daemon thread that owns it
\* (benchmark_runner.py:161, benchmark_runner_core.py:504).
EngineOutlivesWorker == \A e \in Engines : life[e] = "closed" => native[e] # "running"
EngineHasAnOwner ==
  \A e \in Engines :
    life[e] = "open" =>
      \/ e \in replaced
      \/ e = Engine(e[1]) /\ at[e[1]] \in {"prompting", "reading", "counting", "closing"} \cup Stopping

\* Two suites never measure at once, so no row is taken under the load of another
\* (benchmark_runner_core.py:257).
OneSuiteMeasures ==
  \A s \in Suites : at[s] \in Measuring \cup Stopping \cup {"choosing", "closing"} => holder = s

\* A run is stored with one row for each combination, and the file holds the latest
\* runs written, whichever of the two writers they came from (benchmark_runner.py:68).
RunIsComplete == \A s \in Suites : at[s] \in {"storing", "writing", "stored"} => Len(results[s]) = Rows
StoreKeepsRuns ==
  storeLock = NoSuite =>
    IsSuffix(file, history) /\ (Len(file) = Len(history) \/ Len(file) = KeptRuns)

BenchmarkSafe ==
  EngineOutlivesWorker /\ EngineHasAnOwner /\ OneSuiteMeasures /\ RunIsComplete /\ StoreKeepsRuns

\* A suite that was cancelled starts no other combination: the cancellation that
\* arrives while the worker is waited for is kept (benchmark_runner.py:131).
CancelledStartsNothing ==
  [][\A s \in Suites : cancelled[s] => at'[s] \notin Measuring \cup {"choosing", "storing"}
                                        \/ at'[s] = at[s]]_benchmarkVars

\* Every suite that was let in ends, and every temporary engine is closed in the end.
SuitesEnd ==
  /\ \A s \in Suites : (at[s] \notin Over \cup {"idle"}) ~> (at[s] \in Over)
  /\ \A e \in Engines : (life[e] = "open") ~> (life[e] = "closed")

\* The comment of benchmark_runner_core.py:254 says no API run is queued behind another.
ApiRunsNeverQueue == \A s \in Rejecting : at[s] # "queued"
===============================================================================
