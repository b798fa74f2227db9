------------------------------ MODULE MCServices ------------------------------
(***************************************************************************)
(* One instance of the modules about running requests: the stream bridge,   *)
(* the embedding engine, the event log and the benchmark suites.  They      *)
(* share no variable, so a behaviour belongs to one of them: part names it, *)
(* and the others rest in their initial state.                              *)
(***************************************************************************)
EXTENDS StreamHandle, EmbeddingLifecycle, EventPolling, Benchmarks

VARIABLE part

partVars == <<part, streamVars, embeddingVars, pollingVars, benchmarkVars>>

ServicesInit ==
  /\ part \in {"stream", "embedding", "events", "benchmarks"}
  /\ StreamInit /\ EmbeddingInit /\ EventInit /\ BenchmarkInit

\* Every suite has been asked for and is over: the bounds of Benchmarks are used up.
BenchmarksDone ==
  /\ \A s \in Suites : at[s] \in Over
  /\ \A e \in Engines : native[e] # "running" /\ life[e] # "open"
  /\ autoLeft = 0 /\ storeLock = NoSuite /\ file = <<>>

ServicesNext ==
  /\ part' = part
  /\ \/ /\ part = "stream" /\ StreamNext
        /\ UNCHANGED <<embeddingVars, pollingVars, benchmarkVars>>
     \/ /\ part = "embedding" /\ EmbeddingNext
        /\ UNCHANGED <<streamVars, pollingVars, benchmarkVars>>
     \/ /\ part = "events" /\ EventNext
        /\ UNCHANGED <<streamVars, embeddingVars, benchmarkVars>>
     \/ /\ part = "benchmarks" /\ BenchmarkNext
        /\ UNCHANGED <<streamVars, embeddingVars, pollingVars>>
     \/ part = "benchmarks" /\ BenchmarksDone /\ UNCHANGED partVars

\* The fairness of each module, for the behaviours that are its own.
ServicesFairness ==
  /\ WF_streamVars(part = "stream" /\ WorkerStep)
  /\ WF_streamVars(part = "stream" /\ ReaderStep)
  /\ WF_streamVars(part = "stream" /\ (DeliverChunk \/ DeliverEnd))
  /\ WF_streamVars(part = "stream" /\ Release)
  /\ WF_streamVars(part = "stream" /\ CloseTimeout)
  /\ \A c \in Callers : WF_embeddingVars(part = "embedding" /\ CallerStep(c))
  /\ \A t \in Threads : WF_embeddingVars(part = "embedding" /\ CloseStep(t))
  /\ WF_pollingVars(part = "events" /\ Poll)
  /\ WF_pollingVars(part = "events" /\ Answer)
  /\ WF_pollingVars(part = "events" /\ Merge)
  /\ \A e \in Emitters : WF_pollingVars(part = "events" /\ pc[e] # "idle" /\ EmitStep(e))
  /\ \A s \in Suites : WF_benchmarkVars(part = "benchmarks" /\ SuiteStep(s))
  /\ \A e \in Engines : WF_benchmarkVars(part = "benchmarks" /\ WorkerExits(e))
  /\ \A e \in Engines : WF_benchmarkVars(part = "benchmarks" /\ DeferredClose(e))
  /\ WF_benchmarkVars(part = "benchmarks" /\ WriteStore(Automatic))

ServicesSpec == ServicesInit /\ [][ServicesNext]_partVars /\ ServicesFairness

\* The type invariants of the four modules.
ServicesTypeOK == StreamTypeOK /\ EmbeddingTypeOK /\ EventTypeOK /\ BenchmarkTypeOK

\* What runs ends: a stream releases its request (StreamHandle), and a benchmark
\* suite ends with its engines closed, a cancelled one without another combination.
WorkersEnd == StreamEnds /\ CancelledStartsNothing /\ SuitesEnd
===============================================================================
