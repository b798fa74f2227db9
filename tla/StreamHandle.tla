---------------------------- MODULE StreamHandle ----------------------------
(***************************************************************************)
(* The bridge between one native generation thread and one asynchronous    *)
(* request: runtime/openvino_engine.py, class StreamHandle, the worker      *)
(* closure of OpenVINOEngine.stream, and the consumer loop of               *)
(* app/engine_handoff_safety.py, stream_with_current_engine, with           *)
(* ModelManager._finish_stream_handle.                                      *)
(*                                                                         *)
(* Three threads of control share the handle: the worker thread, the        *)
(* request's coroutine, and the executor thread the coroutine starts for    *)
(* each next_chunk().  Cancelling the coroutine does not stop that executor *)
(* thread: it stays blocked in queue.get() and takes one more item.         *)
(*                                                                         *)
(* A chunk is its index in the generated text; 0 stands for _SENTINEL.      *)
(* handle.text is left out: nothing in app/ or runtime/ reads it.           *)
(***************************************************************************)
EXTENDS Naturals, Sequences, SequencesExt

CONSTANTS Capacity,   \* queue.Queue(maxsize=1024)
          MaxPieces   \* bound: chunks one generation may produce (max_new_tokens)

ASSUME StreamAssumption == Capacity \in Nat \ {0} /\ MaxPieces \in Nat

Sentinel == 0
Pieces == 1..MaxPieces
Items == Pieces \cup {Sentinel}

VARIABLES
  queue,      \* StreamHandle._q
  stop,       \* StreamHandle._stop
  done,       \* StreamHandle._done
  error,      \* StreamHandle.error is not None
  worker,     \* where the worker thread is
  generated,  \* chunks the native pipeline has produced so far
  failed,     \* the native call raised
  consumer,   \* where the request's coroutine is
  reader,     \* the executor thread running next_chunk()
  result,     \* the item that thread has taken, not yet seen by the coroutine
  delivered,  \* chunks yielded to the client, in order
  outcome     \* what the client was told

workerVars == <<worker, generated, failed>>
readerVars == <<reader, result>>
consumerVars == <<consumer, delivered, outcome>>
streamVars == <<queue, stop, done, error, workerVars, readerVars, consumerVars>>

StreamTypeOK ==
  /\ queue \in Seq(Items) /\ Len(queue) <= Capacity
  /\ stop \in BOOLEAN /\ done \in BOOLEAN /\ error \in BOOLEAN /\ failed \in BOOLEAN
  /\ worker \in {"native", "push", "push_put", "stopping", "finish",
                 "put_sentinel", "sentinel_full", "set_done", "exited"}
  /\ generated \in 0..MaxPieces
  /\ consumer \in {"ready", "awaiting", "closing", "released", "quarantined"}
  /\ reader \in {"idle", "blocked", "returned"}
  /\ result \in Items
  /\ delivered \in Seq(Pieces)
  /\ outcome \in {"open", "completed", "failed", "cancelled"}

StreamInit ==
  /\ queue = <<>>
  /\ stop = FALSE /\ done = FALSE /\ error = FALSE
  /\ worker = "native" /\ generated = 0 /\ failed = FALSE
  /\ consumer = "ready" /\ delivered = <<>> /\ outcome = "open"
  /\ reader = "idle" /\ result = Sentinel

QueueFull == Len(queue) = Capacity

-----------------------------------------------------------------------------
(* The worker thread: pipe.generate calls streamer, streamer calls push.   *)

\* The pipeline has a chunk and calls the streamer callback.
Generate ==
  /\ worker = "native" /\ generated < MaxPieces
  /\ generated' = generated + 1
  /\ worker' = "push"
  /\ UNCHANGED <<queue, stop, done, error, failed, readerVars, consumerVars>>

\* pipe.generate returns or raises; after STOP it may do either.
NativeReturn ==
  /\ worker \in {"native", "stopping"}
  /\ failed' \in BOOLEAN
  /\ worker' = "finish"
  /\ UNCHANGED <<queue, stop, done, error, generated, readerVars, consumerVars>>

\* push: while not self.should_stop()
PushCheck ==
  /\ worker = "push"
  /\ worker' = IF stop THEN "stopping" ELSE "push_put"
  /\ UNCHANGED <<queue, stop, done, error, generated, failed, readerVars, consumerVars>>

\* Regression form of PushPut: a full queue drops the chunk instead of retrying.
PushPutDropsWhenFull ==
  /\ worker = "push_put"
  /\ queue' = IF QueueFull THEN queue ELSE Append(queue, generated)
  /\ worker' = "native"
  /\ UNCHANGED <<stop, done, error, generated, failed, readerVars, consumerVars>>

\* Regression form of PushPut: the queue is unbounded.
PushPutUnbounded ==
  /\ worker = "push_put"
  /\ queue' = Append(queue, generated)
  /\ worker' = "native"
  /\ UNCHANGED <<stop, done, error, generated, failed, readerVars, consumerVars>>

\* push: self._q.put(piece, timeout=0.1); queue.Full starts the loop again.
PushPut ==
  /\ worker = "push_put"
  /\ \/ /\ ~QueueFull
        /\ queue' = Append(queue, generated)
        /\ worker' = "native"
     \/ /\ QueueFull
        /\ worker' = "push"
        /\ UNCHANGED queue
  /\ UNCHANGED <<stop, done, error, generated, failed, readerVars, consumerVars>>

\* Regression form of FinishError: the error is not recorded on the handle.
FinishErrorForgotten ==
  /\ worker = "finish"
  /\ worker' = "put_sentinel"
  /\ UNCHANGED <<queue, stop, done, error, generated, failed, readerVars, consumerVars>>

\* finish: self.error = error
FinishError ==
  /\ worker = "finish"
  /\ error' = failed
  /\ worker' = "put_sentinel"
  /\ UNCHANGED <<queue, stop, done, generated, failed, readerVars, consumerVars>>

\* Regression form of FinishPut: no sentinel once the consumer asked to stop.
FinishPutSkippedWhenStopped ==
  /\ worker = "put_sentinel"
  /\ \/ /\ ~stop /\ ~QueueFull
        /\ queue' = Append(queue, Sentinel)
        /\ worker' = "set_done"
     \/ /\ ~stop /\ QueueFull
        /\ worker' = "sentinel_full"
        /\ UNCHANGED queue
     \/ /\ stop
        /\ worker' = "set_done"
        /\ UNCHANGED queue
  /\ UNCHANGED <<stop, done, error, generated, failed, readerVars, consumerVars>>

\* finish: self._q.put(_SENTINEL, timeout=0.1)
FinishPut ==
  /\ worker = "put_sentinel"
  /\ \/ /\ ~QueueFull
        /\ queue' = Append(queue, Sentinel)
        /\ worker' = "set_done"
     \/ /\ QueueFull
        /\ worker' = "sentinel_full"
        /\ UNCHANGED queue
  /\ UNCHANGED <<stop, done, error, generated, failed, readerVars, consumerVars>>

\* Regression form of FinishFull: a stopped handle keeps its full queue.
FinishFullNeverDrops ==
  /\ worker = "sentinel_full"
  /\ worker' = "put_sentinel"
  /\ UNCHANGED <<queue, stop, done, error, generated, failed, readerVars, consumerVars>>

\* Regression form of FinishFull: room is made even when nobody asked to stop.
FinishFullAlwaysDrops ==
  /\ worker = "sentinel_full"
  /\ queue' = IF queue # <<>> THEN Tail(queue) ELSE queue
  /\ worker' = "put_sentinel"
  /\ UNCHANGED <<stop, done, error, generated, failed, readerVars, consumerVars>>

\* finish: queue.Full; only a stopped handle drops its oldest chunk for room.
FinishFull ==
  /\ worker = "sentinel_full"
  /\ queue' = IF stop /\ queue # <<>> THEN Tail(queue) ELSE queue
  /\ worker' = "put_sentinel"
  /\ UNCHANGED <<stop, done, error, generated, failed, readerVars, consumerVars>>

\* finish: self._done.set(), then the thread ends.
FinishDone ==
  /\ worker = "set_done"
  /\ done' = TRUE
  /\ worker' = "exited"
  /\ UNCHANGED <<queue, stop, error, generated, failed, readerVars, consumerVars>>

-----------------------------------------------------------------------------
(* The executor thread of one next_chunk() call.                            *)

\* next_chunk: item = self._q.get()
ReaderGet ==
  /\ reader = "blocked" /\ queue # <<>>
  /\ result' = Head(queue)
  /\ queue' = Tail(queue)
  /\ reader' = "returned"
  /\ UNCHANGED <<stop, done, error, workerVars, consumerVars>>

\* The coroutine that asked is gone: the future's value is dropped.
ReaderAbandoned ==
  /\ reader = "returned" /\ consumer # "awaiting"
  /\ reader' = "idle" /\ result' = Sentinel
  /\ UNCHANGED <<queue, stop, done, error, workerVars, consumerVars>>

-----------------------------------------------------------------------------
(* The request's coroutine.                                                 *)

\* await loop.run_in_executor(None, handle.next_chunk)
RequestChunk ==
  /\ consumer = "ready"
  /\ consumer' = "awaiting" /\ reader' = "blocked"
  /\ UNCHANGED <<queue, stop, done, error, workerVars, result, delivered, outcome>>

\* A chunk: yield it to the client.
DeliverChunk ==
  /\ consumer = "awaiting" /\ reader = "returned" /\ result # Sentinel
  /\ delivered' = Append(delivered, result)
  /\ consumer' = "ready"
  /\ reader' = "idle" /\ result' = Sentinel
  /\ UNCHANGED <<queue, stop, done, error, workerVars, outcome>>

\* chunk is None: raise handle.error when there is one; the finally block
\* calls request_stop() before anything else can run on the event loop.
DeliverEnd ==
  /\ consumer = "awaiting" /\ reader = "returned" /\ result = Sentinel
  /\ outcome' = IF error THEN "failed" ELSE "completed"
  /\ consumer' = "closing" /\ stop' = TRUE
  /\ reader' = "idle"
  /\ UNCHANGED <<queue, done, error, workerVars, result, delivered>>

\* The client disconnects, a stop string ends the answer, or the task is
\* cancelled: at the yield, or while the next chunk is awaited.
Abort ==
  /\ consumer \in {"ready", "awaiting"}
  /\ outcome' = "cancelled"
  /\ consumer' = "closing" /\ stop' = TRUE
  /\ UNCHANGED <<queue, done, error, workerVars, readerVars, delivered>>

\* Regression form of Release: a second cancellation of the request cuts the
\* wait for the worker short, as a plain await of wait_closed would.
ReleaseWhenCancelled ==
  /\ consumer = "closing"
  /\ consumer' = "released"
  /\ UNCHANGED <<queue, stop, done, error, workerVars, readerVars, delivered, outcome>>

\* _finish_stream_handle: wait_closed returned True; the model lock is released.
\* _await_resilient_future keeps waiting when the request is cancelled again.
Release ==
  /\ consumer = "closing" /\ done
  /\ consumer' = "released"
  /\ UNCHANGED <<queue, stop, done, error, workerVars, readerVars, delivered, outcome>>

\* Regression form of CloseTimeout: wait_closed(timeout=None).
CloseNeverTimesOut == FALSE /\ UNCHANGED streamVars

\* _finish_stream_handle: wait_closed timed out; the engine is quarantined.
CloseTimeout ==
  /\ consumer = "closing" /\ ~done
  /\ consumer' = "quarantined"
  /\ UNCHANGED <<queue, stop, done, error, workerVars, readerVars, delivered, outcome>>

\* Everything that belongs to this handle has ended.
Terminated ==
  /\ consumer \in {"released", "quarantined"}
  /\ worker = "exited" /\ reader = "idle"
  /\ UNCHANGED streamVars

WorkerStep == PushCheck \/ PushPut \/ FinishError \/ FinishPut \/ FinishFull \/ FinishDone
ReaderStep == ReaderGet \/ ReaderAbandoned
ConsumerStep == RequestChunk \/ DeliverChunk \/ DeliverEnd \/ Abort \/ Release \/ CloseTimeout

StreamNext == Generate \/ NativeReturn \/ WorkerStep \/ ReaderStep \/ ConsumerStep \/ Terminated

StreamSpec == StreamInit /\ [][StreamNext]_streamVars

(* Fairness.  Python threads that can run are scheduled, and the event loop *)
(* runs a coroutine whose future is done or whose timer has expired.        *)
(* Neither the client (RequestChunk, Abort) nor the native pipeline         *)
(* (Generate, NativeReturn) owes progress here.                             *)
HostFairness ==
  /\ WF_streamVars(WorkerStep) /\ WF_streamVars(ReaderStep)
  /\ WF_streamVars(DeliverChunk \/ DeliverEnd)
  /\ WF_streamVars(Release) /\ WF_streamVars(CloseTimeout)

StreamFairSpec == StreamSpec /\ HostFairness

(* A native pipeline that does not hang goes on generating, and returns     *)
(* after STOP.                                                              *)
NativeReturns == WF_streamVars(Generate \/ NativeReturn)

-----------------------------------------------------------------------------
(* Properties.                                                              *)

\* The client never sees a chunk twice, out of order or after a gap, whatever
\* chunks finish() drops and whatever an abandoned reader takes (push, finish,
\* next_chunk).
DeliveredInOrder == delivered = [i \in 1..Len(delivered) |-> i]

\* A client that is told the answer is complete got every chunk the pipeline
\* produced, and the pipeline did not fail: an error is on the handle before the
\* sentinel that makes the consumer look at it (finish, 81-94).
CompleteMeansEverything ==
  outcome = "completed" => Len(delivered) = generated /\ ~failed

\* When the request gives its model lock back and has not quarantined the
\* engine, no native call of this handle is running: the next request may use
\* the pipeline (_finish_stream_handle, wait_closed).
ReleasedMeansNativeIdle == consumer = "released" => worker = "exited"

\* A request that is closing gives the model lock back even when the native
\* pipeline hangs (the 30 s timeout of wait_closed).
ClosingEnds == consumer = "closing" ~> consumer \in {"released", "quarantined"}

\* Once stop is requested, and unless the pipeline hangs, the worker thread ends
\* although nobody reads the queue any more and it may be full (push, finish).
StopEndsWorker == NativeReturns => (stop ~> worker = "exited")

\* No executor thread stays blocked in next_chunk for ever: a reader whose
\* request was cancelled finds a chunk or the sentinel.
ReaderReturns == NativeReturns => (reader = "blocked" ~> reader # "blocked")

\* What a request owes its client and the next request, the three invariants above.
StreamSafe == DeliveredInOrder /\ CompleteMeansEverything /\ ReleasedMeansNativeIdle

\* Nobody waits for ever, the three leads-to properties above.
StreamEnds == ClosingEnds /\ StopEndsWorker /\ ReaderReturns
=============================================================================
