------------------------- MODULE EmbeddingLifecycle -------------------------
(***************************************************************************)
(* One embedding engine between the worker threads that embed and the event  *)
(* loop that unloads it: app/embedding_lifecycle_safety.py around            *)
(* OpenVINOEmbeddingEngine of runtime/openvino_engine.py, entered by POST     *)
(* /v1/embeddings, ModelManager.unload and shutdown.                         *)
(*                                                                         *)
(* The sections under lifecycle.guard are single steps; embed and close of    *)
(* the wrapped engine run outside it, close in three steps (test _closed,     *)
(* set it, drop the pipeline).  A caller embeds again and again; an unloader  *)
(* is any thread that may call close(); the shutdown waits for idle, for a    *)
(* bounded time, and then unloads too.                                      *)
(***************************************************************************)
EXTENDS Naturals, FiniteSets

CONSTANTS Callers,    \* worker threads in embed()
          Unloaders,  \* threads in close(): unload, a device switch, a validation
          Shutdown,   \* the thread in shutdown()
          NoCaller

ASSUME EmbeddingAssumption ==
  /\ IsFiniteSet(Callers)
  /\ Callers \cap Unloaders = {} /\ Shutdown \notin Callers \cup Unloaders
  /\ NoCaller \notin Callers

Closers == Unloaders \cup {Shutdown}
Threads == Callers \cup Closers

VARIABLES
  active,        \* lifecycle.active
  closePending,  \* lifecycle.close_pending
  idle,          \* lifecycle.idle is set
  operation,     \* the holder of lifecycle.operation
  closed,        \* engine._closed
  pipe,          \* engine._pipe is there
  embPc,            \* the next step of each thread
  unloaded       \* history: close() was called

lifecycle == <<active, closePending, idle>>
engine == <<closed, pipe>>
embeddingVars == <<lifecycle, operation, engine, embPc, unloaded>>

\* A caller counts as active from its admission to its finally section.
Admitted == {"waiting", "native", "leaving"}
Closing == {"close_test", "close_mark", "close_drop", "close_end"}

EmbeddingTypeOK ==
  /\ active \in 0 .. Cardinality(Callers) /\ closePending \in BOOLEAN /\ idle \in BOOLEAN
  /\ operation \in Callers \cup {NoCaller}
  /\ closed \in BOOLEAN /\ pipe \in BOOLEAN /\ unloaded \in BOOLEAN
  /\ embPc \in [Threads -> {"out", "drain", "unload", "down"} \cup Admitted \cup Closing]

EmbeddingInit ==
  /\ active = 0 /\ closePending = FALSE /\ idle = TRUE
  /\ operation = NoCaller
  /\ closed = FALSE /\ pipe = TRUE /\ unloaded = FALSE
  /\ embPc = [t \in Threads |-> "out"]

Goto(t, step) == embPc' = [embPc EXCEPT ![t] = step]

\* Where close() returns to.
Return(t) == Goto(t, IF t = Shutdown THEN "down" ELSE "out")

\* Regression form of Enter: only _closed is tested.
EnterWhileClosing(c) ==
  /\ embPc[c] = "out" /\ ~closed
  /\ active' = active + 1 /\ idle' = FALSE
  /\ Goto(c, "waiting")
  /\ UNCHANGED <<closePending, operation, engine, unloaded>>

\* Regression form of Enter: the class is wrapped twice and every call counts double.
EnterCountedTwice(c) ==
  /\ embPc[c] = "out" /\ ~closePending /\ ~closed
  /\ active' = active + 2 /\ idle' = FALSE
  /\ Goto(c, "waiting")
  /\ UNCHANGED <<closePending, operation, engine, unloaded>>

\* embed: refused once the engine is closing or closed.
Enter(c) ==
  /\ embPc[c] = "out" /\ ~closePending /\ ~closed
  /\ active' = active + 1 /\ idle' = FALSE
  /\ Goto(c, "waiting")
  /\ UNCHANGED <<closePending, operation, engine, unloaded>>

\* Regression form of StartNative: embeddings are not serialized.
StartNativeUnserialized(c) ==
  /\ embPc[c] = "waiting"
  /\ operation' = IF closed THEN NoCaller ELSE c
  /\ Goto(c, IF closed THEN "leaving" ELSE "native")
  /\ UNCHANGED <<lifecycle, engine, unloaded>>

\* with lifecycle.operation: _check_closed, which raises, and the native call.
StartNative(c) ==
  /\ embPc[c] = "waiting" /\ operation = NoCaller
  /\ operation' = IF closed THEN NoCaller ELSE c
  /\ Goto(c, IF closed THEN "leaving" ELSE "native")
  /\ UNCHANGED <<lifecycle, engine, unloaded>>

\* The native call returns or raises; the operation lock is released.
EndNative(c) ==
  /\ embPc[c] = "native"
  /\ operation' = NoCaller
  /\ Goto(c, "leaving")
  /\ UNCHANGED <<lifecycle, engine, unloaded>>

\* Regression form of Leave: every caller that leaves sets idle.
LeaveSetsIdle(c) ==
  /\ embPc[c] = "leaving"
  /\ active' = IF active = 0 THEN 0 ELSE active - 1
  /\ idle' = (idle \/ ~closePending)
  /\ Goto(c, IF active <= 1 /\ closePending THEN "close_test" ELSE "out")
  /\ UNCHANGED <<closePending, operation, engine, unloaded>>

\* Regression form of Leave: whether to close is decided before the count goes down.
LeaveForgetsClose(c) ==
  /\ embPc[c] = "leaving"
  /\ active' = IF active = 0 THEN 0 ELSE active - 1
  /\ idle' = (idle \/ (active <= 1 /\ ~closePending))
  /\ Goto(c, IF active = 0 /\ closePending THEN "close_test" ELSE "out")
  /\ UNCHANGED <<closePending, operation, engine, unloaded>>

\* The finally section: the last one out runs the close that was deferred to it.
Leave(c) ==
  /\ embPc[c] = "leaving"
  /\ active' = IF active = 0 THEN 0 ELSE active - 1
  /\ idle' = (idle \/ (active <= 1 /\ ~closePending))
  /\ Goto(c, IF active <= 1 /\ closePending THEN "close_test" ELSE "out")
  /\ UNCHANGED <<closePending, operation, engine, unloaded>>

\* Regression form of BeginClose: callers inside are not waited for.
BeginCloseAnyway(t) ==
  /\ embPc[t] = IF t = Shutdown THEN "unload" ELSE "out"
  /\ unloaded' = TRUE
  /\ closePending' = (closePending \/ ~closed)
  /\ idle' = closed
  /\ IF closed THEN Return(t) ELSE Goto(t, "close_test")
  /\ UNCHANGED <<active, operation, engine>>

\* close(): nothing to do, left to the callers inside, or done here.
BeginClose(t) ==
  /\ embPc[t] = IF t = Shutdown THEN "unload" ELSE "out"
  /\ unloaded' = TRUE
  /\ closePending' = (closePending \/ ~closed)
  /\ idle' = closed
  /\ IF closed \/ active > 0 THEN Return(t) ELSE Goto(t, "close_test")
  /\ UNCHANGED <<active, operation, engine>>

\* original_close, outside the guard: two threads may run it together.
TestClosed(t) ==
  /\ embPc[t] = "close_test"
  /\ Goto(t, IF closed THEN "close_end" ELSE "close_mark")
  /\ UNCHANGED <<lifecycle, operation, engine, unloaded>>

MarkClosed(t) ==
  /\ embPc[t] = "close_mark"
  /\ closed' = TRUE
  /\ Goto(t, "close_drop")
  /\ UNCHANGED <<lifecycle, operation, pipe, unloaded>>

DropPipe(t) ==
  /\ embPc[t] = "close_drop"
  /\ pipe' = FALSE
  /\ Goto(t, "close_end")
  /\ UNCHANGED <<lifecycle, operation, closed, unloaded>>

\* Regression form of EndClose: idle stays clear.
EndCloseNotIdle(t) ==
  /\ embPc[t] = "close_end"
  /\ closePending' = FALSE
  /\ Return(t)
  /\ UNCHANGED <<active, idle, operation, engine, unloaded>>

EndClose(t) ==
  /\ embPc[t] = "close_end"
  /\ closePending' = FALSE /\ idle' = TRUE
  /\ Return(t)
  /\ UNCHANGED <<active, operation, engine, unloaded>>

\* shutdown_after_embedding_drain: no wait when idle is set; otherwise until it is
\* set or ten seconds are over.
StartShutdown ==
  /\ embPc[Shutdown] = "out"
  /\ Goto(Shutdown, IF idle THEN "unload" ELSE "drain")
  /\ UNCHANGED <<lifecycle, operation, engine, unloaded>>

EndDrain ==
  /\ embPc[Shutdown] = "drain" /\ idle
  /\ Goto(Shutdown, "unload")
  /\ UNCHANGED <<lifecycle, operation, engine, unloaded>>

DrainTimeout ==
  /\ embPc[Shutdown] = "drain" /\ ~idle
  /\ Goto(Shutdown, "unload")
  /\ UNCHANGED <<lifecycle, operation, engine, unloaded>>

CallerStep(c) == StartNative(c) \/ EndNative(c) \/ Leave(c)
CloseStep(t) == TestClosed(t) \/ MarkClosed(t) \/ DropPipe(t) \/ EndClose(t)
ShutdownStep == StartShutdown \/ EndDrain \/ DrainTimeout

EmbeddingNext ==
  \/ \E c \in Callers : Enter(c) \/ CallerStep(c)
  \/ \E t \in Closers : BeginClose(t)
  \/ \E t \in Threads : CloseStep(t)
  \/ ShutdownStep

EmbeddingSpec == EmbeddingInit /\ [][EmbeddingNext]_embeddingVars

\* Native calls return and runnable threads go on.  No new call, close or shutdown
\* is ever promised.
EmbeddingFairness ==
  /\ \A c \in Callers : WF_embeddingVars(CallerStep(c))
  /\ \A t \in Threads : WF_embeddingVars(CloseStep(t))

EmbeddingFairSpec == EmbeddingSpec /\ EmbeddingFairness

\* The native call of an embedding is alone on the engine and has its pipeline,
\* however close() and the deferred close of another caller fall
\* (embedding_lifecycle_safety.py:1-8).
NativeSafe ==
  \A c \in Callers : embPc[c] = "native" =>
    /\ pipe /\ ~closed
    /\ \A d \in Callers : embPc[d] = "native" => d = c

\* The drain of the shutdown is sound: idle is set only when no caller is inside.
IdleMeansQuiet == idle => \A c \in Callers : embPc[c] \notin Admitted

\* A close that was deferred or is under way is never lost: until the pipeline is
\* gone some thread still has to do it (close_now, embedding_lifecycle_safety.py:79-92).
CloseNeverLost ==
  unloaded /\ pipe =>
    \/ closePending /\ \E c \in Callers : embPc[c] \in Admitted
    \/ \E t \in Threads : embPc[t] \in {"close_test", "close_mark", "close_drop"}

\* After the first close() no embedding is admitted any more, not even between the
\* end of close_pending and the start of _closed.
NoAdmissionAfterUnload ==
  [][unloaded => \A c \in Callers : embPc'[c] \in Admitted => embPc[c] \in Admitted]_embeddingVars

\* An unloaded engine gives up its pipeline, and idle is set from then on, so that
\* nobody drains a dead engine.
UnloadEnds == unloaded ~> [](~pipe /\ idle)

\* Native calls, the drain of the shutdown and the deferred close are safe together.
EmbeddingSafe == NativeSafe /\ IdleMeansQuiet /\ CloseNeverLost

\* close() is final: no call is admitted after it, and the pipeline goes.
UnloadHolds == NoAdmissionAfterUnload /\ UnloadEnds
=============================================================================
