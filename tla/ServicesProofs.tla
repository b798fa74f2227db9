--------------------------- MODULE ServicesProofs ---------------------------
(***************************************************************************)
(* Proofs about requests and the engines that serve them.                   *)
(*                                                                          *)
(* The stream bridge, for every queue capacity and every length of an       *)
(* answer.  While nobody has asked to stop, what the client got, what the   *)
(* reader holds, what is queued and what the worker is about to push are    *)
(* together the text generated so far, in order; the sentinel comes last    *)
(* (InFlight).  Once stop is set nothing more is delivered, so the chunks   *)
(* that finish() drops and an abandoned reader takes are lost to nobody     *)
(* (Answered).                                                              *)
(*                                                                          *)
(* EmbeddingLifecycle, for any finite number of callers and any number of   *)
(* unloaders.  The count of the code is tied to the set of callers inside   *)
(* (Counted); from then on the argument is about that set: nobody is inside *)
(* once a close is past its first section (Gate), and nobody enters again,  *)
(* because close_pending is cleared only after _closed is set (Asked).      *)
(*                                                                          *)
(* Benchmarks, for any suites, rows and size of the store.  The engine of   *)
(* the present combination is its suite's to close exactly while no daemon  *)
(* thread has taken it over (EngineInUse); engines of earlier combinations  *)
(* are closed or taken over, those of later ones do not exist (Untouched).  *)
(*                                                                          *)
(* EventLog and EventPolling, for any number of emitters, events and server *)
(* processes.  The numbers of the log are tied to the step of whoever holds *)
(* its lock (LogHolds), an answer is a run of what the log held then, after *)
(* the cursor or from its start (ReplyHolds), and what is shown is numbered *)
(* up to the cursor, whichever processes it comes from (ShownHolds); a page *)
(* that shows one process alone reaches as far back as that process's log,  *)
(* or is full (ShownCovers).                                                *)
(***************************************************************************)
EXTENDS MCServices, FiniteSetTheorems, SequenceTheorems, TLAPS

-----------------------------------------------------------------------------
(* The stream bridge.                                                       *)
\* Where the worker is once the sentinel is queued, and where error is recorded.
Ended == worker \in {"set_done", "exited"}
Recorded == worker \in {"put_sentinel", "sentinel_full", "set_done", "exited"}

\* The chunks the coroutine has or will have when the reader's result reaches it.
Taken == Len(delivered) + (IF reader = "returned" /\ result # Sentinel THEN 1 ELSE 0)
SentinelTaken == reader = "returned" /\ result = Sentinel

\* Who is where, and what the flags say about it.
StreamPlaces ==
  /\ stop <=> (consumer \notin {"ready", "awaiting"})
  /\ (outcome = "open") <=> (consumer \in {"ready", "awaiting"})
  /\ consumer = "ready" => reader = "idle"
  /\ consumer = "awaiting" => reader # "idle"
  /\ worker = "stopping" => stop
  /\ done <=> (worker = "exited")
  /\ Recorded => (error <=> failed)
  /\ consumer = "released" => done
  /\ reader # "returned" => result = Sentinel

\* Before stop: the generated text in its places.
InFlight ==
  ~stop =>
    /\ reader = "returned" /\ result # Sentinel => result = Len(delivered) + 1
    /\ ~Ended =>
         /\ ~SentinelTaken
         /\ \A i \in 1..Len(queue) : queue[i] = Taken + i
         /\ generated = Taken + Len(queue) + (IF worker \in {"push", "push_put"} THEN 1 ELSE 0)
    /\ Ended /\ ~SentinelTaken =>
         /\ queue # <<>> /\ queue[Len(queue)] = Sentinel
         /\ \A i \in 1..(Len(queue) - 1) : queue[i] = Taken + i
         /\ generated = Taken + Len(queue) - 1
    /\ Ended /\ SentinelTaken => queue = <<>> /\ generated = Len(delivered)

\* What the client has and was told.
Answered ==
  /\ \A i \in 1..Len(delivered) : delivered[i] = i
  /\ outcome = "completed" => Ended /\ Len(delivered) = generated /\ ~failed

StreamIInv == StreamTypeOK /\ StreamPlaces /\ InFlight /\ Answered

LEMMA AppendFacts ==
  ASSUME NEW S, NEW s \in Seq(S), NEW e \in S
  PROVE  /\ Append(s, e) \in Seq(S) /\ Append(s, e) # <<>>
         /\ Len(Append(s, e)) = Len(s) + 1 /\ Append(s, e)[Len(s) + 1] = e
         /\ \A i \in 1..Len(s) : Append(s, e)[i] = s[i]
OBVIOUS

LEMMA TailFacts ==
  ASSUME NEW S, NEW s \in Seq(S), s # <<>>
  PROVE  /\ Tail(s) \in Seq(S) /\ Len(Tail(s)) = Len(s) - 1 /\ Len(s) > 0
         /\ Head(s) = s[1] /\ s[1] \in S
         /\ \A i \in 1..(Len(s) - 1) : Tail(s)[i] = s[i + 1]
OBVIOUS

LEMMA StreamInitIInv == StreamInit => StreamIInv
<1> SUFFICES ASSUME StreamInit PROVE StreamIInv
  OBVIOUS
<1> USE DEF StreamInit
<1>1. StreamTypeOK
  <2>1. <<>> \in Seq(Items) /\ <<>> \in Seq(Pieces) /\ Len(<<>>) = 0 /\ Sentinel \in Items
    BY DEF Items
  <2>2. 0 \in 0..MaxPieces /\ 0 <= Capacity
    BY StreamAssumption
  <2>3. QED
    BY <2>1, <2>2 DEF StreamTypeOK
<1>2. StreamPlaces
  BY DEF StreamPlaces, Recorded
<1>3. InFlight /\ Answered
  BY DEF InFlight, Answered, Ended, Taken, SentinelTaken
<1>4. QED
  BY <1>1, <1>2, <1>3 DEF StreamIInv

\* What the worker appends lies behind everything that is in flight.
LEMMA PushPutIInv == StreamIInv /\ PushPut => StreamIInv'
<1> SUFFICES ASSUME StreamIInv, PushPut PROVE StreamIInv'
  OBVIOUS
<1>1. CASE QueueFull
  BY <1>1 DEF PushPut, QueueFull, StreamIInv, StreamTypeOK, StreamPlaces, InFlight, Answered, Ended, Recorded,
       Taken, SentinelTaken, readerVars, consumerVars
<1>2. CASE ~QueueFull
  <2>1. /\ queue' = Append(queue, generated) /\ worker = "push_put" /\ worker' = "native"
        /\ stop' = stop /\ done' = done /\ error' = error /\ generated' = generated /\ failed' = failed
        /\ reader' = reader /\ result' = result
        /\ consumer' = consumer /\ delivered' = delivered /\ outcome' = outcome
    BY <1>2 DEF PushPut, readerVars, consumerVars
  <2>2. queue \in Seq(Items) /\ generated \in Items
    BY StreamAssumption DEF StreamIInv, StreamTypeOK, Items, Pieces, Sentinel
  <2>3. /\ queue' \in Seq(Items) /\ Len(queue) \in Nat /\ Len(queue') = Len(queue) + 1
        /\ queue'[Len(queue) + 1] = generated
        /\ \A i \in 1..Len(queue) : queue'[i] = queue[i]
    BY <2>1, <2>2, AppendFacts
  <2>4. Len(queue') <= Capacity
    BY <1>2, <2>3, StreamAssumption DEF QueueFull, StreamIInv, StreamTypeOK
  <2>5. StreamTypeOK'
    BY <2>1, <2>3, <2>4 DEF StreamIInv, StreamTypeOK
  <2>6. StreamPlaces' /\ Answered'
    BY <2>1 DEF StreamIInv, StreamPlaces, Answered, Ended, Recorded
  <2>7. ASSUME ~stop PROVE InFlight'
    <3>1. Taken' = Taken /\ Taken \in Nat /\ (SentinelTaken' <=> SentinelTaken) /\ ~Ended /\ ~Ended'
      BY <2>1 DEF Taken, SentinelTaken, Ended, StreamIInv, StreamTypeOK
    <3>2. /\ ~SentinelTaken /\ generated = Taken + Len(queue) + 1
          /\ \A i \in 1..Len(queue) : queue[i] = Taken + i
          /\ reader = "returned" /\ result # Sentinel => result = Len(delivered) + 1
      BY <2>1, <2>7, <3>1 DEF StreamIInv, InFlight
    <3>3. \A i \in 1..Len(queue') : queue'[i] = Taken' + i
      BY <2>3, <3>1, <3>2
    <3>4. generated' = Taken' + Len(queue')
      BY <2>1, <2>3, <3>1, <3>2
    <3>5. QED
      BY <2>1, <3>1, <3>2, <3>3, <3>4 DEF InFlight
  <2>8. ASSUME stop PROVE InFlight'
    BY <2>1, <2>8 DEF InFlight
  <2>9. QED
    BY <2>5, <2>6, <2>7, <2>8 DEF StreamIInv
<1>3. QED
  BY <1>1, <1>2

\* The sentinel goes behind the last chunk.
LEMMA FinishPutIInv == StreamIInv /\ FinishPut => StreamIInv'
<1> SUFFICES ASSUME StreamIInv, FinishPut PROVE StreamIInv'
  OBVIOUS
<1>1. CASE QueueFull
  BY <1>1 DEF FinishPut, QueueFull, StreamIInv, StreamTypeOK, StreamPlaces, InFlight, Answered, Ended, Recorded,
       Taken, SentinelTaken, readerVars, consumerVars
<1>2. CASE ~QueueFull
  <2>1. /\ queue' = Append(queue, Sentinel) /\ worker = "put_sentinel" /\ worker' = "set_done"
        /\ stop' = stop /\ done' = done /\ error' = error /\ generated' = generated /\ failed' = failed
        /\ reader' = reader /\ result' = result
        /\ consumer' = consumer /\ delivered' = delivered /\ outcome' = outcome
    BY <1>2 DEF FinishPut, readerVars, consumerVars
  <2>2. queue \in Seq(Items) /\ Sentinel \in Items
    BY DEF StreamIInv, StreamTypeOK, Items
  <2>3. /\ queue' \in Seq(Items) /\ queue' # <<>> /\ Len(queue) \in Nat /\ Len(queue') = Len(queue) + 1
        /\ queue'[Len(queue) + 1] = Sentinel
        /\ \A i \in 1..Len(queue) : queue'[i] = queue[i]
    BY <2>1, <2>2, AppendFacts
  <2>4. Len(queue') <= Capacity
    BY <1>2, <2>3, StreamAssumption DEF QueueFull, StreamIInv, StreamTypeOK
  <2>5. StreamTypeOK'
    BY <2>1, <2>3, <2>4 DEF StreamIInv, StreamTypeOK
  <2>6. StreamPlaces' /\ Answered'
    BY <2>1 DEF StreamIInv, StreamPlaces, Answered, Ended, Recorded
  <2>7. ASSUME ~stop PROVE InFlight'
    <3>1. Taken' = Taken /\ Taken \in Nat /\ (SentinelTaken' <=> SentinelTaken) /\ ~Ended /\ Ended'
      BY <2>1 DEF Taken, SentinelTaken, Ended, StreamIInv, StreamTypeOK
    <3>2. /\ ~SentinelTaken /\ generated = Taken + Len(queue)
          /\ \A i \in 1..Len(queue) : queue[i] = Taken + i
          /\ reader = "returned" /\ result # Sentinel => result = Len(delivered) + 1
      BY <2>1, <2>7, <3>1 DEF StreamIInv, StreamTypeOK, InFlight
    <3>3. queue'[Len(queue')] = Sentinel /\ \A i \in 1..(Len(queue') - 1) : queue'[i] = Taken' + i
      BY <2>3, <3>1, <3>2
    <3>4. generated' = Taken' + Len(queue') - 1
      BY <2>1, <2>3, <3>1, <3>2
    <3>5. QED
      BY <2>1, <2>3, <3>1, <3>2, <3>3, <3>4 DEF InFlight
  <2>8. ASSUME stop PROVE InFlight'
    BY <2>1, <2>8 DEF InFlight
  <2>9. QED
    BY <2>5, <2>6, <2>7, <2>8 DEF StreamIInv
<1>3. QED
  BY <1>1, <1>2

\* The reader takes the next chunk in order, or the sentinel when it is the last item.
LEMMA ReaderGetIInv == StreamIInv /\ ReaderGet => StreamIInv'
<1> SUFFICES ASSUME StreamIInv, ReaderGet PROVE StreamIInv'
  OBVIOUS
<1>1. /\ reader = "blocked" /\ queue # <<>> /\ reader' = "returned"
      /\ result' = Head(queue) /\ queue' = Tail(queue)
      /\ stop' = stop /\ done' = done /\ error' = error
      /\ worker' = worker /\ generated' = generated /\ failed' = failed
      /\ consumer' = consumer /\ delivered' = delivered /\ outcome' = outcome
  BY DEF ReaderGet, workerVars, consumerVars
<1>2. queue \in Seq(Items) /\ Len(delivered) \in Nat /\ Len(queue) <= Capacity /\ Capacity \in Nat
  BY StreamAssumption DEF StreamIInv, StreamTypeOK
<1>3. /\ queue' \in Seq(Items) /\ Len(queue) \in Nat /\ Len(queue') = Len(queue) - 1 /\ Len(queue) > 0
      /\ result' = queue[1] /\ result' \in Items
      /\ \A i \in 1..(Len(queue) - 1) : queue'[i] = queue[i + 1]
  BY <1>1, <1>2, TailFacts
<1>4. StreamTypeOK'
  BY <1>1, <1>2, <1>3 DEF StreamIInv, StreamTypeOK
<1>5. StreamPlaces' /\ Answered'
  BY <1>1 DEF StreamIInv, StreamPlaces, Answered, Ended, Recorded
<1>6. Taken = Len(delivered) /\ ~SentinelTaken
  BY <1>1, <1>2 DEF Taken, SentinelTaken
<1>7. ASSUME ~stop, ~Ended PROVE InFlight'
  <2>1. /\ generated = Len(delivered) + Len(queue) + (IF worker \in {"push", "push_put"} THEN 1 ELSE 0)
        /\ \A i \in 1..Len(queue) : queue[i] = Len(delivered) + i
    BY <1>6, <1>7 DEF StreamIInv, InFlight
  <2>2. result' = Len(delivered) + 1
    BY <1>3, <2>1
  <2>3. Taken' = Len(delivered) + 1 /\ ~SentinelTaken' /\ result' # Sentinel /\ ~Ended'
    BY <1>1, <1>2, <1>7, <2>2 DEF Taken, SentinelTaken, Sentinel, Ended
  <2>4. \A i \in 1..Len(queue') : queue'[i] = Taken' + i
    BY <1>2, <1>3, <2>1, <2>3
  <2>5. generated' = Taken' + Len(queue') + (IF worker' \in {"push", "push_put"} THEN 1 ELSE 0)
    BY <1>1, <1>2, <1>3, <2>1, <2>3
  <2>6. QED
    BY <1>1, <2>2, <2>3, <2>4, <2>5 DEF InFlight
<1>8. ASSUME ~stop, Ended PROVE InFlight'
  <2>1. /\ queue[Len(queue)] = Sentinel /\ generated = Len(delivered) + Len(queue) - 1
        /\ \A i \in 1..(Len(queue) - 1) : queue[i] = Len(delivered) + i
    BY <1>6, <1>8 DEF StreamIInv, InFlight
  <2>2. Ended'
    BY <1>1, <1>8 DEF Ended
  <2>3. CASE Len(queue) = 1
    <3>1. result' = Sentinel /\ SentinelTaken' /\ generated' = Len(delivered')
      BY <1>1, <1>2, <1>3, <2>1, <2>3 DEF SentinelTaken
    <3>2. queue' = <<>>
      BY <1>3, <2>3
    <3>3. QED
      BY <2>2, <3>1, <3>2 DEF InFlight, SentinelTaken
  <2>4. CASE Len(queue) # 1
    <3>1. result' = Len(delivered) + 1
      BY <1>3, <2>1, <2>4
    <3>2. Taken' = Len(delivered) + 1 /\ ~SentinelTaken' /\ result' # Sentinel
      BY <1>1, <1>2, <3>1 DEF Taken, SentinelTaken, Sentinel
    <3>3. queue' # <<>> /\ queue'[Len(queue')] = Sentinel
      BY <1>3, <2>1, <2>4
    <3>4. \A i \in 1..(Len(queue') - 1) : queue'[i] = Taken' + i
      <4>1. TAKE i \in 1..(Len(queue') - 1)
      <4>2. i \in 1..(Len(queue) - 1) /\ i + 1 \in 1..(Len(queue) - 1)
        BY <1>3
      <4>3. queue'[i] = queue[i + 1] /\ queue[i + 1] = Len(delivered) + (i + 1)
        BY <1>3, <2>1, <4>2
      <4>4. QED
        BY <1>2, <3>2, <4>3
    <3>5. generated' = Taken' + Len(queue') - 1
      BY <1>1, <1>2, <1>3, <2>1, <3>2
    <3>6. QED
      BY <1>1, <2>2, <3>1, <3>2, <3>3, <3>4, <3>5 DEF InFlight
  <2>5. QED
    BY <2>3, <2>4
<1>9. ASSUME stop PROVE InFlight'
  BY <1>1, <1>9 DEF InFlight
<1>10. QED
  BY <1>4, <1>5, <1>7, <1>8, <1>9 DEF StreamIInv

LEMMA StreamNextIInv == StreamIInv /\ [StreamNext]_streamVars => StreamIInv'
<1> SUFFICES ASSUME StreamIInv, [StreamNext]_streamVars PROVE StreamIInv'
  OBVIOUS
<1> USE StreamAssumption DEF StreamIInv, StreamTypeOK, Ended, Recorded, Taken, SentinelTaken, Items,
     Pieces, Sentinel, QueueFull, workerVars, readerVars, consumerVars
<1>1. ASSUME Generate PROVE StreamIInv'
  <2>1. StreamTypeOK'
    BY <1>1 DEF Generate
  <2>2. StreamPlaces'
    BY <1>1 DEF Generate, StreamPlaces
  <2>3. InFlight'
    BY <1>1 DEF Generate, StreamPlaces, InFlight
  <2>4. Answered'
    BY <1>1 DEF Generate, StreamPlaces, InFlight, Answered
  <2>5. QED
    BY <2>1, <2>2, <2>3, <2>4 DEF StreamIInv
<1>2. ASSUME NativeReturn PROVE StreamIInv'
  <2>1. StreamTypeOK'
    BY <1>2 DEF NativeReturn
  <2>2. StreamPlaces'
    BY <1>2 DEF NativeReturn, StreamPlaces
  <2>3. InFlight'
    BY <1>2 DEF NativeReturn, StreamPlaces, InFlight
  <2>4. Answered'
    BY <1>2 DEF NativeReturn, StreamPlaces, InFlight, Answered
  <2>5. QED
    BY <2>1, <2>2, <2>3, <2>4 DEF StreamIInv
<1>3. ASSUME PushCheck PROVE StreamIInv'
  <2>1. StreamTypeOK'
    BY <1>3 DEF PushCheck
  <2>2. StreamPlaces'
    BY <1>3 DEF PushCheck, StreamPlaces
  <2>3. InFlight'
    BY <1>3 DEF PushCheck, StreamPlaces, InFlight
  <2>4. Answered'
    BY <1>3 DEF PushCheck, StreamPlaces, InFlight, Answered
  <2>5. QED
    BY <2>1, <2>2, <2>3, <2>4 DEF StreamIInv
<1>4. ASSUME PushPut PROVE StreamIInv'
  BY <1>4, PushPutIInv
<1>5. ASSUME FinishError PROVE StreamIInv'
  <2>1. StreamTypeOK'
    BY <1>5 DEF FinishError
  <2>2. StreamPlaces'
    BY <1>5 DEF FinishError, StreamPlaces
  <2>3. InFlight'
    BY <1>5 DEF FinishError, StreamPlaces, InFlight
  <2>4. Answered'
    BY <1>5 DEF FinishError, StreamPlaces, InFlight, Answered
  <2>5. QED
    BY <2>1, <2>2, <2>3, <2>4 DEF StreamIInv
<1>6. ASSUME FinishPut PROVE StreamIInv'
  BY <1>6, FinishPutIInv
<1>7. ASSUME FinishFull PROVE StreamIInv'
  <2>1. StreamTypeOK'
    BY <1>7 DEF FinishFull
  <2>2. StreamPlaces'
    BY <1>7 DEF FinishFull, StreamPlaces
  <2>3. InFlight'
    BY <1>7 DEF FinishFull, StreamPlaces, InFlight
  <2>4. Answered'
    BY <1>7 DEF FinishFull, StreamPlaces, InFlight, Answered
  <2>5. QED
    BY <2>1, <2>2, <2>3, <2>4 DEF StreamIInv
<1>8. ASSUME FinishDone PROVE StreamIInv'
  <2>1. StreamTypeOK'
    BY <1>8 DEF FinishDone
  <2>2. StreamPlaces'
    BY <1>8 DEF FinishDone, StreamPlaces
  <2>3. InFlight'
    BY <1>8 DEF FinishDone, StreamPlaces, InFlight
  <2>4. Answered'
    BY <1>8 DEF FinishDone, StreamPlaces, InFlight, Answered
  <2>5. QED
    BY <2>1, <2>2, <2>3, <2>4 DEF StreamIInv
<1>9. ASSUME ReaderGet PROVE StreamIInv'
  BY <1>9, ReaderGetIInv
<1>10. ASSUME ReaderAbandoned PROVE StreamIInv'
  <2>1. StreamTypeOK'
    BY <1>10 DEF ReaderAbandoned
  <2>2. StreamPlaces'
    BY <1>10 DEF ReaderAbandoned, StreamPlaces
  <2>3. InFlight'
    BY <1>10 DEF ReaderAbandoned, StreamPlaces, InFlight
  <2>4. Answered'
    BY <1>10 DEF ReaderAbandoned, StreamPlaces, InFlight, Answered
  <2>5. QED
    BY <2>1, <2>2, <2>3, <2>4 DEF StreamIInv
<1>11. ASSUME RequestChunk PROVE StreamIInv'
  <2>1. StreamTypeOK'
    BY <1>11 DEF RequestChunk
  <2>2. StreamPlaces'
    BY <1>11 DEF RequestChunk, StreamPlaces
  <2>3. InFlight'
    BY <1>11 DEF RequestChunk, StreamPlaces, InFlight
  <2>4. Answered'
    BY <1>11 DEF RequestChunk, StreamPlaces, InFlight, Answered
  <2>5. QED
    BY <2>1, <2>2, <2>3, <2>4 DEF StreamIInv
<1>12. ASSUME DeliverChunk PROVE StreamIInv'
  <2>1. StreamTypeOK'
    BY <1>12 DEF DeliverChunk
  <2>2. StreamPlaces'
    BY <1>12 DEF DeliverChunk, StreamPlaces
  <2>3. InFlight'
    BY <1>12 DEF DeliverChunk, StreamPlaces, InFlight
  <2>4. Answered'
    BY <1>12, AppendFacts DEF DeliverChunk, StreamPlaces, InFlight, Answered
  <2>5. QED
    BY <2>1, <2>2, <2>3, <2>4 DEF StreamIInv
<1>13. ASSUME DeliverEnd PROVE StreamIInv'
  <2>1. StreamTypeOK'
    BY <1>13 DEF DeliverEnd
  <2>2. StreamPlaces'
    BY <1>13 DEF DeliverEnd, StreamPlaces
  <2>3. InFlight'
    BY <1>13 DEF DeliverEnd, StreamPlaces, InFlight
  <2>4. Answered'
    BY <1>13 DEF DeliverEnd, StreamPlaces, InFlight, Answered
  <2>5. QED
    BY <2>1, <2>2, <2>3, <2>4 DEF StreamIInv
<1>14. ASSUME Abort PROVE StreamIInv'
  <2>1. StreamTypeOK'
    BY <1>14 DEF Abort
  <2>2. StreamPlaces'
    BY <1>14 DEF Abort, StreamPlaces
  <2>3. InFlight'
    BY <1>14 DEF Abort, StreamPlaces, InFlight
  <2>4. Answered'
    BY <1>14 DEF Abort, StreamPlaces, InFlight, Answered
  <2>5. QED
    BY <2>1, <2>2, <2>3, <2>4 DEF StreamIInv
<1>15. ASSUME Release PROVE StreamIInv'
  <2>1. StreamTypeOK'
    BY <1>15 DEF Release
  <2>2. StreamPlaces'
    BY <1>15 DEF Release, StreamPlaces
  <2>3. InFlight'
    BY <1>15 DEF Release, StreamPlaces, InFlight
  <2>4. Answered'
    BY <1>15 DEF Release, StreamPlaces, InFlight, Answered
  <2>5. QED
    BY <2>1, <2>2, <2>3, <2>4 DEF StreamIInv
<1>16. ASSUME CloseTimeout PROVE StreamIInv'
  <2>1. StreamTypeOK'
    BY <1>16 DEF CloseTimeout
  <2>2. StreamPlaces'
    BY <1>16 DEF CloseTimeout, StreamPlaces
  <2>3. InFlight'
    BY <1>16 DEF CloseTimeout, StreamPlaces, InFlight
  <2>4. Answered'
    BY <1>16 DEF CloseTimeout, StreamPlaces, InFlight, Answered
  <2>5. QED
    BY <2>1, <2>2, <2>3, <2>4 DEF StreamIInv
<1>17. CASE UNCHANGED streamVars
  <2>1. StreamTypeOK'
    BY <1>17 DEF streamVars
  <2>2. StreamPlaces'
    BY <1>17 DEF streamVars, StreamPlaces
  <2>3. InFlight'
    BY <1>17 DEF streamVars, InFlight
  <2>4. Answered'
    BY <1>17 DEF streamVars, Answered
  <2>5. QED
    BY <2>1, <2>2, <2>3, <2>4 DEF StreamIInv
<1>18. QED
  BY <1>1, <1>2, <1>3, <1>4, <1>5, <1>6, <1>7, <1>8, <1>9, <1>10, <1>11, <1>12, <1>13, <1>14, <1>15,
     <1>16, <1>17 DEF StreamNext, WorkerStep, ReaderStep, ConsumerStep, Terminated

LEMMA StreamInvariant == StreamSpec => []StreamIInv
BY StreamInitIInv, StreamNextIInv, PTL DEF StreamSpec

\* The types, and a queue that never holds more than maxsize items.
THEOREM StreamTypeCorrect == StreamSpec => []StreamTypeOK
<1>1. StreamIInv => StreamTypeOK
  BY DEF StreamIInv
<1>2. QED
  BY <1>1, StreamInvariant, PTL

\* The client gets the generated chunks in order and without a gap, "complete"
\* means that it got all of them, and a request that gives the model lock back
\* without quarantine leaves no native call behind (push, finish, next_chunk,
\* _finish_stream_handle).
THEOREM StreamIsSafe == StreamSpec => []StreamSafe
<1>1. StreamIInv => StreamSafe
  <2> SUFFICES ASSUME StreamIInv PROVE StreamSafe
    OBVIOUS
  <2> USE DEF StreamIInv
  <2>1. DeliveredInOrder
    BY DEF DeliveredInOrder, Answered, StreamTypeOK
  <2>2. CompleteMeansEverything /\ ReleasedMeansNativeIdle
    BY DEF CompleteMeansEverything, ReleasedMeansNativeIdle, Answered, StreamPlaces
  <2>3. QED
    BY <2>1, <2>2 DEF StreamSafe
<1>2. QED
  BY <1>1, StreamInvariant, PTL

-----------------------------------------------------------------------------
(* The embedding engine.                                                    *)
Inside == {c \in Callers : embPc[c] \in Admitted}

\* Where callers, unloaders and the shutdown can be.
Places ==
  /\ \A c \in Callers : embPc[c] \notin {"drain", "unload", "down"}
  /\ \A t \in Closers : embPc[t] \notin Admitted
  /\ \A t \in Unloaders : embPc[t] \notin {"drain", "unload", "down"}

\* active counts the callers inside.
Counted == active = Cardinality(Inside)

Serialized == \A c \in Callers : embPc[c] = "native" <=> operation = c

\* A thread in the real close, a closed engine and a set idle all mean that nobody
\* is inside.
Gate ==
  /\ closed => Inside = {}
  /\ \A t \in Threads : embPc[t] \in Closing => Inside = {}
  /\ idle => Inside = {}

\* Every close() so far is remembered by one of the two flags.
Asked ==
  /\ unloaded => closePending \/ closed
  /\ \A t \in Threads : embPc[t] \in Closing => closePending \/ closed
  /\ \A t \in Threads : embPc[t] \in {"close_drop", "close_end"} => closed

\* Someone will drop the pipeline.
Owed ==
  /\ ~closed => pipe
  /\ closePending /\ ~closed =>
       Inside # {} \/ \E t \in Threads : embPc[t] \in {"close_test", "close_mark"}
  /\ closed /\ pipe => \E t \in Threads : embPc[t] = "close_drop"

Inv == EmbeddingTypeOK /\ Places /\ Counted /\ Serialized /\ Gate /\ Asked /\ Owed

Steps == {"out", "drain", "unload", "down"} \cup Admitted \cup Closing

\* What the count of the callers inside says of the set.
LEMMA InsideCount ==
  /\ Inside \subseteq Callers /\ IsFiniteSet(Inside)
  /\ Cardinality(Inside) \in Nat /\ Cardinality(Inside) <= Cardinality(Callers)
  /\ Cardinality(Callers) \in Nat
  /\ Cardinality(Inside) = 0 <=> Inside = {}
<1>1. Inside \subseteq Callers
  BY DEF Inside
<1>2. IsFiniteSet(Callers)
  BY EmbeddingAssumption
<1>. QED  BY <1>1, <1>2, FS_Subset, FS_CardinalityType, FS_EmptySet

LEMMA InitInv ==
  EmbeddingInit => Inv
<1>. SUFFICES ASSUME EmbeddingInit PROVE Inv
  OBVIOUS
<1>1. Inside = {}
  BY DEF EmbeddingInit, Inside, Admitted, Threads
<1>2. Counted /\ active \in 0 .. Cardinality(Callers)
  BY <1>1, InsideCount DEF EmbeddingInit, Counted
<1>. QED
  BY <1>1, <1>2, EmbeddingAssumption
  DEF EmbeddingInit, Inv, EmbeddingTypeOK, Places, Serialized, Gate, Asked, Owed, Threads, Closers,
      Admitted, Closing

\* A thread that neither enters nor leaves.
LEMMA SameInside ==
  ASSUME Inv, NEW t \in Threads, NEW step \in Steps,
         step \in Admitted <=> embPc[t] \in Admitted,
         embPc' = [embPc EXCEPT ![t] = step]
  PROVE  Inside' = Inside
BY DEF Inv, EmbeddingTypeOK, Inside

LEMMA EnterInv ==
  ASSUME Inv, NEW c \in Callers, Enter(c) PROVE Inv'
<1>1. Inside' = Inside \cup {c} /\ c \notin Inside
  BY DEF Inv, EmbeddingTypeOK, Enter, Goto, Inside, Admitted, Threads
<1>2. Counted' /\ active' \in 0 .. Cardinality(Callers)
  <2>1. Cardinality(Inside') = Cardinality(Inside) + 1
    BY <1>1, InsideCount, FS_AddElement
  <2>2. Inside' \subseteq Callers
    BY <1>1, InsideCount
  <2>3. Cardinality(Inside') <= Cardinality(Callers)
    BY <2>2, EmbeddingAssumption, FS_Subset
  <2>. QED  BY <2>1, <2>3, InsideCount DEF Inv, Counted, Enter
<1>3. EmbeddingTypeOK' /\ Places' /\ Serialized'
  BY <1>2, EmbeddingAssumption
  DEF Inv, EmbeddingTypeOK, Places, Serialized, Enter, Goto, engine, Admitted, Threads, Closers
<1>4. Gate' /\ Asked' /\ Owed'
  <2>1. \A t \in Threads : embPc'[t] \in Closing <=> embPc[t] \in Closing
    BY DEF Inv, EmbeddingTypeOK, Enter, Goto, Closing, Threads
  <2>2. \A t \in Threads : embPc[t] \notin Closing
    BY DEF Inv, Asked, Enter
  <2>3. Gate' /\ Asked'
    BY <2>1, <2>2 DEF Inv, Gate, Asked, Closing, Enter, engine
  <2>. QED  BY <2>3 DEF Inv, Owed, Enter, engine
<1>. QED  BY <1>2, <1>3, <1>4 DEF Inv

LEMMA NativeInv ==
  ASSUME Inv, NEW c \in Callers, StartNative(c) \/ EndNative(c) PROVE Inv'
<1>1. Inside' = Inside /\ ~closed
  <2>1. embPc[c] \in Admitted
    BY DEF StartNative, EndNative, Admitted
  <2>2. Inside' = Inside
    BY <2>1 DEF Inv, EmbeddingTypeOK, StartNative, EndNative, Goto, Inside, Admitted, Threads
  <2>. QED  BY <2>1, <2>2 DEF Inv, Gate, Inside
<1>2. EmbeddingTypeOK' /\ Places' /\ Counted'
  BY <1>1, EmbeddingAssumption
  DEF Inv, EmbeddingTypeOK, Places, Counted, StartNative, EndNative, Goto, lifecycle, engine,
      Admitted, Closing, Threads, Closers
<1>3. Serialized'
  BY <1>1, EmbeddingAssumption
  DEF Inv, EmbeddingTypeOK, Serialized, StartNative, EndNative, Goto, Threads
<1>4. PICK step \in {"native", "leaving"} : embPc' = [embPc EXCEPT ![c] = step]
  BY DEF StartNative, EndNative, Goto
<1>5. UNCHANGED <<active, closePending, idle, closed, pipe, unloaded>>
  BY DEF StartNative, EndNative, lifecycle, engine
<1>6. /\ \A t \in Threads \ {c} : embPc'[t] = embPc[t]
      /\ embPc'[c] \in {"native", "leaving"} /\ embPc[c] \in {"waiting", "native"}
  BY <1>4 DEF Inv, EmbeddingTypeOK, StartNative, EndNative, Threads
<1>7. Gate'
  BY <1>1, <1>5, <1>6 DEF Inv, Gate, Closing
<1>8. Asked'
  BY <1>5, <1>6 DEF Inv, Asked, Closing
<1>9. Owed'
  BY <1>1, <1>5, <1>6 DEF Inv, Owed
<1>. QED  BY <1>2, <1>3, <1>7, <1>8, <1>9 DEF Inv

LEMMA LeaveInv ==
  ASSUME Inv, NEW c \in Callers, Leave(c) PROVE Inv'
<1>1. Inside' = Inside \ {c} /\ c \in Inside
  BY DEF Inv, EmbeddingTypeOK, Leave, Goto, Inside, Admitted, Closing, Threads
<1>2. /\ active \in Nat /\ active # 0 /\ active' = active - 1
      /\ Counted' /\ active' \in 0 .. Cardinality(Callers)
      /\ active <= 1 <=> Inside' = {}
  <2>1. Cardinality(Inside') = Cardinality(Inside) - 1 /\ IsFiniteSet(Inside')
    BY <1>1, InsideCount, FS_RemoveElement
  <2>2. active = Cardinality(Inside) /\ active # 0
    BY <1>1, InsideCount DEF Inv, Counted
  <2>3. Cardinality(Inside') = 0 <=> Inside' = {}
    BY <2>1, FS_EmptySet
  <2>. QED  BY <2>1, <2>2, <2>3, InsideCount DEF Counted, Leave
<1>3. EmbeddingTypeOK' /\ Places' /\ Serialized'
  BY <1>2, EmbeddingAssumption
  DEF Inv, EmbeddingTypeOK, Places, Serialized, Leave, Goto, engine, Admitted, Closing, Threads, Closers
<1>4. ~closed /\ ~idle /\ \A t \in Threads : embPc[t] \notin Closing
  BY <1>1 DEF Inv, Gate
<1>5. /\ UNCHANGED <<closePending, closed, pipe, unloaded>>
      /\ idle' => Inside' = {}
      /\ \A t \in Threads : embPc'[t] \in Closing =>
           t = c /\ embPc'[t] = "close_test" /\ Inside' = {} /\ closePending
      /\ closePending /\ Inside' = {} => embPc'[c] = "close_test" /\ c \in Threads
  BY <1>2, <1>4 DEF Inv, EmbeddingTypeOK, Leave, Goto, engine, Closing, Threads
<1>6. Gate' /\ Asked'
  BY <1>4, <1>5 DEF Inv, Gate, Asked, Closing
<1>7. Owed'
  BY <1>4, <1>5 DEF Inv, Owed
<1>. QED  BY <1>2, <1>3, <1>6, <1>7 DEF Inv

LEMMA BeginCloseInv ==
  ASSUME Inv, NEW t \in Closers, BeginClose(t) PROVE Inv'
<1>1. PICK step \in {"out", "down", "close_test"} :
        /\ embPc' = [embPc EXCEPT ![t] = step]
        /\ step = "close_test" => ~closed /\ active = 0
        /\ step # "close_test" => closed \/ active > 0
        /\ step = "down" => t = Shutdown
  BY InsideCount DEF Inv, Counted, BeginClose, Return, Goto
<1>2. t \in Threads /\ embPc[t] \in {"out", "unload"} /\ t \notin Callers
  BY EmbeddingAssumption DEF BeginClose, Threads, Closers
<1>3. Inside' = Inside
  BY <1>1, <1>2, SameInside DEF Admitted, Steps, Closing
<1>4. active = 0 <=> Inside = {}
  BY InsideCount DEF Inv, Counted
<1>5. EmbeddingTypeOK' /\ Places' /\ Counted' /\ Serialized'
  BY <1>1, <1>2, <1>3, EmbeddingAssumption
  DEF Inv, EmbeddingTypeOK, Places, Counted, Serialized, BeginClose, engine, Admitted, Closing,
      Threads, Closers
<1>6. /\ \A u \in Threads \ {t} : embPc'[u] = embPc[u]
      /\ embPc'[t] = step
  BY <1>1, <1>2 DEF Inv, EmbeddingTypeOK
<1>7. /\ UNCHANGED <<active, closed, pipe>> /\ unloaded' /\ idle' = closed
      /\ closePending' = (closePending \/ ~closed)
  BY DEF BeginClose, engine
<1>8. Gate'
  BY <1>1, <1>3, <1>4, <1>6, <1>7 DEF Inv, Gate, Closing
<1>9. Asked'
  BY <1>1, <1>6, <1>7 DEF Inv, Asked, Closing
<1>10. Owed'
  <2>1. ~closed' => pipe'
    BY <1>7 DEF Inv, Owed
  <2>2. closePending' /\ ~closed' =>
          Inside' # {} \/ \E u \in Threads : embPc'[u] \in {"close_test", "close_mark"}
    <3>1. CASE step = "close_test"
      BY <1>2, <1>6, <3>1
    <3>2. CASE step # "close_test"
      BY <1>1, <1>3, <1>4, <1>7, <3>2, InsideCount DEF Inv, Counted
    <3>. QED  BY <3>1, <3>2
  <2>3. closed' /\ pipe' => \E u \in Threads : embPc'[u] = "close_drop"
    BY <1>2, <1>6, <1>7 DEF Inv, Owed
  <2>. QED  BY <2>1, <2>2, <2>3 DEF Owed
<1>. QED  BY <1>5, <1>8, <1>9, <1>10 DEF Inv

LEMMA CloseStepInv ==
  ASSUME Inv, NEW t \in Threads, CloseStep(t) PROVE Inv'
<1>1. PICK step \in {"out", "down", "close_mark", "close_drop", "close_end"} :
        embPc' = [embPc EXCEPT ![t] = step] /\ (step = "down" => t = Shutdown)
  BY DEF CloseStep, TestClosed, MarkClosed, DropPipe, EndClose, Return, Goto
<1>2. embPc[t] \in Closing /\ Inside = {} /\ (closePending \/ closed)
  BY DEF CloseStep, TestClosed, MarkClosed, DropPipe, EndClose, Closing, Inv, Gate, Asked
<1>3. Inside' = {}
  BY <1>1, <1>2, SameInside DEF Admitted, Steps, Closing
<1>4. EmbeddingTypeOK' /\ Places' /\ Counted' /\ Serialized'
  BY <1>1, <1>2, <1>3, EmbeddingAssumption
  DEF Inv, EmbeddingTypeOK, Places, Counted, Serialized, CloseStep, TestClosed, MarkClosed,
      DropPipe, EndClose, lifecycle, engine, Admitted, Closing, Threads, Closers
<1>5. /\ \A u \in Threads \ {t} : embPc'[u] = embPc[u]
      /\ embPc'[t] = step
  BY <1>1 DEF Inv, EmbeddingTypeOK
<1>6. Gate'
  BY <1>3 DEF Gate
<1>7. Asked' /\ Owed'
  <2>1. CASE TestClosed(t)
    BY <1>2, <1>3, <1>5, <2>1 DEF Inv, Asked, Owed, Closing, TestClosed, Goto, EmbeddingTypeOK,
         lifecycle, engine
  <2>2. CASE MarkClosed(t)
    BY <1>2, <1>3, <1>5, <2>2 DEF Inv, Asked, Owed, Closing, MarkClosed, Goto, EmbeddingTypeOK,
         lifecycle
  <2>3. CASE DropPipe(t)
    BY <1>2, <1>3, <1>5, <2>3 DEF Inv, Asked, Owed, Closing, DropPipe, Goto, EmbeddingTypeOK, lifecycle
  <2>4. CASE EndClose(t)
    BY <1>2, <1>3, <1>5, <2>4 DEF Inv, Asked, Owed, Closing, EndClose, Return, Goto,
         EmbeddingTypeOK, engine
  <2>. QED  BY <2>1, <2>2, <2>3, <2>4 DEF CloseStep
<1>. QED  BY <1>4, <1>6, <1>7 DEF Inv

LEMMA ShutdownInv ==
  ASSUME Inv, ShutdownStep PROVE Inv'
<1>1. PICK step \in {"drain", "unload"} : embPc' = [embPc EXCEPT ![Shutdown] = step]
  BY DEF ShutdownStep, StartShutdown, EndDrain, DrainTimeout, Goto
<1>2. /\ Shutdown \in Threads /\ Shutdown \notin Callers /\ Shutdown \notin Unloaders
      /\ embPc[Shutdown] \in {"out", "drain"}
      /\ UNCHANGED <<active, closePending, idle, operation, closed, pipe, unloaded>>
  BY EmbeddingAssumption
  DEF ShutdownStep, StartShutdown, EndDrain, DrainTimeout, Threads, Closers, lifecycle, engine
<1>3. Inside' = Inside
  BY <1>1, <1>2, SameInside DEF Admitted, Steps, Closing
<1>4. /\ \A u \in Threads \ {Shutdown} : embPc'[u] = embPc[u]
      /\ embPc'[Shutdown] = step
  BY <1>1, <1>2 DEF Inv, EmbeddingTypeOK
<1>5. EmbeddingTypeOK' /\ Places' /\ Counted' /\ Serialized'
  BY <1>1, <1>2, <1>3, <1>4
  DEF Inv, EmbeddingTypeOK, Places, Counted, Serialized, Admitted, Threads, Closers
<1>6. Gate'
  BY <1>1, <1>2, <1>3, <1>4 DEF Inv, Gate, Closing
<1>7. Asked'
  BY <1>1, <1>2, <1>4 DEF Inv, Asked, Closing
<1>8. Owed'
  BY <1>1, <1>2, <1>3, <1>4 DEF Inv, Owed
<1>. QED  BY <1>5, <1>6, <1>7, <1>8 DEF Inv

LEMMA StepInv ==
  Inv /\ [EmbeddingNext]_embeddingVars => Inv'
<1>. SUFFICES ASSUME Inv, [EmbeddingNext]_embeddingVars PROVE Inv'
  OBVIOUS
<1>1. CASE UNCHANGED embeddingVars
  BY <1>1 DEF embeddingVars, lifecycle, engine, Inv, EmbeddingTypeOK, Places, Counted, Serialized, Gate,
              Asked, Owed, Inside
<1>. QED
  BY <1>1, EnterInv, NativeInv, LeaveInv, BeginCloseInv, CloseStepInv, ShutdownInv
  DEF EmbeddingNext, CallerStep

THEOREM EmbeddingInvariant == EmbeddingSpec => []Inv
BY InitInv, StepInv, PTL DEF EmbeddingSpec

\* The counter never leaves 0 .. the number of callers, and every thread is at a
\* step of the code.
THEOREM EmbeddingTypeCorrect == EmbeddingSpec => []EmbeddingTypeOK
<1>1. Inv => EmbeddingTypeOK
  BY DEF Inv
<1>. QED  BY <1>1, EmbeddingInvariant, PTL

\* A native embedding call is alone and has its pipeline until it returns
\* (embed_with_lifecycle_safety, close_with_lifecycle_safety).
THEOREM NativeCallsSafe == EmbeddingSpec => []NativeSafe
<1>1. Inv => NativeSafe
  BY DEF Inv, NativeSafe, Serialized, Gate, Owed, Inside, Admitted
<1>. QED  BY <1>1, EmbeddingInvariant, PTL

\* A shutdown that finds idle set unloads an engine nobody uses
\* (_wait_for_embedding_drain).
THEOREM DrainSound == EmbeddingSpec => []IdleMeansQuiet
<1>1. Inv => IdleMeansQuiet
  BY DEF Inv, Gate, IdleMeansQuiet, Inside
<1>. QED  BY <1>1, EmbeddingInvariant, PTL

\* Between the close() that was asked for and the pipeline going away some thread
\* always has the close to do (the close_now of the last caller out).
THEOREM CloseKept == EmbeddingSpec => []CloseNeverLost
<1>1. Inv => CloseNeverLost
  BY DEF Inv, EmbeddingTypeOK, Asked, Owed, CloseNeverLost, Inside
<1>. QED  BY <1>1, EmbeddingInvariant, PTL

\* No embedding is admitted after the first close(), although close_pending is
\* cleared again (embed_with_lifecycle_safety tests both flags).
THEOREM UnloadIsFinal == EmbeddingSpec => NoAdmissionAfterUnload
<1>1. Inv /\ [EmbeddingNext]_embeddingVars =>
        (unloaded => \A c \in Callers : embPc'[c] \in Admitted => embPc[c] \in Admitted)
  <2>. SUFFICES ASSUME Inv, [EmbeddingNext]_embeddingVars, unloaded, NEW c \in Callers,
                       embPc'[c] \in Admitted, embPc[c] \notin Admitted
                PROVE  FALSE
    OBVIOUS
  <2>1. PICK d \in Callers : Enter(d)
    BY DEF Inv, EmbeddingTypeOK, EmbeddingNext, embeddingVars, CallerStep, CloseStep, ShutdownStep,
         StartNative, EndNative, Leave, BeginClose, TestClosed, MarkClosed, DropPipe, EndClose,
         StartShutdown, EndDrain, DrainTimeout, Return, Goto, Admitted, Closing, Threads
  <2>. QED  BY <2>1 DEF Inv, Asked, Enter
<1>. QED  BY <1>1, EmbeddingInvariant, PTL DEF EmbeddingSpec, NoAdmissionAfterUnload

\* The native calls, the drain and the deferred close, together.
THEOREM EmbeddingIsSafe == EmbeddingSpec => []EmbeddingSafe
BY NativeCallsSafe, DrainSound, CloseKept, PTL DEF EmbeddingSafe

-----------------------------------------------------------------------------
(* Benchmark suites.                                                        *)

\* Steps at which a suite holds the lock, and those at which a temporary engine is its own.
Held == Measuring \cup Stopping \cup {"choosing", "closing"}
Using == {"prompting", "reading", "counting"} \cup Stopping
SuitePlaces == {"idle", "queued", "choosing", "closing", "storing", "writing"} \cup Measuring
            \cup Stopping \cup Over

\* The queue for the lock is left out: no promise rests on it.
BenchmarkTypes ==
  /\ at \in [Suites -> SuitePlaces]
  /\ results \in [Suites -> Seq({"measured", "failed"})]
  /\ cancelled \in [Suites -> BOOLEAN]
  /\ life \in [Engines -> {"none", "open", "closed"}]
  /\ replaced \subseteq Engines
  /\ native \in [Engines -> {"none", "running", "exited"}]
  /\ file \in Seq(Writers) /\ copy \in Seq(Writers) /\ history \in Seq(Writers)

\* A suite works on a row it still lacks, and stores a run that has them all.
RowsCounted ==
  \A s \in Suites :
    /\ Len(results[s]) <= Rows
    /\ at[s] \in Held \ {"choosing"} => Len(results[s]) < Rows
    /\ at[s] \in {"storing", "writing", "stored"} => Len(results[s]) = Rows

\* A cancellation is kept until the suite has cleaned up.
CancellationKept ==
  \A s \in Suites : cancelled[s] => at[s] \in {"closing", "cancelled"} \cup Stopping

\* The engine of the present combination: in use it is open and its suite's to close;
\* at the close its worker has ended or a daemon thread has taken the engine over.
EngineInUse ==
  \A s \in Suites :
    /\ at[s] \in Using => life[Engine(s)] = "open" /\ Engine(s) \notin replaced
    /\ at[s] \in {"prompting", "counting"} => native[Engine(s)] # "running"
    /\ at[s] = "closing" =>
         \/ Engine(s) \in replaced
         \/ life[Engine(s)] = "open" /\ native[Engine(s)] # "running"

\* Combinations a suite has not come to have no engine.
Untouched ==
  \A e \in Engines :
    /\ at[e[1]] \notin Over
    /\ e[2] > Len(results[e[1]]) /\ ~(e = Engine(e[1]) /\ at[e[1]] \in Using \cup {"closing"})
    => life[e] = "none" /\ native[e] = "none" /\ e \notin replaced

\* The writer with the lock of the store has read what is there; the file is always the
\* newest runs of the history.
StoreConsistent ==
  /\ \A s \in Suites : storeLock = s <=> at[s] = "writing"
  /\ storeLock # NoSuite => copy = file
  /\ IsSuffix(file, history) /\ (Len(file) = Len(history) \/ Len(file) = KeptRuns)

BenchmarkIInv ==
  /\ BenchmarkTypes /\ RowsCounted /\ OneSuiteMeasures /\ CancellationKept
  /\ EngineInUse /\ Untouched /\ EngineOutlivesWorker /\ EngineHasAnOwner
  /\ StoreConsistent

LEMMA SuffixMeans ==
  ASSUME NEW S, NEW f \in Seq(S), NEW h \in Seq(S)
  PROVE  IsSuffix(f, h) <=> /\ Len(f) <= Len(h)
                            /\ \A i \in 1..Len(f) : f[i] = h[Len(h) - Len(f) + i]
<1> DEFINE rf == Reverse(f)
           rh == Reverse(h)
<1>1. /\ rf \in Seq(S) /\ Len(rf) = Len(f) /\ \A i \in 1..Len(f) : rf[i] = f[Len(f) - i + 1]
      /\ rh \in Seq(S) /\ Len(rh) = Len(h) /\ \A i \in 1..Len(h) : rh[i] = h[Len(h) - i + 1]
  BY DEF Reverse
<1>2. CASE Len(f) <= Len(h)
  <2>1. /\ SubSeq(rf, 1, Len(f)) = [i \in 1..Len(f) |-> rf[i]]
        /\ SubSeq(rh, 1, Len(f)) = [i \in 1..Len(f) |-> rh[i]]
    BY <1>1, <1>2
  <2>2. IsSuffix(f, h) <=> \A i \in 1..Len(f) : rf[i] = rh[i]
    BY <1>1, <1>2, <2>1 DEF IsSuffix, IsPrefix
  <2>3. ASSUME \A i \in 1..Len(f) : rf[i] = rh[i], NEW i \in 1..Len(f)
        PROVE  f[i] = h[Len(h) - Len(f) + i]
    <3>1. Len(f) - i + 1 \in 1..Len(f) /\ Len(f) - (Len(f) - i + 1) + 1 = i
      OBVIOUS
    <3>2. rf[Len(f) - i + 1] = f[i]
      BY <1>1, <3>1
    <3>3. rh[Len(f) - i + 1] = h[Len(h) - (Len(f) - i + 1) + 1]
      BY <1>1, <1>2, <3>1
    <3>4. Len(h) - (Len(f) - i + 1) + 1 = Len(h) - Len(f) + i
      OBVIOUS
    <3>5. QED
      BY <2>3, <3>1, <3>2, <3>3, <3>4
  <2>4. ASSUME \A i \in 1..Len(f) : f[i] = h[Len(h) - Len(f) + i], NEW i \in 1..Len(f)
        PROVE  rf[i] = rh[i]
    <3>1. Len(f) - i + 1 \in 1..Len(f) /\ i \in 1..Len(h)
      BY <1>2
    <3>2. Len(h) - Len(f) + (Len(f) - i + 1) = Len(h) - i + 1
      OBVIOUS
    <3>3. QED
      BY <1>1, <2>4, <3>1, <3>2
  <2>5. QED
    BY <1>2, <2>2, <2>3, <2>4
<1>3. CASE ~(Len(f) <= Len(h))
  BY <1>1, <1>3 DEF IsSuffix, IsPrefix
<1>4. QED
  BY <1>2, <1>3

LEMMA LastOf ==
  ASSUME NEW S, NEW s \in Seq(S), NEW n \in Nat, Len(s) > n
  PROVE  /\ SubSeq(s, Len(s) - n + 1, Len(s)) \in Seq(S)
         /\ Len(SubSeq(s, Len(s) - n + 1, Len(s))) = n
         /\ \A i \in 1..n : SubSeq(s, Len(s) - n + 1, Len(s))[i] = s[Len(s) - n + i]
BY SubSeqProperties

\* A run more, and the oldest dropped when there are too many: still the newest.
LEMMA NewestRunKept ==
  ASSUME NEW S, NEW f \in Seq(S), NEW h \in Seq(S), NEW w \in S,
         IsSuffix(f, h), Len(f) = Len(h) \/ Len(f) = KeptRuns
  PROVE  /\ NewestRun(Append(f, w)) \in Seq(S) /\ Append(h, w) \in Seq(S)
         /\ IsSuffix(NewestRun(Append(f, w)), Append(h, w))
         /\ \/ Len(NewestRun(Append(f, w))) = Len(Append(h, w))
            \/ Len(NewestRun(Append(f, w))) = KeptRuns
<1> DEFINE a == Append(f, w)
           k == Append(h, w)
           g == NewestRun(a)
<1>0. KeptRuns \in Nat \ {0}
  BY BenchmarkAssumption
<1>1. /\ a \in Seq(S) /\ Len(a) = Len(f) + 1 /\ a[Len(f) + 1] = w
      /\ \A i \in 1..Len(f) : a[i] = f[i]
  OBVIOUS
<1>2. /\ k \in Seq(S) /\ Len(k) = Len(h) + 1 /\ k[Len(h) + 1] = w
      /\ \A i \in 1..Len(h) : k[i] = h[i]
  OBVIOUS
<1>3. /\ Len(f) <= Len(h)
      /\ \A i \in 1..Len(f) : f[i] = h[Len(h) - Len(f) + i]
  BY SuffixMeans
<1>4. \A i \in 1..Len(a) : a[i] = k[Len(k) - Len(a) + i]
  <2>1. TAKE i \in 1..Len(a)
  <2>2. CASE i = Len(f) + 1
    BY <1>1, <1>2, <1>3, <2>2
  <2>3. CASE i \in 1..Len(f)
    BY <1>1, <1>2, <1>3, <2>3
  <2>4. i = Len(f) + 1 \/ i \in 1..Len(f)
    BY <1>1
  <2>5. QED
    BY <2>2, <2>3, <2>4
<1>5. CASE Len(a) > KeptRuns
  <2> DEFINE d == Len(a) - KeptRuns
  <2>0. d \in Nat /\ (d + 1) = (Len(a) - KeptRuns) + 1
    BY <1>0, <1>1, <1>5
  <2>1. g = SubSeq(a, d + 1, Len(a))
    BY <1>5 DEF NewestRun
  <2>2. g \in Seq(S) /\ Len(g) = KeptRuns /\ \A i \in 1..KeptRuns : g[i] = a[d + i]
    <3>1. KeptRuns \in Nat /\ a \in Seq(S) /\ Len(a) > KeptRuns
      BY <1>0, <1>1, <1>5
    <3>2. /\ SubSeq(a, Len(a) - KeptRuns + 1, Len(a)) \in Seq(S)
          /\ Len(SubSeq(a, Len(a) - KeptRuns + 1, Len(a))) = KeptRuns
          /\ \A i \in 1..KeptRuns :
               SubSeq(a, Len(a) - KeptRuns + 1, Len(a))[i] = a[Len(a) - KeptRuns + i]
      BY <3>1, LastOf
    <3>3. QED
      BY <2>1, <3>2
  <2>3. Len(g) <= Len(k) /\ \A i \in 1..Len(g) : g[i] = k[Len(k) - Len(g) + i]
    <3>1. KeptRuns <= Len(k)
      BY <1>0, <1>1, <1>2, <1>3, <1>5
    <3>2. ASSUME NEW i \in 1..KeptRuns PROVE a[d + i] = k[Len(k) - KeptRuns + i]
      <4>1. d + i \in 1..Len(a) /\ Len(k) - Len(a) + (d + i) = Len(k) - KeptRuns + i
        BY <1>0, <1>1, <1>2, <1>5
      <4>2. QED
        BY <1>4, <4>1
    <3>3. QED
      BY <2>2, <3>1, <3>2
  <2>4. QED
    BY <1>2, <2>2, <2>3, SuffixMeans
<1>6. CASE ~(Len(a) > KeptRuns)
  <2>1. g = a
    BY <1>1, <1>6 DEF NewestRun
  <2>2. Len(a) <= Len(k)
    BY <1>1, <1>2, <1>3
  <2>3. IsSuffix(a, k)
    BY <1>1, <1>2, <1>4, <2>2, SuffixMeans
  <2>4. Len(f) = KeptRuns => FALSE
    BY <1>0, <1>1, <1>6
  <2>5. QED
    BY <1>1, <1>2, <2>1, <2>3, <2>4
<1>7. QED
  BY <1>5, <1>6

\* What a writer leaves, whether its replacement of the file fails or not.
LEMMA WrittenRun ==
  ASSUME BenchmarkTypes, StoreConsistent, storeLock # NoSuite, NEW w \in Writers,
         \/ UNCHANGED <<file, history>>
         \/ file' = NewestRun(Append(copy, w)) /\ history' = Append(history, w)
  PROVE  /\ file' \in Seq(Writers) /\ history' \in Seq(Writers)
         /\ IsSuffix(file', history') /\ (Len(file') = Len(history') \/ Len(file') = KeptRuns)
<1>1. /\ copy = file /\ file \in Seq(Writers) /\ history \in Seq(Writers)
      /\ IsSuffix(file, history) /\ (Len(file) = Len(history) \/ Len(file) = KeptRuns)
  BY DEF BenchmarkTypes, StoreConsistent
<1>2. CASE UNCHANGED <<file, history>>
  BY <1>1, <1>2
<1>3. CASE file' = NewestRun(Append(file, w)) /\ history' = Append(history, w)
  BY <1>1, <1>3, NewestRunKept
<1>4. QED
  BY <1>1, <1>2, <1>3

LEMMA EmptySuffix ==
  ASSUME NEW S, NEW f \in Seq(S), NEW h \in Seq(S), Len(f) = 0
  PROVE  IsSuffix(f, h)
<1>1. Len(f) <= Len(h) /\ 1..Len(f) = {}
  OBVIOUS
<1>2. QED
  BY <1>1, SuffixMeans

LEMMA BenchmarkInitIInv == BenchmarkInit => BenchmarkIInv
<1> SUFFICES ASSUME BenchmarkInit PROVE BenchmarkIInv
  OBVIOUS
<1> USE DEF BenchmarkInit
<1>1. BenchmarkTypes
  BY DEF BenchmarkTypes, SuitePlaces
<1>2. RowsCounted /\ OneSuiteMeasures /\ CancellationKept
  BY BenchmarkAssumption DEF RowsCounted, OneSuiteMeasures, CancellationKept, Held, Measuring, Stopping
<1>3. EngineInUse
  BY DEF EngineInUse, Using, Stopping
<1>4. Untouched /\ EngineOutlivesWorker /\ EngineHasAnOwner
  BY DEF Untouched, EngineOutlivesWorker, EngineHasAnOwner
<1>5. StoreConsistent
  <2>1. IsSuffix(file, history)
    <3>1. file \in Seq(Writers) /\ history \in Seq(Writers) /\ Len(file) = 0
      OBVIOUS
    <3>2. QED
      BY <3>1, EmptySuffix
  <2>2. QED
    BY <2>1, BenchmarkAssumption DEF StoreConsistent
<1>6. QED
  BY <1>1, <1>2, <1>3, <1>4, <1>5 DEF BenchmarkIInv


\* How a step of suite s, which leaves it at p, keeps the parts of the invariant.
LEMMA StoreKept ==
  ASSUME BenchmarkTypes, StoreConsistent, UNCHANGED <<storeLock, copy, file, history>>,
         NEW s \in Suites, NEW p, at' = [at EXCEPT ![s] = p], at[s] # "writing", p # "writing"
  PROVE  StoreConsistent'
BY DEF BenchmarkTypes, StoreConsistent

LEMMA OneSuiteKept ==
  ASSUME BenchmarkTypes, OneSuiteMeasures, NEW s \in Suites, NEW p, at' = [at EXCEPT ![s] = p],
         \/ holder' = holder /\ (p \in Held => at[s] \in Held)
         \/ holder = NoSuite /\ holder' = s
         \/ holder' = NoSuite /\ at[s] \in Held /\ p \notin Held
  PROVE  OneSuiteMeasures'
BY BenchmarkAssumption DEF BenchmarkTypes, OneSuiteMeasures, Held

LEMMA RowsKept ==
  ASSUME BenchmarkTypes, RowsCounted, NEW s \in Suites, NEW p, at' = [at EXCEPT ![s] = p],
         \A r \in Suites \ {s} : results'[r] = results[r],
         Len(results'[s]) <= Rows,
         p \in Held \ {"choosing"} => Len(results'[s]) < Rows,
         p \in {"storing", "writing", "stored"} => Len(results'[s]) = Rows
  PROVE  RowsCounted'
BY DEF BenchmarkTypes, RowsCounted

LEMMA CancellationsKept ==
  ASSUME BenchmarkTypes, CancellationKept, NEW s \in Suites, NEW p, at' = [at EXCEPT ![s] = p],
         \A r \in Suites \ {s} : cancelled'[r] = cancelled[r],
         cancelled'[s] => p \in {"closing", "cancelled"} \cup Stopping
  PROVE  CancellationKept'
BY DEF BenchmarkTypes, CancellationKept

EngineParts == EngineInUse /\ Untouched /\ EngineOutlivesWorker /\ EngineHasAnOwner

LEMMA EnginesAre ==
  ASSUME BenchmarkTypes
  PROVE  /\ \A r \in Suites : Len(results[r]) \in Nat /\ Engine(r) = <<r, Len(results[r]) + 1>>
         /\ \A r \in Suites : Len(results[r]) < Rows => Engine(r) \in Engines
         /\ \A e \in Engines : e[1] \in Suites /\ e[2] \in 1..Rows /\ e = <<e[1], e[2]>>
<1>1. Rows \in Nat
  BY BenchmarkAssumption
<1>2. \A r \in Suites : results[r] \in Seq({"measured", "failed"})
  BY DEF BenchmarkTypes
<1>3. QED
  BY <1>1, <1>2 DEF Engine, Row, Engines

LEMMA UsedEngine ==
  ASSUME BenchmarkTypes, RowsCounted, NEW r \in Suites, at[r] \in Using \cup {"closing"}
  PROVE  Len(results[r]) < Rows /\ Engine(r) \in Engines
<1>1. at[r] \in Held \ {"choosing"}
  BY DEF Held, Using, Measuring, Stopping
<1>2. QED
  BY <1>1, EnginesAre DEF RowsCounted

\* A step without a temporary engine.
LEMMA NoEngineMoves ==
  ASSUME BenchmarkTypes, EngineParts, NEW s \in Suites, NEW p, at' = [at EXCEPT ![s] = p],
         UNCHANGED <<life, native, replaced, results>>,
         at[s] \notin Using \cup {"closing"} \cup Over, p \notin Using \cup {"closing"}
  PROVE  EngineParts'
<1>1. \A r \in Suites : Engine(r)' = Engine(r) /\ at'[r] = IF r = s THEN p ELSE at[r]
  BY DEF BenchmarkTypes, Engine, Row
<1>2. \A e \in Engines : e[1] \in Suites
  BY EnginesAre
<1>3. EngineInUse'
  BY <1>1 DEF EngineParts, EngineInUse, Using
<1>4. Untouched'
  BY <1>1, <1>2 DEF EngineParts, Untouched
<1>5. EngineOutlivesWorker' /\ EngineHasAnOwner'
  BY <1>1, <1>2 DEF EngineParts, EngineOutlivesWorker, EngineHasAnOwner, Using
<1>6. QED
  BY <1>3, <1>4, <1>5 DEF EngineParts

\* A step with the engine of the present combination.
LEMMA EngineMoves ==
  ASSUME BenchmarkTypes, RowsCounted, EngineParts, NEW s \in Suites, NEW p,
         at' = [at EXCEPT ![s] = p], results' = results, at[s] \notin Over,
         p \in Using \cup {"closing"} \cup Over,
         \A e \in Engines \ {Engine(s)} : life'[e] = life[e] /\ native'[e] = native[e],
         replaced \subseteq replaced', replaced' \subseteq replaced \cup {Engine(s)},
         Len(results[s]) < Rows,
         p \in Using => life'[Engine(s)] = "open" /\ Engine(s) \notin replaced',
         p \in {"prompting", "counting"} => native'[Engine(s)] # "running",
         p = "closing" =>
           \/ Engine(s) \in replaced'
           \/ life'[Engine(s)] = "open" /\ native'[Engine(s)] # "running",
         life'[Engine(s)] = "closed" => native'[Engine(s)] # "running",
         life'[Engine(s)] = "open" => Engine(s) \in replaced' \/ p \in Using \cup {"closing"}
  PROVE  EngineParts'
<1>1. \A r \in Suites : Engine(r)' = Engine(r) /\ at'[r] = IF r = s THEN p ELSE at[r]
  BY DEF BenchmarkTypes, Engine, Row
<1>2. /\ \A e \in Engines : e[1] \in Suites
      /\ \A r \in Suites : Engine(r)[1] = r
      /\ Engine(s) \in Engines
  BY EnginesAre
<1>3. \A r \in Suites \ {s} : Engine(r) # Engine(s) /\ Engine(s)[1] # r
  BY <1>2
<1>4. EngineInUse'
  <2>1. ASSUME NEW r \in Suites \ {s}, at[r] \in Using \cup {"closing"}
        PROVE  Engine(r) \in Engines \ {Engine(s)}
    BY <1>3, <2>1, UsedEngine
  <2>2. QED
    BY <1>1, <2>1 DEF EngineParts, EngineInUse, Using
<1>5. Untouched'
  <2>1. SUFFICES ASSUME NEW e \in Engines, at'[e[1]] \notin Over, e[2] > Len(results[e[1]]),
                        ~(e = Engine(e[1]) /\ at'[e[1]] \in Using \cup {"closing"})
                 PROVE  life'[e] = "none" /\ native'[e] = "none" /\ e \notin replaced'
    BY <1>1, <1>2 DEF Untouched
  <2>2. e # Engine(s)
    BY <1>1, <1>2, <2>1
  <2>3. at[e[1]] \notin Over /\ ~(e = Engine(e[1]) /\ at[e[1]] \in Using \cup {"closing"})
    BY <1>1, <1>2, <2>1, <2>2
  <2>4. QED
    BY <2>1, <2>2, <2>3 DEF EngineParts, Untouched
<1>6. EngineOutlivesWorker'
  BY <1>2 DEF EngineParts, EngineOutlivesWorker
<1>7. EngineHasAnOwner'
  <2>1. SUFFICES ASSUME NEW e \in Engines, life'[e] = "open", e \notin replaced'
                 PROVE  e = Engine(e[1]) /\ at'[e[1]] \in Using \cup {"closing"}
    BY <1>1, <1>2 DEF EngineHasAnOwner, Using
  <2>2. CASE e = Engine(s)
    BY <1>1, <1>2, <2>1, <2>2
  <2>3. CASE e # Engine(s)
    <3>1. e = Engine(e[1]) /\ at[e[1]] \in Using \cup {"closing"}
      BY <2>1, <2>3 DEF EngineParts, EngineHasAnOwner, Using
    <3>2. e[1] # s
      BY <2>3, <3>1
    <3>3. QED
      BY <1>1, <1>2, <3>1, <3>2
  <2>4. QED
    BY <2>2, <2>3
<1>8. QED
  BY <1>4, <1>5, <1>6, <1>7 DEF EngineParts

\* A combination is over: whatever engine it had is closed, or left to its daemon thread.
LEMMA RowEnds ==
  ASSUME BenchmarkTypes, RowsCounted, EngineParts, NEW s \in Suites, NEW v \in {"measured", "failed"},
         at' = [at EXCEPT ![s] = "choosing"], at[s] \in Held,
         results' = [results EXCEPT ![s] = Append(@, v)],
         UNCHANGED <<native, replaced>>,
         \A e \in Engines : e # Engine(s) => life'[e] = life[e],
         at[s] \in Using \cup {"closing"} =>
           \/ Engine(s) \in replaced /\ life' = life
           \/ life'[Engine(s)] = "closed" /\ native[Engine(s)] # "running",
         at[s] \notin Using \cup {"closing"} => life' = life
  PROVE  EngineParts'
<1>1. \A r \in Suites \ {s} : Engine(r)' = Engine(r) /\ at'[r] = at[r] /\ results'[r] = results[r]
  BY DEF BenchmarkTypes, Engine, Row
<1>2. at'[s] = "choosing" /\ Len(results'[s]) = Len(results[s]) + 1 /\ Len(results[s]) \in Nat
  BY DEF BenchmarkTypes
<1>3. /\ \A e \in Engines : e[1] \in Suites /\ e[2] \in 1..Rows /\ e = <<e[1], e[2]>>
      /\ \A r \in Suites : Engine(r)[1] = r /\ Engine(r)[2] = Len(results[r]) + 1
      /\ Engine(s) = <<s, Len(results[s]) + 1>> /\ Rows \in Nat
  BY EnginesAre, BenchmarkAssumption
<1>4. "choosing" \notin Using \cup {"closing"} \cup Over
  BY DEF Using, Stopping, Over
<1>5. EngineInUse'
  <2>1. ASSUME NEW r \in Suites \ {s}, at[r] \in Using \cup {"closing"}
        PROVE  Engine(r) \in Engines /\ Engine(r) # Engine(s)
    BY <1>3, <2>1, UsedEngine
  <2>2. QED
    BY <1>1, <1>2, <1>4, <2>1 DEF EngineParts, EngineInUse, Using
<1>6. Untouched'
  <2>1. SUFFICES ASSUME NEW e \in Engines, at'[e[1]] \notin Over, e[2] > Len(results'[e[1]]),
                        ~(e = Engine(e[1])' /\ at'[e[1]] \in Using \cup {"closing"})
                 PROVE  life'[e] = "none" /\ native[e] = "none" /\ e \notin replaced
    BY DEF Untouched
  <2>2. CASE e[1] = s
    <3>1. e # Engine(s) /\ e[2] > Len(results[s])
      BY <1>2, <1>3, <2>1, <2>2
    <3>2. at[s] \notin Over
      BY DEF Held, Measuring, Stopping, Over
    <3>3. QED
      BY <2>2, <3>1, <3>2 DEF EngineParts, Untouched
  <2>3. CASE e[1] # s
    BY <1>1, <1>3, <2>1, <2>3 DEF EngineParts, Untouched
  <2>4. QED
    BY <2>2, <2>3
<1>7. EngineOutlivesWorker'
  BY DEF EngineParts, EngineOutlivesWorker
<1>8. EngineHasAnOwner'
  <2>1. SUFFICES ASSUME NEW e \in Engines, life'[e] = "open", e \notin replaced
                 PROVE  e = Engine(e[1])' /\ at'[e[1]] \in {"prompting", "reading", "counting", "closing"} \cup Stopping
    BY DEF EngineHasAnOwner
  <2>2. life[e] = "open" /\ (e = Engine(s) => at[s] \notin Using \cup {"closing"})
    BY <2>1
  <2>3. e = Engine(e[1]) /\ at[e[1]] \in Using \cup {"closing"}
    BY <2>1, <2>2 DEF EngineParts, EngineHasAnOwner, Using
  <2>4. e[1] # s
    BY <2>2, <2>3
  <2>5. QED
    BY <1>1, <1>3, <2>3, <2>4 DEF Using
<1>9. QED
  BY <1>5, <1>6, <1>7, <1>8 DEF EngineParts

LEMMA AddedRow ==
  ASSUME BenchmarkTypes, NEW s \in Suites, NEW v \in {"measured", "failed"}, AddRow(s, v)
  PROVE  /\ results' \in [Suites -> Seq({"measured", "failed"})]
         /\ results' = [results EXCEPT ![s] = Append(@, v)]
         /\ Len(results'[s]) = Len(results[s]) + 1 /\ Len(results[s]) \in Nat
         /\ \A r \in Suites \ {s} : results'[r] = results[r]
BY DEF BenchmarkTypes, AddRow


\* The steps of a suite are of four kinds.  First, with neither an engine nor the store.
LEMMA QuietStep ==
  ASSUME BenchmarkIInv, NEW s \in Suites, NEW p \in SuitePlaces, at' = [at EXCEPT ![s] = p],
         UNCHANGED <<results, life, native, replaced, storeLock, file, copy, history>>,
         at[s] \notin Using \cup {"closing", "writing"} \cup Over,
         p \notin Using \cup {"closing", "writing"},
         \/ holder' = holder /\ (p \in Held => at[s] \in Held)
         \/ holder = NoSuite /\ holder' = s
         \/ holder' = NoSuite /\ at[s] \in Held /\ p \notin Held,
         p \in Held \ {"choosing"} => Len(results[s]) < Rows,
         p \in {"storing", "stored"} => Len(results[s]) = Rows,
         cancelled' \in [Suites -> BOOLEAN],
         \A r \in Suites \ {s} : cancelled'[r] = cancelled[r],
         cancelled'[s] => p = "cancelled"
  PROVE  BenchmarkIInv'
<1> USE DEF BenchmarkIInv
<1>1. BenchmarkTypes'
  BY DEF BenchmarkTypes
<1>2. RowsCounted'
  <2>1. Len(results[s]) <= Rows
    BY DEF RowsCounted
  <2>2. QED
    BY <2>1, RowsKept
<1>3. OneSuiteMeasures' /\ CancellationKept'
  BY OneSuiteKept, CancellationsKept
<1>4. EngineParts'
  <2>1. EngineParts
    BY DEF EngineParts
  <2>2. QED
    BY <2>1, NoEngineMoves
<1>5. StoreConsistent'
  BY StoreKept
<1>6. QED
  BY <1>1, <1>2, <1>3, <1>4, <1>5 DEF EngineParts

\* Second, with the engine of the present combination.
LEMMA EngineStep ==
  ASSUME BenchmarkIInv, NEW s \in Suites, NEW p \in SuitePlaces, at' = [at EXCEPT ![s] = p],
         UNCHANGED <<results, storeLock, file, copy, history>>,
         at[s] \in Using \cup {"building", "closing"}, p \in Using \cup {"closing", "cancelled"},
         IF p = "cancelled" THEN holder' = NoSuite ELSE holder' = holder,
         cancelled' \in [Suites -> BOOLEAN],
         \A r \in Suites \ {s} : cancelled'[r] = cancelled[r],
         cancelled'[s] => p \in {"closing", "cancelled"} \cup Stopping,
         life' \in [Engines -> {"none", "open", "closed"}],
         native' \in [Engines -> {"none", "running", "exited"}],
         \A e \in Engines \ {Engine(s)} : life'[e] = life[e] /\ native'[e] = native[e],
         replaced \subseteq replaced', replaced' \subseteq replaced \cup {Engine(s)},
         p \in Using => life'[Engine(s)] = "open" /\ Engine(s) \notin replaced',
         p \in {"prompting", "counting"} => native'[Engine(s)] # "running",
         p = "closing" =>
           \/ Engine(s) \in replaced'
           \/ life'[Engine(s)] = "open" /\ native'[Engine(s)] # "running",
         life'[Engine(s)] = "closed" => native'[Engine(s)] # "running",
         life'[Engine(s)] = "open" => Engine(s) \in replaced' \/ p # "cancelled"
  PROVE  BenchmarkIInv'
<1> USE DEF BenchmarkIInv
<1>1. /\ at[s] \in Held \ {"choosing"} /\ at[s] \notin Over /\ at[s] # "writing"
      /\ p # "writing" /\ p \notin {"storing", "writing", "stored"}
      /\ p \in Using \cup {"closing"} \cup Over /\ (p = "cancelled" <=> p \notin Held)
      /\ (p # "cancelled" <=> p \in Using \cup {"closing"})
  BY DEF Using, Held, Measuring, Stopping, Over
<1>2. Len(results[s]) < Rows /\ Len(results[s]) <= Rows
  BY <1>1 DEF RowsCounted
<1>3. BenchmarkTypes'
  <2>1. Engine(s) \in Engines
    BY <1>2, EnginesAre
  <2>2. QED
    BY <2>1 DEF BenchmarkTypes
<1>4. RowsCounted'
  BY <1>1, <1>2, RowsKept
<1>5. OneSuiteMeasures' /\ CancellationKept'
  BY <1>1, OneSuiteKept, CancellationsKept
<1>6. EngineParts'
  <2>1. EngineParts
    BY DEF EngineParts
  <2>2. QED
    BY <1>1, <1>2, <2>1, EngineMoves
<1>7. StoreConsistent'
  BY <1>1, StoreKept
<1>8. QED
  BY <1>3, <1>4, <1>5, <1>6, <1>7 DEF EngineParts

\* Third, to the next combination.
LEMMA RowStep ==
  ASSUME BenchmarkIInv, NEW s \in Suites, NEW v \in {"measured", "failed"}, AddRow(s, v),
         at' = [at EXCEPT ![s] = "choosing"], at[s] \in Held, Len(results[s]) < Rows,
         UNCHANGED <<holder, cancelled, native, replaced, storeLock, file, copy, history>>,
         life' \in [Engines -> {"none", "open", "closed"}],
         \A e \in Engines : e # Engine(s) => life'[e] = life[e],
         at[s] \in Using \cup {"closing"} =>
           \/ Engine(s) \in replaced /\ life' = life
           \/ life'[Engine(s)] = "closed" /\ native[Engine(s)] # "running",
         at[s] \notin Using \cup {"closing"} => life' = life,
         ~cancelled[s]
  PROVE  BenchmarkIInv'
<1> USE DEF BenchmarkIInv
<1>1. /\ at[s] # "writing" /\ "choosing" \in SuitePlaces /\ "choosing" \in Held
      /\ "choosing" \notin {"storing", "writing", "stored"}
  BY DEF Held, Measuring, Stopping, SuitePlaces
<1>2. BenchmarkTypes'
  BY <1>1, AddedRow DEF BenchmarkTypes
<1>3. RowsCounted'
  <2>1. Len(results'[s]) <= Rows
    BY AddedRow, BenchmarkAssumption
  <2>2. QED
    BY <1>1, <2>1, AddedRow, RowsKept
<1>4. OneSuiteMeasures' /\ CancellationKept'
  BY <1>1, OneSuiteKept, CancellationsKept
<1>5. EngineParts'
  <2>1. EngineParts
    BY DEF EngineParts
  <2>2. QED
    BY <2>1, AddedRow, RowEnds
<1>6. StoreConsistent'
  BY <1>1, StoreKept
<1>7. QED
  BY <1>2, <1>3, <1>4, <1>5, <1>6 DEF EngineParts

\* Fourth, ReadStore and WriteStore.
LEMMA SuiteKeeps ==
  ASSUME BenchmarkIInv, NEW s \in Suites, RequestSuite(s) \/ CancelSuite(s) \/ SuiteStep(s)
  PROVE  BenchmarkIInv'
<1> USE DEF BenchmarkIInv
<1>0. /\ Rows \in Nat \ {0} /\ Len(results[s]) \in Nat /\ Len(results[s]) <= Rows
      /\ s # Automatic /\ s # NoSuite /\ s \in Writers
      /\ at = [at EXCEPT ![s] = at[s]] /\ at[s] \in SuitePlaces
      /\ at[s] \in Held \ {"choosing"} => Len(results[s]) < Rows
      /\ Len(results[s]) < Rows => Engine(s) \in Engines
      /\ cancelled[s] => at[s] \in {"closing", "cancelled"} \cup Stopping
      /\ cancelled[s] \in BOOLEAN /\ cancelled \in [Suites -> BOOLEAN]
      /\ life \in [Engines -> {"none", "open", "closed"}]
      /\ native \in [Engines -> {"none", "running", "exited"}]
  BY BenchmarkAssumption, EnginesAre DEF BenchmarkTypes, RowsCounted, Writers, CancellationKept
<1> DEFINE e == Engine(s)
<1>b. /\ at[s] \in Using => life[e] = "open" /\ e \notin replaced
      /\ at[s] \in {"prompting", "counting"} => native[e] # "running"
      /\ at[s] = "closing" => e \in replaced \/ (life[e] = "open" /\ native[e] # "running")
      /\ at[s] = "building" => life[e] = "none" /\ native[e] = "none" /\ e \notin replaced /\ e \in Engines
      /\ at[s] \in Using \cup {"closing"} => e \in Engines
      /\ e \in Engines => (life[e] = "closed" => native[e] # "running")
  <2>1. at[s] = "building" => e \in Engines /\ at[s] \notin Over \cup Using \cup {"closing"}
    BY <1>0 DEF Held, Using, Measuring, Stopping, Over
  <2>2. e[1] = s /\ e[2] > Len(results[s])
    BY <1>0, EnginesAre
  <2>3. at[s] \in Using \cup {"closing"} => e \in Engines
    BY UsedEngine
  <2>4. QED
    BY <2>1, <2>2, <2>3 DEF EngineInUse, Untouched, EngineOutlivesWorker
<1>1. CASE RequestSuite(s)
  BY <1>0, <1>1, QuietStep DEF RequestSuite, MoveTo, engineVars, storeVars, SuitePlaces, Held,
       Using, Measuring, Stopping, Over
<1>2. CASE EnterSuite(s)
  BY <1>0, <1>2, QuietStep DEF EnterSuite, MoveTo, engineVars, storeVars, SuitePlaces, Using,
       Stopping, Over
<1>3. CASE BorrowLoaded(s)
  BY <1>0, <1>3, QuietStep DEF BorrowLoaded, MoveTo, engineVars, storeVars, SuitePlaces, Held,
       Using, Measuring, Stopping, Over
<1>4. CASE StartBuild(s)
  BY <1>0, <1>4, QuietStep DEF StartBuild, MoveTo, engineVars, storeVars, SuitePlaces, Held, Using,
       Measuring, Stopping, Over
<1>5. CASE FinishSuite(s)
  BY <1>0, <1>5, QuietStep DEF FinishSuite, MoveTo, engineVars, storeVars, LeaveSuite, SuitePlaces,
       Held, Using, Measuring, Stopping, Over
<1>6. CASE CancelSuite(s)
  <2>0. /\ cancelled' \in [Suites -> BOOLEAN]
        /\ \A r \in Suites \ {s} : cancelled'[r] = cancelled[r]
        /\ UNCHANGED <<results, life, native, replaced, storeLock, file, copy, history>>
    BY <1>0, <1>6 DEF CancelSuite, engineVars, storeVars
  <2>1. CASE at[s] \in {"queued", "borrowing", "building"}
    BY <1>0, <1>6, <2>0, <2>1, QuietStep DEF CancelSuite, MoveTo, LeaveSuite, SuitePlaces, Held,
         Using, Measuring, Stopping, Over
  <2>2. CASE at[s] \in {"prompting", "counting"}
    BY <1>0, <1>b, <1>6, <2>0, <2>2, EngineStep DEF CancelSuite, MoveTo, SuitePlaces, Using
  <2>3. CASE at[s] = "reading"
    BY <1>0, <1>b, <1>6, <2>0, <2>3, EngineStep DEF CancelSuite, MoveTo, SuitePlaces, Using, Stopping
  <2>4. CASE at[s] \in Stopping
    <3>1. at' = at /\ holder' = holder
      BY <1>6, <2>4 DEF CancelSuite, Stopping
    <3>2. at[s] \in Using /\ at[s] \notin {"closing", "cancelled", "prompting", "counting"}
      BY <2>4 DEF Using, Stopping
    <3>3. at' = [at EXCEPT ![s] = at[s]]
      BY <1>0, <3>1
    <3>4. life[e] # "closed"
      BY <1>b, <3>2
    <3>5. QED
      BY <1>0, <1>b, <2>0, <2>4, <3>1, <3>2, <3>3, <3>4, EngineStep
  <2>5. QED
    BY <1>6, <2>1, <2>2, <2>3, <2>4 DEF CancelSuite
<1>7. CASE RejectRow(s)
  BY <1>0, <1>7, RowStep DEF RejectRow, engineVars, storeVars, MoveTo, Held, Using, Stopping
<1>8. CASE MeasureLoaded(s)
  <2>1. PICK v \in {"measured", "failed"} : AddRow(s, v)
    BY <1>8 DEF MeasureLoaded
  <2>2. QED
    BY <1>0, <1>8, <2>1, RowStep DEF MeasureLoaded, engineVars, storeVars, MoveTo, Held, Using,
         Measuring, Stopping
<1>9. CASE EndBuild(s)
  <2>1. CASE AddRow(s, "failed") /\ MoveTo(s, "choosing") /\ UNCHANGED <<life, fixed>>
    BY <1>0, <1>9, <2>1, RowStep DEF EndBuild, storeVars, MoveTo, Held, Using, Measuring, Stopping
  <2>2. CASE life' = [life EXCEPT ![e] = "open"] /\ MoveTo(s, "prompting") /\ UNCHANGED <<results, streamed>>
    BY <1>0, <1>b, <1>9, <2>2, EngineStep DEF EndBuild, storeVars, MoveTo, SuitePlaces, Using, Measuring
  <2>3. QED
    BY <1>9, <2>1, <2>2 DEF EndBuild
<1>10. CASE StartStream(s)
  <2>1. CASE native' = [native EXCEPT ![e] = "running"] /\ MoveTo(s, "reading")
    BY <1>0, <1>b, <1>10, <2>1, EngineStep DEF StartStream, storeVars, MoveTo, SuitePlaces, Using,
         Measuring, Stopping
  <2>2. CASE MoveTo(s, "closing") /\ UNCHANGED native
    BY <1>0, <1>b, <1>10, <2>2, EngineStep DEF StartStream, storeVars, MoveTo, SuitePlaces, Using
  <2>3. QED
    BY <1>10, <2>1, <2>2 DEF StartStream
<1>11. CASE EndReading(s)
  BY <1>0, <1>b, <1>11, EngineStep DEF EndReading, MoveTo, engineVars, storeVars, SuitePlaces,
       Using, Stopping
<1>12. CASE WorkerClosed(s)
  <2>1. CASE MoveTo(s, "closing")
    BY <1>0, <1>b, <1>12, <2>1, EngineStep DEF WorkerClosed, engineVars, storeVars, MoveTo,
         SuitePlaces, Using
  <2>2. CASE ~cancelled[s] /\ MoveTo(s, "counting")
    BY <1>0, <1>b, <1>12, <2>2, EngineStep DEF WorkerClosed, engineVars, storeVars, MoveTo,
         SuitePlaces, Using, Measuring
  <2>3. QED
    BY <1>12, <2>1, <2>2 DEF WorkerClosed, AfterStop
<1>13. CASE StopTimesOut(s)
  <2>1. CASE MoveTo(s, "outwaiting") /\ UNCHANGED replaced
    BY <1>0, <1>b, <1>13, <2>1, EngineStep DEF StopTimesOut, storeVars, MoveTo, SuitePlaces, Using,
         Stopping
  <2>2. CASE replaced' = replaced \cup {e} /\ MoveTo(s, "closing")
    BY <1>0, <1>b, <1>13, <2>2, EngineStep DEF StopTimesOut, storeVars, MoveTo, SuitePlaces, Using,
         Stopping
  <2>3. QED
    BY <1>13, <2>1, <2>2 DEF StopTimesOut, AfterStop
<1>14. CASE CloseEngine(s)
  <2>1. /\ at[s] \in {"closing", "counting"}
        /\ life' \in [Engines -> {"none", "open", "closed"}]
        /\ \A x \in Engines : x # e => life'[x] = life[x]
        /\ \/ e \in replaced /\ life' = life
           \/ life'[e] = "closed" /\ native[e] # "running"
    BY <1>0, <1>b, <1>14 DEF CloseEngine, Using
  <2>2. CASE cancelled[s]
    BY <1>0, <1>b, <1>14, <2>1, <2>2, EngineStep DEF CloseEngine, LeaveSuite, storeVars, MoveTo,
         SuitePlaces, Using, Measuring, Stopping, Over
  <2>3. CASE ~cancelled[s]
    <3>1. PICK v \in {"measured", "failed"} : AddRow(s, v)
      BY <1>14, <2>3 DEF CloseEngine
    <3>2. QED
      BY <1>0, <1>14, <2>1, <2>3, <3>1, RowStep DEF CloseEngine, storeVars, MoveTo, Held, Using,
           Measuring
  <2>4. QED
    BY <2>2, <2>3
<1>15. CASE ReadStore(s)
  <2>1. PICK p \in SuitePlaces :
          /\ at' = [at EXCEPT ![s] = p] /\ p \notin Held \cup Using \cup {"closing"}
          /\ at[s] \notin Using \cup {"closing"} \cup Over
          /\ UNCHANGED <<holder, results, cancelled, life, native, replaced>>
          /\ Len(results[s]) = Rows /\ ~cancelled[s] /\ (p = "writing" <=> storeLock' = s)
    BY <1>0, <1>15, BenchmarkAssumption DEF ReadStore, MoveTo, RowsCounted, StoreConsistent,
         engineVars, SuitePlaces, Held, Using, Measuring, Stopping, Over
  <2>2. BenchmarkTypes'
    BY <1>0, <1>15, <2>1 DEF ReadStore, BenchmarkTypes
  <2>3. RowsCounted' /\ OneSuiteMeasures' /\ CancellationKept'
    BY <1>0, <2>1, RowsKept, OneSuiteKept, CancellationsKept
  <2>4. EngineParts'
    <3>1. EngineParts
      BY DEF EngineParts
    <3>2. QED
      BY <2>1, <3>1, NoEngineMoves
  <2>5. StoreConsistent'
    BY <1>0, <1>15, BenchmarkAssumption DEF ReadStore, StoreFree, MoveTo, BenchmarkTypes,
         StoreConsistent
  <2>6. QED
    BY <2>2, <2>3, <2>4, <2>5 DEF EngineParts
<1>16. CASE WriteStore(s)
  <2>1. PICK p \in SuitePlaces :
          /\ at' = [at EXCEPT ![s] = p] /\ p \notin Held \cup Using \cup {"closing"}
          /\ at[s] \notin Using \cup {"closing"} \cup Over
          /\ UNCHANGED <<holder, results, cancelled, life, native, replaced>>
          /\ Len(results[s]) = Rows /\ ~cancelled[s] /\ (p = "writing" <=> storeLock' = s)
    BY <1>0, <1>16, BenchmarkAssumption DEF WriteStore, MoveTo, RowsCounted, StoreConsistent,
         engineVars, SuitePlaces, Held, Using, Measuring, Stopping, Over
  <2>2. BenchmarkTypes'
    <3>1. file' \in Seq(Writers) /\ history' \in Seq(Writers) /\ copy' = <<>>
      BY <1>0, <1>16, WrittenRun DEF WriteStore
    <3>2. QED
      BY <2>1, <3>1 DEF BenchmarkTypes
  <2>3. RowsCounted' /\ OneSuiteMeasures' /\ CancellationKept'
    BY <1>0, <2>1, RowsKept, OneSuiteKept, CancellationsKept
  <2>4. EngineParts'
    <3>1. EngineParts
      BY DEF EngineParts
    <3>2. QED
      BY <2>1, <3>1, NoEngineMoves
  <2>5. StoreConsistent'
    <3>1. /\ at[s] = "writing" /\ copy = file /\ storeLock' = NoSuite
          /\ \/ UNCHANGED <<file, history>>
             \/ file' = NewestRun(Append(copy, s)) /\ history' = Append(history, s)
      BY <1>0, <1>16 DEF WriteStore, StoreConsistent
    <3>2. IsSuffix(file', history') /\ (Len(file') = Len(history') \/ Len(file') = KeptRuns)
      BY <1>0, <1>16, <3>1, WrittenRun DEF WriteStore
    <3>3. \A r \in Suites : storeLock' # r /\ at'[r] # "writing"
      BY <1>0, <1>16, <2>1, <3>1, BenchmarkAssumption DEF BenchmarkTypes, StoreConsistent
    <3>4. QED
      BY <3>1, <3>2, <3>3 DEF StoreConsistent
  <2>6. QED
    BY <2>2, <2>3, <2>4, <2>5 DEF EngineParts
<1>17. QED
  BY <1>1, <1>2, <1>3, <1>4, <1>5, <1>6, <1>7, <1>8, <1>9, <1>10, <1>11, <1>12, <1>13, <1>14,
       <1>15, <1>16 DEF SuiteStep

LEMMA BenchmarkStepIInv == BenchmarkIInv /\ [BenchmarkNext]_benchmarkVars => BenchmarkIInv'
<1> SUFFICES ASSUME BenchmarkIInv, [BenchmarkNext]_benchmarkVars PROVE BenchmarkIInv'
  OBVIOUS
<1> USE DEF BenchmarkIInv
<1>1. ASSUME NEW s \in Suites, RequestSuite(s) \/ CancelSuite(s) \/ SuiteStep(s) PROVE BenchmarkIInv'
  BY <1>1, SuiteKeeps
<1>2. ASSUME NEW e \in Engines, WorkerExits(e) \/ DeferredClose(e) PROVE BenchmarkIInv'
  <2>1. BenchmarkTypes' /\ RowsCounted' /\ OneSuiteMeasures' /\ CancellationKept' /\ StoreConsistent'
    BY <1>2 DEF WorkerExits, DeferredClose, suiteVars, storeVars, BenchmarkTypes, RowsCounted,
         OneSuiteMeasures, CancellationKept, StoreConsistent
  <2>2. \A s \in Suites : Engine(s)' = Engine(s) /\ (at'[s] = at[s])
    BY <1>2 DEF WorkerExits, DeferredClose, suiteVars, Engine, Row
  <2>3. EngineInUse'
    <3>1. CASE WorkerExits(e)
      BY <2>2, <3>1 DEF WorkerExits, BenchmarkTypes, EngineInUse
    <3>2. CASE DeferredClose(e)
      <4>1. \A x \in Engines : x # e => life'[x] = life[x]
        BY <3>2 DEF DeferredClose, BenchmarkTypes
      <4>2. e \in replaced /\ native' = native /\ replaced' = replaced
        BY <3>2 DEF DeferredClose
      <4>3. \A s \in Suites : at[s] \in Using \cup {"closing"} => Engine(s) \in Engines
        BY UsedEngine
      <4>4. QED
        BY <2>2, <4>1, <4>2, <4>3 DEF EngineInUse, Using
    <3>3. QED
      BY <1>2, <3>1, <3>2
  <2>4. Untouched'
    BY <1>2, <2>2 DEF WorkerExits, DeferredClose, suiteVars, BenchmarkTypes, Untouched, Engines
  <2>5. EngineOutlivesWorker' /\ EngineHasAnOwner'
    BY <1>2, <2>2 DEF WorkerExits, DeferredClose, suiteVars, BenchmarkTypes, Untouched, Engines,
         EngineOutlivesWorker, EngineHasAnOwner
  <2>6. QED
    BY <2>1, <2>3, <2>4, <2>5
<1>3. ASSUME UNCHANGED <<at, holder, results, cancelled, engineVars>>, StoreConsistent',
             file' \in Seq(Writers), copy' \in Seq(Writers), history' \in Seq(Writers)
      PROVE  BenchmarkIInv'
  <2>1. BenchmarkTypes'
    BY <1>3 DEF engineVars, BenchmarkTypes
  <2>2. \A s \in Suites : Engine(s)' = Engine(s) /\ (at'[s] = at[s])
    BY <1>3 DEF Engine, Row
  <2>3. RowsCounted' /\ OneSuiteMeasures' /\ CancellationKept'
    BY <1>3 DEF RowsCounted, OneSuiteMeasures, CancellationKept
  <2>4. EngineInUse' /\ Untouched' /\ EngineOutlivesWorker' /\ EngineHasAnOwner'
    BY <1>3, <2>2 DEF engineVars, EngineInUse, Untouched, Engines, EngineOutlivesWorker,
         EngineHasAnOwner
  <2>5. QED
    BY <1>3, <2>1, <2>3, <2>4
<1>4. CASE ReadStore(Automatic)
  <2>1. StoreConsistent'
    BY <1>4, BenchmarkAssumption DEF ReadStore, StoreFree, StoreConsistent
  <2>2. QED
    BY <1>3, <1>4, <2>1 DEF ReadStore, BenchmarkTypes
<1>5. CASE WriteStore(Automatic)
  <2>1. Automatic \in Writers
    BY DEF Writers
  <2>2. /\ file' \in Seq(Writers) /\ history' \in Seq(Writers)
        /\ IsSuffix(file', history') /\ (Len(file') = Len(history') \/ Len(file') = KeptRuns)
    BY <1>5, <2>1, BenchmarkAssumption, WrittenRun DEF WriteStore
  <2>3. StoreConsistent' /\ copy' \in Seq(Writers)
    BY <1>5, <2>2, BenchmarkAssumption DEF WriteStore, StoreConsistent
  <2>4. QED
    BY <1>3, <1>5, <2>2, <2>3 DEF WriteStore
<1>6. CASE ClearStore
  <2>1. file' = <<>> /\ history' = <<>> /\ IsSuffix(<<>>, <<>>)
    <3>1. <<>> \in Seq(Writers) /\ Len(<<>>) = 0
      OBVIOUS
    <3>2. QED
      BY <1>6, <3>1, EmptySuffix DEF ClearStore
  <2>2. StoreConsistent'
    BY <1>6, <2>1 DEF ClearStore, suiteVars, StoreFree, StoreConsistent
  <2>3. QED
    BY <1>3, <1>6, <2>2 DEF ClearStore, suiteVars, BenchmarkTypes
<1>7. CASE UNCHANGED benchmarkVars
  BY <1>3, <1>7 DEF benchmarkVars, suiteVars, engineVars, storeVars, BenchmarkTypes, StoreConsistent
<1>8. QED
  BY <1>1, <1>2, <1>4, <1>5, <1>6, <1>7 DEF BenchmarkNext

LEMMA BenchmarkIInvHolds == BenchmarkSpec => []BenchmarkIInv
BY BenchmarkInitIInv, BenchmarkStepIInv, PTL DEF BenchmarkSpec

\* No temporary engine is closed under its native worker or left without an owner, suites
\* measure one at a time, a stored run has all its rows and the file holds the newest runs
\* of either writer (benchmark_runner_core.py, benchmark_runner.py:68, 161).
THEOREM BenchmarksAreSafe == BenchmarkSpec => []BenchmarkSafe
<1>1. BenchmarkIInv => BenchmarkSafe
  <2>1. RowsCounted => RunIsComplete
    BY DEF RowsCounted, RunIsComplete
  <2>2. StoreConsistent => StoreKeepsRuns
    BY DEF StoreConsistent, StoreKeepsRuns
  <2>3. QED
    BY <2>1, <2>2 DEF BenchmarkIInv, BenchmarkSafe
<1>2. QED
  BY <1>1, BenchmarkIInvHolds, PTL

\* A cancelled suite cleans up and starts nothing else: the cancellation that arrives while
\* the worker is waited for is kept (benchmark_runner.py:131).
THEOREM CancelledSuitesEnd == BenchmarkSpec => CancelledStartsNothing
<1>1. BenchmarkIInv /\ [BenchmarkNext]_benchmarkVars =>
        [\A s \in Suites : cancelled[s] => at'[s] \notin Measuring \cup {"choosing", "storing"}
                                           \/ at'[s] = at[s]]_benchmarkVars
  <2>1. SUFFICES ASSUME BenchmarkIInv, BenchmarkNext, NEW s \in Suites, cancelled[s]
                 PROVE  at'[s] \notin Measuring \cup {"choosing", "storing"} \/ at'[s] = at[s]
    OBVIOUS
  <2>2. at[s] \in {"closing", "cancelled"} \cup Stopping
    BY <2>1 DEF BenchmarkIInv, CancellationKept
  <2>3. cancelled'[s]
    <3>1. cancelled' = cancelled \/ \E r \in Suites : cancelled' = [cancelled EXCEPT ![r] = TRUE]
      BY <2>1 DEF BenchmarkNext, RequestSuite, CancelSuite, SuiteStep, EnterSuite, RejectRow,
           BorrowLoaded, MeasureLoaded, StartBuild, EndBuild, StartStream, EndReading,
           WorkerClosed, StopTimesOut, CloseEngine, FinishSuite, ReadStore, WriteStore,
           WorkerExits, DeferredClose, ClearStore, suiteVars
    <3>2. QED
      BY <2>1, <3>1 DEF BenchmarkIInv, BenchmarkTypes
  <2>4. BenchmarkIInv'
    BY <2>1, BenchmarkStepIInv
  <2>5. QED
    BY <2>3, <2>4 DEF BenchmarkIInv, CancellationKept, Measuring, Stopping
<1>2. QED
  BY <1>1, BenchmarkIInvHolds, PTL DEF BenchmarkSpec, CancelledStartsNothing

-----------------------------------------------------------------------------
(* The event log and the page that follows it.                               *)

\* What the holder of the lock is about to do.
Emitting == IF lock = NoEmitter THEN "idle" ELSE pc[lock]
\* Events of this process that reached the log, kept or not, and those it dropped.
Written == IF Emitting = "count" THEN seq + 1 ELSE seq
Dropped == Written - Len(log)

LogTyped ==
  /\ log \in Seq(Events) /\ Len(log) <= Keep
  /\ seq \in 0 .. MaxEvents
  /\ lock \in Emitters \cup {NoEmitter}
  /\ pc \in [Emitters -> {"idle", "append", "count", "number"}]
  /\ boot \in Nat \ {0}

LogHolds ==
  /\ \A e \in Emitters : pc[e] # "idle" <=> lock = e
  /\ Emitting \in {"append", "count"} => seq < MaxEvents
  /\ Emitting = "number" => seq > 0
  /\ Len(log) <= Written
  /\ Written > 0 => log # <<>>
  /\ \A i \in 1 .. Len(log) :
       /\ log[i].boot = boot
       /\ (i = Len(log) /\ Emitting \in {"count", "number"}) \/ log[i].id = Dropped + i

\* The last number before the page of an answer.
From == reply.next - Len(reply.data)
\* An answer carries a run of what the log held, after the cursor unless it starts over.
ReplyHolds ==
  /\ DOMAIN reply = DOMAIN NoReply /\ reply.boot \in 0 .. boot
  /\ request = "answered" =>
       /\ reply.boot > 0
       /\ reply.held \in Seq(Events) /\ Len(reply.held) <= Keep
       /\ reply.latest \in Len(reply.held) .. MaxEvents
       /\ reply.latest > 0 => reply.held # <<>>
       /\ \A i \in 1 .. Len(reply.held) :
            /\ reply.held[i].boot = reply.boot
            /\ reply.held[i].id = reply.latest - Len(reply.held) + i
       /\ reply.reset \in BOOLEAN
       /\ reply.data \in Seq(Events) /\ reply.next \in 0 .. reply.latest
       /\ reply.more <=> reply.next < reply.latest
       /\ From >= reply.latest - Len(reply.held)
       /\ \A i \in 1 .. Len(reply.data) : reply.data[i] = [boot |-> reply.boot, id |-> From + i]
       /\ reply.data = <<>> => From = reply.latest
       /\ IF reply.reset \/ cursor = 0 THEN From = reply.latest - Len(reply.held) ELSE From = cursor

ShownHolds ==
  /\ request \in {"none", "sent", "answered"}
  /\ origin \in 0 .. boot /\ losses \in 0 .. MaxLosses
  /\ cursor \in 0 .. MaxEvents
  /\ shown \in Seq(Events) /\ Len(shown) <= EventLimit /\ Len(shown) <= cursor
  /\ cursor > 0 => shown # <<>>
  /\ \A i \in 1 .. Len(shown) :
       shown[i].boot \in 1 .. boot /\ shown[i].id = cursor - Len(shown) + i

\* A page that shows one process alone shows it from the oldest kept event on, or is full.
ShowsOnly(b) == shown # <<>> /\ \A i \in 1 .. Len(shown) : shown[i].boot = b
ShownCovers ==
  /\ ShowsOnly(boot) => Len(shown) = EventLimit \/ cursor - Len(shown) <= Dropped
  /\ request = "answered" =>
       /\ ShowsOnly(reply.boot) =>
            Len(shown) = EventLimit \/ cursor - Len(shown) <= reply.latest - Len(reply.held)
       /\ reply.boot = boot => reply.latest - Len(reply.held) <= Dropped

EventsInv == LogTyped /\ LogHolds /\ ReplyHolds /\ ShownHolds /\ ShownCovers

LEMMA EventBounds ==
  /\ NoEmitter \notin Emitters /\ Keep \in Nat /\ Keep > 0
  /\ PageLimit \in Nat /\ PageLimit > 0 /\ EventLimit \in Nat /\ EventLimit >= Keep
  /\ MaxEvents \in Nat /\ MaxBoots \in Nat /\ MaxLosses \in Nat
BY EventLogAssumption, PollingAssumption

LEMMA NewestOf ==
  ASSUME NEW S, NEW s \in Seq(S), NEW n \in Nat, n > 0
  PROVE  /\ Newest(s, n) \in Seq(S)
         /\ Len(Newest(s, n)) = IF Len(s) <= n THEN Len(s) ELSE n
         /\ \A i \in 1 .. Len(Newest(s, n)) :
              /\ Len(s) - Len(Newest(s, n)) + i \in 1 .. Len(s)
              /\ Newest(s, n)[i] = s[Len(s) - Len(Newest(s, n)) + i]
<1>1. CASE Len(s) <= n
  BY <1>1 DEF Newest
<1>2. CASE Len(s) > n
  <2> DEFINE d == Len(s) - n
  <2>1. d \in Nat /\ d + 1 = Len(s) - n + 1
    BY <1>2
  <2>2. Newest(s, n) = SubSeq(s, d + 1, Len(s))
    BY <1>2, <2>1 DEF Newest
  <2> HIDE DEF d
  <2>3. Len(s) = d + n /\ Len(s) \in Nat
    BY <1>2 DEF d
  <2>6. d \in Nat /\ d + 1 \in 1 .. Len(s) + 1 /\ \A i \in 1 .. n : d + i \in 1 .. Len(s)
    BY <2>1, <2>3
  <2>7. /\ SubSeq(s, d + 1, Len(s)) \in Seq(S) /\ Len(SubSeq(s, d + 1, Len(s))) = n
        /\ \A i \in 1 .. n : SubSeq(s, d + 1, Len(s))[i] = s[d + i]
    <3>1. PICK m \in Int, l \in Int : m = d + 1 /\ l = Len(s)
      BY <2>3, <2>6
    <3>2. \A i \in m .. l : s[i] \in S
      <4>1. TAKE i \in m .. l
      <4>2. i \in 1 .. Len(s)
        BY <2>3, <2>6, <3>1
      <4>3. QED
        BY <4>2
    <3>3. /\ SubSeq(s, m, l) \in Seq(S)
          /\ Len(SubSeq(s, m, l)) = IF m <= l THEN l - m + 1 ELSE 0
          /\ \A i \in 1 .. l - m + 1 : SubSeq(s, m, l)[i] = s[m + i - 1]
      BY <3>2, SubSeqProperties
    <3>4. m <= l /\ l - m + 1 = n /\ \A i \in 1 .. n : m + i - 1 = d + i
      BY <2>3, <2>6, <3>1
    <3>5. QED
      BY ONLY <3>1, <3>3, <3>4
  <2>4. /\ Newest(s, n) \in Seq(S) /\ Len(Newest(s, n)) = n
        /\ \A i \in 1 .. n : d + i \in 1 .. Len(s) /\ Newest(s, n)[i] = s[d + i]
    BY <2>2, <2>6, <2>7
  <2>5. Len(s) - n = d
    BY <2>1, <2>3
  <2>8. QED
    BY <1>2, <2>4, <2>5
<1>3. QED
  BY <1>1, <1>2

LEMMA MergedInOrder ==
  ASSUME NEW old \in Seq(Events), NEW new \in Seq(Events), NEW c \in Int,
         \A i \in 1 .. Len(old) : old[i].id = c - Len(old) + i,
         \A i \in 1 .. Len(new) : new[i].id = c + i
  PROVE  /\ MergeById(old, new) \in Seq(Events)
         /\ Len(MergeById(old, new)) = Len(old) + Len(new)
         /\ \A i \in 1 .. Len(old) : MergeById(old, new)[i] = old[i]
         /\ \A i \in 1 .. Len(new) : MergeById(old, new)[Len(old) + i] = new[i]
<1> DEFINE a == c - Len(old)
           z == Len(old) + Len(new)
           numbers == {old[i].id : i \in DOMAIN old} \cup {new[i].id : i \in DOMAIN new}
           Latest(n) == IF \E i \in DOMAIN new : new[i].id = n
                        THEN new[CHOOSE i \in DOMAIN new : new[i].id = n]
                        ELSE old[CHOOSE i \in DOMAIN old : old[i].id = n]
           Ranked(i) == CHOOSE n \in numbers : Cardinality({m \in numbers : m < n}) = i - 1
<1>1. /\ Len(old) \in Nat /\ Len(new) \in Nat /\ a \in Int /\ z \in Nat
      /\ c = a + Len(old) /\ z = Len(old) + Len(new)
  OBVIOUS
<1> HIDE DEF a, z
<1>2. numbers = (a + 1) .. (a + z)
  <2>1. ASSUME NEW n \in numbers PROVE n \in (a + 1) .. (a + z)
    <3>1. CASE \E i \in DOMAIN old : n = old[i].id
      <4>4. DOMAIN old = 1 .. Len(old)
        OBVIOUS
      <4>1. PICK i \in 1 .. Len(old) : n = old[i].id
        BY <3>1, <4>4
      <4>2. n = a + i
        BY <1>1, <4>1
      <4>3. QED
        BY <1>1, <4>2
    <3>2. CASE \E i \in DOMAIN new : n = new[i].id
      <4>4. DOMAIN new = 1 .. Len(new)
        OBVIOUS
      <4>1. PICK i \in 1 .. Len(new) : n = new[i].id
        BY <3>2, <4>4
      <4>2. n = a + (Len(old) + i)
        BY <1>1, <4>1
      <4>3. QED
        BY <1>1, <4>2
    <3>3. QED
      BY <2>1, <3>1, <3>2
  <2>2. ASSUME NEW n \in (a + 1) .. (a + z) PROVE n \in numbers
    <3>1. CASE n <= c
      <4>1. n - a \in 1 .. Len(old) /\ c - Len(old) + (n - a) = n
        BY <1>1, <3>1
      <4>2. old[n - a].id = n
        BY <4>1
      <4>3. n - a \in DOMAIN old
        BY <4>1
      <4>4. QED
        BY <4>2, <4>3
    <3>2. CASE n > c
      <4>1. n - c \in 1 .. Len(new) /\ c + (n - c) = n
        BY <1>1, <3>2
      <4>2. new[n - c].id = n
        BY <4>1
      <4>3. n - c \in DOMAIN new
        BY <4>1
      <4>4. QED
        BY <4>2, <4>3
    <3>3. QED
      BY <1>1, <3>1, <3>2
  <2>3. QED
    BY <2>1, <2>2
<1> HIDE DEF numbers
<1>3. Cardinality(numbers) = z
  <2>1. a + 1 \in Int /\ a + z \in Int
    BY <1>1
  <2>2. Cardinality((a + 1) .. (a + z)) = IF a + 1 > a + z THEN 0 ELSE (a + z) - (a + 1) + 1
    BY <2>1, FS_Interval
  <2>3. QED
    BY <1>1, <1>2, <2>2
<1>4. \A n \in numbers : n \in Int /\ Cardinality({m \in numbers : m < n}) = n - a - 1
  <2>1. TAKE n \in numbers
  <2>2. n \in Int /\ n >= a + 1 /\ n <= a + z
    BY <1>1, <1>2
  <2>3. {m \in numbers : m < n} = (a + 1) .. (n - 1)
    BY <1>1, <1>2, <2>2
  <2>4. a + 1 \in Int /\ n - 1 \in Int
    BY <1>1, <2>2
  <2>5. Cardinality((a + 1) .. (n - 1)) = IF a + 1 > n - 1 THEN 0 ELSE (n - 1) - (a + 1) + 1
    BY <2>4, FS_Interval
  <2>6. (IF a + 1 > n - 1 THEN 0 ELSE (n - 1) - (a + 1) + 1) = n - a - 1
    BY <1>1, <2>2
  <2>7. QED
    BY <2>2, <2>3, <2>5, <2>6
<1>5. \A i \in 1 .. z : Ranked(i) = a + i
  <2>1. TAKE i \in 1 .. z
  <2>2. a + i \in numbers /\ (a + i) - a - 1 = i - 1
    BY <1>1, <1>2
  <2>3. Cardinality({m \in numbers : m < a + i}) = i - 1
    BY <1>4, <2>2
  <2>4. Ranked(i) \in numbers /\ Cardinality({m \in numbers : m < Ranked(i)}) = i - 1
    BY <2>2, <2>3
  <2> HIDE DEF Ranked
  <2>5. PICK r \in Int : r = Ranked(i) /\ r - a - 1 = i - 1
    BY <1>4, <2>4
  <2>6. i \in Int
    BY <1>1
  <2>7. r - a - 1 = i - 1 /\ a \in Int
    BY <1>1, <2>5
  <2>8. r = a + i
    BY <2>6, <2>7
  <2>9. QED
    BY <2>5, <2>8
<1>6. MergeById(old, new) = [i \in 1 .. z |-> Latest(Ranked(i))]
  BY <1>3 DEF MergeById, numbers
<1> HIDE DEF Ranked
<1>7. \A i \in 1 .. Len(old) : Latest(a + i) = old[i]
  <2>1. TAKE i \in 1 .. Len(old)
  <2>2. ~ \E j \in DOMAIN new : new[j].id = a + i
    <3>1. SUFFICES ASSUME NEW j \in 1 .. Len(new), new[j].id = a + i PROVE FALSE
      OBVIOUS
    <3>2. c + j = a + i
      BY <3>1
    <3>3. QED
      BY <1>1, <3>2
  <2>3. \A j \in DOMAIN old : old[j].id = a + i => j = i
    <3>1. SUFFICES ASSUME NEW j \in DOMAIN old, old[j].id = a + i PROVE j = i
      OBVIOUS
    <3>2. j \in 1 .. Len(old) /\ c - Len(old) + j = a + i
      BY <3>1
    <3>3. QED
      BY <1>1, <3>2
  <2>4. i \in DOMAIN old /\ old[i].id = a + i
    BY <1>1
  <2>5. (CHOOSE j \in DOMAIN old : old[j].id = a + i) = i
    BY <2>3, <2>4
  <2>6. QED
    BY <2>2, <2>5
<1>8. \A i \in 1 .. Len(new) : Latest(c + i) = new[i]
  <2>1. TAKE i \in 1 .. Len(new)
  <2>2. \A j \in DOMAIN new : new[j].id = c + i => j = i
    <3>1. SUFFICES ASSUME NEW j \in 1 .. Len(new), new[j].id = c + i PROVE j = i
      OBVIOUS
    <3>2. c + j = c + i
      BY <3>1
    <3>3. QED
      BY <3>2
  <2>3. i \in DOMAIN new /\ new[i].id = c + i
    OBVIOUS
  <2>4. (CHOOSE j \in DOMAIN new : new[j].id = c + i) = i
    BY <2>2, <2>3
  <2>5. QED
    BY <2>3, <2>4
<1> HIDE DEF Latest
<1>9. \A i \in 1 .. Len(old) : i \in 1 .. z /\ Latest(Ranked(i)) = old[i]
  BY <1>1, <1>5, <1>7
<1>10. \A i \in 1 .. Len(new) : Len(old) + i \in 1 .. z /\ Latest(Ranked(Len(old) + i)) = new[i]
  <2>1. TAKE i \in 1 .. Len(new)
  <2>2. Len(old) + i \in 1 .. z /\ a + (Len(old) + i) = c + i
    BY <1>1
  <2>3. QED
    BY <1>5, <1>8, <2>2
<1>11. \A i \in 1 .. z : Latest(Ranked(i)) \in Events
  <2>1. TAKE i \in 1 .. z
  <2>2. CASE i <= Len(old)
    BY <1>1, <1>9, <2>2
  <2>3. CASE i > Len(old)
    <3>0. i - Len(old) \in 1 .. Len(new) /\ i = Len(old) + (i - Len(old))
      BY <1>1, <2>3
    <3>1. PICK k \in 1 .. Len(new) : i = Len(old) + k
      BY <3>0
    <3>2. Latest(Ranked(Len(old) + k)) = new[k]
      BY <1>10
    <3>3. new[k] \in Events
      OBVIOUS
    <3>4. Latest(Ranked(i)) = Latest(Ranked(Len(old) + k))
      BY ONLY <3>1
    <3>5. QED
      BY ONLY <3>2, <3>3, <3>4
  <2>4. QED
    BY <1>1, <2>2, <2>3
<1>12. QED
  BY <1>1, <1>6, <1>9, <1>10, <1>11

LEMMA EventStarts == EventInit => EventsInv
<1> SUFFICES ASSUME EventInit PROVE EventsInv
  OBVIOUS
<1> USE DEF EventInit, InitLog
<1>1. Emitting = "idle" /\ Written = 0 /\ Len(log) = 0 /\ Len(shown) = 0
  BY DEF Emitting, Written
<1>2. LogTyped
  BY <1>1, EventBounds DEF LogTyped
<1>3. LogHolds
  BY <1>1, EventBounds DEF LogHolds
<1>4. ReplyHolds
  BY DEF ReplyHolds, NoReply
<1>5. ShownHolds
  BY <1>1, EventBounds DEF ShownHolds
<1>6. ShownCovers
  BY DEF ShownCovers, ShowsOnly
<1>7. QED
  BY <1>2, <1>3, <1>4, <1>5, <1>6 DEF EventsInv

\* A step of the log alone that drops no numbers again keeps what the page has.
LEMMA PageKept ==
  ASSUME EventsInv, UNCHANGED clientVars, boot' = boot, Dropped' >= Dropped, LogTyped', Dropped' \in Int
  PROVE  ReplyHolds' /\ ShownHolds' /\ ShownCovers'
<1> USE DEF EventsInv, clientVars
<1>1. ReplyHolds'
  BY DEF ReplyHolds, From
<1>2. ShownHolds'
  BY DEF ShownHolds
<1>3. Dropped \in Int /\ Dropped' \in Int
  BY DEF LogTyped, LogHolds, Dropped, Written
<1>4. cursor \in Int /\ Len(shown) \in Int
  BY DEF ShownHolds
<1>5. ShowsOnly(boot)' = ShowsOnly(boot) /\ ShowsOnly(reply.boot)' = ShowsOnly(reply.boot)
  BY DEF ShowsOnly
<1>6. request = "answered" => reply.latest - Len(reply.held) \in Int
  BY DEF ReplyHolds
<1> HIDE DEF EventsInv
<1>7. ShownCovers
  BY DEF EventsInv
<1>8. ShownCovers'
  BY <1>3, <1>4, <1>5, <1>6, <1>7 DEF ShownCovers
<1>9. QED
  BY <1>1, <1>2, <1>8

LEMMA EmitKeeps ==
  ASSUME EventsInv, NEW e \in Emitters, EmitStep(e)
  PROVE  EventsInv'
<1> USE EventBounds
<1>0. /\ LogTyped /\ LogHolds /\ UNCHANGED clientVars /\ boot' = boot
      /\ Len(log) \in Nat /\ seq \in Nat /\ Keep \in Nat
  BY DEF EventsInv, EmitStep, Emit, EnterEmit, AppendEvent, CountEvent, NumberEvent, LogTyped
<1>1. CASE EnterEmit(e)
  <2> USE <1>0, <1>1 DEF EnterEmit, LogTyped, LogHolds
  <2>1. Emitting = "idle" /\ Emitting' = "append" /\ log' = log /\ seq' = seq
    BY DEF Emitting
  <2>2. Written' = Written /\ Dropped' = Dropped /\ Written \in Nat
    BY <2>1 DEF Written, Dropped
  <2>3. seq < MaxEvents
    BY DEF EmitStep
  <2>4. LogTyped'
    OBVIOUS
  <2>5. \A f \in Emitters : pc'[f] # "idle" <=> lock' = f
    OBVIOUS
  <2>6. LogHolds'
    BY <2>1, <2>2, <2>3, <2>5
  <2>7. Dropped' >= Dropped /\ Dropped' \in Int
    BY <2>2 DEF Dropped
  <2>8. QED
    BY <2>4, <2>6, <2>7, PageKept DEF EventsInv
<1>2. CASE AppendEvent(e)
  <2> DEFINE event == [boot |-> boot, id |-> 0]
             all == Append(log, event)
  <2>0. pc[e] = "append" /\ lock = e /\ lock' = e /\ pc' = [pc EXCEPT ![e] = "count"] /\ seq' = seq /\ boot \in Nat
    BY <1>0, <1>2 DEF AppendEvent, LogHolds, LogTyped
  <2>1. Emitting = "append" /\ Emitting' = "count" /\ Written = seq /\ Written' = seq + 1 /\ seq < MaxEvents
    BY <1>0, <2>0 DEF Emitting, Written, LogHolds, LogTyped
  <2>2. /\ all \in Seq(Events) /\ Len(all) = Len(log) + 1 /\ all[Len(all)] = event
        /\ \A i \in 1 .. Len(log) : all[i] = log[i]
    BY <1>0, <2>0 DEF LogTyped, Events
  <2>3. log' = Newest(all, Keep)
    BY <1>2 DEF AppendEvent
  <2> HIDE DEF all, event
  <2>15. Keep \in Nat /\ Keep > 0 /\ all \in Seq(Events)
    BY <2>2
  <2> DEFINE few == Newest(all, Keep)
  <2>16. /\ few \in Seq(Events) /\ Len(few) = IF Len(all) <= Keep THEN Len(all) ELSE Keep
         /\ \A i \in 1 .. Len(few) : /\ Len(all) - Len(few) + i \in 1 .. Len(all)
                                    /\ few[i] = all[Len(all) - Len(few) + i]
    BY <2>15, NewestOf
  <2>17. log' = few
    BY <2>3
  <2> HIDE DEF few
  <2>4. /\ log' \in Seq(Events) /\ Len(log') = (IF Len(all) <= Keep THEN Len(all) ELSE Keep)
        /\ \A i \in 1 .. Len(log') : /\ Len(all) - Len(log') + i \in 1 .. Len(all)
                                     /\ log'[i] = all[Len(all) - Len(log') + i]
    BY <2>16, <2>17
  <2>5. Len(log') \in Nat /\ Len(log') > 0 /\ Len(log') <= Keep /\ Len(log') <= Len(log) + 1
    BY <1>0, <2>2, <2>4
  <2>6. Dropped' = Dropped + (Len(all) - Len(log')) /\ Dropped \in Int
    BY <1>0, <2>1, <2>2, <2>5 DEF Dropped
  <2>7. LogTyped'
    BY <1>0, <2>0, <2>4, <2>5 DEF LogTyped
  <2>8. \A i \in 1 .. Len(log') : /\ log'[i].boot = boot
                                  /\ i = Len(log') \/ log'[i].id = Dropped' + i
    <3>1. TAKE i \in 1 .. Len(log')
    <3>2. PICK j \in 1 .. Len(all) : j = Len(all) - Len(log') + i /\ log'[i] = all[j]
      BY <2>4
    <3>6. i \in Nat /\ i <= Len(log') /\ j \in Nat /\ Len(all) = Len(log) + 1
      BY <2>2, <2>5
    <3>3. CASE i = Len(log')
      <4>1. j = Len(all)
        BY <1>0, <2>5, <3>2, <3>3, <3>6
      <4>3. log'[i] = event
        BY <2>2, <3>2, <4>1
      <4>2. QED
        BY <3>3, <4>3 DEF event
    <3>4. CASE i # Len(log')
      <4>4. j \in 1 .. Len(log)
        BY <1>0, <2>5, <3>2, <3>4, <3>6
      <4>1. j \in 1 .. Len(log) /\ log'[i] = log[j]
        BY <2>2, <3>2, <4>4
      <4>2. log[j].boot = boot /\ log[j].id = Dropped + j
        BY <1>0, <2>1, <4>1 DEF LogHolds
      <4>3. QED
        BY <1>0, <2>2, <2>5, <2>6, <3>2, <4>1, <4>2
    <3>5. QED
      BY <3>3, <3>4
  <2>9. \A f \in Emitters : pc'[f] # "idle" <=> lock' = f
    BY <1>0, <2>0 DEF LogHolds, LogTyped
  <2>10. Len(log') <= Written' /\ log' # <<>>
    BY <1>0, <2>1, <2>5 DEF LogHolds
  <2>11. LogHolds'
    BY <1>0, <2>0, <2>1, <2>8, <2>9, <2>10 DEF LogHolds
  <2>12. Dropped' >= Dropped /\ Dropped' \in Int
    BY <1>0, <2>2, <2>5, <2>6
  <2>13. QED
    BY <1>0, <2>7, <2>11, <2>12, PageKept DEF EventsInv
<1>3. CASE CountEvent(e)
  <2>0. pc[e] = "count" /\ lock = e /\ lock' = e /\ pc' = [pc EXCEPT ![e] = "number"] /\ seq' = seq + 1 /\ log' = log
    BY <1>0, <1>3 DEF CountEvent, LogHolds, LogTyped
  <2>1. /\ Emitting = "count" /\ Emitting' = "number" /\ Written = seq + 1 /\ Written' = seq + 1
        /\ seq < MaxEvents /\ Dropped' = Dropped /\ Dropped \in Int
    BY <1>0, <2>0 DEF Emitting, Written, LogHolds, LogTyped, Dropped
  <2>2. LogTyped'
    BY <1>0, <2>0, <2>1 DEF LogTyped
  <2>3. \A f \in Emitters : pc'[f] # "idle" <=> lock' = f
    BY <1>0, <2>0 DEF LogHolds, LogTyped
  <2>4. LogHolds'
    BY <1>0, <2>0, <2>1, <2>3 DEF LogHolds
  <2>5. Dropped' >= Dropped /\ Dropped' \in Int
    BY <2>1
  <2>6. QED
    BY <1>0, <2>2, <2>4, <2>5, PageKept DEF EventsInv
<1>4. CASE NumberEvent(e)
  <2>0. /\ pc[e] = "number" /\ lock = e /\ lock' = NoEmitter /\ pc' = [pc EXCEPT ![e] = "idle"] /\ seq' = seq
        /\ log' = [log EXCEPT ![Len(log)].id = seq]
    BY <1>0, <1>4 DEF NumberEvent, LogHolds, LogTyped
  <2>1. /\ Emitting = "number" /\ Emitting' = "idle" /\ Written = seq /\ Written' = seq /\ seq > 0
        /\ log \in Seq(Events) /\ Len(log) > 0
    BY <1>0, <2>0 DEF Emitting, Written, LogHolds, LogTyped
  <2>2. /\ log' \in Seq(Events) /\ Len(log') = Len(log)
        /\ \A i \in 1 .. Len(log) : i # Len(log) => log'[i] = log[i]
        /\ log'[Len(log)].id = seq /\ log'[Len(log)].boot = log[Len(log)].boot
    <3>1. log[Len(log)] \in Events
      BY <1>0, <2>1
    <3>2. log' = [log EXCEPT ![Len(log)] = [log[Len(log)] EXCEPT !.id = seq]]
      BY <2>0
    <3> DEFINE u == [log[Len(log)] EXCEPT !.id = seq]
    <3>3. u \in Events /\ u.id = seq /\ u.boot = log[Len(log)].boot
      BY <1>0, <3>1 DEF Events
    <3> HIDE DEF u
    <3>5. log' = [log EXCEPT ![Len(log)] = u]
      BY <3>2 DEF u
    <3>4. QED
      BY <1>0, <2>1, <3>3, <3>5
  <2>3. Dropped' = Dropped /\ Dropped \in Int /\ Dropped + Len(log) = seq
    BY <1>0, <2>1, <2>2 DEF Dropped
  <2>4. LogTyped'
    BY <1>0, <2>0, <2>2 DEF LogTyped
  <2>5. \A f \in Emitters : pc'[f] # "idle" <=> lock' = f
    BY <1>0, <2>0 DEF LogHolds, LogTyped
  <2>6. \A i \in 1 .. Len(log') : log'[i].boot = boot' /\ log'[i].id = Dropped' + i
    <3>1. TAKE i \in 1 .. Len(log')
    <3>2. CASE i = Len(log)
      BY <1>0, <2>2, <2>3, <3>2 DEF LogHolds
    <3>3. CASE i # Len(log)
      BY <1>0, <2>2, <2>3, <3>3 DEF LogHolds
    <3>4. QED
      BY <3>2, <3>3
  <2>7. log' # <<>> /\ Len(log') <= Written'
    BY <1>0, <2>1, <2>2 DEF LogHolds
  <2>8. LogHolds'
    BY <2>1, <2>5, <2>6, <2>7 DEF LogHolds
  <2>9. Dropped' >= Dropped /\ Dropped' \in Int
    BY <2>3
  <2>10. QED
    BY <1>0, <2>4, <2>8, <2>9, PageKept DEF EventsInv
<1>5. QED
  BY <1>1, <1>2, <1>3, <1>4 DEF EmitStep, Emit

LEMMA ServerRestartKeeps == ASSUME EventsInv, RestartServer PROVE EventsInv'
<1> USE EventBounds
<1>0. /\ boot \in Nat /\ boot' = boot + 1 /\ log' = <<>> /\ seq' = 0 /\ lock' = NoEmitter
      /\ pc' = [f \in Emitters |-> "idle"] /\ UNCHANGED <<cursor, shown, reply, origin, losses>>
      /\ request' = IF request = "sent" THEN "none" ELSE request
  BY DEF RestartServer, Restart, EventsInv, LogTyped
<1>1. LogTyped'
  BY <1>0 DEF LogTyped
<1>13. Len(log') = 0
  BY <1>0
<1>14. Emitting' = "idle"
  BY <1>0 DEF Emitting
<1>15. Written' = 0
  BY <1>0, <1>14 DEF Written
<1>2. Emitting' = "idle" /\ Written' = 0 /\ Len(log') = 0 /\ Dropped' = 0
  BY <1>13, <1>14, <1>15 DEF Dropped
<1>3. LogHolds'
  BY <1>0, <1>2 DEF LogHolds
<1>4. (request' = "answered") <=> (request = "answered")
  BY <1>0
<1>5. ReplyHolds'
  BY <1>0, <1>4 DEF ReplyHolds, From, EventsInv
<1>6. ShownHolds'
  BY <1>0 DEF ShownHolds, EventsInv
<1>7. ~ShowsOnly(boot)'
  <2>1. SUFFICES ASSUME shown # <<>>, \A i \in 1 .. Len(shown) : shown[i].boot = boot + 1 PROVE FALSE
    BY <1>0 DEF ShowsOnly
  <2>2. shown \in Seq(Events) /\ Len(shown) > 0 /\ \A i \in 1 .. Len(shown) : shown[i].boot \in 1 .. boot
    BY <2>1 DEF EventsInv, ShownHolds
  <2>3. QED
    BY <1>0, <2>1, <2>2
<1>8. request' = "answered" => reply.boot # boot'
  BY <1>0, <1>4 DEF EventsInv, ReplyHolds
<1>11. ShowsOnly(reply.boot)' = ShowsOnly(reply.boot)
  BY <1>0 DEF ShowsOnly
<1>9. ShownCovers'
  BY <1>0, <1>4, <1>7, <1>8, <1>11 DEF ShownCovers, EventsInv
<1>10. QED
  BY <1>1, <1>3, <1>5, <1>6, <1>9 DEF EventsInv

LEMMA AskKeeps == ASSUME EventsInv, Poll \/ Fail PROVE EventsInv'
<1>1. /\ UNCHANGED <<logVars, cursor, shown, origin>> /\ request' \in {"none", "sent"}
      /\ reply' \in {reply, NoReply} /\ losses' \in 0 .. MaxLosses
  BY EventBounds DEF Poll, Fail, EventsInv, ShownHolds
<1>2. LogTyped' /\ LogHolds' /\ Dropped' = Dropped
  BY <1>1 DEF EventsInv, logVars, LogTyped, LogHolds, Emitting, Written, Dropped
<1>3. ReplyHolds'
  BY <1>1 DEF EventsInv, ReplyHolds, logVars, NoReply, LogTyped
<1>4. ShownHolds'
  BY <1>1 DEF EventsInv, ShownHolds, logVars
<1>5. ShownCovers'
  BY <1>1, <1>2 DEF EventsInv, ShownCovers, ShowsOnly, logVars
<1>6. QED
  BY <1>2, <1>3, <1>4, <1>5 DEF EventsInv

\* How many events of a log numbered base + i a page has seen.
LEMMA SeenCount ==
  ASSUME NEW base \in Nat, NEW c \in Nat, NEW n \in Nat, NEW older,
         older = {i \in 1 .. n : base + i <= c}, c <= base + n
  PROVE  Cardinality(older) = IF c <= base THEN 0 ELSE c - base
<1>1. CASE c <= base
  <2>1. older = {}
    BY <1>1
  <2>2. QED
    BY <1>1, <2>1, FS_EmptySet
<1>2. CASE c > base
  <2>1. c - base \in Nat /\ c - base > 0
    BY <1>2
  <2>2. PICK m \in Nat : m = c - base /\ m > 0
    BY <2>1
  <2>3. Cardinality(1 .. m) = IF 1 > m THEN 0 ELSE m - 1 + 1
    BY FS_Interval
  <2>4. older = 1 .. m
    BY <1>2, <2>2
  <2>5. Cardinality(1 .. m) = m
    BY <2>2, <2>3
  <2>6. Cardinality(older) = m
    BY <2>4, <2>5
  <2>7. QED
    BY <1>2, <2>2, <2>6
<1>3. QED
  BY <1>1, <1>2

\* A page of a log that nobody is writing: a run of it, after the cursor or from its start.
LEMMA PageCarries ==
  ASSUME EventsInv, lock = NoEmitter
  PROVE  /\ Page(cursor, PageLimit).reset \in BOOLEAN
         /\ Page(cursor, PageLimit).reset = ResetRequired(cursor)
         /\ Page(cursor, PageLimit).data \in Seq(Events)
         /\ \E k \in 0 .. Len(log) :
              /\ Len(Page(cursor, PageLimit).data) = IF Len(log) - k <= PageLimit THEN Len(log) - k ELSE PageLimit
              /\ \A i \in 1 .. Len(Page(cursor, PageLimit).data) :
                   k + i \in 1 .. Len(log) /\ Page(cursor, PageLimit).data[i] = log[k + i]
              /\ Page(cursor, PageLimit).more <=> Len(log) - k > PageLimit
              /\ Page(cursor, PageLimit).next = Dropped + k + Len(Page(cursor, PageLimit).data)
              /\ IF ResetRequired(cursor) \/ cursor = 0 THEN k = 0 ELSE Dropped + k = cursor
<1> USE EventBounds
<1> DEFINE found == Candidates(cursor)
           n == IF Len(found) <= PageLimit THEN Len(found) ELSE PageLimit
           data == SubSeq(found, 1, n)
           nxt == IF data # <<>> THEN data[Len(data)].id ELSE IF ResetRequired(cursor) THEN seq ELSE cursor
<1>1. /\ log \in Seq(Events) /\ Len(log) \in Nat /\ cursor \in Nat /\ seq \in Nat /\ Emitting = "idle"
      /\ Written = seq /\ Dropped \in Nat /\ Dropped + Len(log) = seq
      /\ \A i \in 1 .. Len(log) : log[i].id = Dropped + i
      /\ seq > 0 => Len(log) > 0
      /\ (log = <<>>) <=> (Len(log) = 0)
  BY DEF EventsInv, LogTyped, LogHolds, ShownHolds, Emitting, Written, Dropped
<1>2. FirstKept = Dropped + 1
  BY <1>1 DEF FirstKept
<1>3. ResetRequired(cursor) <=> cursor > seq \/ (Len(log) > 0 /\ cursor > 0 /\ cursor < Dropped)
  BY <1>1, <1>2 DEF ResetRequired
<1> DEFINE k == IF ResetRequired(cursor) \/ cursor <= Dropped THEN 0 ELSE cursor - Dropped
<1>4. /\ k \in 0 .. Len(log)
      /\ IF ResetRequired(cursor) \/ cursor = 0 THEN k = 0 ELSE Dropped + k = cursor
  <2>1. CASE ResetRequired(cursor)
    BY <1>1, <2>1
  <2>2. CASE ~ResetRequired(cursor)
    BY <1>1, <1>3, <2>2
  <2>3. QED
    BY <2>1, <2>2
<1>5. found = IF ResetRequired(cursor) THEN log ELSE SubSeq(log, k + 1, Len(log))
  <2>1. CASE ResetRequired(cursor)
    BY <2>1 DEF Candidates
  <2>2. CASE ~ResetRequired(cursor)
    <3>1. SeenBefore(cursor) = {i \in 1 .. Len(log) : Dropped + i <= cursor}
      BY <1>1 DEF SeenBefore
    <3>2. cursor <= Dropped + Len(log)
      BY <1>1, <1>3, <2>2
    <3>3. Cardinality(SeenBefore(cursor)) = k
      BY <1>1, <2>2, <3>1, <3>2, SeenCount
    <3>4. found = SubSeq(log, Cardinality(SeenBefore(cursor)) + 1, Len(log))
      BY <2>2 DEF Candidates, NewerThan
    <3>5. QED
      BY <2>2, <3>3, <3>4
  <2>3. QED
    BY <2>1, <2>2
<1>6. ResetRequired(cursor) => k = 0
  OBVIOUS
<1> HIDE DEF k, found
<1>7. /\ found \in Seq(Events) /\ Len(found) = Len(log) - k
      /\ \A i \in 1 .. Len(found) : k + i \in 1 .. Len(log) /\ found[i] = log[k + i]
  <2>1. CASE ResetRequired(cursor)
    BY <1>1, <1>5, <1>6, <2>1
  <2>2. CASE ~ResetRequired(cursor)
    <3>1. found = SubSeq(log, k + 1, Len(log)) /\ k \in Nat /\ k <= Len(log)
      BY <1>1, <1>4, <1>5, <2>2
    <3>5. Len(log) - k \in Nat /\ Len(log) = k + (Len(log) - k)
      BY <1>1, <3>1
    <3>2. PICK r \in Nat : r = Len(log) - k /\ Len(log) = k + r
      BY <3>5
    <3>3. /\ SubSeq(log, k + 1, Len(log)) \in Seq(Events) /\ Len(SubSeq(log, k + 1, Len(log))) = r
          /\ \A i \in 1 .. r : k + i \in 1 .. Len(log) /\ SubSeq(log, k + 1, Len(log))[i] = log[k + i]
      BY <1>1, <3>1, <3>2, SubSeqProperties
    <3>4. QED
      BY <3>1, <3>2, <3>3
  <2>3. QED
    BY <2>1, <2>2
<1>8. n \in Nat /\ n <= Len(found) /\ (n = 0 <=> Len(found) = 0)
  BY <1>7
<1> HIDE DEF n
<1>9. /\ data \in Seq(Events) /\ Len(data) = n
      /\ \A i \in 1 .. n : data[i] = found[i]
  BY <1>7, <1>8, SubSeqProperties
<1>10. /\ Page(cursor, PageLimit).data = data /\ Page(cursor, PageLimit).reset = ResetRequired(cursor)
       /\ (Page(cursor, PageLimit).more <=> Len(found) > Len(data))
       /\ Page(cursor, PageLimit).next = nxt
  BY DEF Page, found, n
<1> HIDE DEF data
<1>11. \A i \in 1 .. n : k + i \in 1 .. Len(log) /\ data[i] = log[k + i]
  BY <1>7, <1>8, <1>9
<1>12. nxt = Dropped + k + n
  <2>1. CASE n > 0
    <3>1. data # <<>> /\ n \in 1 .. n
      BY <1>8, <1>9, <2>1
    <3>2. nxt = log[k + n].id /\ k + n \in 1 .. Len(log)
      BY <1>9, <1>11, <3>1
    <3>3. nxt = Dropped + (k + n)
      BY <1>1, <3>2
    <3>4. QED
      BY <1>1, <1>4, <1>8, <3>3
  <2>2. CASE n = 0
    <3>1. data = <<>> /\ Len(log) = k
      BY <1>1, <1>4, <1>7, <1>8, <1>9, <2>2
    <3>2. CASE ResetRequired(cursor)
      BY <1>1, <1>6, <2>2, <3>1, <3>2
    <3>3. CASE ~ResetRequired(cursor) /\ cursor = 0
      BY <1>1, <1>4, <2>2, <3>1, <3>3
    <3>4. CASE ~ResetRequired(cursor) /\ cursor # 0
      BY <1>1, <1>4, <2>2, <3>1, <3>4
    <3>5. QED
      BY <3>2, <3>3, <3>4
  <2>3. QED
    BY <1>8, <2>1, <2>2
<1>13. ResetRequired(cursor) \in BOOLEAN
  BY DEF ResetRequired
<1>14. Len(found) > Len(data) <=> Len(log) - k > PageLimit
  BY <1>1, <1>4, <1>7, <1>9 DEF n
<1>15. n = IF Len(log) - k <= PageLimit THEN Len(log) - k ELSE PageLimit
  BY <1>7 DEF n
<1> HIDE DEF nxt
<1>16. QED
  BY <1>4, <1>9, <1>10, <1>11, <1>12, <1>13, <1>14, <1>15

LEMMA PageSum ==
  ASSUME NEW d \in Nat, NEW l \in Nat, NEW k \in Nat, k <= l, NEW p \in Nat, p > 0,
         NEW m \in Nat, m = IF l - k <= p THEN l - k ELSE p
  PROVE  /\ d + k + m \in 0 .. (d + l) /\ (l - k > p <=> d + k + m < d + l)
         /\ m = 0 => d + k = d + l
BY Z3

LEMMA AnswerKeeps == ASSUME EventsInv, Answer PROVE EventsInv'
<1> USE EventBounds
<1>0. /\ lock = NoEmitter /\ request' = "answered" /\ UNCHANGED <<logVars, cursor, shown, origin, losses>>
      /\ reply' = [data |-> Page(cursor, PageLimit).data, reset |-> Page(cursor, PageLimit).reset,
                   more |-> Page(cursor, PageLimit).more, next |-> Page(cursor, PageLimit).next,
                   held |-> log, latest |-> seq, boot |-> boot]
  BY DEF Answer
<1>1. /\ reply'.data = Page(cursor, PageLimit).data /\ reply'.reset = Page(cursor, PageLimit).reset
      /\ reply'.more = Page(cursor, PageLimit).more /\ reply'.next = Page(cursor, PageLimit).next
      /\ reply'.held = log /\ reply'.latest = seq /\ reply'.boot = boot /\ DOMAIN reply' = DOMAIN NoReply
  BY <1>0 DEF NoReply
<1>2. /\ log \in Seq(Events) /\ Len(log) \in Nat /\ cursor \in Nat /\ seq \in 0 .. MaxEvents
      /\ Dropped \in Nat /\ Dropped + Len(log) = seq /\ Len(log) <= Keep
      /\ \A i \in 1 .. Len(log) : log[i].boot = boot /\ log[i].id = Dropped + i
      /\ seq > 0 => log # <<>>
      /\ boot \in Nat /\ boot > 0
  BY <1>0 DEF EventsInv, LogTyped, LogHolds, ShownHolds, Emitting, Written, Dropped
<1>3. UNCHANGED <<log, seq, lock, pc, boot>> /\ LogTyped' /\ LogHolds' /\ Dropped' = Dropped
  BY <1>0 DEF EventsInv, logVars, LogTyped, LogHolds, Emitting, Written, Dropped
<1>4. PICK k \in 0 .. Len(log) :
              /\ Len(reply'.data) = IF Len(log) - k <= PageLimit THEN Len(log) - k ELSE PageLimit
              /\ \A i \in 1 .. Len(reply'.data) : k + i \in 1 .. Len(log) /\ reply'.data[i] = log[k + i]
              /\ reply'.more <=> Len(log) - k > PageLimit
              /\ reply'.next = Dropped + k + Len(reply'.data)
              /\ IF reply'.reset \/ cursor = 0 THEN k = 0 ELSE Dropped + k = cursor
  <2> DEFINE p == Page(cursor, PageLimit)
  <2>1. p.reset = ResetRequired(cursor)
    BY <1>0, PageCarries
  <2>2. QED
    BY <1>0, <1>1, <2>1, PageCarries
<1>5. reply'.reset \in BOOLEAN /\ reply'.data \in Seq(Events)
  BY <1>0, <1>1, PageCarries
<1>6. Len(reply'.data) \in Nat /\ From' = Dropped + k
  BY <1>2, <1>4, <1>5 DEF From
<1>7. \A i \in 1 .. Len(reply'.data) : reply'.data[i] = [boot |-> reply'.boot, id |-> From' + i]
  <2>1. TAKE i \in 1 .. Len(reply'.data)
  <2>2. PICK j \in 1 .. Len(log) : j = k + i /\ reply'.data[i] = log[j]
    BY <1>4
  <2>3. log[j] \in Events /\ log[j].boot = boot /\ log[j].id = Dropped + j
    BY <1>2
  <2>4. Dropped + j = Dropped + k + i
    BY <1>2, <1>6, <2>2
  <2>5. QED
    BY <1>1, <1>6, <2>2, <2>3, <2>4 DEF Events
<1>15. k \in Nat /\ k <= Len(log) /\ seq = Dropped + Len(log) /\ seq - Len(log) = Dropped
  BY <1>2
<1>16. /\ reply'.next \in 0 .. seq /\ (Len(log) - k > PageLimit <=> reply'.next < seq)
       /\ Len(reply'.data) = 0 => From' = seq
  <2>1. PICK m \in Nat : m = Len(reply'.data)
    BY <1>6
  <2>2. m = IF Len(log) - k <= PageLimit THEN Len(log) - k ELSE PageLimit
    BY <1>4, <2>1
  <2>3. /\ Dropped + k + m \in 0 .. (Dropped + Len(log))
        /\ (Len(log) - k > PageLimit <=> Dropped + k + m < Dropped + Len(log))
        /\ m = 0 => Dropped + k = Dropped + Len(log)
    <3>1. PICK d \in Nat, l \in Nat, p \in Nat : d = Dropped /\ l = Len(log) /\ p = PageLimit /\ p > 0
      BY <1>2
    <3>2. k \in Nat /\ k <= l
      BY <3>1
    <3>5. m = IF l - k <= p THEN l - k ELSE p
      BY <2>2, <3>1
    <3>6. p > 0
      BY <3>1
    <3>3. /\ d + k + m \in 0 .. (d + l) /\ (l - k > p <=> d + k + m < d + l)
          /\ m = 0 => d + k = d + l
      BY <3>2, <3>5, <3>6, PageSum
    <3>4. QED
      BY <3>1, <3>3
  <2>4. reply'.next = Dropped + k + m
    BY <1>4, <2>1
  <2>5. QED
    BY <1>6, <1>15, <2>1, <2>3, <2>4
<1>17. reply'.more <=> reply'.next < seq
  BY <1>4, <1>16
<1>21. From' >= seq - Len(log)
  BY <1>2, <1>6, <1>15
<1>18. IF reply'.reset \/ cursor = 0 THEN From' = seq - Len(log) ELSE From' = cursor
  <2>1. CASE reply'.reset \/ cursor = 0
    BY <1>2, <1>4, <1>6, <1>15, <2>1
  <2>2. CASE ~(reply'.reset \/ cursor = 0)
    BY <1>2, <1>4, <1>6, <1>15, <2>2
  <2>3. QED
    BY <2>1, <2>2
<1>19. reply'.data = <<>> => From' = seq
  BY <1>16
<1>20. cursor' = cursor /\ boot' = boot /\ boot \in 0 .. boot
  BY <1>0, <1>2, <1>3
<1>9. ReplyHolds'
  <2>1. DOMAIN reply' = DOMAIN NoReply' /\ reply'.boot \in 0 .. boot' /\ reply'.boot > 0
    BY <1>1, <1>2, <1>20 DEF NoReply
  <2>2. /\ reply'.held \in Seq(Events) /\ Len(reply'.held) <= Keep
        /\ reply'.latest \in Len(reply'.held) .. MaxEvents
        /\ reply'.latest > 0 => reply'.held # <<>>
    BY <1>1, <1>2
  <2>3. \A i \in 1 .. Len(reply'.held) :
          /\ reply'.held[i].boot = reply'.boot
          /\ reply'.held[i].id = reply'.latest - Len(reply'.held) + i
    <3>1. TAKE i \in 1 .. Len(reply'.held)
    <3>2. log[i].boot = boot /\ log[i].id = Dropped + i
      BY <1>1, <1>2
    <3>3. QED
      BY <1>1, <1>15, <3>2
  <2>4. /\ reply'.next \in 0 .. reply'.latest /\ (reply'.more <=> reply'.next < reply'.latest)
        /\ From' >= reply'.latest - Len(reply'.held)
        /\ reply'.data = <<>> => From' = reply'.latest
        /\ IF reply'.reset \/ cursor' = 0 THEN From' = reply'.latest - Len(reply'.held) ELSE From' = cursor'
    BY <1>1, <1>16, <1>17, <1>18, <1>19, <1>20, <1>21
  <2>5. QED
    BY <1>5, <1>7, <2>1, <2>2, <2>3, <2>4 DEF ReplyHolds
<1>10. ShownHolds'
  BY <1>0, <1>3 DEF ShownHolds, EventsInv
<1>11. ShowsOnly(boot)' = ShowsOnly(boot) /\ ShowsOnly(reply.boot)' = ShowsOnly(boot)
  BY <1>0, <1>1, <1>3 DEF ShowsOnly
<1>12. seq - Len(log) = Dropped
  BY <1>2
<1>13. ShownCovers'
  BY <1>0, <1>1, <1>2, <1>3, <1>11, <1>12 DEF ShownCovers, EventsInv
<1>14. QED
  BY <1>3, <1>9, <1>10, <1>13 DEF EventsInv

\* The merge of an answer extends what is shown by the page, and shows the newest.
LEMMA MergeGives ==
  ASSUME EventsInv, Merge, NEW old, old = IF reply.reset THEN <<>> ELSE shown
  PROVE  /\ old \in Seq(Events) /\ Len(old) <= Len(shown)
         /\ old # <<>> => old = shown /\ ~reply.reset /\ From = cursor
         /\ old = <<>> => From = reply.latest - Len(reply.held)
         /\ From \in Nat /\ Len(old) <= From
         /\ \E all \in Seq(Events) :
              /\ Len(all) = Len(old) + Len(reply.data)
              /\ \A i \in 1 .. Len(old) : all[i] = old[i]
              /\ \A i \in 1 .. Len(reply.data) : all[Len(old) + i] = reply.data[i]
              /\ shown' = Newest(all, EventLimit)
<1> USE EventBounds
<1>1. /\ request = "answered" /\ shown \in Seq(Events) /\ cursor \in Nat /\ reply.data \in Seq(Events)
      /\ shown' = Newest(MergeById(old, reply.data), EventLimit)
      /\ Len(shown) <= cursor /\ (cursor > 0 => shown # <<>>)
      /\ \A i \in 1 .. Len(shown) : shown[i].id = cursor - Len(shown) + i
  BY DEF Merge, EventsInv, ShownHolds, ReplyHolds
<1>2. /\ \A i \in 1 .. Len(reply.data) : reply.data[i].id = From + i
      /\ IF reply.reset \/ cursor = 0 THEN From = reply.latest - Len(reply.held) ELSE From = cursor
      /\ reply.latest - Len(reply.held) \in Nat
  <2>1. ReplyHolds /\ request = "answered"
    BY <1>1 DEF EventsInv
  <2>2. reply.held \in Seq(Events) /\ reply.latest \in Len(reply.held) .. MaxEvents
    BY <2>1 DEF ReplyHolds
  <2>3. reply.latest - Len(reply.held) \in Nat
    BY <2>2
  <2>4. \A i \in 1 .. Len(reply.data) : reply.data[i] = [boot |-> reply.boot, id |-> From + i]
    BY <2>1 DEF ReplyHolds
  <2>5. IF reply.reset \/ cursor = 0 THEN From = reply.latest - Len(reply.held) ELSE From = cursor
    BY <2>1 DEF ReplyHolds
  <2>6. \A i \in 1 .. Len(reply.data) : reply.data[i].id = From + i
    <3>1. TAKE i \in 1 .. Len(reply.data)
    <3>2. reply.data[i] = [boot |-> reply.boot, id |-> From + i]
      BY <2>4
    <3>3. QED
      BY <3>2
  <2>7. QED
    BY <2>3, <2>5, <2>6
<1>3. old \in Seq(Events) /\ Len(old) <= Len(shown)
  BY <1>1
<1>4. cursor = 0 => shown = <<>>
  BY <1>1
<1>5. old # <<>> => old = shown /\ ~reply.reset /\ cursor # 0
  BY <1>4
<1>6. /\ old # <<>> => From = cursor
      /\ old = <<>> => From = reply.latest - Len(reply.held)
  BY <1>1, <1>2, <1>4, <1>5
<1>7. From \in Nat /\ Len(old) <= From
  BY <1>1, <1>2, <1>3, <1>5, <1>6
<1>8. \A i \in 1 .. Len(old) : old[i].id = From - Len(old) + i
  BY <1>1, <1>5, <1>6
<1> DEFINE all == MergeById(old, reply.data)
<1>9. PICK f \in Int : f = From
  BY <1>7
<1>10. /\ \A i \in 1 .. Len(old) : old[i].id = f - Len(old) + i
       /\ \A i \in 1 .. Len(reply.data) : reply.data[i].id = f + i
  BY <1>2, <1>8, <1>9
<1>11. /\ all \in Seq(Events) /\ Len(all) = Len(old) + Len(reply.data)
       /\ \A i \in 1 .. Len(old) : all[i] = old[i]
       /\ \A i \in 1 .. Len(reply.data) : all[Len(old) + i] = reply.data[i]
  <2>1. old \in Seq(Events) /\ reply.data \in Seq(Events) /\ f \in Int
    BY <1>1, <1>3
  <2>2. /\ MergeById(old, reply.data) \in Seq(Events)
        /\ Len(MergeById(old, reply.data)) = Len(old) + Len(reply.data)
        /\ \A i \in 1 .. Len(old) : MergeById(old, reply.data)[i] = old[i]
        /\ \A i \in 1 .. Len(reply.data) : MergeById(old, reply.data)[Len(old) + i] = reply.data[i]
    BY <1>10, <2>1, MergedInOrder
  <2>3. QED
    BY <2>2
<1>12. shown' = Newest(all, EventLimit)
  BY <1>1
<1> HIDE DEF all
<1>13. QED
  BY <1>3, <1>5, <1>6, <1>7, <1>11, <1>12

\* What the page then shows: all of it numbered without a hole up to the new cursor.
LEMMA MergeShows ==
  ASSUME EventsInv, Merge
  PROVE  \E old, all \in Seq(Events) :
           /\ old = IF reply.reset THEN <<>> ELSE shown
           /\ Len(all) = Len(old) + Len(reply.data)
           /\ \A i \in 1 .. Len(all) : /\ all[i].boot \in 1 .. boot
                                       /\ all[i].id = reply.next - Len(all) + i
           /\ \A i \in 1 .. Len(old) : all[i] = old[i]
           /\ \A i \in 1 .. Len(reply.data) : all[Len(old) + i] = reply.data[i]
           /\ shown' \in Seq(Events) /\ Len(shown') = IF Len(all) <= EventLimit THEN Len(all) ELSE EventLimit
           /\ \A i \in 1 .. Len(shown') : /\ Len(all) - Len(shown') + i \in 1 .. Len(all)
                                         /\ shown'[i] = all[Len(all) - Len(shown') + i]
           /\ From \in Nat /\ Len(old) <= From /\ reply.next = From + Len(reply.data)
           /\ old # <<>> => old = shown /\ ~reply.reset /\ From = cursor
           /\ old = <<>> => From = reply.latest - Len(reply.held)
<1> USE EventBounds
<1>1. PICK old : old = IF reply.reset THEN <<>> ELSE shown
  OBVIOUS
<1>2. /\ old \in Seq(Events) /\ Len(old) <= Len(shown)
      /\ old # <<>> => old = shown /\ ~reply.reset /\ From = cursor
      /\ old = <<>> => From = reply.latest - Len(reply.held)
      /\ From \in Nat /\ Len(old) <= From
  BY <1>1, MergeGives
<1>3. PICK all \in Seq(Events) :
              /\ Len(all) = Len(old) + Len(reply.data)
              /\ \A i \in 1 .. Len(old) : all[i] = old[i]
              /\ \A i \in 1 .. Len(reply.data) : all[Len(old) + i] = reply.data[i]
              /\ shown' = Newest(all, EventLimit)
  BY <1>1, MergeGives
<1>4. /\ request = "answered" /\ reply.data \in Seq(Events) /\ reply.next \in Nat
      /\ \A i \in 1 .. Len(reply.data) : reply.data[i] = [boot |-> reply.boot, id |-> From + i]
      /\ reply.boot \in 1 .. boot
      /\ \A i \in 1 .. Len(shown) : shown[i].boot \in 1 .. boot /\ shown[i].id = cursor - Len(shown) + i
  <2>1. ReplyHolds /\ ShownHolds /\ request = "answered" /\ boot \in Nat /\ reply.latest \in Nat
    BY DEF Merge, EventsInv, LogTyped, ReplyHolds
  <2>2. /\ reply.data \in Seq(Events) /\ reply.next \in Nat /\ reply.boot \in 1 .. boot
        /\ \A i \in 1 .. Len(reply.data) : reply.data[i] = [boot |-> reply.boot, id |-> From + i]
    BY <2>1 DEF ReplyHolds
  <2>3. \A i \in 1 .. Len(shown) : shown[i].boot \in 1 .. boot /\ shown[i].id = cursor - Len(shown) + i
    BY <2>1 DEF ShownHolds
  <2>4. QED
    BY <2>1, <2>2, <2>3
<1>5. PICK f \in Nat : f = From /\ reply.next = f + Len(reply.data)
  BY <1>2, <1>4 DEF From
<1>6. Len(old) \in Nat /\ Len(reply.data) \in Nat /\ reply.next - Len(all) = f - Len(old)
  BY <1>2, <1>3, <1>4, <1>5
<1>7. \A i \in 1 .. Len(all) : all[i].boot \in 1 .. boot /\ all[i].id = reply.next - Len(all) + i
  <2>1. TAKE i \in 1 .. Len(all)
  <2>2. CASE i <= Len(old)
    <3>1. i \in 1 .. Len(old) /\ old # <<>>
      BY <1>2, <1>6, <2>2
    <3>2. old = shown /\ f = cursor /\ all[i] = shown[i]
      BY <1>2, <1>3, <1>5, <3>1
    <3>3. shown[i].boot \in 1 .. boot /\ shown[i].id = f - Len(old) + i
      BY <1>4, <3>1, <3>2
    <3>4. QED
      BY <1>6, <3>2, <3>3
  <2>3. CASE i > Len(old)
    <3>1. i - Len(old) \in 1 .. Len(reply.data)
      BY <1>3, <1>6, <2>3
    <3>2. PICK j \in 1 .. Len(reply.data) : i = Len(old) + j
      BY <1>6, <3>1
    <3>6. all[i] = reply.data[j] /\ reply.data[j] = [boot |-> reply.boot, id |-> From + j]
      BY <1>3, <1>4, <3>2
    <3>3. all[i].boot = reply.boot /\ all[i].id = f + j
      BY <1>5, <3>6
    <3>4. f + j = f - Len(old) + i
      BY <1>6, <3>2
    <3>5. QED
      BY <1>4, <1>6, <3>3, <3>4
  <2>4. QED
    BY <1>6, <2>2, <2>3
<1>8. EventLimit \in Nat /\ EventLimit > 0
  OBVIOUS
<1> DEFINE few == Newest(all, EventLimit)
<1>9. /\ few \in Seq(Events) /\ Len(few) = IF Len(all) <= EventLimit THEN Len(all) ELSE EventLimit
      /\ \A i \in 1 .. Len(few) : /\ Len(all) - Len(few) + i \in 1 .. Len(all)
                                  /\ few[i] = all[Len(all) - Len(few) + i]
  BY <1>8, NewestOf
<1>10. shown' = few
  BY <1>3
<1> HIDE DEF few
<1>11. /\ shown' \in Seq(Events) /\ Len(shown') = IF Len(all) <= EventLimit THEN Len(all) ELSE EventLimit
       /\ \A i \in 1 .. Len(shown') : /\ Len(all) - Len(shown') + i \in 1 .. Len(all)
                                     /\ shown'[i] = all[Len(all) - Len(shown') + i]
  BY <1>9, <1>10
<1>12. QED
  BY <1>1, <1>2, <1>3, <1>5, <1>7, <1>11

LEMMA MergeKeeps == ASSUME EventsInv, Merge PROVE EventsInv'
<1> USE EventBounds
<1>0. /\ request = "answered" /\ request' = "none" /\ cursor' = reply.next /\ origin' = reply.boot
      /\ reply' = NoReply /\ UNCHANGED <<logVars, losses>>
  BY DEF Merge
<1>1. UNCHANGED <<log, seq, lock, pc, boot>> /\ LogTyped' /\ LogHolds' /\ Dropped' = Dropped /\ Dropped \in Int
  BY <1>0 DEF EventsInv, logVars, LogTyped, LogHolds, Emitting, Written, Dropped
<1>2. ReplyHolds'
  BY <1>0, <1>1 DEF ReplyHolds, NoReply, EventsInv, LogTyped
<1>3. PICK old, all \in Seq(Events) :
           /\ old = IF reply.reset THEN <<>> ELSE shown
           /\ Len(all) = Len(old) + Len(reply.data)
           /\ \A i \in 1 .. Len(all) : /\ all[i].boot \in 1 .. boot
                                       /\ all[i].id = reply.next - Len(all) + i
           /\ \A i \in 1 .. Len(old) : all[i] = old[i]
           /\ \A i \in 1 .. Len(reply.data) : all[Len(old) + i] = reply.data[i]
           /\ shown' \in Seq(Events) /\ Len(shown') = IF Len(all) <= EventLimit THEN Len(all) ELSE EventLimit
           /\ \A i \in 1 .. Len(shown') : /\ Len(all) - Len(shown') + i \in 1 .. Len(all)
                                         /\ shown'[i] = all[Len(all) - Len(shown') + i]
           /\ From \in Nat /\ Len(old) <= From /\ reply.next = From + Len(reply.data)
           /\ old # <<>> => old = shown /\ ~reply.reset /\ From = cursor
           /\ old = <<>> => From = reply.latest - Len(reply.held)
  BY MergeShows
<1>12. ReplyHolds /\ ShownHolds /\ ShownCovers /\ boot \in Nat
  BY DEF EventsInv, LogTyped
<1>13. /\ Len(old) \in Nat /\ Len(all) \in Nat /\ Len(shown') \in Nat
       /\ Len(all) = Len(old) + Len(reply.data)
       /\ Len(shown') = IF Len(all) <= EventLimit THEN Len(all) ELSE EventLimit
       /\ From \in Nat /\ Len(old) <= From /\ reply.next = From + Len(reply.data)
       /\ (old = <<>>) <=> (Len(old) = 0)
  <2>1. /\ Len(all) = Len(old) + Len(reply.data)
        /\ Len(shown') = IF Len(all) <= EventLimit THEN Len(all) ELSE EventLimit
        /\ From \in Nat /\ Len(old) <= From /\ reply.next = From + Len(reply.data)
    BY <1>3
  <2>2. old \in Seq(Events) /\ all \in Seq(Events) /\ shown' \in Seq(Events)
    BY <1>3
  <2>3. QED
    BY <2>1, <2>2
<1>14. /\ reply.held \in Seq(Events) /\ reply.data \in Seq(Events)
       /\ reply.latest \in Len(reply.held) .. MaxEvents /\ reply.next \in 0 .. reply.latest
       /\ (reply.data = <<>> => From = reply.latest)
       /\ (reply.latest > 0 => reply.held # <<>>)
       /\ reply.boot \in 0 .. boot /\ reply.boot > 0
       /\ \A i \in 1 .. Len(reply.data) : reply.data[i] = [boot |-> reply.boot, id |-> From + i]
  BY <1>0, <1>12 DEF ReplyHolds
<1>4. /\ Len(reply.data) \in Nat /\ reply.next \in 0 .. MaxEvents
      /\ reply.latest \in Nat /\ Len(reply.held) \in Nat
      /\ Len(reply.data) = 0 => From = reply.latest
      /\ (reply.latest > 0 => Len(reply.held) > 0)
      /\ reply.boot \in 1 .. boot
  BY <1>12, <1>14
<1>5. Len(shown') <= EventLimit /\ Len(shown') <= Len(all) /\ Len(all) <= reply.next
  BY <1>4, <1>13
<1>6. \A i \in 1 .. Len(shown') : shown'[i].boot \in 1 .. boot /\ shown'[i].id = cursor' - Len(shown') + i
  <2>1. TAKE i \in 1 .. Len(shown')
  <2>2. PICK j \in 1 .. Len(all) : j = Len(all) - Len(shown') + i /\ shown'[i] = all[j]
    BY <1>3
  <2>3. shown'[i].boot \in 1 .. boot /\ shown'[i].id = reply.next - Len(all) + j
    BY <1>3, <2>2
  <2>4. i \in Nat /\ reply.next - Len(all) + j = reply.next - Len(shown') + i
    BY <1>4, <1>13, <2>2
  <2>5. QED
    BY <1>0, <2>3, <2>4
<1>7. cursor' > 0 => shown' # <<>>
  <2>1. SUFFICES ASSUME reply.next > 0, Len(shown') = 0 PROVE FALSE
    BY <1>0
  <2>5. PICK o \in Nat, d \in Nat, a \in Nat : o = Len(old) /\ d = Len(reply.data) /\ a = Len(all)
    BY <1>4, <1>13
  <2>6. a = o + d
    BY <1>13, <2>5
  <2>7. 0 = IF a <= EventLimit THEN a ELSE EventLimit
    BY <1>13, <2>1, <2>5
  <2>8. o = 0 /\ d = 0
    BY <2>6, <2>7
  <2>2. Len(old) = 0 /\ Len(reply.data) = 0
    BY <2>5, <2>8
  <2>3. From = reply.latest - Len(reply.held) /\ From = reply.latest
    BY <1>3, <1>4, <1>13, <2>2
  <2>4. QED
    BY <1>4, <1>13, <2>1, <2>2, <2>3
<1>8. ShownHolds'
  <2>1. origin' \in 0 .. boot' /\ losses' \in 0 .. MaxLosses /\ cursor' \in 0 .. MaxEvents
    BY <1>0, <1>1, <1>4, <1>12 DEF ShownHolds
  <2>4. Len(shown') <= reply.next
    BY <1>4, <1>5, <1>13
  <2>2. shown' \in Seq(Events) /\ Len(shown') <= EventLimit /\ Len(shown') <= cursor'
    BY <1>0, <1>3, <1>5, <2>4
  <2>3. QED
    BY <1>0, <1>1, <1>6, <1>7, <2>1, <2>2 DEF ShownHolds
<1>9. ASSUME ShowsOnly(boot)', Len(shown') # EventLimit
      PROVE  cursor' - Len(shown') <= Dropped
  <2>1. Len(shown') = Len(all) /\ Len(all) < EventLimit
    BY <1>9, <1>13
  <2>2. shown' # <<>> /\ \A i \in 1 .. Len(all) : all[i].boot = boot
    <3>1. shown' # <<>> /\ \A i \in 1 .. Len(all) : shown'[i].boot = boot
      BY <1>1, <1>9, <2>1 DEF ShowsOnly
    <3>2. SUFFICES ASSUME NEW i \in 1 .. Len(all) PROVE all[i].boot = boot
      BY <3>1
    <3>5. Len(all) - Len(shown') + i = i /\ i \in 1 .. Len(shown')
      BY <1>13, <2>1
    <3>3. shown'[i] = all[Len(all) - Len(shown') + i] /\ Len(all) - Len(shown') + i = i
      BY <1>3, <3>5
    <3>4. QED
      BY <3>1, <3>3
  <2>3. CASE old = <<>>
    <3>11. shown' \in Seq(Events) /\ shown' # <<>>
      BY <1>3, <2>2
    <3>9. Len(shown') > 0
      BY <3>11
    <3>1. Len(reply.data) > 0
      BY <1>4, <1>13, <2>1, <2>3, <3>9
    <3>2. 1 \in 1 .. Len(reply.data) /\ Len(old) + 1 \in 1 .. Len(all)
      BY <1>4, <1>13, <3>1
    <3>8. all[Len(old) + 1] = reply.data[1]
      BY <1>3, <3>2
    <3>10. reply.data[1] = [boot |-> reply.boot, id |-> From + 1]
      BY <1>14, <3>2
    <3>3. reply.data[1].boot = reply.boot
      BY <3>10
    <3>4. reply.boot = boot
      BY <2>2, <3>2, <3>3, <3>8
    <3>5. reply.latest - Len(reply.held) <= Dropped
      BY <1>0, <1>12, <3>4 DEF ShownCovers
    <3>6. cursor' - Len(shown') = From
      BY <1>0, <1>4, <1>13, <2>1, <2>3
    <3>7. QED
      BY <1>3, <2>3, <3>5, <3>6
  <2>4. CASE old # <<>>
    <3>1. old = shown /\ From = cursor
      BY <1>3, <2>4
    <3>2. \A i \in 1 .. Len(shown) : shown[i].boot = boot
      <4>1. TAKE i \in 1 .. Len(shown)
      <4>2. i \in 1 .. Len(all) /\ i \in 1 .. Len(old)
        BY <1>4, <1>13, <3>1
      <4>3. all[i] = shown[i]
        BY <1>3, <3>1, <4>2
      <4>4. QED
        BY <2>2, <4>2, <4>3
    <3>3. ShowsOnly(boot)
      BY <2>4, <3>1, <3>2 DEF ShowsOnly
    <3>4. Len(shown) # EventLimit
      BY <1>4, <1>13, <2>1, <3>1
    <3>5. cursor - Len(shown) <= Dropped
      BY <1>12, <3>3, <3>4 DEF ShownCovers
    <3>6. cursor' - Len(shown') = From - Len(old)
      BY <1>0, <1>4, <1>13, <2>1
    <3>7. QED
      BY <3>1, <3>5, <3>6
  <2>5. QED
    BY <2>3, <2>4
<1>10. ShownCovers'
  BY <1>0, <1>1, <1>9 DEF ShownCovers
<1>11. QED
  BY <1>1, <1>2, <1>8, <1>10 DEF EventsInv

LEMMA EventStepKeeps == EventsInv /\ [EventNext]_pollingVars => EventsInv'
<1>1. ASSUME EventsInv, UNCHANGED pollingVars PROVE EventsInv'
  <2>1. UNCHANGED <<log, seq, lock, pc, boot, cursor, shown, request, reply, origin, losses>>
    BY <1>1 DEF pollingVars, logVars, clientVars
  <2>2. LogTyped' /\ LogHolds' /\ Dropped' = Dropped
    BY <1>1, <2>1 DEF EventsInv, LogTyped, LogHolds, Emitting, Written, Dropped
  <2>3. ReplyHolds' /\ ShownHolds'
    BY <1>1, <2>1 DEF EventsInv, ReplyHolds, From, ShownHolds, NoReply
  <2>4. ShownCovers'
    BY <1>1, <2>1, <2>2 DEF EventsInv, ShownCovers, ShowsOnly
  <2>5. QED
    BY <2>2, <2>3, <2>4 DEF EventsInv
<1>2. QED
  BY <1>1, EmitKeeps, ServerRestartKeeps, AskKeeps, AnswerKeeps, MergeKeeps DEF EventNext

LEMMA EventsInvHolds == EventSpec => []EventsInv
BY EventStarts, EventStepKeeps, PTL DEF EventSpec

LEMMA EventsSafeFromInv == EventsInv => EventsSafe /\ EventTypeOK
<1> SUFFICES ASSUME EventsInv PROVE EventsSafe /\ EventTypeOK
  OBVIOUS
<1> USE EventBounds
<1>1. LogTyped /\ LogHolds /\ ReplyHolds /\ ShownHolds
  BY DEF EventsInv
<1>2. EventTypeOK
  BY <1>1 DEF EventTypeOK, LogTypeOK, LogTyped, ReplyHolds, ShownHolds
<1>3. LogNumbered
  <2>1. SUFFICES ASSUME lock = NoEmitter, NEW i \in DOMAIN log
                 PROVE  log[i] = [boot |-> boot, id |-> seq - Len(log) + i]
    BY DEF LogNumbered
  <2>2. log \in Seq(Events) /\ i \in 1 .. Len(log)
    BY <1>1 DEF LogTyped
  <2>3. Emitting = "idle" /\ Dropped = seq - Len(log)
    BY <2>1 DEF Emitting, Written, Dropped
  <2>4. log[i] \in Events /\ log[i].boot = boot /\ log[i].id = Dropped + i
    BY <1>1, <2>2, <2>3 DEF LogHolds
  <2>5. QED
    BY <2>3, <2>4 DEF Events
<1>4. NoEventSkipped
  <2>1. SUFFICES ASSUME request = "answered", ~reply.reset, cursor > 0
                 PROVE  IF reply.data = <<>> THEN cursor = reply.latest
                        ELSE \A i \in DOMAIN reply.data : reply.data[i].id = cursor + i
    BY DEF NoEventSkipped
  <2>2. /\ reply.data \in Seq(Events) /\ cursor \in Nat /\ From = cursor
        /\ reply.data = <<>> => From = reply.latest
        /\ \A i \in 1 .. Len(reply.data) : reply.data[i] = [boot |-> reply.boot, id |-> From + i]
    <3>1. cursor \in Nat /\ cursor # 0
      BY <1>1, <2>1 DEF ShownHolds
    <3>2. QED
      BY <1>1, <2>1, <3>1 DEF ReplyHolds
  <2>3. ASSUME NEW i \in DOMAIN reply.data PROVE reply.data[i].id = cursor + i
    <3>1. reply.data[i] = [boot |-> reply.boot, id |-> From + i]
      BY <2>2
    <3>2. QED
      BY <2>2, <3>1
  <2>4. QED
    BY <2>2, <2>3
<1>5. NoHoleShown
  <2>1. SUFFICES ASSUME NEW i \in 1 .. Len(shown) - 1 PROVE shown[i + 1].id = shown[i].id + 1
    BY DEF NoHoleShown
  <2>2. Len(shown) \in Nat /\ cursor \in Nat
    BY <1>1 DEF ShownHolds
  <2>3. i \in 1 .. Len(shown) /\ i + 1 \in 1 .. Len(shown)
    BY <2>2
  <2>4. shown[i].id = cursor - Len(shown) + i /\ shown[i + 1].id = cursor - Len(shown) + (i + 1)
    BY <1>1, <2>3 DEF ShownHolds
  <2>5. QED
    BY <2>2, <2>4
<1>6. QED
  BY <1>2, <1>3, <1>4, <1>5 DEF EventsSafe

\* Who finds the log free finds it numbered without a gap, an answer goes on where the
\* cursor is or tells the page to start over (status_split.py), and merged pages leave no
\* hole in what is shown (status_split_ui.py).
THEOREM EventsAreSafe == EventSpec => []EventsSafe
BY EventsInvHolds, EventsSafeFromInv, PTL

\* The log and the page keep their types.
THEOREM EventsTypeCorrect == EventSpec => []EventTypeOK
BY EventsInvHolds, EventsSafeFromInv, PTL

\* An answer with nothing more to fetch, merged by a page that shows no other process,
\* leaves the page with everything the server held (mergeEvents): what is shown never
\* falls short of what the server has dropped.
THEOREM CaughtUpShowsAll == EventSpec => CaughtUpShowsWindow
<1>1. ASSUME EventsInv, Merge, ~reply.more, \A i \in DOMAIN shown : shown[i].boot = reply.boot
      PROVE  IsSuffix(reply.held, shown')
  <2> USE EventBounds
  <2>1. PICK old, all \in Seq(Events) :
           /\ old = IF reply.reset THEN <<>> ELSE shown
           /\ Len(all) = Len(old) + Len(reply.data)
           /\ \A i \in 1 .. Len(all) : /\ all[i].boot \in 1 .. boot
                                       /\ all[i].id = reply.next - Len(all) + i
           /\ \A i \in 1 .. Len(old) : all[i] = old[i]
           /\ \A i \in 1 .. Len(reply.data) : all[Len(old) + i] = reply.data[i]
           /\ shown' \in Seq(Events) /\ Len(shown') = IF Len(all) <= EventLimit THEN Len(all) ELSE EventLimit
           /\ \A i \in 1 .. Len(shown') : /\ Len(all) - Len(shown') + i \in 1 .. Len(all)
                                         /\ shown'[i] = all[Len(all) - Len(shown') + i]
           /\ From \in Nat /\ Len(old) <= From /\ reply.next = From + Len(reply.data)
           /\ old # <<>> => old = shown /\ ~reply.reset /\ From = cursor
           /\ old = <<>> => From = reply.latest - Len(reply.held)
    BY <1>1, MergeShows
  <2>2. /\ request = "answered" /\ ReplyHolds /\ ShownHolds /\ ShownCovers /\ boot \in Nat
    BY <1>1 DEF EventsInv, LogTyped, Merge
  <2>3. /\ reply.held \in Seq(Events) /\ reply.data \in Seq(Events) /\ Len(reply.held) <= Keep
        /\ reply.latest \in Len(reply.held) .. MaxEvents /\ reply.next \in 0 .. reply.latest
        /\ (reply.more <=> reply.next < reply.latest)
        /\ \A i \in 1 .. Len(reply.held) : /\ reply.held[i].boot = reply.boot
                                          /\ reply.held[i].id = reply.latest - Len(reply.held) + i
        /\ \A i \in 1 .. Len(reply.data) : reply.data[i] = [boot |-> reply.boot, id |-> From + i]
    BY <2>2 DEF ReplyHolds
  <2>4. PICK h \in Nat, l \in Nat, d \in Nat, o \in Nat, a \in Nat, s \in Nat, f \in Nat :
          /\ h = Len(reply.held) /\ l = reply.latest /\ d = Len(reply.data)
          /\ o = Len(old) /\ a = Len(all) /\ s = Len(shown') /\ f = From
    <3>1. /\ Len(reply.held) \in Nat /\ reply.latest \in Nat /\ Len(reply.data) \in Nat
      BY <2>3
    <3>3. old \in Seq(Events) /\ all \in Seq(Events) /\ shown' \in Seq(Events) /\ From \in Nat
      BY <2>1
    <3>4. Len(old) \in Nat /\ Len(all) \in Nat /\ Len(shown') \in Nat
      BY <3>3
    <3>2. QED
      BY <3>1, <3>3, <3>4
  <2>5. reply.next = l
    BY <1>1, <2>3, <2>4
  <2>6. a = o + d /\ l = f + d /\ h <= Keep /\ s = IF a <= EventLimit THEN a ELSE EventLimit
    BY <2>1, <2>3, <2>4, <2>5
  <2>7. s # EventLimit => f - o <= l - h
    <3>1. SUFFICES ASSUME s # EventLimit PROVE f - o <= l - h
      OBVIOUS
    <3>2. CASE old = <<>>
      <4>1. o = 0 /\ f = l - h
        BY <2>1, <2>4, <3>2
      <4>2. QED
        BY <4>1
    <3>3. CASE old # <<>>
      <4>1. old = shown /\ f = cursor
        BY <2>1, <2>4, <3>3
      <4>2. ShowsOnly(reply.boot)
        BY <1>1, <2>1, <3>3, <4>1 DEF ShowsOnly
      <4>3. o # EventLimit
        BY <2>6, <3>1
      <4>4. cursor - Len(shown) <= reply.latest - Len(reply.held)
        BY <2>2, <2>4, <4>1, <4>2, <4>3 DEF ShownCovers
      <4>5. QED
        BY <2>4, <4>1, <4>4
    <3>4. QED
      BY <3>2, <3>3
  <2>8. h <= s
    BY <2>6, <2>7
  <2>9. \A i \in 1 .. a : all[i] = [boot |-> reply.boot, id |-> l - a + i]
    <3>1. TAKE i \in 1 .. a
    <3>2. all[i].boot = reply.boot
      <4>1. CASE i <= o
        <5>1. i \in 1 .. Len(old) /\ old # <<>>
          BY <2>1, <2>4, <4>1
        <5>2. old = shown /\ all[i] = old[i]
          BY <2>1, <5>1
        <5>4. shown \in Seq(Events) /\ i \in 1 .. Len(shown)
          BY <2>2, <5>1, <5>2 DEF ShownHolds
        <5>3. QED
          BY <1>1, <5>2, <5>4
      <4>2. CASE i > o
        <5>1. i - o \in 1 .. d
          BY <2>6, <4>2
        <5>2. PICK j \in 1 .. d : i = o + j
          BY <5>1
        <5>3. all[i] = reply.data[j] /\ reply.data[j] = [boot |-> reply.boot, id |-> From + j]
          BY <2>1, <2>3, <2>4, <5>2
        <5>4. QED
          BY <5>3
      <4>3. QED
        BY <4>1, <4>2
    <3>5. i \in 1 .. Len(all)
      BY <2>4
    <3>6. all[i] \in Events
      BY <3>5
    <3>7. all[i].id = reply.next - Len(all) + i
      BY <2>1, <3>5
    <3>3. all[i] \in Events /\ all[i].id = reply.next - Len(all) + i
      BY <3>6, <3>7
    <3>4. QED
      BY <2>4, <2>5, <3>2, <3>3 DEF Events
  <2>10. \A i \in 1 .. h : reply.held[i] = shown'[s - h + i]
    <3>1. TAKE i \in 1 .. h
    <3>2. s - h + i \in 1 .. s
      BY <2>8
    <3>3. PICK k \in 1 .. s : k = s - h + i
      BY <3>2
    <3>4. PICK j \in 1 .. a : j = a - s + k /\ shown'[k] = all[j]
      BY <2>1, <2>4
    <3>5. shown'[k] = [boot |-> reply.boot, id |-> l - a + j]
      BY <2>9, <3>4
    <3>6. l - a + j = l - h + i
      BY <3>3, <3>4
    <3>9. i \in 1 .. Len(reply.held)
      BY <2>4
    <3>7. reply.held[i] \in Events /\ reply.held[i].boot = reply.boot /\ reply.held[i].id = l - h + i
      BY <2>3, <2>4, <3>9
    <3>8. QED
      BY <3>3, <3>5, <3>6, <3>7 DEF Events
  <2>11. shown' \in Seq(Events)
    BY <2>1
  <2>12. QED
    BY <2>3, <2>4, <2>8, <2>10, <2>11, SuffixMeans
<1>2. EventsInv /\ [EventNext]_pollingVars
        => [Merge /\ ~reply.more /\ (\A i \in DOMAIN shown : shown[i].boot = reply.boot)
             => IsSuffix(reply.held, shown')]_pollingVars
  BY <1>1
<1>3. QED
  BY <1>2, EventsInvHolds, PTL DEF EventSpec, CaughtUpShowsWindow

-----------------------------------------------------------------------------
(* The queue for the suite lock and the counts of a suite: what the types    *)
(* need and no promise rests on.                                             *)

BenchmarkRest ==
  /\ holder \in Suites \cup {NoSuite}
  /\ waiting \in Seq(Suites)
  /\ \A s \in Suites : at[s] = "queued" => \E i \in 1 .. Len(waiting) : waiting[i] = s
  /\ streamed \in [Suites -> 0 .. Streams]
  /\ \A s \in Suites : at[s] \notin {"counting", "closing", "cancelled"} => streamed[s] < Streams
  /\ fixed \subseteq Engines
  /\ storeLock \in Writers \cup {NoSuite}
  /\ autoLeft \in 0 .. MaxAuto

\* A step of one suite that leaves the queue alone.
LEMMA QueueKept ==
  ASSUME BenchmarkIInv, BenchmarkRest, NEW s \in Suites, NEW p, p # "queued",
         at' = [at EXCEPT ![s] = p], waiting' = waiting,
         holder' \in Suites \cup {NoSuite}, fixed' \subseteq Engines,
         streamed' \in [Suites -> 0 .. Streams],
         \A r \in Suites \ {s} : streamed'[r] = streamed[r],
         p \notin {"counting", "closing", "cancelled"} => streamed'[s] < Streams,
         storeLock' \in Writers \cup {NoSuite}, autoLeft' \in 0 .. MaxAuto
  PROVE  BenchmarkRest'
BY DEF BenchmarkRest, BenchmarkIInv, BenchmarkTypes

LEMMA WithoutOne ==
  ASSUME NEW S, NEW q \in Seq(S), NEW i \in 1 .. Len(q)
  PROVE  /\ RemoveAt(q, i) \in Seq(S)
         /\ \A j \in 1 .. Len(q) : j # i => \E k \in 1 .. Len(RemoveAt(q, i)) : RemoveAt(q, i)[k] = q[j]
<1> DEFINE front == SubSeq(q, 1, i - 1)
           back == SubSeq(q, i + 1, Len(q))
<1>1. Len(q) \in Nat /\ i \in Nat /\ i >= 1 /\ i <= Len(q)
  OBVIOUS
<1>2. /\ front \in Seq(S) /\ Len(front) = i - 1
      /\ \A k \in 1 .. (i - 1) : front[k] = q[k]
  BY <1>1, SubSeqProperties
<1>3. /\ back \in Seq(S) /\ Len(back) = Len(q) - i
      /\ \A k \in 1 .. (Len(q) - i) : back[k] = q[i + k]
  BY <1>1, SubSeqProperties
<1>4. RemoveAt(q, i) = front \o back
  BY DEF RemoveAt
<1> HIDE DEF front, back
<1>8. /\ front \o back \in Seq(S) /\ Len(front \o back) = Len(front) + Len(back)
      /\ \A k \in 1 .. Len(front) : (front \o back)[k] = front[k]
      /\ \A k \in 1 .. Len(back) : (front \o back)[Len(front) + k] = back[k]
  <2>6. front \in Seq(S) /\ back \in Seq(S)
    BY <1>2, <1>3
  <2>7. Len(front \o back) = Len(front) + Len(back) /\ front \o back \in Seq(S)
    BY ONLY <2>6, ConcatProperties
  <2>8. Len(front) \in Nat /\ Len(back) \in Nat
    BY ONLY <2>6, LenProperties
  <2>1. /\ front \in Seq(S) /\ back \in Seq(S) /\ Len(front) \in Nat /\ Len(back) \in Nat
        /\ Len(front \o back) = Len(front) + Len(back) /\ front \o back \in Seq(S)
    BY <2>6, <2>7, <2>8
  <2>2. \A k \in 1 .. Len(front) + Len(back) :
          (front \o back)[k] = IF k <= Len(front) THEN front[k] ELSE back[k - Len(front)]
    BY <2>1, ConcatProperties
  <2>3. ASSUME NEW k \in 1 .. Len(back) PROVE (front \o back)[Len(front) + k] = back[k]
    <3>1. /\ Len(front) + k \in 1 .. Len(front) + Len(back) /\ ~(Len(front) + k <= Len(front))
          /\ (Len(front) + k) - Len(front) = k
      BY <2>1
    <3>2. QED
      BY <2>2, <3>1
  <2>4. ASSUME NEW k \in 1 .. Len(front) PROVE (front \o back)[k] = front[k]
    <3>1. k \in 1 .. Len(front) + Len(back) /\ k <= Len(front)
      BY <2>1
    <3>2. QED
      BY <2>2, <3>1
  <2>5. QED
    BY <2>1, <2>3, <2>4
<1>5. /\ front \o back \in Seq(S) /\ Len(front \o back) = Len(q) - 1
      /\ \A k \in 1 .. (i - 1) : (front \o back)[k] = q[k]
      /\ \A k \in 1 .. (Len(q) - i) : (front \o back)[i - 1 + k] = q[i + k]
  BY <1>1, <1>2, <1>3, <1>8
<1>6. ASSUME NEW j \in 1 .. Len(q), j # i
      PROVE  \E k \in 1 .. (Len(q) - 1) : (front \o back)[k] = q[j]
  <2>1. CASE j < i
    <3>1. j \in 1 .. (i - 1) /\ j \in 1 .. (Len(q) - 1)
      BY <1>1, <2>1
    <3>2. QED
      BY <1>5, <3>1
  <2>2. CASE j > i
    <3>1. j - i \in 1 .. (Len(q) - i) /\ i - 1 + (j - i) = j - 1 /\ i + (j - i) = j /\ j - 1 \in 1 .. (Len(q) - 1)
      BY <1>1, <2>2
    <3>2. (front \o back)[j - 1] = q[j]
      BY <1>5, <3>1
    <3>3. QED
      BY <3>1, <3>2
  <2>3. j < i \/ j > i
    BY <1>1, <1>6
  <2>4. QED
    BY <2>1, <2>2, <2>3
<1>7. QED
  BY <1>4, <1>5, <1>6

LEMMA RestOfSuite ==
  ASSUME BenchmarkIInv, BenchmarkRest, NEW s \in Suites, RequestSuite(s) \/ CancelSuite(s) \/ SuiteStep(s)
  PROVE  BenchmarkRest'
<1>0. /\ Rows \in Nat \ {0} /\ Streams \in Nat \ {0} /\ MaxAuto \in Nat /\ NoSuite \notin Suites
      /\ s # Automatic /\ s # NoSuite /\ s \in Writers
      /\ at \in [Suites -> SuitePlaces] /\ at[s] \in SuitePlaces
      /\ at[s] \in Held \ {"choosing"} => Engine(s) \in Engines
  <2>1. at[s] \in Held \ {"choosing"} => Len(results[s]) < Rows
    BY DEF BenchmarkIInv, RowsCounted
  <2>2. BenchmarkTypes
    BY DEF BenchmarkIInv
  <2>3. QED
    BY <2>1, <2>2, BenchmarkAssumption, EnginesAre DEF BenchmarkTypes, Writers
<1>1. /\ holder \in Suites \cup {NoSuite} /\ waiting \in Seq(Suites)
      /\ \A r \in Suites : at[r] = "queued" => \E i \in 1 .. Len(waiting) : waiting[i] = r
      /\ streamed \in [Suites -> 0 .. Streams] /\ fixed \subseteq Engines
      /\ at[s] \notin {"counting", "closing", "cancelled"} => streamed[s] < Streams
      /\ \A r \in Suites : at[r] \notin {"counting", "closing", "cancelled"} => streamed[r] < Streams
      /\ storeLock \in Writers \cup {NoSuite} /\ autoLeft \in 0 .. MaxAuto
  BY DEF BenchmarkRest
\* What the queue holds after a step that changes it, while the rest stays.
<1>2. ASSUME NEW p \in SuitePlaces, at' = [at EXCEPT ![s] = p], waiting' \in Seq(Suites),
             holder' \in Suites \cup {NoSuite},
             at[s] \in {"idle", "queued"},
             UNCHANGED <<streamed, fixed, storeLock, autoLeft>>,
             \A r \in Suites : (r # s \/ p = "queued") /\ at'[r] = "queued"
                                 => \E i \in 1 .. Len(waiting') : waiting'[i] = r
      PROVE  BenchmarkRest'
  BY <1>0, <1>1, <1>2 DEF BenchmarkRest
<1>3. CASE RequestSuite(s)
  <2>1. CASE waiting' = waiting
    <3>1. PICK p \in {"refused", "choosing"} : at' = [at EXCEPT ![s] = p] /\ (holder' = s \/ holder' = holder)
      <4>1. Append(waiting, s) # waiting
        BY <1>1
      <4>2. QED
        BY <1>3, <2>1, <4>1 DEF RequestSuite, MoveTo
    <3>2. UNCHANGED <<streamed, fixed, storeLock, autoLeft>> /\ at[s] = "idle"
      BY <1>3 DEF RequestSuite, engineVars, storeVars
    <3>3. p \in SuitePlaces /\ p # "queued"
      BY DEF SuitePlaces, Over
    <3>4. QED
      BY <1>0, <1>1, <1>2, <2>1, <3>1, <3>2, <3>3
  <2>2. CASE waiting' = Append(waiting, s) /\ MoveTo(s, "queued") /\ holder' = holder
    <3>1. UNCHANGED <<streamed, fixed, storeLock, autoLeft>> /\ at[s] = "idle"
      BY <1>3 DEF RequestSuite, engineVars, storeVars
    <3>2. "queued" \in SuitePlaces
      BY DEF SuitePlaces
    <3>3. /\ waiting' \in Seq(Suites) /\ Len(waiting') = Len(waiting) + 1 /\ waiting'[Len(waiting')] = s
          /\ \A i \in 1 .. Len(waiting) : waiting'[i] = waiting[i]
          /\ Len(waiting) \in Nat
      BY <1>1, <2>2
    <3>4. ASSUME NEW r \in Suites, at'[r] = "queued"
          PROVE  \E i \in 1 .. Len(waiting') : waiting'[i] = r
      <4>1. CASE r = s
        BY <3>3, <4>1
      <4>2. CASE r # s
        <5>1. PICK i \in 1 .. Len(waiting) : waiting[i] = r
          BY <1>0, <1>1, <2>2, <3>4, <4>2 DEF MoveTo
        <5>2. QED
          BY <3>3, <5>1
      <4>3. QED
        BY <4>1, <4>2
    <3>5. QED
      BY <1>1, <1>2, <2>2, <3>1, <3>2, <3>3, <3>4 DEF MoveTo
  <2>3. QED
    BY <1>3, <2>1, <2>2 DEF RequestSuite
<1>4. CASE EnterSuite(s)
  <2>1. /\ at[s] = "queued" /\ at' = [at EXCEPT ![s] = "choosing"] /\ Head(waiting) = s /\ holder' = s
        /\ waiting' = Tail(waiting) /\ UNCHANGED <<streamed, fixed, storeLock, autoLeft>>
    BY <1>4 DEF EnterSuite, MoveTo, engineVars, storeVars
  <2>2. Len(waiting) \in Nat /\ Len(waiting) > 0 /\ waiting[1] = s
    BY <1>1, <2>1
  <2>3. /\ waiting' \in Seq(Suites) /\ Len(waiting') = Len(waiting) - 1
        /\ \A i \in 1 .. (Len(waiting) - 1) : waiting'[i] = waiting[i + 1]
    BY <1>1, <2>1, <2>2
  <2>4. ASSUME NEW r \in Suites, r # s, at'[r] = "queued"
        PROVE  \E i \in 1 .. Len(waiting') : waiting'[i] = r
    <3>1. PICK i \in 1 .. Len(waiting) : waiting[i] = r
      BY <1>0, <1>1, <2>1, <2>4
    <3>2. i # 1
      BY <2>2, <2>4, <3>1
    <3>3. i - 1 \in 1 .. (Len(waiting) - 1) /\ (i - 1) + 1 = i
      BY <2>2, <3>2
    <3>4. QED
      BY <2>3, <3>1, <3>3
  <2>5. "choosing" \in SuitePlaces /\ "choosing" # "queued"
    BY DEF SuitePlaces
  <2>6. QED
    BY <1>2, <2>1, <2>3, <2>4, <2>5
<1>5. CASE CancelSuite(s)
  <2>0. UNCHANGED <<streamed, fixed, storeLock, autoLeft>>
    BY <1>5 DEF CancelSuite, engineVars, storeVars
  <2>1. CASE at[s] = "queued"
    <3>1. PICK i \in DOMAIN waiting : waiting[i] = s /\ waiting' = RemoveAt(waiting, i)
      BY <1>5, <2>1 DEF CancelSuite
    <3>2. at' = [at EXCEPT ![s] = "cancelled"] /\ holder' = holder
      BY <1>5, <2>1 DEF CancelSuite, MoveTo
    <3>3. i \in 1 .. Len(waiting)
      BY <1>1, <3>1
    <3>4. /\ RemoveAt(waiting, i) \in Seq(Suites)
          /\ \A j \in 1 .. Len(waiting) : j # i =>
               \E k \in 1 .. Len(RemoveAt(waiting, i)) : RemoveAt(waiting, i)[k] = waiting[j]
      BY <1>1, <3>3, WithoutOne
    <3>5. ASSUME NEW r \in Suites, r # s, at'[r] = "queued"
          PROVE  \E k \in 1 .. Len(waiting') : waiting'[k] = r
      <4>1. PICK j \in 1 .. Len(waiting) : waiting[j] = r
        BY <1>0, <1>1, <3>2, <3>5
      <4>2. j # i
        BY <3>1, <3>5, <4>1
      <4>3. QED
        BY <3>1, <3>4, <4>1, <4>2
    <3>6. "cancelled" \in SuitePlaces /\ "cancelled" # "queued"
      BY DEF SuitePlaces, Over
    <3>7. waiting' \in Seq(Suites) /\ holder' \in Suites \cup {NoSuite}
      BY <1>1, <3>1, <3>2, <3>4
    <3>8. QED
      BY <1>2, <2>0, <2>1, <3>2, <3>5, <3>6, <3>7
  <2>2. CASE at[s] # "queued"
    <3>1. PICK p \in {"cancelled", "closing", "stopping", "outwaiting"} :
            /\ at' = [at EXCEPT ![s] = p]
            /\ p \in {"stopping", "outwaiting"} => at[s] \notin {"counting", "closing", "cancelled"}
      <4>1. CASE at[s] \in Stopping
        <5>1. at' = at
          BY <1>5, <4>1 DEF CancelSuite, Stopping
        <5>2. at' = [at EXCEPT ![s] = at[s]] /\ at[s] \in {"stopping", "outwaiting"}
          BY <1>0, <4>1, <5>1 DEF Stopping
        <5>3. QED
          BY <5>2
      <4>2. CASE at[s] \notin Stopping
        BY <1>5, <2>2, <4>2 DEF CancelSuite, MoveTo, LeaveSuite, Stopping
      <4>3. QED
        BY <4>1, <4>2
    <3>2. waiting' = waiting /\ holder' \in Suites \cup {NoSuite}
      BY <1>1, <1>5, <2>2 DEF CancelSuite, LeaveSuite
    <3>3. QED
      BY <1>1, <2>0, <3>1, <3>2, QueueKept
  <2>3. QED
    BY <2>1, <2>2
<1>6. ASSUME SuiteStep(s), ~EnterSuite(s)
      PROVE  BenchmarkRest'
  <2>1. waiting' = waiting
    BY <1>6 DEF SuiteStep, RejectRow, BorrowLoaded, MeasureLoaded, StartBuild, EndBuild, StartStream,
         EndReading, WorkerClosed, StopTimesOut, CloseEngine, FinishSuite, ReadStore, WriteStore
  <2>2. holder' \in Suites \cup {NoSuite}
    BY <1>1, <1>6 DEF SuiteStep, RejectRow, BorrowLoaded, MeasureLoaded, StartBuild, EndBuild,
         StartStream, EndReading, WorkerClosed, StopTimesOut, CloseEngine, FinishSuite, ReadStore,
         WriteStore, LeaveSuite
  <2>3. storeLock' \in Writers \cup {NoSuite} /\ autoLeft' \in 0 .. MaxAuto
    BY <1>0, <1>1, <1>6 DEF SuiteStep, RejectRow, BorrowLoaded, MeasureLoaded, StartBuild, EndBuild,
         StartStream, EndReading, WorkerClosed, StopTimesOut, CloseEngine, FinishSuite, ReadStore,
         WriteStore, storeVars
  <2>4. fixed' \subseteq Engines
    <3>1. CASE EndBuild(s)
      <4>1. at[s] = "building"
        BY <3>1 DEF EndBuild
      <4>2. Engine(s) \in Engines
        BY <1>0, <4>1 DEF Held, Measuring
      <4>3. fixed' \in {fixed, fixed \cup {Engine(s)}}
        BY <3>1 DEF EndBuild
      <4>4. QED
        BY <1>1, <4>2, <4>3
    <3>2. CASE ~EndBuild(s)
      <4>1. fixed' = fixed
        BY <1>6, <3>2 DEF SuiteStep, RejectRow, BorrowLoaded, MeasureLoaded, StartBuild, StartStream,
             EndReading, WorkerClosed, StopTimesOut, CloseEngine, FinishSuite, ReadStore,
             WriteStore, engineVars
      <4>2. QED
        BY <1>1, <4>1
    <3>3. QED
      BY <3>1, <3>2
  <2>7. ASSUME NEW p \in SuitePlaces \ {"queued"}, at' = [at EXCEPT ![s] = p], streamed' = streamed,
               p \notin {"counting", "closing", "cancelled"} => streamed[s] < Streams
        PROVE  BenchmarkRest'
    BY <1>1, <2>1, <2>2, <2>3, <2>4, <2>7, QueueKept
  <2>8. ASSUME at' = [at EXCEPT ![s] = "choosing"], streamed' = [streamed EXCEPT ![s] = 0]
        PROVE  BenchmarkRest'
    <3>1. /\ streamed' \in [Suites -> 0 .. Streams] /\ streamed'[s] < Streams
          /\ \A r \in Suites \ {s} : streamed'[r] = streamed[r]
      BY <1>0, <1>1, <2>8
    <3>2. QED
      BY <2>1, <2>2, <2>3, <2>4, <2>8, <3>1, QueueKept
  <2>9. CASE RejectRow(s)
    <3>1. at' = [at EXCEPT ![s] = "choosing"] /\ streamed' = [streamed EXCEPT ![s] = 0]
      BY <1>0, <2>9 DEF RejectRow, AddRow
    <3>2. QED
      BY <2>8, <3>1
  <2>10. CASE BorrowLoaded(s) \/ StartBuild(s) \/ EndReading(s) \/ FinishSuite(s) \/ ReadStore(s)
    <3>1. PICK p \in {"borrowing", "building", "stopping", "storing", "writing"} : at' = [at EXCEPT ![s] = p]
      BY <1>0, <2>10 DEF BorrowLoaded, StartBuild, EndReading, FinishSuite, ReadStore, MoveTo, LeaveSuite
    <3>2. streamed' = streamed /\ at[s] \in {"choosing", "reading", "storing"}
      BY <1>0, <2>10 DEF BorrowLoaded, StartBuild, EndReading, FinishSuite, ReadStore
    <3>3. p \in SuitePlaces \ {"queued"} /\ streamed[s] < Streams
      BY <1>1, <3>2 DEF SuitePlaces, Measuring, Stopping
    <3>4. QED
      BY <2>7, <3>1, <3>2, <3>3
  <2>11. CASE MeasureLoaded(s)
    BY <2>8, <2>11 DEF MeasureLoaded, AddRow, MoveTo
  <2>12. CASE EndBuild(s)
    <3>1. CASE AddRow(s, "failed") /\ MoveTo(s, "choosing")
      BY <2>8, <3>1 DEF AddRow, MoveTo
    <3>2. CASE MoveTo(s, "prompting") /\ UNCHANGED <<results, streamed>>
      <4>1. "prompting" \in SuitePlaces \ {"queued"} /\ streamed[s] < Streams
        BY <1>1, <2>12 DEF EndBuild, SuitePlaces, Measuring
      <4>2. QED
        BY <2>7, <3>2, <4>1 DEF MoveTo
    <3>3. QED
      BY <2>12, <3>1, <3>2 DEF EndBuild
  <2>13. CASE StartStream(s)
    <3>1. PICK p \in {"reading", "closing"} : at' = [at EXCEPT ![s] = p]
      BY <2>13 DEF StartStream, MoveTo
    <3>2. streamed' = streamed /\ streamed[s] < Streams
      BY <1>1, <2>13 DEF StartStream
    <3>3. p \in SuitePlaces \ {"queued"}
      BY DEF SuitePlaces, Measuring
    <3>4. QED
      BY <2>7, <3>1, <3>2, <3>3
  <2>14. CASE WorkerClosed(s)
    <3>1. CASE MoveTo(s, "closing") /\ UNCHANGED streamed
      <4>1. "closing" \in SuitePlaces \ {"queued"}
        BY DEF SuitePlaces
      <4>2. QED
        BY <2>7, <3>1, <4>1 DEF MoveTo
    <3>2. CASE MoveTo(s, "counting") /\ streamed' = [streamed EXCEPT ![s] = @ + 1]
      <4>1. streamed[s] < Streams /\ streamed[s] \in Nat /\ "counting" \in SuitePlaces
        BY <1>1, <2>14 DEF WorkerClosed, Stopping, SuitePlaces, Measuring
      <4>2. streamed[s] + 1 \in 0 .. Streams
        BY <1>0, <4>1
      <4>3. /\ streamed' \in [Suites -> 0 .. Streams]
            /\ \A r \in Suites \ {s} : streamed'[r] = streamed[r]
        BY <1>1, <3>2, <4>2
      <4>4. at' = [at EXCEPT ![s] = "counting"]
        BY <3>2 DEF MoveTo
      <4>5. QED
        BY <2>1, <2>2, <2>3, <2>4, <4>3, <4>4, QueueKept
    <3>3. QED
      BY <2>14, <3>1, <3>2 DEF WorkerClosed, AfterStop
  <2>15. CASE StopTimesOut(s)
    <3>1. PICK p \in {"outwaiting", "closing"} : at' = [at EXCEPT ![s] = p]
      BY <2>15 DEF StopTimesOut, AfterStop, MoveTo
    <3>2. streamed' = streamed /\ streamed[s] < Streams
      BY <1>1, <2>15 DEF StopTimesOut, AfterStop
    <3>3. p \in SuitePlaces \ {"queued"}
      BY DEF SuitePlaces, Stopping
    <3>4. QED
      BY <2>7, <3>1, <3>2, <3>3
  <2>16. CASE CloseEngine(s)
    <3>1. CASE cancelled[s]
      <4>1. "cancelled" \in SuitePlaces \ {"queued"}
        BY DEF SuitePlaces, Over
      <4>2. at' = [at EXCEPT ![s] = "cancelled"] /\ streamed' = streamed
        BY <2>16, <3>1 DEF CloseEngine, LeaveSuite, MoveTo
      <4>3. QED
        BY <2>7, <4>1, <4>2
    <3>2. CASE ~cancelled[s]
      BY <2>8, <2>16, <3>2 DEF CloseEngine, AddRow, MoveTo
    <3>3. QED
      BY <3>1, <3>2
  <2>17. CASE WriteStore(s)
    <3>1. PICK p \in {"stored", "unstored"} : at' = [at EXCEPT ![s] = p]
      BY <1>0, <2>17 DEF WriteStore, MoveTo
    <3>2. at[s] = "writing" /\ streamed' = streamed
      BY <2>17 DEF WriteStore, BenchmarkIInv, StoreConsistent
    <3>3. p \in SuitePlaces \ {"queued"} /\ streamed[s] < Streams
      BY <1>1, <3>2 DEF SuitePlaces, Over
    <3>4. QED
      BY <2>7, <3>1, <3>2, <3>3
  <2>18. QED
    BY <1>6, <2>9, <2>10, <2>11, <2>12, <2>13, <2>14, <2>15, <2>16, <2>17 DEF SuiteStep
<1>7. QED
  BY <1>3, <1>4, <1>5, <1>6

LEMMA RestHolds == BenchmarkInit /\ [][BenchmarkNext]_benchmarkVars => [](BenchmarkIInv /\ BenchmarkRest)
<1>1. BenchmarkInit => BenchmarkRest
  <2>1. SUFFICES ASSUME BenchmarkInit PROVE BenchmarkRest
    OBVIOUS
  <2>2. Streams \in Nat \ {0} /\ MaxAuto \in Nat
    BY BenchmarkAssumption
  <2>3. \A r \in Suites : at[r] # "queued" /\ streamed[r] = 0
    BY <2>1 DEF BenchmarkInit
  <2>4. waiting = <<>> /\ waiting \in Seq(Suites) /\ streamed \in [Suites -> 0 .. Streams]
    BY <2>1, <2>2 DEF BenchmarkInit
  <2>5. QED
    BY <2>1, <2>2, <2>3, <2>4 DEF BenchmarkInit, BenchmarkRest
<1>2. BenchmarkIInv /\ BenchmarkRest /\ [BenchmarkNext]_benchmarkVars => BenchmarkRest'
  <2>1. SUFFICES ASSUME BenchmarkIInv, BenchmarkRest, [BenchmarkNext]_benchmarkVars PROVE BenchmarkRest'
    OBVIOUS
  <2>2. ASSUME UNCHANGED <<suiteVars, fixed>>, storeLock' \in Writers \cup {NoSuite}, autoLeft' \in 0 .. MaxAuto
        PROVE  BenchmarkRest'
    BY <2>1, <2>2 DEF BenchmarkRest, suiteVars
  <2>3. storeLock \in Writers \cup {NoSuite} /\ autoLeft \in 0 .. MaxAuto /\ Automatic \in Writers
    BY <2>1 DEF BenchmarkRest, Writers
  <2>4. ASSUME NEW e \in Engines, WorkerExits(e) \/ DeferredClose(e) PROVE BenchmarkRest'
    BY <2>2, <2>3, <2>4 DEF WorkerExits, DeferredClose, storeVars
  <2>5. CASE ReadStore(Automatic)
    BY <2>2, <2>3, <2>5, BenchmarkAssumption DEF ReadStore, suiteVars, engineVars
  <2>6. CASE WriteStore(Automatic)
    BY <2>2, <2>3, <2>6 DEF WriteStore, suiteVars, engineVars
  <2>7. CASE ClearStore
    BY <2>2, <2>3, <2>7 DEF ClearStore, engineVars
  <2>8. CASE UNCHANGED benchmarkVars
    BY <2>2, <2>3, <2>8 DEF benchmarkVars, engineVars, storeVars
  <2>9. QED
    BY <2>1, <2>4, <2>5, <2>6, <2>7, <2>8, RestOfSuite DEF BenchmarkNext
<1>3. QED
  BY <1>1, <1>2, BenchmarkInitIInv, BenchmarkStepIInv, PTL

-----------------------------------------------------------------------------
(* The suite: a step is one of the module that moves, or leaves it alone.    *)

LEMMA ServicesMove ==
  [ServicesNext]_partVars =>
    /\ [StreamNext]_streamVars /\ [EmbeddingNext]_embeddingVars
    /\ [EventNext]_pollingVars /\ [BenchmarkNext]_benchmarkVars
BY DEF ServicesNext, partVars

\* In the suite each module has the types it has alone.
THEOREM ServicesTypeCorrect == ServicesSpec => []ServicesTypeOK
<1>1. ServicesInit => StreamInit /\ EmbeddingInit /\ EventInit /\ BenchmarkInit
  BY DEF ServicesInit
<1>2. BenchmarkIInv /\ BenchmarkRest => BenchmarkTypeOK
  BY DEF BenchmarkIInv, BenchmarkTypes, BenchmarkRest, BenchmarkTypeOK, SuitePlaces
<1>3. StreamTypeOK /\ EmbeddingTypeOK /\ EventTypeOK /\ BenchmarkTypeOK => ServicesTypeOK
  BY DEF ServicesTypeOK
<1>4. ServicesSpec => /\ StreamSpec /\ EmbeddingSpec /\ EventSpec
                      /\ BenchmarkInit /\ [][BenchmarkNext]_benchmarkVars
  BY <1>1, ServicesMove, PTL DEF ServicesSpec, StreamSpec, EmbeddingSpec, EventSpec
<1>5. QED
  BY <1>2, <1>3, <1>4, StreamTypeCorrect, EmbeddingTypeCorrect, EventsTypeCorrect, RestHolds, PTL
==============================================================================
