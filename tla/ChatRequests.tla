---------------------------- MODULE ChatRequests ----------------------------
(***************************************************************************)
(* Requests of the HTTP API that use the loaded model: chat completions    *)
(* (app/server.py), responses (app/responses_api.py), embeddings and the   *)
(* context preflight (app/context_budget.py).                              *)
(*                                                                         *)
(* A prompt with images names a context, the decoded images of a table     *)
(* with a limit (app/multimodal.py).  Rendering a prompt stores one, each  *)
(* candidate of the budget search anew (app/chat_format.py), the native    *)
(* call takes it out, and every other end has to discard it.               *)
(*                                                                         *)
(* One model; its engine, locks and the lease are those of EngineLifecycle *)
(* and here only "loaded" and the holder of the lock.  A step is what a    *)
(* request does between two waits, or its worker thread between two looks  *)
(* at the table.  Text, tokens and the wording of events are left out.     *)
(***************************************************************************)
EXTENDS Naturals, Sequences, FiniteSets

CONSTANTS
  ChatIds,        \* requests at a time
  Kinds,          \* routes they use: of ChatKinds
  ContextLimit,   \* _CONTEXT_LIMIT, or what the bytes limit leaves room for
  MaxRetries      \* MAX_RETRIES of a malformed tool call

ChatKinds == {"chat", "responses", "preflight", "embedding"}
NoRequest == "nobody"
ASSUME ChatAssumption ==
  /\ IsFiniteSet(ChatIds) /\ NoRequest \notin ChatIds /\ Kinds \subseteq ChatKinds
  /\ ContextLimit \in Nat /\ MaxRetries \in Nat

VARIABLES
  chats,      \* each request
  contexts,   \* multimodal._contexts: <<request, n>> for the n-th of that request
  expired,    \* those older than _CONTEXT_TTL_SECONDS
  chatLock,   \* the request that holds the model's lock
  available   \* the model is loaded

chatTables == <<contexts, expired>>
chatVars == <<chats, chatTables, chatLock, available>>

ContextNumbers == 1..2

\* Steps of the worker that builds a prompt, and all steps that hold the lease
Building == {"full", "counting", "window", "candidate", "final", "checking", "built"}
Leased == Building \cup {"native", "running", "closing", "counted"}
\* Waits for the lease
Queued == {"prompt", "turn", "recount"}
Ended == [pc |-> "idle", kind |-> "chat", stream |-> FALSE, tools |-> FALSE, key |-> 0,
          retries |-> 0, left |-> FALSE, purged |-> FALSE, sent |-> <<>>, counted |-> 0, end |-> "none"]

ChatTypeOK ==
  /\ \A r \in ChatIds :
       /\ chats[r].pc \in {"idle", "start", "failing", "tail"} \cup Queued \cup Leased
       /\ chats[r].kind \in ChatKinds /\ chats[r].key \in {0} \cup ContextNumbers
       /\ chats[r].retries \in 0..MaxRetries /\ chats[r].counted \in Nat
       /\ {chats[r].stream, chats[r].tools, chats[r].left, chats[r].purged} \subseteq BOOLEAN
       /\ chats[r].end \in {"none", "answered", "refused", "failed", "broken", "left"}
  /\ contexts \subseteq ChatIds \X ContextNumbers /\ expired \subseteq contexts
  /\ chatLock \in ChatIds \cup {NoRequest} /\ available \in BOOLEAN

ChatInit ==
  /\ chats = [r \in ChatIds |-> Ended]
  /\ contexts = {} /\ expired = {} /\ chatLock = NoRequest /\ available = TRUE

-----------------------------------------------------------------------------
(* Parts of steps.                                                          *)

At(r, pc) == chats[r].pc = pc
Go(r, pc) == chats' = [chats EXCEPT ![r].pc = pc]

Context(r) == <<r, chats[r].key>>

\* discard_prompt_context: nothing happens when the context is gone already
DropContexts(gone) == contexts' = contexts \ gone /\ expired' = expired \ gone
Discard(r) == DropContexts({Context(r)})

Acquire(r) == available /\ chatLock = NoRequest /\ chatLock' = r
ReleaseLock == chatLock' = NoRequest

\* Leaving with CancelledError, when it has been asked for, or with another outcome
Outcome(r, e) == IF chats[r].left THEN "left" ELSE e
EndWith(r, e) == chats' = [chats EXCEPT ![r].pc = "idle", ![r].key = 0, ![r].end = e]

Append1(s, e) == IF s # <<>> /\ s[Len(s)] = e THEN s ELSE Append(s, e)
Say(r, events) == chats[r].sent \o events

-----------------------------------------------------------------------------
(* The prompt.                                                              *)

\* chat_completions, create_response, create_embeddings, the preflight; a model that
\* is not loaded is refused at once
Arrive(r, kind, stream, tools) ==
  /\ At(r, "idle") /\ available
  /\ kind \in {"preflight", "embedding"} => ~stream /\ ~tools
  /\ chats' = [chats EXCEPT ![r] = [Ended EXCEPT
       !.pc = IF kind = "embedding" THEN "turn" ELSE "prompt",
       !.kind = kind, !.stream = stream, !.tools = tools]]
  /\ UNCHANGED <<chatTables, chatLock, available>>

PromptLease(r) ==
  /\ At(r, "prompt") /\ Acquire(r) /\ Go(r, "full")
  /\ UNCHANGED <<chatTables, available>>

\* The lease raises ModelNotLoaded: nothing has been stored for this prompt, and the
\* context of a prompt that is being retried was taken out by its generation.
PromptRefused(r) ==
  /\ At(r, "prompt") /\ ~available
  /\ Discard(r) /\ EndWith(r, "refused")
  /\ UNCHANGED <<chatLock, available>>

After(pc) == CASE pc = "full" -> "counting" [] pc = "window" -> "candidate" [] pc = "final" -> "checking"

\* prepare_vision_messages and _store_context: contexts past their time are purged,
\* then the limit counts.  Messages without an image store nothing.
Purge == contexts \ expired
MarkPurged == [q \in ChatIds |->
                 IF Context(q) \in expired THEN [chats[q] EXCEPT !.purged = TRUE] ELSE chats[q]]

Render(r, image) ==
  /\ chats[r].pc \in {"full", "window", "final"}
  /\ \/ /\ ~image
        /\ chats' = [chats EXCEPT ![r].pc = After(@), ![r].key = 0]
        /\ UNCHANGED <<chatTables, chatLock>>
     \/ /\ image /\ Cardinality(Purge) < ContextLimit
        /\ \E n \in ContextNumbers :
             /\ <<r, n>> \notin Purge /\ \A k \in 1..(n-1) : <<r, k>> \in Purge
             /\ contexts' = Purge \cup {<<r, n>>} /\ expired' = {}
             /\ chats' = [MarkPurged EXCEPT ![r].pc = After(@), ![r].key = n, ![r].purged = FALSE]
        /\ UNCHANGED chatLock
     \/ /\ image /\ Cardinality(Purge) >= ContextLimit
        /\ contexts' = Purge /\ expired' = {} /\ ReleaseLock
        /\ chats' = [MarkPurged EXCEPT ![r].pc = "idle", ![r].key = 0, ![r].end = Outcome(r, "refused")]
  /\ UNCHANGED available

\* _count_or_release
CountFails(r) ==
  /\ chats[r].pc \in {"counting", "candidate", "checking"}
  /\ Discard(r) /\ ReleaseLock /\ EndWith(r, Outcome(r, "failed"))
  /\ UNCHANGED available

\* The whole conversation fits, or is discarded for a search over its turns; without
\* turns only the instructions are rendered.
CountFull(r) ==
  /\ At(r, "counting")
  /\ \/ Go(r, "built") /\ UNCHANGED chatTables
     \/ /\ Discard(r)
        /\ \E next \in {"window", "final"} : chats' = [chats EXCEPT ![r].pc = next, ![r].key = 0]
  /\ UNCHANGED <<chatLock, available>>

\* Regression form: a candidate that fits keeps its context until the next one.
CountCandidateKeepsIt(r) ==
  /\ At(r, "candidate")
  /\ \E next \in {"window", "final"} :
       /\ IF next = "window" THEN Discard(r) ELSE UNCHANGED chatTables
       /\ chats' = [chats EXCEPT ![r].pc = next, ![r].key = 0]
  /\ UNCHANGED <<chatLock, available>>

CountCandidate(r) ==
  /\ At(r, "candidate") /\ Discard(r)
  /\ \E next \in {"window", "final"} : chats' = [chats EXCEPT ![r].pc = next, ![r].key = 0]
  /\ UNCHANGED <<chatLock, available>>

CountFinal(r) ==
  /\ At(r, "checking") /\ Go(r, "built")
  /\ UNCHANGED <<chatTables, chatLock, available>>

\* The coroutine takes the prompt over.  A cancelled request discards it, and so does
\* one whose prompt leaves no room for an answer.
Built(r) ==
  /\ At(r, "built") /\ chats[r].kind # "preflight" /\ ReleaseLock
  /\ \/ chats[r].left /\ Discard(r) /\ EndWith(r, "left")
     \/ ~chats[r].left /\ Discard(r) /\ EndWith(r, "refused")
     \/ /\ ~chats[r].left /\ UNCHANGED chatTables
        /\ Go(r, IF chats[r].stream THEN "start" ELSE "turn")
  /\ UNCHANGED available

\* A preflight is answered from its analysis and discards the prompt.
PreflightAnswered(r) ==
  /\ At(r, "built") /\ chats[r].kind = "preflight" /\ ReleaseLock
  /\ Discard(r) /\ EndWith(r, Outcome(r, "answered"))
  /\ UNCHANGED available

-----------------------------------------------------------------------------
(* The generation.                                                          *)

StreamStarts(r) ==
  /\ At(r, "start")
  /\ chats' = [chats EXCEPT ![r].pc = "turn",
                            ![r].sent = IF chats[r].kind = "responses" THEN <<"created">> ELSE <<>>]
  /\ UNCHANGED <<chatTables, chatLock, available>>

\* Regression form: without the background task.
NoBackgroundTask(r) ==
  /\ At(r, "start") /\ EndWith(r, "left")
  /\ UNCHANGED <<chatTables, chatLock, available>>

\* The client leaves before the body is asked for: the generator, with its finally
\* block, never starts, and only the background task knows the context.
StreamNeverStarts(r) ==
  /\ At(r, "start") /\ Discard(r) /\ EndWith(r, "left")
  /\ UNCHANGED <<chatLock, available>>

GenerationLease(r) ==
  /\ At(r, "turn") /\ Acquire(r)
  /\ Go(r, IF chats[r].kind = "embedding" THEN "running" ELSE "native")
  /\ UNCHANGED <<chatTables, available>>

\* ModelNotLoaded: inside the try block of a stream, an error response otherwise
GenerationRefused(r) ==
  /\ At(r, "turn") /\ ~available
  /\ IF chats[r].stream THEN Go(r, "failing") /\ UNCHANGED chatTables
     ELSE Discard(r) /\ EndWith(r, "refused")
  /\ UNCHANGED <<chatLock, available>>

\* consume_prompt_context in the worker: images that were purged fail the request
Consume(r) ==
  /\ At(r, "native")
  /\ IF chats[r].key = 0 \/ Context(r) \in contexts
     THEN Discard(r) /\ Go(r, "running") /\ UNCHANGED chatLock
     ELSE /\ ReleaseLock /\ UNCHANGED chatTables
          /\ IF chats[r].stream /\ ~chats[r].left THEN Go(r, "failing")
             ELSE EndWith(r, Outcome(r, "failed"))
  /\ UNCHANGED available

\* Text reaches the client while the model generates, unless tools are parsed first.
Emit(r) ==
  /\ At(r, "running") /\ chats[r].stream /\ ~chats[r].tools /\ ~chats[r].left
  /\ chats' = [chats EXCEPT ![r].sent = Append1(@, "text")]
  /\ UNCHANGED <<chatTables, chatLock, available>>

GenerationFails(r) ==
  /\ At(r, "running") /\ ReleaseLock
  /\ IF chats[r].stream /\ ~chats[r].left
     THEN Go(r, "failing") /\ UNCHANGED chatTables
     ELSE Discard(r) /\ EndWith(r, Outcome(r, "failed"))
  /\ UNCHANGED available

\* record_request, record_key_metrics and the answer
AnswerAndCount(r) ==
  chats' = [chats EXCEPT ![r].pc = "idle", ![r].key = 0, ![r].end = "answered", ![r].counted = @ + 1,
       ![r].sent = IF ~chats[r].stream THEN @
                   ELSE IF chats[r].kind = "chat" THEN Say(r, <<"usage", "done">>)
                   ELSE Say(r, <<"completed", "done">>)]

CancelledGeneration(r) ==
  /\ At(r, "running") /\ chats[r].left /\ ReleaseLock
  /\ Discard(r) /\ EndWith(r, "left")
  /\ UNCHANGED available

\* A malformed tool call is tried again with a new prompt.
RetryToolCall(r) ==
  /\ At(r, "running") /\ ~chats[r].left /\ ReleaseLock
  /\ ~chats[r].stream /\ chats[r].tools /\ chats[r].retries < MaxRetries
  /\ chats' = [chats EXCEPT ![r].pc = "prompt", ![r].retries = @ + 1]
  /\ UNCHANGED <<chatTables, available>>

\* A streamed answer, and one cut at a stop sequence, is counted anew, under another
\* lease.
GenerationEnds(r) ==
  /\ At(r, "running") /\ ~chats[r].left /\ chats[r].kind # "embedding" /\ ReleaseLock
  /\ \/ chats[r].stream /\ Go(r, "tail") /\ UNCHANGED chatTables
     \/ /\ ~chats[r].stream /\ (chats[r].kind = "chat" => ~chats[r].tools)
        /\ Go(r, "recount") /\ UNCHANGED chatTables
     \/ ~chats[r].stream /\ Discard(r) /\ AnswerAndCount(r)
  /\ UNCHANGED available

EmbeddingAnswered(r) ==
  /\ At(r, "running") /\ ~chats[r].left /\ chats[r].kind = "embedding" /\ ReleaseLock
  /\ AnswerAndCount(r)
  /\ UNCHANGED <<chatTables, available>>

\* What the stopper or the tool parser held back, and the end of the choice
StreamTail(r) ==
  /\ At(r, "tail")
  /\ \E text \in BOOLEAN :
       LET held == IF text THEN Append1(chats[r].sent, "text") ELSE chats[r].sent
       IN chats' = [chats EXCEPT ![r].pc = "recount",
                      ![r].sent = IF chats[r].kind = "chat" THEN Append(held, "finish") ELSE held]
  /\ UNCHANGED <<chatTables, chatLock, available>>

\* Regression form: the stream goes on to count and complete after its error.
FailGoesOn(r) ==
  /\ At(r, "failing")
  /\ chats' = [chats EXCEPT ![r].pc = "recount", ![r].sent = Say(r, <<"error">>)]
  /\ UNCHANGED <<chatTables, chatLock, available>>

\* A failed stream tells its client and ends properly; nothing is counted.
Fail(r) ==
  /\ At(r, "failing") /\ Discard(r)
  /\ chats' = [chats EXCEPT ![r].pc = "idle", ![r].key = 0, ![r].end = "failed",
       ![r].sent = Say(r, IF chats[r].kind = "chat" THEN <<"error", "finish", "done">>
                                                    ELSE <<"error", "failed", "done">>)]
  /\ UNCHANGED <<chatLock, available>>

\* count_tokens_with_current_engine
CountLease(r) ==
  /\ At(r, "recount") /\ Acquire(r) /\ Go(r, "counted")
  /\ UNCHANGED <<chatTables, available>>

\* The model was unloaded after the last token: ModelNotLoaded leaves the generator,
\* or turns a finished answer into an error response.
CountRefused(r) ==
  /\ At(r, "recount") /\ ~available
  /\ Discard(r) /\ EndWith(r, "broken")
  /\ UNCHANGED <<chatLock, available>>

Counted(r) ==
  /\ At(r, "counted") /\ ReleaseLock /\ Discard(r)
  /\ IF chats[r].left THEN EndWith(r, "left") ELSE AnswerAndCount(r)
  /\ UNCHANGED available

-----------------------------------------------------------------------------
(* Everybody else.                                                          *)

\* Regression form: a stream that is cut off leaves its native call to itself.
LeaveAtOnce(r) ==
  /\ ~chats[r].left
  /\ \/ chats[r].pc \in Queued \cup {"tail", "failing"} /\ Discard(r) /\ EndWith(r, "left")
     \/ /\ chats[r].pc \in Leased \ {"closing"}
        /\ IF At(r, "running") /\ chats[r].stream
           THEN Discard(r) /\ EndWith(r, "left")
           ELSE chats' = [chats EXCEPT ![r].left = TRUE] /\ UNCHANGED chatTables
  /\ UNCHANGED <<chatLock, available>>

\* The client disconnects or the server shuts down.  A request that waits for the
\* lease ends at once; a worker is waited for; a generation is stopped, from an await
\* or, when the generator was left at a yield, once it is collected, while the
\* background task already discards the context.
Leave(r) ==
  /\ ~chats[r].left
  /\ \/ chats[r].pc \in Queued \cup {"tail", "failing"} /\ Discard(r) /\ EndWith(r, "left")
     \/ /\ chats[r].pc \in Leased \ {"closing"}
        /\ IF At(r, "running") /\ chats[r].stream
           THEN /\ Discard(r)
                /\ chats' = [chats EXCEPT ![r].pc = "closing", ![r].left = TRUE]
           ELSE chats' = [chats EXCEPT ![r].left = TRUE] /\ UNCHANGED chatTables
  /\ UNCHANGED <<chatLock, available>>

Closed(r) ==
  /\ At(r, "closing") /\ ReleaseLock /\ Discard(r) /\ EndWith(r, "left")
  /\ UNCHANGED available

\* Thirty minutes pass.
ContextsExpire ==
  /\ expired # contexts /\ expired' = contexts
  /\ UNCHANGED <<chats, contexts, chatLock, available>>

\* unload_when_idle, and a load
UnloadChatModel ==
  /\ available /\ chatLock = NoRequest /\ available' = FALSE
  /\ UNCHANGED <<chats, chatTables, chatLock>>
LoadChatModel ==
  /\ ~available /\ available' = TRUE
  /\ UNCHANGED <<chats, chatTables, chatLock>>

-----------------------------------------------------------------------------

Works(r) ==
  \/ PromptRefused(r) \/ CountFails(r) \/ CountFull(r) \/ CountCandidate(r) \/ CountFinal(r)
  \/ \E image \in BOOLEAN : Render(r, image)
  \/ Built(r) \/ PreflightAnswered(r) \/ StreamStarts(r) \/ GenerationRefused(r) \/ Consume(r)
  \/ Emit(r) \/ GenerationFails(r) \/ CancelledGeneration(r) \/ RetryToolCall(r)
  \/ GenerationEnds(r) \/ EmbeddingAnswered(r) \/ StreamTail(r) \/ Fail(r)
  \/ CountRefused(r) \/ Counted(r) \/ Closed(r)
Leases(r) == PromptLease(r) \/ GenerationLease(r) \/ CountLease(r)

ChatNext ==
  \/ \E r \in ChatIds : Works(r) \/ Leases(r) \/ StreamNeverStarts(r) \/ Leave(r)
  \/ \E r \in ChatIds, kind \in Kinds, stream, tools \in BOOLEAN : Arrive(r, kind, stream, tools)
  \/ ContextsExpire \/ UnloadChatModel \/ LoadChatModel

ChatSpec == ChatInit /\ [][ChatNext]_chatVars

-----------------------------------------------------------------------------
(* Properties.                                                              *)

\* Images do not outlive their request: "Every candidate discarded during budgeting is
\* explicitly released; only the returned prompt keeps its context" (chat_format.py).
\* Every context kept is the one that a running request's present prompt names.
EveryContextHasItsRequest == \A c \in contexts : ~At(c[1], "idle") /\ c = Context(c[1])

\* The images a prompt names are there when its generation begins: nobody but its
\* request takes them, unless they have waited for half an hour.
ImagesReachTheModel ==
  \A r \in ChatIds : At(r, "native") /\ chats[r].key # 0 /\ ~chats[r].purged => Context(r) \in contexts

\* The model's lock is held by the request whose step needs it, and by nobody else.
LeaseIsReturned == \A r \in ChatIds : chats[r].pc \in Leased <=> chatLock = r

\* Usage is counted once for an answer that was given in full, never for a request
\* that failed, was refused or broke off.
UsageCountedOnce ==
  \A r \in ChatIds :
    chats[r].counted = IF chats[r].end = "answered" /\ chats[r].kind # "preflight" THEN 1 ELSE 0

Said(r, e) == \E i \in DOMAIN chats[r].sent : chats[r].sent[i] = e
\* What a client of a stream can rely on: "done" comes last and once, no answer is both
\* failed and completed, and who was not cut off got the end that the outcome calls for.
StreamsEndProperly ==
  \A r \in ChatIds :
    /\ \A i \in DOMAIN chats[r].sent : chats[r].sent[i] = "done" => i = Len(chats[r].sent)
    /\ ~(Said(r, "error") /\ (Said(r, "completed") \/ Said(r, "usage")))
    /\ chats[r].stream /\ chats[r].end \in {"answered", "failed"} => Said(r, "done") = (chats[r].sent # <<>>)
    /\ chats[r].end = "failed" => ~Said(r, "usage") /\ ~Said(r, "completed")

ChatSafe ==
  /\ EveryContextHasItsRequest /\ ImagesReachTheModel /\ LeaseIsReturned
  /\ UsageCountedOnce /\ StreamsEndProperly

\* docs/API_CONTRACT.md:70: a stream "terminates with `data: [DONE]`", unless its client
\* has left.
StreamsTerminateWithDone ==
  \A r \in ChatIds : chats[r].stream /\ chats[r].end = "broken" => Said(r, "done")
=============================================================================
