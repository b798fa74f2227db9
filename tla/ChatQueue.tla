------------------------------ MODULE ChatQueue ------------------------------
(***************************************************************************)
(* The web page's chats and the prompts that wait for a model: sending,     *)
(* switching, regenerating and deleting (web/index.html), one generation at *)
(* a time in the order asked for (app/chat_context_ui.py), the prompt of    *)
(* each chat that waits for its model and the recovery after a reload       *)
(* (app/chat_queue_ui.py).                                                  *)
(*                                                                         *)
(* A message is its role.  The page is one thread: an action is what it does*)
(* in one turn, timers of 0 ms included.  The stored chats differ from the  *)
(* page's in what is not saved at once, pendingReady; writing the store is  *)
(* in ConversationStore.                                                    *)
(***************************************************************************)
EXTENDS Naturals, Sequences, SequencesExt, FiniteSets

CONSTANTS
  Chats,       \* chat identifiers the page may hand out
  ChatModels,  \* models of the server
  MaxPrompts,  \* bound: prompts sent
  NoModel

\* The page always has a chat, the server's catalog a model.
ASSUME QueueAssumption ==
  MaxPrompts \in Nat /\ NoModel \notin ChatModels /\ Chats # {} /\ ChatModels # {}

VARIABLES
  chats,        \* chats: messages, model and pending prompt of each
  activeChat,   \* activeChatId
  pendingChats, \* pendingChats: the job of each chat
  tail,         \* generationTail: the generation under way and those behind it
  stream,       \* what the generation under way has received, and its abort signal
  known,        \* availableModels, as the last status said
  served,       \* the models as the server has them
  reply,        \* the status request under way
  savedReady    \* pendingReady in the browser's storage

queueVars == <<chats, activeChat, pendingChats, tail, stream, known, served, reply, savedReady>>

Roles == {"user", "assistant"}
ModelStates == {"idle", "busy", "loaded", "error"}
NoChat == [exists |-> FALSE, messages |-> <<>>, model |-> NoModel, pending |-> NoModel, ready |-> FALSE]
NoPending == [on |-> FALSE, model |-> NoModel, running |-> FALSE, ready |-> FALSE, resumed |-> FALSE]
NoStream == [text |-> FALSE, abort |-> FALSE]
NoReply == [pc |-> "none", models |-> [m \in ChatModels |-> "idle"]]
MaxLength == 2 * MaxPrompts
Prompts == Cardinality({at \in Chats \X (1..MaxLength) :
                          at[2] \in DOMAIN chats[at[1]].messages /\ chats[at[1]].messages[at[2]] = "user"})

QueueTypeOK ==
  /\ \A c \in Chats :
       /\ chats[c].exists \in BOOLEAN /\ chats[c].messages \in Seq(Roles)
       /\ chats[c].model \in ChatModels \cup {NoModel}
       /\ chats[c].pending \in ChatModels \cup {NoModel} /\ chats[c].ready \in BOOLEAN
       /\ pendingChats[c] \in [on : BOOLEAN, model : ChatModels \cup {NoModel}, running : BOOLEAN,
                               ready : BOOLEAN, resumed : BOOLEAN]
  /\ activeChat \in Chats /\ chats[activeChat].exists
  /\ \A i \in DOMAIN tail : tail[i] \in [chat : Chats, queued : BOOLEAN, model : ChatModels]
  /\ stream \in [text : BOOLEAN, abort : BOOLEAN]
  /\ known \in [ChatModels -> ModelStates \cup {"unknown"}] /\ served \in [ChatModels -> ModelStates]
  /\ reply.pc \in {"none", "answered"} /\ savedReady \subseteq Chats

Blank(model) == [NoChat EXCEPT !.exists = TRUE, !.model = model]
AnyModel == CHOOSE m \in ChatModels : TRUE
QueueInit ==
  /\ activeChat = CHOOSE c \in Chats : TRUE
  /\ chats = [c \in Chats |-> IF c = activeChat THEN Blank(AnyModel) ELSE NoChat]
  /\ pendingChats = [c \in Chats |-> NoPending] /\ tail = <<>> /\ stream = NoStream
  /\ known = [m \in ChatModels |-> "unknown"] /\ served = [m \in ChatModels |-> "idle"]
  /\ reply = NoReply /\ savedReady = {}

pageState == [chats |-> chats, jobs |-> pendingChats, tail |-> tail]
Saved(p) == savedReady' = {c \in Chats : p.chats[c].exists /\ p.chats[c].ready}
Becomes(p) == chats' = p.chats /\ pendingChats' = p.jobs /\ tail' = p.tail
isGenerating == tail # <<>>

-----------------------------------------------------------------------------
(* Parts of a turn: what they make of the page.                             *)

\* executeGeneration: the chat keeps the model it has now
Generate(p, c, queued) ==
  [p EXCEPT !.tail = Append(@, [chat |-> c, queued |-> queued, model |-> p.chats[c].model])]

\* Regression form: the chat's own record of the pending prompt stays.
ClearJobOnly(p, c) == [p EXCEPT !.jobs[c] = NoPending]

ClearPending(p, c) ==
  [p EXCEPT !.jobs[c] = NoPending,
            !.chats[c].pending = NoModel, !.chats[c].ready = FALSE]

\* Regression form: a job that runs is run again.
RunPendingAgain(p, c, active) ==
  IF ~p.jobs[c].on THEN p
  ELSE IF ~p.chats[c].exists THEN ClearPending(p, c)
  ELSE IF c # active THEN [p EXCEPT !.jobs[c].ready = TRUE, !.chats[c].ready = TRUE]
  ELSE Generate([p EXCEPT !.jobs[c].running = TRUE, !.jobs[c].ready = FALSE, !.chats[c].ready = FALSE],
                c, TRUE)

RunPending(p, c, active) ==
  IF ~p.jobs[c].on \/ p.jobs[c].running THEN p
  ELSE IF ~p.chats[c].exists THEN ClearPending(p, c)
  ELSE IF c # active THEN [p EXCEPT !.jobs[c].ready = TRUE, !.chats[c].ready = TRUE]
  ELSE Generate([p EXCEPT !.jobs[c].running = TRUE, !.jobs[c].ready = FALSE, !.chats[c].ready = FALSE],
                c, TRUE)

\* renderChat: a ready job of the chat that becomes visible runs.
RenderChat(p, c) ==
  IF p.jobs[c].on /\ (p.jobs[c].ready \/ known[p.jobs[c].model] = "loaded") THEN RunPending(p, c, c) ELSE p

\* A request the server may refuse.
Requested(m) == served' \in {served, [served EXCEPT ![m] = IF @ \in {"idle", "error"} THEN "busy" ELSE @]}
StopGeneration == IF isGenerating THEN stream' = [stream EXCEPT !.abort = TRUE] ELSE UNCHANGED stream

-----------------------------------------------------------------------------
(* The user.                                                                *)

Selected == chats[activeChat].model
Say(p, c) == [p EXCEPT !.chats[c].messages = Append(@, "user")]

\* sendMessage; while something generates the button stops it.
Send ==
  /\ UNCHANGED <<activeChat, known, served, reply>>
  /\ IF isGenerating THEN StopGeneration /\ UNCHANGED <<chats, pendingChats, tail, savedReady>>
     ELSE /\ known[Selected] = "loaded" /\ Prompts < MaxPrompts
          /\ LET p == Generate(Say(pageState, activeChat), activeChat, FALSE) IN Becomes(p) /\ Saved(p)
          /\ UNCHANGED stream

\* startQueuedLoad: a chat has one waiting prompt.
StartQueuedLoad ==
  /\ ~isGenerating /\ known[Selected] \notin {"loaded", "unknown"} /\ Prompts < MaxPrompts
  /\ ~pendingChats[activeChat].on
  /\ LET c == activeChat
         p == [Say(pageState, c) EXCEPT
                 !.jobs[c] = [NoPending EXCEPT !.on = TRUE, !.model = Selected,
                                               !.resumed = known[Selected] # "busy"],
                 !.chats[c].pending = Selected] IN
     Becomes(p) /\ Saved(p)
  /\ IF known[Selected] = "busy" THEN UNCHANGED served ELSE Requested(Selected)
  /\ UNCHANGED <<activeChat, stream, known, reply>>

\* With an image attached the prompt is not queued, only its model prepared.
PrepareForImage ==
  /\ ~isGenerating /\ known[Selected] \in {"idle", "error"} /\ Requested(Selected)
  /\ UNCHANGED <<chats, activeChat, pendingChats, tail, stream, known, reply, savedReady>>

SelectModel(m) ==
  /\ chats' = [chats EXCEPT ![activeChat].model = m]
  /\ UNCHANGED <<activeChat, pendingChats, tail, stream, known, served, reply, savedReady>>

Show(p, c) == activeChat' = c /\ LET q == RenderChat(p, c) IN Becomes(q) /\ Saved(q)

SwitchChat(c) ==
  /\ c # activeChat /\ chats[c].exists /\ StopGeneration /\ Show(pageState, c)
  /\ UNCHANGED <<known, served, reply>>

NewChat(c) ==
  /\ ~chats[c].exists /\ ~pendingChats[c].on /\ chats[activeChat].messages # <<>>
  /\ (\A i \in DOMAIN tail : tail[i].chat # c)
  /\ StopGeneration /\ activeChat' = c
  /\ LET p == [pageState EXCEPT !.chats[c] = Blank(Selected)] IN Becomes(p) /\ Saved(p)
  /\ UNCHANGED <<known, served, reply>>

\* The job goes first; then the user is asked, unless the chat is empty.
DeleteChat(c) ==
  /\ chats[c].exists
  /\ LET p == IF pendingChats[c].on THEN ClearPending(pageState, c) ELSE pageState
         q == [p EXCEPT !.chats[c] = NoChat] IN
     \/ /\ chats[c].messages # <<>>           \* the user declines
        /\ Becomes(p) /\ Saved(p) /\ UNCHANGED <<activeChat, stream>>
     \/ /\ c # activeChat /\ Becomes(q) /\ Saved(q) /\ UNCHANGED <<activeChat, stream>>
     \/ /\ c = activeChat /\ StopGeneration
        /\ \E d \in Chats \ {c} :
             \/ chats[d].exists /\ Show(q, d)
             \/ /\ \A e \in Chats \ {c} : ~chats[e].exists
                /\ ~pendingChats[d].on /\ (\A i \in DOMAIN tail : tail[i].chat # d)
                /\ Show([q EXCEPT !.chats[d] = Blank(Selected)], d)
  /\ UNCHANGED <<known, served, reply>>

\* "Clear all local chats": jobs are found to be without a chat at the next status.
ClearAll(d) ==
  /\ ~chats[d].exists /\ ~pendingChats[d].on /\ (\A i \in DOMAIN tail : tail[i].chat # d)
  /\ StopGeneration
  /\ LET p == [pageState EXCEPT !.chats = [c \in Chats |-> IF c = d THEN Blank(Selected) ELSE NoChat]] IN
     activeChat' = d /\ Becomes(p) /\ Saved(p)
  /\ UNCHANGED <<known, served, reply>>

RegenerateLast ==
  /\ ~isGenerating /\ known[Selected] = "loaded"
  /\ LET c == activeChat
         kept == chats[c].messages
         left == IF kept # <<>> /\ Last(kept) = "assistant" THEN Front(kept) ELSE kept
         p == [pageState EXCEPT !.chats[c].messages = left] IN
     /\ kept # <<>>
     /\ LET q == IF left # <<>> /\ Last(left) = "user" THEN Generate(p, c, FALSE) ELSE p IN
        Becomes(q) /\ Saved(q)
  /\ UNCHANGED <<activeChat, stream, known, served, reply>>

-----------------------------------------------------------------------------
(* Generations.                                                             *)

TextArrives ==
  /\ isGenerating /\ ~stream.text /\ served[Head(tail).model] = "loaded"
  /\ stream' = [stream EXCEPT !.text = TRUE]
  /\ UNCHANGED <<chats, activeChat, pendingChats, tail, known, served, reply, savedReady>>

\* The end, complete, stopped or failed: text that arrived is kept, the chat gets its
\* model back, the job is over and the next generation begins.
GenerationEnds ==
  /\ isGenerating /\ stream' = NoStream
  /\ LET g == Head(tail)
         said == IF stream.text THEN Append(chats[g.chat].messages, "assistant") ELSE chats[g.chat].messages
         p == IF chats[g.chat].exists
              THEN [pageState EXCEPT !.tail = Tail(@), !.chats[g.chat].messages = said,
                                     !.chats[g.chat].model = g.model]
              ELSE [pageState EXCEPT !.tail = Tail(@)]
         q == IF g.queued THEN ClearPending(p, g.chat) ELSE p IN
     Becomes(q) /\ Saved(q)
  /\ UNCHANGED <<activeChat, known, served, reply>>

-----------------------------------------------------------------------------
(* Status.                                                                  *)

\* The server answers; the page sees the answer later.
AnswerStatus ==
  /\ reply.pc = "none" /\ reply' = [pc |-> "answered", models |-> served]
  /\ UNCHANGED <<chats, activeChat, pendingChats, tail, stream, known, served, savedReady>>

\* processStatus for one job: too old or failed, loaded, or still to be prepared; the
\* retry of a preparation that did not start is due or not.
Process(p, c, expired, retry) ==
  LET j == p.jobs[c] IN
  IF ~j.on THEN p
  ELSE IF ~p.chats[c].exists \/ expired THEN ClearPending(p, c)
  ELSE IF reply.models[j.model] = "loaded" THEN
    LET ready == [p EXCEPT !.jobs[c].ready = TRUE, !.chats[c].ready = TRUE] IN
    IF c = activeChat THEN RunPending(ready, c, activeChat) ELSE ready
  ELSE IF reply.models[j.model] = "error" THEN ClearPending(p, c)
  ELSE [p EXCEPT !.jobs[c].ready = FALSE, !.chats[c].ready = FALSE,
                 !.jobs[c].resumed = reply.models[j.model] = "idle" \/ (@ /\ ~retry)]

Prepares(c, retry) ==
  /\ pendingChats[c].on /\ reply.models[pendingChats[c].model] = "idle"
  /\ retry \/ ~pendingChats[c].resumed

\* What makes a status save the chats
Ended(p) == \E c \in Chats : pendingChats[c].on /\ ~p.jobs[c].on
NewlyReady(p) == \E c \in Chats : ~pendingChats[c].ready /\ p.jobs[c].ready

\* The jobs are independent: each changes its own chat, and only the visible one runs.
Processed(expired, retry) ==
  LET of(c) == Process(pageState, c, c \in expired, retry) IN
  [chats |-> [c \in Chats |-> of(c).chats[c]], jobs |-> [c \in Chats |-> of(c).jobs[c]],
   tail |-> of(activeChat).tail]

\* A reply without the model is one with its error.
StatusTurn(expired, retry) ==
  /\ reply.pc = "answered" /\ reply' = NoReply /\ known' = reply.models
  /\ LET p == Processed(expired, retry)
         asked == {pendingChats[c].model : c \in {d \in Chats \ expired : Prepares(d, retry) /\ chats[d].exists}} IN
     /\ Becomes(p)
     /\ IF p.tail # tail \/ Ended(p) \/ NewlyReady(p) THEN Saved(p) ELSE UNCHANGED savedReady
     /\ \E begun \in SUBSET asked :
          served' = [m \in ChatModels |-> IF m \in begun /\ served[m] \in {"idle", "error"} THEN "busy" ELSE served[m]]
  /\ UNCHANGED <<activeChat, stream>>
ProcessStatus ==
  \E expired \in SUBSET {c \in Chats : pendingChats[c].on}, retry \in BOOLEAN : StatusTurn(expired, retry)

\* A new page: chats whose last message still waits are pending again.
Reload ==
  /\ LET waits(c) == chats[c].exists /\ chats[c].pending # NoModel
                       /\ chats[c].messages # <<>> /\ Last(chats[c].messages) = "user"
         p == [chats |-> [c \in Chats |->
                            IF waits(c) THEN [chats[c] EXCEPT !.ready = c \in savedReady]
                            ELSE [chats[c] EXCEPT !.pending = NoModel, !.ready = FALSE]],
               jobs |-> [c \in Chats |->
                           IF waits(c) THEN [NoPending EXCEPT !.on = TRUE, !.model = chats[c].pending,
                                                              !.ready = c \in savedReady]
                           ELSE NoPending],
               tail |-> <<>>]
         q == IF p.jobs[activeChat].on /\ p.jobs[activeChat].ready THEN RunPending(p, activeChat, activeChat) ELSE p IN
     Becomes(q) /\ Saved(q)
  /\ stream' = NoStream /\ known' = [m \in ChatModels |-> "unknown"] /\ reply' = NoReply
  /\ UNCHANGED <<activeChat, served>>

\* The server, for this page and its other clients.
ServerMoves(m, s) ==
  /\ served' = [served EXCEPT ![m] = s] /\ s # served[m]
  /\ s \in {"loaded", "error"} => served[m] = "busy"
  /\ UNCHANGED <<chats, activeChat, pendingChats, tail, stream, known, reply, savedReady>>

QueueNext ==
  \/ Send \/ StartQueuedLoad \/ PrepareForImage \/ RegenerateLast \/ TextArrives \/ GenerationEnds
  \/ (\E m \in ChatModels : SelectModel(m))
  \/ \E c \in Chats : SwitchChat(c) \/ NewChat(c) \/ DeleteChat(c) \/ ClearAll(c)
  \/ AnswerStatus \/ ProcessStatus \/ Reload
  \/ \E m \in ChatModels, s \in ModelStates : ServerMoves(m, s)

QueueSpec == QueueInit /\ [][QueueNext]_queueVars

-----------------------------------------------------------------------------
\* The page and the stored chat agree on which chats wait for a model: a waiting prompt
\* survives a reload, and no chat says "Preparing" without a job
\* (chat_queue_ui.py:79-87, :193-208).
WaitingIsRecorded ==
  \A c \in Chats : chats[c].exists =>
    /\ pendingChats[c].on <=> chats[c].pending # NoModel
    /\ pendingChats[c].on => pendingChats[c].model = chats[c].pending

\* A job that runs has its generation, exactly one; a job that does not run has none.
RunsOnce ==
  \A c \in Chats :
    /\ pendingChats[c].running => \E i \in DOMAIN tail : tail[i].chat = c /\ tail[i].queued
    /\ \A i, k \in DOMAIN tail : tail[i].chat = c /\ tail[k].chat = c /\ tail[i].queued /\ tail[k].queued => i = k

\* What the page promises of waiting prompts.
QueueSafe == WaitingIsRecorded /\ RunsOnce

\* A waiting prompt is generated in its own chat while that is the active one
\* (tests/test_chat_queue_ui.py:47).  Not so when it waits behind another generation.
RunsInItsChat ==
  [][ (/\ tail' # <<>> /\ (tail = <<>> \/ (Len(tail') < Len(tail) /\ tail' = Tail(tail)))
       /\ Head(tail').queued)
      => Head(tail').chat = activeChat' ]_queueVars

\* A waiting prompt is forgotten only when it was answered, failed or expired, or with its
\* chat: not when the user declines to delete the chat.
OnlyEndsForget ==
  [][ \A c \in Chats : (chats'[c].exists /\ pendingChats[c].on /\ ~pendingChats'[c].on)
        => reply' # reply \/ Len(tail') < Len(tail) ]_queueVars
=============================================================================
