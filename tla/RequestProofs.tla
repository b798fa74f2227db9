---------------------------- MODULE RequestProofs ----------------------------
(***************************************************************************)
(* Proofs about requests, and about the suite of MCComponents.              *)
(*                                                                          *)
(* ChatRequests, for any number of requests and any bounds: what a request  *)
(* has said and counted follows from the step it is at (Honest), a context  *)
(* is tagged with the request that owns it (Owned) and is still there when  *)
(* the model is fed (Supplied), and the lock of the model is held by the    *)
(* one request whose step needs it.                                         *)
(*                                                                          *)
(* RequestLimits, for any clients, limits and windows: the times counted    *)
(* for a client are those since the cutoff, a list that only loses its      *)
(* oldest (Younger), and they cover the requests let through (Passing) and  *)
(* the failures told (Failing), sweeps by others included.                  *)
(*                                                                          *)
(* PromptWindow, for any conversation: windows grow with their turns, so    *)
(* what does not fit bounds what is longer, and the search keeps the answer *)
(* between its bounds (Searched).                                           *)
(*                                                                          *)
(* StopSequences, for any answer, pieces and stop sequences: what is shown  *)
(* and held back are the answer so far (Divided), enough is held back for   *)
(* the longest stop sequence (HeldBack), and the cut is where the first one *)
(* begins that came whole (CutAtTheFirst).                                  *)
(***************************************************************************)
EXTENDS MCComponents, ModelFilesProofs, SavedStateProofs, SequenceTheorems, WellFoundedInduction

-----------------------------------------------------------------------------
(* ChatRequests: what a request has said and counted so far.                 *)

ChatEnds == {"none", "answered", "refused", "failed", "broken", "left"}
ChatPcs == {"idle", "start", "failing", "tail"} \cup Queued \cup Leased
Telling == {"created", "text", "finish"}
Events == Telling \cup {"usage", "completed", "error", "failed", "done"}
Chat == [pc : ChatPcs, kind : ChatKinds, stream : BOOLEAN, tools : BOOLEAN,
         key : {0} \cup ContextNumbers, retries : 0..MaxRetries, left : BOOLEAN, purged : BOOLEAN,
         sent : Seq(Events), counted : Nat, end : ChatEnds]

\* Steps before a stream begins, and steps that only a generation takes
Unspoken == Building \cup {"prompt", "start"}
Generating == {"start", "turn", "native", "running", "closing", "tail", "recount", "counted", "failing"}
\* Steps that only a stream takes
Streaming == {"start", "tail", "failing"}

Tells(s, e) == \E i \in DOMAIN s : s[i] = e
\* Before its last words a stream says nothing but what it tells.
Clean(s) == \A i \in DOMAIN s : s[i] \in Telling
\* StreamsEndProperly for one request
EndsProperly(q) ==
  /\ \A i \in DOMAIN q.sent : q.sent[i] = "done" => i = Len(q.sent)
  /\ ~(Tells(q.sent, "error") /\ (Tells(q.sent, "completed") \/ Tells(q.sent, "usage")))
  /\ q.stream /\ q.end \in {"answered", "failed"} => Tells(q.sent, "done") = (q.sent # <<>>)
  /\ q.end = "failed" => ~Tells(q.sent, "usage") /\ ~Tells(q.sent, "completed")
\* UsageCountedOnce for one request
CountsOnce(q) == q.counted = IF q.end = "answered" /\ q.kind # "preflight" THEN 1 ELSE 0

\* An embedding has no images, is not streamed and calls no tools.
Embeds(q) ==
  q.kind = "embedding" => ~q.stream /\ ~q.tools /\ q.key = 0 /\ q.pc \in {"idle", "turn", "running"}

Honest(q) ==
  /\ q \in Chat /\ Embeds(q)
  /\ q.pc \in Generating => q.kind # "preflight"
  /\ ~q.stream => q.sent = <<>>
  /\ q.pc \in Streaming => q.stream
  /\ q.pc \in Unspoken => q.sent = <<>>
  /\ q.pc # "idle" => q.end = "none" /\ q.counted = 0 /\ Clean(q.sent)
  /\ q.pc = "idle" => CountsOnce(q) /\ EndsProperly(q)

LEMMA CleanIsProper ==
  ASSUME NEW q \in Chat, Clean(q.sent),
         q.stream /\ q.end \in {"answered", "failed"} => q.sent = <<>>
  PROVE  EndsProperly(q)
<1>1. \A e \in {"usage", "completed", "error", "failed", "done"} : ~Tells(q.sent, e)
  BY DEF Clean, Tells, Telling
<1>2. \A i \in DOMAIN q.sent : q.sent[i] # "done"
  BY <1>1 DEF Tells
<1>3. q.sent = <<>> => Tells(q.sent, "done") = (q.sent # <<>>)
  BY <1>2 DEF Tells
<1>4. QED
  BY <1>1, <1>2, <1>3 DEF EndsProperly

\* The last words of an answer given in full
LEMMA AnswerIsProper ==
  ASSUME NEW q \in Chat, NEW s \in Seq(Events), Clean(s), NEW e \in {"usage", "completed"},
         q.end = "answered", q.sent = s \o <<e, "done">>
  PROVE  EndsProperly(q)
<1>1. /\ q.sent \in Seq(Events) /\ Len(q.sent) = Len(s) + 2
      /\ \A i \in 1..Len(s) : q.sent[i] = s[i]
      /\ q.sent[Len(s) + 1] = e /\ q.sent[Len(s) + 2] = "done"
  BY DEF Events
<1>t. \A i \in 1..Len(s) : s[i] \in Telling
  BY DEF Clean
<1>2. \A i \in DOMAIN q.sent : i \in 1..Len(s) \/ i = Len(s) + 1 \/ i = Len(s) + 2
  BY <1>1
<1>3. \A i \in DOMAIN q.sent : q.sent[i] = "done" => i = Len(q.sent)
  BY <1>1, <1>2, <1>t DEF Telling
<1>4. \A i \in DOMAIN q.sent : q.sent[i] # "error"
  BY <1>1, <1>2, <1>t DEF Telling
<1>5. Len(s) + 2 \in DOMAIN q.sent /\ q.sent # <<>>
  BY <1>1 DEF Events
<1>5a. Tells(q.sent, "done") = (q.sent # <<>>)
  BY <1>1, <1>5 DEF Tells
<1>6. QED
  BY <1>3, <1>4, <1>5a DEF EndsProperly, Tells

\* The last words of a failed stream
LEMMA FailureIsProper ==
  ASSUME NEW q \in Chat, NEW s \in Seq(Events), Clean(s), NEW e \in {"finish", "failed"},
         q.end = "failed", q.sent = s \o <<"error", e, "done">>
  PROVE  EndsProperly(q)
<1>1. /\ q.sent \in Seq(Events) /\ Len(q.sent) = Len(s) + 3
      /\ \A i \in 1..Len(s) : q.sent[i] = s[i]
      /\ q.sent[Len(s) + 1] = "error" /\ q.sent[Len(s) + 2] = e /\ q.sent[Len(s) + 3] = "done"
  BY DEF Events, Telling
<1>t. \A i \in 1..Len(s) : s[i] \in Telling
  BY DEF Clean
<1>2. \A i \in DOMAIN q.sent : i \in 1..Len(s) \/ i = Len(s) + 1 \/ i = Len(s) + 2 \/ i = Len(s) + 3
  BY <1>1
<1>3. \A i \in DOMAIN q.sent : q.sent[i] = "done" => i = Len(q.sent)
  BY <1>1, <1>2, <1>t DEF Telling
<1>4. \A i \in DOMAIN q.sent : q.sent[i] # "completed" /\ q.sent[i] # "usage"
  BY <1>1, <1>2, <1>t DEF Telling
<1>5. Len(s) + 3 \in DOMAIN q.sent /\ q.sent # <<>>
  BY <1>1 DEF Events
<1>6. Tells(q.sent, "done") = (q.sent # <<>>)
  BY <1>1, <1>5 DEF Tells
<1>7. QED
  BY <1>3, <1>4, <1>6 DEF EndsProperly, Tells

\* A step that ends nothing
LEMMA StaysHonest ==
  ASSUME NEW p, NEW q \in Chat, Honest(p), Embeds(q), p.pc # "idle", q.pc # "idle",
         q.kind = p.kind, q.stream = p.stream, q.sent = p.sent, q.counted = p.counted, q.end = p.end,
         q.pc \in Generating => p.kind # "preflight", q.pc \in Streaming => p.stream, q.pc \in Unspoken => p.sent = <<>>
  PROVE  Honest(q)
  BY DEF Honest

\* A step that ends a request without an answer
LEMMA EndsHonestly ==
  ASSUME NEW p, NEW q \in Chat, Honest(p), Embeds(q), p.pc # "idle", q.pc = "idle",
         q.kind = p.kind, q.stream = p.stream, q.sent = p.sent, q.counted = p.counted,
         q.end \in ChatEnds,
         q.end = "answered" => q.kind = "preflight" /\ q.sent = <<>>,
         q.end = "failed" => (q.stream => q.sent = <<>>)
  PROVE  Honest(q)
<1>1. EndsProperly(q)
  BY CleanIsProper DEF Honest
<1>2. QED
  BY <1>1 DEF Honest, CountsOnce, Generating, Streaming, Unspoken, Building

-----------------------------------------------------------------------------
(* ChatRequests: the requests, the table of contexts and the lock.           *)

\* Steps at which the table may hold the request's context, and those at which it does
\* unless the context was purged
Owning == {"counting", "candidate", "checking", "built", "start", "turn", "native", "failing"}
Supplying == Owning \ {"failing"}

ChatTyped ==
  /\ chats \in [ChatIds -> Chat]
  /\ contexts \subseteq ChatIds \X ContextNumbers /\ expired \subseteq contexts
  /\ chatLock \in ChatIds \cup {NoRequest} /\ available \in BOOLEAN

Owned == \A r \in ChatIds, n \in ContextNumbers :
           <<r, n>> \in contexts => chats[r].pc \in Owning /\ chats[r].key = n
Supplied == \A r \in ChatIds :
              chats[r].pc \in Supplying /\ chats[r].key # 0 /\ ~chats[r].purged => <<r, chats[r].key>> \in contexts

ChatInv ==
  /\ ChatTyped /\ \A r \in ChatIds : Honest(chats[r])
  /\ LeaseIsReturned /\ Owned /\ Supplied

LEMMA ChatSafeFromInv == ChatInv => ChatTypeOK /\ ChatSafe
<1> SUFFICES ASSUME ChatInv PROVE ChatTypeOK /\ ChatSafe
  OBVIOUS
<1>1. ChatTypeOK
  <2>1. ASSUME NEW r \in ChatIds PROVE chats[r] \in Chat
    BY DEF ChatInv, ChatTyped
  <2>2. QED
    BY <2>1 DEF ChatInv, ChatTyped, ChatTypeOK, Chat, ChatPcs, ChatEnds
<1>2. EveryContextHasItsRequest
  <2> SUFFICES ASSUME NEW c \in contexts PROVE ~At(c[1], "idle") /\ c = Context(c[1])
    BY DEF EveryContextHasItsRequest
  <2>1. c[1] \in ChatIds /\ c[2] \in ContextNumbers /\ c = <<c[1], c[2]>>
    BY DEF ChatInv, ChatTyped
  <2>2. QED
    BY <2>1 DEF ChatInv, Owned, Owning, At, Context
<1>3. ImagesReachTheModel
  BY DEF ImagesReachTheModel, ChatInv, Supplied, Supplying, Owning, At, Context
<1>4. UsageCountedOnce
  BY DEF UsageCountedOnce, ChatInv, Honest, CountsOnce
<1>5. StreamsEndProperly
  <2>1. ASSUME NEW r \in ChatIds PROVE EndsProperly(chats[r])
    BY CleanIsProper DEF ChatInv, ChatTyped, Honest
  <2>2. QED
    BY <2>1 DEF StreamsEndProperly, EndsProperly, Said, Tells
<1>6. QED
  BY <1>1, <1>2, <1>3, <1>4, <1>5 DEF ChatSafe, ChatInv

LEMMA EndedIsAChat ==
  /\ Ended \in Chat /\ Ended.sent = <<>> /\ Ended.counted = 0 /\ Ended.end = "none" /\ Ended.key = 0
  BY ChatAssumption DEF Ended, Chat, ChatPcs, ChatKinds, ChatEnds

LEMMA ChatStarts == ChatInit => ChatInv
<1> SUFFICES ASSUME ChatInit PROVE ChatInv
  OBVIOUS
<1>1. Ended \in Chat
  BY ChatAssumption DEF Ended, Chat, ChatPcs, ChatKinds, ChatEnds
<1>2. Honest(Ended)
  <2>1. EndsProperly(Ended)
    BY <1>1, CleanIsProper DEF Ended, Clean
  <2>2. QED
    BY <1>1, <2>1 DEF Honest, Embeds, CountsOnce, Ended, Streaming, Generating, Unspoken, Building
<1>3. QED
  BY <1>1, <1>2, ChatAssumption DEF ChatInit, ChatInv, ChatTyped, LeaseIsReturned, Owned, Supplied,
       Supplying,
       Owning, Leased, Building, Ended

\* What a step does with the lock: it takes it, holds it, gives it back or does not have it.
LockMoves(r, to) ==
  \/ to \in Leased /\ chatLock \in {r, NoRequest} /\ chatLock' = r
  \/ to \notin Leased /\ chatLock' = (IF chatLock = r THEN NoRequest ELSE chatLock)

\* A step of one request that stores no context
LEMMA OneChatMoves ==
  ASSUME ChatInv, NEW r \in ChatIds, NEW q,
         chats' = [chats EXCEPT ![r] = q], Honest(q), LockMoves(r, q.pc),
         UNCHANGED chatTables \/ Discard(r),
         (UNCHANGED chatTables /\ q.pc \in Owning /\ q.key = chats[r].key)
           \/ (\A n \in ContextNumbers : <<r, n>> \notin contexts'),
         q.pc \in Supplying => q.key = 0 \/ (/\ UNCHANGED contexts /\ chats[r].pc \in Supplying
                                        /\ q.key = chats[r].key /\ q.purged = chats[r].purged),
         available' \in BOOLEAN
  PROVE  ChatInv'
<1>1. ChatTyped'
  BY DEF ChatInv, ChatTyped, Honest, LockMoves, chatTables, Discard, DropContexts
<1>2. \A p \in ChatIds \ {r} : chats'[p] = chats[p]
  BY DEF ChatInv, ChatTyped
<1>3. chats'[r] = q
  BY DEF ChatInv, ChatTyped
<1>4. (\A p \in ChatIds : Honest(chats[p]))'
  BY <1>2, <1>3 DEF ChatInv
<1>5. LeaseIsReturned'
  BY <1>2, <1>3, ChatAssumption DEF ChatInv, ChatTyped, LeaseIsReturned, LockMoves
<1>6. \A p \in ChatIds \ {r} : \A n : <<p, n>> \in contexts' <=> <<p, n>> \in contexts
  BY DEF chatTables, Discard, DropContexts, Context
<1>7. Owned'
  <2> SUFFICES ASSUME NEW p \in ChatIds, NEW n \in ContextNumbers, <<p, n>> \in contexts'
               PROVE  chats'[p].pc \in Owning /\ chats'[p].key = n
    BY DEF Owned
  <2>1. CASE p = r
    BY <2>1, <1>3 DEF ChatInv, Owned, chatTables
  <2>2. CASE p # r
    BY <2>2, <1>2, <1>6 DEF ChatInv, Owned
  <2>3. QED
    BY <2>1, <2>2
<1>8. Supplied'
  <2> SUFFICES ASSUME NEW p \in ChatIds, chats'[p].pc \in Supplying, chats'[p].key # 0, ~chats'[p].purged
               PROVE  <<p, chats'[p].key>> \in contexts'
    BY DEF Supplied
  <2>1. CASE p = r
    BY <2>1, <1>3 DEF ChatInv, Supplied
  <2>2. CASE p # r
    BY <2>2, <1>2, <1>6 DEF ChatInv, Supplied
  <2>3. QED
    BY <2>1, <2>2
<1>9. QED
  BY <1>1, <1>4, <1>5, <1>7, <1>8 DEF ChatInv

LEMMA TableEmptied ==
  ASSUME ChatInv, NEW r \in ChatIds,
         Discard(r) \/ (UNCHANGED contexts /\ chats[r].pc \notin Owning)
                    \/ (UNCHANGED contexts /\ chats[r].key = 0)
  PROVE  \A n \in ContextNumbers : <<r, n>> \notin contexts'
<1> SUFFICES ASSUME NEW n \in ContextNumbers, <<r, n>> \in contexts' PROVE FALSE
  OBVIOUS
<1>1. n # 0
  BY DEF ContextNumbers
<1>2. <<r, n>> \in contexts /\ (Discard(r) => <<r, n>> # <<r, chats[r].key>>)
  BY DEF Discard, DropContexts, Context
<1>3. chats[r].pc \in Owning /\ chats[r].key = n
  BY <1>2 DEF ChatInv, Owned
<1>4. QED
  BY <1>1, <1>2, <1>3

LEMMA LockGivenBack ==
  ASSUME ChatInv, NEW r \in ChatIds, NEW to, to \notin Leased,
         (ReleaseLock /\ chats[r].pc \in Leased) \/ (UNCHANGED chatLock /\ chats[r].pc \notin Leased)
  PROVE  LockMoves(r, to)
  BY DEF ChatInv, LeaseIsReturned, ReleaseLock, LockMoves

LEMMA LockKept ==
  ASSUME ChatInv, NEW r \in ChatIds, NEW to \in Leased,
         Acquire(r) \/ (UNCHANGED chatLock /\ chats[r].pc \in Leased)
  PROVE  LockMoves(r, to)
  BY DEF ChatInv, LeaseIsReturned, Acquire, LockMoves

\* A request goes to another step and nothing else about it changes.
LEMMA GoesOn ==
  ASSUME ChatInv, NEW r \in ChatIds, NEW to \in ChatPcs \ {"idle"}, Go(r, to), chats[r].pc # "idle",
         to \in Generating => chats[r].kind # "preflight",
         to \in Unspoken => chats[r].sent = <<>>,
         to \in Streaming => chats[r].stream,
         chats[r].kind = "embedding" => to \in {"turn", "running"},
         LockMoves(r, to), available' \in BOOLEAN,
         \/ UNCHANGED chatTables /\ (to \in Owning \/ chats[r].pc \notin Owning \/ chats[r].key = 0)
         \/ Discard(r),
         to \in Supplying => chats[r].key = 0 \/ (UNCHANGED contexts /\ chats[r].pc \in Supplying)
  PROVE  ChatInv'
<1> DEFINE p == chats[r]
           q == [p EXCEPT !.pc = to]
<1>1. p \in Chat /\ Honest(p)
  BY DEF ChatInv, ChatTyped
<1>2. q \in Chat
  BY <1>1 DEF Chat
<1>3. /\ q.pc = to /\ q.kind = p.kind /\ q.stream = p.stream /\ q.sent = p.sent
      /\ q.counted = p.counted /\ q.end = p.end /\ q.key = p.key /\ q.purged = p.purged
      /\ q.tools = p.tools
  BY <1>1 DEF Chat
<1>4. chats' = [chats EXCEPT ![r] = q]
  BY DEF Go
<1> HIDE DEF q
<1>5. Honest(q)
  <2>1. Embeds(q)
    BY <1>1, <1>3 DEF Honest, Embeds
  <2>2. QED
    BY <2>1, <1>1, <1>2, <1>3, StaysHonest
<1>6. \/ UNCHANGED chatTables /\ q.pc \in Owning /\ q.key = chats[r].key
      \/ \A n \in ContextNumbers : <<r, n>> \notin contexts'
  BY <1>3, TableEmptied DEF chatTables
<1>7. UNCHANGED chatTables \/ Discard(r)
  OBVIOUS
<1>8. q.pc \in Supplying => q.key = 0 \/ (/\ UNCHANGED contexts /\ chats[r].pc \in Supplying
                                     /\ q.key = chats[r].key /\ q.purged = chats[r].purged)
  BY <1>3
<1>9. LockMoves(r, q.pc)
  BY <1>3
<1>10. QED
  BY <1>4, <1>5, <1>6, <1>7, <1>8, <1>9, OneChatMoves

\* A request drops its prompt and is somewhere in the search for another.
LEMMA GoesOnWithout ==
  ASSUME ChatInv, NEW r \in ChatIds, NEW to \in Building, chats[r].pc \in Building,
         chats' = [chats EXCEPT ![r].pc = to, ![r].key = 0],
         UNCHANGED chatLock, available' \in BOOLEAN,
         Discard(r) \/ (UNCHANGED chatTables /\ chats[r].pc \notin Owning)
  PROVE  ChatInv'
<1> DEFINE p == chats[r]
           q == [p EXCEPT !.pc = to, !.key = 0]
<1>1. p \in Chat /\ Honest(p)
  BY DEF ChatInv, ChatTyped
<1>2. q \in Chat
  BY <1>1 DEF Chat, ChatPcs, Leased
<1>3. /\ q.pc = to /\ q.kind = p.kind /\ q.stream = p.stream /\ q.sent = p.sent
      /\ q.counted = p.counted /\ q.end = p.end /\ q.key = 0 /\ q.tools = p.tools
  BY <1>1 DEF Chat
<1>4. chats' = [chats EXCEPT ![r] = q]
  OBVIOUS
<1> HIDE DEF q
<1>5. to \notin Generating /\ to \notin Streaming /\ to # "idle" /\ to \in Leased /\ p.pc # "idle" /\ p.pc \in Leased /\ p.sent = <<>>
  BY <1>1 DEF Generating, Streaming, Building, Leased, Honest, Unspoken
<1>6. Honest(q)
  <2>1. Embeds(q)
    BY <1>1, <1>3 DEF Honest, Embeds, Building
  <2>2. QED
    BY <2>1, <1>1, <1>2, <1>3, <1>5, StaysHonest
<1>7. \A n \in ContextNumbers : <<r, n>> \notin contexts'
  BY TableEmptied DEF chatTables
<1>8. LockMoves(r, q.pc)
  BY <1>3, <1>5, LockKept
<1>9. QED
  BY <1>3, <1>4, <1>6, <1>7, <1>8, OneChatMoves

\* A request ends without an answer, or with that of a preflight.
LEMMA EndsAlone ==
  ASSUME ChatInv, NEW r \in ChatIds, NEW e \in ChatEnds, EndWith(r, e), chats[r].pc # "idle",
         e = "answered" => chats[r].pc = "built" /\ chats[r].kind = "preflight",
         e = "failed" => (chats[r].stream => chats[r].sent = <<>>),
         (ReleaseLock /\ chats[r].pc \in Leased) \/ (UNCHANGED chatLock /\ chats[r].pc \notin Leased),
         Discard(r) \/ (UNCHANGED chatTables /\ \A n \in ContextNumbers : <<r, n>> \notin contexts),
         available' \in BOOLEAN
  PROVE  ChatInv'
<1> DEFINE p == chats[r]
           q == [p EXCEPT !.pc = "idle", !.key = 0, !.end = e]
<1>1. p \in Chat /\ Honest(p)
  BY DEF ChatInv, ChatTyped
<1>2. q \in Chat
  BY <1>1 DEF Chat, ChatPcs
<1>3. /\ q.pc = "idle" /\ q.kind = p.kind /\ q.stream = p.stream /\ q.sent = p.sent
      /\ q.counted = p.counted /\ q.end = e /\ q.key = 0 /\ q.tools = p.tools
  BY <1>1 DEF Chat
<1>4. chats' = [chats EXCEPT ![r] = q]
  BY DEF EndWith
<1> HIDE DEF q
<1>5. e = "answered" => p.sent = <<>>
  BY <1>1 DEF Honest, Unspoken, Building
<1>6. Honest(q)
  <2>1. Embeds(q)
    BY <1>1, <1>3 DEF Honest, Embeds
  <2>2. QED
    BY <2>1, <1>1, <1>2, <1>3, <1>5, EndsHonestly
<1>7. \A n \in ContextNumbers : <<r, n>> \notin contexts'
  BY TableEmptied DEF chatTables
<1>8. LockMoves(r, q.pc)
  BY <1>3, LockGivenBack DEF Leased, Building
<1>9. q.pc \notin Supplying
  BY <1>3 DEF Supplying, Owning
<1>10. UNCHANGED chatTables \/ Discard(r)
  OBVIOUS
<1>11. QED
  BY <1>4, <1>6, <1>7, <1>8, <1>9, <1>10, OneChatMoves

\* A request ends with an answer given in full.
LEMMA AnswersAlone ==
  ASSUME ChatInv, NEW r \in ChatIds, AnswerAndCount(r), chats[r].pc \in {"running", "counted"},
         ReleaseLock, Discard(r) \/ (UNCHANGED chatTables /\ chats[r].pc = "running"),
         available' \in BOOLEAN
  PROVE  ChatInv'
<1> DEFINE p == chats[r]
           s == IF ~p.stream THEN p.sent
                ELSE IF p.kind = "chat" THEN Say(r, <<"usage", "done">>) ELSE Say(r, <<"completed", "done">>)
           q == [p EXCEPT !.pc = "idle", !.key = 0, !.end = "answered", !.counted = p.counted + 1, !.sent = s]
<1>1. p \in Chat /\ Honest(p)
  BY DEF ChatInv, ChatTyped
<1>2. /\ p.sent \in Seq(Events) /\ Clean(p.sent) /\ p.kind # "preflight" /\ p.counted = 0
      /\ p.pc # "idle" /\ p.pc \in Leased /\ p.pc \notin Owning
  BY <1>1 DEF Honest, Chat, Generating, Leased, Owning
<1>3. chats' = [chats EXCEPT ![r] = q]
  BY DEF AnswerAndCount
<1>4. /\ ~p.stream => s = p.sent
      /\ p.stream => \E e \in {"usage", "completed"} : s = p.sent \o <<e, "done">>
  BY DEF Say
<1> HIDE DEF s
<1>5. s \in Seq(Events)
  <2>1. CASE p.stream
    <3>1. PICK e \in {"usage", "completed"} : s = p.sent \o <<e, "done">>
      BY <2>1, <1>4
    <3>2. <<e, "done">> \in Seq(Events)
      BY DEF Events
    <3>3. QED
      BY <1>2, <3>1, <3>2
  <2>2. QED
    BY <2>1, <1>2, <1>4
<1>6. q \in Chat
  <2> DEFINE n == p.counted + 1
  <2>1. n \in Nat
    BY <1>2
  <2> HIDE DEF n
  <2>2. [p EXCEPT !.pc = "idle", !.key = 0, !.end = "answered", !.counted = n, !.sent = s] \in Chat
    BY <1>1, <1>5, <2>1 DEF Chat, ChatPcs, ChatEnds
  <2>3. QED
    BY <2>2 DEF n
<1>7. /\ q.pc = "idle" /\ q.kind = p.kind /\ q.stream = p.stream /\ q.sent = s
      /\ q.counted = 1 /\ q.end = "answered" /\ q.key = 0 /\ q.tools = p.tools
  BY <1>1, <1>2 DEF Chat
<1> HIDE DEF q
<1>8. EndsProperly(q)
  <2>1. CASE p.stream
    BY <2>1, <1>2, <1>4, <1>6, <1>7, AnswerIsProper
  <2>2. CASE ~p.stream
    BY <2>2, <1>2, <1>4, <1>6, <1>7, CleanIsProper
  <2>3. QED
    BY <2>1, <2>2
<1>9. Honest(q)
  BY <1>1, <1>2, <1>4, <1>6, <1>7, <1>8 DEF Honest, Embeds, CountsOnce, Streaming, Generating,
       Unspoken, Building
<1>10. \A n \in ContextNumbers : <<r, n>> \notin contexts'
  BY <1>2, TableEmptied DEF chatTables
<1>11. LockMoves(r, q.pc)
  BY <1>2, <1>7, LockGivenBack DEF Leased, Building
<1>12. q.pc \notin Supplying
  BY <1>7 DEF Supplying, Owning
<1>13. QED
  BY <1>3, <1>9, <1>10, <1>11, <1>12, OneChatMoves

-----------------------------------------------------------------------------
(* ChatRequests: the steps.                                                   *)

LEMMA ArriveKeeps ==
  ASSUME ChatInv, NEW r \in ChatIds, NEW kind \in Kinds, NEW stream \in BOOLEAN, NEW tools \in BOOLEAN,
         Arrive(r, kind, stream, tools)
  PROVE  ChatInv'
<1> DEFINE to == IF kind = "embedding" THEN "turn" ELSE "prompt"
           q == [Ended EXCEPT !.pc = to, !.kind = kind, !.stream = stream, !.tools = tools]
<1>0. to \in ChatPcs /\ to # "idle" /\ to \notin Leased /\ to \in {"turn", "prompt"}
  BY DEF ChatPcs, Queued, Leased, Building
<1>3. chats' = [chats EXCEPT ![r] = q] /\ chats[r].pc = "idle" /\ UNCHANGED <<contexts, expired, chatLock, available>>
  BY DEF Arrive, At, chatTables
<1>4. (to \in Generating => kind # "preflight") /\ to \notin Streaming
  BY DEF Leased, Building, Generating, Streaming
<1>5a. kind = "embedding" => ~stream /\ ~tools /\ to = "turn"
  BY DEF Arrive
<1> HIDE DEF to
<1>1. q \in Chat
  BY <1>0, ChatAssumption, EndedIsAChat DEF Chat
<1>2. /\ q.stream = stream /\ q.tools = tools /\ q.pc = to /\ q.kind = kind /\ q.sent = <<>>
      /\ q.counted = 0 /\ q.end = "none" /\ q.key = 0
  BY EndedIsAChat DEF Chat
<1> HIDE DEF q
<1>5. Honest(q)
  <2>1. Embeds(q)
    BY <1>2, <1>5a DEF Embeds
  <2>2. QED
    BY <2>1, <1>0, <1>1, <1>2, <1>4 DEF Honest, Clean
<1>6. \A n \in ContextNumbers : <<r, n>> \notin contexts'
  BY <1>3, TableEmptied DEF Owning
<1>7. LockMoves(r, q.pc)
  BY <1>0, <1>2, <1>3, LockGivenBack DEF Leased, Building
<1>8. UNCHANGED chatTables /\ available' \in BOOLEAN
  BY <1>3 DEF chatTables, ChatInv, ChatTyped
<1>9. QED
  BY <1>2, <1>3, <1>5, <1>6, <1>7, <1>8, OneChatMoves

\* Facts about the steps that the cases below need
LEMMA StepFacts ==
  /\ Building \subseteq Leased /\ Leased \subseteq ChatPcs /\ Queued \subseteq ChatPcs
  /\ Queued \cap Leased = {} /\ "idle" \notin Queued \cup Leased
  /\ Owning \subseteq ChatPcs /\ Supplying \subseteq Owning /\ Building \subseteq Unspoken
  /\ Building \cap Generating = {}
  BY DEF Building, Leased, ChatPcs, Queued, Owning, Supplying, Unspoken, Generating

LEMMA LeaseKeeps ==
  ASSUME ChatInv, NEW r \in ChatIds, Leases(r)
  PROVE  ChatInv'
<1>1. Acquire(r) /\ UNCHANGED <<chatTables, available>> /\ available' \in BOOLEAN
  BY DEF Leases, PromptLease, GenerationLease, CountLease, ChatInv, ChatTyped
<1>2. Honest(chats[r])
  BY DEF ChatInv
<1>3. CASE PromptLease(r)
  <2>1. Go(r, "full") /\ chats[r].pc = "prompt"
    BY <1>3 DEF PromptLease, At
  <2>2. chats[r].sent = <<>>
    BY <1>2, <2>1 DEF Honest, Unspoken
  <2>3. QED
    <3>1. /\ "full" \in ChatPcs \ {"idle"} /\ "full" \in Leased /\ "full" \notin Generating /\ "full" \notin Streaming
          /\ "full" \notin Supplying /\ chats[r].pc \notin Owning
      BY <2>1 DEF Leased, Building, ChatPcs, Generating, Streaming, Owning, Supplying
    <3>2. chats[r].kind # "embedding"
      BY <1>2, <2>1 DEF Honest, Embeds
    <3>3. LockMoves(r, "full")
      BY <1>1, <3>1, LockKept
    <3>4. QED
      BY <1>1, <2>1, <2>2, <3>1, <3>2, <3>3, GoesOn
<1>4. CASE GenerationLease(r)
  <2> DEFINE to == IF chats[r].kind = "embedding" THEN "running" ELSE "native"
  <2>1. Go(r, to) /\ to \in {"running", "native"}
    BY <1>4 DEF GenerationLease
  <2>2. chats[r].pc = "turn" /\ chats[r].kind # "preflight"
    BY <1>2, <1>4 DEF GenerationLease, At, Honest, Generating
  <2>3. to = "running" => chats[r].kind = "embedding" /\ chats[r].key = 0
    <3>1. to = "running" => chats[r].kind = "embedding"
      OBVIOUS
    <3>2. QED
      BY <3>1, <1>2 DEF Honest, Embeds
  <2>4. to \in ChatPcs \ {"idle"} /\ to \in Leased /\ to \notin Unspoken /\ to \notin Streaming
    BY <2>1 DEF ChatPcs, Leased, Unspoken, Building, Streaming
  <2>5. \/ to \in Owning
        \/ chats[r].key = 0
    BY <2>1, <2>3 DEF Owning
  <2>6. chats[r].kind = "embedding" => to \in {"turn", "running"}
    OBVIOUS
  <2> HIDE DEF to
  <2>7. LockMoves(r, to)
    BY <1>1, <2>4, LockKept
  <2>8. chats[r].pc \in Supplying /\ UNCHANGED contexts
    BY <1>1, <2>2 DEF Supplying, Owning, chatTables
  <2>9. QED
    BY <1>1, <2>1, <2>2, <2>4, <2>5, <2>6, <2>7, <2>8, GoesOn
<1>5. CASE CountLease(r)
  <2>1. Go(r, "counted") /\ chats[r].pc = "recount"
    BY <1>5 DEF CountLease, At
  <2>2. chats[r].kind # "preflight"
    BY <1>2, <2>1 DEF Honest, Generating
  <2>3. QED
    <3>1. /\ "counted" \in ChatPcs \ {"idle"} /\ "counted" \in Leased /\ "counted" \notin Unspoken /\ "counted" \notin Streaming
          /\ "counted" \notin Supplying /\ chats[r].pc \notin Owning
      BY <2>1 DEF Leased, Building, ChatPcs, Unspoken, Streaming, Owning, Supplying
    <3>2. chats[r].kind # "embedding"
      BY <1>2, <2>1 DEF Honest, Embeds
    <3>3. LockMoves(r, "counted")
      BY <1>1, <3>1, LockKept
    <3>4. QED
      BY <1>1, <2>1, <2>2, <3>1, <3>2, <3>3, GoesOn
<1>6. QED
  BY <1>3, <1>4, <1>5 DEF Leases

\* A purge: the requests whose contexts it takes are marked, and none is a request that renders.
LEMMA Purged ==
  ASSUME ChatInv
  PROVE  /\ MarkPurged \in [ChatIds -> Chat]
         /\ \A p \in ChatIds : /\ Honest(MarkPurged[p]) /\ MarkPurged[p].pc = chats[p].pc
                               /\ MarkPurged[p].key = chats[p].key
                               /\ Context(p) \notin expired => MarkPurged[p] = chats[p]
                               /\ Context(p) \in expired => MarkPurged[p].purged
<1> SUFFICES ASSUME NEW p \in ChatIds
             PROVE  /\ MarkPurged[p] \in Chat
                    /\ Honest(MarkPurged[p]) /\ MarkPurged[p].pc = chats[p].pc
                    /\ MarkPurged[p].key = chats[p].key
                    /\ Context(p) \notin expired => MarkPurged[p] = chats[p]
                    /\ Context(p) \in expired => MarkPurged[p].purged
  BY DEF MarkPurged
<1> DEFINE q == [chats[p] EXCEPT !.purged = TRUE]
<1>1. chats[p] \in Chat /\ Honest(chats[p])
  BY DEF ChatInv, ChatTyped
<1>2. MarkPurged[p] = IF Context(p) \in expired THEN q ELSE chats[p]
  BY DEF MarkPurged
<1>3. q \in Chat
  BY <1>1 DEF Chat
<1>4. /\ q.pc = chats[p].pc /\ q.kind = chats[p].kind /\ q.stream = chats[p].stream
      /\ q.tools = chats[p].tools /\ q.key = chats[p].key /\ q.sent = chats[p].sent
      /\ q.counted = chats[p].counted /\ q.end = chats[p].end /\ q.purged
  BY <1>1 DEF Chat
<1> HIDE DEF q
<1>5. Context(p) \in expired => Honest(q)
  <2> SUFFICES ASSUME Context(p) \in expired PROVE Honest(q)
    OBVIOUS
  <2>1. <<p, chats[p].key>> \in contexts /\ chats[p].key \in ContextNumbers
    BY DEF ChatInv, ChatTyped, Context
  <2>2. chats[p].pc # "idle"
    BY <2>1 DEF ChatInv, Owned, Owning
  <2>3. Embeds(q)
    BY <1>1, <1>4 DEF Honest, Embeds
  <2>4. QED
    BY <1>1, <1>3, <1>4, <2>2, <2>3, StaysHonest DEF Honest
<1>6. QED
  BY <1>1, <1>2, <1>3, <1>4, <1>5

\* The table after a purge, with the request that purged in state q and its context n, if any
LEMMA RendersAnew ==
  ASSUME ChatInv, NEW r \in ChatIds, NEW q, Honest(q), chats[r].pc \notin Owning,
         chats' = [MarkPurged EXCEPT ![r] = q], LockMoves(r, q.pc), UNCHANGED available,
         expired' = {},
         \/ contexts' = Purge /\ q.pc \notin Supplying
         \/ \E n \in ContextNumbers : contexts' = Purge \cup {<<r, n>>} /\ q.key = n /\ q.pc \in Owning
  PROVE  ChatInv'
<1>1. /\ \A p \in ChatIds \ {r} : chats'[p] = MarkPurged[p]
      /\ chats'[r] = q /\ chats' \in [ChatIds -> Chat]
  BY Purged DEF Honest
<1>2. ChatTyped'
  BY <1>1 DEF ChatInv, ChatTyped, Purge, LockMoves
<1>3. (\A p \in ChatIds : Honest(chats[p]))'
  BY <1>1, Purged
<1>4. LeaseIsReturned'
  BY <1>1, Purged, ChatAssumption DEF ChatInv, ChatTyped, LeaseIsReturned, LockMoves
<1>5. \A n \in ContextNumbers : <<r, n>> \notin contexts
  BY DEF ChatInv, Owned
<1>6. \A p \in ChatIds \ {r} : \A n : <<p, n>> \in contexts' <=> <<p, n>> \in contexts \ expired
  BY DEF Purge
<1>7. Owned'
  <2> SUFFICES ASSUME NEW p \in ChatIds, NEW n \in ContextNumbers, <<p, n>> \in contexts'
               PROVE  chats'[p].pc \in Owning /\ chats'[p].key = n
    BY DEF Owned
  <2>1. CASE p = r
    BY <2>1, <1>1, <1>5 DEF Purge
  <2>2. CASE p # r
    BY <2>2, <1>1, <1>6, Purged DEF ChatInv, Owned
  <2>3. QED
    BY <2>1, <2>2
<1>8. Supplied'
  <2> SUFFICES ASSUME NEW p \in ChatIds, chats'[p].pc \in Supplying, chats'[p].key # 0, ~chats'[p].purged
               PROVE  <<p, chats'[p].key>> \in contexts'
    BY DEF Supplied
  <2>1. CASE p = r
    BY <2>1, <1>1
  <2>2. CASE p # r
    <3>1. chats'[p] = MarkPurged[p] /\ Context(p) \notin expired
      BY <2>2, <1>1, Purged
    <3>2. chats'[p] = chats[p]
      BY <3>1, Purged
    <3>3. QED
      BY <2>2, <1>6, <3>1, <3>2 DEF ChatInv, Supplied, Context
  <2>3. QED
    BY <2>1, <2>2
<1>9. QED
  BY <1>2, <1>3, <1>4, <1>7, <1>8 DEF ChatInv

LEMMA RenderKeeps ==
  ASSUME ChatInv, NEW r \in ChatIds, NEW image \in BOOLEAN, Render(r, image)
  PROVE  ChatInv'
<1> DEFINE p == chats[r]
<1>1. /\ p \in Chat /\ Honest(p) /\ p.pc \in {"full", "window", "final"}
      /\ UNCHANGED available /\ available' \in BOOLEAN
  BY DEF ChatInv, ChatTyped, Render
<1>2. /\ p.pc \in Building /\ p.pc \in Leased /\ p.pc \notin Owning /\ p.pc # "idle" /\ p.sent = <<>>
      /\ p.kind # "embedding" /\ p.end = "none" /\ p.counted = 0
  BY <1>1 DEF Building, Leased, Owning, Honest, Unspoken, Embeds
<1> DEFINE to == After(p.pc)
<1>3. to \in {"counting", "candidate", "checking"}
  BY <1>1 DEF After
<1>4. to \in Building /\ to \notin Streaming /\ to \in Leased /\ to \in ChatPcs /\ to \notin Generating /\ to # "idle" /\ to \in Owning
  BY <1>3 DEF Building, Leased, ChatPcs, Generating, Streaming, Owning
<1>5. chatLock = r
  BY <1>2 DEF ChatInv, LeaseIsReturned
<1>6. MarkPurged[r] = p
  <2>1. Context(r) \notin contexts
    BY <1>1, <1>2 DEF ChatInv, ChatTyped, Owned, Context
  <2>2. QED
    BY <2>1, Purged DEF ChatInv, ChatTyped
<1>7. MarkPurged \in [ChatIds -> Chat]
  BY Purged
<1>8. CASE /\ chats' = [chats EXCEPT ![r].pc = After(@), ![r].key = 0] /\ UNCHANGED <<chatTables, chatLock>>
  <2>1. chats' = [chats EXCEPT ![r].pc = to, ![r].key = 0]
    BY <1>8
  <2> HIDE DEF to
  <2>2. QED
    BY <1>1, <1>2, <1>4, <1>8, <2>1, GoesOnWithout
<1>9. CASE \E n \in ContextNumbers :
             /\ contexts' = Purge \cup {<<r, n>>} /\ expired' = {} /\ UNCHANGED chatLock
             /\ chats' = [MarkPurged EXCEPT ![r].pc = After(@), ![r].key = n, ![r].purged = FALSE]
  <2>1. PICK n \in ContextNumbers :
             /\ contexts' = Purge \cup {<<r, n>>} /\ expired' = {} /\ UNCHANGED chatLock
             /\ chats' = [MarkPurged EXCEPT ![r].pc = After(@), ![r].key = n, ![r].purged = FALSE]
    BY <1>9
  <2> DEFINE q == [p EXCEPT !.pc = to, !.key = n, !.purged = FALSE]
  <2>2. chats' = [MarkPurged EXCEPT ![r] = q]
    BY <1>6, <1>7, <2>1
  <2> HIDE DEF to
  <2>3. q \in Chat
    BY <1>1, <1>4 DEF Chat
  <2>4. /\ q.pc = to /\ q.kind = p.kind /\ q.stream = p.stream /\ q.sent = p.sent
        /\ q.counted = p.counted /\ q.end = p.end /\ q.key = n
    BY <1>1 DEF Chat
  <2> HIDE DEF q
  <2>5. Honest(q)
    <3>1. Embeds(q)
      BY <1>2, <2>4 DEF Embeds
    <3>2. QED
      BY <1>1, <1>2, <1>4, <2>3, <2>4, <3>1, StaysHonest
  <2>6. LockMoves(r, q.pc)
    BY <1>2, <1>4, <2>1, <2>4, LockKept
  <2>7. QED
    BY <1>1, <1>2, <1>4, <2>1, <2>2, <2>4, <2>5, <2>6, RendersAnew
<1>10. CASE /\ contexts' = Purge /\ expired' = {} /\ ReleaseLock
            /\ chats' = [MarkPurged EXCEPT ![r].pc = "idle", ![r].key = 0, ![r].end = Outcome(r, "refused")]
  <2> DEFINE e == Outcome(r, "refused")
             q == [p EXCEPT !.pc = "idle", !.key = 0, !.end = e]
  <2>1. chats' = [MarkPurged EXCEPT ![r] = q]
    BY <1>6, <1>7, <1>10
  <2>2. e \in {"left", "refused"}
    BY DEF Outcome
  <2> HIDE DEF e
  <2>3. q \in Chat
    BY <1>1, <2>2 DEF Chat, ChatPcs, ChatEnds
  <2>4. /\ q.pc = "idle" /\ q.kind = p.kind /\ q.stream = p.stream /\ q.sent = p.sent
        /\ q.counted = p.counted /\ q.end = e /\ q.key = 0
    BY <1>1 DEF Chat
  <2> HIDE DEF q
  <2>5. Honest(q)
    <3>1. Embeds(q)
      BY <1>2, <2>4 DEF Embeds
    <3>2. QED
      BY <1>1, <1>2, <2>2, <2>3, <2>4, <3>1, EndsHonestly DEF ChatEnds
  <2>6. LockMoves(r, q.pc)
    BY <1>2, <1>10, <2>4, LockGivenBack DEF Leased, Building
  <2>7. q.pc \notin Supplying
    BY <2>4 DEF Supplying, Owning
  <2>8. QED
    BY <1>1, <1>2, <1>10, <2>1, <2>5, <2>6, <2>7, RendersAnew
<1>11. QED
  BY <1>8, <1>9, <1>10 DEF Render

\* What a request's own state says of the step it takes
LEMMA RequestFacts ==
  ASSUME ChatInv, NEW r \in ChatIds
  PROVE  /\ chats[r] \in Chat /\ Honest(chats[r]) /\ available \in BOOLEAN
         /\ chats[r].pc \in Unspoken => chats[r].sent = <<>>
         /\ chats[r].pc \in Generating => chats[r].kind # "preflight"
         /\ chats[r].pc \notin {"idle", "turn", "running"} => chats[r].kind # "embedding"
         /\ ~chats[r].stream => chats[r].sent = <<>>
         /\ Outcome(r, "failed") \in {"left", "failed"} /\ Outcome(r, "answered") \in {"left", "answered"}
         /\ chats[r].pc \in Streaming => chats[r].stream
         /\ chats[r].left => Outcome(r, "failed") = "left"
  BY DEF ChatInv, ChatTyped, Honest, Embeds, Outcome

LEMMA PromptKeeps ==
  ASSUME ChatInv, NEW r \in ChatIds,
         \/ PromptRefused(r) \/ CountFails(r) \/ CountFull(r) \/ CountCandidate(r) \/ CountFinal(r)
         \/ Built(r) \/ PreflightAnswered(r)
  PROVE  ChatInv'
<1>0. UNCHANGED available /\ available' \in BOOLEAN
  BY RequestFacts DEF PromptRefused, CountFails, CountFull, CountCandidate, CountFinal, Built,
       PreflightAnswered
<1>1. CASE PromptRefused(r)
  <2>1. /\ chats[r].pc = "prompt" /\ Discard(r) /\ EndWith(r, "refused") /\ UNCHANGED chatLock
    BY <1>1 DEF PromptRefused, At
  <2>2. chats[r].pc # "idle" /\ chats[r].pc \notin Leased /\ "refused" \in ChatEnds
    BY <2>1 DEF Leased, Building, ChatEnds
  <2>3. QED
    BY <1>0, <2>1, <2>2, EndsAlone
<1>2. CASE CountFails(r)
  <2>1. /\ chats[r].pc \in {"counting", "candidate", "checking"}
        /\ Discard(r) /\ ReleaseLock /\ EndWith(r, Outcome(r, "failed"))
    BY <1>2 DEF CountFails
  <2>2. chats[r].pc # "idle" /\ chats[r].pc \in Leased /\ chats[r].sent = <<>>
    BY <2>1, RequestFacts DEF Leased, Building, Unspoken
  <2>3. PICK e \in {"left", "failed"} : e = Outcome(r, "failed")
    BY RequestFacts
  <2>4. e \in ChatEnds /\ e # "answered" /\ EndWith(r, e)
    BY <2>1, <2>3 DEF ChatEnds
  <2>5. QED
    BY <1>0, <2>1, <2>2, <2>4, EndsAlone
<1>3. ASSUME Go(r, "built"), UNCHANGED <<chatTables, chatLock>>, chats[r].pc \in {"counting", "checking"}
      PROVE  ChatInv'
  <2>1. /\ "built" \in ChatPcs \ {"idle"} /\ "built" \in Leased /\ "built" \in Owning
        /\ "built" \notin Generating /\ "built" \notin Streaming /\ chats[r].pc \in Leased /\ chats[r].pc \in Supplying
        /\ chats[r].pc # "idle" /\ chats[r].pc \in Unspoken
    BY <1>3 DEF ChatPcs, Leased, Building, Owning, Supplying, Generating, Streaming, Unspoken
  <2>2. chats[r].kind # "embedding" /\ chats[r].sent = <<>>
    BY <1>3, <2>1, RequestFacts
  <2>3. LockMoves(r, "built") /\ UNCHANGED contexts
    BY <1>3, <2>1, LockKept DEF chatTables
  <2>4. QED
    BY <1>0, <1>3, <2>1, <2>2, <2>3, GoesOn
<1>4. ASSUME Discard(r), UNCHANGED chatLock, chats[r].pc \in {"counting", "candidate"},
             \E next \in {"window", "final"} : chats' = [chats EXCEPT ![r].pc = next, ![r].key = 0]
      PROVE  ChatInv'
  <2>1. PICK next \in {"window", "final"} : chats' = [chats EXCEPT ![r].pc = next, ![r].key = 0]
    BY <1>4
  <2>2. next \in Building /\ chats[r].pc \in Building
    BY <1>4 DEF Building
  <2>3. QED
    BY <1>0, <1>4, <2>1, <2>2, GoesOnWithout
<1>5. CASE CountFull(r)
  BY <1>3, <1>4, <1>5 DEF CountFull, At
<1>6. CASE CountCandidate(r)
  BY <1>4, <1>6 DEF CountCandidate, At
<1>7. CASE CountFinal(r)
  BY <1>3, <1>7 DEF CountFinal, At
<1>8. CASE Built(r)
  <2>1. chats[r].pc = "built" /\ chats[r].kind # "preflight" /\ ReleaseLock
    BY <1>8 DEF Built, At
  <2>2. /\ chats[r].pc # "idle" /\ chats[r].pc \in Leased /\ chats[r].pc \in Supplying
        /\ chats[r].sent = <<>> /\ chats[r].kind # "embedding"
    BY <2>1, RequestFacts DEF Leased, Building, Supplying, Owning, Unspoken
  <2>3. ASSUME NEW e \in {"left", "refused"}, Discard(r), EndWith(r, e)
        PROVE  ChatInv'
    <3>1. e \in ChatEnds /\ e # "answered" /\ e # "failed"
      BY DEF ChatEnds
    <3>2. QED
      BY <1>0, <2>1, <2>2, <2>3, <3>1, EndsAlone
  <2>4. CASE UNCHANGED chatTables /\ Go(r, IF chats[r].stream THEN "start" ELSE "turn")
    <3>1. PICK to \in {"start", "turn"} : Go(r, to) /\ (to = "start" => chats[r].stream)
      BY <2>4
    <3>2. /\ to \in Streaming => to = "start"
          /\ to \in ChatPcs \ {"idle"} /\ to \notin Leased /\ to \in Owning
      BY DEF ChatPcs, Queued, Leased, Building, Owning, Streaming
    <3>3. LockMoves(r, to) /\ UNCHANGED contexts
      BY <2>1, <2>2, <2>4, <3>2, LockGivenBack DEF chatTables
    <3>4. QED
      BY <1>0, <2>1, <2>2, <2>4, <3>1, <3>2, <3>3, GoesOn
  <2>5. QED
    BY <1>8, <2>3, <2>4 DEF Built
<1>9. CASE PreflightAnswered(r)
  <2>1. /\ chats[r].pc = "built" /\ chats[r].kind = "preflight" /\ ReleaseLock /\ Discard(r)
        /\ EndWith(r, Outcome(r, "answered"))
    BY <1>9 DEF PreflightAnswered, At
  <2>2. chats[r].pc # "idle" /\ chats[r].pc \in Leased
    BY <2>1 DEF Leased, Building
  <2>3. PICK e \in {"left", "answered"} : e = Outcome(r, "answered")
    BY RequestFacts
  <2>4. e \in ChatEnds /\ e # "failed" /\ EndWith(r, e)
    BY <2>1, <2>3 DEF ChatEnds
  <2>5. QED
    BY <1>0, <2>1, <2>2, <2>4, EndsAlone
<1>10. QED
  BY <1>1, <1>2, <1>5, <1>6, <1>7, <1>8, <1>9

\* A step of one request that keeps its place in the table or has none
LEMMA GoesOnSilently ==
  ASSUME ChatInv, NEW r \in ChatIds, NEW to \in ChatPcs \ (Leased \cup Unspoken \cup Supplying \cup {"idle"}),
         Go(r, to), chats[r].pc \in Generating, to \in Streaming => chats[r].stream, chats[r].kind # "embedding",
         (ReleaseLock /\ chats[r].pc \in Leased) \/ (UNCHANGED chatLock /\ chats[r].pc \notin Leased),
         UNCHANGED chatTables, UNCHANGED available, to \in Owning \/ chats[r].pc \notin Owning
  PROVE  ChatInv'
<1>1. available' \in BOOLEAN /\ chats[r].kind # "preflight" /\ chats[r].pc # "idle"
  BY RequestFacts DEF Generating
<1>2. LockMoves(r, to)
  BY LockGivenBack
<1>3. QED
  BY <1>1, <1>2, GoesOn

LEMMA GenerationKeeps ==
  ASSUME ChatInv, NEW r \in ChatIds,
         \/ StreamNeverStarts(r) \/ GenerationRefused(r) \/ Consume(r) \/ GenerationFails(r)
         \/ CancelledGeneration(r) \/ CountRefused(r) \/ Closed(r)
  PROVE  ChatInv'
<1>0. UNCHANGED available /\ available' \in BOOLEAN
  BY RequestFacts
     DEF StreamNeverStarts, GenerationRefused, Consume, GenerationFails, CancelledGeneration,
          CountRefused, Closed
<1>1. ASSUME NEW e \in {"left", "refused", "broken"}, EndWith(r, e), Discard(r), chats[r].pc # "idle",
             (ReleaseLock /\ chats[r].pc \in Leased) \/ (UNCHANGED chatLock /\ chats[r].pc \notin Leased)
      PROVE  ChatInv'
  <2>1. e \in ChatEnds /\ e # "answered" /\ e # "failed"
    BY DEF ChatEnds
  <2>2. QED
    BY <1>0, <1>1, <2>1, EndsAlone
<1>2. /\ {"running", "native", "closing"} \subseteq Leased /\ {"start", "turn", "recount", "failing"} \cap Leased = {}
      /\ {"native", "running", "turn"} \subseteq Generating
      /\ "failing" \in ChatPcs \ (Leased \cup Unspoken \cup Supplying \cup {"idle"}) /\ "failing" \in Owning
  BY DEF Leased, Building, Generating, ChatPcs, Unspoken, Supplying, Owning
<1>3. CASE StreamNeverStarts(r)
  <2>1. chats[r].pc = "start" /\ Discard(r) /\ EndWith(r, "left") /\ UNCHANGED chatLock
    BY <1>3 DEF StreamNeverStarts, At
  <2>2. QED
    BY <1>1, <1>2, <2>1
<1>4. CASE GenerationRefused(r)
  <2>1. chats[r].pc = "turn" /\ UNCHANGED chatLock
    BY <1>4 DEF GenerationRefused, At
  <2>2. CASE chats[r].stream /\ Go(r, "failing") /\ UNCHANGED chatTables
    <3>1. chats[r].kind # "embedding"
      BY <2>2, RequestFacts DEF Honest, Embeds
    <3>2. QED
      BY <1>0, <1>2, <2>1, <2>2, <3>1, GoesOnSilently
  <2>3. CASE Discard(r) /\ EndWith(r, "refused")
    BY <1>1, <1>2, <2>1, <2>3
  <2>4. QED
    BY <1>4, <2>2, <2>3 DEF GenerationRefused
<1>5. CASE Consume(r)
  <2>1. chats[r].pc = "native"
    BY <1>5 DEF Consume, At
  <2>2. chats[r].kind # "embedding" /\ chats[r].kind # "preflight"
    BY <1>2, <2>1, RequestFacts
  <2>3. CASE Discard(r) /\ Go(r, "running") /\ UNCHANGED chatLock
    <3>1. /\ "running" \in ChatPcs \ {"idle"} /\ "running" \in Leased /\ "running" \notin Unspoken
          /\ "running" \notin Supplying /\ "running" \notin Streaming
      BY DEF ChatPcs, Leased, Building, Unspoken, Streaming, Supplying, Owning
    <3>2. LockMoves(r, "running")
      BY <1>2, <2>1, <2>3, LockKept
    <3>3. QED
      BY <1>0, <2>1, <2>2, <2>3, <3>1, <3>2, GoesOn
  <2>4. CASE /\ chats[r].key # 0 /\ Context(r) \notin contexts /\ ReleaseLock /\ UNCHANGED chatTables
             /\ chats[r].stream /\ Go(r, "failing")
    BY <1>0, <1>2, <2>1, <2>2, <2>4, GoesOnSilently
  <2>5. CASE /\ chats[r].key # 0 /\ Context(r) \notin contexts /\ ReleaseLock /\ UNCHANGED chatTables
             /\ ~(chats[r].stream /\ ~chats[r].left) /\ EndWith(r, Outcome(r, "failed"))
    <3>1. PICK e \in {"left", "failed"} : e = Outcome(r, "failed")
      BY RequestFacts
    <3>2. e \in ChatEnds /\ e # "answered" /\ EndWith(r, e)
      BY <2>5, <3>1 DEF ChatEnds
    <3>3. e = "failed" => ~chats[r].stream
      BY <2>5, <3>1, RequestFacts
    <3>4. \A n \in ContextNumbers : <<r, n>> \notin contexts
      BY <2>5 DEF ChatInv, Owned, Context
    <3>5. QED
      BY <1>0, <1>2, <2>1, <2>5, <3>2, <3>3, <3>4, EndsAlone
  <2>6. QED
    BY <1>5, <2>3, <2>4, <2>5 DEF Consume
<1>6. CASE GenerationFails(r)
  <2>1. chats[r].pc = "running" /\ ReleaseLock
    BY <1>6 DEF GenerationFails, At
  <2>2. CASE chats[r].stream /\ Go(r, "failing") /\ UNCHANGED chatTables
    <3>1. chats[r].kind # "embedding"
      BY <2>2, RequestFacts DEF Honest, Embeds
    <3>2. QED
      BY <1>0, <1>2, <2>1, <2>2, <3>1, GoesOnSilently
  <2>3. CASE ~(chats[r].stream /\ ~chats[r].left) /\ Discard(r) /\ EndWith(r, Outcome(r, "failed"))
    <3>1. PICK e \in {"left", "failed"} : e = Outcome(r, "failed")
      BY RequestFacts
    <3>2. e \in ChatEnds /\ e # "answered" /\ EndWith(r, e)
      BY <2>3, <3>1 DEF ChatEnds
    <3>3. e = "failed" => ~chats[r].stream
      BY <2>3, <3>1, RequestFacts
    <3>4. QED
      BY <1>0, <1>2, <2>1, <2>3, <3>2, <3>3, EndsAlone
  <2>4. QED
    BY <1>6, <2>2, <2>3 DEF GenerationFails
<1>7. CASE CancelledGeneration(r)
  <2>1. chats[r].pc = "running" /\ Discard(r) /\ EndWith(r, "left") /\ ReleaseLock
    BY <1>7 DEF CancelledGeneration, At
  <2>2. QED
    BY <1>1, <1>2, <2>1
<1>8. CASE CountRefused(r)
  <2>1. chats[r].pc = "recount" /\ Discard(r) /\ EndWith(r, "broken") /\ UNCHANGED chatLock
    BY <1>8 DEF CountRefused, At
  <2>2. QED
    BY <1>1, <1>2, <2>1
<1>9. CASE Closed(r)
  <2>1. chats[r].pc = "closing" /\ Discard(r) /\ EndWith(r, "left") /\ ReleaseLock
    BY <1>9 DEF Closed, At
  <2>2. QED
    BY <1>1, <1>2, <2>1
<1>10. QED
  BY <1>3, <1>4, <1>5, <1>6, <1>7, <1>8, <1>9

\* A stream says something and goes to another step.
LEMMA SaysAlone ==
  ASSUME ChatInv, NEW r \in ChatIds, NEW to \in {"turn", "running", "recount"}, NEW s \in Seq(Events), Clean(s),
         chats' = [chats EXCEPT ![r].pc = to, ![r].sent = s],
         chats[r].stream, chats[r].kind # "embedding",
         \/ chats[r].pc = "start" /\ to = "turn"
         \/ chats[r].pc = "running" /\ to = "running"
         \/ chats[r].pc = "tail" /\ to = "recount",
         UNCHANGED <<chatTables, chatLock, available>>
  PROVE  ChatInv'
<1> DEFINE p == chats[r]
           q == [p EXCEPT !.pc = to, !.sent = s]
<1>1. p \in Chat /\ Honest(p) /\ to \in ChatPcs /\ available' \in BOOLEAN /\ p.pc \in Generating
  BY RequestFacts DEF ChatPcs, Queued, Leased, Generating
<1>2. q \in Chat
  BY <1>1 DEF Chat
<1>3. /\ q.pc = to /\ q.kind = p.kind /\ q.stream = p.stream /\ q.sent = s
      /\ q.counted = p.counted /\ q.end = p.end /\ q.key = p.key /\ q.purged = p.purged
  BY <1>1 DEF Chat
<1>4. chats' = [chats EXCEPT ![r] = q]
  OBVIOUS
<1> HIDE DEF q
<1>5. Honest(q)
  BY <1>1, <1>2, <1>3 DEF Honest, Embeds, Streaming, Generating, Unspoken, Building
<1>6. LockMoves(r, q.pc)
  <2>1. CASE to = "running"
    BY <2>1, <1>3, LockKept DEF Leased
  <2>2. CASE to # "running"
    BY <2>2, <1>3, LockGivenBack DEF Leased, Building
  <2>3. QED
    BY <2>1, <2>2
<1>7. \/ UNCHANGED chatTables /\ q.pc \in Owning /\ q.key = p.key
      \/ \A n \in ContextNumbers : <<r, n>> \notin contexts'
  BY <1>3, TableEmptied DEF chatTables, Owning
<1>8. q.pc \in Supplying => UNCHANGED contexts /\ p.pc \in Supplying /\ q.key = p.key /\ q.purged = p.purged
  BY <1>3 DEF Supplying, Owning, chatTables
<1>9. QED
  BY <1>1, <1>4, <1>5, <1>6, <1>7, <1>8, OneChatMoves

LEMMA CleanGrows ==
  ASSUME NEW s \in Seq(Events), Clean(s), NEW e \in Telling
  PROVE  /\ Append(s, e) \in Seq(Events) /\ Clean(Append(s, e))
         /\ Append1(s, e) \in Seq(Events) /\ Clean(Append1(s, e))
<1>1. Append(s, e) \in Seq(Events)
  BY DEF Events
<1>2. Clean(Append(s, e))
  BY DEF Clean, Telling
<1>3. QED
  BY <1>1, <1>2 DEF Append1

LEMMA StreamKeeps ==
  ASSUME ChatInv, NEW r \in ChatIds, StreamStarts(r) \/ Emit(r) \/ StreamTail(r)
  PROVE  ChatInv'
<1> DEFINE p == chats[r]
<1>1. p \in Chat /\ Honest(p) /\ p.pc \in {"start", "running", "tail"} /\ p.pc # "idle"
  BY RequestFacts DEF StreamStarts, Emit, StreamTail, At
<1>2. /\ p.sent \in Seq(Events) /\ Clean(p.sent) /\ UNCHANGED <<chatTables, chatLock, available>>
  BY <1>1 DEF Honest, Chat, StreamStarts, Emit, StreamTail
<1>3. CASE StreamStarts(r)
  <2> DEFINE s == IF p.kind = "responses" THEN <<"created">> ELSE <<>>
  <2>1. p.pc = "start" /\ chats' = [chats EXCEPT ![r].pc = "turn", ![r].sent = s]
    BY <1>3 DEF StreamStarts, At
  <2>2. s \in Seq(Events) /\ Clean(s)
    <3>1. <<"created">> \in Seq(Events) /\ <<>> \in Seq(Events) /\ Clean(<<>>)
      BY DEF Events, Telling, Clean
    <3>2. Clean(<<"created">>)
      BY DEF Clean, Telling
    <3>3. QED
      BY <3>1, <3>2
  <2> HIDE DEF s
  <2>3. p.kind # "embedding"
    BY <2>1, RequestFacts
  <2>4. p.stream
    BY <2>1, RequestFacts DEF Streaming
  <2>5. QED
    BY <1>2, <2>1, <2>2, <2>3, <2>4, SaysAlone
<1>4. CASE Emit(r)
  <2> DEFINE s == Append1(p.sent, "text")
  <2>1. /\ p.pc = "running" /\ p.stream /\ chats' = [chats EXCEPT ![r].sent = s]
    BY <1>4 DEF Emit, At
  <2>2. s \in Seq(Events) /\ Clean(s)
    BY <1>2, CleanGrows DEF Telling
  <2> HIDE DEF s
  <2>3. chats' = [chats EXCEPT ![r].pc = "running", ![r].sent = s]
    <3>1. [p EXCEPT !.sent = s] = [p EXCEPT !.pc = "running", !.sent = s]
      BY <1>1, <2>1 DEF Chat
    <3>2. QED
      BY <2>1, <3>1
  <2>4. p.kind # "embedding"
    BY <2>1, <1>1 DEF Honest, Embeds
  <2>5. QED
    BY <1>2, <2>1, <2>2, <2>3, <2>4, SaysAlone
<1>5. CASE StreamTail(r)
  <2>1. p.pc = "tail" /\ p.kind # "embedding" /\ p.stream
    BY <1>5, RequestFacts DEF StreamTail, At, Streaming
  <2>2. PICK text \in BOOLEAN :
          LET held == IF text THEN Append1(p.sent, "text") ELSE p.sent
          IN chats' = [chats EXCEPT ![r].pc = "recount",
                         ![r].sent = IF p.kind = "chat" THEN Append(held, "finish") ELSE held]
    BY <1>5 DEF StreamTail
  <2> DEFINE held == IF text THEN Append1(p.sent, "text") ELSE p.sent
             s == IF p.kind = "chat" THEN Append(held, "finish") ELSE held
  <2>3. chats' = [chats EXCEPT ![r].pc = "recount", ![r].sent = s]
    BY <2>2
  <2>4. held \in Seq(Events) /\ Clean(held)
    BY <1>2, CleanGrows DEF Telling
  <2> HIDE DEF held
  <2>5. s \in Seq(Events) /\ Clean(s)
    BY <2>4, CleanGrows DEF Telling
  <2> HIDE DEF s
  <2>6. QED
    BY <1>2, <2>1, <2>3, <2>5, SaysAlone
<1>6. QED
  BY <1>3, <1>4, <1>5

LEMMA RetryKeeps ==
  ASSUME ChatInv, NEW r \in ChatIds, RetryToolCall(r)
  PROVE  ChatInv'
<1> DEFINE p == chats[r]
           n == p.retries + 1
           q == [p EXCEPT !.pc = "prompt", !.retries = n]
<1>1. p \in Chat /\ Honest(p) /\ p.pc = "running" /\ p.tools /\ ~p.stream /\ p.retries < MaxRetries
  BY RequestFacts DEF RetryToolCall, At
<1>2. n \in 0..MaxRetries
  BY <1>1, ChatAssumption DEF Chat
<1>3. chats' = [chats EXCEPT ![r] = q] /\ ReleaseLock /\ UNCHANGED <<chatTables, available>>
  BY DEF RetryToolCall
<1> HIDE DEF n
<1>4. q \in Chat
  BY <1>1, <1>2 DEF Chat, ChatPcs, Queued
<1>5. /\ q.pc = "prompt" /\ q.kind = p.kind /\ q.stream = p.stream /\ q.sent = p.sent
      /\ q.counted = p.counted /\ q.end = p.end /\ q.key = p.key /\ q.tools = p.tools
  BY <1>1 DEF Chat
<1> HIDE DEF q
<1>6. Embeds(q)
  BY <1>1, <1>5 DEF Honest, Embeds
<1>7. p.sent = <<>>
  BY <1>1 DEF Honest
<1>8. Honest(q)
  BY <1>1, <1>4, <1>5, <1>6, <1>7, StaysHonest DEF Generating, Streaming
<1>9. LockMoves(r, q.pc)
  BY <1>1, <1>3, <1>5, LockGivenBack DEF Leased, Building
<1>10. \A k \in ContextNumbers : <<r, k>> \notin contexts'
  BY <1>1, <1>3, TableEmptied DEF chatTables, Owning
<1>11. q.pc \notin Supplying /\ available' \in BOOLEAN
  BY <1>3, <1>5, RequestFacts DEF Supplying, Owning
<1>12. QED
  BY <1>3, <1>8, <1>9, <1>10, <1>11, OneChatMoves

LEMMA AnswerKeeps ==
  ASSUME ChatInv, NEW r \in ChatIds, GenerationEnds(r) \/ EmbeddingAnswered(r) \/ Counted(r)
  PROVE  ChatInv'
<1>1. UNCHANGED available /\ available' \in BOOLEAN /\ ReleaseLock /\ chats[r].pc \in {"running", "counted"}
  BY RequestFacts DEF GenerationEnds, EmbeddingAnswered, Counted, At
<1>2. chats[r].pc \in Leased /\ chats[r].pc # "idle" /\ chats[r].pc \notin Owning /\ chats[r].pc \in Generating
  BY <1>1 DEF Leased, Owning, Generating
<1>3. CASE GenerationEnds(r)
  <2>1. chats[r].pc = "running" /\ chats[r].kind # "embedding"
    BY <1>3 DEF GenerationEnds, At
  <2>2. ASSUME NEW to \in {"tail", "recount"}, Go(r, to), UNCHANGED chatTables,
               to = "tail" => chats[r].stream
        PROVE  ChatInv'
    <3>1. to \in ChatPcs \ (Leased \cup Unspoken \cup Supplying \cup {"idle"}) /\ (to \in Streaming => to = "tail")
      BY DEF ChatPcs, Queued, Leased, Building, Unspoken, Supplying, Owning, Streaming
    <3>2. QED
      BY <1>1, <1>2, <2>1, <2>2, <3>1, GoesOnSilently
  <2>3. CASE Discard(r) /\ AnswerAndCount(r)
    BY <1>1, <2>3, AnswersAlone
  <2>4. QED
    BY <1>3, <2>2, <2>3 DEF GenerationEnds
<1>4. CASE EmbeddingAnswered(r)
  BY <1>1, <1>4, AnswersAlone DEF EmbeddingAnswered, At
<1>5. CASE Counted(r)
  <2>1. Discard(r)
    BY <1>5 DEF Counted
  <2>2. CASE EndWith(r, "left")
    <3>1. "left" \in ChatEnds
      BY DEF ChatEnds
    <3>2. QED
      BY <1>1, <1>2, <2>1, <2>2, <3>1, EndsAlone
  <2>3. CASE AnswerAndCount(r)
    BY <1>1, <2>1, <2>3, AnswersAlone
  <2>4. QED
    BY <1>5, <2>2, <2>3 DEF Counted
<1>6. QED
  BY <1>3, <1>4, <1>5

LEMMA ChatFailKeeps ==
  ASSUME ChatInv, NEW r \in ChatIds, Fail(r)
  PROVE  ChatInv'
<1> DEFINE p == chats[r]
           s == Say(r, IF p.kind = "chat" THEN <<"error", "finish", "done">> ELSE <<"error", "failed", "done">>)
           q == [p EXCEPT !.pc = "idle", !.key = 0, !.end = "failed", !.sent = s]
<1>1. p \in Chat /\ Honest(p) /\ p.pc = "failing" /\ p.stream /\ p.kind # "embedding" /\ available' \in BOOLEAN
  BY RequestFacts DEF Fail, At, Streaming
<1>2. p.sent \in Seq(Events) /\ Clean(p.sent) /\ p.counted = 0
  BY <1>1 DEF Honest, Chat
<1>3. chats' = [chats EXCEPT ![r] = q] /\ Discard(r) /\ UNCHANGED <<chatLock, available>>
  BY DEF Fail
<1>4. PICK e \in {"finish", "failed"} : s = p.sent \o <<"error", e, "done">>
  BY DEF Say
<1> HIDE DEF s
<1>5. s \in Seq(Events)
  <2>1. <<"error", e, "done">> \in Seq(Events)
    BY DEF Events, Telling
  <2>2. QED
    BY <1>2, <1>4, <2>1
<1>6. q \in Chat
  BY <1>1, <1>5 DEF Chat, ChatPcs, ChatEnds
<1>7. /\ q.pc = "idle" /\ q.kind = p.kind /\ q.stream = p.stream /\ q.sent = s
      /\ q.counted = p.counted /\ q.end = "failed" /\ q.key = 0
  BY <1>1 DEF Chat
<1> HIDE DEF q
<1>8. EndsProperly(q)
  BY <1>2, <1>4, <1>6, <1>7, FailureIsProper
<1>9. Honest(q)
  BY <1>1, <1>2, <1>6, <1>7, <1>8 DEF Honest, Embeds, CountsOnce, Generating, Streaming, Unspoken,
       Building
<1>10. \A n \in ContextNumbers : <<r, n>> \notin contexts'
  BY <1>3, TableEmptied
<1>11. LockMoves(r, q.pc)
  BY <1>1, <1>3, <1>7, LockGivenBack DEF Leased, Building
<1>12. q.pc \notin Supplying
  BY <1>7 DEF Supplying, Owning
<1>13. QED
  BY <1>1, <1>3, <1>9, <1>10, <1>11, <1>12, OneChatMoves

LEMMA ChatLeaveKeeps ==
  ASSUME ChatInv, NEW r \in ChatIds, Leave(r)
  PROVE  ChatInv'
<1> DEFINE p == chats[r]
<1>1. p \in Chat /\ Honest(p) /\ UNCHANGED <<chatLock, available>> /\ available' \in BOOLEAN
  BY RequestFacts DEF Leave
<1>2. ASSUME p.pc \in Queued \cup {"tail", "failing"}, Discard(r), EndWith(r, "left")
      PROVE  ChatInv'
  <2>1. "left" \in ChatEnds /\ p.pc # "idle" /\ p.pc \notin Leased
    BY <1>2 DEF ChatEnds, Queued, Leased, Building
  <2>2. QED
    BY <1>1, <1>2, <2>1, EndsAlone
<1>3. ASSUME p.pc \in Leased, NEW to, to = p.pc \/ (to = "closing" /\ p.pc = "running" /\ p.stream),
             UNCHANGED chatTables \/ Discard(r), UNCHANGED chatTables \/ to = "closing",
             chats' = [chats EXCEPT ![r] = [p EXCEPT !.pc = to, !.left = TRUE]]
      PROVE  ChatInv'
  <2> DEFINE q == [p EXCEPT !.pc = to, !.left = TRUE]
  <2>1. to \in Leased /\ to \in ChatPcs /\ p.pc # "idle" /\ to # "idle" /\ to \notin Streaming
    BY <1>3 DEF Leased, Building, ChatPcs, Streaming
  <2>2. q \in Chat
    BY <1>1, <2>1 DEF Chat
  <2>3. /\ q.pc = to /\ q.kind = p.kind /\ q.stream = p.stream /\ q.sent = p.sent /\ q.tools = p.tools
        /\ q.counted = p.counted /\ q.end = p.end /\ q.key = p.key /\ q.purged = p.purged
    BY <1>1 DEF Chat
  <2> HIDE DEF q
  <2>4. chats' = [chats EXCEPT ![r] = q]
    BY <1>3 DEF q
  <2>5. Embeds(q)
    BY <1>1, <1>3, <2>3 DEF Honest, Embeds
  <2>6. Honest(q)
    BY <1>1, <1>3, <2>1, <2>2, <2>3, <2>5, StaysHonest DEF Honest, Generating, Unspoken, Building
  <2>7. LockMoves(r, q.pc)
    BY <1>1, <1>3, <2>1, <2>3, LockKept
  <2>8. \/ UNCHANGED chatTables /\ q.pc \in Owning /\ q.key = p.key
        \/ \A n \in ContextNumbers : <<r, n>> \notin contexts'
    BY <1>3, <2>3, TableEmptied DEF chatTables, Owning
  <2>9. q.pc \in Supplying => UNCHANGED contexts /\ p.pc \in Supplying /\ q.key = p.key /\ q.purged = p.purged
    BY <1>3, <2>3 DEF Supplying, Owning, chatTables
  <2>10. QED
    BY <1>1, <1>3, <2>4, <2>6, <2>7, <2>8, <2>9, OneChatMoves
<1>4. CASE p.pc \in Leased \ {"closing"} /\ At(r, "running") /\ p.stream /\ Discard(r)
           /\ chats' = [chats EXCEPT ![r].pc = "closing", ![r].left = TRUE]
  BY <1>3, <1>4 DEF At
<1>5. CASE /\ p.pc \in Leased \ {"closing"}
           /\ chats' = [chats EXCEPT ![r].left = TRUE] /\ UNCHANGED chatTables
  <2>1. [p EXCEPT !.left = TRUE] = [p EXCEPT !.pc = p.pc, !.left = TRUE]
    BY <1>1 DEF Chat
  <2>2. chats' = [chats EXCEPT ![r] = [p EXCEPT !.pc = p.pc, !.left = TRUE]]
    BY <1>5, <2>1
  <2>3. QED
    BY <1>3, <1>5, <2>2
<1>6. QED
  BY <1>2, <1>4, <1>5 DEF Leave

LEMMA OthersKeep ==
  ASSUME ChatInv, ContextsExpire \/ UnloadChatModel \/ LoadChatModel \/ UNCHANGED chatVars
  PROVE  ChatInv'
  BY DEF ChatInv, ChatTyped, ContextsExpire, UnloadChatModel, LoadChatModel, chatVars, chatTables,
       Honest,
         LeaseIsReturned, Owned, Supplied

LEMMA ChatInvHolds == ChatSpec => []ChatInv
<1>1. ChatInv /\ [ChatNext]_chatVars => ChatInv'
  <2> SUFFICES ASSUME ChatInv, [ChatNext]_chatVars PROVE ChatInv'
    OBVIOUS
  <2>1. ASSUME NEW r \in ChatIds, Works(r) PROVE ChatInv'
    BY <2>1, PromptKeeps, RenderKeeps, GenerationKeeps, StreamKeeps, RetryKeeps, AnswerKeeps,
         ChatFailKeeps
       DEF Works
  <2>2. ASSUME NEW r \in ChatIds, Leases(r) \/ StreamNeverStarts(r) \/ Leave(r) PROVE ChatInv'
    BY <2>2, LeaseKeeps, GenerationKeeps, ChatLeaveKeeps
  <2>3. ASSUME NEW r \in ChatIds, NEW kind \in Kinds, NEW stream \in BOOLEAN, NEW tools \in BOOLEAN,
               Arrive(r, kind, stream, tools)
        PROVE  ChatInv'
    BY <2>3, ArriveKeeps
  <2>4. QED
    BY <2>1, <2>2, <2>3, OthersKeep DEF ChatNext
<1>2. QED
  BY <1>1, ChatStarts, PTL DEF ChatSpec

\* A chat's images live as long as its prompt and reach the model (multimodal.py,
\* chat_format.py), the model's lock is held by who needs it, usage is counted once and for
\* full answers alone, and a stream ends as its client may rely on (server.py,
\* responses_api.py).
THEOREM RequestsAreHandled == ChatSpec => []ChatSafe
  BY ChatInvHolds, ChatSafeFromInv, PTL

\* The steps, the table of contexts and the lock keep their types.
THEOREM ChatTypeCorrect == ChatSpec => []ChatTypeOK
  BY ChatInvHolds, ChatSafeFromInv, PTL

-----------------------------------------------------------------------------
(* RequestLimits: lists of times that lose their oldest.                     *)

LEMMA Smallest ==
  ASSUME NEW T \in SUBSET Nat, T # {}
  PROVE  \E x \in T : \A y \in T : x <= y
<1>1. PICK R : IsWellFoundedOn(R, Nat) /\ \A x, y \in Nat : y < x => <<y, x>> \in R
  <2> DEFINE Below == OpToRel(<, Nat)
  <2>1. IsWellFoundedOn(Below, Nat) /\ \A x, y \in Nat : y < x => <<y, x>> \in Below
    BY NatLessThanWellFounded DEF OpToRel
  <2> HIDE DEF Below
  <2>2. QED
    BY <2>1
<1>2. PICK x \in T : \A y \in T : ~(<<y, x>> \in R)
  BY <1>1, WFMin
<1>3. ASSUME NEW y \in T PROVE x <= y
  <2>1. x \in Nat /\ y \in Nat /\ (y < x => <<y, x>> \in R)
    BY <1>1
  <2>2. ~(y < x)
    BY <1>2, <2>1
  <2>3. QED
    BY <2>1, <2>2
<1>4. QED
  BY <1>3

Times == Seq(Nat)
\* The first n are not after the cutoff, and the next one, if any, is.
Splits(times, cutoff, n) ==
  /\ n \in 0..Len(times)
  /\ \A i \in 1..n : times[i] <= cutoff
  /\ n < Len(times) => times[n + 1] > cutoff

LEMMA SomethingSplits ==
  ASSUME NEW times \in Times, NEW cutoff \in Int
  PROVE  \E n : Splits(times, cutoff, n)
<1> DEFINE T == {n \in 0..Len(times) : n < Len(times) => times[n + 1] > cutoff}
<1>1. Len(times) \in T /\ T \in SUBSET Nat
  BY DEF Times
<1>2. PICK n \in T : \A m \in T : n <= m
  BY <1>1, Smallest
<1>3. ASSUME NEW i \in 1..n PROVE times[i] <= cutoff
  <2>1. i - 1 \in 0..Len(times) /\ ~(n <= i - 1) /\ i - 1 < Len(times) /\ (i - 1) + 1 = i /\ n \in Nat
    BY <1>2 DEF Times
  <2>2. i - 1 \notin T
    BY <1>2, <2>1
  <2>3. ~(times[i] > cutoff)
    BY <2>1, <2>2
  <2>4. times[i] \in Nat
    BY <1>2 DEF Times
  <2>5. QED
    BY <2>3, <2>4
<1>4. QED
  BY <1>2, <1>3 DEF Splits

LEMMA OneSplits ==
  ASSUME NEW times \in Times, NEW cutoff \in Int, NEW m, NEW n,
         Splits(times, cutoff, m), Splits(times, cutoff, n)
  PROVE  m = n
<1>1. ASSUME NEW i, NEW j, Splits(times, cutoff, i), Splits(times, cutoff, j), i < j
      PROVE  FALSE
  <2>1. i \in Nat /\ j \in Nat /\ j <= Len(times) /\ Len(times) \in Nat /\ i + 1 \in 1..j /\ i < Len(times)
    BY <1>1 DEF Splits, Times
  <2>2. times[i + 1] <= cutoff /\ times[i + 1] > cutoff /\ times[i + 1] \in Nat
    BY <1>1, <2>1 DEF Splits, Times
  <2>3. QED
    BY <2>2
<1>2. m \in Int /\ n \in Int
  BY DEF Splits, Times
<1>3. QED
  BY <1>1, <1>2

LEMMA YoungerSplits ==
  ASSUME NEW times \in Times, NEW cutoff \in Int, NEW n, Splits(times, cutoff, n)
  PROVE  /\ OlderOnes(times, cutoff) = n
         /\ Younger(times, cutoff) = SubSeq(times, n + 1, Len(times))
         /\ Younger(times, cutoff) \in Times /\ Len(Younger(times, cutoff)) = Len(times) - n
         /\ \A i \in 1..(Len(times) - n) : Younger(times, cutoff)[i] = times[n + i]
<1>1. OlderOnes(times, cutoff) = n
  <2> DEFINE m == OlderOnes(times, cutoff)
  <2>1. \E k \in 0..Len(times) : /\ \A i \in 1..k : times[i] <= cutoff
                                 /\ k < Len(times) => times[k + 1] > cutoff
    BY DEF Splits
  <2>2. Splits(times, cutoff, m)
    BY <2>1 DEF Splits, OlderOnes
  <2> HIDE DEF m
  <2>3. m = n
    BY <2>2, OneSplits
  <2>4. QED
    BY <2>3 DEF m
<1>2. Younger(times, cutoff) = SubSeq(times, n + 1, Len(times))
  BY <1>1 DEF Younger
<1> DEFINE rest == SubSeq(times, n + 1, Len(times))
<1>3. n \in Nat /\ n <= Len(times) /\ Len(times) \in Nat
  BY DEF Splits, Times
<1>4. rest \in Times /\ Len(rest) = Len(times) - n
  BY <1>3 DEF Times
<1>5. \A i \in 1..(Len(times) - n) : rest[i] = times[n + i]
  BY <1>3 DEF Times
<1>6. QED
  BY <1>1, <1>2, <1>4, <1>5

LEMMA SameTimes ==
  ASSUME NEW s \in Times, NEW t \in Times, Len(s) = Len(t), \A i \in 1..Len(s) : s[i] = t[i]
  PROVE  s = t
  BY SeqEqual DEF Times

LEMMA YoungerAgain ==
  ASSUME NEW times \in Times, NEW cutoff \in Int, NEW later \in Int, cutoff <= later
  PROVE  Younger(Younger(times, cutoff), later) = Younger(times, later)
<1> DEFINE rest == Younger(times, cutoff)
<1>1. PICK m : Splits(times, cutoff, m)
  BY SomethingSplits
<1>2. /\ rest \in Times /\ Len(rest) = Len(times) - m
      /\ \A i \in 1..(Len(times) - m) : rest[i] = times[m + i]
  BY <1>1, YoungerSplits
<1>3. PICK n : Splits(rest, later, n)
  BY <1>2, SomethingSplits
<1> HIDE DEF rest
<1>4. /\ Younger(rest, later) \in Times /\ Len(Younger(rest, later)) = Len(rest) - n
      /\ \A i \in 1..(Len(rest) - n) : Younger(rest, later)[i] = rest[n + i]
  BY <1>2, <1>3, YoungerSplits
<1>5. m \in Nat /\ n \in Nat /\ Len(times) \in Nat /\ m <= Len(times) /\ n <= Len(times) - m
  BY <1>1, <1>2, <1>3 DEF Splits, Times
<1>6. Splits(times, later, m + n)
  <2>1. ASSUME NEW i \in 1..(m + n) PROVE times[i] <= later
    <3>1. CASE i <= m
      <4>1. times[i] <= cutoff /\ times[i] \in Nat
        BY <1>1, <1>5, <3>1 DEF Splits, Times
      <4>2. QED
        BY <4>1
    <3>2. CASE i > m
      <4>1. i - m \in 1..n /\ i - m \in 1..(Len(times) - m) /\ m + (i - m) = i
        BY <1>5, <3>2
      <4>2. rest[i - m] <= later /\ rest[i - m] = times[i]
        BY <1>2, <1>3, <4>1 DEF Splits
      <4>3. QED
        BY <4>2
    <3>3. QED
      BY <1>5, <3>1, <3>2
  <2>2. ASSUME m + n < Len(times) PROVE times[(m + n) + 1] > later
    <3>1. n < Len(rest) /\ n + 1 \in 1..(Len(times) - m) /\ m + (n + 1) = (m + n) + 1
      BY <1>2, <1>5, <2>2
    <3>2. rest[n + 1] > later /\ rest[n + 1] = times[(m + n) + 1]
      BY <1>2, <1>3, <3>1 DEF Splits
    <3>3. QED
      BY <3>2
  <2>3. QED
    BY <1>5, <2>1, <2>2 DEF Splits
<1>7. /\ Younger(times, later) \in Times /\ Len(Younger(times, later)) = Len(times) - (m + n)
      /\ \A i \in 1..(Len(times) - (m + n)) : Younger(times, later)[i] = times[(m + n) + i]
  BY <1>6, YoungerSplits
<1>8. ASSUME NEW i \in 1..Len(Younger(rest, later))
      PROVE  Younger(rest, later)[i] = Younger(times, later)[i]
  <2>1. /\ i \in 1..(Len(rest) - n) /\ n + i \in 1..(Len(times) - m) /\ i \in 1..(Len(times) - (m + n))
        /\ m + (n + i) = (m + n) + i
    BY <1>2, <1>4, <1>5
  <2>2. QED
    BY <1>2, <1>4, <1>7, <2>1
<1>9. Len(Younger(rest, later)) = Len(Younger(times, later))
  BY <1>2, <1>4, <1>5, <1>7
<1>10. Younger(rest, later) = Younger(times, later)
  BY <1>4, <1>7, <1>8, <1>9, SameTimes
<1>11. QED
  BY <1>10 DEF rest

\* A time that is not after the cutoff leaves with all that stand before it; one that is
\* stays.
LEMMA YoungerAppended ==
  ASSUME NEW times \in Times, NEW cutoff \in Int, NEW t \in Nat
  PROVE  /\ t > cutoff => Younger(Append(times, t), cutoff) = Append(Younger(times, cutoff), t)
         /\ (\A i \in 1..Len(times) : times[i] <= cutoff) /\ t <= cutoff => Younger(Append(times, t), cutoff) = <<>>
<1> DEFINE more == Append(times, t)
<1>1. /\ more \in Times /\ Len(more) = Len(times) + 1 /\ Len(times) \in Nat
      /\ \A i \in 1..Len(times) : more[i] = times[i]
      /\ more[Len(times) + 1] = t
  BY DEF Times
<1>2. ASSUME t > cutoff PROVE Younger(more, cutoff) = Append(Younger(times, cutoff), t)
  <2>1. PICK n : Splits(times, cutoff, n)
    BY SomethingSplits
  <2>2. n \in Nat /\ n <= Len(times)
    BY <1>1, <2>1 DEF Splits
  <2> HIDE DEF more
  <2>3. Splits(more, cutoff, n)
    <3>1. \A i \in 1..n : more[i] <= cutoff
      BY <1>1, <2>1, <2>2 DEF Splits
    <3>2. more[n + 1] > cutoff
      <4>1. CASE n < Len(times)
        BY <4>1, <1>1, <2>1, <2>2 DEF Splits
      <4>2. CASE n = Len(times)
        BY <4>2, <1>1, <1>2
      <4>3. QED
        BY <4>1, <4>2, <2>2, <1>1
    <3>3. QED
      BY <1>1, <2>2, <3>1, <3>2 DEF Splits
  <2>4. /\ Younger(more, cutoff) \in Times /\ Len(Younger(more, cutoff)) = (Len(times) + 1) - n
        /\ \A i \in 1..((Len(times) + 1) - n) : Younger(more, cutoff)[i] = more[n + i]
    BY <1>1, <2>3, YoungerSplits
  <2>5. /\ Younger(times, cutoff) \in Times /\ Len(Younger(times, cutoff)) = Len(times) - n
        /\ \A i \in 1..(Len(times) - n) : Younger(times, cutoff)[i] = times[n + i]
    BY <2>1, YoungerSplits
  <2> DEFINE y == Younger(times, cutoff)
             z == Younger(more, cutoff)
  <2>6. /\ Append(y, t) \in Times /\ Len(Append(y, t)) = (Len(times) - n) + 1
        /\ \A i \in 1..(Len(times) - n) : Append(y, t)[i] = times[n + i]
        /\ Append(y, t)[(Len(times) - n) + 1] = t
    BY <1>1, <2>2, <2>5 DEF Times
  <2> HIDE DEF y, z
  <2>7. ASSUME NEW i \in 1..((Len(times) + 1) - n) PROVE z[i] = Append(y, t)[i]
    <3>1. CASE i \in 1..(Len(times) - n)
      <4>1. n + i \in 1..Len(times)
        BY <1>1, <2>2, <3>1
      <4>2. QED
        BY <1>1, <2>4, <2>6, <3>1, <4>1 DEF z
    <3>2. CASE i = (Len(times) - n) + 1
      <4>1. n + i = Len(times) + 1
        BY <1>1, <2>2, <3>2
      <4>2. QED
        BY <1>1, <2>4, <2>6, <3>2, <4>1 DEF z
    <3>3. i \in 1..(Len(times) - n) \/ i = (Len(times) - n) + 1
      BY <1>1, <2>2
    <3>4. QED
      BY <3>1, <3>2, <3>3
  <2>8. Len(z) = Len(Append(y, t)) /\ Len(z) = (Len(times) + 1) - n
    BY <1>1, <2>2, <2>4, <2>6 DEF z
  <2>9. z = Append(y, t)
    BY <2>4, <2>6, <2>7, <2>8, SameTimes DEF z
  <2>10. QED
    BY <2>9 DEF y, z
<1>3. ASSUME \A i \in 1..Len(times) : times[i] <= cutoff, t <= cutoff
      PROVE  Younger(more, cutoff) = <<>>
  <2>1. Splits(more, cutoff, Len(more))
    BY <1>1, <1>3 DEF Splits
  <2>2. Younger(more, cutoff) \in Times /\ Len(Younger(more, cutoff)) = Len(more) - Len(more)
    BY <1>1, <2>1, YoungerSplits
  <2>3. Len(Younger(more, cutoff)) = 0
    BY <1>1, <2>2
  <2>4. QED
    BY <2>2, <2>3 DEF Times
<1>4. QED
  BY <1>2, <1>3

\* What all lists share
LEMMA YoungerFacts ==
  ASSUME NEW times \in Times, NEW cutoff \in Int
  PROVE  /\ Younger(times, cutoff) \in Times
         /\ Len(Younger(times, cutoff)) <= Len(times)
         /\ \A i \in 1..Len(Younger(times, cutoff)) :
              \E j \in 1..Len(times) : Younger(times, cutoff)[i] = times[j]
         /\ Len(Younger(times, cutoff)) # 0 => /\ Len(times) # 0
              /\ Younger(times, cutoff)[Len(Younger(times, cutoff))] = times[Len(times)]
         /\ Younger(times, cutoff) # <<>> => Younger(times, cutoff)[1] > cutoff
         /\ times # <<>> /\ times[1] <= cutoff => Len(Younger(times, cutoff)) < Len(times)
         /\ (\A i \in 1..Len(times) : times[i] > cutoff) => Younger(times, cutoff) = times
         /\ (\A i \in 1..Len(times) : times[i] <= cutoff) => Younger(times, cutoff) = <<>>
<1> DEFINE rest == Younger(times, cutoff)
<1>1. PICK n : Splits(times, cutoff, n)
  BY SomethingSplits
<1>2. /\ rest \in Times /\ Len(rest) = Len(times) - n
      /\ \A i \in 1..(Len(times) - n) : rest[i] = times[n + i]
  BY <1>1, YoungerSplits
<1>3. n \in Nat /\ Len(times) \in Nat /\ n <= Len(times)
  BY <1>1 DEF Splits, Times
<1> HIDE DEF rest
<1>4. Len(rest) <= Len(times)
  BY <1>2, <1>3
<1>5. ASSUME NEW i \in 1..Len(rest) PROVE \E j \in 1..Len(times) : rest[i] = times[j]
  <2>1. n + i \in 1..Len(times) /\ rest[i] = times[n + i]
    BY <1>2, <1>3
  <2>2. QED
    BY <2>1
<1>6. rest # <<>> => rest[1] > cutoff
  <2> SUFFICES ASSUME rest # <<>> PROVE rest[1] > cutoff
    OBVIOUS
  <2>1. Len(rest) # 0
    BY <1>2 DEF Times
  <2>2. n < Len(times) /\ 1 \in 1..(Len(times) - n)
    BY <1>2, <1>3, <2>1
  <2>3. QED
    BY <1>1, <1>2, <2>2 DEF Splits
<1>7. times # <<>> /\ times[1] <= cutoff => Len(rest) < Len(times)
  <2> SUFFICES ASSUME times # <<>>, times[1] <= cutoff PROVE Len(rest) < Len(times)
    OBVIOUS
  <2>1. Len(times) # 0 /\ times[1] \in Nat
    BY DEF Times
  <2>2. n # 0
    BY <1>1, <1>3, <2>1 DEF Splits
  <2>3. QED
    BY <1>2, <1>3, <2>2
<1>8. ASSUME \A i \in 1..Len(times) : times[i] > cutoff PROVE rest = times
  <2>1. n = 0
    <3>1. CASE n # 0
      <4>1. 1 \in 1..n /\ 1 \in 1..Len(times)
        BY <3>1, <1>3
      <4>2. times[1] <= cutoff /\ times[1] > cutoff /\ times[1] \in Nat
        BY <4>1, <1>1, <1>8 DEF Splits, Times
      <4>3. QED
        BY <4>2
    <3>2. QED
      BY <3>1
  <2>2. QED
    BY <1>2, <1>3, <2>1, SameTimes
<1>9. ASSUME \A i \in 1..Len(times) : times[i] <= cutoff PROVE rest = <<>>
  <2>1. Splits(times, cutoff, Len(times))
    BY <1>3, <1>9 DEF Splits
  <2>2. n = Len(times)
    BY <1>1, <2>1, OneSplits
  <2>3. QED
    BY <1>2, <1>3, <2>2 DEF Times
<1>10. Len(rest) # 0 => Len(times) # 0 /\ rest[Len(rest)] = times[Len(times)]
  <2> SUFFICES ASSUME Len(rest) # 0 PROVE Len(times) # 0 /\ rest[Len(rest)] = times[Len(times)]
    OBVIOUS
  <2>1. Len(rest) \in 1..(Len(times) - n) /\ n + (Len(times) - n) = Len(times) /\ Len(times) # 0
    <3> DEFINE l == Len(times)
               k == Len(rest)
    <3>1. k = l - n /\ l \in Nat /\ n <= l /\ k # 0
      BY <1>2, <1>3
    <3> HIDE DEF l, k
    <3>2. k \in 1..(l - n) /\ n + (l - n) = l /\ l # 0
      BY <1>3, <3>1
    <3>3. QED
      BY <3>2 DEF l, k
  <2>2. QED
    BY <1>2, <2>1
<1>11. QED
  BY <1>2, <1>4, <1>5, <1>6, <1>7, <1>8, <1>9, <1>10 DEF rest

-----------------------------------------------------------------------------
(* RequestLimits: what holds throughout.                                     *)

\* No time lies ahead, and none is after the last.
Grown(times, now) ==
  /\ times \in Times
  /\ \A i \in 1..Len(times) : times[i] <= now /\ times[i] <= times[Len(times)]

\* One window of one client: what was let through is what the table holds of it, and a
\* promise is about the oldest request of a full window.
Passing(c) ==
  /\ Grown(hits[c], clock) /\ passed[c] = Within(hits[c], RateWindow) /\ Len(hits[c]) <= Rpm
  /\ promise[c] # 0 /\ hits[c] # <<>> => promise[c] >= hits[c][1] + RateWindow

\* Of every later window the table knows at least the failures that were told.
Failing(c) ==
  /\ Grown(failures[c], clock) /\ Grown(plain[c], clock) /\ plain[c] = Within(plain[c], FailureWindow)
  /\ \A start \in Int :
       start >= clock - FailureWindow => Len(Younger(plain[c], start)) <= Len(Younger(failures[c], start))
  /\ Len(plain[c]) <= FailureMax

Bodies == [pc : {"idle", "reading", "done"}, declared : Nat, received : Nat, given : Nat,
           started : 0..1, status : Nat]
BodyIsKept(q) ==
  /\ q \in Bodies /\ q.given <= MaxBytes
  /\ q.pc = "idle" => q.started = 0
  /\ q.pc # "done" => q.given <= q.received
BodyKept == BodyIsKept(body)

LimitsInv ==
  /\ limiter \in {"rate", "failures", "body"} /\ clock \in 0..MaxClock /\ lastSwept \in 0..clock
  /\ {hits, failures, passed, plain} \subseteq [Clients -> Times] /\ promise \in [Clients -> Nat]
  /\ \A c \in Clients : Passing(c) /\ Failing(c)
  /\ BodyKept

LEMMA LimitsSafeFromInv == LimitsInv => LimitsTypeOK /\ LimitsSafe
<1> SUFFICES ASSUME LimitsInv PROVE LimitsTypeOK /\ LimitsSafe
  OBVIOUS
<1>1. clock \in Nat /\ RateWindow \in Nat /\ FailureWindow \in Nat /\ Rpm \in Nat /\ Rpm # 0
  BY LimitsAssumption DEF LimitsInv
<1>2. ASSUME NEW c \in Clients
      PROVE  /\ Len(passed[c]) <= Rpm
             /\ promise[c] # 0 /\ clock >= promise[c] => Len(Within(hits[c], RateWindow)) < Rpm
  <2>1. /\ hits[c] \in Times /\ passed[c] = Younger(hits[c], clock - RateWindow) /\ Len(hits[c]) <= Rpm
        /\ clock - RateWindow \in Int
        /\ promise[c] # 0 /\ hits[c] # <<>> => promise[c] >= hits[c][1] + RateWindow
        /\ promise[c] \in Nat
    BY <1>1 DEF LimitsInv, Passing, Grown, Within
  <2> DEFINE rest == Younger(hits[c], clock - RateWindow)
  <2>2. /\ rest \in Times /\ Len(rest) <= Len(hits[c])
        /\ hits[c] # <<>> /\ hits[c][1] <= clock - RateWindow => Len(rest) < Len(hits[c])
    BY <2>1, YoungerFacts
  <2>3. Len(rest) \in Nat /\ Len(hits[c]) \in Nat
    BY <2>1, <2>2 DEF Times
  <2> HIDE DEF rest
  <2>4. ASSUME promise[c] # 0, clock >= promise[c] PROVE Len(rest) < Rpm
    <3>1. CASE hits[c] = <<>>
      <4>1. Len(hits[c]) = 0
        BY <3>1
      <4>2. QED
        BY <4>1, <2>2, <2>3, <1>1
    <3>2. CASE hits[c] # <<>>
      <4>1. Len(hits[c]) # 0 /\ hits[c][1] \in Nat
        BY <3>2, <2>1 DEF Times
      <4>2. hits[c][1] <= clock - RateWindow
        BY <4>1, <3>2, <2>1, <2>4, <1>1
      <4>3. QED
        BY <4>2, <3>2, <2>1, <2>2, <2>3, <1>1
    <3>3. QED
      BY <3>1, <3>2
  <2>5. Len(rest) <= Rpm
    BY <1>1, <2>1, <2>2, <2>3
  <2>6. QED
    BY <2>1, <2>4, <2>5 DEF rest, Within
<1>3. FailuresAreThrottled
  BY DEF FailuresAreThrottled, LimitsInv, Failing
<1>4. BodyIsLimited
  BY DEF BodyIsLimited, LimitsInv, BodyKept, BodyIsKept, Bodies
<1>5. LimitsTypeOK
  <2>1. ASSUME NEW c \in Clients, NEW times \in {hits[c], failures[c], passed[c], plain[c]},
               NEW i \in DOMAIN times
        PROVE  times[i] \in 0..clock
    <3>1. ASSUME NEW s, Grown(s, clock), NEW k \in DOMAIN s PROVE s[k] \in 0..clock
      BY <1>1, <3>1 DEF Grown, Times
    <3>2. Grown(hits[c], clock) /\ Grown(failures[c], clock) /\ Grown(plain[c], clock) /\ passed[c] = Younger(hits[c], clock - RateWindow)
      BY DEF LimitsInv, Passing, Failing, Within
    <3>3. ASSUME NEW k \in DOMAIN passed[c] PROVE passed[c][k] \in 0..clock
      <4>1. /\ hits[c] \in Times /\ clock - RateWindow \in Int
        BY <1>1, <3>2 DEF Grown
      <4> DEFINE rest == Younger(hits[c], clock - RateWindow)
      <4>2. /\ rest \in Times
            /\ \A m \in 1..Len(rest) : \E j \in 1..Len(hits[c]) : rest[m] = hits[c][j]
        BY <4>1, YoungerFacts
      <4>2a. passed[c] = rest
        BY <3>2
      <4> HIDE DEF rest
      <4>3. PICK j \in 1..Len(hits[c]) : rest[k] = hits[c][j]
        BY <4>2, <4>2a, <3>3 DEF Times
      <4>4. j \in DOMAIN hits[c]
        BY <4>1 DEF Times
      <4>5. QED
        BY <4>2a, <4>3, <4>4, <3>1, <3>2
    <3>4. QED
      BY <2>1, <3>1, <3>2, <3>3
  <2>2. QED
    BY <2>1 DEF LimitsTypeOK, LimitsInv, BodyKept, BodyIsKept, Bodies
<1>6. QED
  BY <1>2, <1>3, <1>4, <1>5 DEF LimitsSafe, RateHolds, RetryAfterIsTrue

LEMMA LimitsStart == LimitsInit => LimitsInv
<1> SUFFICES ASSUME LimitsInit PROVE LimitsInv
  OBVIOUS
<1>1. <<>> \in Times /\ Len(<<>>) = 0 /\ NoTimes \in [Clients -> Times]
  BY DEF Times, NoTimes
<1>2. \A cutoff \in Int : Younger(<<>>, cutoff) = <<>>
  BY <1>1, YoungerFacts
<1>3. /\ clock - RateWindow \in Int /\ clock - FailureWindow \in Int
      /\ Rpm \in Nat /\ FailureMax \in Nat /\ MaxBytes \in Nat /\ MaxClock \in Nat /\ clock = 0
  BY LimitsAssumption DEF LimitsInit
<1>4. Grown(<<>>, 0)
  BY <1>1 DEF Grown
<1>5. ASSUME NEW c \in Clients PROVE Passing(c) /\ Failing(c)
  <2>1. hits[c] = <<>> /\ passed[c] = <<>> /\ failures[c] = <<>> /\ plain[c] = <<>>
    BY DEF LimitsInit, NoTimes
  <2>2. QED
    BY <1>1, <1>2, <1>3, <1>4, <2>1 DEF Passing, Failing, Within
<1>6. BodyKept
  BY <1>3 DEF LimitsInit, BodyKept, BodyIsKept, Bodies, NoBody
<1>7. QED
  BY <1>1, <1>3, <1>5, <1>6 DEF LimitsInit, LimitsInv

LEMMA GrownLater ==
  ASSUME NEW times, NEW now \in Nat, NEW later \in Nat, Grown(times, now), now <= later
  PROVE  Grown(times, later)
  BY DEF Grown, Times

LEMMA GrownYounger ==
  ASSUME NEW times, NEW now \in Nat, Grown(times, now), NEW cutoff \in Int
  PROVE  Grown(Younger(times, cutoff), now)
<1> DEFINE rest == Younger(times, cutoff)
<1>1. times \in Times /\ \A i \in 1..Len(times) : times[i] <= now /\ times[i] <= times[Len(times)]
  BY DEF Grown
<1>2. /\ rest \in Times
      /\ \A i \in 1..Len(rest) : \E j \in 1..Len(times) : rest[i] = times[j]
      /\ Len(rest) # 0 => rest[Len(rest)] = times[Len(times)]
  BY <1>1, YoungerFacts
<1> HIDE DEF rest
<1>3. ASSUME NEW i \in 1..Len(rest) PROVE rest[i] <= now /\ rest[i] <= rest[Len(rest)]
  <2>1. PICK j \in 1..Len(times) : rest[i] = times[j]
    BY <1>2
  <2>2. Len(rest) # 0
    BY <1>2 DEF Times
  <2>3. QED
    BY <1>1, <1>2, <2>1, <2>2
<1>4. Grown(rest, now)
  BY <1>2, <1>3 DEF Grown
<1>5. QED
  BY <1>4 DEF rest

\* A window that has moved on holds what the later cutoff leaves.
LEMMA ClockKeeps ==
  ASSUME LimitsInv, ClockTicks
  PROVE  LimitsInv'
<1>1. /\ clock \in Nat /\ clock' = clock + 1 /\ clock' \in 0..MaxClock /\ lastSwept' \in 0..clock'
      /\ RateWindow \in Nat /\ FailureWindow \in Nat /\ FailureMax \in Nat /\ MaxClock \in Nat
      /\ UNCHANGED <<limiter, hits, lastSwept, failures, body, promise>>
      /\ passed' = [c \in Clients |-> Younger(passed[c], clock' - RateWindow)]
      /\ plain' = [c \in Clients |-> Younger(plain[c], clock' - FailureWindow)]
  BY LimitsAssumption DEF LimitsInv, ClockTicks
<1> DEFINE r == clock - RateWindow
           f == clock - FailureWindow
           r1 == clock' - RateWindow
           f1 == clock' - FailureWindow
<1>2. r \in Int /\ f \in Int /\ r1 \in Int /\ f1 \in Int /\ r <= r1 /\ f <= f1
  BY <1>1
<1>3. ASSUME NEW c \in Clients
      PROVE  passed'[c] \in Times /\ plain'[c] \in Times /\ Passing(c)' /\ Failing(c)'
  <2>1. /\ hits[c] \in Times /\ passed[c] \in Times /\ plain[c] \in Times /\ failures[c] \in Times
        /\ passed[c] = Younger(hits[c], r) /\ Grown(hits[c], clock) /\ Grown(failures[c], clock) /\ Grown(plain[c], clock)
        /\ Len(plain[c]) <= FailureMax
        /\ \A start \in Int : start >= f => Len(Younger(plain[c], start)) <= Len(Younger(failures[c], start))
        /\ Passing(c)
    BY DEF LimitsInv, Passing, Failing, Within
  <2>2. passed'[c] = Younger(passed[c], r1) /\ plain'[c] = Younger(plain[c], f1)
    BY <1>1
  <2> HIDE DEF r, f, r1, f1
  <2>3. passed'[c] = Younger(hits[c], r1)
    BY <1>2, <2>1, <2>2, YoungerAgain
  <2> DEFINE rest == Younger(plain[c], f1)
  <2>4. Grown(rest, clock) /\ Len(rest) <= Len(plain[c]) /\ rest \in Times
    BY <1>1, <1>2, <2>1, YoungerFacts, GrownYounger
  <2>5. rest = Younger(rest, f1)
    BY <1>2, <2>1, YoungerAgain
  <2>6. \A start \in Int : start >= f1 => Younger(rest, start) = Younger(plain[c], start) /\ start >= f
    BY <1>2, <2>1, YoungerAgain
  <2>7. Younger(hits[c], r1) \in Times
    BY <1>2, <2>1, YoungerFacts
  <2>7a. plain'[c] = rest
    BY <2>2
  <2> HIDE DEF rest
  <2>8. Grown(hits[c], clock)' /\ Grown(failures[c], clock)' /\ Grown(plain[c], clock)'
    <3>1. Grown(rest, clock') /\ Grown(hits[c], clock') /\ Grown(failures[c], clock')
      BY <1>1, <2>1, <2>4, GrownLater
    <3>2. QED
      BY <1>1, <2>7a, <3>1
  <2>9. Passing(c)'
    BY <1>1, <2>1, <2>3, <2>8 DEF Passing, Within, r1
  <2>10. Len(rest) <= FailureMax
    BY <1>1, <2>1, <2>4 DEF Times
  <2>11. \A start \in Int : start >= f1 => Len(Younger(rest, start)) <= Len(Younger(failures[c], start))
    BY <2>1, <2>6
  <2>12. Failing(c)'
    BY <1>1, <2>5, <2>7a, <2>8, <2>10, <2>11 DEF Failing, Within, f1
  <2>13. QED
    BY <2>3, <2>4, <2>7, <2>7a, <2>9, <2>12
<1>4. QED
  BY <1>1, <1>3 DEF LimitsInv, BodyKept

LEMMA GrownAppended ==
  ASSUME NEW times, NEW now \in Nat, Grown(times, now)
  PROVE  Grown(Append(times, now), now) /\ Len(Append(times, now)) = Len(times) + 1
<1> DEFINE more == Append(times, now)
<1>1. times \in Times /\ \A i \in 1..Len(times) : times[i] <= now
  BY DEF Grown
<1>2. /\ more \in Times /\ Len(more) = Len(times) + 1 /\ Len(times) \in Nat
      /\ \A i \in 1..Len(times) : more[i] = times[i]
      /\ more[Len(times) + 1] = now
  BY <1>1 DEF Times
<1> HIDE DEF more
<1>3. ASSUME NEW i \in 1..Len(more) PROVE more[i] <= now /\ more[i] <= more[Len(more)]
  <2>1. i \in 1..Len(times) \/ i = Len(times) + 1
    BY <1>2
  <2>2. QED
    BY <1>1, <1>2, <2>1
<1>4. QED
  BY <1>2, <1>3 DEF Grown, more

\* A client whose last request has aged has none within the window.
LEMMA StaleIsEmpty ==
  ASSUME NEW times, NEW now \in Nat, Grown(times, now), NEW window \in Nat,
         times = <<>> \/ times[Len(times)] + window <= now
  PROVE  Younger(times, now - window) = <<>>
<1>1. times \in Times /\ now - window \in Int /\ Len(times) \in Nat
      /\ \A i \in 1..Len(times) : times[i] <= times[Len(times)] /\ times[i] \in Nat
  BY DEF Grown, Times
<1>2. ASSUME NEW i \in 1..Len(times) PROVE times[i] <= now - window
  <2>1. times # <<>> /\ times[Len(times)] \in Nat
    BY <1>1 DEF Times
  <2>2. QED
    BY <1>1, <2>1
<1>3. QED
  BY <1>1, <1>2, YoungerFacts

LEMMA RetryAfterIsLate ==
  ASSUME NEW first \in Nat, clock \in Nat, NEW window \in Nat, first + window > clock,
         NEW times, times[1] = first
  PROVE  RetryAfter(times, window) \in Nat /\ clock + RetryAfter(times, window) >= first + window
<1> DEFINE rest == first + window - clock
<1>1. rest \in Nat /\ RetryAfter(times, window) = 2 * ((rest + 1) \div 2)
  BY DEF RetryAfter, Second
<1> HIDE DEF rest
<1>2. (rest + 1) \div 2 \in Nat /\ 2 * ((rest + 1) \div 2) >= rest
  BY <1>1
<1>3. RetryAfter(times, window) \in Nat /\ RetryAfter(times, window) >= rest
  BY <1>1, <1>2
<1>4. QED
  BY <1>3 DEF rest

LEMMA CallKeeps ==
  ASSUME LimitsInv, NEW c \in Clients, CallApi(c)
  PROVE  LimitsInv'
<1> DEFINE due == clock > lastSwept + RateWindow
           table == IF due THEN Swept(hits) ELSE hits
           r == clock - RateWindow
           window == Younger(table[c], r)
           full == Len(window) >= Rpm
<1>1. /\ clock \in Nat /\ RateWindow \in Nat \ {0} /\ Rpm \in Nat \ {0} /\ r \in Int
      /\ lastSwept' \in 0..clock /\ UNCHANGED <<limiter, clock, failures, body, plain>>
  BY LimitsAssumption DEF LimitsInv, CallApi
<1>2. /\ hits' = [table EXCEPT ![c] = IF full THEN window ELSE Append(window, clock)]
      /\ passed' = IF full THEN passed ELSE [passed EXCEPT ![c] = Append(passed[c], clock)]
      /\ promise' = [promise EXCEPT ![c] = IF full THEN clock + RetryAfter(window, RateWindow) ELSE 0]
  BY DEF CallApi, Within
<1>3. ASSUME NEW k \in Clients
      PROVE  /\ table[k] = hits[k] \/ table[k] = <<>>
             /\ Younger(table[k], r) = passed[k] /\ Grown(table[k], clock)
  <2>1. Grown(hits[k], clock) /\ passed[k] = Younger(hits[k], r) /\ <<>> \in Times
    BY DEF LimitsInv, Passing, Within, Times
  <2>2. CASE due /\ Stale(hits[k])
    <3>1. table[k] = <<>> /\ Younger(hits[k], r) = <<>>
      BY <1>1, <2>1, <2>2, StaleIsEmpty DEF Stale, Swept
    <3>2. Younger(<<>>, r) = <<>> /\ Grown(<<>>, clock)
      BY <1>1, <2>1, YoungerFacts DEF Grown
    <3>3. QED
      BY <2>1, <3>1, <3>2
  <2>3. CASE ~(due /\ Stale(hits[k]))
    <3>1. table[k] = hits[k]
      BY <2>3 DEF Swept
    <3>2. QED
      BY <2>1, <3>1
  <2>4. QED
    BY <2>2, <2>3
<1>4. table \in [Clients -> Times]
  <2>1. <<>> \in Times /\ hits \in [Clients -> Times]
    BY DEF LimitsInv, Times
  <2>2. QED
    BY <2>1 DEF Swept
<1> HIDE DEF table
<1>5. /\ window = passed[c] /\ Grown(window, clock) /\ window \in Times
      /\ Len(window) <= Len(table[c]) /\ Len(table[c]) <= Rpm
      /\ (window # <<>> => window[1] > r) /\ Younger(window, r) = window
  <2>1. table[c] \in Times /\ window = passed[c]
    BY <1>3, <1>4
  <2>2. Grown(window, clock) /\ Younger(window, r) = window
    BY <1>1, <1>3, <2>1, GrownYounger, YoungerAgain
  <2>3. Len(window) <= Len(table[c]) /\ (window # <<>> => window[1] > r) /\ window \in Times
    BY <1>1, <2>1, YoungerFacts
  <2>4. Len(table[c]) <= Rpm
    BY <1>1, <1>3 DEF LimitsInv, Passing
  <2>5. QED
    BY <2>1, <2>2, <2>3, <2>4
<1> HIDE DEF window
<1>6. Len(window) \in Nat /\ Len(window) <= Rpm
  BY <1>1, <1>4, <1>5 DEF Times
<1>7. /\ hits'[c] = IF full THEN window ELSE Append(window, clock)
      /\ promise'[c] = IF full THEN clock + RetryAfter(window, RateWindow) ELSE 0
      /\ passed'[c] = IF full THEN window ELSE Append(window, clock)
      /\ \A k \in Clients \ {c} : hits'[k] = table[k] /\ promise'[k] = promise[k] /\ passed'[k] = passed[k]
  BY <1>2, <1>4, <1>5 DEF LimitsInv
<1>8. Append(window, clock) \in Times
  BY <1>1, <1>5 DEF Times
<1>9. full => /\ window # <<>> /\ RetryAfter(window, RateWindow) \in Nat
              /\ clock + RetryAfter(window, RateWindow) >= window[1] + RateWindow
  <2> SUFFICES ASSUME full PROVE /\ window # <<>> /\ RetryAfter(window, RateWindow) \in Nat
                                 /\ clock + RetryAfter(window, RateWindow) >= window[1] + RateWindow
    OBVIOUS
  <2>1. Len(window) # 0
    BY <1>1, <1>6
  <2>2. window # <<>> /\ window[1] \in Nat
    BY <1>5, <2>1 DEF Times
  <2>3. window[1] + RateWindow > clock
    BY <1>1, <1>5, <2>2
  <2>4. QED
    BY <1>1, <2>2, <2>3, RetryAfterIsLate
<1>10. Passing(c)'
  <2>1. CASE full
    BY <2>1, <1>1, <1>5, <1>6, <1>7, <1>9 DEF Passing, Within
  <2>2. CASE ~full
    <3>1. Younger(Append(window, clock), r) = Append(window, clock)
      <4>1. clock > r
        BY <1>1
      <4>2. QED
        BY <1>1, <1>5, <4>1, YoungerAppended
    <3>2. Grown(Append(window, clock), clock) /\ Len(Append(window, clock)) <= Rpm
      <4>1. Len(window) + 1 <= Rpm
        BY <2>2, <1>1, <1>6
      <4>2. QED
        BY <1>1, <1>5, <4>1, GrownAppended
    <3>3. QED
      BY <2>2, <1>1, <1>7, <3>1, <3>2 DEF Passing, Within
  <2>3. QED
    BY <2>1, <2>2
<1>11. ASSUME NEW k \in Clients \ {c} PROVE Passing(k)'
  <2>1. /\ table[k] = hits[k] \/ table[k] = <<>>
        /\ Younger(table[k], r) = passed[k] /\ Grown(table[k], clock)
    BY <1>3
  <2>2. /\ Len(hits[k]) <= Rpm
        /\ promise[k] # 0 /\ hits[k] # <<>> => promise[k] >= hits[k][1] + RateWindow
    BY DEF LimitsInv, Passing
  <2>3. Len(<<>>) <= Rpm
    BY <1>1
  <2>4. QED
    BY <1>1, <1>7, <2>1, <2>2, <2>3 DEF Passing, Within
<1>12. hits' \in [Clients -> Times] /\ passed' \in [Clients -> Times] /\ promise' \in [Clients -> Nat]
  <2>1. ASSUME full PROVE clock + RetryAfter(window, RateWindow) \in Nat
    BY <1>1, <1>9, <2>1
  <2>2. hits' \in [Clients -> Times]
    BY <1>2, <1>4, <1>5, <1>8
  <2>3. passed' \in [Clients -> Times]
    BY <1>2, <1>5, <1>8 DEF LimitsInv
  <2>4. promise' \in [Clients -> Nat]
    BY <1>2, <2>1 DEF LimitsInv
  <2>5. QED
    BY <2>2, <2>3, <2>4
<1>13. ASSUME NEW k \in Clients PROVE Failing(k)'
  BY <1>1 DEF LimitsInv, Failing, Within
<1>14. QED
  BY <1>1, <1>10, <1>11, <1>12, <1>13 DEF LimitsInv, BodyKept

LEMMA FailureKeeps ==
  ASSUME LimitsInv, NEW c \in Clients, FailAuthentication(c)
  PROVE  LimitsInv'
<1> DEFINE f == clock - FailureWindow
           recent == Younger(failures[c], f)
           mine == Append(recent, clock)
           told == Append(plain[c], clock)
<1>1. /\ clock \in Nat /\ FailureWindow \in Nat \ {0} /\ FailureMax \in Nat /\ f \in Int /\ clock > f
      /\ UNCHANGED <<limiter, clock, hits, lastSwept, body, passed, promise>>
  BY LimitsAssumption DEF LimitsInv, FailAuthentication
<1>2. /\ failures' = [k \in Clients |->
             IF k = c THEN mine ELSE IF Younger(failures[k], f) = <<>> THEN <<>> ELSE failures[k]]
      /\ plain' = IF Len(mine) > FailureMax THEN plain ELSE [plain EXCEPT ![c] = told]
  BY DEF FailAuthentication, Within
<1>3. ASSUME NEW k \in Clients
      PROVE  /\ Grown(failures[k], clock) /\ Grown(plain[k], clock) /\ plain[k] = Younger(plain[k], f)
             /\ failures[k] \in Times /\ plain[k] \in Times /\ Len(plain[k]) <= FailureMax
             /\ \A start \in Int :
                  start >= f => Len(Younger(plain[k], start)) <= Len(Younger(failures[k], start))
  BY DEF LimitsInv, Failing, Within, Grown
<1> DEFINE Covers(told1, held) ==
             \A start \in Int : start >= f => Len(Younger(told1, start)) <= Len(Younger(held, start))
<1>4. /\ recent \in Times /\ Grown(recent, clock)
      /\ \A start \in Int : start >= f => Younger(recent, start) = Younger(failures[c], start)
  BY <1>1, <1>3, YoungerFacts, GrownYounger, YoungerAgain
<1>5. /\ Grown(mine, clock) /\ Grown(told, clock) /\ mine \in Times /\ told \in Times
      /\ Len(mine) = Len(recent) + 1 /\ Len(told) = Len(plain[c]) + 1
  <2>1. Grown(mine, clock) /\ Grown(told, clock) /\ Len(mine) = Len(recent) + 1 /\ Len(told) = Len(plain[c]) + 1
    BY <1>1, <1>3, <1>4, GrownAppended
  <2>2. QED
    BY <2>1 DEF Grown
<1>6. told = Younger(told, f)
  BY <1>1, <1>3, YoungerAppended
<1>7. Len(mine) <= FailureMax => Len(told) <= FailureMax
  <2>1. Len(plain[c]) <= Len(recent)
    BY <1>1, <1>3, <1>4
  <2>2. Len(plain[c]) \in Nat /\ Len(recent) \in Nat
    BY <1>3, <1>4 DEF Times
  <2>3. QED
    BY <1>1, <1>5, <2>1, <2>2
<1>8. ASSUME NEW start \in Int, start >= f
      PROVE  /\ Len(Younger(told, start)) <= Len(Younger(mine, start))
             /\ Len(Younger(plain[c], start)) <= Len(Younger(mine, start))
  <2> DEFINE p == Younger(plain[c], start)
             m == Younger(failures[c], start)
  <2>1. p \in Times /\ m \in Times /\ Len(p) <= Len(m) /\ Len(p) \in Nat /\ Len(m) \in Nat
    <3>1. p \in Times /\ m \in Times
      BY <1>3, YoungerFacts
    <3>2. Len(p) <= Len(m)
      BY <1>3, <1>8
    <3>3. QED
      BY <3>1, <3>2 DEF Times
  <2>2. Younger(recent, start) = m
    BY <1>4, <1>8
  <2>3. CASE clock > start
    <3>0. start \in Int /\ clock \in Nat /\ plain[c] \in Times /\ recent \in Times
      BY <1>1, <1>3, <1>4
    <3>a. Younger(told, start) = Append(p, clock)
      BY <2>3, <3>0, YoungerAppended
    <3> HIDE DEF recent
    <3>b. Younger(mine, start) = Append(Younger(recent, start), clock)
      BY <2>3, <3>0, YoungerAppended
    <3>1. Younger(told, start) = Append(p, clock) /\ Younger(mine, start) = Append(m, clock)
      BY <2>2, <3>a, <3>b
    <3> HIDE DEF p, m
    <3>2. Len(Append(p, clock)) = Len(p) + 1 /\ Len(Append(m, clock)) = Len(m) + 1
      BY <1>1, <2>1 DEF Times
    <3>3. QED
      BY <2>1, <3>1, <3>2 DEF p
  <2>4. CASE clock <= start
    <3>1. \A i \in 1..Len(plain[c]) : plain[c][i] <= start
      <4>1. ASSUME NEW i \in 1..Len(plain[c]) PROVE plain[c][i] <= start
        <5>1. plain[c][i] \in Nat /\ plain[c][i] <= clock
          BY <1>3 DEF Grown, Times
        <5>2. QED
          BY <5>1, <1>1, <2>4
      <4>2. QED
        BY <4>1
    <3>2. Younger(told, start) = <<>> /\ p = <<>>
      <4>1. plain[c] \in Times /\ start \in Int /\ clock \in Nat
        BY <1>1, <1>3
      <4>2. Younger(told, start) = <<>>
        BY <4>1, <2>4, <3>1, YoungerAppended
      <4>3. p = <<>>
        BY <4>1, <3>1, YoungerFacts
      <4>4. QED
        BY <4>2, <4>3
    <3>3. Len(Younger(mine, start)) \in Nat
      <4>1. Younger(mine, start) \in Times
        BY <1>5, YoungerFacts
      <4>2. QED
        BY <4>1 DEF Times
    <3>4. QED
      BY <3>2, <3>3
  <2>5. QED
    BY <1>1, <2>3, <2>4
<1>9. Covers(told, mine) /\ Covers(plain[c], mine)
  BY <1>8
<1> HIDE DEF recent, mine, told
<1>10. failures'[c] = mine /\ plain'[c] = IF Len(mine) > FailureMax THEN plain[c] ELSE told
  BY <1>2 DEF LimitsInv
<1>11. Len(plain'[c]) <= FailureMax
  <2>1. Len(mine) \in Nat
    BY <1>5 DEF Times
  <2>2. QED
    BY <1>1, <1>3, <1>7, <1>10, <2>1
<1>12. Failing(c)'
  BY <1>1, <1>3, <1>5, <1>6, <1>9, <1>10, <1>11 DEF Failing, Within
<1>13. ASSUME NEW k \in Clients \ {c} PROVE Failing(k)'
  <2>1. plain'[k] = plain[k]
    BY <1>2 DEF LimitsInv
  <2>2. failures'[k] = IF Younger(failures[k], f) = <<>> THEN <<>> ELSE failures[k]
    BY <1>2
  <2>3. ASSUME Younger(failures[k], f) = <<>> PROVE Covers(plain[k], <<>>) /\ Grown(<<>>, clock)
    <3>1. ASSUME NEW start \in Int, start >= f
          PROVE  Len(Younger(plain[k], start)) <= Len(Younger(<<>>, start))
      <4>1. Younger(failures[k], start) = Younger(<<>>, start)
        BY <1>1, <1>3, <2>3, <3>1, YoungerAgain
      <4>2. Len(Younger(plain[k], start)) <= Len(Younger(failures[k], start))
        BY <1>3, <3>1
      <4>3. QED
        BY <4>1, <4>2
    <3>2. QED
      BY <3>1 DEF Grown, Times
  <2>4. Covers(plain[k], failures'[k]) /\ Grown(failures'[k], clock)
    BY <1>3, <2>2, <2>3
  <2>5. QED
    BY <1>1, <1>3, <2>1, <2>4 DEF Failing, Within
<1>14. failures' \in [Clients -> Times] /\ plain' \in [Clients -> Times]
  <2>1. <<>> \in Times
    BY DEF Times
  <2>2. QED
    BY <1>2, <1>3, <1>5, <2>1 DEF LimitsInv
<1>15. ASSUME NEW k \in Clients PROVE Passing(k)'
  BY <1>1 DEF LimitsInv, Passing, Within
<1>16. QED
  BY <1>1, <1>12, <1>13, <1>14, <1>15 DEF LimitsInv, BodyKept

LEMMA AuthenticationKeeps ==
  ASSUME LimitsInv, NEW c \in Clients, Authenticate(c)
  PROVE  LimitsInv'
<1>1. /\ clock \in Nat /\ FailureWindow \in Nat /\ FailureMax \in Nat
      /\ UNCHANGED <<limiter, clock, hits, lastSwept, body, passed, promise>>
      /\ failures' = [failures EXCEPT ![c] = <<>>] /\ plain' = [plain EXCEPT ![c] = <<>>]
  BY LimitsAssumption DEF LimitsInv, Authenticate
<1>2. <<>> \in Times /\ Len(<<>>) = 0 /\ Grown(<<>>, clock)
  BY DEF Times, Grown
<1>3. \A cutoff \in Int : Younger(<<>>, cutoff) = <<>>
  BY <1>2, YoungerFacts
<1>4. ASSUME NEW k \in Clients PROVE Failing(k)'
  <2>1. CASE k = c
    <3>1. failures'[k] = <<>> /\ plain'[k] = <<>>
      BY <1>1, <2>1 DEF LimitsInv
    <3>2. QED
      BY <1>1, <1>2, <1>3, <3>1 DEF Failing, Within
  <2>2. CASE k # c
    <3>1. failures'[k] = failures[k] /\ plain'[k] = plain[k]
      BY <1>1, <2>2 DEF LimitsInv
    <3>2. QED
      BY <1>1, <3>1 DEF LimitsInv, Failing, Within
  <2>3. QED
    BY <2>1, <2>2
<1>5. failures' \in [Clients -> Times] /\ plain' \in [Clients -> Times]
  BY <1>1, <1>2 DEF LimitsInv
<1>6. ASSUME NEW k \in Clients PROVE Passing(k)'
  BY <1>1 DEF LimitsInv, Passing, Within
<1>7. QED
  BY <1>1, <1>4, <1>5, <1>6 DEF LimitsInv, BodyKept

\* A step of the body limit, which leaves the rest alone
LEMMA BodyMoves ==
  ASSUME LimitsInv, UNCHANGED <<limiter, clock, hits, lastSwept, failures, limitHistory>>, BodyKept'
  PROVE  LimitsInv'
  BY DEF LimitsInv, limitHistory, Passing, Failing, Within

LEMMA BodyBecomes ==
  ASSUME NEW q, BodyIsKept(q), body' = q
  PROVE  BodyKept'
  BY DEF BodyKept, BodyIsKept

LEMMA BodyKeeps ==
  ASSUME LimitsInv, NEW n \in 0..(MaxBytes + 1), Declare(n) \/ Receive(n) \/ Respond \/ Answered
  PROVE  LimitsInv'
<1>1. UNCHANGED <<limiter, clock, hits, lastSwept, failures, limitHistory>>
  BY DEF Declare, Receive, Respond, Answered
<1>2. /\ n \in Nat /\ MaxBytes \in Nat /\ body \in Bodies /\ body.given <= MaxBytes
      /\ body.pc = "idle" => body.started = 0
      /\ body.pc # "done" => body.given <= body.received
  BY LimitsAssumption DEF LimitsInv, BodyKept, BodyIsKept
\* The numbers, named
<1>a. PICK one \in 0..1 : one = 1
  OBVIOUS
<1>b. PICK refused \in Nat : refused = 413
  OBVIOUS
<1>c. PICK fine \in Nat : fine = 200
  OBVIOUS
<1>3. ASSUME Declare(n) PROVE BodyKept'
  <2>1. CASE n > MaxBytes
    <3> DEFINE q == [body EXCEPT !.pc = "done", !.declared = n, !.started = one, !.status = refused]
    <3>1. body' = q
      BY <1>3, <1>a, <1>b, <2>1 DEF Declare
    <3>2. q \in Bodies /\ q.pc = "done" /\ q.given = body.given
      BY <1>2 DEF Bodies
    <3> HIDE DEF q
    <3>3. QED
      BY <1>2, <3>1, <3>2, BodyBecomes DEF BodyIsKept
  <2>2. CASE ~(n > MaxBytes)
    <3> DEFINE q == [body EXCEPT !.pc = "reading", !.declared = n]
    <3>1. body' = q /\ body.pc = "idle"
      BY <1>3, <2>2 DEF Declare
    <3>2. q \in Bodies /\ q.pc = "reading" /\ q.given = body.given /\ q.received = body.received
      BY <1>2 DEF Bodies
    <3> HIDE DEF q
    <3>3. QED
      BY <1>2, <3>1, <3>2, BodyBecomes DEF BodyIsKept
  <2>3. QED
    BY <2>1, <2>2
<1>4. ASSUME Receive(n) PROVE BodyKept'
  <2> DEFINE total == body.received + n
             given == body.given + n
  <2>1. /\ body.pc = "reading" /\ total \in Nat /\ given \in Nat /\ given <= total
        /\ body.given <= body.received
    BY <1>2, <1>4 DEF Receive, Bodies
  <2>2. body' = IF total <= MaxBytes THEN [body EXCEPT !.received = total, !.given = given]
                ELSE IF body.started > 0 THEN [body EXCEPT !.pc = "done", !.received = total]
                ELSE [body EXCEPT !.pc = "done", !.received = total, !.started = 1, !.status = 413]
    BY <1>4 DEF Receive
  <2> HIDE DEF total, given
  <2>3. CASE total <= MaxBytes
    <3> DEFINE q == [body EXCEPT !.received = total, !.given = given]
    <3>1. body' = q
      BY <2>2, <2>3
    <3>2. q \in Bodies /\ q.pc = body.pc /\ q.given = given /\ q.received = total
      BY <1>2, <2>1 DEF Bodies
    <3> HIDE DEF q
    <3>3. given <= MaxBytes
      BY <1>2, <2>1, <2>3
    <3>4. QED
      BY <2>1, <3>1, <3>2, <3>3, BodyBecomes DEF BodyIsKept
  <2>4. CASE ~(total <= MaxBytes) /\ body.started > 0
    <3> DEFINE q == [body EXCEPT !.pc = "done", !.received = total]
    <3>1. body' = q
      BY <2>2, <2>4
    <3>2. q \in Bodies /\ q.pc = "done" /\ q.given = body.given
      BY <1>2, <2>1 DEF Bodies
    <3> HIDE DEF q
    <3>3. QED
      BY <1>2, <3>1, <3>2, BodyBecomes DEF BodyIsKept
  <2>5. CASE ~(total <= MaxBytes) /\ ~(body.started > 0)
    <3> DEFINE q == [body EXCEPT !.pc = "done", !.received = total, !.started = one, !.status = refused]
    <3>1. body' = q
      BY <1>a, <1>b, <2>2, <2>5
    <3>2. q \in Bodies /\ q.pc = "done" /\ q.given = body.given
      BY <1>2, <2>1 DEF Bodies
    <3> HIDE DEF q
    <3>3. QED
      BY <1>2, <3>1, <3>2, BodyBecomes DEF BodyIsKept
  <2>6. QED
    BY <2>3, <2>4, <2>5
<1>5. ASSUME Respond PROVE BodyKept'
  <2> DEFINE q == [body EXCEPT !.started = one, !.status = fine]
  <2>1. body' = q /\ body.pc = "reading"
    BY <1>5, <1>a, <1>c DEF Respond
  <2>2. q \in Bodies /\ q.pc = body.pc /\ q.given = body.given /\ q.received = body.received
    BY <1>2 DEF Bodies
  <2> HIDE DEF q
  <2>3. QED
    BY <1>2, <2>1, <2>2, BodyBecomes DEF BodyIsKept
<1>6. ASSUME Answered PROVE BodyKept'
  <2> DEFINE q == [body EXCEPT !.pc = "done"]
  <2>1. body' = q
    BY <1>6 DEF Answered
  <2>2. q \in Bodies /\ q.pc = "done" /\ q.given = body.given
    BY <1>2 DEF Bodies
  <2> HIDE DEF q
  <2>3. QED
    BY <1>2, <2>1, <2>2, BodyBecomes DEF BodyIsKept
<1>7. BodyKept'
  BY <1>3, <1>4, <1>5, <1>6
<1>8. QED
  BY <1>1, <1>7, BodyMoves

LEMMA LimitsInvHolds == LimitsSpec => []LimitsInv
<1>1. LimitsInv /\ [LimitsNext]_limitVars => LimitsInv'
  <2> SUFFICES ASSUME LimitsInv, [LimitsNext]_limitVars PROVE LimitsInv'
    OBVIOUS
  <2>1. ASSUME NEW c \in Clients, CallApi(c) \/ FailAuthentication(c) \/ Authenticate(c)
        PROVE  LimitsInv'
    BY <2>1, CallKeeps, FailureKeeps, AuthenticationKeeps
  <2>2. ASSUME NEW n \in 0..(MaxBytes + 1), Declare(n) \/ Receive(n) PROVE LimitsInv'
    BY <2>2, BodyKeeps
  <2>3. CASE Respond \/ Answered
    <3>1. 0 \in 0..(MaxBytes + 1)
      BY LimitsAssumption
    <3>2. QED
      BY <2>3, <3>1, BodyKeeps
  <2>4. CASE UNCHANGED limitVars
    BY <2>4 DEF LimitsInv, BodyKept, limitVars, Passing, Failing, Within
  <2>5. QED
    BY <2>1, <2>2, <2>3, <2>4, ClockKeeps DEF LimitsNext
<1>2. QED
  BY <1>1, LimitsStart, PTL DEF LimitsSpec

\* No client gets more requests through a window than allowed, waiting as long as
\* Retry-After says is enough (rate_limit.py), failed keys are throttled (server.py) and the
\* application is given no more of a body than the limit (body_limit.py).
THEOREM LimitsHold == LimitsSpec => []LimitsSafe
  BY LimitsInvHolds, LimitsSafeFromInv, PTL

\* The tables of times, the clock and the body keep their types.
THEOREM LimitsTypeCorrect == LimitsSpec => []LimitsTypeOK
  BY LimitsInvHolds, LimitsSafeFromInv, PTL

-----------------------------------------------------------------------------
(* PromptWindow: the windows grow with the number of turns.                  *)

\* A set of numbers with an upper bound has a greatest.
LEMMA Greatest ==
  ASSUME NEW T \in SUBSET Nat, T # {}, NEW b \in Nat, \A x \in T : x <= b
  PROVE  \E x \in T : \A y \in T : y <= x
<1> DEFINE Above == {n \in Nat : \A x \in T : x <= n}
<1>1. PICK m \in Above : \A n \in Above : m <= n
  <2>1. b \in Above /\ Above \in SUBSET Nat
    OBVIOUS
  <2> HIDE DEF Above
  <2>2. QED
    BY <2>1, Smallest
<1>2. m \in Nat /\ \A x \in T : x <= m
  OBVIOUS
<1>3. m \in T
  <2>1. SUFFICES ASSUME m \notin T PROVE FALSE
    OBVIOUS
  <2>2. PICK x0 \in T : TRUE
    OBVIOUS
  <2>3. m - 1 \in Nat /\ \A x \in T : x <= m - 1
    BY <1>2, <2>1, <2>2
  <2>4. m - 1 \in Above
    BY <2>3
  <2>5. m <= m - 1
    BY <1>1, <2>4
  <2>6. QED
    BY <1>2, <2>5
<1>4. QED
  BY <1>2, <1>3

\* A conversation and its size, as the initial states have them.
TalkTyped ==
  /\ talk \in Seq(Messages) /\ Len(talk) > 0 /\ budget \in Nat

LEMMA TurnsInOrder ==
  ASSUME TalkTyped
  PROVE  /\ DOMAIN talk = 1 .. Len(talk) /\ Len(talk) \in Nat
         /\ Prefix \subseteq DOMAIN talk /\ Remainder \subseteq DOMAIN talk
         /\ Prefix \cup Remainder = DOMAIN talk /\ Prefix \cap Remainder = {}
         /\ \A i \in Remainder, j \in DOMAIN talk : i <= j => j \in Remainder
         /\ Starts \subseteq Remainder /\ TurnStarts \subseteq Remainder
         /\ (Starts = {} => Remainder = {})
         /\ IsFiniteSet(Starts) /\ Turns \in 0 .. Len(talk) /\ (Starts # {} => Turns >= 1)
<1>1. DOMAIN talk = 1 .. Len(talk) /\ Len(talk) \in Nat /\ Len(talk) \in DOMAIN talk
  BY DEF TalkTyped
<1>2. /\ Prefix \subseteq DOMAIN talk /\ Remainder \subseteq DOMAIN talk
      /\ Prefix \cup Remainder = DOMAIN talk /\ Prefix \cap Remainder = {}
      /\ TurnStarts \subseteq Remainder
  BY DEF Prefix, Remainder, TurnStarts
<1>3. \A i \in Remainder, j \in DOMAIN talk : i <= j => j \in Remainder
  <2>1. SUFFICES ASSUME NEW i \in Remainder, NEW j \in DOMAIN talk, i <= j, j \in Prefix PROVE FALSE
    BY <1>2
  <2>2. PICK n \in 1 .. i : talk[n].role # "system"
    BY DEF Remainder, Prefix
  <2>3. n \in 1 .. j
    BY <1>1, <1>2, <2>1
  <2>4. QED
    BY <2>1, <2>2, <2>3 DEF Prefix
<1>4. Remainder # {} => Len(talk) \in Remainder
  BY <1>1, <1>2, <1>3
<1>5. Starts \subseteq Remainder /\ (Starts = {} => Remainder = {})
  BY <1>2, <1>4 DEF Starts
<1>6. Starts \subseteq 1 .. Len(talk)
  BY <1>1, <1>2, <1>5
<1>7. IsFiniteSet(1 .. Len(talk)) /\ Cardinality(1 .. Len(talk)) = Len(talk)
  <2>1. PICK n \in Nat : n = Len(talk)
    BY <1>1
  <2>2. IsFiniteSet(1 .. n) /\ Cardinality(1 .. n) = IF 1 > n THEN 0 ELSE n - 1 + 1
    BY FS_Interval
  <2>3. Cardinality(1 .. n) = n
    BY <2>2
  <2>4. QED
    BY <2>1, <2>2, <2>3
<1>8. IsFiniteSet(Starts) /\ Cardinality(Starts) <= Len(talk)
  BY <1>6, <1>7, FS_Subset
<1>9. Turns \in Nat /\ (Turns = 0 <=> Starts = {})
  BY <1>8, FS_CardinalityType, FS_EmptySet DEF Turns
<1>10. Turns \in 0 .. Len(talk)
  BY <1>1, <1>8, <1>9 DEF Turns
<1>11. Starts # {} => Turns >= 1
  BY <1>9
<1>12. QED
  BY <1>1, <1>2, <1>3, <1>5, <1>8, <1>10, <1>11

LEMMA LastTurnsGrow ==
  ASSUME TalkTyped, NEW k \in Nat, NEW n \in Nat, k <= n
  PROVE  LastTurns(k) \subseteq LastTurns(n) /\ Window(k) \subseteq Window(n) /\ Window(n) \subseteq DOMAIN talk
<1>1. ASSUME NEW i \in Remainder, NEW s \in Starts, s <= i, Cardinality({t \in Starts : t > s}) < k
      PROVE  Cardinality({t \in Starts : t > s}) < n
  <2>1. IsFiniteSet({t \in Starts : t > s})
    BY TurnsInOrder, FS_Subset
  <2>2. Cardinality({t \in Starts : t > s}) \in Nat
    BY <2>1, FS_CardinalityType
  <2>3. QED
    BY <1>1, <2>2
<1>2. LastTurns(k) \subseteq LastTurns(n)
  BY <1>1 DEF LastTurns
<1>3. LastTurns(n) \subseteq Remainder
  BY DEF LastTurns
<1>4. QED
  BY <1>2, <1>3, TurnsInOrder DEF Window

LEMMA CostGrows ==
  ASSUME TalkTyped, NEW many \in SUBSET DOMAIN talk, NEW few \in SUBSET many
  PROVE  Cost(few) \in Nat /\ Cost(many) \in Nat /\ Cost(few) <= Cost(many)
<1>1. IsFiniteSet((DOMAIN talk) \X (1 .. MaxSize))
  <2>1. IsFiniteSet(1 .. Len(talk)) /\ IsFiniteSet(1 .. MaxSize)
    BY TurnsInOrder, WindowAssumption, FS_Interval
  <2>2. IsFiniteSet(DOMAIN talk)
    BY <2>1, TurnsInOrder
  <2>3. \A D, N : IsFiniteSet(D) /\ IsFiniteSet(N) => IsFiniteSet(D \X N)
    BY FS_Product
  <2>4. QED
    BY <2>1, <2>2, <2>3, Zenon
<1>2. Units(few) \subseteq Units(many) /\ Units(many) \subseteq (DOMAIN talk) \X (1 .. MaxSize)
  <2>0. ASSUME NEW N, NEW X, NEW Y \in SUBSET X PROVE Y \X N \subseteq X \X N
    OBVIOUS
  <2>1. few \X (1 .. MaxSize) \subseteq many \X (1 .. MaxSize) /\ many \X (1 .. MaxSize) \subseteq (DOMAIN talk) \X (1 .. MaxSize)
    BY <2>0, Zenon
  <2>2. QED
    BY <2>1 DEF Units
<1>3. IsFiniteSet(Units(many))
  BY <1>1, <1>2, FS_Subset
<1>4. IsFiniteSet(Units(few)) /\ Cardinality(Units(few)) <= Cardinality(Units(many))
  BY <1>2, <1>3, FS_Subset
<1>5. Cardinality(Units(few)) \in Nat /\ Cardinality(Units(many)) \in Nat
  BY <1>3, <1>4, FS_CardinalityType
<1>6. QED
  BY <1>4, <1>5 DEF Cost, Overhead

LEMMA FewerFit ==
  ASSUME TalkTyped, NEW k \in Nat, NEW n \in Nat, k <= n, ~Fits(k)
  PROVE  ~Fits(n)
<1>1. Window(k) \subseteq Window(n) /\ Window(n) \subseteq DOMAIN talk
  BY LastTurnsGrow
<1>2. Cost(Window(k)) \in Nat /\ Cost(Window(n)) \in Nat /\ Cost(Window(k)) <= Cost(Window(n))
  BY <1>1, CostGrows
<1>3. QED
  BY <1>2 DEF Fits, TalkTyped

-----------------------------------------------------------------------------
(* PromptWindow: the search keeps the answer between its bounds.             *)

\* best has been tried, or it is the one turn that is sent in any case; what was passed over
\* below is no longer than best, and what was passed over above does not fit.
Searched ==
  /\ Cost(DOMAIN talk) > budget /\ Starts # {}
  /\ best \in 1 .. Turns /\ low \in 1 .. Turns + 1 /\ high \in 0 .. Turns
  /\ best = 1 \/ Fits(best)
  /\ \A k \in 1 .. Turns : k < low => k <= best
  /\ \A k \in 1 .. Turns : k > high => ~Fits(k)

WindowInv ==
  /\ TalkTyped
  /\ step \in {"full", "search", "final", "built"}
  /\ {low, high, best} \subseteq 0 .. (Len(talk) + 1)
  /\ step # "built" => kept = {}
  /\ step \in {"search", "final"} => Searched
  /\ step = "final" => low > high
  /\ step = "built" =>
       \/ kept = DOMAIN talk
       \/ Cost(DOMAIN talk) > budget /\ Starts = {} /\ kept = Prefix
       \/ Searched /\ low > high /\ kept = Window(best)

LEMMA WindowStarts == WindowInit => WindowInv
<1> SUFFICES ASSUME WindowInit PROVE WindowInv
  OBVIOUS
<1>1. PICK n \in 1 .. MaxMessages : talk \in [1 .. n -> Messages]
  BY DEF WindowInit
<1>2. n \in Nat /\ n > 0
  BY WindowAssumption
<1>3. talk \in Seq(Messages) /\ Len(talk) > 0 /\ Len(talk) \in Nat
  BY <1>1, <1>2
<1>4. budget \in Nat
  BY WindowAssumption DEF WindowInit
<1>5. QED
  BY <1>3, <1>4 DEF WindowInit, WindowInv, TalkTyped

\* The operators depend on the conversation and the budget only.
LEMMA SameTalk ==
  ASSUME UNCHANGED <<talk, budget>>
  PROVE  /\ TalkTyped' = TalkTyped /\ Prefix' = Prefix /\ Remainder' = Remainder /\ Starts' = Starts
         /\ TurnStarts' = TurnStarts /\ Turns' = Turns /\ Cost(DOMAIN talk)' = Cost(DOMAIN talk)
         /\ \A k : (Window(k)' = Window(k)) /\ (Fits(k)' = Fits(k))
<1>1. talk' = talk /\ budget' = budget
  OBVIOUS
<1>2. TalkTyped' = TalkTyped
  BY <1>1 DEF TalkTyped
<1>3. Prefix' = Prefix
  BY <1>1 DEF Prefix
<1>4. Remainder' = Remainder
  BY <1>1, <1>3 DEF Remainder
<1>5. TurnStarts' = TurnStarts
  BY <1>1, <1>4 DEF TurnStarts, FromUser
<1>6. Starts' = Starts
  BY <1>1, <1>4, <1>5 DEF Starts
<1>7. Turns' = Turns
  BY <1>6 DEF Turns
<1>8. \A k : LastTurns(k)' = LastTurns(k)
  BY <1>4, <1>6 DEF LastTurns
<1>9. \A k : Window(k)' = Window(k)
  BY <1>3, <1>8 DEF Window
<1>10. Cost(DOMAIN talk)' = Cost(DOMAIN talk)
  BY <1>1 DEF Cost, Units
<1>11. \A k : Fits(k)' = Fits(k)
  BY <1>1, <1>9 DEF Fits, Cost, Units
<1>12. QED
  BY <1>2, <1>3, <1>4, <1>5, <1>6, <1>7, <1>9, <1>10, <1>11

LEMMA SearchedStays ==
  ASSUME UNCHANGED <<talk, budget, low, high, best>>
  PROVE  Searched' = Searched /\ Window(best)' = Window(best)
<1>1. UNCHANGED <<talk, budget>> /\ talk' = talk /\ budget' = budget
  OBVIOUS
<1>2. /\ Starts' = Starts /\ Turns' = Turns /\ Prefix' = Prefix /\ Remainder' = Remainder
      /\ Cost(DOMAIN talk)' = Cost(DOMAIN talk)
      /\ \A k : Fits(k)' = Fits(k)
  BY <1>1, SameTalk
<1>3. Window(best)' = Window(best)
  BY <1>2 DEF Window, LastTurns
<1>4. Fits(best)' = Fits(best)
  BY <1>1, <1>3 DEF Fits, Cost, Units
<1>5. Searched' = Searched
  BY <1>1, <1>2, <1>4 DEF Searched
<1>6. QED
  BY <1>3, <1>5

LEMMA SearchKeeps == WindowInv /\ [WindowNext]_windowVars => WindowInv'
<1> SUFFICES ASSUME WindowInv, [WindowNext]_windowVars PROVE WindowInv'
  OBVIOUS
<1>1. talk' = talk /\ budget' = budget
  BY DEF WindowNext, TryAll, Search, Finish, windowVars
<1>2. /\ TalkTyped' = TalkTyped /\ Prefix' = Prefix /\ Starts' = Starts /\ Turns' = Turns
      /\ Cost(DOMAIN talk)' = Cost(DOMAIN talk)
      /\ \A k : (Window(k)' = Window(k)) /\ (Fits(k)' = Fits(k))
  BY <1>1, SameTalk
<1>3. TalkTyped /\ TalkTyped' /\ Len(talk) \in Nat /\ Turns \in 0 .. Len(talk) /\ Prefix \subseteq DOMAIN talk
      /\ (Starts # {} => Turns >= 1) /\ Cost(DOMAIN talk) \in Nat /\ budget \in Nat
  BY <1>2, TurnsInOrder, CostGrows DEF WindowInv, TalkTyped
<1>4. CASE TryAll
  <2>1. CASE step' = "built"
    BY <1>1, <1>2, <1>3, <1>4, <2>1 DEF TryAll, WindowInv
  <2>2. CASE step' = "search"
    <3>1. /\ Cost(DOMAIN talk) > budget /\ Starts # {}
          /\ low' = 1 /\ high' = Turns /\ best' = 1 /\ kept' = kept /\ kept = {}
      BY <1>4, <2>2 DEF TryAll, WindowInv
    <3>2. best' \in 1 .. Turns' /\ low' \in 1 .. Turns' + 1 /\ high' \in 0 .. Turns'
      BY <1>2, <1>3, <3>1
    <3>3. \A k \in 1 .. Turns' : ~(k < low') /\ ~(k > high')
      BY <1>2, <1>3, <3>1
    <3>4. (Cost(DOMAIN talk) > budget)' /\ Starts' # {}
      BY <1>1, <1>2, <3>1
    <3>5. Searched'
      BY <3>1, <3>2, <3>3, <3>4 DEF Searched
    <3>6. {low', high', best'} \subseteq 0 .. (Len(talk') + 1)
      BY <1>1, <1>2, <1>3, <3>2
    <3>7. QED
      BY <1>3, <2>2, <3>1, <3>5, <3>6 DEF WindowInv
  <2>3. QED
    BY <1>4, <2>1, <2>2 DEF TryAll
<1>5. CASE Search
  <2>1. Searched /\ step = "search" /\ kept = {} /\ kept' = kept
    BY <1>5 DEF Search, WindowInv
  <2>2. /\ (Cost(DOMAIN talk) > budget)' /\ Starts' # {} /\ Turns \in Nat
        /\ best \in 1 .. Turns /\ low \in 1 .. Turns + 1 /\ high \in 0 .. Turns
    BY <1>1, <1>2, <1>3, <2>1 DEF Searched
  <2>3. CASE low <= high
    <3>1. PICK m \in Nat : m = Mid /\ low <= m /\ m <= high
      <4>1. low \in Nat /\ high \in Nat
        BY <2>2
      <4>2. Mid \in Nat /\ low <= Mid /\ Mid <= high
        BY <2>3, <4>1 DEF Mid
      <4>3. QED
        BY <4>2
    <3>2. m \in 1 .. Turns
      BY <2>2, <3>1
    <3>3. CASE Fits(m)
      <4>1. best' = m /\ low' = m + 1 /\ high' = high /\ step' = "search"
        BY <1>5, <2>3, <3>1, <3>3 DEF Search
      <4>2. best' \in 1 .. Turns' /\ low' \in 1 .. Turns' + 1 /\ high' \in 0 .. Turns'
        BY <1>2, <2>2, <3>2, <4>1
      <4>3. Fits(best)'
        <5>1. Fits(m)' = Fits(m)
          BY <1>2
        <5>2. (Cost(Window(m)) <= budget)'
          BY <3>3, <5>1 DEF Fits
        <5>3. QED
          BY <4>1, <5>1, <5>2, <1>1, <1>2 DEF Fits
      <4>4. \A k \in 1 .. Turns' : (k < low' => k <= best')
        BY <1>2, <2>2, <3>2, <4>1
      <4>5. \A k \in 1 .. Turns' : k > high' => ~Fits(k)'
        BY <1>2, <2>1, <4>1 DEF Searched
      <4>6. Searched'
        BY <2>2, <4>2, <4>3, <4>4, <4>5 DEF Searched
      <4>7. {low', high', best'} \subseteq 0 .. (Len(talk') + 1)
        BY <1>1, <1>2, <1>3, <4>2
      <4>8. QED
        BY <1>3, <2>1, <4>1, <4>6, <4>7 DEF WindowInv
    <3>4. CASE ~Fits(m)
      <4>1. best' = best /\ low' = low /\ high' = m - 1 /\ step' = "search"
        BY <1>5, <2>3, <3>1, <3>4 DEF Search
      <4>2. best' \in 1 .. Turns' /\ low' \in 1 .. Turns' + 1 /\ high' \in 0 .. Turns'
        BY <1>2, <2>2, <3>2, <4>1
      <4>3. best' = 1 \/ Fits(best)'
        <5>1. best = 1 \/ Fits(best)
          BY <2>1 DEF Searched
        <5>2. Fits(best)' = Fits(best)
          BY <1>1, <1>2, <4>1 DEF Fits, Cost, Units
        <5>3. QED
          BY <4>1, <5>1, <5>2
      <4>4. \A k \in 1 .. Turns' : (k < low' => k <= best')
        BY <1>2, <2>1, <4>1 DEF Searched
      <4>5. \A k \in 1 .. Turns' : k > high' => ~Fits(k)'
        <5>1. TAKE k \in 1 .. Turns'
        <5>2. HAVE k > high'
        <5>3. k \in Nat /\ m <= k
          BY <1>2, <1>3, <3>1, <4>1, <5>2
        <5>4. ~Fits(k)
          BY <1>3, <3>4, <5>3, FewerFit
        <5>5. QED
          BY <1>2, <5>4
      <4>6. Searched'
        BY <2>2, <4>2, <4>3, <4>4, <4>5 DEF Searched
      <4>7. {low', high', best'} \subseteq 0 .. (Len(talk') + 1)
        BY <1>1, <1>2, <1>3, <4>2
      <4>8. QED
        BY <1>3, <2>1, <4>1, <4>6, <4>7 DEF WindowInv
    <3>5. QED
      BY <3>3, <3>4
  <2>4. CASE low > high
    <3>1. UNCHANGED <<low, high, best>> /\ step' = "final"
      BY <1>5, <2>2, <2>4 DEF Search
    <3>2. Searched'
      BY <1>1, <1>2, <2>1, <3>1, SearchedStays
    <3>3. QED
      BY <1>1, <1>3, <2>1, <2>4, <3>1, <3>2 DEF WindowInv
  <2>5. QED
    BY <2>2, <2>3, <2>4
<1>6. CASE Finish
  <2>1. /\ Searched /\ low > high /\ UNCHANGED <<talk, budget, low, high, best>>
        /\ step' = "built" /\ kept' = Window(best)
    BY <1>6 DEF Finish, WindowInv
  <2>2. Searched'
    BY <2>1, SearchedStays
  <2>3. kept' = Window(best)'
    <3>1. PICK b : b = best
      OBVIOUS
    <3>2. Window(b)' = Window(b)
      BY <1>2
    <3>3. QED
      BY <2>1, <3>1, <3>2 DEF Window, LastTurns
  <2>4. QED
    BY <1>1, <1>3, <2>1, <2>2, <2>3 DEF WindowInv
<1>7. CASE UNCHANGED windowVars
  <2>1. UNCHANGED <<talk, budget, step, low, high, best, kept>>
    BY <1>7 DEF windowVars
  <2>2. Searched' = Searched /\ Window(best)' = Window(best)
    BY <2>1, SameTalk, SearchedStays DEF Window, LastTurns
  <2>3. QED
    BY <1>2, <1>3, <2>1, <2>2 DEF WindowInv
<1>8. QED
  BY <1>4, <1>5, <1>6, <1>7 DEF WindowNext

LEMMA WindowAlways == WindowSpec => []WindowInv
<1>1. WindowInit => WindowInv
  BY WindowStarts
<1>2. WindowInv /\ [WindowNext]_windowVars => WindowInv'
  BY SearchKeeps
<1>3. QED
  BY <1>1, <1>2, PTL DEF WindowSpec

LEMMA WindowTyped == WindowInv => WindowTypeOK
<1> SUFFICES ASSUME WindowInv PROVE WindowTypeOK
  OBVIOUS
<1>1. TalkTyped /\ Prefix \subseteq DOMAIN talk /\ Turns \in Nat
  BY TurnsInOrder DEF WindowInv
<1>2. best \in Nat => Window(best) \subseteq DOMAIN talk
  BY <1>1, LastTurnsGrow
<1>3. step = "built" => kept \subseteq DOMAIN talk
  BY <1>1, <1>2 DEF WindowInv, Searched
<1>4. kept \subseteq DOMAIN talk
  BY <1>3 DEF WindowInv
<1>5. QED
  BY <1>1, <1>4 DEF WindowTypeOK, WindowInv, TalkTyped

\* What the search leaves: the last turn is among the last k of them.
LEMMA LastTurnIsSent ==
  ASSUME TalkTyped, Starts # {}, NEW k \in Nat, k >= 1
  PROVE  Len(talk) \in Window(k)
<1>1. /\ DOMAIN talk = 1 .. Len(talk) /\ Len(talk) \in Nat /\ Starts \subseteq Remainder
      /\ Remainder \subseteq DOMAIN talk
      /\ \A i \in Remainder, j \in DOMAIN talk : i <= j => j \in Remainder
  BY TurnsInOrder
<1>2. Starts \in SUBSET Nat /\ \A s \in Starts : s <= Len(talk)
  BY <1>1
<1>3. PICK s \in Starts : \A t \in Starts : t <= s
  BY <1>1, <1>2, Greatest
<1>4. {t \in Starts : t > s} = {}
  <2>1. ASSUME NEW t \in Starts PROVE ~(t > s)
    <3>1. t \in Nat /\ s \in Nat /\ t <= s
      BY <1>2, <1>3
    <3>2. QED
      BY <3>1
  <2>2. QED
    BY <2>1
<1>5. Cardinality({t \in Starts : t > s}) < k
  BY <1>4, FS_EmptySet
<1>6. s <= Len(talk) /\ Len(talk) \in Remainder
  BY <1>1, <1>2
<1>7. QED
  BY <1>5, <1>6 DEF Window, LastTurns

LEMMA QuestionIsSent ==
  ASSUME TalkTyped, TurnStarts # {}, NEW k \in Nat, NEW i \in Window(k) \ Prefix
  PROVE  \E q \in Window(k) :
           /\ talk[q].role = "user" \/ \A j \in Remainder : talk[j].role = "user" => j > i
           /\ FromUser(q) /\ q <= i /\ \A j \in q..i : j \in Window(k)
<1>1. /\ DOMAIN talk = 1 .. Len(talk) /\ Len(talk) \in Nat /\ Starts = TurnStarts
      /\ Remainder \subseteq DOMAIN talk /\ Starts \subseteq Remainder /\ IsFiniteSet(Starts)
      /\ \A j \in Remainder, n \in DOMAIN talk : j <= n => n \in Remainder
  BY TurnsInOrder DEF Starts
<1>2. i \in Remainder
  BY DEF Window, LastTurns
<1>3. PICK s \in Starts : s <= i /\ Cardinality({t \in Starts : t > s}) < k
  BY DEF Window, LastTurns
\* From a start q at or after s on, everything is sent.
<1>4. ASSUME NEW q \in Starts, s <= q, NEW j \in q .. i
      PROVE  j \in Window(k)
  <2>1. j \in Remainder /\ q <= j
    BY <1>1, <1>2, <1>4
  <2>2. {t \in Starts : t > q} \subseteq {t \in Starts : t > s}
    BY <1>1, <1>4
  <2>3. IsFiniteSet({t \in Starts : t > s})
    BY <1>1, FS_Subset
  <2>4. Cardinality({t \in Starts : t > q}) <= Cardinality({t \in Starts : t > s})
    BY <2>2, <2>3, FS_Subset
  <2>5. /\ Cardinality({t \in Starts : t > q}) \in Nat
        /\ Cardinality({t \in Starts : t > s}) \in Nat
    BY <2>2, <2>3, FS_Subset, FS_CardinalityType
  <2>6. Cardinality({t \in Starts : t > q}) < k
    BY <1>3, <2>4, <2>5
  <2>7. QED
    BY <2>1, <2>6 DEF Window, LastTurns
<1>5. s \in Nat /\ i \in Nat /\ s <= s /\ s \in s .. i /\ FromUser(s)
  BY <1>1, <1>2, <1>3 DEF TurnStarts
<1>6. CASE talk[s].role = "user" \/ \A j \in Remainder : talk[j].role = "user" => j > i
  BY <1>3, <1>4, <1>5, <1>6
<1>7. CASE talk[s].role # "user" /\ \E j \in Remainder : talk[j].role = "user" /\ ~(j > i)
  <2>1. PICK j \in Remainder : talk[j].role = "user" /\ ~(j > i)
    BY <1>7
  <2>2. j \in Nat /\ j <= i /\ FromUser(j)
    BY <1>1, <1>5, <2>1 DEF FromUser
  <2>3. j \in Starts
    BY <1>1, <2>1, <2>2 DEF TurnStarts
  <2>4. \A n \in Remainder : n < s => ~FromUser(n)
    BY <1>1, <1>7 DEF TurnStarts
  <2>5. s <= j
    BY <1>5, <2>1, <2>2, <2>4
  <2>6. j \in j .. i
    BY <1>5, <2>2
  <2>7. QED
    BY <1>4, <2>1, <2>2, <2>3, <2>5, <2>6
<1>8. QED
  BY <1>6, <1>7

LEMMA WindowSent == WindowInv => WindowRight
<1> SUFFICES ASSUME WindowInv, step = "built" PROVE WindowRight
  BY DEF WindowRight, WindowIsLargest, NoAnswerWithoutItsQuestion, NewestIsKept
<1>1. /\ TalkTyped /\ Len(talk) \in DOMAIN talk /\ Turns \in Nat
      /\ Prefix \subseteq DOMAIN talk /\ Remainder \subseteq DOMAIN talk
      /\ (Starts = {} => Remainder = {} /\ Turns = 0) /\ (TurnStarts # {} => Starts # {})
  <2>1. TalkTyped /\ Len(talk) > 0
    BY DEF WindowInv, TalkTyped
  <2>2. Starts = {} => Turns = 0
    BY FS_EmptySet DEF Turns
  <2>3. QED
    BY <2>1, <2>2, TurnsInOrder DEF Starts
<1>2. CASE kept = DOMAIN talk
  BY <1>1, <1>2 DEF WindowRight, WindowIsLargest, NoAnswerWithoutItsQuestion, NewestIsKept
<1>3. CASE Cost(DOMAIN talk) > budget /\ Starts = {} /\ kept = Prefix
  <2>1. \A k \in 1 .. Turns : FALSE
    BY <1>1, <1>3
  <2>2. QED
    BY <1>1, <1>3, <2>1 DEF WindowRight, WindowIsLargest, NoAnswerWithoutItsQuestion, NewestIsKept
<1>4. CASE Searched /\ low > high /\ kept = Window(best)
  <2>1. best \in Nat /\ best >= 1 /\ low \in Nat /\ high \in Nat
    BY <1>1, <1>4 DEF Searched
  <2>2. \A k \in 1 .. Turns : LastTurns(k) \subseteq kept \/ ~Fits(k)
    <3>1. TAKE k \in 1 .. Turns
    <3>2. CASE k <= best
      <4>1. LastTurns(k) \subseteq LastTurns(best)
        BY <1>1, <2>1, <3>2, LastTurnsGrow
      <4>2. QED
        BY <1>4, <4>1 DEF Window
    <3>3. CASE k > best
      <4>1. ~(k < low)
        BY <1>1, <1>4, <2>1, <3>3 DEF Searched
      <4>2. k > high
        BY <1>1, <1>4, <2>1, <4>1
      <4>3. QED
        BY <1>4, <4>2 DEF Searched
    <3>4. QED
      BY <1>1, <2>1, <3>2, <3>3
  <2>3. Cost(kept) <= budget \/ kept = Window(1)
    BY <1>4 DEF Searched, Fits
  <2>4. Len(talk) \in kept /\ Prefix \subseteq kept
    BY <1>1, <1>4, <2>1, LastTurnIsSent DEF Searched, Window
  <2>5. WindowIsLargest
    BY <1>4, <2>2, <2>3 DEF WindowIsLargest, Searched
  <2>6. NoAnswerWithoutItsQuestion
    <3>1. SUFFICES ASSUME TurnStarts # {}, NEW i \in kept \ Prefix
          PROVE  \E q \in kept :
                   /\ talk[q].role = "user" \/ \A j \in Remainder : talk[j].role = "user" => j > i
                   /\ FromUser(q) /\ q <= i /\ \A j \in q..i : j \in kept
      BY DEF NoAnswerWithoutItsQuestion
    <3>2. i \in Window(best) \ Prefix
      BY <1>4
    <3>3. \E q \in Window(best) :
            /\ talk[q].role = "user" \/ \A j \in Remainder : talk[j].role = "user" => j > i
            /\ FromUser(q) /\ q <= i /\ \A j \in q..i : j \in Window(best)
      BY <1>1, <2>1, <3>1, <3>2, QuestionIsSent
    <3>4. QED
      BY <1>4, <3>3
  <2>7. QED
    BY <2>4, <2>5, <2>6 DEF WindowRight, NewestIsKept
<1>5. QED
  BY <1>2, <1>3, <1>4 DEF WindowInv

\* The longest history of whole turns that fits is sent, with the instructions and the newest
\* message, and no answer without its question (chat_format.py, build_prompt_within_budget).
THEOREM WindowIsRight == WindowSpec => []WindowRight
BY WindowAlways, WindowSent, PTL

\* The search keeps its bounds and sends messages of the conversation.
THEOREM WindowTypeCorrect == WindowSpec => []WindowTypeOK
BY WindowAlways, WindowTyped, PTL

-----------------------------------------------------------------------------
(* StopSequences: pieces of the answer, and where stop sequences occur.      *)

\* A finite set of numbers has an upper bound: by induction over its size.
LEMMA FiniteBound ==
  ASSUME NEW L \in SUBSET Nat, IsFiniteSet(L)
  PROVE  \E b \in Nat : \A x \in L : x <= b
<1> DEFINE Bounded(X) == \E b \in Nat : \A x \in X : x <= b
           Open == {n \in Nat : \E X \in SUBSET L : IsFiniteSet(X) /\ Cardinality(X) = n /\ ~Bounded(X)}
<1>1. SUFFICES ASSUME ~Bounded(L) PROVE FALSE
  OBVIOUS
<1>2. Open \in SUBSET Nat /\ Open # {}
  <2>1. Cardinality(L) \in Nat
    BY FS_CardinalityType
  <2>2. QED
    BY <1>1, <2>1
<1>3. PICK n \in Open : \A m \in Open : n <= m
  BY <1>2, Smallest
<1>4. PICK X \in SUBSET L : IsFiniteSet(X) /\ Cardinality(X) = n /\ ~Bounded(X)
  BY <1>3
<1>5. X # {}
  BY <1>4
<1>6. PICK x \in X : TRUE
  BY <1>5
<1>7. IsFiniteSet(X \ {x}) /\ Cardinality(X \ {x}) = n - 1
  BY <1>4, <1>6, FS_RemoveElement
<1>8. n - 1 \in Nat /\ ~(n <= n - 1)
  BY <1>7, <1>3, FS_CardinalityType
<1>9. Bounded(X \ {x})
  BY <1>3, <1>7, <1>8
<1>10. PICK b \in Nat : \A y \in X \ {x} : y <= b
  BY <1>9
<1>11. PICK c \in Nat : b <= c /\ x <= c
  BY <1>6
<1>12. \A y \in X : y <= c
  <2>1. TAKE y \in X
  <2>2. y \in Nat /\ x \in Nat
    BY <1>6
  <2>3. CASE y = x
    BY <1>11, <2>3
  <2>4. CASE y # x
    <3>1. y <= b
      BY <1>10, <2>4
    <3>2. QED
      BY <1>11, <2>2, <3>1
  <2>5. QED
    BY <2>3, <2>4
<1>13. QED
  BY <1>4, <1>12

LEMMA SliceOf ==
  ASSUME NEW L, NEW text \in Seq(L), NEW a \in Nat, NEW b \in Nat, a <= b, b <= Len(text)
  PROVE  /\ SubSeq(text, a + 1, b) \in Seq(L) /\ Len(SubSeq(text, a + 1, b)) = b - a
         /\ \A i \in 1 .. b - a : SubSeq(text, a + 1, b)[i] = text[a + i]
<1>1. PICK m \in Int : m = a + 1
  OBVIOUS
<1>2. \A i \in m .. b : text[i] \in L
  <2>1. TAKE i \in m .. b
  <2>2. i \in 1 .. Len(text)
    BY <1>1
  <2>3. QED
    BY <2>2
<1>3. /\ SubSeq(text, m, b) \in Seq(L)
      /\ Len(SubSeq(text, m, b)) = IF m <= b THEN b - m + 1 ELSE 0
      /\ \A i \in 1 .. b - m + 1 : SubSeq(text, m, b)[i] = text[m + i - 1]
  BY <1>2, SubSeqProperties
<1>4. (IF m <= b THEN b - m + 1 ELSE 0) = b - a /\ b - m + 1 = b - a
  BY <1>1
<1>5. \A i \in 1 .. b - a : m + i - 1 = a + i
  BY <1>1
<1>6. QED
  BY ONLY <1>1, <1>3, <1>4, <1>5

\* Sequences of one length with the same elements are equal.
LEMMA SameSequence ==
  ASSUME NEW L, NEW s \in Seq(L), NEW t \in Seq(L), Len(s) = Len(t), \A i \in 1 .. Len(s) : s[i] = t[i]
  PROVE  s = t
BY SeqEqual

LEMMA SlicesJoin ==
  ASSUME NEW L, NEW text \in Seq(L), NEW a \in Nat, NEW b \in Nat, NEW c \in Nat,
         a <= b, b <= c, c <= Len(text)
  PROVE  SubSeq(text, a + 1, b) \o SubSeq(text, b + 1, c) = SubSeq(text, a + 1, c)
<1>1. PICK x, y, z : x = SubSeq(text, a + 1, b) /\ y = SubSeq(text, b + 1, c) /\ z = SubSeq(text, a + 1, c)
  OBVIOUS
<1>2. x \in Seq(L) /\ Len(x) = b - a /\ \A i \in 1 .. b - a : x[i] = text[a + i]
  BY <1>1, SliceOf
<1>3. y \in Seq(L) /\ Len(y) = c - b /\ \A i \in 1 .. c - b : y[i] = text[b + i]
  BY <1>1, SliceOf
<1>4. a <= c
  OBVIOUS
<1>5. z \in Seq(L) /\ Len(z) = c - a /\ \A i \in 1 .. c - a : z[i] = text[a + i]
  BY <1>1, <1>4, SliceOf
<1>6. /\ x \o y \in Seq(L) /\ Len(x \o y) = Len(x) + Len(y)
      /\ \A i \in 1 .. Len(x) + Len(y) : (x \o y)[i] = IF i <= Len(x) THEN x[i] ELSE y[i - Len(x)]
  BY <1>2, <1>3, ConcatProperties
<1>7. ASSUME NEW i \in 1 .. c - a PROVE (x \o y)[i] = z[i]
  <2>1. (x \o y)[i] = IF i <= b - a THEN x[i] ELSE y[i - (b - a)]
    <3>1. i \in 1 .. Len(x) + Len(y)
      <4>1. (b - a) + (c - b) = c - a
        OBVIOUS
      <4>2. QED
        BY <1>2, <1>3, <4>1
    <3>2. (x \o y)[i] = IF i <= Len(x) THEN x[i] ELSE y[i - Len(x)]
      BY <1>6, <3>1
    <3>3. QED
      BY ONLY <1>2, <3>2
  <2>2. CASE i <= b - a
    <3>1. i \in 1 .. b - a
      BY <2>2
    <3>2. QED
      BY <1>2, <1>5, <2>1, <3>1
  <2>3. CASE i > b - a
    <3>1. PICK j \in 1 .. c - b : i = (b - a) + j
      <4>1. i - (b - a) \in 1 .. c - b /\ i = (b - a) + (i - (b - a))
        BY <2>3
      <4>2. QED
        BY <4>1
    <3>2. i - (b - a) = j /\ b + j = a + i /\ ~(i <= b - a)
      BY <2>3, <3>1
    <3>3. QED
      BY <1>3, <1>5, <2>1, <3>1, <3>2
  <2>4. i <= b - a \/ i > b - a
    OBVIOUS
  <2>5. QED
    BY <2>2, <2>3, <2>4
<1>8. Len(x \o y) = c - a
  BY <1>2, <1>3, <1>6
<1>9. x \o y = z
  BY <1>5, <1>6, <1>7, <1>8, SameSequence
<1>10. QED
  BY <1>1, <1>9

LEMMA SliceOfSlice ==
  ASSUME NEW L, NEW text \in Seq(L), NEW a \in Nat, NEW b \in Nat, a <= b, b <= Len(text),
         NEW k \in Nat, NEW l \in Nat, k <= l, l <= b - a
  PROVE  SubSeq(SubSeq(text, a + 1, b), k + 1, l) = SubSeq(text, a + k + 1, a + l)
<1>1. PICK x : x = SubSeq(text, a + 1, b)
  OBVIOUS
<1>2. x \in Seq(L) /\ Len(x) = b - a /\ \A i \in 1 .. b - a : x[i] = text[a + i]
  BY <1>1, SliceOf
<1>3. PICK y : y = SubSeq(x, k + 1, l)
  OBVIOUS
<1>4. y \in Seq(L) /\ Len(y) = l - k /\ \A i \in 1 .. l - k : y[i] = x[k + i]
  BY <1>2, <1>3, SliceOf
<1>5. PICK c \in Nat, d \in Nat : c = a + k /\ d = a + l /\ c <= d /\ d <= Len(text) /\ d - c = l - k
  <2>1. a + k \in Nat /\ a + l \in Nat /\ a + k <= a + l /\ a + l <= Len(text) /\ (a + l) - (a + k) = l - k
    OBVIOUS
  <2>2. QED
    BY <2>1
<1>6. PICK z : z = SubSeq(text, c + 1, d)
  OBVIOUS
<1>7. z \in Seq(L) /\ Len(z) = d - c /\ \A i \in 1 .. d - c : z[i] = text[c + i]
  BY <1>5, <1>6, SliceOf
<1>8. ASSUME NEW i \in 1 .. l - k PROVE y[i] = z[i]
  <2>1. k + i \in 1 .. b - a /\ a + (k + i) = c + i
    BY <1>5
  <2>2. QED
    BY <1>2, <1>4, <1>5, <1>7, <2>1
<1>9. y = z
  BY <1>4, <1>5, <1>7, <1>8, SameSequence
<1>10. QED
  BY <1>1, <1>3, <1>5, <1>6, <1>9

\* A stop sequence occurs in the answer at position m and has ended at position b.
HitBy(stop, m, b) ==
  m + Len(stop) - 1 <= b /\ \A j \in 1 .. Len(stop) : answer[m + j - 1] = stop[j]
HitAt(m, b) == \E stop \in stops : HitBy(stop, m, b)

StopTyped ==
  /\ stops \subseteq Seq(Letters) /\ IsFiniteSet(stops) /\ \A s \in stops : Len(s) >= 1
  /\ answer \in Seq(Letters)

LEMMA OccursHere ==
  ASSUME NEW text \in Seq(Letters), NEW stop \in Seq(Letters), NEW i \in Nat, i >= 1, Len(stop) >= 1
  PROVE  OccursAt(stop, text, i) <=>
           /\ i + Len(stop) - 1 <= Len(text)
           /\ \A j \in 1 .. Len(stop) : text[i + j - 1] = stop[j]
<1>1. PICK n \in Nat, a \in Nat : n = Len(stop) /\ i = a + 1 /\ i + n - 1 = a + n /\ n >= 1
  <2>1. i - 1 \in Nat /\ i = (i - 1) + 1 /\ i + Len(stop) - 1 = (i - 1) + Len(stop) /\ Len(stop) \in Nat
    OBVIOUS
  <2>2. QED
    BY <2>1
<1>2. CASE ~(a + n <= Len(text))
  BY <1>1, <1>2 DEF OccursAt
<1>3. CASE a + n <= Len(text)
  <2>1. PICK x : x = SubSeq(text, a + 1, a + n)
    OBVIOUS
  <2>2. a + n \in Nat /\ a <= a + n /\ (a + n) - a = n
    BY <1>1
  <2>3. x \in Seq(Letters) /\ Len(x) = n /\ \A j \in 1 .. n : x[j] = text[a + j]
    BY <1>3, <2>1, <2>2, SliceOf
  <2>4. x = stop <=> \A j \in 1 .. n : x[j] = stop[j]
    <3>1. ASSUME \A j \in 1 .. n : x[j] = stop[j] PROVE x = stop
      BY <1>1, <2>3, <3>1, SameSequence
    <3>2. QED
      BY <3>1
  <2>5. \A j \in 1 .. n : i + j - 1 = a + j
    BY <1>1
  <2>6. OccursAt(stop, text, i) <=> x = stop
    BY <1>1, <1>3, <2>1 DEF OccursAt
  <2>7. QED
    BY <1>1, <1>3, <2>3, <2>4, <2>5, <2>6
<1>4. QED
  BY <1>2, <1>3

\* The hits of a slice of the answer are those that begin and end in it.
LEMMA HitsOfSlice ==
  ASSUME StopTyped, NEW a \in Nat, NEW b \in Nat, a <= b, b <= Len(answer)
  PROVE  Hits(SubSeq(answer, a + 1, b)) = {i \in 1 .. b - a : HitAt(a + i, b)}
<1>1. PICK x : x = SubSeq(answer, a + 1, b)
  OBVIOUS
<1>2. x \in Seq(Letters) /\ Len(x) = b - a /\ \A i \in 1 .. b - a : x[i] = answer[a + i]
  BY <1>1, SliceOf DEF StopTyped
<1>3. DOMAIN x = 1 .. b - a
  BY <1>2
<1>4. ASSUME NEW i \in 1 .. b - a, NEW stop \in stops
      PROVE  OccursAt(stop, x, i) <=> HitBy(stop, a + i, b)
  <2>1. stop \in Seq(Letters) /\ Len(stop) >= 1 /\ i \in Nat /\ i >= 1 /\ Len(stop) \in Nat
    BY DEF StopTyped
  <2>2. OccursAt(stop, x, i) <=>
          /\ i + Len(stop) - 1 <= Len(x)
          /\ \A j \in 1 .. Len(stop) : x[i + j - 1] = stop[j]
    <3>1. x \in Seq(Letters)
      BY <1>2
    <3>2. stop \in Seq(Letters) /\ i \in Nat /\ i >= 1 /\ Len(stop) >= 1
      BY <2>1
    <3>3. QED
      BY ONLY <3>1, <3>2, OccursHere
  <2>3. PICK n \in Nat : n = Len(stop)
    BY <2>1
  <2>4. (i + n - 1 <= Len(x)) <=> ((a + i) + n - 1 <= b)
    BY <1>2
  <2>5. ASSUME i + n - 1 <= Len(x)
        PROVE  \A j \in 1 .. n : x[i + j - 1] = answer[(a + i) + j - 1]
    <3>1. TAKE j \in 1 .. n
    <3>2. i + j - 1 \in 1 .. b - a /\ a + (i + j - 1) = (a + i) + j - 1
      BY <1>2, <2>1, <2>5
    <3>3. QED
      BY <1>2, <3>2
  <2>6. QED
    BY <2>2, <2>3, <2>4, <2>5 DEF HitBy
<1>5. QED
  BY <1>1, <1>3, <1>4 DEF Hits, HitAt

LEMMA HitsOfStart ==
  ASSUME StopTyped, NEW b \in Nat, b <= Len(answer)
  PROVE  Hits(First(answer, b)) = {i \in 1 .. b : HitAt(i, b)}
<1>1. Hits(SubSeq(answer, 0 + 1, b)) = {i \in 1 .. b - 0 : HitAt(0 + i, b)}
  <2>1. \A a \in Nat : a <= b => Hits(SubSeq(answer, a + 1, b)) = {i \in 1 .. b - a : HitAt(a + i, b)}
    BY HitsOfSlice
  <2>2. 0 <= b
    OBVIOUS
  <2>3. QED
    BY <2>1, <2>2
<1>2. \A i \in 1 .. b : 0 + i = i
  OBVIOUS
<1>3. 0 + 1 = 1 /\ b - 0 = b
  OBVIOUS
<1>4. {i \in 1 .. b - 0 : HitAt(0 + i, b)} = {i \in 1 .. b : HitAt(i, b)}
  BY <1>2, <1>3
<1>5. QED
  BY <1>1, <1>3, <1>4 DEF First

LEMMA LongestIsLongest ==
  ASSUME StopTyped, stops # {}
  PROVE  /\ Longest \in Nat /\ Longest >= 1
         /\ \A s \in stops : Len(s) \in Nat /\ Len(s) >= 1 /\ Len(s) <= Longest
<1> DEFINE sizes == {Len(s) : s \in stops}
<1>1. sizes \in SUBSET Nat /\ sizes # {}
  <2>1. \A s \in stops : Len(s) \in Nat
    <3>1. TAKE s \in stops
    <3>2. s \in Seq(Letters)
      BY DEF StopTyped
    <3>3. QED
      BY <3>2
  <2>2. QED
    BY <2>1
<1>2. IsFiniteSet(sizes)
  <2>1. IsFiniteSet(stops)
    BY DEF StopTyped
  <2> HIDE DEF sizes
  <2>2. \E f \in [stops -> sizes] : f \in Surjection(stops, sizes)
    <3> DEFINE f == [s \in stops |-> Len(s)]
    <3>1. f \in [stops -> sizes] /\ \A t \in sizes : \E s \in stops : f[s] = t
      BY DEF sizes
    <3>2. QED
      BY <3>1 DEF Surjection
  <2>3. QED
    BY <2>1, <2>2, FS_Surjection
<1> HIDE DEF sizes
<1>3. PICK b \in Nat : \A x \in sizes : x <= b
  BY <1>1, <1>2, FiniteBound
<1>4. PICK n \in sizes : \A x \in sizes : x <= n
  BY <1>1, <1>3, Greatest
<1>5. n \in sizes /\ \A s \in stops : Len(s) <= n
  BY <1>4 DEF sizes
<1>6. Longest = CHOOSE m \in sizes : \A s \in stops : Len(s) <= m
  BY DEF Longest, sizes
<1>7. Longest \in sizes /\ \A s \in stops : Len(s) <= Longest
  BY <1>5, <1>6
<1>8. Longest \in Nat /\ \A s \in stops : Len(s) \in Nat /\ Len(s) >= 1
  BY <1>1, <1>7 DEF StopTyped
<1>9. Longest >= 1
  BY <1>7, <1>8 DEF sizes
<1>10. QED
  BY <1>7, <1>8, <1>9

-----------------------------------------------------------------------------
(* StopSequences: what is shown and what is held back.                       *)

\* Nothing that was fed is lost, and what is shown is the beginning of the answer.
Divided ==
  /\ shown = SubSeq(answer, 1, Len(shown)) /\ Len(shown) \in 0 .. fed
  /\ ~over /\ ~stopped => buffer = SubSeq(answer, Len(shown) + 1, fed)
  /\ over \/ stopped => buffer = <<>>

\* As long as no stop sequence has come, enough is held back for the longest one.
HeldBack ==
  ~over /\ ~stopped =>
    /\ stops = {} => Len(shown) = fed
    /\ stops # {} /\ Len(shown) > 0 => fed - Len(shown) = Longest - 1

\* The first stop sequence that came whole begins right behind what is shown.
CutAtTheFirst ==
  /\ ~stopped => \A m \in 1 .. Len(answer) : ~HitAt(m, fed)
  /\ stopped => /\ HitAt(Len(shown) + 1, fed)
                /\ \A m \in 1 .. Len(shown) : ~HitAt(m, fed)
  /\ over /\ ~stopped => fed = Len(answer) /\ Len(shown) = fed

StopInv ==
  /\ stops \in StopLists /\ answer \in Answers /\ fed \in 0 .. Len(answer)
  /\ stopped \in BOOLEAN /\ over \in BOOLEAN
  /\ Divided /\ HeldBack /\ CutAtTheFirst

LEMMA StopIsTyped == StopInv => StopTyped /\ Len(answer) \in Nat
<1> SUFFICES ASSUME StopInv PROVE StopTyped /\ Len(answer) \in Nat
  OBVIOUS
<1>1. PICK n \in Nat : answer \in [1 .. n -> Letters]
  BY StopAssumption DEF StopInv, Answers
<1>2. answer \in Seq(Letters) /\ Len(answer) \in Nat
  BY <1>1
<1>3. stops \subseteq Seq(Letters) \ {<<>>} /\ IsFiniteSet(stops)
  BY StopAssumption DEF StopInv
<1>4. \A s \in stops : Len(s) >= 1
  BY <1>3
<1>5. QED
  BY <1>2, <1>3, <1>4 DEF StopTyped

\* No stop sequence, however long, begins in what is shown before one has come.
LEMMA ShownIsSafe ==
  ASSUME StopTyped, NEW p \in Nat, NEW f \in Nat, p <= f, f <= Len(answer),
         stops # {} /\ p > 0 => f - p = Longest - 1,
         \A m \in 1 .. Len(answer) : ~HitAt(m, f),
         NEW m \in 1 .. p, NEW b \in Int
  PROVE  ~HitAt(m, b)
<1>1. SUFFICES ASSUME NEW stop \in stops, HitBy(stop, m, b) PROVE FALSE
  BY DEF HitAt
<1>2. Longest \in Nat /\ Len(stop) \in Nat /\ Len(stop) <= Longest
  BY LongestIsLongest
<1>3. f - p = Longest - 1 /\ m \in Nat /\ m <= p /\ m >= 1
  OBVIOUS
<1>4. m + Len(stop) - 1 <= f
  BY <1>2, <1>3
<1>5. HitBy(stop, m, f)
  BY <1>1, <1>4 DEF HitBy
<1>6. Len(answer) \in Nat
  BY DEF StopTyped
<1>7. m \in 1 .. Len(answer)
  BY <1>3, <1>6
<1>8. QED
  BY <1>5, <1>7 DEF HitAt

\* A hit ends where it begins or later.
LEMMA HitHasLength ==
  ASSUME StopTyped, NEW m \in Nat, NEW b \in Int, HitAt(m, b)
  PROVE  m <= b
<1>1. PICK stop \in stops : HitBy(stop, m, b)
  BY DEF HitAt
<1>2. Len(stop) \in Nat /\ Len(stop) >= 1
  <2>1. stop \in Seq(Letters) /\ Len(stop) >= 1
    BY DEF StopTyped
  <2>2. QED
    BY <2>1
<1>3. m + Len(stop) - 1 <= b
  BY <1>1 DEF HitBy
<1>4. QED
  BY <1>2, <1>3

LEMMA StopStarts == StopInit => StopInv
<1> SUFFICES ASSUME StopInit PROVE StopInv
  OBVIOUS
<1>1. /\ stops \in StopLists /\ answer \in Answers /\ fed = 0 /\ buffer = <<>>
      /\ stopped = FALSE /\ shown = <<>> /\ over = FALSE /\ Len(shown) = 0
  BY DEF StopInit
<1>2. PICK n \in Nat : answer \in [1 .. n -> Letters]
  BY <1>1, StopAssumption DEF Answers
<1>3. answer \in Seq(Letters) /\ Len(answer) \in Nat
  BY <1>2
<1>4. SubSeq(answer, 1, 0) = <<>>
  BY <1>3
<1>5. \A m \in 1 .. Len(answer) : ~HitAt(m, fed)
  <2>1. StopTyped
    <3>1. stops \subseteq Seq(Letters) \ {<<>>} /\ IsFiniteSet(stops)
      BY <1>1, StopAssumption
    <3>2. \A s \in stops : Len(s) >= 1
      BY <3>1
    <3>3. QED
      BY <1>3, <3>1, <3>2 DEF StopTyped
  <2>2. TAKE m \in 1 .. Len(answer)
  <2>3. m \in Nat /\ ~(m <= 0)
    BY <1>3
  <2>4. QED
    BY <1>1, <2>1, <2>3, HitHasLength
<1>6. Divided
  BY <1>1, <1>4 DEF Divided
<1>7. HeldBack
  BY <1>1 DEF HeldBack
<1>8. CutAtTheFirst
  BY <1>1, <1>5 DEF CutAtTheFirst
<1>9. fed \in 0 .. Len(answer)
  BY <1>1, <1>3
<1>10. QED
  BY <1>1, <1>6, <1>7, <1>8, <1>9 DEF StopInv

LEMMA SameHits ==
  ASSUME UNCHANGED <<stops, answer>>
  PROVE  \A m, b : HitAt(m, b)' = HitAt(m, b)
BY DEF HitAt, HitBy

LEMMA FeedKeeps ==
  ASSUME StopInv, NEW n \in Nat, n >= 1, Feed(n)
  PROVE  StopInv'
<1>1. PICK p \in Nat, f \in Nat, g \in Nat : p = Len(shown) /\ f = fed /\ g = f + n
  <2>1. Len(shown) \in Nat /\ fed \in Nat /\ fed + n \in Nat
    BY StopIsTyped DEF StopInv, Divided
  <2>2. QED
    BY <2>1
<1>2. StopTyped /\ answer \in Seq(Letters) /\ Len(answer) \in Nat /\ p <= f /\ f < g /\ g <= Len(answer) /\ p <= g
  <2>1. StopTyped /\ answer \in Seq(Letters) /\ Len(answer) \in Nat
    BY StopIsTyped DEF StopTyped
  <2>2. p <= f /\ g <= Len(answer) /\ f < g
    BY <1>1 DEF StopInv, Divided, Feed
  <2>3. QED
    BY <2>1, <2>2
<1>3. /\ UNCHANGED <<stops, answer, over>> /\ stops' = stops /\ answer' = answer /\ ~over /\ ~over'
      /\ ~stopped /\ fed' = g
  BY <1>1 DEF Feed
<1>4. /\ shown = SubSeq(answer, 1, p) /\ buffer = SubSeq(answer, p + 1, f)
      /\ (stops = {} => p = f) /\ (stops # {} /\ p > 0 => f - p = Longest - 1)
      /\ \A m \in 1 .. Len(answer) : ~HitAt(m, f)
  BY <1>1, <1>3 DEF StopInv, Divided, HeldBack, CutAtTheFirst
<1>5. PICK piece, text : piece = SubSeq(answer, fed + 1, fed + n) /\ text = buffer \o piece
  OBVIOUS
<1>6. text = SubSeq(answer, p + 1, g) /\ piece = SubSeq(answer, f + 1, g)
  <2>1. piece = SubSeq(answer, f + 1, g)
    BY ONLY <1>1, <1>5
  <2>2. SubSeq(answer, p + 1, f) \o SubSeq(answer, f + 1, g) = SubSeq(answer, p + 1, g)
    BY <1>2, SlicesJoin
  <2>3. QED
    BY ONLY <1>4, <1>5, <2>1, <2>2
<1>7. text \in Seq(Letters) /\ Len(text) = g - p
  BY <1>2, <1>6, SliceOf
<1>8. \A m \in 1 .. p : ~HitAt(m, g)
  <2>1. TAKE m \in 1 .. p
  <2>2. g \in Int /\ f <= Len(answer)
    BY <1>2
  <2>3. QED
    BY <1>2, <1>4, <2>2, ShownIsSafe
<1>9. Hits(text) = {i \in 1 .. g - p : HitAt(p + i, g)}
  <2>1. Hits(SubSeq(answer, p + 1, g)) = {i \in 1 .. g - p : HitAt(p + i, g)}
    BY <1>2, HitsOfSlice
  <2>2. QED
    BY ONLY <1>6, <2>1
<1>10. \A m, b : HitAt(m, b)' = HitAt(m, b)
  BY <1>3, SameHits
\* What is shown grows by the first k of the letters at hand.
<1>11. ASSUME NEW k \in 0 .. g - p
       PROVE  /\ First(text, k) = SubSeq(answer, p + 1, p + k)
              /\ shown \o First(text, k) = SubSeq(answer, 1, p + k)
              /\ Len(SubSeq(answer, 1, p + k)) = p + k
              /\ From(text, k + 1) = SubSeq(answer, p + k + 1, g)
  <2>1. k \in Nat /\ k <= g - p /\ p + k \in Nat /\ p <= p + k /\ p + k <= g /\ p + k <= Len(answer)
    BY <1>2
  <2>2. SubSeq(text, 0 + 1, k) = SubSeq(answer, p + 0 + 1, p + k)
    BY <1>2, <1>6, <2>1, SliceOfSlice, 0 <= k, 0 \in Nat
  <2>3. SubSeq(answer, 0 + 1, p) \o SubSeq(answer, p + 1, p + k) = SubSeq(answer, 0 + 1, p + k)
    BY <1>2, <2>1, SlicesJoin, 0 <= p, 0 \in Nat
  <2>4. SubSeq(text, k + 1, g - p) = SubSeq(answer, p + k + 1, p + (g - p))
    <3>1. PICK l \in Nat : l = g - p
      BY <1>2
    <3>2. k <= l /\ l <= g - p
      BY <2>1, <3>1
    <3>3. SubSeq(text, k + 1, l) = SubSeq(answer, p + k + 1, p + l)
      BY <1>2, <1>6, <2>1, <3>1, <3>2, SliceOfSlice
    <3>4. QED
      BY <3>1, <3>3
  <2>5. Len(SubSeq(answer, 0 + 1, p + k)) = (p + k) - 0
    BY <1>2, <2>1, SliceOf, 0 <= p + k, 0 \in Nat
  <2>6. 0 + 1 = 1 /\ p + 0 + 1 = p + 1 /\ p + (g - p) = g /\ (p + k) - 0 = p + k
    BY <1>2, <2>1
  <2>7. First(text, k) = SubSeq(answer, p + 1, p + k)
    BY ONLY <2>2, <2>6 DEF First
  <2>8. shown \o First(text, k) = SubSeq(answer, 1, p + k)
    BY ONLY <1>4, <2>3, <2>6, <2>7
  <2>9. From(text, k + 1) = SubSeq(answer, p + k + 1, g)
    BY ONLY <1>7, <2>4, <2>6 DEF From
  <2>10. QED
    BY ONLY <2>5, <2>6, <2>7, <2>8, <2>9
\* Without a hit in the letters at hand there is none in the answer so far.
<1>12. ASSUME Hits(text) = {}
       PROVE  \A m \in 1 .. Len(answer) : ~HitAt(m, g)
  <2>1. TAKE m \in 1 .. Len(answer)
  <2>2. m \in Nat /\ m >= 1
    BY <1>2
  <2>3. CASE m <= p
    BY <1>8, <2>2, <2>3
  <2>4. CASE m > p /\ m <= g
    <3>1. PICK i \in 1 .. g - p : m = p + i
      <4>1. m - p \in 1 .. g - p /\ m = p + (m - p)
        BY <2>2, <2>4
      <4>2. QED
        BY <4>1
    <3>2. QED
      BY <1>9, <1>12, <3>1
  <2>5. CASE m > g
    BY <1>2, <2>2, <2>5, HitHasLength
  <2>6. QED
    BY <2>2, <2>3, <2>4, <2>5
<1>13. CASE stops = {}
  <2>1. shown' = shown \o piece /\ buffer' = buffer /\ stopped' = stopped /\ p = f
    BY <1>4, <1>5, <1>13 DEF Feed
  <2>2. SubSeq(answer, 0 + 1, f) \o SubSeq(answer, f + 1, g) = SubSeq(answer, 0 + 1, g)
    BY <1>2, SlicesJoin, 0 <= f, 0 \in Nat
  <2>3. shown' = SubSeq(answer, 1, g)
    <3>1. 0 + 1 = 1
      OBVIOUS
    <3>2. QED
      BY ONLY <1>4, <1>6, <2>1, <2>2, <3>1
  <2>4. Len(SubSeq(answer, 0 + 1, g)) = g - 0
    BY <1>2, SliceOf, 0 <= g, 0 \in Nat
  <2>5. Len(shown') = g
    <3>1. 0 + 1 = 1 /\ g - 0 = g
      BY <1>1
    <3>2. QED
      BY ONLY <2>3, <2>4, <3>1
  <2>6. buffer = <<>> /\ SubSeq(answer, g + 1, g) = <<>>
    <3>1. SubSeq(answer, f + 1, f) = <<>>
      BY <1>2, SubSeqEmpty
    <3>2. SubSeq(answer, g + 1, g) = <<>>
      BY <1>2, SubSeqEmpty
    <3>3. QED
      BY <1>4, <2>1, <3>1, <3>2
  <2>7. Divided'
    BY <1>1, <1>3, <2>1, <2>3, <2>5, <2>6 DEF Divided
  <2>8. HeldBack'
    BY <1>3, <1>13, <2>1, <2>5 DEF HeldBack
  <2>9. \A m, b : ~HitAt(m, b)'
    BY <1>3, <1>13 DEF HitAt
  <2>10. CutAtTheFirst'
    BY <1>3, <2>1, <2>9 DEF CutAtTheFirst
  <2>11. QED
    BY <1>1, <1>2, <1>3, <2>1, <2>7, <2>8, <2>10 DEF StopInv
<1>14. CASE stops # {} /\ Hits(text) # {}
  <2>1. stopped' = TRUE /\ buffer' = <<>> /\ shown' = shown \o Truncated(text)
    BY <1>5, <1>14 DEF Feed
  <2>2. PICK i \in Hits(text) : \A j \in Hits(text) : i <= j
    <3>1. Hits(text) \in SUBSET Nat
      BY <1>9
    <3>2. QED
      BY <1>14, <3>1, Smallest
  <2>3. i \in 1 .. g - p /\ HitAt(p + i, g) /\ \A j \in 1 .. g - p : HitAt(p + j, g) => i <= j
    BY <1>9, <2>2
  <2>4. Truncated(text) = First(text, i - 1)
    <3>1. ASSUME NEW c \in Hits(text), \A j \in Hits(text) : c <= j PROVE c = i
      <4>1. c \in Nat /\ i \in Nat /\ c <= i /\ i <= c
        BY <1>9, <2>2, <2>3, <3>1
      <4>2. QED
        BY <4>1
    <3>2. (CHOOSE c \in Hits(text) : \A j \in Hits(text) : c <= j) = i
      BY <2>2, <3>1
    <3>3. QED
      BY <1>14, <3>2 DEF Truncated
  <2>5. PICK k \in 0 .. g - p : k = i - 1 /\ p + i = p + k + 1
    <3>1. i - 1 \in 0 .. g - p /\ p + i = p + (i - 1) + 1
      BY <1>2, <2>3
    <3>2. QED
      BY <3>1
  <2>6. shown' = SubSeq(answer, 1, p + k) /\ Len(shown') = p + k
    BY ONLY <1>11, <2>1, <2>4, <2>5
  <2>7. \A m \in 1 .. p + k : ~HitAt(m, g)
    <3>1. TAKE m \in 1 .. p + k
    <3>2. CASE m <= p
      BY <1>8, <3>2
    <3>3. CASE m > p
      <4>1. PICK j \in 1 .. g - p : m = p + j /\ ~(i <= j)
        <5>1. m - p \in 1 .. g - p /\ m = p + (m - p) /\ ~(i <= m - p)
          BY <1>2, <2>3, <2>5, <3>3
        <5>2. QED
          BY <5>1
      <4>2. QED
        BY <2>3, <4>1
    <3>4. m <= p \/ m > p
      OBVIOUS
    <3>5. QED
      BY <3>2, <3>3, <3>4
  <2>8. p + k \in 0 .. g
    BY <1>2, <2>5
  <2>9. Divided'
    BY <1>3, <2>1, <2>6, <2>8 DEF Divided
  <2>10. HeldBack'
    BY <2>1 DEF HeldBack
  <2>11. CutAtTheFirst'
    <3>1. HitAt(p + k + 1, g)' /\ \A m \in 1 .. p + k : ~HitAt(m, g)'
      BY <1>10, <2>3, <2>5, <2>7
    <3>2. QED
      BY <1>3, <2>1, <2>6, <3>1 DEF CutAtTheFirst, HitAt, HitBy
  <2>12. QED
    BY <1>1, <1>2, <1>3, <2>1, <2>9, <2>10, <2>11 DEF StopInv
<1>15. CASE stops # {} /\ Hits(text) = {}
  <2>1. Hold(text) /\ stopped' = stopped
    BY <1>5, <1>15 DEF Feed
  <2>2. PICK keep \in Nat : keep = Longest - 1
    <3>1. Longest - 1 \in Nat
      BY <1>2, <1>15, LongestIsLongest
    <3>2. QED
      BY <3>1
  <2>3. PICK k \in 0 .. g - p : k = (IF g - p > keep THEN (g - p) - keep ELSE 0)
    <3>1. (IF g - p > keep THEN (g - p) - keep ELSE 0) \in 0 .. g - p
      BY <1>2
    <3>2. QED
      BY <3>1
  <2>4. shown' = shown \o First(text, k) /\ buffer' = From(text, k + 1)
    <3>1. k = (IF Len(text) > Longest - 1 THEN Len(text) - (Longest - 1) ELSE 0)
      BY ONLY <1>7, <2>2, <2>3
    <3>2. QED
      BY <2>1, <3>1 DEF Hold
  <2>5. shown' = SubSeq(answer, 1, p + k) /\ Len(shown') = p + k /\ buffer' = SubSeq(answer, p + k + 1, g)
    BY ONLY <1>11, <2>4
  <2>6. p + k \in 0 .. g
    BY <1>2, <2>3
  <2>7. p + k > 0 => g - (p + k) = keep
    <3>1. CASE g - p > keep
      BY <1>2, <2>3, <3>1
    <3>2. CASE ~(g - p > keep)
      <4>1. p > 0 => f - p = keep
        BY <1>4, <1>15, <2>2
      <4>2. k = 0 /\ ~(p > 0)
        BY <1>2, <2>3, <3>2, <4>1
      <4>3. QED
        BY <4>2
    <3>3. QED
      BY <3>1, <3>2
  <2>8. Divided'
    BY <1>3, <2>1, <2>5, <2>6 DEF Divided
  <2>9. Longest' = Longest
    BY <1>3 DEF Longest
  <2>10. HeldBack'
    BY <1>3, <1>15, <2>2, <2>5, <2>7, <2>9 DEF HeldBack
  <2>11. CutAtTheFirst'
    <3>1. \A m \in 1 .. Len(answer) : ~HitAt(m, g)
      BY <1>12, <1>15
    <3>2. \A m \in 1 .. Len(answer)' : ~HitAt(m, fed)'
      BY <1>3, <1>10, <3>1 DEF HitAt, HitBy
    <3>3. QED
      BY <1>3, <2>1, <3>2 DEF CutAtTheFirst
  <2>12. QED
    BY <1>1, <1>2, <1>3, <2>1, <2>8, <2>10, <2>11 DEF StopInv
<1>16. QED
  BY <1>13, <1>14, <1>15

LEMMA FlushKeeps ==
  ASSUME StopInv, Flush
  PROVE  StopInv'
<1>1. PICK p \in Nat, f \in Nat : p = Len(shown) /\ f = fed /\ p <= f
  <2>1. Len(shown) \in Nat /\ fed \in Nat /\ Len(shown) <= fed
    BY StopIsTyped DEF StopInv, Divided
  <2>2. QED
    BY <2>1
<1>2. /\ stops' = stops /\ answer' = answer /\ fed' = fed /\ stopped' = stopped /\ over' /\ ~over
      /\ buffer' = <<>> /\ (stopped \/ fed = Len(answer))
      /\ UNCHANGED <<stops, answer>> /\ over' \in BOOLEAN
  BY DEF Flush
<1>3. StopTyped /\ answer \in Seq(Letters) /\ Len(answer) \in Nat /\ f <= Len(answer)
  <2>1. fed \in 0 .. Len(answer)
    BY DEF StopInv
  <2>2. QED
    BY <1>1, <2>1, StopIsTyped DEF StopTyped
<1>4. \A m, b : HitAt(m, b)' = HitAt(m, b)
  BY <1>2, SameHits
<1>5. shown = SubSeq(answer, 1, p)
  BY <1>1 DEF StopInv, Divided
<1>6. CASE stopped
  <2>1. shown' = shown
    <3>1. shown' = shown \o <<>>
      BY <1>6 DEF Flush
    <3>2. shown \in Seq(Letters)
      <4>1. SubSeq(answer, 0 + 1, p) \in Seq(Letters)
        BY <1>1, <1>3, SliceOf, 0 <= p, 0 \in Nat, p <= Len(answer)
      <4>2. 0 + 1 = 1
        OBVIOUS
      <4>3. QED
        BY ONLY <1>5, <4>1, <4>2
    <3>3. QED
      BY <3>1, <3>2
  <2>2. Divided'
    BY <1>2, <1>6, <2>1 DEF StopInv, Divided
  <2>3. HeldBack'
    BY <1>2 DEF HeldBack
  <2>4. CutAtTheFirst'
    BY <1>2, <1>6, <2>1 DEF StopInv, CutAtTheFirst, HitAt, HitBy
  <2>5. QED
    BY <1>2, <2>2, <2>3, <2>4 DEF StopInv
<1>7. CASE ~stopped
  <2>1. f = Len(answer) /\ buffer = SubSeq(answer, p + 1, f) /\ shown' = shown \o buffer
    BY <1>1, <1>2, <1>7 DEF StopInv, Divided, Flush
  <2>2. SubSeq(answer, 0 + 1, p) \o SubSeq(answer, p + 1, f) = SubSeq(answer, 0 + 1, f)
    <3>1. PICK z \in Nat : z = 0 /\ z <= p
      BY <1>1
    <3>2. p \in Nat /\ f \in Nat /\ p <= f /\ f <= Len(answer) /\ answer \in Seq(Letters)
      BY <1>1, <1>3
    <3>3. SubSeq(answer, z + 1, p) \o SubSeq(answer, p + 1, f) = SubSeq(answer, z + 1, f)
      BY ONLY <3>1, <3>2, SlicesJoin
    <3>4. QED
      BY <3>1, <3>3
  <2>3. Len(SubSeq(answer, 0 + 1, f)) = f - 0
    BY <1>3, SliceOf, 0 <= f, 0 \in Nat
  <2>4. shown' = SubSeq(answer, 1, f) /\ Len(shown') = f
    <3>1. 0 + 1 = 1 /\ f - 0 = f
      BY <1>1
    <3>2. QED
      BY ONLY <1>5, <2>1, <2>2, <2>3, <3>1
  <2>5. Divided'
    BY <1>1, <1>2, <2>4 DEF Divided
  <2>6. HeldBack'
    BY <1>2 DEF HeldBack
  <2>7. CutAtTheFirst'
    <3>1. \A m \in 1 .. Len(answer) : ~HitAt(m, fed)
      BY <1>7 DEF StopInv, CutAtTheFirst
    <3>2. \A m \in 1 .. Len(answer)' : ~HitAt(m, fed)'
      BY <1>2, <3>1 DEF HitAt, HitBy
    <3>3. QED
      BY <1>1, <1>2, <1>7, <2>1, <2>4, <3>2 DEF CutAtTheFirst
  <2>8. QED
    BY <1>2, <2>5, <2>6, <2>7 DEF StopInv
<1>8. QED
  BY <1>6, <1>7

LEMMA StopAlways == StopSpec => []StopInv
<1>1. StopInit => StopInv
  BY StopStarts
<1>2. StopInv /\ [StopNext]_stopVars => StopInv'
  <2> SUFFICES ASSUME StopInv, [StopNext]_stopVars PROVE StopInv'
    OBVIOUS
  <2>1. CASE Flush
    BY <2>1, FlushKeeps
  <2>2. CASE \E n \in 1 .. MaxLength : Feed(n)
    <3>1. PICK n \in 1 .. MaxLength : Feed(n)
      BY <2>2
    <3>2. n \in Nat /\ n >= 1
      BY StopAssumption
    <3>3. QED
      BY <3>1, <3>2, FeedKeeps
  <2>3. CASE UNCHANGED stopVars
    <3>1. UNCHANGED <<stops, answer, fed, buffer, stopped, shown, over>>
      BY <2>3 DEF stopVars
    <3>2. \A m, b : HitAt(m, b)' = HitAt(m, b)
      BY <3>1, SameHits
    <3>3. Divided'
      BY <3>1 DEF StopInv, Divided
    <3>4. HeldBack'
      BY <3>1 DEF StopInv, HeldBack, Longest
    <3>5. CutAtTheFirst'
      BY <3>1 DEF StopInv, CutAtTheFirst, HitAt, HitBy
    <3>6. QED
      BY <3>1, <3>3, <3>4, <3>5 DEF StopInv
  <2>4. QED
    BY <2>1, <2>2, <2>3 DEF StopNext
<1>3. QED
  BY <1>1, <1>2, PTL DEF StopSpec

LEMMA BeginningOf ==
  ASSUME NEW L, NEW text \in Seq(L), NEW b \in Nat, b <= Len(text)
  PROVE  /\ First(text, b) \in Seq(L) /\ Len(First(text, b)) = b
         /\ First(text, Len(text)) = text
         /\ \A k \in 0 .. b : First(First(text, b), k) = First(text, k)
<1>1. PICK z \in Nat : z = 0 /\ z + 1 = 1 /\ z <= b /\ \A n \in Nat : n - z = n /\ z + n = n
  OBVIOUS
<1>2. SubSeq(text, z + 1, b) \in Seq(L) /\ Len(SubSeq(text, z + 1, b)) = b - z
  BY <1>1, SliceOf
<1>3. First(text, b) \in Seq(L) /\ Len(First(text, b)) = b
  BY <1>1, <1>2 DEF First
<1>4. First(text, Len(text)) = text
  <2>1. PICK n \in Nat : n = Len(text) /\ z <= n
    BY <1>1
  <2>2. /\ SubSeq(text, z + 1, n) \in Seq(L) /\ Len(SubSeq(text, z + 1, n)) = n - z
        /\ \A i \in 1 .. n - z : SubSeq(text, z + 1, n)[i] = text[z + i]
    BY <1>1, <2>1, SliceOf
  <2>3. \A i \in 1 .. n : z + i = i
    BY <1>1
  <2>4. n - z = n
    BY <1>1
  <2>5. SubSeq(text, z + 1, n) = text
    BY ONLY <2>1, <2>2, <2>3, <2>4, SameSequence, text \in Seq(L)
  <2>6. QED
    BY <1>1, <2>1, <2>5 DEF First
<1>5. ASSUME NEW k \in 0 .. b PROVE First(First(text, b), k) = First(text, k)
  <2>1. k \in Nat /\ z <= k /\ k <= b - z
    BY <1>1
  <2>2. SubSeq(SubSeq(text, z + 1, b), z + 1, k) = SubSeq(text, z + z + 1, z + k)
    BY <1>1, <2>1, SliceOfSlice
  <2>3. z + z + 1 = 1 /\ z + k = k
    BY <1>1, <2>1
  <2>4. QED
    BY ONLY <1>1, <2>2, <2>3 DEF First
<1>6. QED
  BY <1>3, <1>4, <1>5

\* Where truncate_at_stop cuts the answer
LEMMA TruncatedAt ==
  ASSUME StopTyped
  PROVE  \E t \in 0 .. Len(answer) :
           /\ Truncated(answer) = First(answer, t)
           /\ \A m \in 1 .. t : ~HitAt(m, Len(answer))
           /\ t < Len(answer) => HitAt(t + 1, Len(answer))
<1>1. PICK n \in Nat : n = Len(answer)
  BY DEF StopTyped
<1>2. answer \in Seq(Letters)
  BY DEF StopTyped
<1>3. First(answer, n) = answer
  BY <1>1, <1>2, BeginningOf
<1>4. Hits(First(answer, n)) = {i \in 1 .. n : HitAt(i, n)}
  BY <1>1, HitsOfStart
<1>5. Hits(answer) = {i \in 1 .. n : HitAt(i, n)}
  BY ONLY <1>3, <1>4
<1>6. CASE Hits(answer) = {}
  <2>1. Truncated(answer) = First(answer, n)
    BY <1>3, <1>6 DEF Truncated
  <2>2. \A m \in 1 .. n : ~HitAt(m, n)
    BY <1>5, <1>6
  <2>3. n \in 0 .. n /\ ~(n < n)
    OBVIOUS
  <2>4. QED
    BY <1>1, <2>1, <2>2, <2>3
<1>7. CASE Hits(answer) # {}
  <2>1. PICK i \in Hits(answer) : \A j \in Hits(answer) : i <= j
    <3>1. Hits(answer) \in SUBSET Nat
      BY <1>5
    <3>2. QED
      BY <1>7, <3>1, Smallest
  <2>2. i \in 1 .. n /\ HitAt(i, n) /\ \A j \in 1 .. n : HitAt(j, n) => i <= j
    BY <1>5, <2>1
  <2>3. Truncated(answer) = First(answer, i - 1)
    <3>1. ASSUME NEW c \in Hits(answer), \A j \in Hits(answer) : c <= j PROVE c = i
      <4>1. c \in Nat /\ i \in Nat /\ c <= i /\ i <= c
        BY <1>5, <2>1, <2>2, <3>1
      <4>2. QED
        BY <4>1
    <3>2. (CHOOSE c \in Hits(answer) : \A j \in Hits(answer) : c <= j) = i
      BY <2>1, <3>1
    <3>3. QED
      BY <1>7, <3>2 DEF Truncated
  <2>4. PICK t \in 0 .. n : t = i - 1 /\ t + 1 = i
    <3>1. i - 1 \in 0 .. n /\ (i - 1) + 1 = i
      BY <2>2
    <3>2. QED
      BY <3>1
  <2>5. \A m \in 1 .. t : ~HitAt(m, n)
    <3>1. TAKE m \in 1 .. t
    <3>2. m \in 1 .. n /\ ~(i <= m)
      BY <2>2, <2>4
    <3>3. QED
      BY <2>2, <3>2
  <2>6. QED
    BY <1>1, <2>2, <2>3, <2>4, <2>5
<1>8. QED
  BY <1>6, <1>7

\* A hit that has ended has ended later as well.
LEMMA HitStays ==
  ASSUME StopTyped, NEW m \in Nat, NEW b \in Int, NEW c \in Int, b <= c, HitAt(m, b)
  PROVE  HitAt(m, c)
<1>1. PICK stop \in stops : HitBy(stop, m, b)
  BY DEF HitAt
<1>2. Len(stop) \in Nat
  <2>1. stop \in Seq(Letters)
    BY DEF StopTyped
  <2>2. QED
    BY <2>1
<1>3. HitBy(stop, m, c)
  BY <1>1, <1>2 DEF HitBy
<1>4. QED
  BY <1>3 DEF HitAt

\* A stop sequence that begins earlier and ends later than another one contains it.
LEMMA OverlapNests ==
  ASSUME StopTyped, NEW p \in Nat, NEW t \in Nat, t < p, NEW f \in Nat, NEW n \in Nat,
         HitAt(p + 1, f), HitAt(t + 1, n), ~HitAt(t + 1, f)
  PROVE  Nested
<1>1. PICK s \in stops : HitBy(s, p + 1, f)
  BY DEF HitAt
<1>2. PICK u \in stops : HitBy(u, t + 1, n)
  BY DEF HitAt
<1>3. ~HitBy(u, t + 1, f)
  BY DEF HitAt
<1>4. /\ s \in Seq(Letters) /\ u \in Seq(Letters) /\ Len(s) \in Nat /\ Len(u) \in Nat
      /\ Len(s) >= 1 /\ Len(u) >= 1
  BY DEF StopTyped
<1>5. PICK k \in Nat, l \in Nat : k = Len(s) /\ l = Len(u) /\ k >= 1 /\ l >= 1
  BY <1>4
<1>6. p + k <= f /\ \A j \in 1 .. k : answer[(p + 1) + j - 1] = s[j]
  <2>1. (p + 1) + k - 1 <= f /\ \A j \in 1 .. k : answer[(p + 1) + j - 1] = s[j]
    BY <1>1, <1>5 DEF HitBy
  <2>2. QED
    BY <2>1
<1>7. t + l > f /\ \A j \in 1 .. l : answer[(t + 1) + j - 1] = u[j]
  <2>1. ~((t + 1) + l - 1 <= f) /\ \A j \in 1 .. l : answer[(t + 1) + j - 1] = u[j]
    BY <1>2, <1>3, <1>5 DEF HitBy
  <2>2. QED
    BY <2>1
<1>8. PICK i \in 2 .. l : i = p - t + 1 /\ i + k <= l
  <2>1. p - t + 1 \in 2 .. l /\ (p - t + 1) + k <= l
    BY <1>5, <1>6, <1>7
  <2>2. QED
    BY <2>1
<1>9. \A j \in 1 .. k : u[i + j - 1] = s[j]
  <2>1. TAKE j \in 1 .. k
  <2>2. i + j - 1 \in 1 .. l /\ (t + 1) + (i + j - 1) - 1 = (p + 1) + j - 1
    BY <1>8
  <2>3. QED
    BY <1>6, <1>7, <2>2
<1>10. i \in Nat /\ i >= 1 /\ i + k - 1 <= l
  BY <1>8
<1>11. OccursAt(s, u, i)
  BY ONLY <1>4, <1>5, <1>9, <1>10, OccursHere
<1>12. QED
  BY <1>5, <1>8, <1>11 DEF Nested

LEMMA StopShown == StopInv => StreamShowsTheTruncatedAnswer
<1> SUFFICES ASSUME StopInv PROVE StreamShowsTheTruncatedAnswer
  OBVIOUS
<1>1. PICK p \in Nat, f \in Nat, n \in Nat :
        p = Len(shown) /\ f = fed /\ n = Len(answer) /\ p <= f /\ f <= n /\ p <= n
  <2>1. Len(shown) \in Nat /\ fed \in Nat /\ Len(answer) \in Nat /\ Len(shown) <= fed /\ fed <= Len(answer)
    BY StopIsTyped DEF StopInv, Divided
  <2>2. QED
    BY <2>1
<1>2. StopTyped /\ answer \in Seq(Letters)
  BY StopIsTyped DEF StopTyped
<1>3. shown = First(answer, p)
  BY <1>1 DEF StopInv, Divided, First
<1>4. Hits(shown) = {}
  <2>1. Hits(First(answer, p)) = {i \in 1 .. p : HitAt(i, p)}
    BY <1>1, <1>2, HitsOfStart
  <2>2. ASSUME NEW i \in 1 .. p, HitAt(i, p) PROVE FALSE
    <3>1. HitAt(i, f)
      BY <1>1, <1>2, <2>2, HitStays
    <3>2. i \in 1 .. n
      BY <1>1
    <3>3. QED
      BY <1>1, <3>1, <3>2 DEF StopInv, CutAtTheFirst
  <2>3. QED
    BY <1>3, <2>1, <2>2
<1>5. PICK t \in 0 .. n :
        /\ Truncated(answer) = First(answer, t)
        /\ \A m \in 1 .. t : ~HitAt(m, n)
        /\ t < n => HitAt(t + 1, n)
  BY <1>1, <1>2, TruncatedAt
<1>6. ~Nested => p <= t
  <2>1. SUFFICES ASSUME ~Nested, ~(p <= t) PROVE FALSE
    OBVIOUS
  <2>2. t \in Nat /\ t < p /\ t + 1 \in 1 .. p /\ t + 1 \in 1 .. n /\ t < n
    BY <1>1, <2>1
  <2>3. HitAt(t + 1, n)
    BY <1>5, <2>2
  <2>4. CASE stopped
    <3>1. HitAt(p + 1, f) /\ ~HitAt(t + 1, f)
      BY <1>1, <2>2, <2>4 DEF StopInv, CutAtTheFirst
    <3>2. QED
      BY <1>2, <2>1, <2>2, <2>3, <3>1, OverlapNests
  <2>5. CASE ~stopped /\ over
    BY <1>1, <2>2, <2>3, <2>5 DEF StopInv, CutAtTheFirst
  <2>6. CASE ~stopped /\ ~over
    <3>1. /\ stops # {} /\ p > 0 => f - p = Longest - 1
          /\ \A m \in 1 .. Len(answer) : ~HitAt(m, f)
      BY <1>1, <2>6 DEF StopInv, HeldBack, CutAtTheFirst
    <3>2. \A m \in 1 .. p, b \in Int : ~HitAt(m, b)
      BY <1>1, <1>2, <3>1, ShownIsSafe
    <3>3. QED
      BY <2>2, <2>3, <3>2
  <2>7. QED
    BY <2>4, <2>5, <2>6
<1>7. over => t <= p
  <2>1. SUFFICES ASSUME over, ~(t <= p) PROVE FALSE
    OBVIOUS
  <2>2. p + 1 \in 1 .. t /\ p + 1 \in Nat
    BY <1>1, <2>1
  <2>3. CASE stopped
    <3>1. HitAt(p + 1, f)
      BY <1>1, <2>3 DEF StopInv, CutAtTheFirst
    <3>2. HitAt(p + 1, n)
      BY <1>1, <1>2, <2>2, <3>1, HitStays
    <3>3. QED
      BY <1>5, <2>2, <3>2
  <2>4. CASE ~stopped
    BY <1>1, <2>1, <2>4 DEF StopInv, CutAtTheFirst
  <2>5. QED
    BY <2>3, <2>4
<1>8. ASSUME NEW a \in 0 .. n, NEW b \in 0 .. n, a <= b
      PROVE  StartsWith(First(answer, b), First(answer, a))
  <2>1. a \in Nat /\ b \in Nat /\ b <= Len(answer) /\ a <= Len(answer) /\ a \in 0 .. b
    BY <1>1, <1>8
  <2>2. Len(First(answer, b)) = b /\ Len(First(answer, a)) = a /\ First(First(answer, b), a) = First(answer, a)
    BY <1>2, <2>1, BeginningOf
  <2>3. QED
    BY <1>8, <2>2 DEF StartsWith
<1>9. First(answer, n) = answer /\ n \in 0 .. n /\ p \in 0 .. n
  BY <1>1, <1>2, BeginningOf
<1>10. StartsWith(answer, shown)
  <2>1. StartsWith(First(answer, n), First(answer, p))
    BY <1>1, <1>8, <1>9
  <2>2. QED
    BY ONLY <1>3, <1>9, <2>1
<1>11. ~Nested => StartsWith(Truncated(answer), shown)
  BY <1>3, <1>5, <1>6, <1>8, <1>9
<1>12. over => StartsWith(shown, Truncated(answer))
  BY <1>3, <1>5, <1>7, <1>8, <1>9
<1>13. QED
  BY <1>4, <1>10, <1>11, <1>12 DEF StreamShowsTheTruncatedAnswer

LEMMA StopIsTypeOK == StopInv => StopTypeOK
<1> SUFFICES ASSUME StopInv PROVE StopTypeOK
  OBVIOUS
<1>1. PICK p \in Nat, f \in Nat, n \in Nat :
        p = Len(shown) /\ f = fed /\ n = Len(answer) /\ p <= f /\ f <= n /\ p <= n
  <2>1. Len(shown) \in Nat /\ fed \in Nat /\ Len(answer) \in Nat /\ Len(shown) <= fed /\ fed <= Len(answer)
    BY StopIsTyped DEF StopInv, Divided
  <2>2. QED
    BY <2>1
<1>2. answer \in Seq(Letters)
  BY StopIsTyped DEF StopTyped
<1>3. shown \in Seq(Letters) /\ Len(shown) <= Len(answer)
  <2>1. shown = First(answer, p)
    BY <1>1 DEF StopInv, Divided, First
  <2>2. First(answer, p) \in Seq(Letters)
    BY <1>1, <1>2, BeginningOf
  <2>3. QED
    BY <1>1, <2>1, <2>2
<1>4. buffer \in Seq(Letters) /\ Len(buffer) <= Len(answer)
  <2>1. CASE over \/ stopped
    <3>1. buffer = <<>>
      BY <2>1 DEF StopInv, Divided
    <3>2. QED
      BY <1>1, <3>1
  <2>2. CASE ~over /\ ~stopped
    <3>1. buffer = SubSeq(answer, p + 1, f)
      BY <1>1, <2>2 DEF StopInv, Divided
    <3>2. SubSeq(answer, p + 1, f) \in Seq(Letters) /\ Len(SubSeq(answer, p + 1, f)) = f - p
      BY <1>1, <1>2, SliceOf
    <3>3. QED
      BY <1>1, <3>1, <3>2
  <2>3. QED
    BY <2>1, <2>2
<1>5. QED
  BY <1>3, <1>4 DEF StopTypeOK, StopInv

\* What the client of a stopped answer sees is the answer up to its first stop sequence, in
\* whatever pieces it came (StopStreamer, app/chat_format.py:248-292).
THEOREM StopsAreExact == StopSpec => []StreamShowsTheTruncatedAnswer
BY StopAlways, StopShown, PTL

\* The texts are of the letters of the answer and no longer.
THEOREM StopTypeCorrect == StopSpec => []StopTypeOK
BY StopAlways, StopIsTypeOK, PTL

-----------------------------------------------------------------------------
(* The suite: a step is one of the module that moves, or leaves it alone.    *)

LEMMA FilesMove ==
  [ComponentsNext]_partVars =>
    /\ [OutputNext]_outputVars /\ [StorageNext]_storageVars /\ [RecoveryNext]_recVars
    /\ [HealthNext]_healthVars /\ [LibNext]_libVars /\ [HfNext]_hfVars
  BY DEF ComponentsNext, FilesNext, partVars, fileVars

LEMMA RequestsMove ==
  [ComponentsNext]_partVars =>
    /\ [ChatNext]_chatVars /\ [LimitsNext]_limitVars /\ [WindowNext]_windowVars /\ [StopNext]_stopVars
  BY DEF ComponentsNext, RequestsNext, partVars, requestVars

LEMMA FilesBehave ==
  ComponentsSpec => OutputSpec /\ StorageSpec /\ RecoverySpec /\ HealthSpec /\ LibSpec /\ HfSpec
<1>1. ComponentsInit => OutputInit /\ StorageInit /\ RecoveryInit /\ HealthInit /\ LibInit /\ HfInit
  BY DEF ComponentsInit
<1>2. QED
  BY <1>1, FilesMove, PTL
  DEF ComponentsSpec, OutputSpec, StorageSpec, RecoverySpec, HealthSpec, LibSpec, HfSpec

LEMMA RequestsBehave == ComponentsSpec => ChatSpec /\ LimitsSpec /\ WindowSpec /\ StopSpec
<1>1. ComponentsInit => ChatInit /\ LimitsInit /\ WindowInit /\ StopInit
  BY DEF ComponentsInit
<1>2. QED
  BY <1>1, RequestsMove, PTL DEF ComponentsSpec, ChatSpec, LimitsSpec, WindowSpec, StopSpec

\* The files of the catalog agree through crashes and failed copies (model_library_service.py),
\* and the token and the answers about access are those they seem (huggingface_access.py).
THEOREM CatalogIsSafe == ComponentsSpec => []CatalogSafe
<1>1. LibrarySafe /\ HfSafe => CatalogSafe
  BY DEF CatalogSafe
<1>2. QED
  BY <1>1, FilesBehave, LibraryIsSafe, AccessIsSafe, PTL

\* What is on record is replaced only by what is newer: polling keeps a recovery, evidence
\* is lost to new files or the user, the cache follows the library's files, and a token
\* gives way to a verified one.
THEOREM RecordsKept == ComponentsSpec => RecordsAreKept
  BY FilesBehave, PollingNeverReplaces, EvidenceNeverUndone, CacheNeverGoesBack,
     FailedReplacementsAreHarmless, PTL DEF RecordsAreKept

\* Requests end as they were told (server.py), limits hold (rate_limit.py, body_limit.py), and
\* prompts and answers are cut where they should be (chat_format.py).
THEOREM RequestsAreSafe == ComponentsSpec => []RequestsSafe
<1>1. ChatSafe /\ LimitsSafe /\ WindowRight /\ StreamShowsTheTruncatedAnswer => RequestsSafe
  BY DEF RequestsSafe
<1>2. QED
  BY <1>1, RequestsBehave, RequestsAreHandled, LimitsHold, WindowIsRight, StopsAreExact, PTL

\* In the suite each module has the types it has alone.
THEOREM ComponentsTypeCorrect == ComponentsSpec => []ComponentsTypeOK
<1> DEFINE Typed ==
      /\ OutputTypeOK /\ StorageTypeOK /\ RecoveryTypeOK /\ HealthTypeOK /\ LibTypeOK /\ HfTypeOK
      /\ ChatTypeOK /\ LimitsTypeOK /\ WindowTypeOK /\ StopTypeOK
           InSuite == part \in {"output", "storage", "recovery", "health", "library", "access", "chat",
                              "limits", "window", "stop"}
<1>1. ComponentsSpec => []InSuite
  <2>1. ComponentsInit => InSuite
    BY DEF ComponentsInit
  <2>2. InSuite /\ [ComponentsNext]_partVars => InSuite'
    BY DEF ComponentsNext, partVars
  <2>3. QED
    BY <2>1, <2>2, PTL DEF ComponentsSpec
<1>2. Typed /\ InSuite => ComponentsTypeOK
  BY DEF ComponentsTypeOK
<1>3. RecoveryIInv => RecoveryTypeOK
  BY DEF RecoveryIInv
<1>4. LibIInv => LibTypeOK
  BY DEF LibIInv
<1>5. HfIInv => HfTypeOK
  BY DEF HfIInv
<1> HIDE DEF InSuite
<1>6. QED
  BY <1>1, <1>2, <1>3, <1>4, <1>5, FilesBehave, RequestsBehave, OutputTypeCorrect, StorageTypeCorrect,
     RecoveryInvariant, HealthTypeCorrect, LibIInvHolds, HfIInvHolds, ChatTypeCorrect, LimitsTypeCorrect,
     WindowTypeCorrect, StopTypeCorrect, PTL
=============================================================================
