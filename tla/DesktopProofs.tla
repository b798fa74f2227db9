---------------------------- MODULE DesktopProofs ----------------------------
(***************************************************************************)
(* Proofs about the activity log the desktop page follows, and about the    *)
(* tray that owns the server.                                               *)
(*                                                                         *)
(* The numbering of the log, for any number of emitting threads, any        *)
(* capacity and any number of restarts.  Numbered is inductive where        *)
(* LogNumbered alone is not: inside the critical section the last event is   *)
(* not numbered yet, or the count is one behind, as the holder's step says.  *)
(*                                                                         *)
(* The tray, for any number of menu threads, servers and sessions: the types *)
(* of its state, and the sessions of the messages it finds.                 *)
(***************************************************************************)
EXTENDS EventPolling, DesktopController, SequenceTheorems, TLAPS

OneEmitter ==
  \A e \in Emitters : pc[e] # "idle" <=> lock = e

\* Events that have their number at the present step of the holder, and how far
\* the count is ahead of the last of them.
InSection(step) == lock # NoEmitter /\ pc[lock] = step

NumberedUpTo(n, latest) ==
  \A i \in 1 .. n : log[i] = [boot |-> boot, id |-> latest - n + i]

Numbered ==
  /\ lock = NoEmitter \/ InSection("append") => NumberedUpTo(Len(log), seq)
  /\ InSection("count") => /\ Len(log) > 0
                           /\ log[Len(log)].boot = boot
                           /\ NumberedUpTo(Len(log) - 1, seq)
  /\ InSection("number") => /\ Len(log) > 0 /\ seq > 0
                            /\ log[Len(log)].boot = boot
                            /\ NumberedUpTo(Len(log) - 1, seq - 1)

LogInv == LogTypeOK /\ OneEmitter /\ Numbered

\* A deque that drops its oldest elements keeps the newest, in order.
LEMMA NewestKept ==
  ASSUME NEW S, NEW s \in Seq(S), NEW n \in Nat
  PROVE  /\ Newest(s, n) \in Seq(S)
         /\ Len(Newest(s, n)) = IF Len(s) <= n THEN Len(s) ELSE n
         /\ \A i \in 1 .. Len(Newest(s, n)) :
              Newest(s, n)[i] = s[Len(s) - Len(Newest(s, n)) + i]
<1>1. CASE Len(s) <= n
  BY <1>1 DEF Newest
<1>2. CASE Len(s) > n
  <2>1. Newest(s, n) = SubSeq(s, Len(s) - n + 1, Len(s))
    BY <1>2 DEF Newest
  <2>2. /\ SubSeq(s, Len(s) - n + 1, Len(s)) \in Seq(S)
        /\ Len(SubSeq(s, Len(s) - n + 1, Len(s))) = n
        /\ \A i \in 1 .. n : SubSeq(s, Len(s) - n + 1, Len(s))[i] = s[Len(s) - n + i]
    BY <1>2, SubSeqProperties
  <2>. QED  BY <1>2, <2>1, <2>2
<1>. QED  BY <1>1, <1>2

LEMMA InitLogInv ==
  InitLog => LogInv
BY EventLogAssumption
DEF InitLog, LogInv, LogTypeOK, OneEmitter, Numbered, NumberedUpTo, InSection, Events

LEMMA NextLogInv ==
  LogInv /\ [NextLog]_logVars => LogInv'
<1>. SUFFICES ASSUME LogInv, [NextLog]_logVars PROVE LogInv'
  OBVIOUS
<1>. USE EventLogAssumption
<1>1. CASE Restart
  BY <1>1 DEF Restart, LogInv, LogTypeOK, OneEmitter, Numbered, NumberedUpTo, InSection, Events
<1>2. ASSUME NEW e \in Emitters, EnterEmit(e) PROVE LogInv'
  <2>1. LogTypeOK' /\ OneEmitter' /\ lock' = e /\ pc'[e] = "append"
    BY <1>2 DEF EnterEmit, LogInv, LogTypeOK, OneEmitter
  <2>2. NumberedUpTo(Len(log), seq)'
    BY <1>2 DEF EnterEmit, LogInv, Numbered, NumberedUpTo
  <2>. QED  BY <2>1, <2>2 DEF LogInv, Numbered, InSection
<1>3. ASSUME NEW e \in Emitters, AppendEvent(e) PROVE LogInv'
  <2>. DEFINE grown == Append(log, [boot |-> boot, id |-> 0])
  <2>1. grown \in Seq(Events) /\ Len(grown) = Len(log) + 1
        /\ grown[Len(grown)] = [boot |-> boot, id |-> 0]
        /\ \A i \in 1 .. Len(log) : grown[i] = log[i]
    BY DEF LogInv, LogTypeOK, Events
  <2>2. log' = Newest(grown, Keep) /\ UNCHANGED <<seq, lock, boot>>
    BY <1>3 DEF AppendEvent
  <2>. HIDE DEF grown
  <2>3. LogTypeOK' /\ OneEmitter' /\ lock' = e /\ pc'[e] = "count" /\ lock = e
    BY <1>3, <2>1, <2>2, NewestKept DEF AppendEvent, LogInv, LogTypeOK, OneEmitter
  <2>4. NumberedUpTo(Len(log), seq)
    BY <1>3, <2>3 DEF AppendEvent, LogInv, Numbered, InSection
  <2>5. Len(log') > 0 /\ log'[Len(log')] = [boot |-> boot, id |-> 0]
    BY <2>1, <2>2, NewestKept
  <2>6. \A i \in 1 .. Len(log') - 1 :
          log'[i] = [boot |-> boot, id |-> seq - (Len(log') - 1) + i]
    <3>1. Keep \in Nat /\ Len(log) \in Nat /\ seq \in Nat
      BY DEF LogInv, LogTypeOK
    <3>2. \A i \in 1 .. Len(log') : log'[i] = grown[Len(grown) - Len(log') + i]
      BY <2>1, <2>2, <3>1, NewestKept
    <3>3. Len(log') \in 1 .. Len(log) + 1
      BY <2>1, <2>2, <2>5, <3>1, NewestKept
    <3>. SUFFICES ASSUME NEW i \in 1 .. Len(log') - 1
                  PROVE  log'[i] = [boot |-> boot, id |-> seq - (Len(log') - 1) + i]
      OBVIOUS
    <3>. DEFINE j == Len(grown) - Len(log') + i
    <3>4. j \in 1 .. Len(log) /\ j = Len(log) + 1 - Len(log') + i
      BY <2>1, <3>1, <3>3
    <3>5. log'[i] = log[j]
      <4>1. i \in 1 .. Len(log')
        BY <3>3
      <4>2. log'[i] = grown[j]
        BY <3>2, <4>1
      <4>. QED  BY <2>1, <3>4, <4>2
    <3>6. log[j] = [boot |-> boot, id |-> seq - Len(log) + j]
      BY <2>4, <3>4 DEF NumberedUpTo
    <3>7. seq - Len(log) + j = seq - (Len(log') - 1) + i
      BY <3>1, <3>3, <3>4
    <3>. QED  BY <3>5, <3>6, <3>7
  <2>. QED  BY <2>2, <2>3, <2>5, <2>6 DEF LogInv, Numbered, NumberedUpTo, InSection
<1>4. ASSUME NEW e \in Emitters, CountEvent(e) PROVE LogInv'
  <2>1. LogTypeOK' /\ OneEmitter' /\ lock' = e /\ pc'[e] = "number" /\ lock = e
    BY <1>4 DEF CountEvent, LogInv, LogTypeOK, OneEmitter
  <2>2. InSection("count")
    BY <1>4, <2>1 DEF CountEvent, InSection
  <2>3. /\ Len(log') > 0 /\ seq' > 0
        /\ log'[Len(log')].boot = boot'
        /\ NumberedUpTo(Len(log) - 1, seq - 1)'
    BY <1>4, <2>2 DEF CountEvent, LogInv, LogTypeOK, Numbered, NumberedUpTo
  <2>. QED  BY <2>1, <2>3 DEF LogInv, Numbered, InSection
<1>5. ASSUME NEW e \in Emitters, NumberEvent(e) PROVE LogInv'
  <2>1. lock = e /\ lock' = NoEmitter /\ OneEmitter' /\ InSection("number")
    BY <1>5 DEF NumberEvent, LogInv, LogTypeOK, OneEmitter, InSection
  <2>2. /\ Len(log) > 0 /\ log[Len(log)].boot = boot
        /\ NumberedUpTo(Len(log) - 1, seq - 1)
    BY <2>1 DEF LogInv, Numbered
  <2>3. log' = [log EXCEPT ![Len(log)] = [boot |-> boot, id |-> seq]]
    <3>1. log \in Seq(Events)
      BY DEF LogInv, LogTypeOK
    <3>2. Len(log) \in 1 .. Len(log) /\ DOMAIN log = 1 .. Len(log)
      BY <2>2, <3>1
    <3>3. log[Len(log)] \in Events
      BY <3>1, <3>2
    <3>4. log[Len(log)] \in [boot : Nat, id : Nat]
      BY <3>3 DEF Events
    <3>5. [log[Len(log)] EXCEPT !.id = seq] = [boot |-> boot, id |-> seq]
      BY <2>2, <3>4
    <3>. QED  BY <1>5, <3>5 DEF NumberEvent
  <2>4. log' \in Seq(Events) /\ Len(log') = Len(log)
    BY <2>2, <2>3 DEF LogInv, LogTypeOK, Events
  <2>5. LogTypeOK'
    BY <1>5, <2>4 DEF NumberEvent, LogInv, LogTypeOK
  <2>6. NumberedUpTo(Len(log), seq)'
    <3>. DEFINE n == Len(log)
    <3>1. n \in Nat \ {0} /\ seq \in Nat /\ DOMAIN log = 1 .. n
      BY <2>2 DEF LogInv, LogTypeOK
    <3>2. log' = [log EXCEPT ![n] = [boot |-> boot, id |-> seq]]
      BY <2>3
    <3>3. \A i \in 1 .. n - 1 : log[i] = [boot |-> boot, id |-> (seq - 1) - (n - 1) + i]
      BY <2>2 DEF NumberedUpTo
    <3>4. Len(log') = n /\ seq' = seq /\ boot' = boot
      BY <1>5, <2>4 DEF NumberEvent
    <3>. HIDE DEF n
    <3>. SUFFICES ASSUME NEW i \in 1 .. n
                  PROVE  log'[i] = [boot |-> boot, id |-> seq - n + i]
      BY <3>4 DEF NumberedUpTo
    <3>5. CASE i = n
      BY <3>1, <3>2, <3>5
    <3>6. CASE i # n
      <4>1. i \in 1 .. n - 1 /\ (seq - 1) - (n - 1) + i = seq - n + i
        BY <3>1, <3>6
      <4>. QED  BY <3>1, <3>2, <3>3, <3>6, <4>1
    <3>. QED  BY <3>5, <3>6
  <2>. QED  BY <2>1, <2>5, <2>6 DEF LogInv, Numbered, InSection
<1>6. CASE UNCHANGED logVars
  BY <1>6 DEF logVars, LogInv, LogTypeOK, OneEmitter, Numbered, NumberedUpTo, InSection
<1>. QED  BY <1>1, <1>2, <1>3, <1>4, <1>5, <1>6 DEF NextLog, Emit

\* A page polling the log changes nothing in it: the server's part of every step
\* is a step of the log alone.
LEMMA PollingRunsLog ==
  [EventNext]_pollingVars => [NextLog]_logVars
BY DEF EventNext, pollingVars, Poll, Answer, Fail, Merge, RestartServer, EmitStep, NextLog

\* Whoever finds the lock free finds the last events of this process, numbered
\* in order and without a gap, whatever threads emit and however the page polls
\* (emit_event_with_cursor).
THEOREM NumbersInOrder == EventSpec => []LogNumbered
<1>1. EventInit => LogInv
  BY InitLogInv DEF EventInit
<1>2. LogInv /\ [EventNext]_pollingVars => LogInv'
  BY NextLogInv, PollingRunsLog
<1>3. LogInv => LogNumbered
  <2>. SUFFICES ASSUME LogInv, lock = NoEmitter, NEW i \in DOMAIN log
                PROVE  log[i] = [boot |-> boot, id |-> seq - Len(log) + i]
    BY DEF LogNumbered
  <2>1. i \in 1 .. Len(log)
    BY DEF LogInv, LogTypeOK
  <2>. QED  BY <2>1 DEF LogInv, Numbered, NumberedUpTo
<1>. QED  BY <1>1, <1>2, <1>3, PTL DEF EventSpec

-----------------------------------------------------------------------------
(* The tray.                                                                *)

\* A thread that stops the server knows what comes after the stop.
StopsForAReason ==
  \A t \in DeskThreads :
    threads[t].pc \in {"stop", "grab", "wait", "clear"}
      => threads[t].goal \in {"stop", "restart", "quit", "exit"}

DeskIInv == DeskTypeOK /\ StopsForAReason /\ NoMessageFromThePast

Pcs == {"idle", "dead", "claim", "claimed", "recover", "adopt", "await", "failing",
        "stop", "grab", "wait", "clear", "poll", "judge", "again"}
Goals == {"none", "start", "stop", "restart", "quit", "exit", "watch", "command"}
ThreadStates == [pc : Pcs, goal : Goals, held : 0..MaxServers, saw : BOOLEAN]
ServerStates == [state : {"none", "booting", "ready", "closing", "exited"},
                 owner : 0..MaxSessions]

\* What a state of one thread may be.
Sound(th) ==
  /\ th \in ThreadStates
  /\ th.pc \in {"adopt", "await", "wait"} => th.held # 0
  /\ th.pc \in {"stop", "grab", "wait", "clear"} => th.goal \in {"stop", "restart", "quit", "exit"}

LEMMA ThreadsAreSound ==
  DeskTypeOK /\ StopsForAReason
    <=> /\ tray \in [session : 0..MaxSessions, alive : BOOLEAN, stop : BOOLEAN,
                     icon : {"none", "shown", "stopped"}]
        /\ ctl \in [child : 0..MaxServers, starting : BOOLEAN]
        /\ threads \in [DeskThreads -> ThreadStates]
        /\ \A t \in DeskThreads : Sound(threads[t])
        /\ servers \in [Servers -> ServerStates]
        /\ file \in 0..MaxServers /\ marker \in [by : 0..MaxServers, session : 0..MaxSessions]
        /\ command \in [what : {"none", "start", "quit"}, session : 0..MaxSessions]
BY DEF Goals, Pcs, ServerStates, ThreadStates, Sound, StopsForAReason, DeskTypeOK

LEMMA DeskInitIInv == DeskInit => DeskIInv
<1> SUFFICES ASSUME DeskInit PROVE DeskIInv
  OBVIOUS
<1>1. 0 \in 0..MaxServers /\ 0 \in 0..MaxSessions
  BY DesktopAssumption
<1>2. \A t \in DeskThreads : Sound(threads[t])
  BY <1>1 DEF Goals, Pcs, ThreadStates, Sound, Nobody, DeskInit
<1>3. threads \in [DeskThreads -> ThreadStates] /\ servers \in [Servers -> ServerStates]
  BY <1>1 DEF Goals, Pcs, ServerStates, ThreadStates, Nobody, DeskInit
<1>4. DeskTypeOK /\ StopsForAReason
  BY <1>1, <1>2, <1>3, ThreadsAreSound DEF NoCommand, NoMarker, FreshCtl, DeskInit
<1>5. NoMessageFromThePast
  BY DEF DeskInit, NoMessageFromThePast
<1>6. QED
  BY <1>4, <1>5 DEF DeskIInv

\* A step of one thread: its own record changes.
LEMMA OneThreadMoves ==
  ASSUME threads \in [DeskThreads -> ThreadStates], \A r \in DeskThreads : Sound(threads[r]),
         NEW t \in DeskThreads, NEW th, Sound(th), threads' = [threads EXCEPT ![t] = th]
  PROVE  threads' \in [DeskThreads -> ThreadStates] /\ \A r \in DeskThreads : Sound(threads[r])'
<1>1. th \in ThreadStates
  BY DEF Sound
<1>2. \A r \in DeskThreads : threads'[r] = IF r = t THEN th ELSE threads[r]
  OBVIOUS
<1>3. \A r \in DeskThreads : Sound(threads'[r])
  BY <1>2
<1>4. QED
  BY <1>1, <1>3 DEF Sound

\* The end of a tray and the beginning of one leave every thread at rest.
LEMMA NobodyIsSound ==
  /\ Nobody \in [DeskThreads -> ThreadStates] /\ \A t \in DeskThreads : Sound(Nobody[t])
  /\ FreshCtl \in [child : 0..MaxServers, starting : BOOLEAN]
  /\ NoMarker \in [by : 0..MaxServers, session : 0..MaxSessions]
  /\ NoCommand \in [what : {"none", "start", "quit"}, session : 0..MaxSessions]
<1>1. 0 \in 0..MaxServers /\ 0 \in 0..MaxSessions
  BY DesktopAssumption
<1>2. QED
  BY <1>1 DEF NoCommand, NoMarker, FreshCtl, Goals, Pcs, ThreadStates, Sound, Nobody

\* What every step uses of the invariant.
LEMMA Facts ==
  ASSUME DeskIInv
  PROVE  /\ tray.session \in 0..MaxSessions /\ tray.alive \in BOOLEAN /\ tray.stop \in BOOLEAN
         /\ ctl.child \in 0..MaxServers /\ 0 \in 0..MaxServers
         /\ \A t \in DeskThreads : threads[t].held \in 0..MaxServers
         /\ \A s \in 1..MaxServers : s \in Servers /\ s \in 0..MaxServers
BY DesktopAssumption DEF DeskIInv, DeskTypeOK, Servers

LEMMA ServerMoves ==
  ASSUME servers \in [Servers -> ServerStates], NEW s \in Servers,
         NEW st \in {"none", "booting", "ready", "closing", "exited"}
  PROVE  [servers EXCEPT ![s].state = st] \in [Servers -> ServerStates]
BY DEF ServerStates

LEMMA ThreadKeeps ==
  ASSUME DeskIInv, NEW t \in DeskThreads, ThreadStep(t)
  PROVE  DeskIInv'
<1> USE ThreadsAreSound DEF DeskIInv
<1> DEFINE Types ==
      /\ tray' \in [session : 0..MaxSessions, alive : BOOLEAN, stop : BOOLEAN,
                    icon : {"none", "shown", "stopped"}]
      /\ ctl' \in [child : 0..MaxServers, starting : BOOLEAN]
      /\ servers' \in [Servers -> ServerStates]
      /\ file' \in 0..MaxServers /\ marker' \in [by : 0..MaxServers, session : 0..MaxSessions]
      /\ command' \in [what : {"none", "start", "quit"}, session : 0..MaxSessions]
      Threads == threads' \in [DeskThreads -> ThreadStates] /\ \A r \in DeskThreads : Sound(threads[r])'
      Th == threads[t]
<1>0. /\ Sound(Th) /\ Th \in ThreadStates
      /\ \A r \in DeskThreads : Sound(threads[r])
      /\ threads \in [DeskThreads -> ThreadStates]
      /\ 0 \in 0..MaxServers /\ 0 \in 0..MaxSessions
  BY DesktopAssumption DEF Sound
<1>1. SUFFICES Types /\ Threads /\ NoMessageFromThePast'
  BY DEF Goals, Pcs, ServerStates, ThreadStates, Sound, StopsForAReason, DeskTypeOK
<1>2. ASSUME NEW p \in Pcs, Sound([Th EXCEPT !.pc = p]), Go(t, p) PROVE Threads
  BY <1>0, <1>2, OneThreadMoves DEF Go
<1>3. ASSUME Rest(t) PROVE Threads
  <2>1. Sound([pc |-> "idle", goal |-> "none", held |-> 0, saw |-> FALSE])
    BY <1>0 DEF Goals, Pcs, ThreadStates, Sound
  <2>2. QED
    BY <1>3, <2>1, OneThreadMoves DEF Rest
<1>4. ASSUME Raise(t) PROVE Threads
  <2>1. Sound([pc |-> "dead", goal |-> "none", held |-> 0, saw |-> FALSE])
    BY <1>0 DEF Goals, Pcs, ThreadStates, Sound
  <2>2. QED
    BY <1>3, <1>4, <2>1, OneThreadMoves DEF Raise
<1>5. CASE Claim(t)
  <2>1. Types
    BY <1>5 DEF Claim
  <2>2. Threads
    <3>1. CASE Running
      <4> DEFINE th == [Th EXCEPT !.pc = "poll"]
      <4>1. Sound(th)
        BY DEF Pcs, ThreadStates, Sound
      <4>2. threads' = [threads EXCEPT ![t] = th]
        BY <1>5, <3>1 DEF AfterStop, Go, Claim
      <4>3. QED
        BY <1>0, <4>1, <4>2, OneThreadMoves
    <3>2. CASE ~Running /\ ctl.starting
      BY <1>4, <1>5, <3>2 DEF Claim
    <3>3. CASE ~Running /\ ~ctl.starting
      <4> DEFINE th == [Th EXCEPT !.pc = "claimed"]
      <4>1. Sound(th)
        BY DEF Pcs, ThreadStates, Sound
      <4>2. threads' = [threads EXCEPT ![t] = th]
        BY <1>5, <3>3 DEF AfterStop, Go, Claim
      <4>3. QED
        BY <1>0, <4>1, <4>2, OneThreadMoves
    <3>4. QED
      BY <3>1, <3>2, <3>3
  <2>3. NoMessageFromThePast'
    BY <1>5 DEF NoMessageFromThePast, Claim
  <2>4. QED
    BY <2>1, <2>2, <2>3
<1>6. CASE Claimed(t)
  <2>1. Types
    BY <1>6 DEF Claimed
  <2>2. Threads
    <3> DEFINE th == [Th EXCEPT !.pc = "recover"]
    <3>1. Sound(th)
      BY DEF Pcs, ThreadStates, Sound
    <3>2. threads' = [threads EXCEPT ![t] = th]
      BY <1>6 DEF AfterStop, Go, Claimed
    <3>3. QED
      BY <1>0, <3>1, <3>2, OneThreadMoves
  <2>3. NoMessageFromThePast'
    BY <1>6 DEF NoMessageFromThePast, Claimed
  <2>4. QED
    BY <2>1, <2>2, <2>3
<1>7. CASE StaleInstanceStays(t)
  <2>1. Types
    BY <1>7 DEF StaleInstanceStays
  <2>2. Threads
    <3> DEFINE th == [Th EXCEPT !.pc = "failing"]
    <3>1. Sound(th)
      BY DEF Pcs, ThreadStates, Sound
    <3>2. threads' = [threads EXCEPT ![t] = th]
      BY <1>7 DEF AfterStop, Go, StaleInstanceStays
    <3>3. QED
      BY <1>0, <3>1, <3>2, OneThreadMoves
  <2>3. NoMessageFromThePast'
    BY <1>7 DEF NoMessageFromThePast, StaleInstanceStays
  <2>4. QED
    BY <2>1, <2>2, <2>3
<1>8. CASE Spawn(t)
  <2>1. Types
    BY <1>0, <1>8 DEF ServerStates, Spawn
  <2>2. Threads
    <3>1. PICK s \in Servers : threads' = [threads EXCEPT ![t].pc = "adopt", ![t].held = s]
      BY <1>8 DEF Spawn
    <3>2. s # 0 /\ s \in 0..MaxServers
      BY <3>1, DesktopAssumption DEF Servers
    <3>3. Sound([Th EXCEPT !.pc = "adopt", !.held = s])
      BY <3>2 DEF Pcs, ThreadStates, Sound
    <3>4. threads' = [threads EXCEPT ![t] = [Th EXCEPT !.pc = "adopt", !.held = s]]
      BY <1>0, <3>1
    <3>5. QED
      BY <1>0, <3>3, <3>4, OneThreadMoves
  <2>3. NoMessageFromThePast'
    BY <1>8 DEF NoMessageFromThePast, Spawn
  <2>4. QED
    BY <2>1, <2>2, <2>3
<1>9. CASE SpawnFails(t)
  <2>1. Types
    BY <1>0, <1>9 DEF SpawnFails
  <2>2. Threads
    <3> DEFINE th == [Th EXCEPT !.pc = "failing"]
    <3>1. Sound(th)
      BY DEF Pcs, ThreadStates, Sound
    <3>2. threads' = [threads EXCEPT ![t] = th]
      BY <1>9 DEF AfterStop, Go, SpawnFails
    <3>3. QED
      BY <1>0, <3>1, <3>2, OneThreadMoves
  <2>3. NoMessageFromThePast'
    BY <1>9 DEF NoMessageFromThePast, SpawnFails
  <2>4. QED
    BY <2>1, <2>2, <2>3
<1>10. CASE Adopt(t)
  <2>1. Types
    BY <1>10, Facts DEF Adopt
  <2>2. Threads
    <3> DEFINE th == [Th EXCEPT !.pc = "await"]
    <3>1. Sound(th)
      BY <1>10 DEF Pcs, ThreadStates, Sound, At, Adopt
    <3>2. threads' = [threads EXCEPT ![t] = th]
      BY <1>10 DEF AfterStop, Go, Adopt
    <3>3. QED
      BY <1>0, <3>1, <3>2, OneThreadMoves
  <2>3. NoMessageFromThePast'
    BY <1>10 DEF NoMessageFromThePast, Adopt
  <2>4. QED
    BY <2>1, <2>2, <2>3
<1>11. CASE AwaitReady(t)
  <2>1. Types
    BY <1>11 DEF AwaitReady
  <2>2. Threads
    <3>1. CASE servers[Th.held].state = "ready"
      <4> DEFINE th == [Th EXCEPT !.pc = "poll", !.held = 0]
      <4>1. Sound(th)
        BY <1>11, <3>1 DEF ThreadStates, Sound, At, AwaitReady
      <4>2. threads' = [threads EXCEPT ![t] = th]
        BY <1>11, <3>1 DEF AfterStop, AwaitReady
      <4>3. QED
        BY <1>0, <4>1, <4>2, OneThreadMoves
    <3>2. CASE servers[Th.held].state # "ready"
      <4> DEFINE th == [Th EXCEPT !.pc = "failing"]
      <4>1. Sound(th)
        BY DEF Pcs, ThreadStates, Sound
      <4>2. threads' = [threads EXCEPT ![t] = th]
        BY <1>11, <3>2 DEF AfterStop, Go, AwaitReady
      <4>3. QED
        BY <1>0, <4>1, <4>2, OneThreadMoves
    <3>3. QED
      BY <3>1, <3>2
  <2>3. NoMessageFromThePast'
    BY <1>11 DEF NoMessageFromThePast, AwaitReady
  <2>4. QED
    BY <2>1, <2>2, <2>3
<1>12. CASE StartFails(t)
  <2>1. servers' \in [Servers -> ServerStates]
    <3>1. servers \in [Servers -> ServerStates]
      OBVIOUS
    <3>2. Running => ctl.child \in Servers
      BY Facts DEF Running, Live
    <3>3. QED
      BY <1>12, ServerMoves DEF StartFails
  <2>5. Types
    BY <1>0, <1>12, <2>1 DEF FreshCtl, StartFails
  <2>2. Threads
    BY <1>4, <1>12 DEF StartFails
  <2>3. NoMessageFromThePast'
    BY <1>12 DEF NoMessageFromThePast, StartFails
  <2>4. QED
    BY <2>2, <2>3, <2>5
<1>13. CASE Stop(t)
  <2>1. servers' \in [Servers -> ServerStates]
    <3>1. servers \in [Servers -> ServerStates]
      OBVIOUS
    <3>2. ctl.child # 0 => ctl.child \in Servers
      BY Facts
    <3>3. QED
      BY <1>13, ServerMoves DEF Stop
  <2>5. Types
    BY <1>13, <2>1 DEF Stop
  <2>2. Threads
    <3>1. CASE Running
      <4> DEFINE th == [Th EXCEPT !.pc = "grab"]
      <4>1. Sound(th)
        BY <1>13 DEF Pcs, ThreadStates, Sound, At, Stop
      <4>2. threads' = [threads EXCEPT ![t] = th]
        BY <1>13, <3>1 DEF AfterStop, Go, Stop
      <4>3. QED
        BY <1>0, <4>1, <4>2, OneThreadMoves
    <3>2. CASE ~Running
      <4> DEFINE th == [Th EXCEPT !.pc = "clear"]
      <4>1. Sound(th)
        BY <1>13 DEF Pcs, ThreadStates, Sound, At, Stop
      <4>2. threads' = [threads EXCEPT ![t] = th]
        BY <1>13, <3>2 DEF AfterStop, Go, Stop
      <4>3. QED
        BY <1>0, <4>1, <4>2, OneThreadMoves
    <3>3. QED
      BY <3>1, <3>2
  <2>3. NoMessageFromThePast'
    BY <1>13 DEF NoMessageFromThePast, Stop
  <2>4. QED
    BY <2>2, <2>3, <2>5
<1>14. CASE GrabChild(t)
  <2>1. Types
    BY <1>14 DEF GrabChild
  <2>2. Threads
    <3> DEFINE th == [Th EXCEPT !.held = ctl.child, !.pc = IF ctl.child = 0 THEN "clear" ELSE "wait"]
    <3>1. Sound(th)
      BY <1>14 DEF ThreadStates, At, GrabChild
    <3>2. threads' = [threads EXCEPT ![t] = th]
      BY <1>14 DEF AfterStop, Go, GrabChild
    <3>3. QED
      BY <1>0, <3>1, <3>2, OneThreadMoves
  <2>3. NoMessageFromThePast'
    BY <1>14 DEF NoMessageFromThePast, GrabChild
  <2>4. QED
    BY <2>1, <2>2, <2>3
<1>15. CASE WaitExit(t)
  <2>1. Types
    BY <1>15 DEF ServerStates, DeskTypeOK, WaitExit
  <2>2. Threads
    <3> DEFINE th == [Th EXCEPT !.pc = "clear", !.held = 0]
    <3>1. Sound(th)
      BY <1>15 DEF ThreadStates, Sound, At, WaitExit
    <3>2. threads' = [threads EXCEPT ![t] = th]
      BY <1>15 DEF AfterStop, Go, WaitExit
    <3>3. QED
      BY <1>0, <3>1, <3>2, OneThreadMoves
  <2>3. NoMessageFromThePast'
    BY <1>15 DEF NoMessageFromThePast, WaitExit
  <2>4. QED
    BY <2>1, <2>2, <2>3
<1>16. CASE StopClears(t)
  <2>1. Types
    <3>1. CASE Th.goal = "exit"
      <4>1. LeaveTray /\ servers' = servers
        BY <1>16, <3>1 DEF StopClears
      <4>2. QED
        BY <1>0, <4>1, NobodyIsSound DEF Gone, LeaveTray
    <3>2. CASE Th.goal # "exit"
      <4>1. Cleared /\ AfterStop(t) /\ UNCHANGED <<servers, marker, command>>
        BY <1>16, <3>2 DEF StopClears
      <4>2. Th.goal \in {"stop", "restart", "quit"}
        BY <1>16, <3>2 DEF Sound, At, StopClears
      <4>3. tray' = tray \/ tray' = [tray EXCEPT !.icon = "stopped"]
        BY <4>1, <4>2 DEF AfterStop
      <4>4. QED
        BY <1>0, <4>1, <4>3 DEF Cleared
    <3>3. QED
      BY <3>1, <3>2
  <2>2. Threads
    <3>1. CASE Th.goal = "exit"
      BY <1>16, <3>1, NobodyIsSound DEF Gone, LeaveTray, StopClears
    <3>2. CASE Th.goal = "restart"
      <4> DEFINE th == [Th EXCEPT !.pc = "claim"]
      <4>1. Sound(th)
        BY DEF Pcs, ThreadStates, Sound
      <4>2. threads' = [threads EXCEPT ![t] = th]
        BY <1>16, <3>2 DEF AfterStop, Go, StopClears
      <4>3. QED
        BY <1>0, <4>1, <4>2, OneThreadMoves
    <3>3. CASE Th.goal = "quit"
      BY <1>3, <1>16, <3>3 DEF AfterStop, StopClears
    <3>4. CASE Th.goal = "stop"
      <4> DEFINE th == [Th EXCEPT !.pc = "poll"]
      <4>1. Sound(th)
        BY DEF Pcs, ThreadStates, Sound
      <4>2. threads' = [threads EXCEPT ![t] = th]
        BY <1>16, <3>4 DEF AfterStop, Go, StopClears
      <4>3. QED
        BY <1>0, <4>1, <4>2, OneThreadMoves
    <3>5. QED
      BY <1>16, <3>1, <3>2, <3>3, <3>4 DEF Sound, At, StopClears
  <2>3. NoMessageFromThePast'
    <3>1. CASE Th.goal = "exit"
      BY <1>16, <3>1 DEF NoMessageFromThePast, NoCommand, NoMarker, LeaveTray, StopClears
    <3>2. CASE Th.goal # "exit"
      <4>1. AfterStop(t) /\ UNCHANGED <<marker, command>>
        BY <1>16, <3>2 DEF StopClears
      <4>2. Th.goal \in {"stop", "restart", "quit"}
        BY <1>16, <3>2 DEF Sound, At, StopClears
      <4>3. tray'.alive = tray.alive /\ tray'.session = tray.session
        BY <4>1, <4>2 DEF AfterStop
      <4>4. QED
        BY <4>1, <4>3 DEF NoMessageFromThePast
    <3>3. QED
      BY <3>1, <3>2
  <2>4. QED
    BY <2>1, <2>2, <2>3
<1>17. CASE TakeCommand(t)
  <2>1. Types
    BY <1>0, <1>17 DEF NoCommand, DeskTypeOK, TakeCommand
  <2>2. Threads
    <3>1. CASE command.what = "quit"
      <4> DEFINE th == [Th EXCEPT !.pc = "stop", !.goal = "quit"]
      <4>1. Sound(th)
        BY <1>0 DEF Goals, Pcs, ThreadStates, Sound
      <4>2. threads' = [threads EXCEPT ![t] = th]
        BY <1>17, <3>1 DEF AfterStop, Go, TakeCommand
      <4>3. QED
        BY <1>0, <4>1, <4>2, OneThreadMoves
    <3>2. CASE command.what = "start" /\ ~Running
      <4> DEFINE th == [Th EXCEPT !.pc = "claim", !.goal = "command"]
      <4>1. Sound(th)
        BY <1>0 DEF Goals, Pcs, ThreadStates, Sound
      <4>2. threads' = [threads EXCEPT ![t] = th]
        BY <1>17, <3>2 DEF AfterStop, Go, TakeCommand
      <4>3. QED
        BY <1>0, <4>1, <4>2, OneThreadMoves
    <3>3. CASE command.what # "quit" /\ ~(command.what = "start" /\ ~Running)
      BY <1>0, <1>17, <3>3 DEF TakeCommand
    <3>4. QED
      BY <3>1, <3>2, <3>3
  <2>3. NoMessageFromThePast'
    BY <1>17 DEF NoCommand, NoMessageFromThePast, TakeCommand
  <2>4. QED
    BY <2>1, <2>2, <2>3
<1>18. CASE LookAround(t)
  <2>1. Types
    BY <1>18 DEF LookAround
  <2>2. Threads
    <3> DEFINE th == [Th EXCEPT !.saw = marker.by # 0, !.pc = IF ctl.child # 0 /\ ~Running THEN "judge" ELSE "again"]
    <3>1. Sound(th)
      BY <1>18 DEF ThreadStates, At, LookAround
    <3>2. threads' = [threads EXCEPT ![t] = th]
      BY <1>18 DEF AfterStop, Go, LookAround
    <3>3. QED
      BY <1>0, <3>1, <3>2, OneThreadMoves
  <2>3. NoMessageFromThePast'
    BY <1>18 DEF NoMessageFromThePast, LookAround
  <2>4. QED
    BY <2>1, <2>2, <2>3
<1>19. CASE JudgeExit(t)
  <2>1. Types
    BY <1>0, <1>19 DEF Cleared, JudgeExit
  <2>2. Threads
    <3> DEFINE th == [Th EXCEPT !.pc = "again"]
    <3>1. Sound(th)
      BY DEF Pcs, ThreadStates, Sound
    <3>2. threads' = [threads EXCEPT ![t] = th]
      BY <1>19 DEF AfterStop, Go, JudgeExit
    <3>3. QED
      BY <1>0, <3>1, <3>2, OneThreadMoves
  <2>3. NoMessageFromThePast'
    BY <1>19 DEF NoMessageFromThePast, JudgeExit
  <2>4. QED
    BY <2>1, <2>2, <2>3
<1>20. CASE RestartAgain(t)
  <2>1. Types
    BY <1>20 DEF DeskTypeOK, RestartAgain
  <2>2. Threads
    <3>1. CASE Th.saw /\ ~Running /\ ~tray.stop
      <4> DEFINE th == [Th EXCEPT !.pc = "claim", !.saw = FALSE, !.goal = IF Th.goal = "command" THEN "watch" ELSE Th.goal]
      <4>1. Sound(th)
        BY <1>20, <3>1 DEF ThreadStates, RestartAgain
      <4>2. threads' = [threads EXCEPT ![t] = th]
        BY <1>20, <3>1 DEF AfterStop, Go, RestartAgain
      <4>3. QED
        BY <1>0, <4>1, <4>2, OneThreadMoves
    <3>2. CASE ~(Th.saw /\ ~Running /\ ~tray.stop)
      BY <1>3, <1>20, <3>2 DEF AfterStop, RestartAgain
    <3>3. QED
      BY <3>1, <3>2
  <2>3. NoMessageFromThePast'
    BY <1>20 DEF NoMarker, NoMessageFromThePast, RestartAgain
  <2>4. QED
    BY <2>1, <2>2, <2>3
<1>21. CASE t = "main" /\ ShowIcon
  <2>1. Types /\ NoMessageFromThePast'
    BY <1>21 DEF NoMessageFromThePast, ShowIcon
  <2>2. Threads
    BY <1>21 DEF ShowIcon
  <2>3. QED
    BY <2>1, <2>2
<1>22. CASE t = "main" /\ ShutdownTray
  <2>1. Types /\ NoMessageFromThePast'
    BY <1>22 DEF NoMessageFromThePast, ShutdownTray
  <2>2. Threads
    BY <1>0, <1>22, OneThreadMoves DEF Goals, Pcs, ThreadStates, Sound, At, ShutdownTray
  <2>3. QED
    BY <2>1, <2>2
<1>23. CASE t = "poll" /\ Tick
  <2>1. Types /\ NoMessageFromThePast'
    BY <1>23 DEF NoMessageFromThePast, Tick
  <2>2. Threads
    BY <1>0, <1>23, OneThreadMoves DEF Pcs, ThreadStates, Sound, Tick
  <2>3. QED
    BY <2>1, <2>2
<1>24. QED
  BY <1>5, <1>6, <1>7, <1>8, <1>9, <1>10, <1>11, <1>12, <1>13, <1>14, <1>15, <1>16, <1>17, <1>18,
       <1>19, <1>20, <1>21, <1>22, <1>23 DEF ThreadStep

LEMMA DeskStepIInv == DeskIInv /\ [DeskNext]_deskVars => DeskIInv'
<1> SUFFICES ASSUME DeskIInv, [DeskNext]_deskVars PROVE DeskIInv'
  OBVIOUS
<1> USE DEF DeskIInv
<1>0. 0 \in 0..MaxServers /\ 0 \in 0..MaxSessions
  BY DesktopAssumption
<1>1. CASE Launch
  <2>1. threads' \in [DeskThreads -> ThreadStates] /\ \A t \in DeskThreads : Sound(threads[t])'
    <3>1. CASE threads' = Nobody
      BY <3>1, NobodyIsSound
    <3>2. CASE threads' = [Nobody EXCEPT !["main"].pc = "claim", !["main"].goal = "start"]
      BY <1>0, <3>2 DEF Goals, Pcs, ThreadStates, Sound, Nobody
    <3>3. QED
      BY <1>1, <3>1, <3>2 DEF Launch
  <2>2. DeskTypeOK' /\ StopsForAReason'
    <3>1. DeskTypeOK /\ StopsForAReason
      OBVIOUS
    <3>2. /\ tray' \in [session : 0..MaxSessions, alive : BOOLEAN, stop : BOOLEAN,
                       icon : {"none", "shown", "stopped"}]
          /\ ctl' \in [child : 0..MaxServers, starting : BOOLEAN]
          /\ marker' \in [by : 0..MaxServers, session : 0..MaxSessions]
          /\ command' \in [what : {"none", "start", "quit"}, session : 0..MaxSessions]
          /\ UNCHANGED <<servers, file>>
      BY <1>1, NobodyIsSound, DesktopAssumption DEF DeskTypeOK, Launch
    <3>3. QED
      BY <2>1, <3>2 DEF Goals, Pcs, ThreadStates, Sound, StopsForAReason, DeskTypeOK
  <2>3. NoMessageFromThePast'
    BY <1>1 DEF NoCommand, NoMarker, NoMessageFromThePast, Launch
  <2>4. QED
    BY <2>2, <2>3
<1>2. CASE SecondLaunch
  BY <1>2 DEF NoMessageFromThePast, StopsForAReason, DeskTypeOK, SecondLaunch
<1>3. CASE TrayCrashes
  <2>1. DeskTypeOK' /\ StopsForAReason'
    BY <1>3, NobodyIsSound DEF Goals, Pcs, ThreadStates, Sound, StopsForAReason, DeskTypeOK, Gone,
         TrayCrashes
  <2>2. NoMessageFromThePast'
    BY <1>3 DEF NoMessageFromThePast, Gone, TrayCrashes
  <2>3. QED
    BY <2>1, <2>2
<1>4. ASSUME NEW t \in Actions, Click(t) PROVE DeskIInv'
  <2>1. t \in DeskThreads
    BY DEF DeskThreads
  <2>2. PICK goal \in {"start", "stop", "restart", "quit"} :
          threads' = [threads EXCEPT ![t].pc = IF goal = "start" THEN "claim" ELSE "stop",
                                     ![t].goal = goal]
    BY <1>4 DEF Click
  <2>3. threads' \in [DeskThreads -> ThreadStates] /\ \A r \in DeskThreads : Sound(threads[r])'
    BY <2>1, <2>2, OneThreadMoves, ThreadsAreSound DEF Pcs, ThreadStates, Sound
  <2>4. DeskTypeOK' /\ StopsForAReason'
    BY <1>4, <2>3 DEF Goals, Pcs, ThreadStates, Sound, StopsForAReason, DeskTypeOK, Click
  <2>5. NoMessageFromThePast'
    BY <1>4 DEF Click, NoMessageFromThePast, DeskTypeOK
  <2>6. QED
    BY <2>4, <2>5
<1>5. ASSUME NEW t \in DeskThreads, ThreadStep(t) PROVE DeskIInv'
  BY <1>5, ThreadKeeps
<1>6. ASSUME NEW s \in Servers,
             ServerReady(s) \/ ServerCrashes(s) \/ ServerCloses(s) \/ BrowserRestart(s) \/ OwnerGone(s)
      PROVE  DeskIInv'
  <2>1. s \in 0..MaxServers
    BY DesktopAssumption DEF Servers
  <2>2. DeskTypeOK' /\ StopsForAReason'
    BY <1>6, <2>1 DEF StopsForAReason, DeskTypeOK, SetState, OwnerGone, BrowserRestart,
         ServerCloses, ServerCrashes, ServerReady
  <2>3. NoMessageFromThePast'
    BY <1>6 DEF NoMessageFromThePast, OwnerGone, BrowserRestart, ServerCloses, ServerCrashes,
         ServerReady
  <2>4. QED
    BY <2>2, <2>3
<1>7. CASE UNCHANGED deskVars
  BY <1>7 DEF NoMessageFromThePast, StopsForAReason, DeskTypeOK, deskVars
<1>8. QED
  BY <1>1, <1>2, <1>3, <1>4, <1>5, <1>6, <1>7 DEF DeskNext

LEMMA DeskIInvHolds == DeskSpec => []DeskIInv
BY DeskInitIInv, DeskStepIInv, PTL DEF DeskSpec

\* The fields of the tray's controller, its threads, its servers and its three files have
\* their types, and a thread that adopts, awaits or waits for a server holds one: stop()
\* looks whether there still is a child (desktop_controller.py), so it never waits for none.
THEOREM DeskTypeCorrect == DeskSpec => []DeskTypeOK
BY DeskIInvHolds, PTL DEF DeskIInv

\* The restart marker and the command file a tray finds were written in its own session,
\* whatever crashed and whoever wrote them (tray_runtime.py, tray_polling.py).
THEOREM MessagesAreOfThisSession == DeskSpec => []NoMessageFromThePast
BY DeskIInvHolds, PTL DEF DeskIInv
=============================================================================
