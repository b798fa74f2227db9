------------------------------ MODULE EventLog ------------------------------
(***************************************************************************)
(* The numbered activity log of the server: emit_event and                  *)
(* recent_events_page as app/status_split.py wraps them around the bounded   *)
(* deque of app/model_manager_core.py.                                      *)
(*                                                                         *)
(* Request threads, worker callbacks and tasks emit; each appends, counts    *)
(* and numbers its event in three steps inside one critical section.  The    *)
(* log dies with the process.  An event is the process that emitted it and   *)
(* its number (0 until numbered).  The fallback that numbers events of a     *)
(* manager built before the extension was installed is left out.            *)
(***************************************************************************)
EXTENDS Integers, Sequences, FiniteSets

CONSTANTS Emitters,   \* threads that emit
          NoEmitter,
          Keep        \* maxlen of the deque

ASSUME EventLogAssumption ==
  /\ NoEmitter \notin Emitters
  /\ Keep \in Nat \ {0}

VARIABLES
  log,   \* _events, oldest first
  seq,   \* _event_sequence
  lock,  \* the holder of _event_cursor_lock
  pc,    \* the next step of each emitter
  boot   \* which server process this is

logVars == <<log, seq, lock, pc, boot>>

Events == [boot : Nat, id : Nat]

\* The last n elements: what a deque with that maxlen keeps.
Newest(s, n) == IF Len(s) <= n THEN s ELSE SubSeq(s, Len(s) - n + 1, Len(s))

LogTypeOK ==
  /\ log \in Seq(Events) /\ Len(log) <= Keep
  /\ seq \in Nat
  /\ lock \in Emitters \cup {NoEmitter}
  /\ pc \in [Emitters -> {"idle", "append", "count", "number"}]
  /\ boot \in Nat

InitLog ==
  /\ log = <<>> /\ seq = 0 /\ boot = 1
  /\ lock = NoEmitter
  /\ pc = [e \in Emitters |-> "idle"]

\* Regression form of EnterEmit: emission is not a critical section.
EnterEmitUnlocked(e) ==
  /\ pc[e] = "idle"
  /\ lock' = e
  /\ pc' = [pc EXCEPT ![e] = "append"]
  /\ UNCHANGED <<log, seq, boot>>

EnterEmit(e) ==
  /\ pc[e] = "idle" /\ lock = NoEmitter
  /\ lock' = e
  /\ pc' = [pc EXCEPT ![e] = "append"]
  /\ UNCHANGED <<log, seq, boot>>

\* Regression form of AppendEvent: the deque has no maxlen.
AppendEventUnbounded(e) ==
  /\ pc[e] = "append"
  /\ log' = Append(log, [boot |-> boot, id |-> 0])
  /\ pc' = [pc EXCEPT ![e] = "count"]
  /\ UNCHANGED <<seq, lock, boot>>

AppendEvent(e) ==
  /\ pc[e] = "append"
  /\ log' = Newest(Append(log, [boot |-> boot, id |-> 0]), Keep)
  /\ pc' = [pc EXCEPT ![e] = "count"]
  /\ UNCHANGED <<seq, lock, boot>>

CountEvent(e) ==
  /\ pc[e] = "count"
  /\ seq' = seq + 1
  /\ pc' = [pc EXCEPT ![e] = "number"]
  /\ UNCHANGED <<log, lock, boot>>

NumberEvent(e) ==
  /\ pc[e] = "number"
  /\ log' = [log EXCEPT ![Len(log)].id = seq]
  /\ lock' = NoEmitter
  /\ pc' = [pc EXCEPT ![e] = "idle"]
  /\ UNCHANGED <<seq, boot>>

Emit(e) == EnterEmit(e) \/ AppendEvent(e) \/ CountEvent(e) \/ NumberEvent(e)

\* The process ends and a new one starts with an empty log.
Restart ==
  /\ boot' = boot + 1
  /\ log' = <<>> /\ seq' = 0
  /\ lock' = NoEmitter
  /\ pc' = [e \in Emitters |-> "idle"]

\* The first number the log still holds, or the one it will hold first.
FirstKept == IF log = <<>> THEN seq + 1 ELSE log[1].id

\* Regression form of ResetRequired: off by one at the oldest kept event.
ResetRequiredLate(cursor) ==
  \/ cursor > seq
  \/ log # <<>> /\ cursor > 0 /\ cursor < FirstKept - 2

ResetRequired(cursor) ==
  \/ cursor > seq
  \/ log # <<>> /\ cursor > 0 /\ cursor < FirstKept - 1

\* Numbers ascend along the log: the events after a cursor are its tail.
SeenBefore(cursor) == {i \in DOMAIN log : log[i].id <= cursor}
NewerThan(cursor) == SubSeq(log, Cardinality(SeenBefore(cursor)) + 1, Len(log))

Candidates(cursor) == IF ResetRequired(cursor) THEN log ELSE NewerThan(cursor)

\* Regression form of Page: an empty page never moves the cursor.
PageKeepsCursor(cursor, limit) ==
  LET found == Candidates(cursor)
      data  == SubSeq(found, 1, IF Len(found) <= limit THEN Len(found) ELSE limit)
  IN  [data  |-> data,
       reset |-> ResetRequired(cursor),
       more  |-> Len(found) > Len(data),
       next  |-> IF data # <<>> THEN data[Len(data)].id ELSE cursor]

\* Regression form of Page: the newest candidates instead of the oldest.
PageFromEnd(cursor, limit) ==
  LET found == Candidates(cursor)
      data  == Newest(found, limit)
  IN  [data  |-> data,
       reset |-> ResetRequired(cursor),
       more  |-> Len(found) > Len(data),
       next  |-> IF data # <<>> THEN data[Len(data)].id
                 ELSE IF ResetRequired(cursor) THEN seq ELSE cursor]

\* recent_events_page, computed while nobody holds the lock.
Page(cursor, limit) ==
  LET found == Candidates(cursor)
      data  == SubSeq(found, 1, IF Len(found) <= limit THEN Len(found) ELSE limit)
  IN  [data  |-> data,
       reset |-> ResetRequired(cursor),
       more  |-> Len(found) > Len(data),
       next  |-> IF data # <<>> THEN data[Len(data)].id
                 ELSE IF ResetRequired(cursor) THEN seq ELSE cursor]

\* "Keep deque append, sequence increment, and ID assignment in one critical
\* section so cursor order always matches event order" (status_split.py:100-102):
\* whoever finds the lock free finds the last Len(log) numbers, in order and
\* without a gap, on events of this process.
LogNumbered ==
  lock = NoEmitter =>
    \A i \in DOMAIN log : log[i] = [boot |-> boot, id |-> seq - Len(log) + i]

NextLog == Restart \/ \E e \in Emitters : Emit(e)
SpecLog == InitLog /\ [][NextLog]_logVars
=============================================================================
