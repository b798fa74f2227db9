---------------------------- MODULE EventPolling ----------------------------
(***************************************************************************)
(* One status page following the activity log of EventLog with a cursor:    *)
(* GET /v1/events of app/status_split.py and eventsSnapshot / mergeEvents of  *)
(* app/status_split_ui.py.                                                  *)
(*                                                                         *)
(* One request is in flight at a time (eventsPromise); it or its answer may  *)
(* be lost, and the server may restart before, while or after it answers.   *)
(* The answer is applied whenever it arrives.                               *)
(***************************************************************************)
EXTENDS EventLog, SequencesExt

CONSTANTS PageLimit,   \* events asked for in one page
          EventLimit,  \* events shown; the code shows, keeps and asks for as many, 50
          MaxEvents,   \* bound: events of one process
          MaxBoots,    \* bound: processes
          MaxLosses    \* bound: requests that fail

ASSUME PollingAssumption ==
  /\ PageLimit \in Nat \ {0} /\ EventLimit \in Nat /\ EventLimit >= Keep
  /\ MaxEvents \in Nat /\ MaxBoots \in Nat /\ MaxLosses \in Nat

VARIABLES
  cursor,   \* state.eventCursor
  shown,    \* state.events
  request,  \* "none", "sent" or "answered"
  reply,    \* the answer under way, with what the log held when it was made
  origin,   \* history: the process the cursor came from, 0 before any
  losses    \* requests that failed

clientVars == <<cursor, shown, request, reply, origin, losses>>
pollingVars == <<logVars, clientVars>>

NoReply == [data |-> <<>>, reset |-> FALSE, more |-> FALSE, next |-> 0,
            held |-> <<>>, latest |-> 0, boot |-> 0]

EventTypeOK ==
  /\ LogTypeOK
  /\ cursor \in 0 .. MaxEvents /\ origin \in 0 .. boot
  /\ shown \in Seq(Events) /\ Len(shown) <= EventLimit
  /\ request \in {"none", "sent", "answered"}
  /\ DOMAIN reply = DOMAIN NoReply /\ reply.boot \in 0 .. boot
  /\ losses \in 0 .. MaxLosses

EventInit ==
  /\ InitLog
  /\ cursor = 0 /\ shown = <<>> /\ origin = 0 /\ losses = 0
  /\ request = "none" /\ reply = NoReply

EmitStep(e) ==
  /\ pc[e] = "idle" => seq < MaxEvents
  /\ Emit(e)
  /\ UNCHANGED clientVars

\* A request the old process has not answered dies with it; an answer already
\* under way still arrives.
RestartServer ==
  /\ boot < MaxBoots
  /\ Restart
  /\ request' = IF request = "sent" THEN "none" ELSE request
  /\ UNCHANGED <<cursor, shown, reply, origin, losses>>

Poll ==
  /\ request = "none"
  /\ request' = "sent"
  /\ UNCHANGED <<logVars, cursor, shown, reply, origin, losses>>

\* The handler of GET /v1/events; recent_events_page waits for the lock.
Answer ==
  /\ request = "sent" /\ lock = NoEmitter
  /\ request' = "answered"
  /\ reply' = [data |-> Page(cursor, PageLimit).data,
               reset |-> Page(cursor, PageLimit).reset,
               more |-> Page(cursor, PageLimit).more,
               next |-> Page(cursor, PageLimit).next,
               held |-> log, latest |-> seq, boot |-> boot]
  /\ UNCHANGED <<logVars, cursor, shown, origin, losses>>

\* The fetch fails: the page keeps what it has and asks again later.
Fail ==
  /\ request # "none" /\ losses < MaxLosses
  /\ request' = "none" /\ reply' = NoReply /\ losses' = losses + 1
  /\ UNCHANGED <<logVars, cursor, shown, origin>>

\* Map by number, new answers over old entries, sorted by number.
MergeById(old, new) ==
  LET numbers == {old[i].id : i \in DOMAIN old} \cup {new[i].id : i \in DOMAIN new}
      Latest(n) == IF \E i \in DOMAIN new : new[i].id = n
                   THEN new[CHOOSE i \in DOMAIN new : new[i].id = n]
                   ELSE old[CHOOSE i \in DOMAIN old : old[i].id = n]
      Ranked(i) == CHOOSE n \in numbers : Cardinality({m \in numbers : m < n}) = i - 1
  IN  [i \in 1 .. Cardinality(numbers) |-> Latest(Ranked(i))]

\* Regression form of Merge: reset_required is ignored.
MergeIgnoringReset ==
  /\ request = "answered"
  /\ shown' = Newest(MergeById(shown, reply.data), EventLimit)
  /\ cursor' = reply.next
  /\ origin' = reply.boot
  /\ request' = "none" /\ reply' = NoReply
  /\ UNCHANGED <<logVars, losses>>

\* Regression form of Merge: the page replaces what is shown.
MergeShowsOnlyPage ==
  /\ request = "answered"
  /\ shown' = Newest(reply.data, EventLimit)
  /\ cursor' = reply.next
  /\ origin' = reply.boot
  /\ request' = "none" /\ reply' = NoReply
  /\ UNCHANGED <<logVars, losses>>

Merge ==
  /\ request = "answered"
  /\ shown' = Newest(MergeById(IF reply.reset THEN <<>> ELSE shown, reply.data), EventLimit)
  /\ cursor' = reply.next
  /\ origin' = reply.boot
  /\ request' = "none" /\ reply' = NoReply
  /\ UNCHANGED <<logVars, losses>>

EventNext == Poll \/ Answer \/ Fail \/ Merge \/ RestartServer \/ \E e \in Emitters : EmitStep(e)

\* An emitter inside its critical section goes on; the page keeps polling, the
\* server answers and the answer arrives.
EventFairness ==
  /\ WF_pollingVars(Poll) /\ WF_pollingVars(Answer) /\ WF_pollingVars(Merge)
  /\ \A e \in Emitters : WF_pollingVars(pc[e] # "idle" /\ EmitStep(e))

EventSpec == EventInit /\ [][EventNext]_pollingVars
EventFairSpec == EventSpec /\ EventFairness

\* Every answer to a cursor of the same process carries the events after the
\* cursor, from the first one on, unless it tells the page to start over
\* (status_split.py:136-145).
NoEventSkipped ==
  request = "answered" /\ origin = reply.boot /\ ~reply.reset /\ cursor > 0 =>
    IF reply.data = <<>> THEN cursor = reply.latest
    ELSE \A i \in DOMAIN reply.data : reply.data[i].id = cursor + i

\* What the page shows of one process has no hole: merging, trimming and starting
\* over never leave out an event between two shown ones (mergeEvents).
NoHoleShown ==
  \A i \in 1 .. Len(shown) - 1 :
    shown[i].boot = shown[i + 1].boot => shown[i + 1].id = shown[i].id + 1

\* An answer with nothing more to fetch, merged by a page that shows no other
\* process, leaves the page with everything the server held when it answered.
CaughtUpShowsWindow ==
  [][Merge /\ ~reply.more /\ (\A i \in DOMAIN shown : shown[i].boot = reply.boot)
     => IsSuffix(reply.held, shown')]_pollingVars

\* When events and restarts cease, the page catches up with the log, restarts and
\* overruns included: no cursor is stuck.
CatchesUp == []<>(cursor = seq /\ (seq > 0 => shown # <<>> /\ Last(shown).id = seq))

\* docs/status-polling.md:100-102: "When a cursor predates the oldest retained event,
\* or belongs to a previous server process, reset_required is true".
ForeignCursorResets ==
  request = "answered" /\ cursor > 0 /\ origin # reply.boot => reply.reset

\* Numbering, the cursor of an answer and the merge leave no gap together.
EventsSafe == LogNumbered /\ NoEventSkipped /\ NoHoleShown

\* The page shows what the server held, and catches up again after every disturbance.
PageFollowsLog == CaughtUpShowsWindow /\ CatchesUp
=============================================================================
