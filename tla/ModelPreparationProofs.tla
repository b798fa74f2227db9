------------------------ MODULE ModelPreparationProofs ------------------------
(***************************************************************************)
(* Proofs about the preparation of a model, for any number of operations.  *)
(*                                                                         *)
(* Types and the converter's lock hold whatever clients do.  The rest is    *)
(* about clients that post a conversion only where can_convert offers it    *)
(* (~Overlapping).  Its invariant says that a task at work is the entry of  *)
(* its table, that the load table and the conversion table are never both   *)
(* live, and that the operation on the screen is the live one: that is what *)
(* lets a cancellation, a deletion, the watchdog or shutdown, which look    *)
(* the task up in the tables, find the work they mean.                      *)
(*                                                                         *)
(* The steps are proved in two stages.  Every step either Moves tasks along *)
(* or Begins one (lemmas TaskMoves to ShutdownMoves); whatever moves or     *)
(* begins keeps the invariant (MovesKeeps, BeginsKeeps).                    *)
(***************************************************************************)
EXTENDS ModelPreparation, TLAPS

\* What a load or a conversion does while its table holds it.  A conversion's own
\* task is forgotten with the converter, before its metadata is on disk ("tail").
WorkOf(t) == {"queued", "access", "convlock", "converting", "stopping"}
             \cup (IF IsLoad(t) THEN Loading \cup {"tail"} ELSE {})
AtWork(t) == task[t].pc \in WorkOf(t)

\* _convert_lock is held exactly while a converter runs or is being stopped.
LockHeld ==
  /\ \A t \in Tasks : task[t].pc \in {"converting", "stopping"} <=> lock = t
  /\ \A t \in Tasks : task[t].proc => task[t].pc \in {"converting", "stopping"}

\* Tables hold tasks of their kind, and none that was never started.
Kinds ==
  /\ \A t \in Tasks : task[t].pc \in Loading => IsLoad(t)
  /\ loadTask # None => task[loadTask].pc # "idle" /\ IsLoad(loadTask)
  /\ convTask # None => task[convTask].pc # "idle" /\ ~IsLoad(convTask)

\* A task at work is the one its table holds.
Registered == \A t \in Tasks : AtWork(t) => t = IF IsLoad(t) THEN loadTask ELSE convTask

\* A model is loaded, prepared by a load, or converted: never two of these.
Alone ==
  /\ ~Live(loadTask) \/ ~Live(convTask)
  /\ loaded => ~ActiveOperation

\* Ids are fresh, and the operation shown is the live one.
Named ==
  /\ ui.id <= ui.ids
  /\ \A t \in Tasks : task[t].born <= ui.ids
  /\ Live(loadTask) => task[loadTask].born = ui.id /\ ui.id # 0
  /\ Live(convTask) => task[convTask].born = ui.id /\ ui.id # 0
  /\ \A s, t \in Tasks : task[s].pc # "idle" /\ task[t].pc # "idle" /\ s # t => task[s].born # task[t].born

\* cancel_operation waits for the task it named.
Cancelling == cancel.t # None => task[cancel.t].pc # "idle" /\ task[cancel.t].born = cancel.id

\* A timeout is shown as an error, for as long as the task it stopped is live.
TimedOut ==
  /\ ui.timedOut # None /\ down.pc # "off" => ui.status = "error" /\ ui.phase = "error"
  /\ \A t \in {loadTask, convTask} : Live(t) /\ "watchdog" \in task[t].stop => ui.timedOut # None

\* Nothing works under a cancelled operation.
CancelledIsOver == ui.phase = "cancelled" => ~ActiveOperation

\* shutdown() has stopped what it awaited, and nothing has taken its place.
GoingDown ==
  /\ down.pc = "loads" /\ Live(loadTask) => loadTask = down.t
  /\ down.pc \in {"converts", "drain", "off"} => ~Live(loadTask)
  /\ down.pc = "converts" /\ Live(convTask) => convTask = down.t
  /\ down.pc \in {"drain", "off"} => ~Live(convTask)
  /\ down.pc = "off" => ~loaded

PrepIInv ==
  /\ PrepTypeOK /\ LockHeld /\ Kinds /\ Registered /\ Alone /\ Named
  /\ Cancelling /\ TimedOut /\ CancelledIsOver /\ GoingDown

-----------------------------------------------------------------------------
(* What is published.                                                       *)

Statuses == {"none", "cancelled", "error"} \cup Busy
Phases == {"idle", "queued", "loading"} \cup ConversionPhases \cup Terminal
UiStates == [status : Statuses, phase : Phases, id : Nat, ids : Nat,
             beat : {"none", "load", "convert"}, timedOut : 0..MaxTasks]
TaskStates == [kind : {"none", "load", "convert"},
               pc : {"idle", "queued"} \cup Converting \cup Loading \cup Over,
               fmt : BOOLEAN, born : Nat, proc : BOOLEAN, line : BOOLEAN,
               stop : SUBSET {"request", "watchdog"}, cancelled : BOOLEAN]

\* What the three writers of the screen return.
LEMMA SetStatusFacts ==
  ASSUME NEW u \in UiStates, NEW s \in Statuses
  PROVE  LET v == SetStatus(u, s)
         IN /\ v \in UiStates
            /\ v.phase = u.phase /\ v.id = u.id /\ v.ids = u.ids /\ v.timedOut = u.timedOut
            /\ u.timedOut # None => v = u
            /\ u.timedOut = None => v.status = s
BY DEF SetStatus, UiStates, Statuses, Phases

\* SetPhase is refused while a timeout is shown, unless nothing runs any more.
Refused(u, p) == u.timedOut # None /\ (p # "ready" \/ ActiveOperation)

LEMMA SetPhaseFacts ==
  ASSUME NEW u \in UiStates, NEW p \in Phases
  PROVE  LET v == SetPhase(u, p)
         IN /\ v \in UiStates
            /\ v.status = u.status
            /\ Refused(u, p) => v = u
            /\ ~Refused(u, p) =>
                 /\ v.phase = p /\ v.timedOut = None
                 /\ v.id = (IF u.id = 0 THEN u.ids + 1 ELSE u.id)
                 /\ v.ids = (IF u.id = 0 THEN u.ids + 1 ELSE u.ids)
<1> DEFINE v == SetPhase(u, p)
<1>1. CASE Refused(u, p)
  BY <1>1 DEF SetPhase, Refused
<1>2. CASE ~Refused(u, p)
  <2> DEFINE b == CASE p \in ConversionPhases -> "convert"
                    [] p \in {"queued", "loading"} -> "load"
                    [] u.timedOut # None -> "none"
                    [] OTHER -> u.beat
  <2>1. b \in {"none", "load", "convert"}
    BY DEF UiStates
  <2>2. v = [u EXCEPT !.phase = p, !.timedOut = None,
                      !.id = IF u.id = 0 THEN u.ids + 1 ELSE u.id,
                      !.ids = IF u.id = 0 THEN u.ids + 1 ELSE u.ids, !.beat = b]
    BY <1>2 DEF SetPhase, Refused, UiStates
  <2>3. /\ v.phase = p /\ v.timedOut = None /\ v.status = u.status
        /\ v.id = (IF u.id = 0 THEN u.ids + 1 ELSE u.id)
        /\ v.ids = (IF u.id = 0 THEN u.ids + 1 ELSE u.ids)
    BY <2>2 DEF UiStates
  <2>4. u.ids + 1 \in Nat /\ 0 \in 0..MaxTasks
    BY PreparationAssumption DEF UiStates
  <2>5. v \in UiStates
    BY <2>1, <2>2, <2>4 DEF UiStates, None
  <2>6. QED
    BY <1>2, <2>3, <2>5
<1>3. QED
  BY <1>1, <1>2

LEMMA PublishFacts ==
  ASSUME NEW u \in UiStates, NEW s \in Statuses, NEW p \in Phases
  PROVE  LET v == Publish(u, s, p)
         IN /\ v \in UiStates
            /\ Refused(u, p) => v = u
            /\ ~Refused(u, p) =>
                 /\ v.phase = p /\ v.timedOut = None
                 /\ v.id = (IF u.id = 0 THEN u.ids + 1 ELSE u.id)
                 /\ v.ids = (IF u.id = 0 THEN u.ids + 1 ELSE u.ids)
<1>1. SetStatus(u, s) \in UiStates
  BY SetStatusFacts
<1>2. Refused(SetStatus(u, s), p) <=> Refused(u, p)
  BY SetStatusFacts DEF Refused
<1>3. QED
  BY <1>1, <1>2, SetStatusFacts, SetPhaseFacts DEF Publish, Refused

\* The end of a conversion or a build that went well.
LEMMA ReadyFacts ==
  ASSUME NEW u \in UiStates
  PROVE  LET v == SetStatus(SetPhase(u, "ready"), "none")
         IN /\ v \in UiStates
            /\ Refused(u, "ready") => v = u
            /\ ~Refused(u, "ready") =>
                 /\ v.phase = "ready" /\ v.timedOut = None
                 /\ v.id = (IF u.id = 0 THEN u.ids + 1 ELSE u.id)
                 /\ v.ids = (IF u.id = 0 THEN u.ids + 1 ELSE u.ids)
<1>1. "ready" \in Phases /\ "none" \in Statuses
  BY DEF Phases, Terminal, Statuses
<1>2. SetPhase(u, "ready") \in UiStates
  BY <1>1, SetPhaseFacts
<1>3. QED
  BY <1>1, <1>2, SetStatusFacts, SetPhaseFacts DEF Refused

LEMMA ClearFacts ==
  ASSUME NEW u \in UiStates
  PROVE  LET v == ClearProgress(u)
         IN /\ v \in UiStates
            /\ u.timedOut # None /\ ActiveOperation => v = u
            /\ ~(u.timedOut # None /\ ActiveOperation) =>
                 v.phase = "idle" /\ v.id = 0 /\ v.timedOut = None /\ v.ids = u.ids
<1>1. 0 \in 0..MaxTasks /\ "idle" \in Phases
  BY PreparationAssumption DEF Phases
<1>2. QED
  BY <1>1 DEF ClearProgress, UiStates, None

-----------------------------------------------------------------------------
(* What a step may do to the tasks, the tables and the screen: Moves when   *)
(* no task is created, Begins when task n of kind k is.                     *)

\* Task s goes on: it keeps its name, takes up no new work and does not revive.
Later(s) ==
  /\ task'[s].kind = task[s].kind /\ task'[s].born = task[s].born
  /\ task'[s].pc = "idle" <=> task[s].pc = "idle"
  /\ AtWork(s)' => AtWork(s)
  /\ task[s].pc \in {"finished", "done"} => task'[s].pc \in {"finished", "done"}
  /\ task'[s].pc \in Loading => IsLoad(s)
  /\ "watchdog" \in task'[s].stop => "watchdog" \in task[s].stop \/ ui'.timedOut # None

\* The screen: ids only grow, a shown timeout or cancellation is not painted over.
Told ==
  /\ ui'.ids >= ui.ids /\ ui'.id <= ui'.ids
  /\ ActiveOperation => ui'.id = ui.id
  /\ ActiveOperation /\ ui.timedOut # None => ui' = ui
  /\ ui'.timedOut # None =>
       ui' = ui \/ (ui.timedOut = None /\ ui'.status = "error" /\ ui'.phase = "error")
  /\ ui'.phase = "cancelled" => ui.phase = "cancelled" \/ ~ActiveOperation'
  /\ ui.phase = "cancelled" /\ ui.id # 0 /\ ui'.id = ui.id => ui'.phase \in Terminal

\* Tables only lose entries, and none whose task is at work.
Tables ==
  /\ loadTask' \in {loadTask, None} /\ convTask' \in {convTask, None}
  /\ loadTask' # loadTask => \A s \in Tasks : IsLoad(s) => ~AtWork(s)'
  /\ convTask' # convTask => \A s \in Tasks : ~IsLoad(s) => ~AtWork(s)'
  /\ loaded' => loaded \/ (Live(loadTask) /\ ~ActiveOperation')
  /\ complete /\ ~complete' => ~ActiveOperation

Moves == (\A s \in Tasks : Later(s)) /\ Told /\ Tables

Begins(n, k) ==
  /\ ~ActiveOperation /\ ~loaded /\ ~loaded' /\ down.pc = "up" /\ complete' = complete
  /\ task[n].pc = "idle" /\ \A s \in Tasks \ {n} : Later(s)
  /\ task'[n].kind = k /\ task'[n].pc = "queued" /\ task'[n].stop = {} /\ task'[n].born = ui'.id
  /\ ui'.id = ui.ids + 1 /\ ui'.ids = ui.ids + 1 /\ ui'.timedOut = None /\ ui'.phase = "queued"
  /\ IF k = "load" THEN loadTask' = n /\ convTask' = convTask
                   ELSE k = "convert" /\ convTask' = n /\ loadTask' = loadTask

-----------------------------------------------------------------------------

\* A task at work is active, and alone.
LEMMA WorkIsActive ==
  ASSUME PrepIInv, NEW t \in Tasks, AtWork(t)
  PROVE  /\ ActiveOperation
         /\ Live(IF IsLoad(t) THEN loadTask ELSE convTask)
         /\ \A s \in Tasks : AtWork(s) => s = t
<1>1. \A s \in Tasks : AtWork(s) => s # None /\ Live(s) /\ s = IF IsLoad(s) THEN loadTask ELSE convTask
  BY PreparationAssumption DEF PrepIInv, Registered, Live, AtWork, WorkOf, Loading, Tasks, None
<1>2. QED
  BY <1>1 DEF PrepIInv, Alone, ActiveOperation

LEMMA OnlyOneWorks ==
  ASSUME PrepIInv, NEW t \in Tasks, AtWork(t), \A s \in Tasks : Later(s)
  PROVE  \A s \in Tasks : s # t => ~AtWork(s)'
BY WorkIsActive DEF Later

\* A table entry that is empty or over stays so.
LEMMA OverStaysOver ==
  ASSUME PrepIInv, \A s \in Tasks : Later(s),
         loadTask' \in {loadTask, None}, convTask' \in {convTask, None}
  PROVE  /\ ~Live(loadTask) => ~Live(loadTask)'
         /\ ~Live(convTask) => ~Live(convTask)'
<1>1. loadTask \in Tasks \cup {None} /\ convTask \in Tasks \cup {None}
  BY PreparationAssumption DEF PrepIInv, PrepTypeOK, Tasks, None
<1>2. QED
  BY <1>1 DEF Live, Later

LEMMA UnchangedTold ==
  ASSUME PrepIInv, ui' = ui
  PROVE  Told
<1>1. ui.id \in Nat /\ ui.ids \in Nat /\ ui.id <= ui.ids
  BY DEF PrepIInv, PrepTypeOK, Named
<1>2. QED
  BY <1>1 DEF Told, Terminal

LEMMA PhaseTold ==
  ASSUME PrepIInv, NEW p \in Phases \ {"cancelled"}, ui' = SetPhase(ui, p), p \in Terminal \/ ActiveOperation
  PROVE  Told
<1>1. ui \in UiStates
  BY DEF PrepIInv, PrepTypeOK, UiStates, Statuses, Phases
<1>2. QED
  BY <1>1, SetPhaseFacts, UnchangedTold
  DEF Told, PrepIInv, Named, CancelledIsOver, Refused, UiStates, Terminal, ActiveOperation

LEMMA PublishTold ==
  ASSUME PrepIInv, NEW s \in Statuses, NEW p \in Phases \ {"cancelled"}, ui' = Publish(ui, s, p),
         p \in Terminal \/ ActiveOperation
  PROVE  Told
<1>1. ui \in UiStates
  BY DEF PrepIInv, PrepTypeOK, UiStates, Statuses, Phases
<1>2. QED
  BY <1>1, PublishFacts, UnchangedTold
  DEF Told, PrepIInv, Named, CancelledIsOver, Refused, UiStates, Terminal, ActiveOperation

LEMMA ReadyTold ==
  ASSUME PrepIInv, ui' = SetStatus(SetPhase(ui, "ready"), "none")
  PROVE  Told
<1>1. ui \in UiStates
  BY DEF PrepIInv, PrepTypeOK, UiStates, Statuses, Phases
<1>2. QED
  BY <1>1, ReadyFacts, UnchangedTold
  DEF Told, PrepIInv, Named, CancelledIsOver, Refused, UiStates, Terminal, ActiveOperation

\* Nothing is at work, and the progress is discarded.
LEMMA ClearTold ==
  ASSUME PrepIInv, ~ActiveOperation, NEW u \in UiStates, u.ids = ui.ids, ui' = ClearProgress(u)
  PROVE  Told
BY ClearFacts DEF Told, UiStates

\* The end of an inner conversion leaves other tasks alone, and gives its own no new work.
LEMMA AfterConversionLater ==
  ASSUME task \in [Tasks -> TaskStates], Kinds, NEW t \in Tasks, NEW c \in BOOLEAN,
         AfterConversion(t, c), task[t].pc \in Converting
  PROVE  \A s \in Tasks : Later(s)
<1>1. ASSUME NEW s \in Tasks, s # t PROVE Later(s)
  <2>1. task'[s] = task[s]
    BY <1>1 DEF AfterConversion, TaskStates
  <2>2. task[s].pc \in Loading => IsLoad(s)
    BY DEF Kinds
  <2>3. QED
    BY <2>1, <2>2 DEF Later, AtWork, WorkOf, IsLoad
<1>2. Later(t)
  <2>1. /\ task'[t].kind = task[t].kind /\ task'[t].born = task[t].born
        /\ task'[t].pc = IF IsLoad(t) /\ ~c THEN "converted" ELSE "settling"
        /\ task'[t].stop = IF c THEN task[t].stop ELSE task[t].stop \ {"watchdog"}
    BY DEF AfterConversion, TaskStates
  <2>2. AtWork(t)' => AtWork(t)
    BY <2>1 DEF AtWork, WorkOf, IsLoad, Loading, Converting
  <2>3. task'[t].pc \in Loading => IsLoad(t)
    BY <2>1 DEF Loading
  <2>4. QED
    BY <2>1, <2>2, <2>3 DEF Later, Converting
<1>3. QED
  BY <1>1, <1>2

\* A step of a task moves the task along, or out of its table.
LEMMA TaskMoves ==
  ASSUME PrepIInv, NEW t \in Tasks
  PROVE  /\ TaskStep(t) => Moves \/ RunCallbacks(t)
         /\ ConverterEnds(t) \/ ReadLine(t) \/ LoadQueued(t) \/ WatchdogFires(t) => Moves
<1>0. task \in [Tasks -> TaskStates] /\ ui \in UiStates /\ t # None
  BY PreparationAssumption DEF PrepIInv, PrepTypeOK, TaskStates, UiStates, Statuses, Phases, Tasks, None
<1>1. ASSUME Start(t) PROVE Moves
  <2>1. \A s \in Tasks : Later(s)
    BY <1>0, <1>1 DEF Start, Later, AtWork, WorkOf, IsLoad, Loading, Converting, TaskStates,
         PrepIInv, Kinds
  <2>2. Told
    <3>1. ActiveOperation
      BY <1>1, WorkIsActive DEF Start, AtWork, WorkOf
    <3>2. QED
      BY <1>1, <3>1, UnchangedTold, PublishTold DEF Start, Statuses, Phases, Busy, Terminal
  <2>3. Tables
    <3>1. CASE AtWork(t)
      <4>1. \A s \in Tasks : s # t => ~AtWork(s)'
        BY <2>1, <3>1, OnlyOneWorks
      <4>2. /\ loadTask' \in {loadTask, None} /\ (loadTask' # loadTask => ~AtWork(t)')
            /\ convTask' \in {convTask, None} /\ (convTask' # convTask => IsLoad(t) \/ ~AtWork(t)')
        BY <1>0, <1>1, <3>1 DEF Start, registered, AtWork, WorkOf, IsLoad, Loading, TaskStates,
             PrepIInv, Kinds
      <4>3. loaded' = loaded /\ (complete => complete')
        BY <1>1 DEF Start, engine
      <4>4. QED
        BY <4>1, <4>2, <4>3 DEF Tables, IsLoad
    <3>2. CASE ~AtWork(t)
      BY <1>0, <1>1, <3>2 DEF Start, registered, engine, Tables, AtWork, WorkOf, Loading, PrepIInv,
           Kinds
    <3>3. QED
      BY <3>1, <3>2
  <2>4. QED
    BY <2>1, <2>2, <2>3 DEF Moves
<1>2. ASSUME AccessGranted(t) PROVE Moves
  <2>1. \A s \in Tasks : Later(s)
    BY <1>0, <1>2 DEF AccessGranted, Later, AtWork, WorkOf, IsLoad, Loading, Converting,
         TaskStates, PrepIInv, Kinds
  <2>2. Told
    BY <1>2, UnchangedTold DEF AccessGranted
  <2>3. Tables
    BY <1>0, <1>2, <2>1, WorkIsActive DEF AccessGranted, Tables, registered, engine, Later, IsLoad
  <2>4. QED
    BY <2>1, <2>2, <2>3 DEF Moves
<1>3. ASSUME AccessDenied(t) PROVE Moves
  <2>1. \A s \in Tasks : Later(s)
    BY <1>0, <1>3, AfterConversionLater DEF AccessDenied, Converting, PrepIInv
  <2>2. Told
    BY <1>3, PublishTold DEF AccessDenied, Statuses, Phases, Busy, ConversionPhases, Terminal
  <2>3. Tables
    <3>1. CASE AtWork(t)
      <4>1. \A s \in Tasks : s # t => ~AtWork(s)'
        BY <2>1, <3>1, OnlyOneWorks
      <4>2. /\ loadTask' \in {loadTask, None} /\ (loadTask' # loadTask => ~AtWork(t)')
            /\ convTask' \in {convTask, None} /\ (convTask' # convTask => IsLoad(t) \/ ~AtWork(t)')
        BY <1>0, <1>3, <3>1 DEF AccessDenied, AfterConversion, registered, AtWork, WorkOf, IsLoad,
             Loading, TaskStates, PrepIInv, Kinds
      <4>3. loaded' = loaded /\ (complete => complete')
        BY <1>3 DEF AccessDenied, engine
      <4>4. QED
        BY <4>1, <4>2, <4>3 DEF Tables, IsLoad
    <3>2. CASE ~AtWork(t)
      BY <1>0, <1>3, <3>2 DEF AccessDenied, AfterConversion, registered, engine, Tables, AtWork,
           WorkOf, Loading, PrepIInv, Kinds
    <3>3. QED
      BY <3>1, <3>2
  <2>4. QED
    BY <2>1, <2>2, <2>3 DEF Moves
<1>4. ASSUME BeginConversion(t) PROVE Moves
  <2>1. \A s \in Tasks : Later(s)
    BY <1>0, <1>4 DEF BeginConversion, ForgetConversion, Later, AtWork, WorkOf, IsLoad, Loading,
         Converting, TaskStates, PrepIInv, Kinds
  <2>2. Told
    <3>1. ActiveOperation
      BY <1>4, WorkIsActive DEF BeginConversion, AtWork, WorkOf
    <3>2. QED
      BY <1>4, <3>1, ReadyTold, PublishTold DEF BeginConversion, Statuses, Phases, Busy,
           ConversionPhases, Terminal
  <2>3. Tables
    <3>1. CASE AtWork(t)
      <4>1. \A s \in Tasks : s # t => ~AtWork(s)'
        BY <2>1, <3>1, OnlyOneWorks
      <4>2. /\ loadTask' \in {loadTask, None} /\ (loadTask' # loadTask => ~AtWork(t)')
            /\ convTask' \in {convTask, None} /\ (convTask' # convTask => IsLoad(t) \/ ~AtWork(t)')
        BY <1>0, <1>4, <3>1 DEF BeginConversion, ForgetConversion, registered, AtWork, WorkOf,
             IsLoad, Loading, TaskStates, PrepIInv, Kinds
      <4>3. loaded' = loaded /\ (complete => complete')
        BY <1>4 DEF BeginConversion, engine
      <4>4. QED
        BY <4>1, <4>2, <4>3 DEF Tables, IsLoad
    <3>2. CASE ~AtWork(t)
      BY <1>0, <1>4, <3>2 DEF BeginConversion, ForgetConversion, registered, engine, Tables,
           AtWork, WorkOf, Loading, PrepIInv, Kinds
    <3>3. QED
      BY <3>1, <3>2
  <2>4. QED
    BY <2>1, <2>2, <2>3 DEF Moves
<1>5. ASSUME RecordProfile(t) PROVE Moves
  <2>1. \A s \in Tasks : Later(s)
    BY <1>0, <1>5, AfterConversionLater DEF RecordProfile, Converting, PrepIInv
  <2>2. Told
    BY <1>5, UnchangedTold, PublishTold DEF RecordProfile, Statuses, Phases, Terminal
  <2>3. Tables
    BY <1>0, <1>5, <2>1, WorkIsActive DEF RecordProfile, AfterConversion, Tables, registered,
         engine, Later, IsLoad
  <2>4. QED
    BY <2>1, <2>2, <2>3 DEF Moves
<1>6. ASSUME LoadTurn(t) PROVE Moves
  <2>1. \A s \in Tasks : Later(s)
    BY <1>0, <1>6 DEF LoadTurn, Later, AtWork, WorkOf, IsLoad, Loading, Converting, TaskStates,
         PrepIInv, Kinds
  <2>2. Told
    <3>1. ActiveOperation
      BY <1>6, WorkIsActive DEF LoadTurn, AtWork, WorkOf, Loading, PrepIInv, Kinds
    <3>2. QED
      BY <1>6, <3>1, PublishTold DEF LoadTurn, Statuses, Phases, Busy, ConversionPhases, Terminal
  <2>3. Tables
    BY <1>0, <1>6, <2>1, WorkIsActive DEF LoadTurn, Tables, registered, engine, Later, IsLoad
  <2>4. QED
    BY <2>1, <2>2, <2>3 DEF Moves
<1>7. ASSUME LoadConverted(t) PROVE Moves
  <2>1. \A s \in Tasks : Later(s)
    BY <1>0, <1>7 DEF LoadConverted, Later, AtWork, WorkOf, IsLoad, Loading, Converting,
         TaskStates, PrepIInv, Kinds
  <2>2. Told
    <3>1. ActiveOperation
      BY <1>7, WorkIsActive DEF LoadConverted, AtWork, WorkOf, Loading, PrepIInv, Kinds
    <3>2. QED
      BY <1>7, <3>1, PublishTold DEF LoadConverted, Statuses, Phases, Busy, ConversionPhases, Terminal
  <2>3. Tables
    <3>1. CASE AtWork(t)
      <4>1. \A s \in Tasks : s # t => ~AtWork(s)'
        BY <2>1, <3>1, OnlyOneWorks
      <4>2. /\ loadTask' \in {loadTask, None} /\ (loadTask' # loadTask => ~AtWork(t)')
            /\ convTask' \in {convTask, None} /\ (convTask' # convTask => IsLoad(t) \/ ~AtWork(t)')
        BY <1>0, <1>7, <3>1 DEF LoadConverted, registered, AtWork, WorkOf, IsLoad, Loading,
             TaskStates, PrepIInv, Kinds
      <4>3. loaded' = loaded /\ (complete => complete')
        BY <1>7 DEF LoadConverted, engine
      <4>4. QED
        BY <4>1, <4>2, <4>3 DEF Tables, IsLoad
    <3>2. CASE ~AtWork(t)
      BY <1>0, <1>7, <3>2 DEF LoadConverted, registered, engine, Tables, AtWork, WorkOf, Loading,
           PrepIInv, Kinds
    <3>3. QED
      BY <3>1, <3>2
  <2>4. QED
    BY <2>1, <2>2, <2>3 DEF Moves
<1>8. ASSUME BuildEnds(t) PROVE Moves
  <2>1. \A s \in Tasks : Later(s)
    BY <1>0, <1>8 DEF BuildEnds, Later, AtWork, WorkOf, IsLoad, Loading, Converting, TaskStates,
         PrepIInv, Kinds
  <2>2. Told
    BY <1>8, ReadyTold, PublishTold DEF BuildEnds, Statuses, Phases, Terminal
  <2>3. Tables
    <3>1. AtWork(t) /\ IsLoad(t)
      BY <1>8 DEF BuildEnds, AtWork, WorkOf, Loading, PrepIInv, Kinds
    <3>2. Live(loadTask) /\ ~Live(convTask)
      BY <3>1, WorkIsActive DEF PrepIInv, Alone
    <3>3. \A s \in Tasks : s # t => ~AtWork(s)'
      BY <2>1, <3>1, OnlyOneWorks
    <3>4. ~AtWork(t)' /\ loadTask' = None /\ convTask' = convTask /\ complete' = complete
      BY <1>0, <1>8 DEF BuildEnds, AtWork, WorkOf, Loading, TaskStates
    <3>5. ~ActiveOperation'
      BY <2>1, <3>2, <3>4, OverStaysOver DEF ActiveOperation, Live
    <3>6. QED
      BY <3>1, <3>2, <3>3, <3>4, <3>5 DEF Tables
  <2>4. QED
    BY <2>1, <2>2, <2>3 DEF Moves
<1>9. ASSUME StopQuietly(t) PROVE Moves
  <2>1. \A s \in Tasks : Later(s)
    <3>1. CASE task[t].pc \in {"queued", "loadlock"}
      BY <1>0, <1>9, <3>1 DEF StopQuietly, Later, AtWork, WorkOf, IsLoad, Loading, Converting,
           TaskStates, PrepIInv, Kinds
    <3>2. CASE task[t].pc \in {"access", "tail"}
      <4>1. Reraised(t) \in BOOLEAN /\ AfterConversion(t, Reraised(t)) /\ task[t].pc \in Converting
        BY <1>9, <3>2 DEF StopQuietly, Reraised, Converting
      <4>2. QED
        BY <1>0, <4>1, AfterConversionLater DEF PrepIInv
    <3>3. QED
      BY <1>9, <3>1, <3>2 DEF StopQuietly
  <2>2. Told
    BY <1>9, UnchangedTold DEF StopQuietly
  <2>3. Tables
    <3>1. CASE AtWork(t)
      <4>1. \A s \in Tasks : s # t => ~AtWork(s)'
        BY <2>1, <3>1, OnlyOneWorks
      <4>2. /\ loadTask' \in {loadTask, None} /\ (loadTask' # loadTask => ~AtWork(t)')
            /\ convTask' \in {convTask, None} /\ (convTask' # convTask => IsLoad(t) \/ ~AtWork(t)')
        BY <1>0, <1>9, <3>1 DEF StopQuietly, AfterConversion, Reraised, registered, AtWork, WorkOf,
             IsLoad, Loading, TaskStates, PrepIInv, Kinds
      <4>3. loaded' = loaded /\ (complete => complete')
        BY <1>9 DEF StopQuietly, engine
      <4>4. QED
        BY <4>1, <4>2, <4>3 DEF Tables, IsLoad
    <3>2. CASE ~AtWork(t)
      BY <1>0, <1>9, <3>2 DEF StopQuietly, AfterConversion, Reraised, registered, engine, Tables,
           AtWork, WorkOf, Loading, PrepIInv, Kinds
    <3>3. QED
      BY <3>1, <3>2
  <2>4. QED
    BY <2>1, <2>2, <2>3 DEF Moves
<1>10. ASSUME KillConverter(t) PROVE Moves
  <2>1. \A s \in Tasks : Later(s)
    BY <1>0, <1>10 DEF KillConverter, Later, AtWork, WorkOf, IsLoad, Loading, Converting,
         TaskStates, PrepIInv, Kinds
  <2>2. Told
    BY <1>10, UnchangedTold DEF KillConverter
  <2>3. Tables
    <3>1. UNCHANGED <<loadTask, convTask, loaded, complete>>
      BY <1>10 DEF KillConverter, registered, engine
    <3>2. QED
      BY ONLY <1>0, <3>1 DEF Tables, PrepIInv, PrepTypeOK
  <2>4. QED
    BY <2>1, <2>2, <2>3 DEF Moves
<1>11. ASSUME StopConversion(t) PROVE Moves
  <2>1. \A s \in Tasks : Later(s)
    <3>1. Reraised(t) \in BOOLEAN /\ AfterConversion(t, Reraised(t)) /\ task[t].pc \in Converting
      BY <1>11 DEF StopConversion, Reraised, Converting
    <3>2. QED
      BY <1>0, <3>1, AfterConversionLater DEF PrepIInv
  <2>2. Told
    <3>1. AtWork(t)
      BY <1>11 DEF StopConversion, AtWork, WorkOf
    <3>2. ActiveOperation /\ t = (IF IsLoad(t) THEN loadTask ELSE convTask) /\ Live(t)
      BY <3>1, WorkIsActive DEF PrepIInv, Registered
    <3>3. CASE Reraised(t)
      <4>1. (IF IsLoad(t) THEN loadTask' ELSE convTask') = None
        BY <1>11, <3>3 DEF StopConversion, ForgetConversion
      <4>2. ~ActiveOperation'
        BY <1>11, <2>1, <3>2, <4>1, OverStaysOver
        DEF StopConversion, ForgetConversion, ActiveOperation, Live, PrepIInv, Alone
      <4>3. QED
        BY <1>0, <1>11, <3>2, <4>2, PublishFacts, UnchangedTold
        DEF StopConversion, Told, Refused, Statuses, Phases, Terminal, UiStates, PrepIInv, Named
    <3>4. CASE ~Reraised(t)
      <4>1. "watchdog" \in task[t].stop
        BY <1>0, <1>11, <3>4 DEF StopConversion, Stopped, Reraised, TaskStates
      <4>2. ui.timedOut # None
        BY <3>2, <4>1 DEF PrepIInv, TimedOut
      <4>3. ui' = ui
        BY <1>0, <1>11, <3>2, <4>2, PublishFacts DEF StopConversion, Refused, Statuses, Phases, Terminal
      <4>4. QED
        BY <4>3, UnchangedTold
    <3>5. QED
      BY <3>3, <3>4
  <2>3. Tables
    <3>1. CASE AtWork(t)
      <4>1. \A s \in Tasks : s # t => ~AtWork(s)'
        BY <2>1, <3>1, OnlyOneWorks
      <4>2. /\ loadTask' \in {loadTask, None} /\ (loadTask' # loadTask => ~AtWork(t)')
            /\ convTask' \in {convTask, None} /\ (convTask' # convTask => IsLoad(t) \/ ~AtWork(t)')
        BY <1>0, <1>11, <3>1 DEF StopConversion, AfterConversion, ForgetConversion, Reraised,
             registered, AtWork, WorkOf, IsLoad, Loading, TaskStates, PrepIInv, Kinds
      <4>3. loaded' = loaded /\ (complete => complete')
        BY <1>11 DEF StopConversion, engine
      <4>4. QED
        BY <4>1, <4>2, <4>3 DEF Tables, IsLoad
    <3>2. CASE ~AtWork(t)
      BY <1>0, <1>11, <3>2 DEF StopConversion, AfterConversion, ForgetConversion, Reraised,
           registered, engine, Tables, AtWork, WorkOf, Loading, PrepIInv, Kinds
    <3>3. QED
      BY <3>1, <3>2
  <2>4. QED
    BY <2>1, <2>2, <2>3 DEF Moves
<1>12. ASSUME StopBuild(t) PROVE Moves
  <2>1. \A s \in Tasks : Later(s)
    BY <1>0, <1>12 DEF StopBuild, Later, AtWork, WorkOf, IsLoad, Loading, Converting, TaskStates,
         PrepIInv, Kinds
  <2>2. Told
    <3>1. ActiveOperation
      BY <1>12, WorkIsActive DEF StopBuild, AtWork, WorkOf, Loading, PrepIInv, Kinds
    <3>2. QED
      BY <1>12, <3>1, PhaseTold DEF StopBuild, Phases, Terminal
  <2>3. Tables
    BY <1>0, <1>12, <2>1, WorkIsActive DEF StopBuild, Tables, registered, engine, Later, IsLoad
  <2>4. QED
    BY <2>1, <2>2, <2>3 DEF Moves
<1>13. ASSUME DrainEnds(t) PROVE Moves
  <2>1. \A s \in Tasks : Later(s)
    BY <1>0, <1>13 DEF DrainEnds, Later, AtWork, WorkOf, IsLoad, Loading, Converting, TaskStates,
         PrepIInv, Kinds
  <2>2. Told
    BY <1>13, UnchangedTold DEF DrainEnds
  <2>3. Tables
    <3>1. CASE AtWork(t)
      <4>1. \A s \in Tasks : s # t => ~AtWork(s)'
        BY <2>1, <3>1, OnlyOneWorks
      <4>2. /\ loadTask' \in {loadTask, None} /\ (loadTask' # loadTask => ~AtWork(t)')
            /\ convTask' \in {convTask, None} /\ (convTask' # convTask => IsLoad(t) \/ ~AtWork(t)')
        BY <1>0, <1>13, <3>1 DEF DrainEnds, registered, AtWork, WorkOf, IsLoad, Loading,
             TaskStates, PrepIInv, Kinds
      <4>3. loaded' = loaded /\ (complete => complete')
        BY <1>13 DEF DrainEnds, engine
      <4>4. QED
        BY <4>1, <4>2, <4>3 DEF Tables, IsLoad
    <3>2. CASE ~AtWork(t)
      BY <1>0, <1>13, <3>2 DEF DrainEnds, registered, engine, Tables, AtWork, WorkOf, Loading,
           PrepIInv, Kinds
    <3>3. QED
      BY <3>1, <3>2
  <2>4. QED
    BY <2>1, <2>2, <2>3 DEF Moves
<1>14. ASSUME Settle(t) PROVE Moves
  <2>1. \A s \in Tasks : Later(s)
    BY <1>0, <1>14 DEF Settle, Later, AtWork, WorkOf, IsLoad, Loading, Converting, TaskStates,
         PrepIInv, Kinds
  <2>2. Told
    BY <1>14, UnchangedTold DEF Settle
  <2>3. Tables
    BY <1>0, <1>14, <2>1, WorkIsActive DEF Settle, Tables, registered, engine, Later, IsLoad
  <2>4. QED
    BY <2>1, <2>2, <2>3 DEF Moves
<1>15. ASSUME ConversionSucceeds(t) PROVE Moves
  <2>1. \A s \in Tasks : Later(s)
    <3>1. CASE AfterConversion(t, FALSE)
      BY <1>0, <1>15, <3>1, AfterConversionLater DEF ConversionSucceeds, Converting, PrepIInv
    <3>2. CASE task' = [task EXCEPT ![t].pc = "tail", ![t].proc = FALSE]
      BY <1>0, <1>15, <3>2 DEF ConversionSucceeds, Later, AtWork, WorkOf, IsLoad, Loading,
           Converting, TaskStates, PrepIInv, Kinds
    <3>3. QED
      BY <1>15, <3>1, <3>2 DEF ConversionSucceeds
  <2>2. Told
    <3>1. AtWork(t) /\ ActiveOperation
      BY <1>15, WorkIsActive DEF ConversionSucceeds, AtWork, WorkOf
    <3>2. PICK files \in BOOLEAN :
            LET u == SetStatus(SetPhase(ui, "ready"), "none")
            IN ui' = IF u.status = "error" \/ files THEN u ELSE Publish(u, "error", "error")
      BY <1>15 DEF ConversionSucceeds, PrepIInv, PrepTypeOK
    <3> DEFINE u == SetStatus(SetPhase(ui, "ready"), "none")
    <3>3. CASE ui' = u
      BY <3>3, ReadyTold
    <3>4. CASE ui' = Publish(u, "error", "error")
      <4>1. "error" \in Statuses /\ "error" \in Phases /\ u \in UiStates
        BY <1>0, ReadyFacts DEF Statuses, Phases, Terminal
      <4>2. CASE ui.timedOut # None
        <5>1. u = ui
          BY <1>0, <3>1, <4>2, ReadyFacts DEF Refused
        <5>2. ui' = ui
          BY <3>4, <4>1, <4>2, <5>1, PublishFacts DEF Refused
        <5>3. QED
          BY <5>2, UnchangedTold
      <4>3. CASE ui.timedOut = None
        <5>1. u.timedOut = None /\ u.id = ui.id /\ u.ids = ui.ids
          BY <1>0, <3>1, <4>3, ReadyFacts DEF Refused, PrepIInv, Named, ActiveOperation
        <5>2. /\ ui'.phase = "error" /\ ui'.timedOut = None
              /\ ui'.id = ui.id /\ ui'.ids = ui.ids
          BY <3>1, <3>4, <4>1, <5>1, PublishFacts DEF Refused, PrepIInv, Named, ActiveOperation
        <5>3. QED
          BY <1>0, <4>3, <5>2 DEF Told, Terminal, UiStates, PrepIInv, Named
      <4>4. QED
        BY <4>2, <4>3
    <3>5. QED
      BY <3>2, <3>3, <3>4
  <2>3. Tables
    <3>1. CASE AtWork(t)
      <4>1. \A s \in Tasks : s # t => ~AtWork(s)'
        BY <2>1, <3>1, OnlyOneWorks
      <4>2. /\ loadTask' \in {loadTask, None} /\ (loadTask' # loadTask => ~AtWork(t)')
            /\ convTask' \in {convTask, None} /\ (convTask' # convTask => IsLoad(t) \/ ~AtWork(t)')
        BY <1>0, <1>15, <3>1 DEF ConversionSucceeds, AfterConversion, ForgetConversion, registered,
             AtWork, WorkOf, IsLoad, Loading, TaskStates, PrepIInv, Kinds
      <4>3. loaded' = loaded /\ (complete => complete')
        <5>1. complete \in BOOLEAN
          BY DEF PrepIInv, PrepTypeOK
        <5>2. \E files \in {TRUE, complete} : complete' = files
          BY <1>15 DEF ConversionSucceeds
        <5>3. loaded' = loaded
          BY <1>15 DEF ConversionSucceeds, engine
        <5>4. CASE complete = TRUE
          <6>1. complete' = TRUE
            BY <5>2, <5>4
          <6>2. QED
            BY <5>3, <6>1
        <5>5. CASE complete = FALSE
          BY <5>3, <5>5
        <5>6. QED
          BY <5>1, <5>4, <5>5
      <4>4. QED
        BY <4>1, <4>2, <4>3 DEF Tables, IsLoad
    <3>2. CASE ~AtWork(t)
      BY <1>0, <1>15, <3>2 DEF ConversionSucceeds, AfterConversion, ForgetConversion, registered,
           engine, Tables, AtWork, WorkOf, Loading, PrepIInv, Kinds
    <3>3. QED
      BY <3>1, <3>2
  <2>4. QED
    BY <2>1, <2>2, <2>3 DEF Moves
<1>16. ASSUME ConversionFails(t) PROVE Moves
  <2>1. \A s \in Tasks : Later(s)
    BY <1>0, <1>16, AfterConversionLater DEF ConversionFails, Converting, PrepIInv
  <2>2. Told
    BY <1>16, PublishTold DEF ConversionFails, Statuses, Phases, Busy, ConversionPhases, Terminal
  <2>3. Tables
    <3>1. CASE AtWork(t)
      <4>1. \A s \in Tasks : s # t => ~AtWork(s)'
        BY <2>1, <3>1, OnlyOneWorks
      <4>2. /\ loadTask' \in {loadTask, None} /\ (loadTask' # loadTask => ~AtWork(t)')
            /\ convTask' \in {convTask, None} /\ (convTask' # convTask => IsLoad(t) \/ ~AtWork(t)')
        BY <1>0, <1>16, <3>1 DEF ConversionFails, AfterConversion, ForgetConversion, registered,
             AtWork, WorkOf, IsLoad, Loading, TaskStates, PrepIInv, Kinds
      <4>3. loaded' = loaded /\ (complete => complete')
        BY <1>16 DEF ConversionFails, engine
      <4>4. QED
        BY <4>1, <4>2, <4>3 DEF Tables, IsLoad
    <3>2. CASE ~AtWork(t)
      BY <1>0, <1>16, <3>2 DEF ConversionFails, AfterConversion, ForgetConversion, registered,
           engine, Tables, AtWork, WorkOf, Loading, PrepIInv, Kinds
    <3>3. QED
      BY <3>1, <3>2
  <2>4. QED
    BY <2>1, <2>2, <2>3 DEF Moves
<1>17. ASSUME ReadLine(t) PROVE Moves
  <2>1. \A s \in Tasks : Later(s)
    BY <1>0, <1>17 DEF ReadLine, Later, AtWork, WorkOf, IsLoad, Loading, Converting, TaskStates,
         PrepIInv, Kinds
  <2>2. Told
    <3>1. CASE ui' = ui
      BY <3>1, UnchangedTold
    <3>2. CASE \E p \in ConversionPhases : ui.phase # "cancelled" /\ ui' = SetPhase(ui, p)
      <4>1. PICK p \in ConversionPhases : ui.phase # "cancelled" /\ ui' = SetPhase(ui, p)
        BY <3>2
      <4>2. QED
        BY <1>0, <4>1, SetPhaseFacts, UnchangedTold
        DEF Told, Refused, Phases, ConversionPhases, UiStates, PrepIInv, Named, ActiveOperation
    <3>3. QED
      BY <1>17, <3>1, <3>2 DEF ReadLine
  <2>3. Tables
    BY <1>0, <1>17, <2>1, WorkIsActive DEF ReadLine, Tables, registered, engine, Later, IsLoad
  <2>4. QED
    BY <2>1, <2>2, <2>3 DEF Moves
<1>18. ASSUME LoadQueued(t) PROVE Moves
  <2>1. \A s \in Tasks : Later(s)
    BY <1>0, <1>18 DEF LoadQueued, Later, AtWork, WorkOf, IsLoad, Loading, Converting, TaskStates,
         PrepIInv, Kinds
  <2>2. Told
    <3>1. ActiveOperation
      BY <1>18, WorkIsActive DEF LoadQueued, AtWork, WorkOf, Loading, PrepIInv, Kinds
    <3>2. QED
      BY <1>18, <3>1, PublishTold DEF LoadQueued, Statuses, Phases, Busy, ConversionPhases, Terminal
  <2>3. Tables
    BY <1>0, <1>18, <2>1, WorkIsActive DEF LoadQueued, Tables, registered, engine, Later, IsLoad
  <2>4. QED
    BY <2>1, <2>2, <2>3 DEF Moves
<1>19. ASSUME WatchdogFires(t) PROVE Moves
  <2>1. \A s \in Tasks : Later(s)
    BY <1>0, <1>19 DEF WatchdogFires, Later, AtWork, WorkOf, IsLoad, Loading, Converting,
         TaskStates, PrepIInv, Kinds
  <2>2. Told
    <3>1. /\ ui.timedOut = None /\ ui'.status = "error" /\ ui'.phase = "error"
          /\ ui'.id = ui.id /\ ui'.ids = ui.ids
      BY <1>0, <1>19 DEF WatchdogFires, UiStates
    <3>2. QED
      BY <1>0, <3>1 DEF Told, Terminal, UiStates, PrepIInv, Named
  <2>3. Tables
    BY <1>0, <1>19, <2>1, WorkIsActive DEF WatchdogFires, Tables, registered, engine, Later, IsLoad
  <2>4. QED
    BY <2>1, <2>2, <2>3 DEF Moves
<1>20. QED
  BY <1>1, <1>2, <1>3, <1>4, <1>5, <1>6, <1>7, <1>8, <1>9, <1>10, <1>11, <1>12, <1>13, <1>14,
       <1>15, <1>16, <1>17, <1>18, <1>19 DEF TaskStep, ConverterEnds

-----------------------------------------------------------------------------
(* Requests, and the load that follows a conversion.                        *)

\* A new operation gets a screen and an id of its own.
LEMMA QueuedFacts ==
  ASSUME PrepIInv, ~ActiveOperation, NEW s \in {"queued", "queued_convert"}
  PROVE  LET v == Publish(ClearProgress(ui), s, "queued")
         IN /\ v \in UiStates /\ v.phase = "queued" /\ v.timedOut = None
            /\ v.id = ui.ids + 1 /\ v.ids = ui.ids + 1
<1>1. ui \in UiStates /\ s \in Statuses /\ "queued" \in Phases
  BY DEF PrepIInv, PrepTypeOK, UiStates, Statuses, Phases, Busy
<1>2. LET c == ClearProgress(ui)
      IN c \in UiStates /\ c.id = 0 /\ c.timedOut = None /\ c.ids = ui.ids
  BY <1>1, ClearFacts
<1>3. QED
  BY <1>1, <1>2, PublishFacts DEF Refused

\* The table of tasks a load is scheduled with: the current one, or the one in which
\* the conversion's callback has just run.
SameWork(ts) ==
  \A s \in Tasks :
    /\ ts[s].kind = task[s].kind /\ ts[s].born = task[s].born /\ ts[s].stop \subseteq task[s].stop
    /\ ts[s].pc = task[s].pc \/ (task[s].pc = "finished" /\ ts[s].pc = "done")

LEMMA SameWorkLater ==
  ASSUME PrepIInv, NEW ts, SameWork(ts), NEW s \in Tasks, task'[s] = ts[s]
  PROVE  Later(s)
BY DEF SameWork, Later, AtWork, WorkOf, IsLoad, Loading, PrepIInv, Kinds

\* NewTask gives the operation to a task that was idle.
LEMMA NewTaskBegins ==
  ASSUME PrepIInv, NEW ts \in [Tasks -> TaskStates], SameWork(ts), ~ActiveOperation, ~loaded, loaded' = loaded,
         down.pc = "up", complete' = complete, NEW n \in Tasks, NEW k \in {"load", "convert"},
         NEW fmt \in BOOLEAN, NEW q \in {"queued", "queued_convert"},
         ui' = Publish(ClearProgress(ui), q, "queued"), NewTask(ts, n, k, fmt, ui'),
         IF k = "load" THEN loadTask' = n /\ convTask' = convTask ELSE convTask' = n /\ loadTask' = loadTask
  PROVE  Begins(n, k)
<1>1. /\ ui'.phase = "queued" /\ ui'.timedOut = None
      /\ ui'.id = ui.ids + 1 /\ ui'.ids = ui.ids + 1
  BY QueuedFacts
<1>2. task[n].pc = "idle"
  BY DEF NewTask, SameWork
<1>3. /\ task'[n].kind = k /\ task'[n].pc = "queued" /\ task'[n].stop = {} /\ task'[n].born = ui'.id
      /\ \A s \in Tasks \ {n} : task'[s] = ts[s]
  BY DEF NewTask, NoTask
<1>4. \A s \in Tasks \ {n} : Later(s)
  BY <1>3, SameWorkLater
<1>5. QED
  BY <1>1, <1>2, <1>3, <1>4 DEF Begins

LEMMA ScheduleLoadMoves ==
  ASSUME PrepIInv, NEW ts \in [Tasks -> TaskStates], SameWork(ts), NEW f, NEW c, ScheduleLoad(ts, f, c),
         down.pc = "up", UNCHANGED <<convTask, complete, engine>>
  PROVE  Moves \/ \E n \in Tasks : Begins(n, "load")
<1> USE DEF engine
<1>1. CASE task' = ts /\ loadTask' = loadTask /\ Told
  <2>1. \A s \in Tasks : Later(s)
    BY <1>1, SameWorkLater
  <2>2. QED
    BY <1>1, <2>1 DEF Moves, Tables
<1>2. CASE Live(convTask)
  <2>1. /\ task' = ts /\ loadTask' = loadTask
        /\ \E p \in Phases \ {"cancelled"} : ui' = SetPhase(ui, p)
    BY <1>2 DEF ScheduleLoad, Phases, ConversionPhases
  <2>2. Told
    BY <1>2, <2>1, PhaseTold DEF ActiveOperation
  <2>3. QED
    BY <1>1, <2>1, <2>2
<1>3. CASE ~Live(convTask) /\ loaded
  BY <1>1, <1>3, ReadyTold DEF ScheduleLoad
<1>4. CASE ~Live(convTask) /\ ~loaded /\ Live(loadTask)
  BY <1>1, <1>4, UnchangedTold DEF ScheduleLoad
<1>5. CASE ~Live(convTask) /\ ~loaded /\ ~Live(loadTask)
  <2>1. PICK n \in Tasks :
          /\ ui' = Publish(ClearProgress(ui), "queued", "queued")
          /\ NewTask(ts, n, "load", FALSE, ui') /\ loadTask' = n
    BY <1>5 DEF ScheduleLoad
  <2>2. Begins(n, "load")
    BY <1>5, <2>1, NewTaskBegins DEF ActiveOperation
  <2>3. QED
    BY <2>2
<1>6. QED
  BY <1>2, <1>3, <1>4, <1>5

LEMMA RequestMoves ==
  ASSUME PrepIInv, ~Overlapping
  PROVE  /\ RequestLoad => Moves \/ \E n \in Tasks : Begins(n, "load")
         /\ \A fmt, load_after \in BOOLEAN :
              RequestConvert(fmt, load_after) => Moves \/ \E n \in Tasks : Begins(n, "convert")
         /\ \A t \in Tasks : RunCallbacks(t) => Moves \/ \E n \in Tasks : Begins(n, "load")
<1>0. task \in [Tasks -> TaskStates] /\ ui \in UiStates
  BY DEF PrepIInv, PrepTypeOK, TaskStates, UiStates, Statuses, Phases
<1>1. ASSUME RequestLoad PROVE Moves \/ \E n \in Tasks : Begins(n, "load")
  <2>1. SameWork(task)
    BY DEF SameWork
  <2>2. QED
    BY <1>0, <1>1, <2>1, ScheduleLoadMoves DEF RequestLoad, Accepting
<1>2. ASSUME NEW fmt \in BOOLEAN, NEW load_after \in BOOLEAN, RequestConvert(fmt, load_after)
      PROVE  Moves \/ \E n \in Tasks : Begins(n, "convert")
  <2>1. ~Live(loadTask) /\ down.pc = "up" /\ complete' = complete /\ loaded' = loaded /\ SameWork(task)
    BY <1>2 DEF RequestConvert, Accepting, engine, SameWork
  <2>2. ASSUME UNCHANGED <<task, registered>>, Told PROVE Moves
    BY <2>1, <2>2, SameWorkLater DEF Moves, Tables, registered
  <2>3. CASE Live(convTask)
    BY <1>2, <2>2, <2>3, UnchangedTold DEF RequestConvert, registered
  <2>4. CASE ~Live(convTask) /\ ~loaded /\ (fmt \/ ~complete)
    <3>1. PICK n \in Tasks :
            /\ ui' = Publish(ClearProgress(ui), "queued_convert", "queued")
            /\ NewTask(task, n, "convert", fmt, ui') /\ convTask' = n /\ loadTask' = loadTask
      BY <1>2, <2>4 DEF RequestConvert
    <3>2. Begins(n, "convert")
      BY <1>0, <2>1, <2>4, <3>1, NewTaskBegins DEF ActiveOperation
    <3>3. QED
      BY <3>2
  <2>5. CASE ~Live(convTask) /\ ~loaded /\ ~fmt /\ complete
    <3>1. UNCHANGED <<task, registered>> /\ ui' = SetPhase(ClearProgress(ui), "ready")
      BY <1>2, <2>5 DEF RequestConvert
    <3>2. LET c == ClearProgress(ui)
          IN c \in UiStates /\ c.id = 0 /\ c.timedOut = None /\ c.ids = ui.ids
      BY <1>0, <2>1, <2>5, ClearFacts DEF ActiveOperation
    <3>3. /\ ui'.phase = "ready" /\ ui'.timedOut = None
          /\ ui'.id = ui.ids + 1 /\ ui'.ids = ui.ids + 1
      BY <3>1, <3>2, SetPhaseFacts DEF Refused, Phases, Terminal
    <3>4. Told
      BY <1>0, <2>1, <2>5, <3>3 DEF Told, ActiveOperation, Terminal, UiStates
    <3>5. QED
      BY <2>2, <3>1, <3>4
  <2>6. CASE ~Live(convTask) /\ loaded
    <3>1. UNCHANGED <<task, registered>> /\ ui' = ClearProgress(ui)
      BY <1>2, <2>6 DEF RequestConvert
    <3>2. Told
      BY <1>0, <2>1, <2>6, <3>1, ClearTold DEF ActiveOperation
    <3>3. QED
      BY <2>2, <3>1, <3>2
  <2>7. QED
    BY <2>3, <2>4, <2>5, <2>6
<1>3. ASSUME NEW t \in Tasks, RunCallbacks(t) PROVE Moves \/ \E n \in Tasks : Begins(n, "load")
  <2> DEFINE ts == [task EXCEPT ![t].pc = "done", ![t].fmt = FALSE, ![t].stop = {}]
  <2>1. ts \in [Tasks -> TaskStates] /\ SameWork(ts)
    BY <1>0, <1>3 DEF RunCallbacks, TaskStates, SameWork, Over
  <2>2. UNCHANGED <<convTask, complete, engine>>
    BY <1>3 DEF RunCallbacks
  <2>3. CASE ScheduleLoad(ts, FALSE, None) /\ down.pc = "up"
    BY <2>1, <2>2, <2>3, ScheduleLoadMoves
  <2>4. CASE task' = ts /\ UNCHANGED <<loadTask, ui>>
    BY <2>1, <2>2, <2>4, SameWorkLater, UnchangedTold DEF Moves, Tables, engine
  <2>5. QED
    BY <1>3, <2>3, <2>4 DEF RunCallbacks
<1>4. QED
  BY <1>1, <1>2, <1>3

LEMMA ClientMoves ==
  ASSUME PrepIInv
  PROVE  /\ Delete => Moves
         /\ Unload => Moves
         /\ StartGeneration \/ EndGeneration => Moves
         /\ \A id \in Nat : CancelBegin(id) => Moves
         /\ CancelEnd => Moves
<1>0. ui \in UiStates /\ task \in [Tasks -> TaskStates] /\ SetStatus(ui, "none") \in UiStates
      /\ SetStatus(ui, "none").ids = ui.ids
  BY SetStatusFacts DEF PrepIInv, PrepTypeOK, UiStates, TaskStates, Statuses, Phases
<1>1. ASSUME task' = task PROVE \A s \in Tasks : Later(s)
  BY <1>1, SameWorkLater DEF SameWork
<1>2. ASSUME ~ActiveOperation PROVE \A s \in Tasks : ~AtWork(s)
  BY <1>2, WorkIsActive
<1>3. ASSUME Delete PROVE Moves
  <2>1. Told
    BY <1>0, <1>3, ClearTold DEF Delete
  <2>2. \A s \in Tasks : Later(s) /\ ~AtWork(s)'
    BY <1>1, <1>2, <1>3 DEF Delete, Later
  <2>3. Tables
    BY <1>3, <2>2 DEF Delete, Tables, engine
  <2>4. QED
    BY <2>1, <2>2, <2>3 DEF Moves
<1>4. ASSUME Unload PROVE Moves
  <2>1. Told
    BY <1>0, <1>4, ClearTold DEF Unload, PrepIInv, Alone
  <2>2. QED
    BY <1>1, <1>4, <2>1 DEF Unload, Moves, Tables, registered
<1>5. ASSUME StartGeneration \/ EndGeneration PROVE Moves
  BY <1>1, <1>5, UnchangedTold DEF StartGeneration, EndGeneration, Moves, Tables, registered
<1>6. ASSUME NEW id \in Nat, CancelBegin(id) PROVE Moves
  <2>1. \A s \in Tasks : Later(s)
    BY <1>0, <1>6 DEF CancelBegin, Later, AtWork, WorkOf, IsLoad, Loading, TaskStates, PrepIInv, Kinds
  <2>2. QED
    BY <1>6, <2>1, UnchangedTold DEF CancelBegin, Moves, Tables, registered, engine
<1>7. ASSUME CancelEnd PROVE Moves
  <2>1. task' = task /\ loadTask' = loadTask /\ convTask' = convTask /\ loaded' = loaded /\ complete' = complete
    BY <1>7 DEF CancelEnd, registered, engine
  <2>2. CASE ui' = ui
    BY <1>1, <2>1, <2>2, UnchangedTold DEF Moves, Tables
  <2>3. CASE ui.id = cancel.id /\ ui.phase \notin Terminal /\ ui' = Publish(ui, "cancelled", "cancelled")
    <3>1. cancel.t \in Tasks /\ task[cancel.t].pc = "done" /\ task[cancel.t].born = ui.id
      BY <1>7, <2>3, PreparationAssumption DEF CancelEnd, PrepIInv, PrepTypeOK, Cancelling, Tasks, None
    <3>2. \A r \in Tasks : Live(r) => r # cancel.t
      BY <3>1 DEF Live
    <3>3. loadTask \in Tasks \cup {None} /\ convTask \in Tasks \cup {None}
      BY PreparationAssumption DEF PrepIInv, PrepTypeOK, Tasks, None
    <3>4. ~ActiveOperation
      BY <3>1, <3>2, <3>3 DEF ActiveOperation, Live, PrepIInv, Named, Kinds
    <3>5. ~ActiveOperation'
      BY <2>1, <3>4 DEF ActiveOperation, Live
    <3>6. Told
      <4>1. CASE ui.timedOut # None
        <5>1. ui' = ui
          BY <1>0, <2>3, <4>1, PublishFacts DEF Refused, Statuses, Phases, Terminal
        <5>2. QED
          BY <5>1, UnchangedTold
      <4>2. CASE ui.timedOut = None
        <5>1. /\ ui'.phase = "cancelled" /\ ui'.timedOut = None
              /\ ui'.id = (IF ui.id = 0 THEN ui.ids + 1 ELSE ui.id)
              /\ ui'.ids = (IF ui.id = 0 THEN ui.ids + 1 ELSE ui.ids)
          BY <1>0, <2>3, <4>2, PublishFacts DEF Refused, Statuses, Phases, Terminal
        <5>2. ui.id \in Nat /\ ui.ids \in Nat /\ ui.id <= ui.ids
          BY <1>0 DEF UiStates, PrepIInv, Named
        <5>3. QED
          BY <3>4, <3>5, <4>2, <5>1, <5>2 DEF Told, Terminal
      <4>3. QED
        BY <4>1, <4>2
    <3>7. QED
      BY <1>1, <2>1, <3>6 DEF Moves, Tables
  <2>4. QED
    BY <1>7, <2>2, <2>3 DEF CancelEnd
<1>8. QED
  BY <1>3, <1>4, <1>5, <1>6, <1>7

LEMMA ShutdownMoves ==
  ASSUME PrepIInv, ShutdownBegins \/ ShutdownLoadsDone \/ ShutdownConvertsDone
  PROVE  Moves
<1>0. task \in [Tasks -> TaskStates]
  BY DEF PrepIInv, PrepTypeOK, TaskStates, Statuses, Phases
<1>1. ui' = ui /\ loadTask' = loadTask /\ convTask' = convTask /\ loaded' = loaded /\ complete' = complete
  BY DEF ShutdownBegins, ShutdownLoadsDone, ShutdownConvertsDone, registered, engine
<1>2. task' = task \/ \E t \in Tasks : task' = [task EXCEPT ![t].stop = @ \cup {"request"}]
  <2>1. \A t \in {loadTask, convTask} : Live(t) => t \in Tasks
    BY PreparationAssumption DEF Live, PrepIInv, PrepTypeOK, Tasks, None
  <2>2. QED
    BY <2>1 DEF ShutdownBegins, ShutdownLoadsDone, ShutdownConvertsDone, StopAndAwait
<1>3. \A s \in Tasks : Later(s)
  BY <1>0, <1>2 DEF Later, AtWork, WorkOf, IsLoad, Loading, TaskStates, PrepIInv, Kinds
<1>4. QED
  BY <1>1, <1>3, UnchangedTold DEF Moves, Tables

-----------------------------------------------------------------------------
(* The invariant is kept by every step that moves or begins tasks.          *)

Kept == Kinds /\ Registered /\ Alone /\ Named /\ CancelledIsOver

LEMMA TableTypes ==
  ASSUME PrepIInv
  PROVE  loadTask \in Tasks \cup {None} /\ convTask \in Tasks \cup {None} /\ None \notin Tasks
BY PreparationAssumption DEF PrepIInv, PrepTypeOK, Tasks, None

LEMMA MovesKeeps ==
  ASSUME PrepIInv, PrepTypeOK', Moves
  PROVE  /\ Kept'
         /\ down.pc # "off" => TimedOut'
         /\ \A s \in Tasks : task[s].pc # "idle" => task'[s].pc # "idle" /\ task'[s].born = task[s].born
         /\ (~Live(loadTask) => ~Live(loadTask)') /\ (~Live(convTask) => ~Live(convTask)')
<1>0. /\ \A s \in Tasks : Later(s)
      /\ loadTask' \in {loadTask, None} /\ convTask' \in {convTask, None}
      /\ loadTask \in Tasks \cup {None} /\ convTask \in Tasks \cup {None}
  BY TableTypes DEF Moves, Tables
<1>1. /\ ~Live(loadTask) => ~Live(loadTask)'
      /\ ~Live(convTask) => ~Live(convTask)'
      /\ ~ActiveOperation => ~ActiveOperation'
  BY <1>0, OverStaysOver DEF ActiveOperation
<1>2. Kinds'
  BY <1>0 DEF Kinds, Later, PrepIInv, IsLoad
<1>3. Registered'
  BY <1>0 DEF Registered, Later, PrepIInv, IsLoad, Moves, Tables
<1>4. Alone'
  BY <1>0, <1>1 DEF Alone, PrepIInv, Moves, Tables
<1>5. Named'
  <2>1. ui'.ids >= ui.ids /\ ui'.id <= ui'.ids /\ ui.ids \in Nat /\ ui'.ids \in Nat
    BY DEF Moves, Told, PrepIInv, PrepTypeOK
  <2>2. \A t \in Tasks : task[t].born \in Nat /\ task'[t].born <= ui'.ids
    BY <1>0, <2>1 DEF Later, PrepIInv, PrepTypeOK, Named
  <2>3. (Live(loadTask) \/ Live(convTask))' => ui'.id = ui.id
    BY <1>1 DEF Moves, Told, ActiveOperation
  <2>4. /\ Live(loadTask)' => task'[loadTask'].born = ui'.id /\ ui'.id # 0
        /\ Live(convTask)' => task'[convTask'].born = ui'.id /\ ui'.id # 0
    BY <1>0, <1>1, <2>3 DEF Live, Later, PrepIInv, Named
  <2>5. QED
    BY <1>0, <2>1, <2>2, <2>4 DEF Named, Later, PrepIInv
<1>6. CancelledIsOver'
  BY <1>1 DEF CancelledIsOver, PrepIInv, Moves, Told
<1>7. ASSUME down.pc # "off" PROVE TimedOut'
  <2>1. ui'.timedOut # None => ui'.status = "error" /\ ui'.phase = "error"
    BY <1>7 DEF Moves, Told, PrepIInv, TimedOut
  <2>2. ASSUME NEW t \in {loadTask', convTask'}, Live(t)', "watchdog" \in task'[t].stop
        PROVE  ui'.timedOut # None
    <3>1. t \in Tasks /\ t \in {loadTask, convTask} /\ Live(t)
      BY <1>0, <2>2 DEF Live, Later
    <3>2. ActiveOperation
      BY <3>1 DEF ActiveOperation
    <3>3. "watchdog" \in task[t].stop => ui' = ui /\ ui.timedOut # None
      BY <3>1, <3>2 DEF Moves, Told, PrepIInv, TimedOut
    <3>4. QED
      BY <1>0, <2>2, <3>1, <3>3 DEF Later
  <2>3. QED
    BY <2>1, <2>2 DEF TimedOut
<1>8. QED
  BY <1>0, <1>1, <1>2, <1>3, <1>4, <1>5, <1>6, <1>7 DEF Kept, Later

LEMMA BeginsKeeps ==
  ASSUME PrepIInv, PrepTypeOK', NEW n \in Tasks, NEW k \in {"load", "convert"}, Begins(n, k)
  PROVE  /\ Kept' /\ TimedOut'
         /\ \A s \in Tasks : task[s].pc # "idle" => task'[s].pc # "idle" /\ task'[s].born = task[s].born
<1>0. /\ \A s \in Tasks \ {n} : Later(s)
      /\ task[n].pc = "idle" /\ task'[n].pc = "queued" /\ task'[n].kind = k
      /\ loadTask \in Tasks \cup {None} /\ convTask \in Tasks \cup {None} /\ n # None
      /\ IF k = "load" THEN loadTask' = n /\ convTask' = convTask
                       ELSE k = "convert" /\ convTask' = n /\ loadTask' = loadTask
  BY TableTypes DEF Begins
<1>1. /\ \A r \in {loadTask, convTask} : r # n
      /\ k = "load" => ~Live(convTask)'
      /\ k = "convert" => ~Live(loadTask)'
  BY <1>0 DEF Begins, ActiveOperation, Live, Later, PrepIInv, Kinds
<1>2. \A s \in Tasks : AtWork(s)' => s = n
  BY <1>0, WorkIsActive DEF Begins, Later
<1>3. Kinds'
  BY <1>0, <1>1 DEF Kinds, Later, PrepIInv, IsLoad, Loading
<1>4. Registered' /\ Alone'
  BY <1>0, <1>1, <1>2 DEF Registered, Alone, IsLoad, Begins
<1>5. Named'
  <2>1. ui'.id = ui.ids + 1 /\ ui'.ids = ui.ids + 1 /\ ui.ids \in Nat /\ task'[n].born = ui.ids + 1
    BY DEF Begins, PrepIInv, PrepTypeOK
  <2>2. \A t \in Tasks : task[t].born \in Nat /\ task[t].born <= ui.ids
    BY DEF PrepIInv, PrepTypeOK, Named
  <2>3. \A t \in Tasks \ {n} : task'[t].born = task[t].born /\ (task'[t].pc = "idle" <=> task[t].pc = "idle")
    BY <1>0 DEF Later
  <2>4. \A t \in Tasks : task'[t].born <= ui'.ids
    BY <2>1, <2>2, <2>3
  <2>5. \A s, t \in Tasks : task'[s].pc # "idle" /\ task'[t].pc # "idle" /\ s # t => task'[s].born # task'[t].born
    <3>1. SUFFICES ASSUME NEW s \in Tasks, NEW t \in Tasks, task'[s].pc # "idle", task'[t].pc # "idle", s # t
                   PROVE  task'[s].born # task'[t].born
      OBVIOUS
    <3>2. CASE s # n /\ t # n
      BY <2>3, <3>1, <3>2 DEF PrepIInv, Named
    <3>3. CASE s = n \/ t = n
      BY <2>1, <2>2, <2>3, <3>1, <3>3
    <3>4. QED
      BY <3>2, <3>3
  <2>6. /\ Live(loadTask)' => task'[loadTask'].born = ui'.id
        /\ Live(convTask)' => task'[convTask'].born = ui'.id
    BY <1>0, <1>1, <2>1
  <2>7. QED
    BY <2>1, <2>4, <2>5, <2>6 DEF Named
<1>6. CancelledIsOver' /\ TimedOut'
  BY <1>0, <1>1 DEF CancelledIsOver, TimedOut, Begins
<1>7. QED
  BY <1>0, <1>3, <1>4, <1>5, <1>6 DEF Kept, Later

-----------------------------------------------------------------------------
(* Types, and the lock: these hold with overlapping requests as well.       *)

Tabled ==
  /\ loadTask \in 0..MaxTasks /\ convTask \in 0..MaxTasks /\ lock \in 0..MaxTasks
  /\ follow \in BOOLEAN /\ callback \in 0..MaxTasks
  /\ complete \in BOOLEAN /\ loaded \in BOOLEAN /\ busy \in BOOLEAN
  /\ cancel \in [id : Nat, t : 0..MaxTasks]
  /\ down \in [pc : {"up", "loads", "converts", "drain", "off"}, t : 0..MaxTasks]

LEMMA TypeParts == PrepTypeOK <=> task \in [Tasks -> TaskStates] /\ ui \in UiStates /\ Tabled
BY DEF PrepTypeOK, Tabled, TaskStates, UiStates, Statuses, Phases

LEMMA TypePartsNext == task' \in [Tasks -> TaskStates] /\ ui' \in UiStates /\ Tabled' => PrepTypeOK'
BY DEF PrepTypeOK, Tabled, TaskStates, UiStates, Statuses, Phases

LEMMA AfterConversionType ==
  ASSUME task \in [Tasks -> TaskStates], NEW t \in Tasks, NEW c \in BOOLEAN, AfterConversion(t, c)
  PROVE  task' \in [Tasks -> TaskStates]
<1> DEFINE p == IF IsLoad(t) /\ ~c THEN "converted" ELSE "settling"
           x == IF c THEN task[t].stop ELSE task[t].stop \ {"watchdog"}
           r == [task[t] EXCEPT !.pc = p, !.cancelled = c, !.proc = FALSE, !.stop = x]
<1>1. task[t] \in TaskStates /\ x \in SUBSET {"request", "watchdog"} /\ p \in Loading \cup Over
  BY DEF TaskStates, Loading, Over
<1> HIDE DEF p, x
<1>2. r \in TaskStates
  BY <1>1 DEF TaskStates
<1>3. task' = [task EXCEPT ![t] = r]
  BY <1>1 DEF AfterConversion, TaskStates, p, x
<1>4. QED
  BY <1>2, <1>3

LEMMA StopType ==
  ASSUME task \in [Tasks -> TaskStates], NEW t \in Tasks, NEW x \in {"request", "watchdog"},
         task' = [task EXCEPT ![t].stop = @ \cup {x}]
  PROVE  task' \in [Tasks -> TaskStates]
<1>1. task[t].stop \cup {x} \in SUBSET {"request", "watchdog"} /\ task[t] \in TaskStates
  BY DEF TaskStates
<1>2. [task[t] EXCEPT !.stop = task[t].stop \cup {x}] \in TaskStates
  BY <1>1 DEF TaskStates
<1>3. QED
  BY <1>2

LEMMA NewTaskType ==
  ASSUME NEW ts \in [Tasks -> TaskStates], NEW n \in Tasks, NEW k \in {"load", "convert"},
         NEW fmt \in BOOLEAN, NEW u \in UiStates, NewTask(ts, n, k, fmt, u)
  PROVE  task' \in [Tasks -> TaskStates]
<1>1. [NoTask EXCEPT !.kind = k, !.pc = "queued", !.fmt = fmt, !.born = u.id] \in TaskStates
  BY DEF NoTask, TaskStates, UiStates
<1>2. QED
  BY <1>1 DEF NewTask

LEMMA ScheduleLoadType ==
  ASSUME PrepTypeOK, NEW ts \in [Tasks -> TaskStates], NEW f \in BOOLEAN, NEW c \in 0..MaxTasks,
         ScheduleLoad(ts, f, c), UNCHANGED <<convTask, lock, complete, engine, cancel, down>>
  PROVE  PrepTypeOK'
<1>0. ui \in UiStates /\ Tabled /\ "ready" \in Phases /\ "queued" \in Phases /\ "none" \in Statuses
      /\ "queued" \in Statuses /\ ConversionPhases \cup {"queued", "converting"} \subseteq Phases
  BY TypeParts DEF Phases, Terminal, Statuses, Busy, ConversionPhases
<1>1. ClearProgress(ui) \in UiStates
  BY <1>0, ClearFacts
<1>2. \/ task' = ts /\ loadTask' = loadTask
      \/ \E n \in Tasks : \E u \in UiStates : NewTask(ts, n, "load", FALSE, u) /\ loadTask' = n
  BY <1>0, <1>1, PublishFacts DEF ScheduleLoad
<1>3. task' \in [Tasks -> TaskStates]
  BY <1>2, NewTaskType
<1>4. ui' \in UiStates
  <2>1. CASE \E p \in Phases : ui' = SetPhase(ui, p)
    BY <1>0, <2>1, SetPhaseFacts
  <2>2. CASE ui' = SetStatus(SetPhase(ui, "ready"), "none")
    BY <1>0, <2>2, ReadyFacts
  <2>3. CASE ui' = ui
    BY <1>0, <2>3
  <2>4. CASE ui' = Publish(ClearProgress(ui), "queued", "queued")
    BY <1>0, <1>1, <2>4, PublishFacts
  <2>5. (\E p \in Phases : ui' = SetPhase(ui, p)) \/ ui' = SetStatus(SetPhase(ui, "ready"), "none")
        \/ ui' = ui \/ ui' = Publish(ClearProgress(ui), "queued", "queued")
    BY <1>0 DEF ScheduleLoad
  <2>6. QED
    BY <2>1, <2>2, <2>3, <2>4, <2>5
<1>5. follow' \in BOOLEAN /\ callback' \in 0..MaxTasks /\ loadTask' \in 0..MaxTasks
  <2>1. (follow' = TRUE /\ callback' = convTask) \/ (follow' = f /\ callback' = c)
    BY DEF ScheduleLoad, Remember
  <2>2. \A n \in Tasks : n \in 0..MaxTasks
    BY PreparationAssumption DEF Tasks
  <2>3. QED
    BY <1>0, <1>2, <2>1, <2>2 DEF Tabled
<1>6. Tabled'
  BY <1>0, <1>5 DEF Tabled, engine
<1>7. QED
  BY <1>3, <1>4, <1>6, TypePartsNext

LEMMA TypeStep ==
  ASSUME PrepTypeOK, [PrepNext]_vars
  PROVE  PrepTypeOK'
<1>0. task \in [Tasks -> TaskStates] /\ ui \in UiStates /\ Tabled
  BY TypeParts
<1>c. None \in 0..MaxTasks /\ \A t \in Tasks : t \in 0..MaxTasks
  BY PreparationAssumption DEF Tasks, None
<1>b. /\ Phases = {"idle", "queued", "loading", "downloading", "converting", "finalizing", "ready", "cancelled", "error"}
       /\ Statuses = {"none", "cancelled", "error", "queued", "loading", "queued_convert", "converting"}
  BY DEF Phases, Statuses, Busy, ConversionPhases, Terminal
<1>1. ASSUME NEW t \in Tasks, Start(t) PROVE PrepTypeOK'
  <2>1. task' \in [Tasks -> TaskStates]
    BY <1>0, <1>1 DEF Start, TaskStates, Converting, Loading, Over
  <2>2. ui' \in UiStates
    BY <1>0, <1>b, <1>1, PublishFacts, SetPhaseFacts, ReadyFacts, ClearFacts, SetStatusFacts DEF Start
  <2>3. Tabled'
    BY <1>0, <1>c, <1>1 DEF Start, Tabled, registered, pending, engine
  <2>4. QED
    BY <2>1, <2>2, <2>3, TypePartsNext
<1>2. ASSUME NEW t \in Tasks, AccessGranted(t) PROVE PrepTypeOK'
  <2>1. task' \in [Tasks -> TaskStates]
    BY <1>0, <1>2 DEF AccessGranted, TaskStates, Converting, Loading, Over
  <2>2. ui' \in UiStates
    BY <1>0, <1>b, <1>2, PublishFacts, SetPhaseFacts, ReadyFacts, ClearFacts,
         SetStatusFacts DEF AccessGranted
  <2>3. Tabled'
    BY <1>0, <1>c, <1>2 DEF AccessGranted, Tabled, registered, pending, engine
  <2>4. QED
    BY <2>1, <2>2, <2>3, TypePartsNext
<1>3. ASSUME NEW t \in Tasks, AccessDenied(t) PROVE PrepTypeOK'
  <2>1. task' \in [Tasks -> TaskStates]
    BY <1>0, <1>3, AfterConversionType DEF AccessDenied
  <2>2. ui' \in UiStates
    BY <1>0, <1>b, <1>3, PublishFacts, SetPhaseFacts, ReadyFacts, ClearFacts,
         SetStatusFacts DEF AccessDenied
  <2>3. Tabled'
    BY <1>0, <1>c, <1>3 DEF AccessDenied, AfterConversion, Tabled, registered, pending, engine
  <2>4. QED
    BY <2>1, <2>2, <2>3, TypePartsNext
<1>4. ASSUME NEW t \in Tasks, BeginConversion(t) PROVE PrepTypeOK'
  <2>1. task' \in [Tasks -> TaskStates]
    BY <1>0, <1>4 DEF BeginConversion, ForgetConversion, TaskStates, Converting, Loading, Over
  <2>2. ui' \in UiStates
    BY <1>0, <1>b, <1>4, PublishFacts, SetPhaseFacts, ReadyFacts, ClearFacts,
         SetStatusFacts DEF BeginConversion
  <2>3. Tabled'
    BY <1>0, <1>c, <1>4 DEF BeginConversion, ForgetConversion, Tabled, registered, pending, engine
  <2>4. QED
    BY <2>1, <2>2, <2>3, TypePartsNext
<1>5. ASSUME NEW t \in Tasks, RecordProfile(t) PROVE PrepTypeOK'
  <2>1. task' \in [Tasks -> TaskStates]
    BY <1>0, <1>5, AfterConversionType DEF RecordProfile
  <2>2. ui' \in UiStates
    BY <1>0, <1>b, <1>5, PublishFacts, SetPhaseFacts, ReadyFacts, ClearFacts,
         SetStatusFacts DEF RecordProfile
  <2>3. Tabled'
    BY <1>0, <1>c, <1>5 DEF RecordProfile, AfterConversion, Tabled, registered, pending, engine
  <2>4. QED
    BY <2>1, <2>2, <2>3, TypePartsNext
<1>6. ASSUME NEW t \in Tasks, LoadTurn(t) PROVE PrepTypeOK'
  <2>1. task' \in [Tasks -> TaskStates]
    BY <1>0, <1>6 DEF LoadTurn, TaskStates, Converting, Loading
  <2>2. ui' \in UiStates
    BY <1>0, <1>b, <1>6, PublishFacts, SetPhaseFacts, ReadyFacts, ClearFacts,
         SetStatusFacts DEF LoadTurn
  <2>3. Tabled'
    BY <1>0, <1>c, <1>6 DEF LoadTurn, Tabled, registered, pending, engine
  <2>4. QED
    BY <2>1, <2>2, <2>3, TypePartsNext
<1>7. ASSUME NEW t \in Tasks, LoadConverted(t) PROVE PrepTypeOK'
  <2>1. task' \in [Tasks -> TaskStates]
    BY <1>0, <1>7 DEF LoadConverted, TaskStates, Converting, Loading, Over
  <2>2. ui' \in UiStates
    BY <1>0, <1>b, <1>7, PublishFacts, SetPhaseFacts, ReadyFacts, ClearFacts,
         SetStatusFacts DEF LoadConverted
  <2>3. Tabled'
    BY <1>0, <1>c, <1>7 DEF LoadConverted, Tabled, registered, pending, engine
  <2>4. QED
    BY <2>1, <2>2, <2>3, TypePartsNext
<1>8. ASSUME NEW t \in Tasks, BuildEnds(t) PROVE PrepTypeOK'
  <2>1. task' \in [Tasks -> TaskStates]
    BY <1>0, <1>8 DEF BuildEnds, TaskStates, Converting, Loading, Over
  <2>2. ui' \in UiStates
    BY <1>0, <1>b, <1>8, PublishFacts, SetPhaseFacts, ReadyFacts, ClearFacts,
         SetStatusFacts DEF BuildEnds
  <2>3. Tabled'
    BY <1>0, <1>c, <1>8 DEF BuildEnds, Tabled, registered, pending, engine
  <2>4. QED
    BY <2>1, <2>2, <2>3, TypePartsNext
<1>9. ASSUME NEW t \in Tasks, StopQuietly(t) PROVE PrepTypeOK'
  <2>1. task' \in [Tasks -> TaskStates]
    BY <1>0, <1>9 DEF StopQuietly, AfterConversion, Reraised, TaskStates, Converting, Loading, Over
  <2>2. ui' \in UiStates
    BY <1>0, <1>b, <1>9, PublishFacts, SetPhaseFacts, ReadyFacts, ClearFacts,
         SetStatusFacts DEF StopQuietly
  <2>3. Tabled'
    BY <1>0, <1>c, <1>9 DEF StopQuietly, AfterConversion, Reraised, Tabled, registered, pending, engine
  <2>4. QED
    BY <2>1, <2>2, <2>3, TypePartsNext
<1>10. ASSUME NEW t \in Tasks, KillConverter(t) PROVE PrepTypeOK'
  <2>1. task' \in [Tasks -> TaskStates]
    BY <1>0, <1>10 DEF KillConverter, TaskStates, Converting, Loading, Over
  <2>2. ui' \in UiStates
    BY <1>0, <1>b, <1>10, PublishFacts, SetPhaseFacts, ReadyFacts, ClearFacts,
         SetStatusFacts DEF KillConverter
  <2>3. Tabled'
    BY <1>0, <1>c, <1>10 DEF KillConverter, Tabled, registered, pending, engine
  <2>4. QED
    BY <2>1, <2>2, <2>3, TypePartsNext
<1>11. ASSUME NEW t \in Tasks, StopConversion(t) PROVE PrepTypeOK'
  <2>1. task' \in [Tasks -> TaskStates]
    <3>1. Reraised(t) \in BOOLEAN
      BY DEF Reraised
    <3>2. QED
      BY <1>0, <1>11, <3>1, AfterConversionType DEF StopConversion
  <2>2. ui' \in UiStates
    BY <1>0, <1>b, <1>11, PublishFacts, SetPhaseFacts, ReadyFacts, ClearFacts,
         SetStatusFacts DEF StopConversion
  <2>3. Tabled'
    BY <1>0, <1>c, <1>11 DEF StopConversion, AfterConversion, ForgetConversion, Reraised, Tabled,
         registered, pending, engine
  <2>4. QED
    BY <2>1, <2>2, <2>3, TypePartsNext
<1>12. ASSUME NEW t \in Tasks, StopBuild(t) PROVE PrepTypeOK'
  <2>1. task' \in [Tasks -> TaskStates]
    BY <1>0, <1>12 DEF StopBuild, TaskStates, Converting, Loading, Over
  <2>2. ui' \in UiStates
    BY <1>0, <1>b, <1>12, PublishFacts, SetPhaseFacts, ReadyFacts, ClearFacts,
         SetStatusFacts DEF StopBuild
  <2>3. Tabled'
    BY <1>0, <1>c, <1>12 DEF StopBuild, Tabled, registered, pending, engine
  <2>4. QED
    BY <2>1, <2>2, <2>3, TypePartsNext
<1>13. ASSUME NEW t \in Tasks, DrainEnds(t) PROVE PrepTypeOK'
  <2>1. task' \in [Tasks -> TaskStates]
    <3>1. Reraised(t) \in BOOLEAN
      BY DEF Reraised
    <3>2. [task[t] EXCEPT !.pc = "settling", !.cancelled = Reraised(t)] \in TaskStates
      BY <1>0, <1>13, <3>1 DEF TaskStates, Over
    <3>3. task' = [task EXCEPT ![t] = [task[t] EXCEPT !.pc = "settling", !.cancelled = Reraised(t)]]
      BY <1>0, <1>13 DEF DrainEnds, TaskStates
    <3>4. QED
      BY <1>0, <1>13, <3>2, <3>3
  <2>2. ui' \in UiStates
    BY <1>0, <1>b, <1>13, PublishFacts, SetPhaseFacts, ReadyFacts, ClearFacts,
         SetStatusFacts DEF DrainEnds
  <2>3. Tabled'
    BY <1>0, <1>c, <1>13 DEF DrainEnds, Tabled, registered, pending, engine
  <2>4. QED
    BY <2>1, <2>2, <2>3, TypePartsNext
<1>14. ASSUME NEW t \in Tasks, Settle(t) PROVE PrepTypeOK'
  <2>1. task' \in [Tasks -> TaskStates]
    BY <1>0, <1>14 DEF Settle, TaskStates, Converting, Loading, Over
  <2>2. ui' \in UiStates
    BY <1>0, <1>b, <1>14, PublishFacts, SetPhaseFacts, ReadyFacts, ClearFacts, SetStatusFacts DEF Settle
  <2>3. Tabled'
    BY <1>0, <1>c, <1>14 DEF Settle, Tabled, registered, pending, engine
  <2>4. QED
    BY <2>1, <2>2, <2>3, TypePartsNext
<1>15. ASSUME NEW t \in Tasks, ConversionSucceeds(t) PROVE PrepTypeOK'
  <2>1. task' \in [Tasks -> TaskStates]
    BY <1>0, <1>15 DEF ConversionSucceeds, AfterConversion, ForgetConversion, TaskStates,
         Converting, Loading, Over
  <2>2. ui' \in UiStates
    BY <1>0, <1>b, <1>15, PublishFacts, SetPhaseFacts, ReadyFacts, ClearFacts,
         SetStatusFacts DEF ConversionSucceeds
  <2>3. Tabled'
    BY <1>0, <1>c, <1>15 DEF ConversionSucceeds, AfterConversion, ForgetConversion, Tabled,
         registered, pending, engine
  <2>4. QED
    BY <2>1, <2>2, <2>3, TypePartsNext
<1>16. ASSUME NEW t \in Tasks, ConversionFails(t) PROVE PrepTypeOK'
  <2>1. task' \in [Tasks -> TaskStates]
    BY <1>0, <1>16, AfterConversionType DEF ConversionFails
  <2>2. ui' \in UiStates
    BY <1>0, <1>b, <1>16, PublishFacts, SetPhaseFacts, ReadyFacts, ClearFacts,
         SetStatusFacts DEF ConversionFails
  <2>3. Tabled'
    BY <1>0, <1>c, <1>16 DEF ConversionFails, AfterConversion, ForgetConversion, Tabled,
         registered, pending, engine
  <2>4. QED
    BY <2>1, <2>2, <2>3, TypePartsNext
<1>17. ASSUME NEW t \in Tasks, ReadLine(t) PROVE PrepTypeOK'
  <2>1. task' \in [Tasks -> TaskStates]
    BY <1>0, <1>17 DEF ReadLine, TaskStates, Converting, Loading, Over
  <2>2. ui' \in UiStates
    <3>1. ConversionPhases \subseteq Phases
      BY DEF ConversionPhases, Phases
    <3>2. QED
      BY <1>0, <3>1, <1>17, SetPhaseFacts DEF ReadLine
  <2>3. Tabled'
    BY <1>0, <1>c, <1>17 DEF ReadLine, Tabled, registered, pending, engine
  <2>4. QED
    BY <2>1, <2>2, <2>3, TypePartsNext
<1>18. ASSUME NEW t \in Tasks, LoadQueued(t) PROVE PrepTypeOK'
  <2>1. task' \in [Tasks -> TaskStates]
    BY <1>0, <1>18 DEF LoadQueued, TaskStates, Converting, Loading, Over
  <2>2. ui' \in UiStates
    BY <1>0, <1>b, <1>18, PublishFacts, SetPhaseFacts, ReadyFacts, ClearFacts,
         SetStatusFacts DEF LoadQueued
  <2>3. Tabled'
    BY <1>0, <1>c, <1>18 DEF LoadQueued, Tabled, registered, pending, engine
  <2>4. QED
    BY <2>1, <2>2, <2>3, TypePartsNext
<1>19. ASSUME NEW t \in Tasks, WatchdogFires(t) PROVE PrepTypeOK'
  <2>1. task' \in [Tasks -> TaskStates]
    BY <1>0, <1>19, StopType DEF WatchdogFires
  <2>2. ui' \in UiStates
    BY <1>0, <1>b, <1>c, <1>19 DEF WatchdogFires, UiStates
  <2>3. Tabled'
    BY <1>0, <1>c, <1>19 DEF WatchdogFires, Tabled, registered, pending, engine
  <2>4. QED
    BY <2>1, <2>2, <2>3, TypePartsNext
<1>20. ASSUME NEW t \in Tasks, RunCallbacks(t) PROVE PrepTypeOK'
  <2> DEFINE ts == [task EXCEPT ![t].pc = "done", ![t].fmt = FALSE, ![t].stop = {}]
  <2>1. ts \in [Tasks -> TaskStates]
    <3>1. [task[t] EXCEPT !.pc = "done", !.fmt = FALSE, !.stop = {}] \in TaskStates
      BY <1>0, <1>20 DEF TaskStates, Over
    <3>2. ts = [task EXCEPT ![t] = [task[t] EXCEPT !.pc = "done", !.fmt = FALSE, !.stop = {}]]
      BY <1>0, <1>20 DEF TaskStates
    <3>3. QED
      BY <1>0, <1>20, <3>1, <3>2
  <2>2. UNCHANGED <<convTask, lock, complete, engine, cancel, down>>
    BY <1>20 DEF RunCallbacks
  <2>3. CASE ScheduleLoad(ts, FALSE, None)
    BY <2>1, <2>2, <2>3, <1>c, ScheduleLoadType
  <2>4. CASE task' = ts /\ UNCHANGED <<loadTask, ui>> /\ ((follow' = FALSE /\ callback' = None) \/ UNCHANGED pending)
    <3>1. Tabled'
      BY <1>0, <2>2, <2>4, <1>c DEF Tabled, engine, pending
    <3>2. QED
      BY <1>0, <2>1, <2>4, <3>1, TypePartsNext
  <2>5. QED
    BY <1>20, <2>3, <2>4 DEF RunCallbacks
<1>21. ASSUME RequestLoad PROVE PrepTypeOK'
  BY <1>0, <1>21, ScheduleLoadType DEF RequestLoad, Tabled
<1>22. ASSUME Delete PROVE PrepTypeOK'
  <2>1. task' \in [Tasks -> TaskStates]
    BY <1>0, <1>22 DEF Delete, TaskStates, Converting, Loading, Over
  <2>2. ui' \in UiStates
    BY <1>0, <1>b, <1>22, PublishFacts, SetPhaseFacts, ReadyFacts, ClearFacts, SetStatusFacts DEF Delete
  <2>3. Tabled'
    BY <1>0, <1>c, <1>22 DEF Delete, Tabled, registered, pending, engine
  <2>4. QED
    BY <2>1, <2>2, <2>3, TypePartsNext
<1>23. ASSUME Unload PROVE PrepTypeOK'
  <2>1. task' \in [Tasks -> TaskStates]
    BY <1>0, <1>23 DEF Unload, TaskStates, Converting, Loading, Over
  <2>2. ui' \in UiStates
    BY <1>0, <1>b, <1>23, PublishFacts, SetPhaseFacts, ReadyFacts, ClearFacts, SetStatusFacts DEF Unload
  <2>3. Tabled'
    BY <1>0, <1>c, <1>23 DEF Unload, Tabled, registered, pending, engine
  <2>4. QED
    BY <2>1, <2>2, <2>3, TypePartsNext
<1>24. ASSUME StartGeneration PROVE PrepTypeOK'
  <2>1. task' \in [Tasks -> TaskStates]
    BY <1>0, <1>24 DEF StartGeneration, TaskStates, Converting, Loading, Over
  <2>2. ui' \in UiStates
    BY <1>0, <1>b, <1>24, PublishFacts, SetPhaseFacts, ReadyFacts, ClearFacts,
         SetStatusFacts DEF StartGeneration
  <2>3. Tabled'
    BY <1>0, <1>c, <1>24 DEF StartGeneration, Tabled, registered, pending, engine
  <2>4. QED
    BY <2>1, <2>2, <2>3, TypePartsNext
<1>25. ASSUME EndGeneration PROVE PrepTypeOK'
  <2>1. task' \in [Tasks -> TaskStates]
    BY <1>0, <1>25 DEF EndGeneration, TaskStates, Converting, Loading, Over
  <2>2. ui' \in UiStates
    BY <1>0, <1>b, <1>25, PublishFacts, SetPhaseFacts, ReadyFacts, ClearFacts,
         SetStatusFacts DEF EndGeneration
  <2>3. Tabled'
    BY <1>0, <1>c, <1>25 DEF EndGeneration, Tabled, registered, pending, engine
  <2>4. QED
    BY <2>1, <2>2, <2>3, TypePartsNext
<1>26. ASSUME CancelEnd PROVE PrepTypeOK'
  <2>1. task' \in [Tasks -> TaskStates]
    BY <1>0, <1>26 DEF CancelEnd, TaskStates, Converting, Loading, Over
  <2>2. ui' \in UiStates
    BY <1>0, <1>b, <1>26, PublishFacts, SetPhaseFacts, ReadyFacts, ClearFacts,
         SetStatusFacts DEF CancelEnd
  <2>3. Tabled'
    BY <1>0, <1>c, <1>26 DEF CancelEnd, Tabled, registered, pending, engine
  <2>4. QED
    BY <2>1, <2>2, <2>3, TypePartsNext
<1>27. ASSUME ShutdownBegins PROVE PrepTypeOK'
  <2>1. task' \in [Tasks -> TaskStates]
    <3>1. \A r \in {loadTask, convTask} : Live(r) => r \in Tasks
      BY <1>0, PreparationAssumption DEF Live, Tabled, Tasks, None
    <3>2. task' = task \/ \E r \in Tasks : task' = [task EXCEPT ![r].stop = @ \cup {"request"}]
      BY <1>27, <3>1 DEF ShutdownBegins, StopAndAwait
    <3>3. QED
      BY <1>0, <3>2, StopType
  <2>2. ui' \in UiStates
    BY <1>0, <1>b, <1>27, PublishFacts, SetPhaseFacts, ReadyFacts, ClearFacts,
         SetStatusFacts DEF ShutdownBegins
  <2>3. Tabled'
    BY <1>0, <1>c, <1>27 DEF ShutdownBegins, StopAndAwait, Live, Tabled, registered, pending, engine
  <2>4. QED
    BY <2>1, <2>2, <2>3, TypePartsNext
<1>28. ASSUME ShutdownLoadsDone PROVE PrepTypeOK'
  <2>1. task' \in [Tasks -> TaskStates]
    <3>1. \A r \in {loadTask, convTask} : Live(r) => r \in Tasks
      BY <1>0, PreparationAssumption DEF Live, Tabled, Tasks, None
    <3>2. task' = task \/ \E r \in Tasks : task' = [task EXCEPT ![r].stop = @ \cup {"request"}]
      BY <1>28, <3>1 DEF ShutdownLoadsDone, StopAndAwait
    <3>3. QED
      BY <1>0, <3>2, StopType
  <2>2. ui' \in UiStates
    BY <1>0, <1>b, <1>28, PublishFacts, SetPhaseFacts, ReadyFacts, ClearFacts,
         SetStatusFacts DEF ShutdownLoadsDone
  <2>3. Tabled'
    BY <1>0, <1>c, <1>28 DEF ShutdownLoadsDone, StopAndAwait, Live, Tabled, registered, pending, engine
  <2>4. QED
    BY <2>1, <2>2, <2>3, TypePartsNext
<1>29. ASSUME ShutdownConvertsDone PROVE PrepTypeOK'
  <2>1. task' \in [Tasks -> TaskStates]
    BY <1>0, <1>29 DEF ShutdownConvertsDone, TaskStates, Converting, Loading, Over
  <2>2. ui' \in UiStates
    BY <1>0, <1>b, <1>29, PublishFacts, SetPhaseFacts, ReadyFacts, ClearFacts,
         SetStatusFacts DEF ShutdownConvertsDone
  <2>3. Tabled'
    BY <1>0, <1>c, <1>29 DEF ShutdownConvertsDone, Tabled, registered, pending, engine
  <2>4. QED
    BY <2>1, <2>2, <2>3, TypePartsNext
<1>30. ASSUME ShutdownEnds PROVE PrepTypeOK'
  <2>1. task' \in [Tasks -> TaskStates]
    BY <1>0, <1>30 DEF ShutdownEnds, TaskStates, Converting, Loading, Over
  <2>2. ui' \in UiStates
    BY <1>0, <1>b, <1>30 DEF ShutdownEnds, UiStates
  <2>3. Tabled'
    BY <1>0, <1>c, <1>30 DEF ShutdownEnds, Tabled, registered, pending, engine
  <2>4. QED
    BY <2>1, <2>2, <2>3, TypePartsNext
<1>31. ASSUME NEW fmt \in BOOLEAN, NEW load_after \in BOOLEAN, RequestConvert(fmt, load_after)
       PROVE  PrepTypeOK'
  <2>1. task' \in [Tasks -> TaskStates]
    <3>1. task' = task \/ \E n \in Tasks : NewTask(task, n, "convert", fmt, Publish(ClearProgress(ui), "queued_convert", "queued"))
      BY <1>31 DEF RequestConvert
    <3>2. Publish(ClearProgress(ui), "queued_convert", "queued") \in UiStates
      BY <1>0, <1>b, PublishFacts, ClearFacts
    <3>3. QED
      BY <1>0, <1>31, <3>1, <3>2, NewTaskType
  <2>2. ui' \in UiStates
    BY <1>0, <1>b, <1>31, PublishFacts, SetPhaseFacts, ReadyFacts, ClearFacts,
         SetStatusFacts DEF RequestConvert
  <2>3. Tabled'
    BY <1>0, <1>c, <1>31 DEF RequestConvert, Remember, Tabled, registered, pending, engine
  <2>4. QED
    BY <2>1, <2>2, <2>3, TypePartsNext
<1>32. ASSUME NEW id \in Nat, CancelBegin(id) PROVE PrepTypeOK'
  <2>1. task' \in [Tasks -> TaskStates]
    <3>1. \A r \in {loadTask, convTask} : Live(r) => r \in Tasks
      BY <1>0, PreparationAssumption DEF Live, Tabled, Tasks, None
    <3>2. PICK r \in Tasks : task' = [task EXCEPT ![r].stop = @ \cup {"request"}]
      BY <1>32, <3>1 DEF CancelBegin, Cancellable
    <3>3. QED
      BY <1>0, <3>2, StopType
  <2>2. ui' \in UiStates
    BY <1>0, <1>b, <1>32, PublishFacts, SetPhaseFacts, ReadyFacts, ClearFacts,
         SetStatusFacts DEF CancelBegin
  <2>3. Tabled'
    BY <1>0, <1>c, <1>32 DEF CancelBegin, Tabled, registered, pending, engine
  <2>4. QED
    BY <2>1, <2>2, <2>3, TypePartsNext
<1>33. CASE UNCHANGED vars
  BY <1>33 DEF vars, registered, pending, engine, PrepTypeOK
<1>34. QED
  BY <1>1, <1>2, <1>3, <1>4, <1>5, <1>6, <1>7, <1>8, <1>9, <1>10, <1>11, <1>12, <1>13, <1>14,
       <1>15, <1>16, <1>17, <1>18, <1>19, <1>20, <1>21, <1>22, <1>23, <1>24, <1>25, <1>26, <1>27,
            <1>28, <1>29, <1>30, <1>31, <1>32, <1>33 DEF PrepNext, TaskStep, ConverterEnds

\* Whoever takes the lock or lets it go, and whatever lets a converter run.
LEMMA LockKept ==
  ASSUME LockHeld, lock' = lock,
         \A s \in Tasks :
           /\ task'[s].pc \in {"converting", "stopping"} <=> task[s].pc \in {"converting", "stopping"}
           /\ task'[s].proc => task[s].proc
  PROVE  LockHeld'
BY DEF LockHeld

\* A new task is no converter yet.
LEMMA LockKeptByNew ==
  ASSUME LockHeld, lock' = lock, NEW ts, DOMAIN ts = Tasks,
         \A s \in Tasks : /\ ts[s].pc \in {"converting", "stopping"} <=> task[s].pc \in {"converting", "stopping"}
                          /\ ts[s].proc = task[s].proc,
         NEW n \in Tasks, NEW u, NEW k, NEW fmt, NewTask(ts, n, k, fmt, u)
  PROVE  LockHeld'
<1>1. ts[n].pc = "idle" /\ task' = [ts EXCEPT ![n] = [NoTask EXCEPT !.kind = k, !.pc = "queued", !.fmt = fmt,
                                                                    !.born = u.id]]
  BY DEF NewTask
<1>2. task'[n].pc = "queued" /\ task'[n].proc = FALSE
  BY <1>1 DEF NoTask
<1>3. \A s \in Tasks : s # n => task'[s] = ts[s]
  BY <1>1
<1>4. \A s \in Tasks :
        /\ task'[s].pc \in {"converting", "stopping"} <=> task[s].pc \in {"converting", "stopping"}
        /\ task'[s].proc => task[s].proc
  BY <1>1, <1>2, <1>3
<1>5. QED
  BY <1>4, LockKept

LEMMA LockStep ==
  ASSUME PrepTypeOK, LockHeld, [PrepNext]_vars
  PROVE  LockHeld'
<1>0. task \in [Tasks -> TaskStates] /\ None \notin Tasks
  BY TypeParts, PreparationAssumption DEF Tasks, None
<1>1. ASSUME NEW t \in Tasks, Start(t) PROVE LockHeld'
  BY <1>0, <1>1, LockKept DEF Start, TaskStates
<1>2. ASSUME NEW t \in Tasks, AccessGranted(t) PROVE LockHeld'
  BY <1>0, <1>2, LockKept DEF AccessGranted, TaskStates
<1>3. ASSUME NEW t \in Tasks, AccessDenied(t) PROVE LockHeld'
  BY <1>0, <1>3, LockKept DEF AccessDenied, AfterConversion, TaskStates
<1>4. ASSUME NEW t \in Tasks, BeginConversion(t) PROVE LockHeld'
  BY <1>0, <1>4 DEF BeginConversion, ForgetConversion, LockHeld, TaskStates
<1>5. ASSUME NEW t \in Tasks, RecordProfile(t) PROVE LockHeld'
  BY <1>0, <1>5, LockKept DEF RecordProfile, AfterConversion, TaskStates
<1>6. ASSUME NEW t \in Tasks, LoadTurn(t) PROVE LockHeld'
  BY <1>0, <1>6, LockKept DEF LoadTurn, TaskStates
<1>7. ASSUME NEW t \in Tasks, LoadConverted(t) PROVE LockHeld'
  BY <1>0, <1>7, LockKept DEF LoadConverted, TaskStates
<1>8. ASSUME NEW t \in Tasks, BuildEnds(t) PROVE LockHeld'
  BY <1>0, <1>8, LockKept DEF BuildEnds, TaskStates
<1>9. ASSUME NEW t \in Tasks, StopQuietly(t) PROVE LockHeld'
  BY <1>0, <1>9, LockKept DEF StopQuietly, AfterConversion, Reraised, TaskStates
<1>10. ASSUME NEW t \in Tasks, KillConverter(t) PROVE LockHeld'
  BY <1>0, <1>10, LockKept DEF KillConverter, TaskStates
<1>11. ASSUME NEW t \in Tasks, StopConversion(t) PROVE LockHeld'
  BY <1>0, <1>11 DEF StopConversion, AfterConversion, ForgetConversion, Reraised, LockHeld, TaskStates
<1>12. ASSUME NEW t \in Tasks, StopBuild(t) PROVE LockHeld'
  BY <1>0, <1>12, LockKept DEF StopBuild, TaskStates
<1>13. ASSUME NEW t \in Tasks, DrainEnds(t) PROVE LockHeld'
  BY <1>0, <1>13, LockKept DEF DrainEnds, TaskStates
<1>14. ASSUME NEW t \in Tasks, Settle(t) PROVE LockHeld'
  BY <1>0, <1>14, LockKept DEF Settle, TaskStates
<1>15. ASSUME NEW t \in Tasks, ConversionSucceeds(t) PROVE LockHeld'
  BY <1>0, <1>15 DEF ConversionSucceeds, AfterConversion, ForgetConversion, LockHeld, TaskStates
<1>16. ASSUME NEW t \in Tasks, ConversionFails(t) PROVE LockHeld'
  BY <1>0, <1>16 DEF ConversionFails, AfterConversion, ForgetConversion, LockHeld, TaskStates
<1>17. ASSUME NEW t \in Tasks, ReadLine(t) PROVE LockHeld'
  BY <1>0, <1>17, LockKept DEF ReadLine, TaskStates
<1>18. ASSUME NEW t \in Tasks, LoadQueued(t) PROVE LockHeld'
  BY <1>0, <1>18, LockKept DEF LoadQueued, TaskStates
<1>19. ASSUME NEW t \in Tasks, WatchdogFires(t) PROVE LockHeld'
  BY <1>0, <1>19, LockKept DEF WatchdogFires, TaskStates
<1>20. ASSUME NEW t \in Tasks, RunCallbacks(t) PROVE LockHeld'
  <2> DEFINE ts == [task EXCEPT ![t].pc = "done", ![t].fmt = FALSE, ![t].stop = {}]
  <2>1. \A s \in Tasks :
        /\ ts[s].pc \in {"converting", "stopping"} <=> task[s].pc \in {"converting", "stopping"}
        /\ ts[s].proc = task[s].proc
    BY <1>0, <1>20 DEF RunCallbacks, TaskStates
  <2>2. DOMAIN ts = Tasks
    BY <1>0
  <2>3. CASE ScheduleLoad(ts, FALSE, None)
    <3>1. task' = ts \/ \E n \in Tasks, u \in {Publish(ClearProgress(ui), "queued", "queued")} :
                          NewTask(ts, n, "load", FALSE, u)
      BY <2>3 DEF ScheduleLoad
    <3>2. lock' = lock
      BY <1>20 DEF RunCallbacks
    <3>3. CASE task' = ts
      BY <2>1, <3>2, <3>3, LockKept
    <3>4. CASE task' # ts
      <4>1. PICK n \in Tasks, u \in {Publish(ClearProgress(ui), "queued", "queued")} :
              NewTask(ts, n, "load", FALSE, u)
        BY <3>1, <3>4
      <4> HIDE DEF ts
      <4>2. QED
        BY <2>1, <2>2, <3>2, <4>1, LockKeptByNew
    <3>5. QED
      BY <3>3, <3>4
  <2>4. CASE task' = ts
    <3>1. lock' = lock
      BY <1>20 DEF RunCallbacks
    <3>2. QED
      BY <2>1, <2>4, <3>1, LockKept
  <2>5. QED
    BY <1>20, <2>3, <2>4 DEF RunCallbacks
<1>21. ASSUME RequestLoad PROVE LockHeld'
  BY <1>0, <1>21, LockKept DEF RequestLoad, ScheduleLoad, NewTask, NoTask
<1>22. ASSUME Delete PROVE LockHeld'
  BY <1>0, <1>22, LockKept DEF Delete, TaskStates
<1>23. ASSUME Unload PROVE LockHeld'
  BY <1>0, <1>23, LockKept DEF Unload, TaskStates
<1>24. ASSUME StartGeneration PROVE LockHeld'
  BY <1>0, <1>24, LockKept DEF StartGeneration, TaskStates
<1>25. ASSUME EndGeneration PROVE LockHeld'
  BY <1>0, <1>25, LockKept DEF EndGeneration, TaskStates
<1>26. ASSUME CancelEnd PROVE LockHeld'
  BY <1>0, <1>26, LockKept DEF CancelEnd, TaskStates
<1>27. ASSUME ShutdownBegins PROVE LockHeld'
  BY <1>0, <1>27, LockKept DEF ShutdownBegins, StopAndAwait, TaskStates
<1>28. ASSUME ShutdownLoadsDone PROVE LockHeld'
  BY <1>0, <1>28, LockKept DEF ShutdownLoadsDone, StopAndAwait, TaskStates
<1>29. ASSUME ShutdownConvertsDone PROVE LockHeld'
  BY <1>0, <1>29, LockKept DEF ShutdownConvertsDone, TaskStates
<1>30. ASSUME ShutdownEnds PROVE LockHeld'
  BY <1>0, <1>30, LockKept DEF ShutdownEnds, TaskStates
<1>31. ASSUME NEW fmt \in BOOLEAN, NEW load_after \in BOOLEAN, RequestConvert(fmt, load_after)
       PROVE  LockHeld'
  <2>1. task' = task \/ \E n \in Tasks, u \in {Publish(ClearProgress(ui), "queued_convert", "queued")} :
                          NewTask(task, n, "convert", fmt, u)
    BY <1>31 DEF RequestConvert
  <2>2. lock' = lock
    BY <1>31 DEF RequestConvert
  <2>3. CASE task' = task
    BY <2>2, <2>3, LockKept
  <2>4. CASE task' # task
    BY <1>0, <2>1, <2>2, <2>4, LockKeptByNew
  <2>5. QED
    BY <2>3, <2>4
<1>32. ASSUME NEW id \in Nat, CancelBegin(id) PROVE LockHeld'
  BY <1>0, <1>32, LockKept DEF CancelBegin, TaskStates
<1>33. CASE UNCHANGED vars
  BY <1>33 DEF vars, LockHeld
<1>34. QED
  BY <1>1, <1>2, <1>3, <1>4, <1>5, <1>6, <1>7, <1>8, <1>9, <1>10, <1>11, <1>12, <1>13, <1>14,
       <1>15, <1>16, <1>17, <1>18, <1>19, <1>20, <1>21, <1>22, <1>23, <1>24, <1>25, <1>26, <1>27,
            <1>28, <1>29, <1>30, <1>31, <1>32, <1>33 DEF PrepNext, TaskStep, ConverterEnds

-----------------------------------------------------------------------------
(* Cancellation and shutdown.                                               *)

\* Only they touch what they remember.
LEMMA Frame ==
  ASSUME [PrepNext]_vars
  PROVE  /\ cancel' = cancel \/ CancelEnd \/ \E id \in Nat : CancelBegin(id)
         /\ down' = down \/ ShutdownBegins \/ ShutdownLoadsDone \/ ShutdownConvertsDone \/ ShutdownEnds
<1>1. ASSUME NEW t \in Tasks, TaskStep(t) \/ ConverterEnds(t) \/ ReadLine(t) \/ LoadQueued(t) \/ WatchdogFires(t)
      PROVE  cancel' = cancel /\ down' = down
  BY <1>1 DEF TaskStep, ConverterEnds, Start, AccessGranted, AccessDenied, BeginConversion,
       RecordProfile, LoadTurn, LoadConverted, BuildEnds, StopQuietly, KillConverter, StopConversion, StopBuild, DrainEnds, Settle, RunCallbacks, ConversionSucceeds, ConversionFails, ReadLine, LoadQueued, WatchdogFires
<1>2. ASSUME RequestLoad \/ Delete \/ Unload \/ StartGeneration \/ EndGeneration
      PROVE  cancel' = cancel /\ down' = down
  BY <1>2 DEF RequestLoad, Delete, Unload, StartGeneration, EndGeneration
<1>3. ASSUME NEW fmt \in BOOLEAN, NEW load_after \in BOOLEAN, RequestConvert(fmt, load_after)
      PROVE  cancel' = cancel /\ down' = down
  BY <1>3 DEF RequestConvert
<1>4. ASSUME NEW id \in 1..ui.ids, CancelBegin(id) PROVE id \in Nat /\ down' = down
  BY <1>4 DEF CancelBegin
<1>5. CASE CancelEnd
  BY <1>5 DEF CancelEnd
<1>6. ASSUME ShutdownBegins \/ ShutdownLoadsDone \/ ShutdownConvertsDone \/ ShutdownEnds
      PROVE  cancel' = cancel
  BY <1>6 DEF ShutdownBegins, ShutdownLoadsDone, ShutdownConvertsDone, ShutdownEnds
<1>7. CASE UNCHANGED vars
  BY <1>7 DEF vars
<1>8. QED
  BY <1>1, <1>2, <1>3, <1>4, <1>5, <1>6, <1>7 DEF PrepNext

LEMMA StepMoves ==
  ASSUME PrepIInv, ~Overlapping, [PrepNext]_vars
  PROVE  \/ Moves
         \/ \E n \in Tasks, k \in {"load", "convert"} : Begins(n, k)
         \/ ShutdownEnds
<1>1. ASSUME NEW t \in Tasks, TaskStep(t) \/ ConverterEnds(t) \/ ReadLine(t) \/ LoadQueued(t) \/ WatchdogFires(t)
      PROVE  Moves \/ \E n \in Tasks, k \in {"load", "convert"} : Begins(n, k)
  BY <1>1, TaskMoves, RequestMoves
<1>2. ASSUME RequestLoad \/ \E fmt, load_after \in BOOLEAN : RequestConvert(fmt, load_after)
      PROVE  Moves \/ \E n \in Tasks, k \in {"load", "convert"} : Begins(n, k)
  BY <1>2, RequestMoves
<1>3. ASSUME Delete \/ Unload \/ StartGeneration \/ EndGeneration \/ CancelEnd \/ \E id \in 1..ui.ids : CancelBegin(id)
      PROVE  Moves
  BY <1>3, ClientMoves
<1>4. ASSUME ShutdownBegins \/ ShutdownLoadsDone \/ ShutdownConvertsDone PROVE Moves
  BY <1>4, ShutdownMoves
<1>5. CASE UNCHANGED vars
  <2>1. SameWork(task)
    BY DEF SameWork
  <2>2. \A s \in Tasks : Later(s)
    BY <1>5, <2>1, SameWorkLater DEF vars
  <2>3. QED
    BY <1>5, <2>2, UnchangedTold DEF vars, registered, engine, Moves, Tables
<1>6. QED
  BY <1>1, <1>2, <1>3, <1>4, <1>5 DEF PrepNext

LEMMA ShutdownEndsKeeps ==
  ASSUME PrepIInv, ShutdownEnds
  PROVE  Kept' /\ TimedOut' /\ Cancelling' /\ GoingDown'
<1>1. /\ task' = task /\ loadTask' = None /\ convTask' = None /\ loaded' = FALSE /\ cancel' = cancel
      /\ ui'.id = ui.id /\ ui'.ids = ui.ids /\ ui'.phase = "idle"
      /\ down'.pc = "off" /\ down.pc = "drain"
  BY DEF ShutdownEnds, PrepIInv, PrepTypeOK
<1>2. ~ActiveOperation
  BY <1>1 DEF PrepIInv, GoingDown, ActiveOperation
<1>3. \A s \in Tasks : ~AtWork(s)
  BY <1>2, WorkIsActive
<1>4. ~Live(loadTask)' /\ ~Live(convTask)'
  BY <1>1 DEF Live
<1>5. Kinds' /\ Registered' /\ Alone' /\ CancelledIsOver'
  BY <1>1, <1>3, <1>4 DEF Kinds, Registered, AtWork, WorkOf, IsLoad, Alone, CancelledIsOver, PrepIInv
<1>6. Named' /\ Cancelling'
  BY <1>1, <1>4 DEF Named, Cancelling, PrepIInv
<1>7. TimedOut' /\ GoingDown'
  BY <1>1, <1>4 DEF TimedOut, GoingDown
<1>8. QED
  BY <1>5, <1>6, <1>7 DEF Kept

LEMMA CancellingStep ==
  ASSUME PrepIInv, [PrepNext]_vars,
         \A s \in Tasks : task[s].pc # "idle" => task'[s].pc # "idle" /\ task'[s].born = task[s].born
  PROVE  Cancelling'
<1>0. cancel.t \in Tasks \cup {None} /\ task \in [Tasks -> TaskStates]
  BY PreparationAssumption, TypeParts DEF PrepIInv, PrepTypeOK, Tasks, None
<1>1. CASE cancel' = cancel
  BY <1>0, <1>1 DEF Cancelling, PrepIInv
<1>2. CASE CancelEnd
  BY <1>2 DEF Cancelling, CancelEnd
<1>3. ASSUME NEW id \in Nat, CancelBegin(id) PROVE Cancelling'
  <2>1. PICK r \in {loadTask, convTask} :
          Live(r) /\ id = ui.id /\ task' = [task EXCEPT ![r].stop = @ \cup {"request"}] /\ cancel' = [id |-> id, t |-> r]
    BY <1>3 DEF CancelBegin, Cancellable
  <2>2. r \in Tasks /\ task[r].pc # "idle" /\ task[r].born = ui.id
    BY <2>1, TableTypes DEF Live, PrepIInv, Kinds, Named
  <2>3. QED
    BY <2>1, <2>2 DEF Cancelling
<1>4. QED
  BY <1>1, <1>2, <1>3, Frame

LEMMA GoingDownStep ==
  ASSUME PrepIInv, [PrepNext]_vars, ~ShutdownEnds,
         \/ Moves /\ (~Live(loadTask) => ~Live(loadTask)') /\ (~Live(convTask) => ~Live(convTask)')
         \/ \E n \in Tasks, k \in {"load", "convert"} : Begins(n, k)
  PROVE  GoingDown'
<1>1. CASE down' = down /\ down.pc = "up"
  BY <1>1 DEF GoingDown
<1>2. CASE down' = down /\ down.pc # "up"
  BY <1>2 DEF GoingDown, PrepIInv, Begins, Moves, Tables, Live
<1>0. ASSUME ShutdownBegins \/ ShutdownLoadsDone \/ ShutdownConvertsDone
      PROVE  /\ loadTask' = loadTask /\ (~Live(loadTask) => ~Live(loadTask)')
             /\ convTask' = convTask /\ (~Live(convTask) => ~Live(convTask)')
  <2>1. loadTask' = loadTask /\ convTask' = convTask
    BY <1>0 DEF ShutdownBegins, ShutdownLoadsDone, ShutdownConvertsDone, registered
  <2>2. QED
    BY <1>0, <2>1, ShutdownMoves, OverStaysOver DEF Moves
<1>3. CASE ShutdownBegins
  <2>1. Live(loadTask)' => Live(loadTask) /\ loadTask' = loadTask
    BY <1>0, <1>3
  <2>2. QED
    BY <1>3, <2>1 DEF ShutdownBegins, GoingDown
<1>4. CASE ShutdownLoadsDone
  <2>1. ~Live(loadTask) /\ down.pc = "loads"
    BY <1>4 DEF ShutdownLoadsDone, Awaited, PrepIInv, GoingDown
  <2>2. convTask' = convTask /\ ~Live(loadTask)' /\ (Live(convTask)' => Live(convTask))
    BY <1>0, <1>4, <2>1
  <2>3. QED
    BY <1>4, <2>2 DEF ShutdownLoadsDone, GoingDown
<1>5. CASE ShutdownConvertsDone
  <2>1. ~Live(loadTask) /\ ~Live(convTask) /\ down.pc = "converts"
    BY <1>5 DEF ShutdownConvertsDone, Awaited, PrepIInv, GoingDown
  <2>2. ~Live(loadTask)' /\ ~Live(convTask)'
    BY <1>0, <1>5, <2>1
  <2>3. QED
    BY <1>5, <2>2 DEF ShutdownConvertsDone, GoingDown
<1>6. QED
  BY <1>1, <1>2, <1>3, <1>4, <1>5, Frame

-----------------------------------------------------------------------------
(* The theorems.                                                            *)

LEMMA InitIInv == PrepInit => PrepIInv
<1> SUFFICES ASSUME PrepInit PROVE PrepIInv
  OBVIOUS
<1> USE DEF PrepInit
<1>1. PrepTypeOK
  <2>1. NoTask \in TaskStates
    BY DEF NoTask, TaskStates
  <2>2. task \in [Tasks -> TaskStates]
    BY <2>1
  <2>3. None \in 0..MaxTasks
    BY PreparationAssumption DEF None
  <2>4. ui \in UiStates
    BY <2>3 DEF UiStates, Statuses, Phases
  <2>5. Tabled
    BY <2>3 DEF Tabled
  <2>6. QED
    BY <2>2, <2>4, <2>5, TypeParts
<1>2. \A t \in Tasks : task[t] = NoTask /\ t # None
  BY PreparationAssumption DEF Tasks, None
<1>3. LockHeld /\ Kinds /\ Registered
  BY <1>2 DEF LockHeld, Kinds, Registered, AtWork, WorkOf, NoTask, Loading, IsLoad
<1>4. Alone /\ Named /\ CancelledIsOver
  BY <1>2 DEF Alone, Named, CancelledIsOver, Live, ActiveOperation, NoTask
<1>5. Cancelling /\ TimedOut /\ GoingDown
  BY DEF Cancelling, TimedOut, GoingDown, Live
<1>6. QED
  BY <1>1, <1>3, <1>4, <1>5 DEF PrepIInv

LEMMA IInvStep ==
  ASSUME PrepIInv, ~Overlapping, [PrepNext]_vars
  PROVE  PrepIInv'
<1>1. PrepTypeOK' /\ LockHeld'
  BY TypeStep, LockStep DEF PrepIInv
<1>2. CASE ShutdownEnds
  BY <1>1, <1>2, ShutdownEndsKeeps DEF PrepIInv, Kept
<1>3. CASE Moves /\ ~ShutdownEnds
  <2>1. Kept' /\ Cancelling' /\ GoingDown'
    BY <1>1, <1>3, MovesKeeps, CancellingStep, GoingDownStep
  <2>2. CASE down.pc # "off"
    BY <1>1, <1>3, <2>1, <2>2, MovesKeeps DEF PrepIInv, Kept
  <2>3. CASE down.pc = "off"
    <3>1. down'.pc = "off"
      BY <1>3, <2>3, Frame DEF ShutdownBegins, ShutdownLoadsDone, ShutdownConvertsDone
    <3>2. ~Live(loadTask)' /\ ~Live(convTask)'
      BY <1>1, <1>3, <2>3, MovesKeeps DEF PrepIInv, GoingDown
    <3>3. TimedOut'
      BY <3>1, <3>2 DEF TimedOut, Live
    <3>4. QED
      BY <1>1, <2>1, <3>3 DEF PrepIInv, Kept
  <2>4. QED
    BY <2>2, <2>3
<1>4. CASE (\E n \in Tasks, k \in {"load", "convert"} : Begins(n, k)) /\ ~ShutdownEnds
  BY <1>1, <1>4, BeginsKeeps, CancellingStep, GoingDownStep DEF PrepIInv, Kept
<1>5. QED
  BY <1>2, <1>3, <1>4, StepMoves

LEMMA PrepInvariant ==
  ASSUME ~Overlapping
  PROVE  PrepSpec => []PrepIInv
<1>1. PrepIInv /\ [PrepNext]_vars => PrepIInv'
  BY IInvStep
<1>2. QED
  BY <1>1, InitIInv, PTL DEF PrepSpec

\* The types of the tasks, the tables and what the status API shows, also when a client
\* posts conversions that are not offered (ModelManager's state).
THEOREM PrepTypeCorrect == PrepSpec => []PrepTypeOK
<1>1. PrepInit => PrepTypeOK
  BY InitIInv DEF PrepIInv
<1>2. PrepTypeOK /\ [PrepNext]_vars => PrepTypeOK'
  BY TypeStep
<1>3. QED
  BY <1>1, <1>2, PTL DEF PrepSpec

\* _convert_lock lets at most one converter run, whichever of loads and conversions are
\* requested, cancelled or timed out, and it is held until the process is gone.
THEOREM ConvertersAreSerialized == PrepSpec => []OneConverter
<1>1. PrepInit => PrepTypeOK /\ LockHeld
  BY InitIInv DEF PrepIInv
<1>2. PrepTypeOK /\ LockHeld /\ [PrepNext]_vars => (PrepTypeOK /\ LockHeld)'
  BY TypeStep, LockStep
<1>3. PrepTypeOK /\ LockHeld => OneConverter
  BY DEF LockHeld, OneConverter
<1>4. QED
  BY <1>1, <1>2, <1>3, PTL DEF PrepSpec

\* One converter, work that its table holds, cancellation of the operation named and no
\* other, and nothing new after shutdown() (cancel_operation, shutdown, schedule_load).
THEOREM PrepIsSafe ==
  ASSUME ~Overlapping
  PROVE  PrepSpec => []PrepSafe
<1>1. PrepIInv => PrepSafe
  <2> SUFFICES ASSUME PrepIInv PROVE PrepSafe
    OBVIOUS
  <2>1. OneConverter
    BY DEF PrepIInv, LockHeld, OneConverter
  <2>2. RunningWorkIsRegistered
    BY DEF PrepIInv, Kinds, Registered, AtWork, WorkOf, Loading, RunningWorkIsRegistered
  <2>3. CancelStopsTheNamedOperation
    BY DEF PrepIInv, Cancelling, CancelStopsTheNamedOperation
  <2>4. NothingAfterShutdown
    <3>1. SUFFICES ASSUME down.pc = "off"
                   PROVE  ~loaded /\ \A t \in Tasks : ~task[t].proc /\ task[t].pc \in {"idle", "tail"} \cup Over
      BY DEF NothingAfterShutdown
    <3>2. ~loaded /\ \A t \in Tasks : ~AtWork(t)
      BY <3>1, WorkIsActive DEF PrepIInv, GoingDown, ActiveOperation
    <3>3. ASSUME NEW t \in Tasks PROVE ~task[t].proc /\ task[t].pc \in {"idle", "tail"} \cup Over
      <4>1. /\ task[t].pc \in {"idle", "queued"} \cup Converting \cup Loading \cup Over
            /\ task[t].pc \notin {"queued", "access", "convlock", "converting", "stopping"} \cup Loading
        BY <3>2 DEF PrepIInv, PrepTypeOK, Kinds, AtWork, WorkOf
      <4>2. ~task[t].proc
        BY <4>1 DEF PrepIInv, LockHeld
      <4>3. QED
        BY <4>1, <4>2 DEF Converting
    <3>4. QED
      BY <3>2, <3>3
  <2>5. QED
    BY <2>1, <2>2, <2>3, <2>4 DEF PrepSafe
<1>2. QED
  BY <1>1, PrepInvariant, PTL

\* "destructive deletes are rejected while work is active": guarded_delete.
THEOREM DeleteSparesRunningWork ==
  ASSUME ~Overlapping
  PROVE  PrepSpec => NoDeleteUnderWork
<1>1. ASSUME PrepIInv, [PrepNext]_vars, complete, ~complete'
      PROVE  \A t \in Tasks : ~task[t].proc /\ task[t].pc # "building"
  <2>1. ~ActiveOperation
    BY <1>1, StepMoves DEF Moves, Tables, Begins, ShutdownEnds
  <2>2. \A t \in Tasks : ~AtWork(t)
    BY <1>1, <2>1, WorkIsActive
  <2>3. QED
    BY <1>1, <2>2 DEF AtWork, WorkOf, Loading, PrepIInv, LockHeld, Kinds
<1>2. QED
  BY <1>1, PrepInvariant, PTL DEF PrepSpec, NoDeleteUnderWork

\* What a client is told of an end stays true: a cancellation that was answered, a
\* cancelled operation, a reported timeout (model_cancellation.py,
\* model_preparation_timeouts.py, structured_progress.py).
THEOREM ReportedEndsAreFinal ==
  ASSUME ~Overlapping
  PROVE  PrepSpec => EndsAreFinal
<1>1. ASSUME PrepIInv, [PrepNext]_vars, cancel.t # None, cancel'.t = None
      PROVE  ~task[cancel.t].proc /\ ~Live(cancel.t) /\ ~follow'
  <2>1. CancelEnd
    BY <1>1, Frame DEF CancelBegin
  <2>2. cancel.t \in Tasks
    BY <1>1, PreparationAssumption DEF PrepIInv, PrepTypeOK, Tasks, None
  <2>3. QED
    BY <1>1, <2>1, <2>2 DEF CancelEnd, Live, PrepIInv, LockHeld
<1>2. ASSUME PrepIInv, [PrepNext]_vars, ui.phase = "cancelled", ui.id # 0, ui'.id = ui.id, down'.pc # "off"
      PROVE  ui'.phase \in Terminal
  <2>1. ui.id \in Nat /\ ui.ids \in Nat /\ ui.id <= ui.ids
    BY <1>2 DEF PrepIInv, PrepTypeOK, Named
  <2>2. ~ShutdownEnds
    BY <1>2 DEF ShutdownEnds, PrepIInv, PrepTypeOK
  <2>3. ~\E n \in Tasks, k \in {"load", "convert"} : Begins(n, k)
    BY <1>2, <2>1 DEF Begins
  <2>4. QED
    BY <1>2, <2>2, <2>3, StepMoves DEF Moves, Told
<1>3. ASSUME PrepIInv, [PrepNext]_vars, ui.timedOut # None, down'.pc # "off"
      PROVE  IF ui'.timedOut = ui.timedOut
             THEN ui'.status = "error" /\ ui'.phase = "error"
             ELSE ~ActiveOperation
  <2>1. ~ShutdownEnds
    BY <1>3 DEF ShutdownEnds, PrepIInv, PrepTypeOK
  <2>2. down.pc # "off"
    BY <1>3, <2>1, Frame DEF ShutdownBegins, ShutdownLoadsDone, ShutdownConvertsDone
  <2>3. ui.status = "error" /\ ui.phase = "error"
    BY <1>3, <2>2 DEF PrepIInv, TimedOut
  <2>4. CASE Moves
    BY <1>3, <2>3, <2>4 DEF Moves, Told
  <2>5. CASE \E n \in Tasks, k \in {"load", "convert"} : Begins(n, k)
    BY <1>3, <2>5 DEF Begins
  <2>6. QED
    BY <1>3, <2>1, <2>4, <2>5, StepMoves
<1>4. PrepSpec => CancelledMeansStopped
  BY <1>1, PrepInvariant, PTL DEF PrepSpec, CancelledMeansStopped
<1>5. PrepSpec => CancelledStaysTerminal
  BY <1>2, PrepInvariant, PTL DEF PrepSpec, CancelledStaysTerminal
<1>6. PrepSpec => TimeoutStaysReported
  BY <1>3, PrepInvariant, PTL DEF PrepSpec, TimeoutStaysReported
<1>7. QED
  BY <1>4, <1>5, <1>6 DEF EndsAreFinal, CancellationIsFinal
===============================================================================
