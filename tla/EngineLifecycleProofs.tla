------------------------ MODULE EngineLifecycleProofs ------------------------
(* Proofs about EngineLifecycle, for any number of models, devices, tasks,   *)
(* engines and locks.                                                       *)
(*                                                                         *)
(* IndInv strengthens the properties in layers, each proved from those      *)
(* before it: TypeOK and Shapes (which steps each kind of task can be at),   *)
(* LocksHeld (who holds which lock), Pairs (a lock read with an engine that  *)
(* is still registered is the lock of that engine) and Objects (whose each   *)
(* engine is).  The actions change the shared state in a few ways only, the  *)
(* effects: the first part shows that every action has one of them, the       *)
(* second that every effect preserves every layer.                          *)
EXTENDS EngineLifecycle, SequenceTheorems, TLAPS

LEMMA WithoutType ==
  ASSUME NEW S, NEW s \in Seq(S), NEW i \in 1 .. Len(s)
  PROVE  SubSeq(s, 1, i - 1) \o SubSeq(s, i + 1, Len(s)) \in Seq(S)
<1>1. SubSeq(s, 1, i - 1) \in Seq(S)
  BY SubSeqProperties
<1>2. SubSeq(s, i + 1, Len(s)) \in Seq(S)
  BY SubSeqProperties
<1>. QED  BY <1>1, <1>2, ConcatProperties

\* Steps at which a task holds a generation lock, the load lock, or has read a
\* generation lock.
WithModelLock == {"leased", "native", "closing", "recover", "swap_held"}
WithLoadLock == {"load_held", "convert", "build", "drain", "swap", "swap_wait", "swap_held"}
WithLock == WithModelLock \cup {"lease_wait", "swap_wait"}

\* What each kind of task can be doing, and which of its locals are set.
RequestShape(r) ==
  /\ pc[r] \in {"idle", "resolved", "lease_wait", "leased", "native", "closing", "recover"}
  /\ repl[r] = NoEngine
  /\ pc[r] \in WithLock => eng[r] # NoEngine

LoaderShape(t) ==
  /\ pc[t] \in {"idle", "start", "load_wait"} \cup WithLoadLock
  /\ pc[t] # "idle" => dev[t] \in Devices
  /\ pc[t] \in WithLock <=> eng[t] # NoEngine

ChangerShape(t) ==
  /\ pc[t] \in {"idle", "load_wait", "load_held", "build", "swap", "swap_wait", "swap_held"}
  /\ pc[t] = "build" \/ repl[t] # NoEngine => eng[t] # NoEngine

TesterShape(t) == pc[t] \in {"idle", "load_wait", "load_held", "build", "using"}

TaskShape(t) ==
  /\ lk[t] # NoLock <=> pc[t] \in WithLock
  /\ repl[t] # NoEngine => pc[t] \in {"swap", "swap_wait", "swap_held", "using"}

Shapes ==
  /\ \A r \in Requests : RequestShape(r)
  /\ \A t \in Loaders : LoaderShape(t)
  /\ \A t \in Changers : ChangerShape(t)
  /\ \A t \in Testers : TesterShape(t)
  /\ \A t \in Tasks : TaskShape(t)

\* A lock is held by the task whose step says so.
LocksHeld ==
  /\ \A t \in Tasks : pc[t] \in WithModelLock => holder[lk[t]] = t
  /\ \A l \in Locks, t \in Tasks : holder[l] = t => pc[t] \in WithModelLock /\ lk[t] = l
  /\ \A t \in Tasks : holder[LoadLock] = t <=> pc[t] \in WithLoadLock

\* A registered engine has a lock; whoever knows an engine that is still registered
\* and has read a lock has read its lock; a running call is on the registered pair.
Pairs ==
  /\ \A m \in Models : engines[m] # NoEngine => locks[m] # NoLock
  /\ \A t \in Tasks : lk[t] # NoLock /\ eng[t] # NoEngine /\ engines[ModelOf[t]] = eng[t]
                        => locks[ModelOf[t]] = lk[t]
  /\ \A r \in Requests : pc[r] \in {"native", "closing", "recover"}
                           => engines[ModelOf[r]] = eng[r] /\ locks[ModelOf[r]] = lk[r]

\* Whose an engine object is.
\* A replacement that is not installed yet is known to its task alone.
Private ==
  \A t \in Tasks : repl[t] # NoEngine =>
    repl[t] \in open /\ \A s \in Tasks : eng[s] # repl[t]

\* A registered engine is closed only while its request rebuilds it.
ClosedRecovers ==
  \A m \in Models : engines[m] # NoEngine /\ engines[m] \notin open =>
    \E r \in Requests : ModelOf[r] = m /\ pc[r] = "recover"

RecoversClosed == \A r \in Requests : pc[r] = "recover" => eng[r] \notin open

Objects ==
  /\ Housed /\ OneOwner /\ HungApart /\ hung \subseteq open
  /\ Private /\ ClosedRecovers /\ RecoversClosed

IndInv == TypeOK /\ Shapes /\ LocksHeld /\ Pairs /\ Objects

LEMMA Kinds ==
  ASSUME LifecycleAssumption
  PROVE  /\ Requests \subseteq Tasks /\ Loaders \subseteq Tasks
         /\ Changers \subseteq Tasks /\ Testers \subseteq Tasks
         /\ Tasks = Requests \cup Loaders \cup Changers \cup Testers
         /\ Requests \cap (Loaders \cup Changers \cup Testers) = {}
         /\ Loaders \cap (Changers \cup Testers) = {} /\ Changers \cap Testers = {}
         /\ Locks \subseteq AllLocks /\ LoadLock \in AllLocks /\ LoadLock \notin Locks
         /\ AllLocks = Locks \cup {LoadLock}
         /\ NoLock \notin AllLocks
         /\ ModelOf \in [Tasks -> Models]
         /\ NoTask \notin Tasks /\ NoEngine \notin Engines
  BY DEF Tasks, AllLocks


-----------------------------------------------------------------------------
(* The effects of the steps.  Every action of EngineLifecycle has one of the *)
(* effects below on engines, locks and the frames of the tasks; what it does *)
(* to load targets, lock queues and abandoned compiles never matters to the  *)
(* invariant.  Each part of the invariant is then proved once per effect.    *)

world == <<engines, locks, open, device, hung>>

\* The task is over, whatever it had built is closed.
Leaves(t) ==
  /\ pc[t] # "recover"
  /\ Return(t)
  /\ open' = open \ {repl[t]}
  /\ \/ locks' = locks
     \/ engines[ModelOf[t]] = NoEngine /\ locks' = [locks EXCEPT ![ModelOf[t]] = NoLock]
  /\ UNCHANGED <<engines, device, hung>>

\* Steps that take and release nothing.
MayMove(t, step) ==
  \/ /\ t \in Requests
     /\ <<pc[t], step>> \in {<<"idle", "resolved">>, <<"resolved", "idle">>, <<"native", "closing">>}
  \/ /\ t \in Loaders
     /\ <<pc[t], step>> \in {<<"idle", "start">>, <<"start", "load_wait">>,
                             <<"load_held", "convert">>, <<"load_held", "build">>,
                             <<"convert", "build">>, <<"build", "drain">>}
     /\ dev'[t] \in Devices
  \/ /\ t \in Changers /\ <<pc[t], step>> = <<"idle", "load_wait">>
  \/ /\ t \in Testers
     /\ <<pc[t], step>> \in {<<"idle", "load_wait">>, <<"load_held", "build">>}

Moves(t, step) ==
  /\ MayMove(t, step)
  /\ Goto(t, step)
  /\ \E d \in Devices \cup {NoDevice} : dev' = [dev EXCEPT ![t] = d]
  /\ UNCHANGED <<world, holder, eng, lk, repl>>

\* A lease that found its pair current.
Begins(r) ==
  /\ r \in Requests /\ pc[r] = "leased"
  /\ engines[ModelOf[r]] = eng[r] /\ locks[ModelOf[r]] = lk[r]
  /\ Goto(r, "native")
  /\ UNCHANGED <<world, holder, frame>>

\* A context change notes the engine it is about to replace.
Notes(t, step) ==
  /\ t \in Changers /\ pc[t] = "load_held"
  /\ step \in {"swap", "build"} /\ (step = "build" => engines[ModelOf[t]] # NoEngine)
  /\ Goto(t, step)
  /\ eng' = [eng EXCEPT ![t] = engines[ModelOf[t]]]
  /\ UNCHANGED <<world, holder, lk, repl, dev>>

\* A free generation lock is taken at once.
Takes(r) ==
  /\ r \in Requests /\ pc[r] = "resolved"
  /\ engines[ModelOf[r]] # NoEngine /\ locks[ModelOf[r]] \in Locks
  /\ holder[locks[ModelOf[r]]] = NoTask
  /\ holder' = [holder EXCEPT ![locks[ModelOf[r]]] = r]
  /\ Goto(r, "leased")
  /\ eng' = [eng EXCEPT ![r] = engines[ModelOf[r]]]
  /\ lk' = [lk EXCEPT ![r] = locks[ModelOf[r]]]
  /\ UNCHANGED <<world, repl, dev>>

\* A task queues for a generation lock.
Waits(t, step) ==
  /\ \/ /\ t \in Requests /\ pc[t] = "resolved" /\ step = "lease_wait"
        /\ engines[ModelOf[t]] # NoEngine
        /\ eng' = [eng EXCEPT ![t] = engines[ModelOf[t]]]
     \/ /\ t \in Loaders /\ pc[t] = "swap" /\ step = "swap_wait"
        /\ engines[ModelOf[t]] # NoEngine
        /\ eng' = [eng EXCEPT ![t] = engines[ModelOf[t]]]
     \/ /\ t \in Changers /\ pc[t] = "swap" /\ step = "swap_wait"
        /\ UNCHANGED eng
  /\ \E l \in Locks : GetLock(ModelOf[t], l) /\ lk' = [lk EXCEPT ![t] = l]
  /\ Goto(t, step)
  /\ UNCHANGED <<engines, open, device, hung, holder, repl, dev>>

GrantsLoad(t) ==
  /\ pc[t] = "load_wait" /\ holder[LoadLock] = NoTask
  /\ holder' = [holder EXCEPT ![LoadLock] = t]
  /\ Goto(t, "load_held")
  /\ UNCHANGED <<world, frame>>

GrantsModel(t, step) ==
  /\ <<pc[t], step>> \in {<<"lease_wait", "leased">>, <<"swap_wait", "swap_held">>}
  /\ holder[lk[t]] = NoTask
  /\ holder' = [holder EXCEPT ![lk[t]] = t]
  /\ Goto(t, step)
  /\ UNCHANGED <<world, frame>>

\* A stale pair: the generation lock is given back.
Retries(t, step) ==
  /\ \/ t \in Requests /\ pc[t] = "leased" /\ step = "resolved"
     \/ t \in Loaders /\ pc[t] = "swap_held" /\ step = "swap"
  /\ \E l \in Locks : GetLock(ModelOf[t], l)
  /\ holder' = [holder EXCEPT ![lk[t]] = NoTask]
  /\ eng' = [eng EXCEPT ![t] = NoEngine]
  /\ lk' = [lk EXCEPT ![t] = NoLock]
  /\ Goto(t, step)
  /\ UNCHANGED <<engines, open, device, hung, repl, dev>>

\* A load goes round with a newer target.
Again(t) ==
  /\ t \in Loaders /\ pc[t] \in WithLoadLock
  /\ LoadAgain(t)
  /\ UNCHANGED <<engines, locks, device, hung>>

Builds(t, e, d) ==
  /\ t \notin Requests /\ pc[t] = "build"
  /\ Create(e, d)
  /\ repl' = [repl EXCEPT ![t] = e]
  /\ \/ t \in Testers /\ Goto(t, "using") /\ holder' = Unlocked(t)
     \/ t \in Loaders \cup Changers /\ Goto(t, "swap") /\ UNCHANGED holder
  /\ UNCHANGED <<engines, locks, hung, eng, lk, dev>>

\* Only the engine the task knows is replaced, and only under its lock.
Installs(t) ==
  /\ t \in Loaders \cup Changers
  /\ engines[ModelOf[t]] = eng[t]
  /\ eng[t] # NoEngine => pc[t] = "swap_held"
  /\ Install(t)
  /\ Return(t)
  /\ UNCHANGED <<device, hung>>

Withdraws(r) ==
  /\ r \in Requests /\ pc[r] = "closing"
  /\ engines' = [engines EXCEPT ![ModelOf[r]] = NoEngine]
  /\ hung' = hung \cup {eng[r]}
  /\ Return(r)
  /\ UNCHANGED <<locks, open, device>>

Closes(r) ==
  /\ r \in Requests /\ pc[r] = "closing"
  /\ open' = open \ {eng[r]}
  /\ Goto(r, "recover")
  /\ UNCHANGED <<registry, holder, device, hung, frame>>

Rebuilds(r, e, d) ==
  /\ r \in Requests /\ pc[r] = "recover"
  /\ Create(e, d)
  /\ engines' = [engines EXCEPT ![ModelOf[r]] = e]
  /\ Return(r)
  /\ UNCHANGED <<locks, hung>>

Fails(r) ==
  /\ r \in Requests /\ pc[r] = "recover"
  /\ engines' = [engines EXCEPT ![ModelOf[r]] = NoEngine]
  /\ Return(r)
  /\ UNCHANGED <<locks, open, device, hung>>

Unloads(m) ==
  /\ engines[m] # NoEngine
  /\ holder[locks[m]] = NoTask
  /\ engines' = [engines EXCEPT ![m] = NoEngine]
  /\ locks' = [locks EXCEPT ![m] = NoLock]
  /\ open' = open \ {engines[m]}
  /\ UNCHANGED <<device, hung, holder, pc, frame>>

Ends(e) ==
  /\ e \in hung
  /\ hung' = hung \ {e}
  /\ open' = open \ {e}
  /\ UNCHANGED <<registry, device, holder, pc, frame>>

Nothing == UNCHANGED <<world, holder, pc, frame>>

Effect ==
  \/ \E t \in Tasks :
       \/ Leaves(t) \/ Begins(t) \/ Takes(t) \/ GrantsLoad(t) \/ Again(t) \/ Installs(t)
       \/ Withdraws(t) \/ Closes(t) \/ Fails(t)
       \/ \E step \in Steps : \/ Moves(t, step) \/ Notes(t, step) \/ Waits(t, step)
                              \/ GrantsModel(t, step) \/ Retries(t, step)
       \/ \E e \in Engines, d \in Devices : Builds(t, e, d) \/ Rebuilds(t, e, d)
  \/ \E m \in Models : Unloads(m)
  \/ \E e \in Engines : Ends(e)
  \/ Nothing


CoreType ==
  /\ engines \in [Models -> Engines \cup {NoEngine}]
  /\ locks \in [Models -> Locks \cup {NoLock}]
  /\ holder \in [AllLocks -> Tasks \cup {NoTask}]
  /\ open \in SUBSET Engines /\ hung \in SUBSET Engines
  /\ device \in [Engines -> Devices]
  /\ pc \in [Tasks -> Steps]
  /\ eng \in [Tasks -> Engines \cup {NoEngine}]
  /\ lk \in [Tasks -> Locks \cup {NoLock}]
  /\ repl \in [Tasks -> Engines \cup {NoEngine}]
  /\ dev \in [Tasks -> Devices \cup {NoDevice}]

LEMMA EffectType ==
  ASSUME LifecycleAssumption, TypeOK, Shapes, Effect
  PROVE  CoreType'
<1>1. ASSUME NEW t \in Tasks, Leaves(t)
      PROVE  CoreType'
  <2>1. locks' \in [Models -> Locks \cup {NoLock}]
    BY <1>1, Kinds DEF Leaves, TypeOK
  <2>2. /\ engines' = engines /\ device' = device /\ hung' = hung
        /\ open' = open \ {repl[t]} /\ Return(t)
    BY <1>1 DEF Leaves
  <2>. QED  BY <2>1, <2>2 DEF CoreType, TypeOK, Return, Goto, Unlocked, Steps
<1>2. ASSUME NEW t \in Tasks, Begins(t)
      PROVE  CoreType'
  BY <1>2 DEF Begins, Goto, world, frame, CoreType, TypeOK, Steps
<1>3. ASSUME NEW t \in Tasks, Takes(t)
      PROVE  CoreType'
  BY <1>3 DEF Takes, Goto, world, CoreType, TypeOK, Steps
<1>4. ASSUME NEW t \in Tasks, GrantsLoad(t)
      PROVE  CoreType'
  BY <1>4 DEF GrantsLoad, Goto, world, frame, CoreType, TypeOK, Steps
<1>5. ASSUME NEW t \in Tasks, Again(t)
      PROVE  CoreType'
  BY <1>5 DEF Again, LoadAgain, Goto, Unlocked, Newest, CoreType, TypeOK, Steps
<1>6. ASSUME NEW t \in Tasks, Installs(t)
      PROVE  CoreType'
  BY <1>6 DEF Installs, Install, Return, FreeLocks, Goto, Unlocked, CoreType, TypeOK,
     Steps
<1>7. ASSUME NEW t \in Tasks, Withdraws(t)
      PROVE  CoreType'
  BY <1>7 DEF Withdraws, Return, Goto, Unlocked, CoreType, TypeOK, Steps, Shapes,
     RequestShape, WithLock, WithModelLock
<1>8. ASSUME NEW t \in Tasks, Closes(t)
      PROVE  CoreType'
  BY <1>8 DEF Closes, Goto, registry, frame, CoreType, TypeOK, Steps
<1>9. ASSUME NEW t \in Tasks, Fails(t)
      PROVE  CoreType'
  BY <1>9 DEF Fails, Return, Goto, Unlocked, CoreType, TypeOK, Steps
<1>10. ASSUME NEW t \in Tasks, NEW step \in Steps, Moves(t, step)
      PROVE  CoreType'
  BY <1>10 DEF Moves, Goto, world, CoreType, TypeOK
<1>11. ASSUME NEW t \in Tasks, NEW step \in Steps, Notes(t, step)
      PROVE  CoreType'
  BY <1>11 DEF Notes, Goto, world, CoreType, TypeOK
<1>12. ASSUME NEW t \in Tasks, NEW step \in Steps, Waits(t, step)
      PROVE  CoreType'
  <2>1. PICK l \in Locks : GetLock(ModelOf[t], l) /\ lk' = [lk EXCEPT ![t] = l]
    BY <1>12 DEF Waits
  <2>2. locks' \in [Models -> Locks \cup {NoLock}] /\ lk' \in [Tasks -> Locks \cup {NoLock}]
    BY <2>1, Kinds DEF GetLock, TypeOK
  <2>3. eng' \in [Tasks -> Engines \cup {NoEngine}]
    BY <1>12, Kinds DEF Waits, TypeOK
  <2>4. pc' \in [Tasks -> Steps]
    BY <1>12 DEF Waits, Goto, TypeOK
  <2>. QED  BY <1>12, <2>2, <2>3, <2>4 DEF Waits, CoreType, TypeOK
<1>13. ASSUME NEW t \in Tasks, NEW step \in Steps, GrantsModel(t, step)
      PROVE  CoreType'
  BY <1>13 DEF GrantsModel, Goto, world, frame, CoreType, TypeOK
<1>14. ASSUME NEW t \in Tasks, NEW step \in Steps, Retries(t, step)
      PROVE  CoreType'
  BY <1>14, Kinds DEF Retries, GetLock, Goto, CoreType, TypeOK, Shapes, TaskShape,
     WithLock, WithModelLock
<1>15. ASSUME NEW t \in Tasks, NEW e \in Engines, NEW d \in Devices, Builds(t, e, d)
      PROVE  CoreType'
  <2>1. /\ pc' \in [Tasks -> Steps] /\ holder' \in [AllLocks -> Tasks \cup {NoTask}]
    BY <1>15 DEF Builds, Goto, Unlocked, TypeOK, Steps
  <2>2. /\ Create(e, d) /\ repl' = [repl EXCEPT ![t] = e]
        /\ UNCHANGED <<engines, locks, hung, eng, lk, dev>>
    BY <1>15 DEF Builds
  <2>. QED  BY <2>1, <2>2 DEF CoreType, Create, TypeOK
<1>16. ASSUME NEW t \in Tasks, NEW e \in Engines, NEW d \in Devices, Rebuilds(t, e, d)
      PROVE  CoreType'
  BY <1>16 DEF Rebuilds, Create, Return, Goto, Unlocked, CoreType, TypeOK, Steps
<1>17. ASSUME NEW m \in Models, Unloads(m)
      PROVE  CoreType'
  BY <1>17 DEF Unloads, frame, CoreType, TypeOK
<1>18. ASSUME NEW e \in Engines, Ends(e)
      PROVE  CoreType'
  BY <1>18 DEF Ends, registry, frame, CoreType, TypeOK
<1>19. ASSUME Nothing
      PROVE  CoreType'
  BY <1>19 DEF Nothing, world, frame, CoreType, TypeOK
<1>. QED
  BY <1>1, <1>2, <1>3, <1>4, <1>5, <1>6, <1>7, <1>8, <1>9, <1>10, <1>11, <1>12, <1>13,
     <1>14, <1>15, <1>16, <1>17, <1>18, <1>19 DEF Effect

LEMMA EffectShapes ==
  ASSUME LifecycleAssumption, TypeOK, Shapes, Effect
  PROVE  Shapes'
<1>1. ASSUME NEW t \in Tasks, Leaves(t)
      PROVE  Shapes'
  BY <1>1 DEF Leaves, Return, Goto, TypeOK, Shapes, RequestShape, LoaderShape,
     ChangerShape, TesterShape, TaskShape, WithLock, WithModelLock
<1>2. ASSUME NEW t \in Tasks, Begins(t)
      PROVE  Shapes'
  BY <1>2 DEF Begins, Goto, frame, Shapes, RequestShape, LoaderShape, ChangerShape,
     TesterShape, TaskShape, WithLock, WithModelLock
<1>3. ASSUME NEW t \in Tasks, Takes(t)
      PROVE  Shapes'
  BY <1>3, Kinds DEF Takes, Goto, TypeOK, Shapes, RequestShape, LoaderShape,
     ChangerShape, TesterShape, TaskShape, WithLock, WithModelLock
<1>4. ASSUME NEW t \in Tasks, GrantsLoad(t)
      PROVE  Shapes'
  BY <1>4 DEF GrantsLoad, Goto, frame, Shapes, RequestShape, LoaderShape, ChangerShape,
     TesterShape, TaskShape, WithLock, WithModelLock, WithLoadLock
<1>5. ASSUME NEW t \in Tasks, Again(t)
      PROVE  Shapes'
  BY <1>5 DEF Again, WithLoadLock, LoadAgain, Goto, Newest, TypeOK, Shapes,
     RequestShape, LoaderShape, ChangerShape, TesterShape, TaskShape, WithLock,
     WithModelLock
<1>6. ASSUME NEW t \in Tasks, Installs(t)
      PROVE  Shapes'
  BY <1>6 DEF Installs, Return, Goto, TypeOK, Shapes, RequestShape, LoaderShape,
     ChangerShape, TesterShape, TaskShape, WithLock, WithModelLock
<1>7. ASSUME NEW t \in Tasks, Withdraws(t)
      PROVE  Shapes'
  BY <1>7 DEF Withdraws, Return, Goto, TypeOK, Shapes, RequestShape, LoaderShape,
     ChangerShape, TesterShape, TaskShape, WithLock, WithModelLock
<1>8. ASSUME NEW t \in Tasks, Closes(t)
      PROVE  Shapes'
  BY <1>8 DEF Closes, Goto, frame, Shapes, RequestShape, LoaderShape, ChangerShape,
     TesterShape, TaskShape, WithLock, WithModelLock
<1>9. ASSUME NEW t \in Tasks, Fails(t)
      PROVE  Shapes'
  BY <1>9 DEF Fails, Return, Goto, TypeOK, Shapes, RequestShape, LoaderShape,
     ChangerShape, TesterShape, TaskShape, WithLock, WithModelLock
<1>10. ASSUME NEW t \in Tasks, NEW step \in Steps, Moves(t, step)
      PROVE  Shapes'
  BY <1>10 DEF Moves, MayMove, Goto, Shapes, RequestShape, LoaderShape, ChangerShape,
     TesterShape, TaskShape, WithLock, WithModelLock, WithLoadLock
<1>11. ASSUME NEW t \in Tasks, NEW step \in Steps, Notes(t, step)
      PROVE  Shapes'
  BY <1>11 DEF Notes, Goto, TypeOK, Shapes, RequestShape, LoaderShape, ChangerShape,
     TesterShape, TaskShape, WithLock, WithModelLock
<1>12. ASSUME NEW t \in Tasks, NEW step \in Steps, Waits(t, step)
      PROVE  Shapes'
  BY <1>12, Kinds DEF Waits, Goto, TypeOK, Shapes, RequestShape, LoaderShape,
     ChangerShape, TesterShape, TaskShape, WithLock, WithLoadLock
<1>13. ASSUME NEW t \in Tasks, NEW step \in Steps, GrantsModel(t, step)
      PROVE  Shapes'
  BY <1>13 DEF GrantsModel, Goto, frame, Shapes, RequestShape, LoaderShape,
     ChangerShape, TesterShape, TaskShape, WithLock, WithModelLock, WithLoadLock
<1>14. ASSUME NEW t \in Tasks, NEW step \in Steps, Retries(t, step)
      PROVE  Shapes'
  BY <1>14 DEF Retries, Goto, TypeOK, Shapes, RequestShape, LoaderShape, ChangerShape,
     TesterShape, TaskShape, WithLock, WithModelLock, WithLoadLock
<1>15. ASSUME NEW t \in Tasks, NEW e \in Engines, NEW d \in Devices, Builds(t, e, d)
      PROVE  Shapes'
  <2>. DEFINE to == IF t \in Testers THEN "using" ELSE "swap"
  <2>1. /\ pc[t] = "build" /\ pc' = [pc EXCEPT ![t] = to]
        /\ repl' = [repl EXCEPT ![t] = e] /\ UNCHANGED <<eng, lk, dev>>
        /\ t \in Testers \/ t \in Loaders \cup Changers
    BY <1>15, Kinds DEF Builds, Goto
  <2>2. \A r \in Requests : RequestShape(r)'
    BY <1>15, <2>1 DEF Shapes, RequestShape
  <2>3. \A s \in Loaders : LoaderShape(s)'
    BY <2>1, Kinds DEF Shapes, LoaderShape, TypeOK, WithLock, WithModelLock, WithLoadLock
  <2>4. \A s \in Changers : ChangerShape(s)'
    BY <2>1 DEF Shapes, ChangerShape
  <2>5. \A s \in Testers : TesterShape(s)'
    BY <2>1 DEF Shapes, TesterShape
  <2>6. \A s \in Tasks : TaskShape(s)'
    BY <2>1 DEF Shapes, TaskShape, TypeOK, WithLock, WithModelLock
  <2>. QED  BY <2>2, <2>3, <2>4, <2>5, <2>6 DEF Shapes
<1>16. ASSUME NEW t \in Tasks, NEW e \in Engines, NEW d \in Devices, Rebuilds(t, e, d)
      PROVE  Shapes'
  BY <1>16 DEF Rebuilds, Return, Goto, TypeOK, Shapes, RequestShape, LoaderShape,
     ChangerShape, TesterShape, TaskShape, WithLock, WithModelLock
<1>17. ASSUME NEW m \in Models, Unloads(m)
      PROVE  Shapes'
  BY <1>17 DEF Unloads, frame, Shapes, RequestShape, LoaderShape, ChangerShape,
     TesterShape, TaskShape
<1>18. ASSUME NEW e \in Engines, Ends(e)
      PROVE  Shapes'
  BY <1>18 DEF Ends, frame, Shapes, RequestShape, LoaderShape, ChangerShape,
     TesterShape, TaskShape
<1>19. ASSUME Nothing
      PROVE  Shapes'
  BY <1>19 DEF Nothing, frame, Shapes, RequestShape, LoaderShape, ChangerShape,
     TesterShape, TaskShape
<1>. QED
  BY <1>1, <1>2, <1>3, <1>4, <1>5, <1>6, <1>7, <1>8, <1>9, <1>10, <1>11, <1>12, <1>13,
     <1>14, <1>15, <1>16, <1>17, <1>18, <1>19 DEF Effect

\* Letting go of every lock and going where none is held.
LEMMA ReleasedLocks ==
  ASSUME LifecycleAssumption, TypeOK, Shapes, LocksHeld,
         NEW t \in Tasks, NEW step \in Steps \ (WithModelLock \cup WithLoadLock),
         Goto(t, step), holder' = Unlocked(t),
         \A s \in Tasks \ {t} : lk'[s] = lk[s]
  PROVE  LocksHeld'
<1>1. pc'[t] = step /\ \A s \in Tasks \ {t} : pc'[s] = pc[s]
  BY DEF Goto, TypeOK
<1>2. \A l \in AllLocks : holder'[l] = IF holder[l] = t THEN NoTask ELSE holder[l]
  BY DEF Unlocked
<1>3. \A s \in Tasks : pc'[s] \in WithModelLock => holder'[lk'[s]] = s
  <2>. SUFFICES ASSUME NEW s \in Tasks, pc'[s] \in WithModelLock
                PROVE  holder'[lk'[s]] = s
    OBVIOUS
  <2>1. s # t /\ holder[lk[s]] = s
    BY <1>1 DEF LocksHeld
  <2>2. lk[s] \in AllLocks
    BY <2>1, <1>1, Kinds DEF TypeOK, Shapes, TaskShape, WithLock
  <2>. QED  BY <1>1, <1>2, <2>1, <2>2
<1>4. \A l \in Locks, s \in Tasks : holder'[l] = s => pc'[s] \in WithModelLock /\ lk'[s] = l
  BY <1>1, <1>2, Kinds DEF LocksHeld
<1>5. \A s \in Tasks : holder'[LoadLock] = s <=> pc'[s] \in WithLoadLock
  BY <1>1, <1>2, Kinds DEF LocksHeld
<1>. QED  BY <1>3, <1>4, <1>5 DEF LocksHeld

\* Taking a free generation lock.
LEMMA TakenLock ==
  ASSUME LifecycleAssumption, TypeOK, Shapes, LocksHeld,
         NEW t \in Tasks, NEW step \in Steps \cap WithModelLock, NEW l \in Locks,
         pc[t] \notin WithModelLock, pc[t] \in WithLoadLock <=> step \in WithLoadLock,
         holder[l] = NoTask, holder' = [holder EXCEPT ![l] = t],
         Goto(t, step), lk'[t] = l, \A s \in Tasks \ {t} : lk'[s] = lk[s]
  PROVE  LocksHeld'
<1>1. pc'[t] = step /\ \A s \in Tasks \ {t} : pc'[s] = pc[s]
  BY DEF Goto, TypeOK
<1>2. holder'[l] = t /\ \A k \in AllLocks \ {l} : holder'[k] = holder[k]
  BY Kinds DEF TypeOK
<1>3. \A s \in Tasks : pc'[s] \in WithModelLock => holder'[lk'[s]] = s
  <2>. SUFFICES ASSUME NEW s \in Tasks \ {t}, pc'[s] \in WithModelLock
                PROVE  holder'[lk'[s]] = s
    BY <1>2
  <2>1. holder[lk[s]] = s
    BY <1>1 DEF LocksHeld
  <2>2. lk[s] \in Locks
    BY <1>1 DEF TypeOK, Shapes, TaskShape, WithLock
  <2>. QED  BY <1>2, <2>1, <2>2, Kinds
<1>4. \A k \in Locks, s \in Tasks : holder'[k] = s => pc'[s] \in WithModelLock /\ lk'[s] = k
  BY <1>1, <1>2, Kinds DEF LocksHeld
<1>5. \A s \in Tasks : holder'[LoadLock] = s <=> pc'[s] \in WithLoadLock
  BY <1>1, <1>2, Kinds DEF LocksHeld
<1>. QED  BY <1>3, <1>4, <1>5 DEF LocksHeld


LEMMA EffectLocks ==
  ASSUME LifecycleAssumption, TypeOK, Shapes, LocksHeld, Effect
  PROVE  LocksHeld'
<1>1. ASSUME NEW t \in Tasks, Leaves(t)
      PROVE  LocksHeld'
  BY <1>1, ReleasedLocks DEF Leaves, Return, Goto, Steps, WithModelLock, WithLoadLock, TypeOK
<1>2. ASSUME NEW t \in Tasks, Begins(t)
      PROVE  LocksHeld'
  BY <1>2 DEF Begins, Goto, frame, LocksHeld, WithModelLock, WithLoadLock
<1>3. ASSUME NEW t \in Tasks, Takes(t)
      PROVE  LocksHeld'
  <2>. DEFINE l == locks[ModelOf[t]]
  <2>1. /\ l \in Locks /\ holder[l] = NoTask /\ holder' = [holder EXCEPT ![l] = t]
        /\ lk'[t] = l /\ \A s \in Tasks \ {t} : lk'[s] = lk[s]
    BY <1>3 DEF Takes, TypeOK
  <2>2. "leased" \in Steps \cap WithModelLock /\ "leased" \notin WithLoadLock
    BY DEF Steps, WithModelLock, WithLoadLock
  <2>3. pc[t] \notin WithModelLock /\ pc[t] \notin WithLoadLock /\ Goto(t, "leased")
    BY <1>3 DEF Takes, WithModelLock, WithLoadLock
  <2>. QED  BY <2>1, <2>2, <2>3, TakenLock
<1>4. ASSUME NEW t \in Tasks, GrantsLoad(t)
      PROVE  LocksHeld'
  BY <1>4, Kinds DEF GrantsLoad, Goto, frame, LocksHeld, TypeOK, WithModelLock,
     WithLoadLock
<1>5. ASSUME NEW t \in Tasks, Again(t)
      PROVE  LocksHeld'
  BY <1>5, Kinds, ReleasedLocks DEF Again, LoadAgain, Goto, Steps, WithModelLock, WithLoadLock, TypeOK
<1>6. ASSUME NEW t \in Tasks, Installs(t)
      PROVE  LocksHeld'
  BY <1>6, ReleasedLocks DEF Installs, Return, Goto, Steps, WithModelLock, WithLoadLock, TypeOK
<1>7. ASSUME NEW t \in Tasks, Withdraws(t)
      PROVE  LocksHeld'
  BY <1>7, ReleasedLocks DEF Withdraws, Return, Goto, Steps, WithModelLock, WithLoadLock, TypeOK
<1>8. ASSUME NEW t \in Tasks, Closes(t)
      PROVE  LocksHeld'
  BY <1>8 DEF Closes, Goto, frame, LocksHeld, WithModelLock, WithLoadLock
<1>9. ASSUME NEW t \in Tasks, Fails(t)
      PROVE  LocksHeld'
  BY <1>9, ReleasedLocks DEF Fails, Return, Goto, Steps, WithModelLock, WithLoadLock, TypeOK
<1>10. ASSUME NEW t \in Tasks, NEW step \in Steps, Moves(t, step)
      PROVE  LocksHeld'
  BY <1>10 DEF Moves, MayMove, Goto, LocksHeld, WithModelLock, WithLoadLock
<1>11. ASSUME NEW t \in Tasks, NEW step \in Steps, Notes(t, step)
      PROVE  LocksHeld'
  BY <1>11 DEF Notes, Goto, LocksHeld, WithModelLock, WithLoadLock
<1>12. ASSUME NEW t \in Tasks, NEW step \in Steps, Waits(t, step)
      PROVE  LocksHeld'
  BY <1>12 DEF Waits, Goto, LocksHeld, WithModelLock, WithLoadLock
<1>13. ASSUME NEW t \in Tasks, NEW step \in Steps, GrantsModel(t, step)
      PROVE  LocksHeld'
  <2>1. lk[t] \in Locks
    BY <1>13 DEF GrantsModel, TypeOK, Shapes, TaskShape, WithLock
  <2>2. /\ holder[lk[t]] = NoTask /\ holder' = [holder EXCEPT ![lk[t]] = t]
        /\ lk' = lk /\ Goto(t, step)
    BY <1>13 DEF GrantsModel, frame
  <2>3. /\ pc[t] \notin WithModelLock /\ step \in WithModelLock
        /\ pc[t] \in WithLoadLock <=> step \in WithLoadLock
    BY <1>13 DEF GrantsModel, WithModelLock, WithLoadLock
  <2>. QED  BY <2>1, <2>2, <2>3, TakenLock
<1>14. ASSUME NEW t \in Tasks, NEW step \in Steps, Retries(t, step)
      PROVE  LocksHeld'
  <2>1. /\ pc[t] \in WithModelLock /\ step \notin WithModelLock
        /\ pc[t] \in WithLoadLock <=> step \in WithLoadLock
        /\ pc' = [pc EXCEPT ![t] = step] /\ lk' = [lk EXCEPT ![t] = NoLock]
        /\ holder' = [holder EXCEPT ![lk[t]] = NoTask]
    BY <1>14 DEF Retries, Goto, WithModelLock, WithLoadLock
  <2>2. lk[t] \in Locks /\ holder[lk[t]] = t
    BY <2>1 DEF TypeOK, Shapes, TaskShape, WithLock, LocksHeld
  <2>3. \A s \in Tasks : pc'[s] \in WithModelLock => holder'[lk'[s]] = s
    <3>. SUFFICES ASSUME NEW s \in Tasks, pc'[s] \in WithModelLock
                  PROVE  holder'[lk'[s]] = s
      OBVIOUS
    <3>1. s # t /\ pc[s] \in WithModelLock
      BY <2>1 DEF TypeOK
    <3>2. lk'[s] = lk[s] /\ holder[lk[s]] = s /\ lk[s] \in Locks
      BY <2>1, <3>1 DEF LocksHeld, TypeOK, Shapes, TaskShape, WithLock
    <3>3. lk[s] # lk[t]
      BY <2>2, <3>1, <3>2
    <3>4. holder'[lk[s]] = holder[lk[s]]
      BY <2>1, <3>2, <3>3, Kinds DEF TypeOK
    <3>. QED  BY <3>2, <3>4
  <2>4. \A k \in Locks, s \in Tasks : holder'[k] = s => pc'[s] \in WithModelLock /\ lk'[s] = k
    <3>. SUFFICES ASSUME NEW k \in Locks, NEW s \in Tasks, holder'[k] = s
                  PROVE  pc'[s] \in WithModelLock /\ lk'[s] = k
      OBVIOUS
    <3>1. k # lk[t] /\ holder[k] = s
      BY <2>1, <2>2, Kinds DEF TypeOK
    <3>2. pc[s] \in WithModelLock /\ lk[s] = k /\ s # t
      BY <3>1 DEF LocksHeld
    <3>. QED  BY <2>1, <3>2 DEF TypeOK
  <2>5. \A s \in Tasks : holder'[LoadLock] = s <=> pc'[s] \in WithLoadLock
    BY <2>1, <2>2, Kinds DEF LocksHeld, TypeOK
  <2>. QED  BY <2>3, <2>4, <2>5 DEF LocksHeld
<1>15. ASSUME NEW t \in Tasks, NEW e \in Engines, NEW d \in Devices, Builds(t, e, d)
      PROVE  LocksHeld'
  <2>1. CASE t \in Testers
    <3>1. pc' = [pc EXCEPT ![t] = "using"] /\ holder' = Unlocked(t) /\ lk' = lk
      BY <1>15, <2>1, Kinds DEF Builds, Goto
    <3>2. "using" \in Steps \ (WithModelLock \cup WithLoadLock)
      BY DEF Steps, WithModelLock, WithLoadLock
    <3>. QED  BY <3>1, <3>2, ReleasedLocks DEF Goto
  <2>2. CASE t \in Loaders \cup Changers
    <3>1. /\ pc[t] = "build" /\ pc' = [pc EXCEPT ![t] = "swap"]
          /\ holder' = holder /\ lk' = lk
      BY <1>15, <2>2, Kinds DEF Builds, Goto
    <3>2. /\ pc[t] \notin WithModelLock /\ "swap" \notin WithModelLock
          /\ pc[t] \in WithLoadLock /\ "swap" \in WithLoadLock
      BY <3>1 DEF WithModelLock, WithLoadLock
    <3>. QED  BY <3>1, <3>2 DEF LocksHeld, TypeOK
  <2>. QED  BY <1>15, <2>1, <2>2 DEF Builds
<1>16. ASSUME NEW t \in Tasks, NEW e \in Engines, NEW d \in Devices, Rebuilds(t, e, d)
      PROVE  LocksHeld'
  BY <1>16, ReleasedLocks DEF Rebuilds, Return, Goto, Steps, WithModelLock, WithLoadLock, TypeOK
<1>17. ASSUME NEW m \in Models, Unloads(m)
      PROVE  LocksHeld'
  BY <1>17 DEF Unloads, frame, LocksHeld
<1>18. ASSUME NEW e \in Engines, Ends(e)
      PROVE  LocksHeld'
  BY <1>18 DEF Ends, frame, LocksHeld
<1>19. ASSUME Nothing
      PROVE  LocksHeld'
  BY <1>19 DEF Nothing, frame, LocksHeld
<1>. QED
  BY <1>1, <1>2, <1>3, <1>4, <1>5, <1>6, <1>7, <1>8, <1>9, <1>10, <1>11, <1>12, <1>13,
     <1>14, <1>15, <1>16, <1>17, <1>18, <1>19 DEF Effect

LEMMA EffectPairs ==
  ASSUME LifecycleAssumption, TypeOK, Shapes, LocksHeld, Pairs, Objects, Effect
  PROVE  Pairs'
<1>1. ASSUME NEW t \in Tasks, Leaves(t)
      PROVE  Pairs'
  BY <1>1, Kinds DEF Leaves, Return, Goto, TypeOK, Pairs, Shapes, RequestShape,
     WithLock, WithModelLock
<1>2. ASSUME NEW t \in Tasks, Begins(t)
      PROVE  Pairs'
  BY <1>2 DEF Begins, Goto, world, frame, Pairs
<1>3. ASSUME NEW t \in Tasks, Takes(t)
      PROVE  Pairs'
  BY <1>3 DEF Takes, Goto, world, TypeOK, Pairs
<1>4. ASSUME NEW t \in Tasks, GrantsLoad(t)
      PROVE  Pairs'
  BY <1>4 DEF GrantsLoad, Goto, world, frame, Pairs
<1>5. ASSUME NEW t \in Tasks, Again(t)
      PROVE  Pairs'
  BY <1>5 DEF Again, LoadAgain, Goto, Pairs
<1>6. ASSUME NEW t \in Tasks, Installs(t)
      PROVE  Pairs'
  <2>. DEFINE m == ModelOf[t]
  <2>1. /\ m \in Models /\ engines[m] = eng[t] /\ (eng[t] # NoEngine => pc[t] = "swap_held")
        /\ t \in Loaders \cup Changers
    BY <1>6, Kinds DEF Installs
  <2>2. /\ pc' = [pc EXCEPT ![t] = "idle"] /\ eng' = [eng EXCEPT ![t] = NoEngine]
        /\ lk' = [lk EXCEPT ![t] = NoLock] /\ engines' = [engines EXCEPT ![m] = repl[t]]
    BY <1>6 DEF Installs, Install, Return, Goto
  <2>3. PICK l \in Locks : locks' = [locks EXCEPT ![m] = l]
    BY <1>6 DEF Installs, Install, FreeLocks
  <2>4. \A n \in Models : engines'[n] # NoEngine => locks'[n] # NoLock
    BY <2>1, <2>2, <2>3, Kinds DEF Pairs, TypeOK
  <2>5. ASSUME NEW s \in Tasks, lk'[s] # NoLock, eng'[s] # NoEngine, engines'[ModelOf[s]] = eng'[s]
        PROVE  locks'[ModelOf[s]] = lk'[s]
    <3>1. s # t /\ lk'[s] = lk[s] /\ eng'[s] = eng[s]
      BY <2>2, <2>5 DEF TypeOK
    <3>2. ModelOf[s] # m
      BY <2>1, <2>2, <2>5, <3>1 DEF Objects, Private, TypeOK
    <3>. QED  BY <2>1, <2>2, <2>3, <2>5, <3>1, <3>2, Kinds DEF Pairs, TypeOK
  <2>6. ASSUME NEW r \in Requests, pc'[r] \in {"native", "closing", "recover"}
        PROVE  engines'[ModelOf[r]] = eng'[r] /\ locks'[ModelOf[r]] = lk'[r]
    <3>1. r \in Tasks /\ r # t /\ pc'[r] = pc[r] /\ eng'[r] = eng[r] /\ lk'[r] = lk[r]
      BY <2>1, <2>2, Kinds DEF TypeOK
    <3>2. engines[ModelOf[r]] = eng[r] /\ locks[ModelOf[r]] = lk[r] /\ holder[lk[r]] = r
      BY <2>6, <3>1 DEF Pairs, LocksHeld, WithModelLock
    <3>3. eng[r] # NoEngine
      BY <2>6, <3>1 DEF Shapes, RequestShape, WithLock, WithModelLock
    <3>4. ASSUME ModelOf[r] = m  PROVE FALSE
      <4>1. eng[t] # NoEngine /\ pc[t] = "swap_held"
        BY <2>1, <3>2, <3>3, <3>4
      <4>2. holder[lk[t]] = t /\ lk[t] # NoLock
        BY <4>1 DEF LocksHeld, Shapes, TaskShape, WithLock, WithModelLock
      <4>3. locks[m] = lk[t]
        BY <2>1, <4>1, <4>2 DEF Pairs
      <4>. QED  BY <3>1, <3>2, <3>4, <4>2, <4>3
    <3>. QED  BY <2>1, <2>2, <2>3, <3>1, <3>2, <3>4, Kinds DEF TypeOK
  <2>. QED  BY <2>4, <2>5, <2>6 DEF Pairs
<1>7. ASSUME NEW t \in Tasks, Withdraws(t)
      PROVE  Pairs'
  BY <1>7, Kinds DEF Withdraws, Return, Goto, TypeOK, LocksHeld, Pairs, WithModelLock
<1>8. ASSUME NEW t \in Tasks, Closes(t)
      PROVE  Pairs'
  BY <1>8 DEF Closes, Goto, registry, frame, Pairs
<1>9. ASSUME NEW t \in Tasks, Fails(t)
      PROVE  Pairs'
  BY <1>9, Kinds DEF Fails, Return, Goto, TypeOK, LocksHeld, Pairs, WithModelLock
<1>10. ASSUME NEW t \in Tasks, NEW step \in Steps, Moves(t, step)
      PROVE  Pairs'
  BY <1>10 DEF Moves, MayMove, Goto, world, Pairs
<1>11. ASSUME NEW t \in Tasks, NEW step \in Steps, Notes(t, step)
      PROVE  Pairs'
  <2>1. /\ lk[t] = NoLock /\ t \notin Requests
    BY <1>11 DEF Notes, Shapes, TaskShape, WithLock, WithModelLock
  <2>2. /\ UNCHANGED <<engines, locks, lk>>
        /\ \A s \in Tasks \ {t} : pc'[s] = pc[s] /\ eng'[s] = eng[s]
    BY <1>11 DEF Notes, Goto, world
  <2>. QED  BY <2>1, <2>2, Kinds DEF Pairs
<1>12. ASSUME NEW t \in Tasks, NEW step \in Steps, Waits(t, step)
      PROVE  Pairs'
  BY <1>12, Kinds DEF Waits, GetLock, Goto, TypeOK, Pairs, Shapes, RequestShape,
     WithLock, WithModelLock
<1>13. ASSUME NEW t \in Tasks, NEW step \in Steps, GrantsModel(t, step)
      PROVE  Pairs'
  BY <1>13 DEF GrantsModel, Goto, world, frame, Pairs
<1>14. ASSUME NEW t \in Tasks, NEW step \in Steps, Retries(t, step)
      PROVE  Pairs'
  BY <1>14 DEF Retries, GetLock, Goto, Pairs, Shapes, RequestShape, WithLock,
     WithModelLock
<1>15. ASSUME NEW t \in Tasks, NEW e \in Engines, NEW d \in Devices, Builds(t, e, d)
      PROVE  Pairs'
  BY <1>15, Kinds DEF Builds, Goto, TypeOK, Pairs
<1>16. ASSUME NEW t \in Tasks, NEW e \in Engines, NEW d \in Devices, Rebuilds(t, e, d)
      PROVE  Pairs'
  BY <1>16, Kinds DEF Rebuilds, Create, Return, FreeEngines, Goto, TypeOK, LocksHeld,
     Pairs, Shapes, RequestShape, WithLock, WithModelLock
<1>17. ASSUME NEW m \in Models, Unloads(m)
      PROVE  Pairs'
  BY <1>17, Kinds DEF Unloads, frame, TypeOK, LocksHeld, Pairs, WithModelLock
<1>18. ASSUME NEW e \in Engines, Ends(e)
      PROVE  Pairs'
  BY <1>18 DEF Ends, registry, frame, Pairs
<1>19. ASSUME Nothing
      PROVE  Pairs'
  BY <1>19 DEF Nothing, world, frame, Pairs
<1>. QED
  BY <1>1, <1>2, <1>3, <1>4, <1>5, <1>6, <1>7, <1>8, <1>9, <1>10, <1>11, <1>12, <1>13,
     <1>14, <1>15, <1>16, <1>17, <1>18, <1>19 DEF Effect

\* A task that is over, or starts over, closes what it had built.
LEMMA ObjectsDropped ==
  ASSUME LifecycleAssumption, TypeOK, Objects, NEW t \in Tasks,
         UNCHANGED <<engines, hung>>, open' = open \ {repl[t]},
         eng' = [eng EXCEPT ![t] = NoEngine], repl' = [repl EXCEPT ![t] = NoEngine],
         "recover" \notin {pc[t], pc'[t]}, \A s \in Tasks \ {t} : pc'[s] = pc[s]
  PROVE  Objects'
<1>1. Housed'
  BY DEF Objects, Housed
<1>2. OneOwner'
  BY Kinds DEF Objects, OneOwner
<1>3. HungApart' /\ hung' \subseteq open'
  BY Kinds DEF Objects, HungApart, TypeOK
<1>4. Private'
  BY Kinds DEF Objects, Private, OneOwner, TypeOK
<1>5. ClosedRecovers'
  <2>1. \A m \in Models : engines[m] # NoEngine => repl[t] # engines[m]
    BY DEF Objects, OneOwner
  <2>. QED  BY <2>1, Kinds DEF Objects, ClosedRecovers
<1>6. RecoversClosed'
  BY Kinds DEF Objects, RecoversClosed
<1>. QED  BY <1>1, <1>2, <1>3, <1>4, <1>5, <1>6 DEF Objects

\* Steps that build, close, register and withdraw nothing.
LEMMA ObjectsKept ==
  ASSUME LifecycleAssumption, TypeOK, Objects, UNCHANGED <<engines, open, hung, repl>>,
         \A t \in Tasks : \/ eng'[t] \in {eng[t], NoEngine}
                          \/ \E m \in Models : eng'[t] = engines[m],
         \A r \in Requests : \/ pc'[r] = pc[r] /\ eng'[r] = eng[r]
                             \/ "recover" \notin {pc[r], pc'[r]}
  PROVE  Objects'
<1>1. Housed' /\ OneOwner' /\ HungApart' /\ hung' \subseteq open'
  BY DEF Objects, Housed, OneOwner, HungApart
<1>2. Private'
  BY Kinds DEF Objects, Private, OneOwner
<1>3. ClosedRecovers' /\ RecoversClosed'
  BY DEF Objects, ClosedRecovers, RecoversClosed
<1>. QED  BY <1>1, <1>2, <1>3 DEF Objects

LEMMA EffectObjects ==
  ASSUME LifecycleAssumption, TypeOK, Shapes, LocksHeld, Pairs, Objects, Effect
  PROVE  Objects'
<1>1. ASSUME NEW t \in Tasks, Leaves(t)
      PROVE  Objects'
  BY <1>1, ObjectsDropped DEF Leaves, Return, Goto, TypeOK
<1>2. ASSUME NEW t \in Tasks, Again(t)
      PROVE  Objects'
  BY <1>2, ObjectsDropped, Kinds DEF Again, LoadAgain, Goto, TypeOK, WithLoadLock
<1>3. ASSUME NEW t \in Tasks, Installs(t)
      PROVE  Objects'
  <2>. DEFINE m == ModelOf[t]
  <2>1. /\ m \in Models /\ engines[m] = eng[t] /\ t \notin Requests
    BY <1>3, Kinds DEF Installs
  <2>2. /\ pc' = [pc EXCEPT ![t] = "idle"] /\ eng' = [eng EXCEPT ![t] = NoEngine]
        /\ repl' = [repl EXCEPT ![t] = NoEngine] /\ engines' = [engines EXCEPT ![m] = repl[t]]
        /\ open' = open \ {eng[t]} /\ hung' = hung
    BY <1>3 DEF Installs, Install, Return, Goto
  <2>3. Housed'
    <3>. SUFFICES ASSUME NEW x \in open', x \notin hung', \A s \in Tasks : repl'[s] # x
                  PROVE  \E n \in Models : engines'[n] = x
      BY DEF Housed
    <3>1. x \in Engines /\ x # NoEngine /\ x \in open /\ x \notin hung /\ x # eng[t]
      BY <2>1, <2>2 DEF TypeOK
    <3>2. \/ \E n \in Models : engines[n] = x
          \/ \E s \in Tasks : repl[s] = x
      BY <3>1 DEF Objects, Housed
    <3>3. CASE \E n \in Models : engines[n] = x
      BY <2>1, <2>2, <3>1, <3>3 DEF TypeOK
    <3>4. CASE \E s \in Tasks : repl[s] = x
      BY <2>1, <2>2, <3>1, <3>4 DEF TypeOK
    <3>. QED  BY <3>2, <3>3, <3>4
  <2>4. OneOwner'
    BY <2>1, <2>2 DEF Objects, OneOwner, TypeOK
  <2>5. HungApart'
    BY <2>1, <2>2 DEF Objects, HungApart, TypeOK
  <2>6. hung' \subseteq open'
    BY <2>1, <2>2 DEF Objects, HungApart
  <2>7. Private'
    BY <2>1, <2>2 DEF Objects, Private
  <2>8. ClosedRecovers'
    BY <2>1, <2>2, Kinds DEF Objects, ClosedRecovers, OneOwner, Private, TypeOK
  <2>9. RecoversClosed'
    BY <2>1, <2>2 DEF Objects, RecoversClosed
  <2>. QED  BY <2>3, <2>4, <2>5, <2>6, <2>7, <2>8, <2>9 DEF Objects
<1>4. ASSUME NEW t \in Tasks, Withdraws(t)
      PROVE  Objects'
  <2>. DEFINE m == ModelOf[t]
  <2>1. /\ t \in Requests /\ pc[t] = "closing" /\ m \in Models /\ engines[m] = eng[t]
        /\ eng[t] # NoEngine /\ repl[t] = NoEngine
    BY <1>4 DEF Withdraws, Pairs, Shapes, RequestShape, WithLock, WithModelLock
  <2>2. /\ pc' = [pc EXCEPT ![t] = "idle"] /\ eng' = [eng EXCEPT ![t] = NoEngine]
        /\ repl' = [repl EXCEPT ![t] = NoEngine] /\ engines' = [engines EXCEPT ![m] = NoEngine]
        /\ hung' = hung \cup {eng[t]} /\ open' = open
    BY <1>4 DEF Withdraws, Return, Goto
  <2>3. ASSUME NEW q \in Requests, ModelOf[q] = m, pc[q] = "recover"  PROVE FALSE
    <3>1. lk[q] = locks[m] /\ lk[t] = locks[m]
      BY <2>1, <2>3 DEF Pairs
    <3>2. holder[lk[q]] = q /\ holder[lk[t]] = t
      BY <2>1, <2>3, Kinds DEF LocksHeld, WithModelLock
    <3>. QED  BY <2>1, <2>3, <3>1, <3>2
  <2>4. Housed'
    <3>. SUFFICES ASSUME NEW x \in open', x \notin hung', \A s \in Tasks : repl'[s] # x
                  PROVE  \E n \in Models : engines'[n] = x
      BY DEF Housed
    <3>1. x \in Engines /\ x # NoEngine /\ x \in open /\ x \notin hung /\ x # eng[t]
      BY <2>1, <2>2 DEF TypeOK
    <3>2. \/ \E n \in Models : engines[n] = x
          \/ \E s \in Tasks : repl[s] = x
      BY <3>1 DEF Objects, Housed
    <3>3. CASE \E n \in Models : engines[n] = x
      BY <2>1, <2>2, <3>1, <3>3 DEF TypeOK
    <3>4. CASE \E s \in Tasks : repl[s] = x
      BY <2>1, <2>2, <3>1, <3>4, Kinds DEF TypeOK
    <3>. QED  BY <3>2, <3>3, <3>4
  <2>5. OneOwner'
    BY <2>1, <2>2, <2>3 DEF Objects, OneOwner
  <2>6. HungApart'
    BY <2>1, <2>2, <2>3 DEF Objects, HungApart, OneOwner, TypeOK
  <2>7. hung' \subseteq open'
    BY <2>1, <2>2, <2>3 DEF Objects, ClosedRecovers
  <2>8. Private'
    BY <2>1, <2>2, <2>3 DEF Objects, Private
  <2>9. ClosedRecovers'
    BY <2>1, <2>2, <2>3 DEF Objects, ClosedRecovers
  <2>10. RecoversClosed'
    BY <2>1, <2>2, <2>3 DEF Objects, RecoversClosed
  <2>. QED  BY <2>4, <2>5, <2>6, <2>7, <2>8, <2>9, <2>10 DEF Objects
<1>5. ASSUME NEW t \in Tasks, Closes(t)
      PROVE  Objects'
  <2>. DEFINE m == ModelOf[t]
  <2>1. /\ t \in Requests /\ m \in Models /\ engines[m] = eng[t] /\ eng[t] # NoEngine
    BY <1>5 DEF Closes, Pairs, Shapes, RequestShape, WithLock, WithModelLock
  <2>2. /\ pc' = [pc EXCEPT ![t] = "recover"] /\ open' = open \ {eng[t]}
        /\ UNCHANGED <<engines, hung, eng, repl>>
    BY <1>5 DEF Closes, Goto, registry, frame
  <2>3. Housed'
    BY <2>1, <2>2 DEF Objects, Housed
  <2>4. OneOwner'
    BY <2>1, <2>2 DEF Objects, OneOwner
  <2>5. HungApart'
    BY <2>1, <2>2 DEF Objects, HungApart
  <2>6. hung' \subseteq open'
    BY <2>1, <2>2 DEF Objects, HungApart
  <2>7. Private'
    BY <2>1, <2>2 DEF Objects, Private
  <2>8. ClosedRecovers'
    BY <2>1, <2>2 DEF Objects, ClosedRecovers, OneOwner, TypeOK
  <2>9. RecoversClosed'
    BY <2>1, <2>2 DEF Objects, RecoversClosed
  <2>. QED  BY <2>3, <2>4, <2>5, <2>6, <2>7, <2>8, <2>9 DEF Objects
<1>6. ASSUME NEW t \in Tasks, Fails(t)
      PROVE  Objects'
  <2>. DEFINE m == ModelOf[t]
  <2>1. /\ t \in Requests /\ pc[t] = "recover" /\ m \in Models /\ engines[m] = eng[t]
        /\ repl[t] = NoEngine
    BY <1>6 DEF Fails, Pairs, Shapes, RequestShape
  <2>2. /\ pc' = [pc EXCEPT ![t] = "idle"] /\ eng' = [eng EXCEPT ![t] = NoEngine]
        /\ repl' = [repl EXCEPT ![t] = NoEngine] /\ engines' = [engines EXCEPT ![m] = NoEngine]
        /\ hung' = hung /\ open' = open
    BY <1>6 DEF Fails, Return, Goto
  <2>3. Housed'
    <3>. SUFFICES ASSUME NEW x \in open', x \notin hung', \A s \in Tasks : repl'[s] # x
                  PROVE  \E n \in Models : engines'[n] = x
      BY DEF Housed
    <3>1. x \in Engines /\ x # NoEngine /\ x \in open /\ x \notin hung /\ x # eng[t]
      BY <2>1, <2>2 DEF TypeOK, Objects, RecoversClosed
    <3>2. \/ \E n \in Models : engines[n] = x
          \/ \E s \in Tasks : repl[s] = x
      BY <3>1 DEF Objects, Housed
    <3>3. CASE \E n \in Models : engines[n] = x
      BY <2>1, <2>2, <3>1, <3>3 DEF TypeOK
    <3>4. CASE \E s \in Tasks : repl[s] = x
      BY <2>1, <2>2, <3>1, <3>4, Kinds DEF TypeOK
    <3>. QED  BY <3>2, <3>3, <3>4
  <2>4. OneOwner'
    BY <2>1, <2>2 DEF Objects, OneOwner
  <2>5. HungApart'
    BY <2>1, <2>2 DEF Objects, HungApart
  <2>6. hung' \subseteq open'
    BY <2>1, <2>2 DEF Objects
  <2>7. Private'
    BY <2>1, <2>2 DEF Objects, Private
  <2>8. ClosedRecovers'
    BY <2>1, <2>2 DEF Objects, ClosedRecovers, TypeOK
  <2>9. RecoversClosed'
    BY <2>1, <2>2 DEF Objects, RecoversClosed, TypeOK
  <2>. QED  BY <2>3, <2>4, <2>5, <2>6, <2>7, <2>8, <2>9 DEF Objects
<1>7. ASSUME NEW t \in Tasks, NEW e \in Engines, NEW d \in Devices, Builds(t, e, d)
      PROVE  Objects'
  <2>1. /\ e \notin open /\ \A n \in Models : engines[n] # e
        /\ \A s \in Tasks : eng[s] # e /\ repl[s] # e
    BY <1>7 DEF Builds, Create, FreeEngines
  <2>2. t \notin Requests /\ repl[t] = NoEngine /\ pc[t] = "build"
    BY <1>7 DEF Builds, Shapes, TaskShape
  <2>3. /\ open' = open \cup {e} /\ repl' = [repl EXCEPT ![t] = e]
        /\ UNCHANGED <<engines, hung, eng>> /\ \A q \in Tasks \ {t} : pc'[q] = pc[q]
        /\ pc'[t] # "recover"
    BY <1>7 DEF Builds, Create, Goto, TypeOK
  <2>4. Housed'
    <3>1. \A x \in open' \ {e} : x \in hung \/ (\E n \in Models : engines[n] = x)
                              \/ (\E s \in Tasks \ {t} : repl[s] = x)
      <4>1. open' \ {e} \subseteq open /\ NoEngine \notin open
        BY <2>3, Kinds DEF TypeOK
      <4>2. \A x \in open : x \in hung \/ (\E n \in Models : engines[n] = x)
                             \/ (\E s \in Tasks : repl[s] = x)
        BY DEF Objects, Housed
      <4>. QED  BY ONLY <2>2, <4>1, <4>2
    <3>2. repl'[t] = e /\ \A s \in Tasks \ {t} : repl'[s] = repl[s]
      BY <2>3 DEF TypeOK
    <3>. QED  BY <2>3, <3>1, <3>2 DEF Housed
  <2>5. OneOwner'
    BY <2>1, <2>2, <2>3 DEF Objects, OneOwner
  <2>6. HungApart'
    BY <2>1, <2>2, <2>3 DEF Objects, HungApart
  <2>7. hung' \subseteq open'
    BY <2>1, <2>2, <2>3 DEF Objects
  <2>8. Private'
    BY <2>1, <2>2, <2>3 DEF Objects, Private
  <2>9. ClosedRecovers'
    BY <2>1, <2>2, <2>3, Kinds DEF Objects, ClosedRecovers
  <2>10. RecoversClosed'
    BY <2>1, <2>2, <2>3, Kinds DEF Objects, RecoversClosed
  <2>. QED  BY <2>4, <2>5, <2>6, <2>7, <2>8, <2>9, <2>10 DEF Objects
<1>8. ASSUME NEW t \in Tasks, NEW e \in Engines, NEW d \in Devices, Rebuilds(t, e, d)
      PROVE  Objects'
  <2>. DEFINE m == ModelOf[t]
  <2>1. /\ e \in Engines /\ e \notin open /\ \A n \in Models : engines[n] # e
        /\ \A s \in Tasks : eng[s] # e /\ repl[s] # e
    BY <1>8 DEF Rebuilds, Create, FreeEngines
  <2>2. /\ t \in Requests /\ pc[t] = "recover" /\ m \in Models /\ engines[m] = eng[t]
        /\ eng[t] \notin open /\ repl[t] = NoEngine
    BY <1>8 DEF Rebuilds, Pairs, Objects, RecoversClosed, Shapes, RequestShape
  <2>3. /\ pc' = [pc EXCEPT ![t] = "idle"] /\ eng' = [eng EXCEPT ![t] = NoEngine]
        /\ repl' = [repl EXCEPT ![t] = NoEngine] /\ engines' = [engines EXCEPT ![m] = e]
        /\ hung' = hung /\ open' = open \cup {e}
    BY <1>8 DEF Rebuilds, Create, Return, Goto
  <2>4. Housed'
      <3>. SUFFICES ASSUME NEW x \in open', x \notin hung', \A s \in Tasks : repl'[s] # x
                  PROVE  \E n \in Models : engines'[n] = x
      BY DEF Housed
    <3>1. CASE x = e
      BY <2>2, <2>3, <3>1 DEF TypeOK
    <3>2. CASE x # e
      <4>1. x \in open /\ x \notin hung /\ x # eng[t] /\ x # NoEngine
        BY <2>2, <2>3, <3>2, Kinds DEF TypeOK
      <4>2. \A s \in Tasks : repl[s] # x
        BY <2>2, <2>3, <4>1 DEF TypeOK
      <4>3. \E n \in Models \ {m} : engines[n] = x
        BY <2>2, <4>1, <4>2 DEF Objects, Housed
      <4>. QED  BY <2>2, <2>3, <4>3 DEF TypeOK
    <3>. QED  BY <3>1, <3>2
  <2>5. OneOwner'
    BY <2>1, <2>2, <2>3 DEF Objects, OneOwner
  <2>6. HungApart'
    BY <2>1, <2>2, <2>3 DEF Objects, HungApart
  <2>7. hung' \subseteq open'
    BY <2>1, <2>2, <2>3 DEF Objects
  <2>8. Private'
    BY <2>1, <2>2, <2>3 DEF Objects, Private
  <2>9. ClosedRecovers'
    BY <2>1, <2>2, <2>3 DEF Objects, ClosedRecovers, TypeOK
  <2>10. RecoversClosed'
    BY <2>1, <2>2, <2>3, Kinds DEF Objects, RecoversClosed, TypeOK
  <2>. QED  BY <2>4, <2>5, <2>6, <2>7, <2>8, <2>9, <2>10 DEF Objects
<1>9. ASSUME NEW m \in Models, Unloads(m)
      PROVE  Objects'
  <2>1. /\ engines[m] # NoEngine /\ engines' = [engines EXCEPT ![m] = NoEngine]
        /\ open' = open \ {engines[m]} /\ UNCHANGED <<hung, pc, eng, repl>>
    BY <1>9 DEF Unloads, frame
  <2>2. Housed'
    BY <2>1 DEF Objects, Housed
  <2>3. OneOwner'
    BY <2>1 DEF Objects, OneOwner
  <2>4. HungApart'
    BY <2>1 DEF Objects, HungApart, TypeOK
  <2>5. hung' \subseteq open'
    BY <2>1 DEF Objects, HungApart
  <2>6. Private'
    BY <2>1 DEF Objects, Private, OneOwner
  <2>7. ClosedRecovers'
    BY <2>1 DEF Objects, ClosedRecovers, OneOwner, TypeOK
  <2>8. RecoversClosed'
    BY <2>1 DEF Objects, RecoversClosed
  <2>. QED  BY <2>2, <2>3, <2>4, <2>5, <2>6, <2>7, <2>8 DEF Objects
<1>10. ASSUME NEW e \in Engines, Ends(e)
      PROVE  Objects'
  BY <1>10 DEF Ends, registry, frame, Objects, Housed, OneOwner, HungApart, Private,
     ClosedRecovers, RecoversClosed
<1>11. ASSUME NEW t \in Tasks,
             \/ Begins(t) \/ Takes(t) \/ GrantsLoad(t)
             \/ \E step \in Steps : \/ Moves(t, step) \/ Notes(t, step) \/ Waits(t, step)
                                    \/ GrantsModel(t, step) \/ Retries(t, step)
       PROVE  Objects'
  <2>1. UNCHANGED <<engines, open, hung, repl>>
    BY <1>11 DEF Begins, Takes, GrantsLoad, Moves, Notes, Waits, GrantsModel, Retries, world, frame
  <2>2. \A s \in Tasks : \/ eng'[s] \in {eng[s], NoEngine}
                         \/ \E m \in Models : eng'[s] = engines[m]
    BY <1>11, Kinds DEF Begins, Takes, GrantsLoad, Moves, Notes, Waits, GrantsModel, Retries, frame, TypeOK
  <2>3. \A s \in Tasks : \/ pc'[s] = pc[s] /\ eng'[s] = eng[s]
                         \/ "recover" \notin {pc[s], pc'[s]}
    BY <1>11 DEF Begins, Takes, GrantsLoad, Moves, MayMove, Notes, Waits, GrantsModel, Retries, Goto,
       frame, TypeOK
  <2>. QED  BY <2>1, <2>2, <2>3, Kinds, ObjectsKept
<1>12. ASSUME Nothing
       PROVE  Objects'
  BY <1>12, ObjectsKept DEF Nothing, world, frame
<1>. QED
  BY <1>1, <1>2, <1>3, <1>4, <1>5, <1>6, <1>7, <1>8, <1>9, <1>10, <1>11, <1>12 DEF
     Effect

LEMMA EnqueueType ==
  ASSUME TypeOK, NEW t \in Tasks, NEW l \in AllLocks, Enqueue(t, l)
  PROVE  queue' \in [AllLocks -> Seq(Tasks)]
  BY DEF Enqueue, TypeOK

LEMMA LeaveQueueType ==
  ASSUME TypeOK, NEW t \in Tasks, NEW l \in AllLocks, LeaveQueue(t, l)
  PROVE  queue' \in [AllLocks -> Seq(Tasks)]
<1>. DEFINE s == queue[l]
<1>1. PICK i \in 1 .. Len(s) : queue' = [queue EXCEPT ![l] = SubSeq(@, 1, i - 1) \o SubSeq(@, i + 1, Len(@))]
  BY DEF LeaveQueue
<1>2. s \in Seq(Tasks)
  BY DEF TypeOK
<1>3. SubSeq(s, 1, i - 1) \o SubSeq(s, i + 1, Len(s)) \in Seq(Tasks)
  BY <1>2, WithoutType
<1>. QED  BY <1>1, <1>3 DEF TypeOK


-----------------------------------------------------------------------------
(* Every step has one of the effects.                                        *)

LEMMA LeavesBy ==
  ASSUME LifecycleAssumption, TypeOK, NEW t \in Tasks, pc[t] # "recover", Return(t),
         open' = open \ {repl[t]} \/ (open' = open /\ repl[t] = NoEngine),
         \/ locks' = locks
         \/ locks' = [locks EXCEPT ![ModelOf[t]] =
                        IF engines[ModelOf[t]] = NoEngine THEN NoLock ELSE @],
         UNCHANGED <<engines, device, hung>>
  PROVE  Effect
<1>1. open' = open \ {repl[t]}
  BY Kinds DEF TypeOK
<1>2. \/ locks' = locks
      \/ engines[ModelOf[t]] = NoEngine /\ locks' = [locks EXCEPT ![ModelOf[t]] = NoLock]
  BY Kinds DEF TypeOK
<1>3. Leaves(t)
  BY <1>1, <1>2 DEF Leaves
<1>. QED  BY <1>3 DEF Effect

LEMMA MovesBy ==
  ASSUME LifecycleAssumption, TypeOK, NEW t \in Tasks, NEW step \in Steps,
         MayMove(t, step), Goto(t, step),
         dev' = dev \/ \E d \in Devices : dev' = [dev EXCEPT ![t] = d],
         UNCHANGED <<world, holder, eng, lk, repl>>
  PROVE  Effect
<1>1. \E d \in Devices \cup {NoDevice} : dev' = [dev EXCEPT ![t] = d]
  <2>1. CASE dev' = dev
    <3>1. dev' = [dev EXCEPT ![t] = dev[t]] /\ dev[t] \in Devices \cup {NoDevice}
      BY <2>1 DEF TypeOK
    <3>. QED  BY <3>1
  <2>. QED  BY <2>1
<1>2. Moves(t, step)
  BY <1>1 DEF Moves
<1>. QED  BY <1>2 DEF Effect

\* A request or a load that gives up a stale pair holds no other lock it could free.
LEMMA OnlyModelLock ==
  ASSUME LifecycleAssumption, TypeOK, Shapes, LocksHeld,
         NEW t \in Tasks, pc[t] \in WithModelLock \ WithLoadLock
  PROVE  Unlocked(t) = [holder EXCEPT ![lk[t]] = NoTask]
<1>1. lk[t] \in AllLocks /\ holder[lk[t]] = t
  BY Kinds DEF TypeOK, Shapes, TaskShape, WithLock, LocksHeld
<1>2. \A l \in AllLocks : holder[l] = t => l = lk[t]
  BY Kinds DEF LocksHeld
<1>. QED  BY <1>1, <1>2 DEF Unlocked, TypeOK

\* The lock of a model with an engine is read, not created.
LEMMA LockRead ==
  ASSUME TypeOK, Pairs, NEW m \in Models, engines[m] # NoEngine,
         NEW l \in Locks, GetLock(m, l)
  PROVE  l = locks[m] /\ locks' = locks
<1>1. l = locks[m] /\ locks' = [locks EXCEPT ![m] = l]
  BY DEF GetLock, Pairs
<1>. QED  BY <1>1 DEF TypeOK

LEMMA NewestType ==
  ASSUME LifecycleAssumption, TypeOK, Shapes, NEW t \in Loaders, pc[t] # "idle"
  PROVE  Newest(t) \in Devices /\ dev[t] \in Devices
  BY Kinds DEF Newest, TypeOK, Shapes, LoaderShape

LEMMA RequestEffects ==
  ASSUME LifecycleAssumption, IndInv, NEW r \in Requests, RequestStep(r)
  PROVE  Effect
<1>. DEFINE m == ModelOf[r]
<1>i. /\ TypeOK /\ Shapes /\ LocksHeld /\ Pairs /\ Objects
      /\ r \in Tasks /\ m \in Models /\ repl[r] = NoEngine
  BY Kinds DEF IndInv, Shapes, RequestShape
<1>1. CASE Resolve(r)
  BY <1>i, <1>1, MovesBy DEF Resolve, MayMove, Steps, world, registry, mutexes, objects, frame
<1>2. CASE LeaseRefused(r)
  BY <1>i, <1>2, MovesBy DEF LeaseRefused, MayMove, Steps, world, registry, mutexes, objects, frame
<1>3. CASE Lease(r)
  <2>1. PICK l \in Locks :
          /\ GetLock(m, l)
          /\ lk' = [lk EXCEPT ![r] = l]
          /\ \/ Idle(l) /\ holder' = [holder EXCEPT ![l] = r] /\ Goto(r, "leased")
             \/ Goto(r, "lease_wait") /\ UNCHANGED holder
    BY <1>3 DEF Lease
  <2>2. /\ pc[r] = "resolved" /\ engines[m] # NoEngine
        /\ eng' = [eng EXCEPT ![r] = engines[m]]
        /\ UNCHANGED <<engines, objects, repl, dev>>
    BY <1>3 DEF Lease
  <2>3. l = locks[m] /\ locks' = locks
    BY <1>i, <2>1, <2>2, LockRead
  <2>4. Takes(r) \/ Waits(r, "lease_wait")
    BY <2>1, <2>2, <2>3 DEF Takes, Waits, Idle, world, objects
  <2>. QED  BY <1>i, <2>4 DEF Effect, Steps
<1>4. CASE LeaseCancel(r)
  BY <1>i, <1>4, LeavesBy DEF LeaseCancel, registry, objects
<1>5. CASE LeaseCheck(r)
  <2>1. PICK l \in Locks :
          /\ GetLock(m, l)
          /\ \/ engines[m] = eng[r] /\ l = lk[r] /\ Goto(r, "native") /\ UNCHANGED <<holder, eng, lk>>
             \/ /\ Goto(r, "resolved") /\ holder' = Unlocked(r)
                /\ eng' = [eng EXCEPT ![r] = NoEngine] /\ lk' = [lk EXCEPT ![r] = NoLock]
    BY <1>5 DEF LeaseCheck
  <2>2. pc[r] = "leased" /\ UNCHANGED <<engines, objects, repl, dev>>
    BY <1>5 DEF LeaseCheck
  <2>3. CASE engines[m] = eng[r] /\ l = lk[r] /\ Goto(r, "native") /\ UNCHANGED <<holder, eng, lk>>
    <3>1. eng[r] # NoEngine
      BY <1>i, <2>2 DEF Shapes, RequestShape, WithLock, WithModelLock
    <3>2. l = locks[m] /\ locks' = locks
      BY <1>i, <2>1, <2>3, <3>1, LockRead
    <3>3. Begins(r)
      BY <2>2, <2>3, <3>2 DEF Begins, world, objects, frame
    <3>. QED  BY <1>i, <3>3 DEF Effect
  <2>4. CASE /\ Goto(r, "resolved") /\ holder' = Unlocked(r)
             /\ eng' = [eng EXCEPT ![r] = NoEngine] /\ lk' = [lk EXCEPT ![r] = NoLock]
    <3>1. pc[r] \in WithModelLock \ WithLoadLock
      BY <2>2 DEF WithModelLock, WithLoadLock
    <3>2. holder' = [holder EXCEPT ![lk[r]] = NoTask]
      BY <1>i, <2>4, <3>1, OnlyModelLock
    <3>3. Retries(r, "resolved")
      BY <2>1, <2>2, <2>4, <3>2 DEF Retries, objects
    <3>. QED  BY <1>i, <3>3 DEF Effect, Steps
  <2>. QED  BY <2>1, <2>3, <2>4
<1>6. CASE Finish(r) \/ Stopped(r)
  BY <1>i, <1>6, LeavesBy DEF Finish, Stopped, registry, objects
<1>7. CASE Interrupt(r)
  BY <1>i, <1>7, MovesBy DEF Interrupt, MayMove, Steps, world, registry, mutexes, objects, frame
<1>8. CASE Quarantine(r)
  <2>1. engines[m] = eng[r]
    BY <1>i, <1>8 DEF Quarantine, Pairs
  <2>2. Withdraws(r)
    BY <1>i, <1>8, <2>1 DEF Quarantine, Withdraws
  <2>. QED  BY <1>i, <2>2 DEF Effect
<1>9. CASE BeginRecovery(r)
  <2>1. Closes(r)
    BY <1>9 DEF BeginRecovery, Closes, mutexes
  <2>. QED  BY <1>i, <2>1 DEF Effect
<1>10. CASE Recovered(r)
  <2>1. /\ pc[r] = "recover" /\ engines[m] = eng[r] /\ eng[r] \in Engines
    BY <1>i, <1>10 DEF Recovered, Pairs, TypeOK, Shapes, RequestShape, WithLock, WithModelLock
  <2>2. PICK e \in Engines : Create(e, device[eng[r]]) /\ engines' = [engines EXCEPT ![m] = e]
    BY <1>10, <2>1 DEF Recovered, FreeEngines
  <2>3. Rebuilds(r, e, device[eng[r]])
    BY <1>10, <2>1, <2>2 DEF Recovered, Rebuilds
  <2>. QED  BY <1>i, <2>1, <2>3 DEF Effect, TypeOK
<1>11. CASE RecoveryFailed(r)
  <2>1. Fails(r)
    BY <1>11 DEF RecoveryFailed, Fails, objects
  <2>. QED  BY <1>i, <2>1 DEF Effect
<1>. QED  BY <1>1, <1>2, <1>3, <1>4, <1>5, <1>6, <1>7, <1>8, <1>9, <1>10, <1>11 DEF RequestStep

LEMMA LoadEffects ==
  ASSUME LifecycleAssumption, IndInv, NEW t \in Loaders, LoadStep(t)
  PROVE  Effect
<1>. DEFINE m == ModelOf[t]
<1>i. /\ TypeOK /\ Shapes /\ LocksHeld /\ Pairs /\ Objects
      /\ t \in Tasks /\ m \in Models
  BY Kinds DEF IndInv
<1>s. /\ repl[t] # NoEngine => pc[t] \in {"swap", "swap_wait", "swap_held"}
      /\ pc[t] \notin WithLock => eng[t] = NoEngine
  <2>1. LoaderShape(t) /\ TaskShape(t)
    BY <1>i DEF Shapes
  <2>. QED  BY <2>1 DEF LoaderShape, TaskShape, WithLoadLock
<1>a. ASSUME pc[t] \in WithLoadLock, LoadAgain(t), UNCHANGED <<engines, locks, device, hung>>
      PROVE  Effect
  <2>1. Again(t)
    BY <1>a DEF Again
  <2>. QED  BY <1>i, <2>1 DEF Effect
<1>b. ASSUME pc[t] \in WithLoadLock \cup {"start"},
             LoadFails(t) \/ (LoadReturns(t) /\ locks' = locks),
             UNCHANGED <<engines, open, device, hung>>, repl[t] = NoEngine
      PROVE  Effect
  BY <1>i, <1>b, LeavesBy DEF LoadFails, LoadReturns, WithLoadLock
<1>n. ASSUME engines[m] = eng[t], eng[t] # NoEngine => pc[t] = "swap_held",
             pc[t] \in WithLoadLock, LoadInstalls(t), UNCHANGED <<device, hung>>
      PROVE  Effect
  <2>1. CASE LoadAgain(t) /\ UNCHANGED <<registry, target>>
    BY <1>a, <1>n, <2>1 DEF registry
  <2>2. CASE Install(t) /\ LoadReturns(t)
    <3>1. Installs(t)
      BY <1>n, <2>2 DEF Installs, LoadReturns
    <3>. QED  BY <1>i, <3>1 DEF Effect
  <2>. QED  BY <1>n, <2>1, <2>2 DEF LoadInstalls
<1>1. CASE LoadBegin(t)
  <2>1. CASE /\ LoadFails(t) \/ (LoadReturns(t) /\ locks' = locks)
    BY <1>s, <1>b, <1>1, <2>1 DEF LoadBegin, objects
  <2>2. CASE /\ dev' = [dev EXCEPT ![t] = Newest(t)] /\ Goto(t, "load_wait")
             /\ UNCHANGED <<locks, holder, eng, lk, repl>>
    <3>1. pc[t] = "start" /\ UNCHANGED <<engines, objects>> /\ Newest(t) \in Devices
      BY <1>i, <1>1, NewestType DEF LoadBegin
    <3>2. MayMove(t, "load_wait")
      BY <1>i, <2>2, <3>1 DEF MayMove, TypeOK
    <3>. QED  BY <1>i, <2>2, <3>1, <3>2, MovesBy DEF Steps, world, objects
  <2>. QED  BY <1>1, <2>1, <2>2 DEF LoadBegin
<1>2. CASE LoadLocked(t)
  <2>1. pc[t] = "load_held" /\ pc[t] \in WithLoadLock /\ UNCHANGED <<engines, device, hung>>
    BY <1>2 DEF LoadLocked, WithLoadLock
  <2>2. CASE LoadAgain(t) /\ locks' = locks
    BY <1>a, <2>1, <2>2
  <2>3. CASE (LoadFails(t) \/ (LoadReturns(t) /\ locks' = locks)) /\ open' = open
    BY <1>s, <1>b, <2>1, <2>3
  <2>4. CASE /\ Goto(t, "convert") \/ Goto(t, "build")
             /\ UNCHANGED <<locks, holder, open, frame>>
    <3>1. MayMove(t, "convert") /\ MayMove(t, "build")
      BY <1>i, <2>1, <2>4, NewestType DEF MayMove, frame
    <3>. QED  BY <1>i, <2>1, <2>4, <3>1, MovesBy DEF Steps, world, frame
  <2>. QED  BY <1>2, <2>2, <2>3, <2>4 DEF LoadLocked
<1>3. CASE LoadConverted(t)
  <2>1. pc[t] = "convert" /\ pc[t] \in WithLoadLock /\ UNCHANGED <<engines, device, hung>>
    BY <1>3 DEF LoadConverted, WithLoadLock
  <2>2. CASE LoadAgain(t) /\ locks' = locks
    BY <1>a, <2>1, <2>2
  <2>3. CASE LoadFails(t) /\ open' = open
    BY <1>s, <1>b, <2>1, <2>3
  <2>4. CASE Goto(t, "build") /\ UNCHANGED <<locks, holder, open, frame>>
    <3>1. MayMove(t, "build")
      BY <1>i, <2>1, <2>4, NewestType DEF MayMove, frame
    <3>. QED  BY <1>i, <2>1, <2>4, <3>1, MovesBy DEF Steps, world, frame
  <2>. QED  BY <1>3, <2>2, <2>3, <2>4 DEF LoadConverted
<1>4. CASE LoadBuilt(t)
  <2>1. pc[t] = "build" /\ pc[t] \in WithLoadLock /\ UNCHANGED <<engines, hung>>
    BY <1>4 DEF LoadBuilt, WithLoadLock
  <2>2. CASE LoadAgain(t) /\ UNCHANGED <<locks, device>>
    BY <1>a, <2>1, <2>2
  <2>3. CASE LoadFails(t) /\ UNCHANGED <<open, device>>
    BY <1>s, <1>b, <2>1, <2>3
  <2>4. CASE /\ \E e \in FreeEngines : Create(e, dev[t]) /\ repl' = [repl EXCEPT ![t] = e]
             /\ Goto(t, "swap") /\ UNCHANGED <<locks, holder, eng, lk, dev>>
    <3>1. PICK e \in Engines : Create(e, dev[t]) /\ repl' = [repl EXCEPT ![t] = e]
      BY <2>4 DEF FreeEngines
    <3>2. dev[t] \in Devices /\ t \notin Requests
      BY <1>i, <2>1, NewestType, Kinds
    <3>3. Builds(t, e, dev[t])
      BY <2>1, <2>4, <3>1, <3>2 DEF Builds
    <3>. QED  BY <1>i, <3>2, <3>3 DEF Effect
  <2>. QED  BY <1>4, <2>2, <2>3, <2>4 DEF LoadBuilt
<1>5. CASE LoadHandoff(t)
  <2>1. pc[t] = "swap" /\ pc[t] \in WithLoadLock /\ eng[t] = NoEngine /\ UNCHANGED <<device, hung>>
    BY <1>s, <1>5 DEF LoadHandoff, WithLoadLock, WithLock, WithModelLock
  <2>2. CASE engines[m] = NoEngine /\ LoadInstalls(t)
    BY <1>n, <2>1, <2>2
  <2>3. CASE /\ engines[m] # NoEngine
             /\ eng' = [eng EXCEPT ![t] = engines[m]]
             /\ \E l \in Locks : GetLock(m, l) /\ lk' = [lk EXCEPT ![t] = l] /\ Enqueue(t, l)
             /\ Goto(t, "swap_wait")
             /\ UNCHANGED <<engines, target, holder, open, repl, dev>>
    <3>1. Waits(t, "swap_wait")
      BY <2>1, <2>3 DEF Waits
    <3>. QED  BY <1>i, <3>1 DEF Effect, Steps
  <2>. QED  BY <1>5, <2>2, <2>3 DEF LoadHandoff
<1>6. CASE LoadSwap(t)
  <2>1. pc[t] = "swap_held" /\ pc[t] \in WithLoadLock /\ UNCHANGED <<device, hung>>
    BY <1>6 DEF LoadSwap, WithLoadLock
  <2>2. CASE engines[m] = eng[t] /\ LoadInstalls(t)
    BY <1>n, <2>1, <2>2
  <2>3. CASE /\ \E l \in Locks : GetLock(m, l)
             /\ holder' = [holder EXCEPT ![lk[t]] = NoTask]
             /\ eng' = [eng EXCEPT ![t] = NoEngine]
             /\ lk' = [lk EXCEPT ![t] = NoLock]
             /\ Goto(t, "swap")
             /\ UNCHANGED <<engines, target, open, repl, dev>>
    <3>1. Retries(t, "swap")
      BY <2>1, <2>3 DEF Retries
    <3>. QED  BY <1>i, <3>1 DEF Effect, Steps
  <2>. QED  BY <1>6, <2>2, <2>3 DEF LoadSwap
<1>7. CASE LoadCancel(t)
  BY <1>i, <1>7, LeavesBy DEF LoadCancel, LoadReturns, registry
<1>8. CASE BuildCancel(t)
  <2>1. MayMove(t, "drain")
    BY <1>i, <1>8, NewestType DEF BuildCancel, MayMove, frame
  <2>. QED  BY <1>i, <1>8, <2>1, MovesBy DEF BuildCancel, Steps, world, registry, mutexes, objects, frame
<1>9. CASE BuildDrained(t) \/ BuildOrphaned(t)
  BY <1>i, <1>s, <1>9, LeavesBy DEF BuildDrained, BuildOrphaned, LoadReturns, registry, objects
<1>. QED  BY <1>1, <1>2, <1>3, <1>4, <1>5, <1>6, <1>7, <1>8, <1>9 DEF LoadStep

LEMMA ChangeEffects ==
  ASSUME LifecycleAssumption, IndInv, NEW t \in Changers, ChangeStep(t)
  PROVE  Effect
<1>. DEFINE m == ModelOf[t]
<1>i. /\ TypeOK /\ Shapes
      /\ t \in Tasks /\ m \in Models /\ t \notin Requests
      /\ repl[t] # NoEngine => pc[t] \in {"swap", "swap_wait", "swap_held"}
      /\ pc[t] = "build" => eng[t] \in Engines
  BY Kinds DEF IndInv, Shapes, ChangerShape, TaskShape, TypeOK
<1>1. CASE ChangeStart(t)
  BY <1>i, <1>1, MovesBy DEF ChangeStart, MayMove, Steps, world, registry, objects, frame
<1>2. CASE ChangeLocked(t)
  <2>1. pc[t] = "load_held" /\ UNCHANGED <<registry, objects>>
    BY <1>2 DEF ChangeLocked
  <2>2. CASE Return(t)
    BY <1>i, <2>1, <2>2, LeavesBy DEF registry, objects
  <2>3. CASE /\ eng' = [eng EXCEPT ![t] = engines[m]]
             /\ Goto(t, "swap") \/ (engines[m] # NoEngine /\ Goto(t, "build"))
             /\ UNCHANGED <<holder, lk, repl, dev>>
    <3>1. Notes(t, "swap") \/ Notes(t, "build")
      BY <2>1, <2>3 DEF Notes, world, registry, objects
    <3>. QED  BY <1>i, <3>1 DEF Effect, Steps
  <2>. QED  BY <1>2, <2>2, <2>3 DEF ChangeLocked
<1>3. CASE ChangeBuilt(t)
  <2>1. pc[t] = "build" /\ UNCHANGED <<registry, hung>>
    BY <1>3 DEF ChangeBuilt
  <2>2. CASE Return(t) /\ UNCHANGED <<open, device>>
    BY <1>i, <2>1, <2>2, LeavesBy DEF registry
  <2>3. CASE /\ \E e \in FreeEngines : Create(e, device[eng[t]]) /\ repl' = [repl EXCEPT ![t] = e]
             /\ Goto(t, "swap") /\ UNCHANGED <<holder, eng, lk, dev>>
    <3>1. PICK e \in Engines : Create(e, device[eng[t]]) /\ repl' = [repl EXCEPT ![t] = e]
      BY <2>3 DEF FreeEngines
    <3>2. Builds(t, e, device[eng[t]])
      BY <1>i, <2>1, <2>3, <3>1 DEF Builds, registry
    <3>. QED  BY <1>i, <2>1, <3>2 DEF Effect, TypeOK
  <2>. QED  BY <1>3, <2>2, <2>3 DEF ChangeBuilt
<1>4. CASE ChangeLock(t)
  <2>1. Waits(t, "swap_wait")
    BY <1>4 DEF ChangeLock, Waits, objects
  <2>. QED  BY <1>i, <2>1 DEF Effect, Steps
<1>5. CASE ChangeApply(t)
  <2>1. pc[t] = "swap_held" /\ Return(t) /\ UNCHANGED <<device, hung>>
    BY <1>5 DEF ChangeApply
  <2>2. CASE /\ open' = open \ {repl[t]} \/ (repl[t] = NoEngine /\ UNCHANGED open)
             /\ UNCHANGED registry
    BY <1>i, <2>1, <2>2, LeavesBy DEF registry
  <2>3. CASE engines[m] = eng[t] /\ Install(t)
    <3>1. Installs(t)
      BY <2>1, <2>3 DEF Installs
    <3>. QED  BY <1>i, <3>1 DEF Effect
  <2>. QED  BY <1>5, <2>2, <2>3 DEF ChangeApply
<1>. QED  BY <1>1, <1>2, <1>3, <1>4, <1>5 DEF ChangeStep

LEMMA TestEffects ==
  ASSUME LifecycleAssumption, IndInv, NEW t \in Testers, TestStep(t)
  PROVE  Effect
<1>i. /\ TypeOK /\ Shapes /\ t \in Tasks /\ t \notin Requests
      /\ repl[t] # NoEngine => pc[t] \in {"swap", "swap_wait", "swap_held", "using"}
  BY Kinds DEF IndInv, Shapes, TaskShape
<1>1. CASE TestStart(t)
  BY <1>i, <1>1, MovesBy DEF TestStart, MayMove, Steps, world, registry, objects, frame
<1>2. CASE TestLocked(t)
  <2>1. pc[t] = "load_held" /\ UNCHANGED <<registry, objects>>
    BY <1>2 DEF TestLocked
  <2>2. CASE Return(t)
    BY <1>i, <2>1, <2>2, LeavesBy DEF registry, objects
  <2>3. CASE Goto(t, "build") /\ UNCHANGED <<holder, frame>>
    BY <1>i, <2>1, <2>3, MovesBy DEF MayMove, Steps, world, registry, objects, frame
  <2>. QED  BY <1>2, <2>2, <2>3 DEF TestLocked
<1>3. CASE TestBuilt(t)
  <2>1. pc[t] = "build" /\ UNCHANGED <<registry, hung>>
    BY <1>3 DEF TestBuilt
  <2>2. CASE Return(t) /\ UNCHANGED <<open, device>>
    BY <1>i, <2>1, <2>2, LeavesBy DEF registry
  <2>3. CASE /\ \E e \in FreeEngines, d \in Devices : Create(e, d) /\ repl' = [repl EXCEPT ![t] = e]
             /\ holder' = Unlocked(t) /\ Goto(t, "using") /\ UNCHANGED <<eng, lk, dev>>
    <3>1. PICK e \in Engines, d \in Devices : Create(e, d) /\ repl' = [repl EXCEPT ![t] = e]
      BY <2>3 DEF FreeEngines
    <3>2. Builds(t, e, d)
      BY <1>i, <2>1, <2>3, <3>1 DEF Builds, registry
    <3>. QED  BY <1>i, <3>2 DEF Effect
  <2>. QED  BY <1>3, <2>2, <2>3 DEF TestBuilt
<1>4. CASE TestOrphaned(t)
  BY <1>i, <1>4, LeavesBy DEF TestOrphaned, registry
<1>5. CASE TestCloses(t)
  BY <1>i, <1>5, LeavesBy DEF TestCloses, registry
<1>. QED  BY <1>1, <1>2, <1>3, <1>4, <1>5 DEF TestStep

LEMMA StepEffects ==
  ASSUME LifecycleAssumption, IndInv, Next
  PROVE  Effect
<1>i. TypeOK /\ Shapes /\ Pairs
  BY DEF IndInv
<1>1. ASSUME NEW t \in Loaders, NEW d \in Devices, StartLoad(t, d)  PROVE Effect
  <2>1. t \in Tasks
    BY Kinds
  <2>2. MayMove(t, "start")
    BY <1>i, <1>1, <2>1 DEF StartLoad, MayMove, TypeOK
  <2>. QED  BY <1>i, <1>1, <2>1, <2>2, MovesBy DEF StartLoad, Steps, world, registry, mutexes, objects
<1>2. ASSUME NEW m \in Models, NEW d \in Devices, Retarget(m, d)  PROVE Effect
  BY <1>2 DEF Retarget, Effect, Nothing, world, registry, mutexes, objects
<1>3. ASSUME NEW t \in Tasks, Grant(t)  PROVE Effect
  <2>1. UNCHANGED <<world, frame>>
    BY <1>3 DEF Grant, world, registry, objects
  <2>2. CASE pc[t] = "load_wait"
    <3>1. GrantsLoad(t)
      BY <1>3, <2>1, <2>2 DEF Grant, GrantsLoad, Held, Awaited
    <3>. QED  BY <3>1 DEF Effect
  <2>3. CASE pc[t] \in {"lease_wait", "swap_wait"}
    <3>1. \/ pc[t] = "lease_wait" /\ GrantsModel(t, "leased")
          \/ pc[t] = "swap_wait" /\ GrantsModel(t, "swap_held")
      BY <1>3, <2>1, <2>3 DEF Grant, GrantsModel, Held, Awaited
    <3>. QED  BY <3>1 DEF Effect, Steps
  <2>. QED  BY <1>3, <2>2, <2>3 DEF Grant, Held
<1>4. ASSUME NEW t \in Tasks, OrphanEnds(t)  PROVE Effect
  BY <1>4 DEF OrphanEnds, Effect, Nothing, world, registry, mutexes
<1>5. ASSUME NEW m \in Models, Unload(m)  PROVE Effect
  <2>1. Unloads(m)
    BY <1>i, <1>5 DEF Unload, Unloads, Pairs, mutexes
  <2>. QED  BY <2>1 DEF Effect
<1>6. ASSUME NEW e \in Engines, HungEnds(e)  PROVE Effect
  <2>1. Ends(e)
    BY <1>6 DEF HungEnds, Ends, mutexes
  <2>. QED  BY <2>1 DEF Effect
<1>. QED  BY <1>1, <1>2, <1>3, <1>4, <1>5, <1>6, RequestEffects, LoadEffects, ChangeEffects, TestEffects
          DEF Next, LoadRequest, OtherStep

\* What no part of the invariant but the type speaks of.
Rest ==
  /\ target \in [Models -> Devices \cup {NoDevice}]
  /\ queue \in [AllLocks -> Seq(Tasks)]
  /\ orphans \in SUBSET Tasks

LEMMA StepRest ==
  ASSUME LifecycleAssumption, TypeOK, Shapes, Next
  PROVE  Rest'
<1>r. Rest
  BY DEF TypeOK, Rest
<1>k. ASSUME UNCHANGED <<target, queue, orphans>>  PROVE Rest'
  BY <1>r, <1>k DEF Rest
<1>q. ASSUME NEW t \in Tasks, NEW l \in AllLocks, UNCHANGED orphans,
             Enqueue(t, l) \/ LeaveQueue(t, l) \/ UNCHANGED queue,
             UNCHANGED target \/ target' = [target EXCEPT ![ModelOf[t]] = NoDevice]
      PROVE  Rest'
  <2>1. queue' \in [AllLocks -> Seq(Tasks)]
    BY <1>r, <1>q, EnqueueType, LeaveQueueType DEF Rest
  <2>2. target' \in [Models -> Devices \cup {NoDevice}]
    BY <1>r, <1>q, Kinds DEF Rest
  <2>. QED  BY <1>r, <1>q, <2>1, <2>2 DEF Rest
<1>w. ASSUME NEW t \in Tasks, pc[t] \in WithLock  PROVE lk[t] \in AllLocks
  BY <1>w, Kinds DEF Shapes, TaskShape, TypeOK
<1>1. ASSUME NEW t \in Loaders, NEW d \in Devices, StartLoad(t, d)  PROVE Rest'
  BY <1>1, <1>r DEF StartLoad, Rest, mutexes, objects
<1>2. ASSUME NEW m \in Models, NEW d \in Devices, Retarget(m, d)  PROVE Rest'
  BY <1>2, <1>r DEF Retarget, Rest, mutexes, objects
<1>3. ASSUME NEW t \in Tasks, Grant(t)  PROVE Rest'
  <2>1. Awaited(t) \in AllLocks
    BY <1>3, <1>w, Kinds DEF Grant, Awaited, Held, WithLock
  <2>2. queue[Awaited(t)] \in Seq(Tasks) /\ queue[Awaited(t)] # <<>>
        /\ queue' = [queue EXCEPT ![Awaited(t)] = Tail(@)]
    BY <1>3, <1>r, <2>1 DEF Grant, Rest
  <2>3. Tail(queue[Awaited(t)]) \in Seq(Tasks)
    BY <2>2
  <2>. QED  BY <1>3, <1>r, <2>1, <2>2, <2>3 DEF Grant, Rest, objects
<1>4. ASSUME NEW t \in Tasks, OrphanEnds(t)  PROVE Rest'
  BY <1>4, <1>r DEF OrphanEnds, Rest, mutexes
<1>5. ASSUME NEW m \in Models, Unload(m)  PROVE Rest'
  BY <1>5, <1>k DEF Unload, mutexes
<1>6. ASSUME NEW e \in Engines, HungEnds(e)  PROVE Rest'
  BY <1>6, <1>k DEF HungEnds, mutexes
<1>7. ASSUME NEW r \in Requests, RequestStep(r)  PROVE Rest'
  <2>1. CASE Lease(r)
    BY <2>1, <1>q, Kinds DEF Lease, objects
  <2>2. CASE LeaseCancel(r)
    BY <2>2, <1>q, <1>w, Kinds DEF LeaseCancel, objects, WithLock
  <2>3. CASE Resolve(r) \/ LeaseRefused(r) \/ LeaseCheck(r) \/ Finish(r) \/ Interrupt(r)
             \/ Stopped(r) \/ Quarantine(r) \/ BeginRecovery(r) \/ Recovered(r) \/ RecoveryFailed(r)
    BY <2>3, <1>k DEF Resolve, LeaseRefused, LeaseCheck, Finish, Interrupt, Stopped, Quarantine,
       BeginRecovery, Recovered, RecoveryFailed, mutexes, objects
  <2>. QED  BY <1>7, <2>1, <2>2, <2>3 DEF RequestStep
<1>8. ASSUME NEW t \in Loaders, LoadStep(t)  PROVE Rest'
  <2>1. CASE LoadBegin(t)
    BY <2>1, <1>q, Kinds DEF LoadBegin, LoadFails, LoadReturns, objects
  <2>2. CASE LoadLocked(t)
    BY <2>2, <1>q, Kinds DEF LoadLocked, LoadFails, LoadReturns
  <2>3. CASE LoadConverted(t)
    BY <2>3, <1>q, Kinds DEF LoadConverted, LoadFails, LoadReturns
  <2>4. CASE LoadBuilt(t)
    BY <2>4, <1>q, Kinds DEF LoadBuilt, LoadFails, LoadReturns
  <2>5. CASE LoadHandoff(t)
    BY <2>5, <1>q, Kinds DEF LoadHandoff, LoadInstalls, LoadReturns
  <2>6. CASE LoadSwap(t)
    BY <2>6, <1>q, Kinds DEF LoadSwap, LoadInstalls, LoadReturns
  <2>7. CASE LoadCancel(t)
    <3>1. Awaited(t) \in AllLocks \/ pc[t] \notin {"load_wait", "swap_wait"}
      BY <1>w, Kinds DEF Awaited, WithLock
    <3>2. UNCHANGED orphans /\ target' = [target EXCEPT ![ModelOf[t]] = NoDevice]
          /\ (UNCHANGED queue \/ (pc[t] \in {"load_wait", "swap_wait"} /\ LeaveQueue(t, Awaited(t))))
      BY <2>7 DEF LoadCancel, LoadReturns
    <3>. QED  BY <1>q, <3>1, <3>2, Kinds
  <2>8. CASE BuildCancel(t)
    BY <2>8, <1>k DEF BuildCancel, mutexes, objects
  <2>9. CASE BuildDrained(t)
    BY <2>9, <1>q, Kinds DEF BuildDrained, LoadReturns, objects
  <2>10. CASE BuildOrphaned(t)
    BY <2>10, <1>r, Kinds DEF BuildOrphaned, LoadReturns, Rest
  <2>. QED  BY <1>8, <2>1, <2>2, <2>3, <2>4, <2>5, <2>6, <2>7, <2>8, <2>9, <2>10 DEF LoadStep
<1>9. ASSUME NEW t \in Changers, ChangeStep(t)  PROVE Rest'
  BY <1>9, <1>k, <1>q, Kinds
  DEF ChangeStep, ChangeStart, ChangeLocked, ChangeBuilt, ChangeLock, ChangeApply, objects
<1>10. ASSUME NEW t \in Testers, TestStep(t)  PROVE Rest'
  <2>1. CASE TestStart(t)
    BY <2>1, <1>q, Kinds DEF TestStart, objects
  <2>2. CASE TestOrphaned(t)
    BY <2>2, <1>r, Kinds DEF TestOrphaned, Rest
  <2>3. CASE TestLocked(t) \/ TestBuilt(t) \/ TestCloses(t)
    BY <2>3, <1>k DEF TestLocked, TestBuilt, TestCloses, objects
  <2>. QED  BY <1>10, <2>1, <2>2, <2>3 DEF TestStep
<1>. QED  BY <1>1, <1>2, <1>3, <1>4, <1>5, <1>6, <1>7, <1>8, <1>9, <1>10
          DEF Next, LoadRequest, OtherStep

-----------------------------------------------------------------------------
(* The invariant.                                                            *)

LEMMA InitInv ==
  ASSUME LifecycleAssumption, Init
  PROVE  IndInv
<1>1. TypeOK
  BY DEF Init, TypeOK, Steps
<1>2. Shapes
  BY Kinds DEF Init, Shapes, RequestShape, LoaderShape, ChangerShape, TesterShape, TaskShape,
     WithLock, WithModelLock
<1>3. LocksHeld
  BY Kinds DEF Init, LocksHeld, WithModelLock, WithLoadLock
<1>4. Pairs
  BY Kinds DEF Init, Pairs
<1>5. Objects
  BY Kinds DEF Init, Objects, Housed, OneOwner, HungApart, Private, ClosedRecovers, RecoversClosed
<1>. QED  BY <1>1, <1>2, <1>3, <1>4, <1>5 DEF IndInv

LEMMA StepInv ==
  ASSUME LifecycleAssumption, IndInv, [Next]_vars
  PROVE  IndInv' /\ Effect
<1>i. TypeOK /\ Shapes /\ LocksHeld /\ Pairs /\ Objects
  BY DEF IndInv
<1>1. Effect /\ Rest'
  <2>1. CASE Next
    BY <1>i, <2>1, StepEffects, StepRest
  <2>2. CASE UNCHANGED vars
    BY <1>i, <2>2 DEF vars, registry, mutexes, objects, frame, world, Effect, Nothing, TypeOK, Rest
  <2>. QED  BY <2>1, <2>2
<1>2. CoreType' /\ Shapes' /\ LocksHeld' /\ Pairs' /\ Objects'
  BY <1>i, <1>1, EffectType, EffectShapes, EffectLocks, EffectPairs, EffectObjects
<1>3. TypeOK'
  BY <1>1, <1>2 DEF CoreType, Rest, TypeOK
<1>. QED  BY <1>1, <1>2, <1>3 DEF IndInv

\* The invariant of the whole lifecycle: which locks a task holds at each of its
\* steps, that an engine and the lock read with it stay a pair, and whose every
\* engine object is.
THEOREM LifecycleInvariant == Spec => []IndInv
<1>1. Init => IndInv
  BY InitInv, LifecycleAssumption
<1>2. IndInv /\ [Next]_vars => IndInv'
  BY StepInv, LifecycleAssumption
<1>. QED  BY <1>1, <1>2, PTL DEF Spec

\* A model's generation lock has one holder: requests in a call, or rebuilding, for
\* one model are the same request (current_engine_lease).
LEMMA OneCaller ==
  ASSUME LifecycleAssumption, IndInv, NEW r \in Requests, NEW s \in Requests,
         pc[r] \in {"native", "closing", "recover"}, pc[s] \in {"native", "closing", "recover"},
         ModelOf[r] = ModelOf[s]
  PROVE  r = s
<1>1. lk[r] = lk[s]
  BY DEF IndInv, Pairs
<1>2. holder[lk[r]] = r /\ holder[lk[s]] = s
  BY Kinds DEF IndInv, LocksHeld, WithModelLock
<1>. QED  BY <1>1, <1>2

\* Every variable keeps its type: no step leaves a task, a lock or a registration
\* pointing at something that is not one.
THEOREM TypeCorrect == Spec => []TypeOK
<1>1. IndInv => TypeOK
  BY DEF IndInv
<1>. QED  BY <1>1, LifecycleInvariant, PTL

\* Native calls never share an engine, whatever loads, context changes, recoveries
\* and quarantines do in between (current_engine_lease re-reads the pair under the
\* lock).
THEOREM CallsExclusive == Spec => []OneCallPerEngine
<1>1. IndInv => OneCallPerEngine
  <2>. SUFFICES ASSUME IndInv, NEW r \in Requests, pc[r] \in InCall
                PROVE  /\ eng[r] \notin hung
                       /\ \A s \in Requests : pc[s] \in InCall /\ eng[s] = eng[r] => s = r
    BY DEF OneCallPerEngine
  <2>1. \A s \in Requests : pc[s] \in InCall =>
          /\ ModelOf[s] \in Models /\ engines[ModelOf[s]] = eng[s] /\ eng[s] # NoEngine
    BY Kinds, LifecycleAssumption
    DEF IndInv, InCall, Pairs, Shapes, RequestShape, WithLock, WithModelLock
  <2>2. eng[r] \notin hung
    BY <2>1 DEF IndInv, Objects, HungApart
  <2>3. ASSUME NEW s \in Requests, pc[s] \in InCall, eng[s] = eng[r]  PROVE s = r
    <3>1. ModelOf[s] = ModelOf[r]
      BY <2>1, <2>3 DEF IndInv, Objects, OneOwner
    <3>. QED  BY <2>3, <3>1, OneCaller, LifecycleAssumption DEF InCall
  <2>. QED  BY <2>2, <2>3
<1>. QED  BY <1>1, LifecycleInvariant, PTL

\* No load, context change, recovery or unload closes an engine under a running
\* native call (current_engine_lease, unload_when_idle, _acquire_stable_handoff_lock).
THEOREM NeverClosedInUse == Spec => []InUseNeverClosed
<1>1. IndInv => InUseNeverClosed
  <2>. SUFFICES ASSUME IndInv, NEW r \in Requests, pc[r] \in InCall, eng[r] \notin open
                PROVE  FALSE
    BY DEF InUseNeverClosed, IndInv, Objects
  <2>1. /\ ModelOf[r] \in Models /\ engines[ModelOf[r]] = eng[r] /\ eng[r] # NoEngine
    BY Kinds, LifecycleAssumption
    DEF IndInv, InCall, Pairs, Shapes, RequestShape, WithLock, WithModelLock
  <2>2. PICK s \in Requests : ModelOf[s] = ModelOf[r] /\ pc[s] = "recover"
    BY <2>1 DEF IndInv, Objects, ClosedRecovers
  <2>3. s = r
    BY <2>2, OneCaller, LifecycleAssumption DEF InCall
  <2>. QED  BY <2>2, <2>3 DEF InCall
<1>. QED  BY <1>1, LifecycleInvariant, PTL

\* No failure, retarget, cancellation or stale swap leaks an engine or lets two
\* owners have it (the finally blocks of device_authoritative_load_task).
THEOREM NoEngineLeaks == Spec => []EnginesAccounted
<1>1. IndInv => EnginesAccounted
  BY DEF IndInv, Objects, EnginesAccounted
<1>. QED  BY <1>1, LifecycleInvariant, PTL

\* A closed engine is registered only while its own request rebuilds it
\* (_recover_cancelled_npu_engine).
THEOREM RegisteredEnginesServe == Spec => []RegisteredServes
<1>1. IndInv => RegisteredServes
  <2>. SUFFICES ASSUME IndInv, NEW m \in Models, engines[m] # NoEngine, engines[m] \notin open
                PROVE  /\ locks[m] # NoLock
                       /\ \E r \in Requests : holder[locks[m]] = r /\ pc[r] = "recover"
                                              /\ eng[r] = engines[m]
    BY DEF RegisteredServes
  <2>1. PICK r \in Requests : ModelOf[r] = m /\ pc[r] = "recover"
    BY DEF IndInv, Objects, ClosedRecovers
  <2>2. holder[lk[r]] = r /\ locks[m] = lk[r] /\ eng[r] = engines[m]
    BY <2>1, Kinds, LifecycleAssumption DEF IndInv, LocksHeld, Pairs, WithModelLock
  <2>3. locks[m] # NoLock
    BY DEF IndInv, Pairs
  <2>. QED  BY <2>1, <2>2, <2>3
<1>. QED  BY <1>1, LifecycleInvariant, PTL

\* Two native constructors are never awaited at once (_load_lock).
THEOREM BuildsSerialized == Spec => []AwaitedBuildsSerialized
<1>1. IndInv => AwaitedBuildsSerialized
  <2>. SUFFICES ASSUME IndInv, NEW s \in Tasks, NEW t \in Tasks,
                       pc[s] \in {"build", "drain"}, pc[t] \in {"build", "drain"}
                PROVE  s = t
    BY DEF AwaitedBuildsSerialized
  <2>1. holder[LoadLock] = s /\ holder[LoadLock] = t
    BY DEF IndInv, LocksHeld, WithLoadLock
  <2>. QED  BY <2>1
<1>. QED  BY <1>1, LifecycleInvariant, PTL

-----------------------------------------------------------------------------
(* The manager implements the engine service.                                *)

Calling == {"native", "closing", "recover"}

LEMMA CallsKept ==
  ASSUME \A r \in Requests : pc'[r] \in Calling <=> pc[r] \in Calling, engines' = engines
  PROVE  UNCHANGED Service!vars
BY DEF Service!vars, Calling

\* A call that begins or ends is the only one of its model.
LEMMA CallChanges ==
  ASSUME LifecycleAssumption, IndInv, NEW r \in Requests, NEW step \in Steps, Goto(r, step),
         pc[r] \in Calling \/ step \in Calling,
         \A s \in Requests \ {r} : pc[s] \in Calling => ModelOf[s] # ModelOf[r],
         NEW b \in BOOLEAN, b <=> step \in Calling
  PROVE  [m \in Models |-> \E s \in Requests : ModelOf[s] = m /\ pc'[s] \in Calling]
           = [[m \in Models |-> \E s \in Requests : ModelOf[s] = m /\ pc[s] \in Calling]
                EXCEPT ![ModelOf[r]] = b]
<1>1. pc'[r] = step /\ \A s \in Requests \ {r} : pc'[s] = pc[s]
  BY Kinds DEF Goto, IndInv, TypeOK
<1>2. \A m \in Models \ {ModelOf[r]} :
        (\E s \in Requests : ModelOf[s] = m /\ pc'[s] \in Calling)
          <=> (\E s \in Requests : ModelOf[s] = m /\ pc[s] \in Calling)
  BY <1>1
<1>3. (\E s \in Requests : ModelOf[s] = ModelOf[r] /\ pc'[s] \in Calling) <=> b
  BY <1>1
<1>. QED  BY <1>2, <1>3

LEMMA CallEnds ==
  ASSUME LifecycleAssumption, IndInv, NEW r \in Requests, pc[r] \in Calling, Return(r),
         NEW e \in Engines \cup {NoEngine}, engines' = [engines EXCEPT ![ModelOf[r]] = e]
  PROVE  Service!End(ModelOf[r])
<1>1. ModelOf[r] \in Models /\ Goto(r, "idle") /\ "idle" \in Steps \ Calling
  BY Kinds DEF Return, Steps, Calling
<1>2. \A s \in Requests \ {r} : pc[s] \in Calling => ModelOf[s] # ModelOf[r]
  BY OneCaller DEF Calling
<1>. QED  BY <1>1, <1>2, CallChanges DEF Service!End, Calling

LEMMA EngineChanges ==
  ASSUME LifecycleAssumption, IndInv, NEW m \in Models,
         NEW e \in Engines \cup {NoEngine}, engines' = [engines EXCEPT ![m] = e],
         \A r \in Requests : pc'[r] = pc[r],
         \A r \in Requests : pc[r] \in Calling => ModelOf[r] # m
  PROVE  Service!Change(m)
BY DEF Service!Change, Calling

LEMMA EffectRefines ==
  ASSUME LifecycleAssumption, IndInv, Effect
  PROVE  [Service!Next]_(Service!vars)
<1>i. TypeOK /\ Shapes /\ LocksHeld /\ Pairs /\ Objects
  BY DEF IndInv
<1>s. ASSUME NEW t \in Tasks, NEW step \in Steps, Goto(t, step), engines' = engines,
             t \in Requests => (pc[t] \in Calling <=> step \in Calling)
      PROVE  UNCHANGED Service!vars
  <2>1. \A r \in Requests : pc'[r] \in Calling <=> pc[r] \in Calling
    BY <1>i, <1>s, Kinds DEF Goto, TypeOK
  <2>. QED  BY <1>s, <2>1, CallsKept
<1>1. ASSUME NEW t \in Tasks, Leaves(t)  PROVE [Service!Next]_(Service!vars)
  <2>1. /\ Return(t) /\ Goto(t, "idle") /\ "idle" \in Steps \ Calling /\ engines' = engines
        /\ ModelOf[t] \in Models
    BY <1>1 DEF Leaves, Return, Steps, Calling
  <2>2. CASE t \in Requests /\ pc[t] \in Calling
    <3>1. /\ engines[ModelOf[t]] \in Engines \cup {NoEngine}
          /\ engines' = [engines EXCEPT ![ModelOf[t]] = engines[ModelOf[t]]]
      BY <1>i, <2>1 DEF TypeOK
    <3>2. Service!End(ModelOf[t])
      BY <2>1, <2>2, <3>1, CallEnds
    <3>. QED  BY <2>1, <3>2 DEF Service!Next
  <2>. QED  BY <1>s, <2>1, <2>2
<1>2. ASSUME NEW t \in Tasks, Begins(t)  PROVE [Service!Next]_(Service!vars)
  <2>. DEFINE m == ModelOf[t]
  <2>1. /\ t \in Requests /\ pc[t] = "leased" /\ engines[m] = eng[t] /\ locks[m] = lk[t]
        /\ Goto(t, "native") /\ engines' = engines /\ m \in Models
    BY <1>2, Kinds DEF Begins, world
  <2>2. holder[lk[t]] = t /\ engines[m] # NoEngine
    BY <1>i, <2>1 DEF LocksHeld, Shapes, RequestShape, WithLock, WithModelLock
  <2>3. \A s \in Requests : pc[s] \in Calling => ModelOf[s] # m
    BY <1>i, <2>1, <2>2, Kinds DEF LocksHeld, Pairs, Calling, WithModelLock
  <2>4. "native" \in Steps \cap Calling
    BY DEF Steps, Calling
  <2>5. Service!Begin(m)
    BY <2>1, <2>2, <2>3, <2>4, CallChanges DEF Service!Begin, Calling
  <2>. QED  BY <2>1, <2>5 DEF Service!Next
<1>3. ASSUME NEW t \in Tasks, NEW step \in Steps,
             \/ Moves(t, step) \/ Notes(t, step) \/ Waits(t, step)
             \/ GrantsModel(t, step) \/ Retries(t, step)
      PROVE  [Service!Next]_(Service!vars)
  <2>1. Goto(t, step) /\ engines' = engines
    BY <1>3 DEF Moves, Notes, Waits, GrantsModel, Retries, world
  <2>2. t \in Requests => (pc[t] \in Calling <=> step \in Calling)
    BY <1>3 DEF Moves, MayMove, Notes, Waits, GrantsModel, Retries, Calling
  <2>. QED  BY <1>s, <2>1, <2>2
<1>4. ASSUME NEW t \in Tasks, Takes(t)  PROVE [Service!Next]_(Service!vars)
  BY <1>s, <1>4 DEF Takes, Calling, Steps, world
<1>5. ASSUME NEW t \in Tasks, GrantsLoad(t)  PROVE [Service!Next]_(Service!vars)
  BY <1>s, <1>5 DEF GrantsLoad, Calling, Steps, world
<1>6. ASSUME NEW t \in Tasks, Again(t)  PROVE [Service!Next]_(Service!vars)
  BY <1>s, <1>6 DEF Again, LoadAgain, Steps
<1>7. ASSUME NEW t \in Tasks, NEW e \in Engines, NEW d \in Devices, Builds(t, e, d)
      PROVE  [Service!Next]_(Service!vars)
  BY <1>s, <1>7 DEF Builds, Steps
<1>8. ASSUME NEW t \in Tasks, Installs(t)  PROVE [Service!Next]_(Service!vars)
  <2>. DEFINE m == ModelOf[t]
  <2>1. /\ m \in Models /\ engines[m] = eng[t] /\ (eng[t] # NoEngine => pc[t] = "swap_held")
        /\ t \notin Requests /\ engines' = [engines EXCEPT ![m] = repl[t]]
        /\ repl[t] \in Engines \cup {NoEngine} /\ pc' = [pc EXCEPT ![t] = "idle"]
    BY <1>i, <1>8 DEF Installs, Install, Return, Goto, TypeOK
  <2>2. ASSUME NEW r \in Requests, pc[r] \in Calling, ModelOf[r] = m  PROVE FALSE
    <3>1. engines[m] = eng[r] /\ locks[m] = lk[r] /\ holder[lk[r]] = r /\ eng[r] # NoEngine
      BY <1>i, <2>2, Kinds
      DEF Pairs, LocksHeld, Shapes, RequestShape, Calling, WithLock, WithModelLock
    <3>2. holder[lk[t]] = t /\ lk[t] # NoLock
      BY <1>i, <2>1, <3>1 DEF LocksHeld, Shapes, TaskShape, WithLock, WithModelLock
    <3>3. locks[m] = lk[t]
      BY <1>i, <2>1, <3>1, <3>2 DEF Pairs
    <3>. QED  BY <2>1, <2>2, <3>1, <3>2, <3>3
  <2>3. \A r \in Requests : pc'[r] = pc[r]
    BY <1>i, <2>1, Kinds DEF TypeOK
  <2>4. Service!Change(m)
    BY <2>1, <2>2, <2>3, EngineChanges
  <2>. QED  BY <2>1, <2>4 DEF Service!Next
<1>9. ASSUME NEW t \in Tasks, Withdraws(t) \/ Fails(t)  PROVE [Service!Next]_(Service!vars)
  <2>1. Service!End(ModelOf[t])
    BY <1>9, CallEnds DEF Withdraws, Fails, Calling
  <2>. QED  BY <1>9, <2>1 DEF Service!Next
<1>10. ASSUME NEW t \in Tasks, NEW e \in Engines, NEW d \in Devices, Rebuilds(t, e, d)
       PROVE  [Service!Next]_(Service!vars)
  <2>1. Service!End(ModelOf[t])
    BY <1>10, CallEnds DEF Rebuilds, Calling
  <2>. QED  BY <1>10, <2>1, Kinds DEF Service!Next, Rebuilds
<1>11. ASSUME NEW t \in Tasks, Closes(t)  PROVE [Service!Next]_(Service!vars)
  BY <1>s, <1>11 DEF Closes, Calling, Steps, registry
<1>12. ASSUME NEW m \in Models, Unloads(m)  PROVE [Service!Next]_(Service!vars)
  <2>1. \A r \in Requests : pc[r] \in Calling => ModelOf[r] # m
    BY <1>i, <1>12, Kinds DEF Unloads, LocksHeld, Pairs, Calling, WithModelLock
  <2>2. Service!Change(m)
    BY <1>12, <2>1, EngineChanges DEF Unloads
  <2>. QED  BY <2>2 DEF Service!Next
<1>13. ASSUME (\E e \in Engines : Ends(e)) \/ Nothing  PROVE UNCHANGED Service!vars
  BY <1>13, CallsKept DEF Ends, Nothing, world, registry
<1>. QED  BY <1>1, <1>2, <1>3, <1>4, <1>5, <1>6, <1>7, <1>8, <1>9, <1>10, <1>11, <1>12, <1>13
          DEF Effect

\* Loads, context changes, unloads and recoveries, with their locks and waits, do
\* to a model's engine only what the engine service allows: nobody but the running
\* call itself replaces or withdraws it (current_engine_lease and the handoff).
THEOREM LifecycleRefinesService == Spec => RefinesService
<1>1. Init => Service!Init
  BY Kinds, LifecycleAssumption DEF Init, Service!Init
<1>2. IndInv /\ [Next]_vars => [Service!Next]_(Service!vars)
  BY StepInv, EffectRefines, LifecycleAssumption
<1>. QED  BY <1>1, <1>2, LifecycleInvariant, PTL DEF Spec, RefinesService, Service!Spec
===============================================================================
