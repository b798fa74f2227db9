---------------------------- MODULE EngineService ----------------------------
(***************************************************************************)
(* What the model manager promises about the engine that serves one model,  *)
(* without locks, queues or tasks: one native call at a time, and an engine *)
(* that nobody replaces or withdraws while a call runs on it.  Only the     *)
(* call itself may do that when it ends badly: quarantine after a timeout,  *)
(* a rebuilt pipeline after a cancelled NPU stream.                         *)
(***************************************************************************)
CONSTANTS Models, Engines, NoEngine

VARIABLES
  serving,  \* the engine registered for each model
  busy      \* whether a leased call runs for the model

vars == <<serving, busy>>

Init ==
  /\ serving = [m \in Models |-> NoEngine]
  /\ busy = [m \in Models |-> FALSE]

\* A load, a device switch, a context change or an unload.
Change(m) ==
  /\ ~busy[m]
  /\ \E e \in Engines \cup {NoEngine} : serving' = [serving EXCEPT ![m] = e]
  /\ UNCHANGED busy

Begin(m) ==
  /\ ~busy[m] /\ serving[m] # NoEngine
  /\ busy' = [busy EXCEPT ![m] = TRUE]
  /\ UNCHANGED serving

\* The call ends on the engine it began on, or leaves a replacement or nothing.
End(m) ==
  /\ busy[m]
  /\ busy' = [busy EXCEPT ![m] = FALSE]
  /\ \E e \in Engines \cup {NoEngine} : serving' = [serving EXCEPT ![m] = e]

Next == \E m \in Models : Change(m) \/ Begin(m) \/ End(m)

Spec == Init /\ [][Next]_vars
=============================================================================
