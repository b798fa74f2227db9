--------------------------- MODULE MCNewestRequest ---------------------------
(* EngineLifecycle with the newest explicit load request of each model as   *)
(* history, to compare what a load installs with what was asked for last.   *)
EXTENDS MCEngineLifecycle

VARIABLE wanted  \* the device of the newest load request

InitWanted == Init /\ wanted = [m \in Models |-> NoDevice]

Want(m, d) == wanted' = [wanted EXCEPT ![m] = d]

NextWanted ==
  \/ \E t \in Loaders, d \in Devices : StartLoad(t, d) /\ Want(ModelOf[t], d)
  \/ \E m \in Models, d \in Devices : Retarget(m, d) /\ Want(m, d)
  \/ /\ \E m \in Models, d \in Devices : LoadedOn(m, d) /\ Want(m, d)  \* "already loaded"
     /\ UNCHANGED vars
  \/ OtherStep /\ UNCHANGED wanted

SpecWanted == InitWanted /\ [][NextWanted]_<<vars, wanted>>

\* "The newest explicit device request wins, including when a startup load or a
\* previous OpenVINO compilation is already in flight" (model_load_target.py:3-4):
\* a load that ends with a new engine ends on the device asked for last.
NewestRequestWins ==
  [][\A t \in Loaders :
       LET m == ModelOf[t] IN
       (pc[t] # "idle" /\ pc'[t] = "idle" /\ engines'[m] # engines[m])
         => device'[engines'[m]] = wanted[m]]_<<vars, wanted>>
=============================================================================
