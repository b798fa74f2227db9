----------------------------- MODULE MCApplication -----------------------------
(***************************************************************************)
(* One instance of the modules about the application around the models: the *)
(* first-run setup, the saved settings, and the page: the progress it shows, *)
(* its chats and the prompts that wait, and the chats it keeps.             *)
(* They share no variable, so a behaviour belongs to one of them: part      *)
(* names it, and the others rest in one of their initial states.            *)
(***************************************************************************)
EXTENDS Onboarding, NetworkSettings, ProgressView, ChatQueue, ConversationStore

VARIABLE part

partVars == <<part, onboardVars, netVars, viewVars, queueVars, storeVars>>

\* A module rests in one of its initial states unless it is the part that moves.
Resting(module, state) == part # module => state

ApplicationInit ==
  /\ part \in {"setup", "network", "view", "queue", "store"}
  /\ OnboardInit /\ Resting("setup", files = "none")
  /\ NetInit /\ Resting("network", stateFile = Malformed /\ keyFile = "none")
  /\ ViewInit /\ QueueInit /\ StoreInit

ApplicationNext ==
  /\ part' = part
  /\ \/ part = "setup" /\ OnboardNext /\ UNCHANGED <<netVars, viewVars, queueVars, storeVars>>
     \/ part = "network" /\ NetNext /\ UNCHANGED <<onboardVars, viewVars, queueVars, storeVars>>
     \/ part = "view" /\ ViewNext /\ UNCHANGED <<onboardVars, netVars, queueVars, storeVars>>
     \/ part = "queue" /\ QueueNext /\ UNCHANGED <<onboardVars, netVars, viewVars, storeVars>>
     \/ part = "store" /\ StoreNext /\ UNCHANGED <<onboardVars, netVars, viewVars, queueVars>>

\* The fairness of the setup, for the behaviours that are its own.
ApplicationFairness ==
  /\ \A j \in JobIds :
       /\ WF_onboardVars(part = "setup" /\ JobStep(j))
       /\ WF_onboardVars(part = "setup" /\ WatchdogStep(j))
  /\ WF_onboardVars(part = "setup" /\ ConversionEnds)
  /\ WF_onboardVars(part = "setup" /\ LoadEnds)

ApplicationSpec == ApplicationInit /\ [][ApplicationNext]_partVars /\ ApplicationFairness

\* The type invariants of the modules.
ApplicationTypeOK == OnboardTypeOK /\ NetTypeOK /\ ViewTypeOK /\ QueueTypeOK /\ StoreTypeOK

\* What the page promises: the progress it shows, the prompts that wait and the chats it
\* keeps agree with the server, the user and the browser's storage.
PageSafe == ViewSafe /\ QueueSafe /\ StoreSafe
=============================================================================
