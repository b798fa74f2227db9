----------------------------- MODULE MCComponents -----------------------------
(***************************************************************************)
(* One instance of every module that is checked for safety alone: the       *)
(* modules about model files and those about requests.  They share no       *)
(* variable, so a behaviour belongs to one of them: part names it, and the  *)
(* others rest in one of their initial states.                              *)
(***************************************************************************)
EXTENDS ModelOutputTransaction, StorageGuards, PreparationRecovery, RuntimeHealth, ModelLibrary,
        HuggingFaceAccess, ChatRequests, RequestLimits, PromptWindow, StopSequences

VARIABLE part

fileVars == <<outputVars, storageVars, recVars, healthVars, libVars, hfVars>>
requestVars == <<chatVars, limitVars, windowVars, stopVars>>
partVars == <<part, fileVars, requestVars>>

\* The stop sequences tried: none, one, two apart, and one inside another
MCStopLists == {{}, {<<"a", "b">>}, {<<"a", "a">>, <<"b">>}, {<<"a", "b", "a">>, <<"b">>}}

\* A module rests in one of its initial states unless it is the part that moves.
Resting(module, state) == part # module => state

ComponentsInit ==
  /\ part \in {"output", "storage", "recovery", "health", "library", "access", "chat", "limits",
              "window", "stop"}
  /\ OutputInit /\ Resting("output", final = Absent)
  /\ StorageInit /\ Resting("storage", inMemory = {})
  /\ RecoveryInit /\ Resting("recovery", recOutput = "missing" /\ ~recCache)
  /\ HealthInit
  /\ Resting("health", /\ runtime = CHOOSE v \in Versions : TRUE
                       /\ \A m \in HealthModels : files[m].state = "none")
  /\ LibInit /\ Resting("library", libDirs = {} /\ \A i \in LibIds : libFile[i] = 0)
  /\ HfInit /\ Resting("access", ~hfWindows /\ hfEnv = NoToken)
  /\ ChatInit
  /\ LimitsInit /\ Resting("limits", limiter = "body")
  /\ (part # "window" => budget = 1 /\ talk = <<[role |-> "user", size |-> 1]>>) /\ WindowInit
  /\ (part # "stop" => stops = {} /\ answer = <<>>) /\ StopInit

FilesNext ==
  \/ part = "output" /\ OutputNext /\ UNCHANGED <<storageVars, recVars, healthVars, libVars, hfVars>>
  \/ part = "storage" /\ StorageNext /\ UNCHANGED <<outputVars, recVars, healthVars, libVars, hfVars>>
  \/ part = "recovery" /\ RecoveryNext /\ UNCHANGED <<outputVars, storageVars, healthVars, libVars, hfVars>>
  \/ part = "health" /\ HealthNext /\ UNCHANGED <<outputVars, storageVars, recVars, libVars, hfVars>>
  \/ part = "library" /\ LibNext /\ UNCHANGED <<outputVars, storageVars, recVars, healthVars, hfVars>>
  \/ part = "access" /\ HfNext /\ UNCHANGED <<outputVars, storageVars, recVars, healthVars, libVars>>

RequestsNext ==
  \/ part = "chat" /\ ChatNext /\ UNCHANGED <<limitVars, windowVars, stopVars>>
  \/ part = "limits" /\ LimitsNext /\ UNCHANGED <<chatVars, windowVars, stopVars>>
  \/ part = "window" /\ WindowNext /\ UNCHANGED <<chatVars, limitVars, stopVars>>
  \/ part = "stop" /\ StopNext /\ UNCHANGED <<chatVars, limitVars, windowVars>>

ComponentsNext ==
  /\ part' = part
  /\ \/ FilesNext /\ UNCHANGED requestVars
     \/ RequestsNext /\ UNCHANGED fileVars

ComponentsSpec == ComponentsInit /\ [][ComponentsNext]_partVars

\* The type invariant of the module that moves.
ComponentsTypeOK ==
  CASE part = "output" -> OutputTypeOK
    [] part = "storage" -> StorageTypeOK
    [] part = "recovery" -> RecoveryTypeOK
    [] part = "health" -> HealthTypeOK
    [] part = "library" -> LibTypeOK
    [] part = "access" -> HfTypeOK
    [] part = "chat" -> ChatTypeOK
    [] part = "limits" -> LimitsTypeOK
    [] part = "window" -> WindowTypeOK
    [] part = "stop" -> StopTypeOK

\* The catalog files agree, and the token and the answers about access are those they seem.
CatalogSafe == (part = "library" => LibrarySafe) /\ (part = "access" => HfSafe)

\* Chat requests end as ChatSafe says; limits, prompt windows and stop sequences are applied
\* as promised.
RequestsSafe ==
  /\ part = "chat" => ChatSafe
  /\ part = "limits" => LimitsSafe
  /\ part = "window" => WindowRight
  /\ part = "stop" => StreamShowsTheTruncatedAnswer

\* What is on record is replaced only by what is newer: a recovery by an operation, evidence
\* by new files or the user, the library's cache by later files, the token by a verified one.
RecordsAreKept ==
  PollingKeepsTheRecovery /\ EvidenceKept /\ CacheMovesForward /\ FailedReplacementChangesNothing
===============================================================================
