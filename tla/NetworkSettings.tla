--------------------------- MODULE NetworkSettings ---------------------------
(***************************************************************************)
(* The desktop settings of app/desktop_network.py and the file they share   *)
(* with the first-run setup (app/onboarding_state.py): reading, migrating   *)
(* and quarantining the file, its updates under the store's lock, the API   *)
(* key beside it, and the address the server listens on after a start.      *)
(*                                                                         *)
(* Of the file there are the LAN and CORS settings and the setup's          *)
(* completion.  An update reads and writes in two steps; a write replaces   *)
(* the file at once.  The environment may change from one start to the next.*)
(***************************************************************************)
EXTENDS Naturals

CONSTANTS
  ApiKeys,     \* usable keys
  MaxStarts    \* bound: starts of the server

ASSUME NetworkAssumption ==
  MaxStarts \in Nat /\ ApiKeys # {} /\ "none" \notin ApiKeys /\ "bad" \notin ApiKeys

VARIABLES
  stateFile,   \* the state file
  keyFile,     \* api-key.dpapi
  keyMem,      \* _memory_key
  netEnv,      \* the server's environment
  listening,   \* the settings the server runs with
  calls,       \* the update each caller is in
  storeLock,   \* the caller that holds the store's lock
  netHistory   \* for the properties: the file found first, the settings last saved, ...

netVars == <<stateFile, keyFile, keyMem, netEnv, listening, calls, storeLock, netHistory>>

Setup == "setup"
Network == "network"
NetCallers == {Setup, Network}
CorsSettings == {"none", "any"}
State(lan, cors, completed) == [kind |-> "state", lan |-> lan, cors |-> cors, completed |-> completed]
States == {State(l, c, d) : l \in BOOLEAN, c \in CorsSettings, d \in BOOLEAN}
Default == State(FALSE, "none", FALSE)
Malformed == [kind |-> "malformed"]
Newer == [kind |-> "newer"]
NoFile == [kind |-> "none"]
Down == [up |-> FALSE, lan |-> FALSE, cors |-> "none", key |-> "none"]
Idle == [pc |-> "idle"]

\* What the environment sets: nothing, the address, or the key (an empty one is none).
Environments ==
  {[lan |-> l, key |-> "unset"] : l \in BOOLEAN}
    \cup {[lan |-> TRUE, key |-> k] : k \in {"none", CHOOSE k \in ApiKeys : TRUE}}

NetTypeOK ==
  /\ stateFile \in States \cup {Malformed, Newer, NoFile}
  /\ keyFile \in ApiKeys \cup {"none", "bad"} /\ keyMem \in ApiKeys \cup {"none"}
  /\ netEnv \in [lan : BOOLEAN, key : ApiKeys \cup {"none", "unset"}]
  /\ listening \in [up : BOOLEAN, lan : BOOLEAN, cors : CorsSettings, key : ApiKeys \cup {"none"}]
  /\ \A c \in NetCallers : calls[c].pc \in {"idle", "locked", "secret"}
  /\ storeLock \in NetCallers \cup {"none"}

NetInit ==
  /\ stateFile \in {Malformed, Newer, State(TRUE, "any", TRUE)}
  /\ keyFile \in {"none", "bad"} \cup {CHOOSE k \in ApiKeys : TRUE}
  /\ keyMem = "none" /\ netEnv = [lan |-> FALSE, key |-> "unset"] /\ listening = Down
  /\ calls = [c \in NetCallers |-> Idle] /\ storeLock = "none"
  /\ netHistory = [starts |-> 0, found |-> stateFile, saved |-> stateFile, agreed |-> FALSE]

-----------------------------------------------------------------------------
(* Reading.                                                                 *)

\* Regression form: a file of a newer schema is taken for a malformed one.
LoadAnything(state, left) ==
  \/ stateFile.kind = "state" /\ state = stateFile /\ left = stateFile
  \/ stateFile.kind # "state" /\ state = Default /\ left = NoFile

\* load: what is read and what is left of the file.  A malformed file is moved aside, or
\* stays where it is; a newer one and an inaccessible one are errors.
Load(state, left) ==
  \/ stateFile.kind = "state" /\ state = stateFile /\ left = stateFile
  \/ stateFile = NoFile /\ state = Default /\ left = NoFile
  \/ stateFile = Malformed /\ state = Default /\ left \in {NoFile, Malformed}

\* get_key
StoredKey(mem) == IF mem # "none" THEN mem ELSE IF keyFile \in ApiKeys THEN keyFile ELSE "none"
EffectiveKey(env, mem) == IF env.key = "unset" THEN StoredKey(mem) ELSE env.key

\* Regression form: the setting is followed whatever the key.
ResolveUnguarded(state, env, mem) ==
  [up |-> TRUE, key |-> EffectiveKey(env, mem), lan |-> env.lan \/ state.lan, cors |-> state.cors]

\* resolve_desktop_network_settings: without a key neither the network nor every origin
Resolve(state, env, mem) ==
  LET key == EffectiveKey(env, mem) IN
  [up |-> TRUE, key |-> key, lan |-> (env.lan \/ state.lan) /\ key # "none",
   cors |-> IF key = "none" THEN "none" ELSE state.cors]

StartServer ==
  /\ ~listening.up /\ netHistory.starts < MaxStarts
  /\ \E env \in Environments,
        state \in States, left \in States \cup {NoFile, Malformed} :
       /\ Load(state, left) /\ stateFile' = left
       /\ netEnv' = env /\ listening' = Resolve(state, env, "none")
       /\ keyMem' = IF env.key = "unset" THEN StoredKey("none") ELSE "none"
       /\ netHistory' = [netHistory EXCEPT !.starts = @ + 1, !.agreed = FALSE,
                                           !.saved = IF left = NoFile THEN NoFile ELSE @]
  /\ UNCHANGED <<keyFile, calls, storeLock>>

\* The process ends, in the middle of an update or not.
EndServer ==
  /\ listening.up /\ listening' = Down /\ keyMem' = "none"
  /\ calls' = [c \in NetCallers |-> Idle] /\ storeLock' = "none"
  /\ UNCHANGED <<stateFile, keyFile, netEnv, netHistory>>

-----------------------------------------------------------------------------
(* Updates.                                                                 *)

NetRequests ==
  [lan : BOOLEAN, cors : CorsSettings, key : ApiKeys \cup {"keep", "remove"}]

ProposedKey(r) ==
  IF netEnv.key # "unset" THEN netEnv.key
  ELSE IF r.key = "remove" THEN "none" ELSE IF r.key = "keep" THEN StoredKey(keyMem) ELSE r.key

\* (Every origin is also confirmed by the user.)
Acceptable(r) ==
  /\ netEnv.key # "unset" => r.key = "keep"
  /\ r.lan => ProposedKey(r) # "none"
  /\ r.cors = "any" => ProposedKey(r) # "none"

\* Regression form: reading and writing are each under the lock, but not both together.
LocksToRead(c, changes) ==
  /\ listening.up /\ calls[c].pc = "idle"
  /\ \E state \in States, left \in States \cup {NoFile, Malformed} :
       /\ Load(state, left) /\ stateFile' = left
       /\ netHistory' = [netHistory EXCEPT !.saved = IF left = NoFile THEN NoFile ELSE @]
       /\ calls' = [calls EXCEPT ![c] = [pc |-> "locked", read |-> state, changes |-> changes]]
  /\ UNCHANGED <<keyFile, netEnv, listening, storeLock>>

\* store.update reads under the lock; get_key may have read the key.
Locks(c, changes) ==
  /\ listening.up /\ calls[c].pc = "idle" /\ storeLock = "none" /\ storeLock' = c
  /\ \E state \in States, left \in States \cup {NoFile, Malformed} :
       /\ Load(state, left) /\ stateFile' = left
       /\ netHistory' = [netHistory EXCEPT !.saved = IF left = NoFile THEN NoFile ELSE @]
       /\ calls' = [calls EXCEPT ![c] = [pc |-> "locked", read |-> state, changes |-> changes]]
  /\ UNCHANGED <<keyFile, netEnv, listening>>

UpdateNetwork ==
  /\ \E r \in NetRequests : Acceptable(r) /\ Locks(Network, r)
  /\ keyMem' = IF netEnv.key = "unset" THEN StoredKey(keyMem) ELSE keyMem

UpdateSetup ==
  /\ \E completed \in BOOLEAN : Locks(Setup, completed)
  /\ UNCHANGED keyMem

Merged(c) ==
  LET k == calls[c] IN
  IF c = Setup THEN [k.read EXCEPT !.completed = k.changes]
  ELSE [k.read EXCEPT !.lan = k.changes.lan, !.cors = k.changes.cors]

\* What was saved is remembered with the caller's own part replaced.
Recorded(c) ==
  LET k == calls[c]
      before == IF netHistory.saved.kind = "state" THEN netHistory.saved ELSE Default
  IN IF c = Setup THEN [before EXCEPT !.completed = k.changes]
     ELSE [before EXCEPT !.lan = k.changes.lan, !.cors = k.changes.cors]

SaveState(c) ==
  /\ calls[c].pc = "locked" /\ storeLock' = "none" /\ UNCHANGED <<keyFile, keyMem, netEnv, listening>>
  /\ \/ /\ stateFile' = Merged(c)
        /\ netHistory' = [netHistory EXCEPT !.saved = Recorded(c), !.agreed = IF c = Network THEN FALSE ELSE @]
        /\ calls' = [calls EXCEPT ![c] = IF c = Network THEN [pc |-> "secret", key |-> @.changes.key] ELSE Idle]
     \/ calls' = [calls EXCEPT ![c] = Idle] /\ UNCHANGED <<stateFile, netHistory>>

\* The key is replaced or removed after the settings; when that fails they stay saved.
SaveKey ==
  /\ calls[Network].pc = "secret" /\ calls' = [calls EXCEPT ![Network] = Idle]
  /\ LET key == calls[Network].key IN
     \/ /\ IF key = "keep" THEN UNCHANGED <<keyFile, keyMem>>
           ELSE keyFile' = (IF key = "remove" THEN "none" ELSE key) /\ keyMem' = keyFile'
        /\ netHistory' = [netHistory EXCEPT !.agreed = TRUE]
     \/ key # "keep" /\ UNCHANGED <<keyFile, keyMem, netHistory>>
  /\ UNCHANGED <<stateFile, netEnv, listening, storeLock>>

NetNext ==
  \/ StartServer \/ EndServer \/ UpdateNetwork \/ UpdateSetup \/ SaveKey
  \/ \E c \in NetCallers : SaveState(c)

NetSpec == NetInit /\ [][NetNext]_netVars

-----------------------------------------------------------------------------
\* The server is reachable from the network, or by every origin, only with a key
\* (desktop_network.py:338-360).
ExposedOnlyWithKey == listening.lan \/ listening.cors = "any" => listening.key # "none"

\* A state file of a newer version is never moved, replaced or read as an empty one
\* (onboarding_state.py:97-103).
NewerKept == netHistory.found = Newer => stateFile = Newer

\* The setup and the network settings never overwrite each other in the file they share
\* (onboarding_state.py:207-213).
SettingsKept == stateFile.kind = "state" => stateFile = netHistory.saved

\* The key in use is the one on disk; and settings that were reported as saved have the key
\* they need, so that the next start follows them.
KeyTruthful ==
  /\ keyMem # "none" => keyMem = keyFile
  /\ netHistory.agreed /\ calls[Network].pc = "idle" /\ stateFile.kind = "state" /\ stateFile.lan
       => EffectiveKey(netEnv, keyMem) # "none"

\* What the desktop settings promise.
NetworkSafe == ExposedOnlyWithKey /\ NewerKept /\ SettingsKept /\ KeyTruthful
=============================================================================
