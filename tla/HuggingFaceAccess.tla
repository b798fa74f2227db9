--------------------------- MODULE HuggingFaceAccess ---------------------------
(***************************************************************************)
(* The Hugging Face token and the access check before a conversion:         *)
(* app/huggingface_access.py.                                               *)
(*                                                                         *)
(* Requests are coroutines of one event loop; each asks Hugging Face up to  *)
(* twice, and between the question and the answer other requests may        *)
(* replace or remove the token, the publisher may approve the account, and  *)
(* the server may restart.  A step of a request runs to its next question.  *)
(* The cache lock is never held across an await, so taking it never waits.  *)
(*                                                                         *)
(* There is one gated repository.  A cached answer that is a minute old is  *)
(* as good as gone: Expire takes it away at any time.                       *)
(***************************************************************************)
EXTENDS Naturals, FiniteSets

CONSTANTS Tokens, NoToken,
          EnvTokens,     \* tokens HF_TOKEN may hold
          HfRequests     \* coroutines that may be at work at once

ASSUME HfAssumption == NoToken \notin Tokens /\ EnvTokens \subseteq Tokens

Keys == Tokens \cup {NoToken}          \* _token_fingerprint, "anonymous" for NoToken
Unset == "none"
\* "refused" stands for a missing or invalid token, a rate limit or no connection.
AccessAnswers == {"granted", "approval_required", "refused"}

VARIABLES
  hfWindows,  \* os.name == "nt": tokens are kept on disk
  hfEnv,      \* HF_TOKEN
  hfMemory,   \* HuggingFaceCredentialStore._memory_token
  hfDisk,     \* the token file
  hfMeta,     \* the metadata file: the token it calls connected, "failed" or none
  hfCache,    \* HuggingFaceAccessService._cache, by token
  hfReq,      \* the requests
  hfApproved, \* at Hugging Face: the user's account may read the repository
  hfGranted,  \* history: tokens Hugging Face has let read the repository
  hfKnown     \* history: tokens Hugging Face has called valid

hfFixed == <<hfWindows, hfEnv>>
hfStore == <<hfMemory, hfDisk>>
hfHistory == <<hfGranted, hfKnown>>
hfVars == <<hfFixed, hfStore, hfMeta, hfCache, hfReq, hfApproved, hfHistory>>

NoHfRequest == [op |-> "none", place |-> "idle", token |-> NoToken, answer |-> Unset]

HfTypeOK ==
  /\ hfWindows \in BOOLEAN /\ hfEnv \in EnvTokens \cup {NoToken}
  /\ hfMemory \in Keys /\ hfDisk \in Keys
  /\ hfMeta \in Tokens \cup {Unset, "failed"}
  /\ hfCache \in [Keys -> AccessAnswers \cup {Unset}]
  /\ hfReq \in [HfRequests -> [op : {"none", "save", "test", "check"},
                               place : {"idle", "whoami", "probe", "done"},
                               token : Keys,
                               answer : AccessAnswers \cup {Unset}]]
  /\ hfApproved \in BOOLEAN
  /\ hfKnown \subseteq Tokens /\ hfGranted \subseteq Tokens

HfInit ==
  /\ hfMemory = NoToken /\ hfDisk = NoToken
  /\ hfMeta = Unset
  /\ hfCache = [t \in Keys |-> Unset]
  /\ hfReq = [r \in HfRequests |-> NoHfRequest]
  /\ hfGranted = {} /\ hfKnown = {} /\ hfApproved = FALSE
  /\ hfWindows \in BOOLEAN /\ hfEnv \in EnvTokens \cup {NoToken}

\* get_token: the token in memory, else the file (which is then remembered, or cannot
\* be read or decrypted), else the environment.
Current(token) ==
  \/ hfMemory # NoToken /\ token = hfMemory /\ UNCHANGED hfStore
  \/ /\ hfMemory = NoToken /\ hfDisk # NoToken /\ token = hfDisk
     /\ hfMemory' = hfDisk /\ UNCHANGED hfDisk
  \/ hfMemory = NoToken /\ token = hfEnv /\ UNCHANGED hfStore

Become(r, op, place, token, answer) ==
  hfReq' = [hfReq EXCEPT ![r] = [op |-> op, place |-> place, token |-> token, answer |-> answer]]

\* The answer to a test is not kept: only its record is.
Reply(r, answer) ==
  hfReq' = [hfReq EXCEPT ![r] = IF @.op = "test" THEN NoHfRequest
                                ELSE [@ EXCEPT !.place = "done", !.answer = answer]]

(***************************************************************************)
(* A request up to its first question.                                      *)
(***************************************************************************)
BeginSave(r, t) ==
  /\ hfReq[r].place = "idle"
  /\ Become(r, "save", "whoami", t, Unset)
  /\ UNCHANGED <<hfFixed, hfStore, hfMeta, hfCache, hfApproved, hfHistory>>

BeginTest(r) ==
  /\ hfReq[r].place = "idle"
  /\ \E token \in Keys :
       /\ Current(token)
       /\ IF token = NoToken
            THEN hfMeta' = "failed" /\ UNCHANGED hfReq
            ELSE Become(r, "test", "whoami", token, Unset) /\ UNCHANGED hfMeta
  /\ UNCHANGED <<hfFixed, hfCache, hfApproved, hfHistory>>

\* Regression form: the key is the token in use when the answer arrives.
KeyInUse(token) == hfMemory

\* The key under which an answer about a token is kept.
KeyOf(token) == token

\* preflight, called by its route or by the middleware in front of a conversion, for a
\* model that the catalog calls gated or says nothing of.
BeginPreflight(r) ==
  /\ hfReq[r].place = "idle"
  /\ \E token \in Keys, listed \in BOOLEAN :
       /\ Current(token)
       /\ IF listed /\ token = NoToken
            THEN Become(r, "check", "done", token, "refused")
          ELSE IF hfCache[KeyOf(token)] # Unset
            THEN Become(r, "check", "done", token, hfCache[KeyOf(token)])
            ELSE Become(r, "check", IF token = NoToken THEN "probe" ELSE "whoami", token, Unset)
  /\ UNCHANGED <<hfFixed, hfMeta, hfCache, hfApproved, hfHistory>>

(***************************************************************************)
(* The answer of whoami-v2, which may be no answer at all.  A candidate     *)
(* that the user supplied leaves the record alone unless it is saved.       *)
(***************************************************************************)
\* Regression form: a rejected replacement is recorded as the state of the token.
WhoamiFailsRecorded(r) ==
  /\ hfReq[r].place = "whoami"
  /\ Reply(r, "refused")
  /\ hfMeta' = "failed"
  /\ UNCHANGED <<hfFixed, hfStore, hfCache, hfApproved, hfHistory>>

WhoamiFails(r) ==
  /\ hfReq[r].place = "whoami"
  /\ Reply(r, "refused")
  /\ hfMeta' = IF hfReq[r].op = "save" THEN hfMeta ELSE "failed"
  /\ UNCHANGED <<hfFixed, hfStore, hfCache, hfApproved, hfHistory>>

WhoamiConfirms(r) ==
  /\ hfReq[r].place = "whoami" /\ hfReq[r].op # "save"
  /\ hfKnown' = hfKnown \cup {hfReq[r].token}
  /\ hfMeta' = hfReq[r].token
  /\ IF hfReq[r].op = "test" THEN Reply(r, "granted")
                             ELSE hfReq' = [hfReq EXCEPT ![r].place = "probe"]
  /\ UNCHANGED <<hfFixed, hfStore, hfCache, hfApproved, hfGranted>>

\* set_token writes the file first, where there is one; the cache is cleared at the end.
SaveToken(r) ==
  LET token == hfReq[r].token IN
  /\ hfReq[r].place = "whoami" /\ hfReq[r].op = "save"
  /\ hfKnown' = hfKnown \cup {token}
  /\ \/ /\ hfMemory' = token
        /\ hfDisk' = IF hfWindows THEN token ELSE hfDisk
        /\ hfMeta' = token
        /\ hfCache' = [t \in Keys |-> Unset]
        /\ Reply(r, "granted")
     \/ /\ hfWindows
        /\ Reply(r, "refused")
        /\ UNCHANGED <<hfStore, hfMeta, hfCache>>
  /\ UNCHANGED <<hfFixed, hfApproved, hfGranted>>

(***************************************************************************)
(* The answer about the repository; whatever it is, it is kept a minute.    *)
(***************************************************************************)
Verdict(token) ==
  IF token = NoToken THEN "refused" ELSE IF hfApproved THEN "granted" ELSE "approval_required"

ProbeAnswers(r) ==
  LET token == hfReq[r].token IN
  /\ hfReq[r].place = "probe"
  /\ \E said \in {Verdict(token), "refused"} :
       /\ hfGranted' = IF said = "granted" THEN hfGranted \cup {token} ELSE hfGranted
       /\ hfCache' = [hfCache EXCEPT ![KeyOf(token)] = said]
       /\ Reply(r, said)
  /\ UNCHANGED <<hfFixed, hfStore, hfMeta, hfApproved, hfKnown>>

Expire(t) ==
  /\ hfCache[t] # Unset
  /\ hfCache' = [hfCache EXCEPT ![t] = Unset]
  /\ UNCHANGED <<hfFixed, hfStore, hfMeta, hfReq, hfApproved, hfHistory>>

\* The client has its answer; a conversion that was granted has been handed on.
TakeAnswer(r) ==
  /\ hfReq[r].place = "done"
  /\ hfReq' = [hfReq EXCEPT ![r] = NoHfRequest]
  /\ UNCHANGED <<hfFixed, hfStore, hfMeta, hfCache, hfApproved, hfHistory>>

\* DELETE of the token.  An error of the file keeps everything, so it is no step; one of
\* the metadata file is ignored.
RemoveToken ==
  /\ hfMemory # NoToken \/ hfDisk # NoToken
  /\ hfMemory' = NoToken /\ hfDisk' = NoToken
  /\ hfMeta' \in {Unset, hfMeta}
  /\ hfCache' = [t \in Keys |-> Unset]
  /\ UNCHANGED <<hfFixed, hfReq, hfApproved, hfHistory>>

HfRestart ==
  /\ hfMemory # NoToken \/ \E r \in HfRequests : hfReq[r] # NoHfRequest
  /\ hfMemory' = NoToken
  /\ hfCache' = [t \in Keys |-> Unset]
  /\ hfReq' = [r \in HfRequests |-> NoHfRequest]
  /\ UNCHANGED <<hfFixed, hfDisk, hfMeta, hfApproved, hfHistory>>

\* The publisher approves the account, at Hugging Face.
Approve ==
  /\ ~hfApproved
  /\ hfApproved' = TRUE
  /\ UNCHANGED <<hfFixed, hfStore, hfMeta, hfCache, hfReq, hfHistory>>

HfNext ==
  \/ \E r \in HfRequests :
       \/ \E t \in Tokens : BeginSave(r, t)
       \/ BeginTest(r) \/ BeginPreflight(r)
       \/ WhoamiFails(r) \/ WhoamiConfirms(r) \/ SaveToken(r)
       \/ ProbeAnswers(r) \/ TakeAnswer(r)
  \/ \E t \in Keys : Expire(t)
  \/ RemoveToken \/ HfRestart \/ Approve

HfSpec == HfInit /\ [][HfNext]_hfVars

-----------------------------------------------------------------------------
\* The token in use is the one a restart finds, on the platform that keeps it
\* (huggingface_access.py:234), and it was verified before it was stored.
TokenSurvivesRestart == hfWindows /\ hfMemory # NoToken => hfDisk = hfMemory
StoredIsVerified == {hfMemory, hfDisk} \subseteq hfKnown \cup {NoToken}

\* Whatever happened between the questions, a grant that is kept or given is one Hugging
\* Face gave to that very token; so no conversion passes the middleware with the access
\* of another token (huggingface_access.py:479, :790).
CacheIsOfItsToken == \A t \in Keys : hfCache[t] = "granted" => t \in hfGranted
PassedWasGranted ==
  \A r \in HfRequests :
    hfReq[r].op = "check" /\ hfReq[r].answer = "granted" => hfReq[r].token \in hfGranted

HfSafe == TokenSurvivesRestart /\ StoredIsVerified /\ CacheIsOfItsToken /\ PassedWasGranted

\* A replacement that fails, for whatever reason, leaves the token, its recorded status
\* and the answers kept as they were (tests/test_huggingface_access.py:219).
FailedReplacementChangesNothing ==
  [][\A r \in HfRequests :
       (hfReq[r].op = "save" /\ hfReq[r].place = "whoami" /\ hfReq'[r].answer = "refused")
         => UNCHANGED <<hfStore, hfMeta, hfCache>>]_hfVars

\* What the settings page takes for granted when it shows "Connected as": the recorded
\* status is that of the token in use (huggingface_access_ui.py, renderStatus).
StatusIsOfTheToken == hfMeta \in Tokens /\ hfMemory # NoToken => hfMeta = hfMemory

\* What the access dialog promises with "complete approval, then check access again"
\* (huggingface_access_ui.py, issuePresentation): a check after the approval sees it.
ApprovalIsSeen ==
  [][\A r \in HfRequests :
       (hfReq[r].place = "idle" /\ hfReq'[r].answer = "approval_required") => ~hfApproved]_hfVars
===============================================================================
